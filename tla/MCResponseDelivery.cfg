SPECIFICATION FairDelivery
CONSTANTS
  Capacity = 1
  Budget = 3
  Sizes = {1, 4}
  MaxFrames = 14
  Kinds = {"pull", "cancel", "edit", "full", "eof"}
  InputCapacity = 1
  Buffered = 1
  MaxBatch = 2
  Replies = {0, 4}
  PageSizes = {1}
  MaxEvents = 3
  MaxPages = 2
  MaxReplies = 4
INVARIANTS HeldExact OkIsDelivered EventsKept OneEnd BackPressure
PROPERTIES ImplementsFifo ShutdownEnds Serves
