SPECIFICATION DeliverySpec
CONSTANTS
  Capacity = 1
  Budget = 3
  Sizes = {1}
  MaxFrames = 13
  Kinds = {"pull", "edit"}
  InputCapacity = 1
  Buffered = 1
  MaxBatch = 2
  Replies = {0}
  PageSizes = {1}
  MaxEvents = 4
  MaxPages = 2
  MaxReplies = 0
INVARIANTS ChangesInOrder
