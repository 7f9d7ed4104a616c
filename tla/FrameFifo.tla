------------------------------- MODULE FrameFifo -------------------------------
(***************************************************************************)
(* What the stdout queue of the language server promises its session: a    *)
(* frame that it accepts waits, and the client gets the frames whole, one  *)
(* after the other, in the order they were accepted, none twice and none   *)
(* skipped.  A frame may wait forever, but it is never dropped from the    *)
(* middle.  This is the contract of output_queue.rs's module comment       *)
(* ("Accepted frames are not discarded to make room"); OutputQueue         *)
(* implements it.                                                          *)
(***************************************************************************)
EXTENDS Sequences

CONSTANT Frames

VARIABLES
  waiting,     \* frames accepted and not yet delivered, the oldest first
  delivered    \* frames delivered, in order

fifoVars == <<waiting, delivered>>

Init == waiting = <<>> /\ delivered = <<>>

Put(f) == waiting' = Append(waiting, f) /\ UNCHANGED delivered

Deliver ==
  /\ waiting # <<>>
  /\ delivered' = Append(delivered, Head(waiting)) /\ waiting' = Tail(waiting)

Next == Deliver \/ \E f \in Frames : Put(f)

Spec == Init /\ [][Next]_fifoVars
=============================================================================
