------------------------------ MODULE OutputQueue ------------------------------
(***************************************************************************)
(* The stdout queue of the language server                                 *)
(* (crates/krusty-lsp/src/server/output_queue.rs): the session's thread    *)
(* hands frames to a writer thread through a bounded channel and a FIFO of *)
(* frames that wait for it, within one budget of bytes; shutdown drains    *)
(* them within a grace period.                                             *)
(*                                                                         *)
(* The two threads interleave at every access to what they share: the      *)
(* channel, the count of held bytes, the writer's error.  A frame is a     *)
(* number and a size; the client may stop reading, or go away.             *)
(***************************************************************************)
EXTENDS Integers, Sequences, FiniteSets, SequencesExt

CONSTANTS
  Capacity,    \* OUTPUT_CHANNEL_FRAMES
  Budget,      \* OUTPUT_STAGED_BYTES
  Sizes,       \* the sizes frames may have
  MaxFrames    \* bound of the model

ASSUME OutputAssumption ==
  /\ Capacity \in Nat \ {0} /\ Budget \in Nat /\ MaxFrames \in Nat
  /\ Sizes \subseteq Nat \ {0}

VARIABLES
  main,        \* what the session's thread is doing
  op,          \* the operation it is in: a flush, a test for idleness, the shutdown
  current,     \* the frame written and not yet flushed, or NoFrame
  pending,     \* frames accepted and not yet in the channel
  failed,      \* OutputQueue.failed is set
  outcome,     \* what the steps of the operation so far returned
  channel, open,  \* the channel, and whether its sender is alive
  held,        \* bytes accepted and not yet written
  writer,      \* the writer thread
  taken,       \* the frame it has taken from the channel
  writerError, \* the writer failed
  expired,     \* the grace of the shutdown is over
  result,      \* what finish returned
  written, frames  \* history: the frames the client has read, the number made

mainVars == <<main, op, current, pending, failed, outcome, result, frames>>
writerVars == <<writer, taken, writerError, written>>
vars == <<mainVars, writerVars, channel, open, held, expired>>

NoFrame == [id |-> 0, size |-> 0]

Init ==
  /\ main = "idle" /\ op = "none" /\ current = NoFrame /\ pending = <<>> /\ failed = FALSE
  /\ outcome = "ok" /\ result = "none"
  /\ channel = <<>> /\ open = TRUE /\ held = 0
  /\ writer = "recv" /\ taken = NoFrame /\ writerError = FALSE
  /\ expired = FALSE /\ written = <<>> /\ frames = 0

-------------------------------------------------------------------------------
(* The writer thread.                                                      *)

Take ==
  /\ writer = "recv" /\ channel # <<>>
  /\ taken' = Head(channel) /\ channel' = Tail(channel) /\ writer' = "write"
  /\ UNCHANGED <<mainVars, writerError, written, open, held, expired>>

\* The client reads the frame.
Write ==
  /\ writer = "write"
  /\ written' = Append(written, taken) /\ writer' = "release"
  /\ UNCHANGED <<mainVars, taken, writerError, channel, open, held, expired>>

Release ==
  /\ writer = "release"
  /\ held' = held - taken.size /\ taken' = NoFrame /\ writer' = "recv"
  /\ UNCHANGED <<mainVars, writerError, written, channel, open, expired>>

WriteFails ==
  /\ writer = "write"
  /\ writerError' = TRUE /\ writer' = "exit"
  /\ UNCHANGED <<mainVars, taken, written, channel, open, held, expired>>

\* The writer ends and drops its end of the channel.
WriterExits ==
  /\ writer = "exit" \/ (writer = "recv" /\ channel = <<>> /\ ~open)
  /\ writer' = "done"
  /\ UNCHANGED <<mainVars, taken, writerError, written, channel, open, held, expired>>

-------------------------------------------------------------------------------
(* The session's thread.  Each of its operations is a sequence of steps:   *)
(* flush is poll, pump, accept, pump, poll; is_idle is poll, pump, poll.   *)
(* Between two operations the thread is "idle", or at "is idle" after an   *)
(* idle test that said yes; after a failed operation it is "broken".       *)

Ready == main \in {"idle", "is idle"}
Bad == failed \/ writerError

Return(r) ==
  /\ main' = CASE op = "shutdown" -> "drain" [] r = "error" -> "broken" [] OTHER -> "idle"
  /\ outcome' = IF op = "shutdown" THEN r ELSE "ok"
  /\ op' = IF op = "shutdown" THEN op ELSE "none"

\* write_framed: a frame of one of the sizes S is buffered, then flushed.
WriteFrame(S) ==
  /\ Ready /\ frames < MaxFrames
  /\ IF Bad THEN /\ failed' = TRUE /\ main' = "broken" /\ UNCHANGED <<current, frames, op>>
     ELSE /\ \E s \in S : current' = [id |-> frames + 1, size |-> s]
          /\ frames' = frames + 1 /\ main' = "poll" /\ op' = "flush" /\ UNCHANGED failed
  /\ UNCHANGED <<pending, outcome, result, writerVars, channel, open, held, expired>>

\* A paged response asks whether its last page has been written.
AskIdle ==
  /\ Ready /\ main' = "poll" /\ op' = "idle"
  /\ UNCHANGED <<current, pending, failed, outcome, result, frames, writerVars,
                 channel, open, held, expired>>

\* The connection ends, because the client said so or because of an error.
Finish ==
  /\ Ready \/ main = "broken"
  /\ main' = "poll" /\ op' = "shutdown"
  /\ UNCHANGED <<current, pending, failed, outcome, result, frames, writerVars,
                 channel, open, held, expired>>

\* poll_writer_failure, at the start of an operation.
Poll ==
  /\ main = "poll"
  /\ failed' = Bad
  /\ IF Bad THEN Return("error") ELSE main' = "pump" /\ UNCHANGED <<outcome, op>>
  /\ UNCHANGED <<current, pending, result, frames, writerVars, channel, open, held,
                 expired>>

\* Where the steps of an operation go after a pump that returned r.
AfterPump(r) ==
  CASE main = "pump" /\ r = "error" -> Return("error")
    [] main = "pump" /\ r # "error" -> /\ main' = IF op = "idle" THEN "poll2" ELSE "accept"
                                       /\ UNCHANGED <<outcome, op>>
    [] main = "pump2" -> main' = "poll2" /\ outcome' = (IF r = "error" THEN r ELSE outcome)
                         /\ UNCHANGED op
    [] main = "pump3" -> main' = "drain" /\ outcome' = r /\ UNCHANGED op

Pumping == main \in {"pump", "pump2", "pump3"}

\* Mutant: the frame added last is handed on first.
PumpNewestFirst ==
  /\ Pumping /\ pending # <<>> /\ writer # "done" /\ Len(channel) < Capacity
  /\ channel' = Append(channel, Last(pending)) /\ pending' = Front(pending)
  /\ UNCHANGED <<main, op, current, failed, outcome, result, frames, writerVars, open,
                 held, expired>>

\* The frame that has waited longest goes to the channel while there is room.
PumpOne ==
  /\ Pumping /\ pending # <<>> /\ writer # "done" /\ Len(channel) < Capacity
  /\ channel' = Append(channel, Head(pending)) /\ pending' = Tail(pending)
  /\ UNCHANGED <<main, op, current, failed, outcome, result, frames, writerVars, open,
                 held, expired>>

\* Nothing waits, or the channel is full: success either way.
PumpEnds ==
  /\ Pumping /\ (pending = <<>> \/ (writer # "done" /\ Len(channel) = Capacity))
  /\ AfterPump("ok")
  /\ UNCHANGED <<current, pending, failed, result, frames, writerVars, channel, open,
                 held, expired>>

\* The writer is gone: its frame goes back, and is not counted any more.
PumpFails ==
  /\ Pumping /\ pending # <<>> /\ writer = "done"
  /\ held' = held - Head(pending).size
  /\ failed' = TRUE
  /\ AfterPump("error")
  /\ UNCHANGED <<current, pending, result, frames, writerVars, channel, open, expired>>

\* Mutant: the bytes already held are not counted.
FitsWithoutHeld == current.size <= Budget

\* A frame is accepted only within the budget of the bytes held already.
Fits == current.size <= Budget /\ held + current.size <= Budget

Accept ==
  /\ main = "accept" /\ main' = "pump2"
  /\ current' = NoFrame
  /\ IF current = NoFrame THEN UNCHANGED <<failed, held, pending, outcome>>
     ELSE IF Bad \/ ~Fits
     THEN failed' = TRUE /\ outcome' = "error" /\ UNCHANGED <<held, pending>>
     ELSE /\ held' = held + current.size
          /\ pending' = Append(pending, current)
          /\ UNCHANGED <<failed, outcome>>
  /\ UNCHANGED <<op, result, frames, writerVars, channel, open, expired>>

\* Mutant: what the channel and the writer hold is forgotten.
IdleIgnoringHeld == current = NoFrame /\ pending = <<>>

\* What is_idle answers.
IsIdle == current = NoFrame /\ pending = <<>> /\ held = 0

\* The last poll of an operation, and its answer.
Poll2 ==
  /\ main = "poll2"
  /\ failed' = Bad
  /\ IF op = "idle" /\ ~Bad
     THEN main' = (IF IsIdle THEN "is idle" ELSE "idle") /\ op' = "none" /\ UNCHANGED outcome
     ELSE Return(IF Bad THEN "error" ELSE outcome)
  /\ UNCHANGED <<current, pending, result, frames, writerVars, channel, open, held,
                 expired>>

-------------------------------------------------------------------------------
(* Shutdown: after the flush, frames are handed on until the grace is      *)
(* over; then the channel is closed and the writer awaited for the rest of *)
(* the grace.                                                              *)

InShutdown == op = "shutdown" /\ main \notin {"finished"}

Expire ==
  /\ InShutdown /\ ~expired /\ expired' = TRUE
  /\ UNCHANGED <<mainVars, writerVars, channel, open, held>>

\* Mutant: shutdown closes the channel at once.
DrainingNever == FALSE

\* Mutant: the grace is not asked about.
DrainingUntilSent == outcome = "ok" /\ pending # <<>>

\* The condition of the loop that hands frames on as the writer makes room.
Draining == outcome = "ok" /\ pending # <<>> /\ ~expired

DrainMore ==
  /\ main = "drain" /\ Draining
  /\ main' = "pump3"
  /\ UNCHANGED <<op, current, pending, failed, outcome, result, frames, writerVars,
                 channel, open, held, expired>>

Close ==
  /\ main = "drain" /\ ~Draining
  /\ main' = "await" /\ open' = FALSE
  /\ UNCHANGED <<op, current, pending, failed, outcome, result, frames, writerVars,
                 channel, held, expired>>

\* The writer ended: its error, or what the flush returned.
Joined ==
  /\ main = "await" /\ writer = "done"
  /\ main' = "finished" /\ failed' = Bad
  /\ result' = IF Bad THEN "error" ELSE outcome
  /\ UNCHANGED <<op, current, pending, outcome, frames, writerVars, channel, open, held,
                 expired>>

\* The writer is still blocked: it is left behind.
Parked ==
  /\ main = "await" /\ writer # "done" /\ expired
  /\ main' = "finished" /\ result' = "timed out"
  /\ UNCHANGED <<op, current, pending, failed, outcome, frames, writerVars, channel,
                 open, held, expired>>

Finished == main = "finished" /\ UNCHANGED vars

\* The steps of an operation that has begun.
Proceed ==
  \/ Poll \/ PumpOne \/ PumpEnds \/ PumpFails \/ Accept \/ Poll2
  \/ DrainMore \/ Close \/ Joined \/ Parked

Main == WriteFrame(Sizes) \/ AskIdle \/ Finish \/ Proceed
Writer == Take \/ Write \/ Release \/ WriteFails \/ WriterExits
Next == Main \/ Writer \/ Expire \/ Finished

Busy == ~Ready /\ main # "finished"

(* The session's thread goes on with what it has begun and time passes;    *)
(* the client need not read, so nothing is assumed of the writer.          *)
Spec == Init /\ [][Next]_vars
FairSpec == Spec /\ WF_vars(Busy /\ Main) /\ WF_vars(Expire)

-------------------------------------------------------------------------------
Frame == [id : 0 .. MaxFrames, size : Sizes \union {0}]

TypeOK ==
  /\ main \in {"idle", "poll", "pump", "accept", "pump2", "poll2", "is idle", "broken", "drain",
               "pump3", "await", "finished"}
  /\ op \in {"none", "flush", "idle", "shutdown"} /\ outcome \in {"ok", "error"}
  /\ {current, taken} \subseteq Frame
  /\ ToSet(pending \o channel \o written) \subseteq Frame
  /\ Len(channel) <= Capacity /\ held \in Nat
  /\ writer \in {"recv", "write", "release", "exit", "done"}
  /\ {failed, open, writerError, expired} \subseteq BOOLEAN
  /\ result \in {"none", "ok", "error", "timed out"}

Bytes(fs) ==
  LET sum[i \in 0 .. Len(fs)] == IF i = 0 THEN 0 ELSE sum[i - 1] + fs[i].size
  IN  sum[Len(fs)]
Unsent == pending \o channel \o <<taken>>

\* The frame in the writer's hands, from the channel until the client has it.
InHand == IF writer \in {"write", "exit", "done"} /\ taken # NoFrame THEN <<taken>> ELSE <<>>

\* Every frame accepted that the client does not have, the oldest first.
Waiting == InHand \o channel \o pending

Fifo == INSTANCE FrameFifo WITH
  Frames <- Frame, waiting <- Waiting, delivered <- written

(* The queue implements a FIFO: through the hand-over from the waiting     *)
(* frames to the channel and to the writer, through full channels, failed  *)
(* writes and shutdown, the client gets the accepted frames in order, none *)
(* skipped and none twice.                                                 *)
ImplementsFifo == Fifo!Spec

(* The count of held bytes, which two threads update, is exact until the   *)
(* transport fails, and what is held never exceeds the budget.             *)
HeldExact ==
  /\ ~Bad => held = Bytes(Unsent)
  /\ Bytes(Unsent) <= Budget

(* A shutdown that reports success before its grace was over delivered     *)
(* every frame it ever accepted.                                           *)
OkIsDelivered == (result = "ok" /\ ~expired) => Waiting = <<>>

\* A connection that ends is ended, however the client behaves.
ShutdownEnds == main = "broken" \/ op = "shutdown" ~> main = "finished"
=============================================================================
