--------------------------- MODULE ResponseDelivery ---------------------------
(***************************************************************************)
(* The session's loop of the language server (run_async_loop in            *)
(* crates/krusty-lsp/src/server/implementation.rs) with the paged          *)
(* responses of response_delivery.rs and diagnostic_page.rs, composed with *)
(* the stdout queue that it writes to (OutputQueue).                       *)
(*                                                                         *)
(* While a paged response is on its way the loop applies no other event:   *)
(* it keeps what arrives, looks for the cancellation of the response, and  *)
(* writes a page each time the queue is idle.  An event is its number in   *)
(* the order of arrival and its kind: a pull is a workspace/diagnostic     *)
(* request, a cancel names the last pull, edit and full are incremental    *)
(* and whole changes of the one document, other is anything else, of the   *)
(* client or of the engine.  The engine keeps its end of the channel for   *)
(* as long as the loop runs, so the channel never reports a disconnection. *)
(* The project refresh, which the loop also runs when it is due, is left   *)
(* out: to this loop it is one more source of frames.                      *)
(***************************************************************************)
EXTENDS OutputQueue

CONSTANTS
  Kinds,          \* the kinds of events that arrive
  InputCapacity,  \* INPUT_QUEUE_CAPACITY
  Buffered,       \* MAX_INPUTS_BUFFERED_DURING_DIAGNOSTIC_STREAM
  MaxBatch,       \* MAX_BATCH_MESSAGES
  Replies,        \* how many messages the dispatch of an event may write
  PageSizes,      \* the sizes of a stream's messages: each fits an empty queue
  MaxEvents, MaxPages, MaxReplies  \* bounds of the model

ASSUME DeliveryAssumption ==
  /\ {InputCapacity, Buffered, MaxBatch} \subseteq Nat \ {0}
  /\ {MaxEvents, MaxPages, MaxReplies} \subseteq Nat
  /\ Kinds \subseteq {"pull", "cancel", "edit", "full", "other", "eof"}
  /\ Replies \subseteq Nat /\ 0 \in Replies
  /\ PageSizes \subseteq Sizes /\ \A s \in PageSizes : s <= Budget
  /\ MaxFrames > MaxReplies + MaxEvents * (MaxPages + 1)

VARIABLES
  incoming,    \* the bounded channel of Incoming
  inputs,      \* run_async_loop's pending
  deferred,    \* AsyncResponseDelivery.deferred
  stream,      \* AsyncResponseDelivery.stream, or NoStream
  loop,        \* where the loop is
  batch,       \* the event being dispatched, with the changes coalesced to it
  unwritten,   \* messages of the dispatch not written yet
  arrived, lastPull,     \* the events that have arrived, and the last pull of them
  dispatched,  \* history: events handed to the service, in order
  dropped,     \* history: cancellations consumed and changes superseded
  answers      \* history: what was answered to which pull

inputVars == <<incoming, arrived, lastPull>>
loopVars == <<inputs, deferred, stream, loop, batch, unwritten, dispatched, dropped, answers>>
deliveryVars == <<vars, inputVars, loopVars>>

MaxRetained == Buffered + InputCapacity
NoStream == [id |-> 0, pages |-> 0, terminal |-> "none"]
Active == stream # NoStream

DeliveryInit ==
  /\ Init
  /\ incoming = <<>> /\ arrived = 0 /\ lastPull = 0
  /\ inputs = <<>> /\ deferred = <<>> /\ stream = NoStream /\ loop = "top"
  /\ batch = <<>> /\ unwritten = 0
  /\ dispatched = <<>> /\ dropped = {} /\ answers = <<>>

\* The reader thread, or the engine, puts an event into the channel.
Arrive(k) ==
  /\ Len(incoming) < InputCapacity /\ arrived < MaxEvents
  /\ k = "cancel" => lastPull > 0
  /\ incoming' = Append(incoming, [n |-> arrived + 1, kind |-> k,
                                   of |-> IF k = "cancel" THEN lastPull ELSE 0])
  /\ arrived' = IF k = "eof" THEN MaxEvents ELSE arrived + 1
  /\ lastPull' = IF k = "pull" THEN arrived + 1 ELSE lastPull
  /\ UNCHANGED <<vars, loopVars>>

-------------------------------------------------------------------------------
(* Dispatch: the next event, with the changes of documents that arrive     *)
(* within the debounce coalesced to it.                                    *)

AtTop == loop = "top" /\ Ready /\ unwritten = 0
IsChange(e) == e.kind \in {"edit", "full"}

TakeEvent ==
  /\ AtTop /\ ~Active
  /\ \/ /\ inputs # <<>>
        /\ batch' = <<Head(inputs)>> /\ inputs' = Tail(inputs) /\ UNCHANGED incoming
     \/ /\ inputs = <<>> /\ incoming # <<>>
        /\ batch' = <<Head(incoming)>> /\ incoming' = Tail(incoming) /\ UNCHANGED inputs
  /\ loop' = IF IsChange(batch'[1]) THEN "coalesce" ELSE "dispatch"
  /\ UNCHANGED <<vars, arrived, lastPull, deferred, stream, unwritten, dispatched, dropped,
                 answers>>

\* A whole change supersedes the change before it; any other is added.
Coalesce ==
  /\ loop = "coalesce" /\ Len(batch) < MaxBatch
  /\ incoming # <<>> /\ IsChange(Head(incoming))
  /\ IF Head(incoming).kind = "full"
     THEN /\ batch' = Append(Front(batch), Head(incoming))
          /\ dropped' = dropped \union {Last(batch)}
     ELSE batch' = Append(batch, Head(incoming)) /\ UNCHANGED dropped
  /\ incoming' = Tail(incoming)
  /\ UNCHANGED <<vars, arrived, lastPull, inputs, deferred, stream, loop, unwritten, dispatched,
                 answers>>

\* Another event, or a change too large for the batch, is kept and ends it.
CoalesceStops ==
  /\ loop = "coalesce" /\ Len(batch) < MaxBatch /\ incoming # <<>>
  /\ inputs' = Append(inputs, Head(incoming)) /\ incoming' = Tail(incoming)
  /\ loop' = "dispatch"
  /\ UNCHANGED <<vars, arrived, lastPull, deferred, stream, batch, unwritten, dispatched, dropped,
                 answers>>

\* The debounce or the batch's time is over, or the batch is full.
CoalesceEnds ==
  /\ loop = "coalesce" /\ loop' = "dispatch"
  /\ UNCHANGED <<vars, inputVars, inputs, deferred, stream, batch, unwritten, dispatched, dropped,
                 answers>>

\* The service handles the event: its messages are written one by one.
Dispatch ==
  /\ loop = "dispatch" /\ batch[1].kind \notin {"pull", "eof"}
  /\ \E k \in Replies : (k = 0 \/ frames + k <= MaxReplies) /\ unwritten' = k
  /\ dispatched' = dispatched \o batch /\ batch' = <<>> /\ loop' = "top"
  /\ UNCHANGED <<vars, inputVars, inputs, deferred, stream, dropped, answers>>

\* The report fits one message, or it becomes a stream of pages.
DispatchPull ==
  /\ loop = "dispatch" /\ batch[1].kind = "pull"
  /\ \/ /\ unwritten' = 1 /\ answers' = Append(answers, [id |-> batch[1].n, message |-> "Result"])
        /\ UNCHANGED stream
     \/ /\ \E p \in 1 .. MaxPages :
             stream' = [id |-> batch[1].n, pages |-> p, terminal |-> "Result"]
        /\ UNCHANGED <<unwritten, answers>>
  /\ dispatched' = dispatched \o batch /\ batch' = <<>> /\ loop' = "top"
  /\ UNCHANGED <<vars, inputVars, inputs, deferred, dropped>>

\* write_framed, for the next message of the dispatch.
Reply ==
  /\ loop = "top" /\ unwritten > 0 /\ WriteFrame(Sizes)
  /\ unwritten' = unwritten - 1
  /\ UNCHANGED <<inputVars, inputs, deferred, stream, loop, batch, dispatched, dropped, answers>>

\* The client is gone or said exit: a last message may end the status it was shown.
LastMessage ==
  /\ loop = "dispatch" /\ batch[1].kind = "eof" /\ WriteFrame(Sizes) /\ loop' = "leave"
  /\ UNCHANGED <<inputVars, inputs, deferred, stream, batch, unwritten, dispatched, dropped,
                 answers>>

(* The loop is left, at the end of the input or because an operation of    *)
(* the queue failed: finish, or the drop of the queue, shuts it down.      *)
Leave ==
  /\ \/ loop = "dispatch" /\ batch[1].kind = "eof"
     \/ loop = "leave"
     \/ main = "broken"
  /\ Finish /\ loop' = "over"
  /\ UNCHANGED <<inputVars, inputs, deferred, stream, batch, unwritten, dispatched, dropped,
                 answers>>

-------------------------------------------------------------------------------
(* The stream: advance looks for its cancellation in everything that has   *)
(* arrived, then writes its next message if the queue is idle.             *)

Matches(e) == e.kind = "cancel" /\ e.of = stream.id

\* Mutant: the pages that are left are sent before the end.
EndedAfterPages(s, t) == IF s.terminal = "Result" THEN [s EXCEPT !.terminal = t] ELSE s

\* The stream s, ended early for the reason t unless its end is decided.
EndedBy(s, t) == IF s.terminal = "Result" THEN [s EXCEPT !.pages = 0, !.terminal = t] ELSE s

Full(ins, defs) == Len(ins) + Len(defs) >= MaxRetained

\* Mutant: with no room left the loop waits for room.
AdvanceWaits ==
  /\ AtTop /\ Active /\ ~Full(inputs, deferred)
  /\ loop' = "observe"
  /\ UNCHANGED <<vars, inputVars, inputs, deferred, stream, batch, unwritten, dispatched, dropped,
                 answers>>

\* cancel_from_pending, and the first test of observe_incoming.
Advance ==
  /\ AtTop /\ Active
  /\ LET found == {i \in DOMAIN inputs : Matches(inputs[i])}
         ins   == IF found = {} THEN inputs ELSE RemoveAt(inputs, Min(found))
         s     == IF found = {} THEN stream ELSE EndedBy(stream, "Cancelled")
     IN  /\ inputs' = ins
         /\ dropped' = dropped \union (ToSet(inputs) \ ToSet(ins))
         /\ IF Full(ins, deferred)
            THEN stream' = EndedBy(s, "DeliveryBacklog") /\ loop' = "ask"
            ELSE stream' = s /\ loop' = "observe"
  /\ UNCHANGED <<vars, inputVars, deferred, batch, unwritten, dispatched, answers>>

\* One turn of observe_incoming's loop.
Observe ==
  /\ loop = "observe" /\ incoming # <<>>
  /\ LET e     == Head(incoming)
         first == deferred = <<>> /\ Len(inputs) < Buffered
         ins   == IF first THEN Append(inputs, e) ELSE inputs
         defs  == IF first THEN deferred ELSE Append(deferred, e)
     IN  IF Matches(e)
         THEN /\ stream' = EndedBy(stream, "Cancelled") /\ dropped' = dropped \union {e}
              /\ loop' = "ask" /\ UNCHANGED <<inputs, deferred>>
         ELSE /\ inputs' = ins /\ deferred' = defs /\ UNCHANGED dropped
              /\ IF Full(ins, defs)
                 THEN stream' = EndedBy(stream, "DeliveryBacklog") /\ loop' = "ask"
                 ELSE UNCHANGED <<stream, loop>>
  /\ incoming' = Tail(incoming)
  /\ UNCHANGED <<vars, arrived, lastPull, batch, unwritten, dispatched, answers>>

ObserveEnds ==
  /\ loop = "observe" /\ incoming = <<>> /\ loop' = "ask"
  /\ UNCHANGED <<vars, inputVars, inputs, deferred, stream, batch, unwritten, dispatched, dropped,
                 answers>>

Ask ==
  /\ loop = "ask" /\ AskIdle /\ loop' = "asked"
  /\ UNCHANGED <<inputVars, inputs, deferred, stream, batch, unwritten, dispatched, dropped,
                 answers>>

\* The queue is idle: next_message is a page, or the end the stream has.
NextMessage ==
  /\ loop = "asked" /\ main = "is idle" /\ stream.terminal # "Emitted"
  /\ IF stream.pages > 0
     THEN /\ stream' = [stream EXCEPT !.pages = @ - 1]
          /\ answers' = Append(answers, [id |-> stream.id, message |-> "page"])
     ELSE /\ stream' = [stream EXCEPT !.terminal = "Emitted"]
          /\ answers' = Append(answers, [id |-> stream.id, message |-> stream.terminal])
  /\ WriteFrame(PageSizes) /\ loop' = "top"
  /\ UNCHANGED <<inputVars, inputs, deferred, batch, unwritten, dispatched, dropped>>

\* Mutant: what came last is put first.
EndStreamDeferredFirst ==
  /\ loop = "asked" /\ main = "is idle" /\ stream.terminal = "Emitted"
  /\ stream' = NoStream /\ inputs' = deferred \o inputs /\ deferred' = <<>> /\ loop' = "top"
  /\ UNCHANGED <<vars, inputVars, batch, unwritten, dispatched, dropped, answers>>

\* The stream is over: what was deferred follows what was kept before it.
EndStream ==
  /\ loop = "asked" /\ main = "is idle" /\ stream.terminal = "Emitted"
  /\ stream' = NoStream /\ inputs' = inputs \o deferred /\ deferred' = <<>> /\ loop' = "top"
  /\ UNCHANGED <<vars, inputVars, batch, unwritten, dispatched, dropped, answers>>

\* The queue is not idle: the loop sleeps, or waits a while for an event.
NotIdle ==
  /\ loop = "asked" /\ main = "idle" /\ loop' = "top"
  /\ \/ UNCHANGED <<incoming, inputs, stream, dropped>>
     \/ /\ Len(inputs) < Buffered /\ deferred = <<>> /\ incoming # <<>>
        /\ incoming' = Tail(incoming)
        /\ IF Matches(Head(incoming))
           THEN /\ stream' = EndedBy(stream, "Cancelled")
                /\ dropped' = dropped \union {Head(incoming)} /\ UNCHANGED inputs
           ELSE inputs' = Append(inputs, Head(incoming)) /\ UNCHANGED <<stream, dropped>>
  /\ UNCHANGED <<vars, arrived, lastPull, deferred, batch, unwritten, dispatched, answers>>

-------------------------------------------------------------------------------
Queue == (Proceed \/ Writer \/ Expire) /\ UNCHANGED <<inputVars, loopVars>>

Loop ==
  \/ TakeEvent \/ Coalesce \/ CoalesceStops \/ CoalesceEnds \/ Dispatch \/ DispatchPull \/ Reply
  \/ LastMessage \/ Leave \/ Advance \/ Observe \/ ObserveEnds \/ Ask \/ NextMessage \/ EndStream \/ NotIdle

\* The client may be silent for good; the loop waits for it, or is over.
Waits == UNCHANGED deliveryVars /\ (main = "finished" \/ AtTop)

DeliveryNext == (\E k \in Kinds : Arrive(k)) \/ Loop \/ Queue \/ Waits

DeliverySpec == DeliveryInit /\ [][DeliveryNext]_deliveryVars

(* The loop and the writer thread are scheduled and time passes.  Nothing  *)
(* is assumed of the client: it may stop reading, and a write that has     *)
(* begun then never ends.                                                  *)
FairDelivery ==
  /\ DeliverySpec
  /\ WF_deliveryVars(Loop \/ (Proceed /\ UNCHANGED <<inputVars, loopVars>>))
  /\ WF_deliveryVars((Take \/ Release \/ WriterExits) /\ UNCHANGED <<inputVars, loopVars>>)
  /\ WF_deliveryVars(Expire /\ UNCHANGED <<inputVars, loopVars>>)

-------------------------------------------------------------------------------
Increasing(es) == \A i, j \in DOMAIN es : i < j => es[i].n < es[j].n
Kept == batch \o inputs \o deferred \o incoming

(* While pages are delivered, and through the two queues that hold what    *)
(* arrives meanwhile, no event is lost, doubled or reordered, and no more  *)
(* is kept than one buffer and one channel: only the stream's cancellation *)
(* and superseded changes disappear.                                       *)
EventsKept ==
  /\ Increasing(inputs \o deferred \o incoming)
  /\ Len(inputs) + Len(deferred) <= MaxRetained
  /\ LET seen == dispatched \o Kept
     IN  /\ {e.n : e \in ToSet(seen) \union dropped} = 1 .. Len(seen) + Cardinality(dropped)
         /\ \A e \in dropped : e.kind = "cancel" \/ IsChange(e)

\* Something was answered to the pull p; what was answered ended it.
Answered(p) == \E i \in DOMAIN answers : answers[i].id = p
EndSent(p) == \E i \in DOMAIN answers : answers[i].id = p /\ answers[i].message # "page"

(* A pull gets its pages and then one end, nothing after it; a stream that *)
(* was cancelled, or given up because input backs up, sends no further     *)
(* page, and its end says so.                                              *)
OneEnd ==
  /\ \A i, j \in DOMAIN answers :
       (i < j /\ answers[i].id = answers[j].id) => answers[i].message = "page"
  /\ \A i \in DOMAIN answers : answers[i].id = stream.id \/ EndSent(answers[i].id)
  /\ Active => (stream.terminal = "Emitted" <=> EndSent(stream.id))
  /\ \A e \in dropped : e.kind = "cancel" =>
       (stream.id = e.of /\ stream.pages = 0) \/ EndSent(e.of)

(* A page is made only when the client has everything before it: at most   *)
(* one message of a stream is ever in the queue.                           *)
BackPressure == (Active /\ Answered(stream.id)) => Len(Waiting) <= 1

Over == loop = "over"

\* The client goes on reading.
ClientReads == WF_deliveryVars(Write /\ UNCHANGED <<inputVars, loopVars>>)

(* If the client goes on reading, every stream ends and whatever arrived,  *)
(* the end of the input too, is dispatched: neither the polling of a       *)
(* stream nor the events kept behind it wait for good.                     *)
Serves == ClientReads => (Active ~> ~Active \/ Over) /\ []<>(Kept = <<>> \/ Over)

(* The changes of the document are applied in the order they were made     *)
(* (docs/ARCHITECTURE.md: "Coalescing never crosses another document       *)
(* notification").                                                         *)
ChangesInOrder == Increasing(SelectSeq(dispatched, IsChange))
=============================================================================
