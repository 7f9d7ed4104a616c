---------------------------- MODULE AnalysisEngine ----------------------------
(***************************************************************************)
(* The language server's analysis thread and the part of the session that  *)
(* feeds it and keeps its results (crates/krusty-lsp/src/server/engine.rs, *)
(* implementation.rs, workspace_index.rs, status.rs, and the backend in    *)
(* main.rs).                                                               *)
(*                                                                         *)
(* Three actors share the command queue and the channel of events: the     *)
(* session handles a client message or an event at a time, the engine      *)
(* takes a command, runs it and sends events, which blocks while the       *)
(* channel is full, and the world edits files.  File contents are          *)
(* versions, a file that does not exist has version Gone.                  *)
(***************************************************************************)
EXTENDS CommandQueue

CONSTANTS
  Neighbors,    \* the files of the modules near the open document
  Classes,      \* the classes of the dependencies
  MaxLocated,   \* MAX_LOCATED_DEPENDENCIES
  Capacity,     \* INPUT_QUEUE_CAPACITY
  MaxEdits, MaxSaves, MaxModels, MaxRequests,  \* bounds of the model
  MaxFailures,  \* bound: so many failures and no probe or worker fails any more
  MaxMissed     \* bound: so many failures and no index chunk fails any more

ASSUME EngineAssumption ==
  /\ Neighbors \subseteq Uris
  /\ {MaxLocated, Capacity} \subseteq Nat \ {0}
  /\ {MaxEdits, MaxSaves, MaxModels, MaxRequests, MaxFailures, MaxMissed} \subseteq Nat

VARIABLES
  queue,        \* the CommandState, under its mutex
  disk,         \* the version of every source file
  buildFile,    \* the version of the build file
  saves,        \* writes to source files so far
  unreported,   \* changed files the client has still to report
  failures,     \* history: how many failures there were, of the probe, the worker
                \* and index chunks, and the files the last chunk missed
  pc, job,      \* the engine: what it does, the command it runs
  outbox,       \* events the running command has still to send
  refresh,      \* the debounce of a project refresh: "none", "waiting" or "due"
  model,        \* the build file's version the project model was read from, or 0
  inventory,    \* the files the scan of this model found, or NotScanned
  sweptFor,     \* submitted_sweep_generation
  events,       \* the channel to the session
  doc,          \* the open document: its version, and the one last analyzed
  analysis,     \* analysis_dirty, analysis_in_flight, ready, retry
  generation,   \* the generation the session keeps results of
  store,        \* the workspace diagnostics
  symbols,      \* the project symbols
  classes,      \* names known, located and requested (in flight)
  parked,       \* requests waiting for an answer, and how many were made
  session       \* "new", "open" or "closed", whether it watches files, the progress token

NotScanned == {"not scanned"}
Gone == 0
Unknown == [version |-> Gone, model |-> 0]
BuildFile == "build file"

worldVars == <<disk, buildFile, saves, unreported>>
engineVars == <<pc, job, outbox, refresh, model, inventory, sweptFor, failures>>
resultVars == <<generation, store, symbols, classes>>
sessionVars == <<doc, analysis, resultVars, parked, session>>
vars == <<queue, worldVars, engineVars, events, sessionVars>>

Init ==
  /\ queue = EmptyQueue
  /\ disk = [u \in Uris |-> 1] /\ buildFile = 1 /\ saves = 0 /\ unreported = {} /\ failures = [count |-> 0, missed |-> {}]
  /\ pc = "idle" /\ job = None /\ outbox = <<>> /\ events = <<>>
  /\ refresh = "none" /\ model = 0 /\ inventory = NotScanned /\ sweptFor = 0
  /\ doc = [version |-> 0, analyzed |-> 0]
  /\ analysis = [dirty |-> FALSE, inFlight |-> FALSE, ready |-> FALSE, retry |-> FALSE]
  /\ generation = 0
  /\ store = [u \in Uris |-> Unknown] /\ symbols = [u \in Uris |-> Unknown]
  /\ classes = [names |-> {}, located |-> {}, requested |-> {}]
  /\ parked = [waiting |-> {}, asked |-> 0]
  /\ session = [state |-> "new", watching |-> FALSE, token |-> FALSE]

Open == session.state = "open"

-------------------------------------------------------------------------------
(* The world.                                                              *)

\* A change is reported only once the client has been asked to watch.
Noticed(u) == unreported' = IF session.watching THEN unreported \union {u} ELSE unreported

\* A file is written, or deleted.
Save(u) ==
  /\ saves < MaxSaves /\ saves' = saves + 1
  /\ \E v \in {saves + 2, Gone} \ {disk[u]} : disk' = [disk EXCEPT ![u] = v]
  /\ Noticed(u)
  /\ UNCHANGED <<queue, buildFile, engineVars, events, sessionVars>>

EditBuildFile ==
  /\ buildFile <= MaxModels /\ buildFile' = buildFile + 1
  /\ Noticed(BuildFile)
  /\ UNCHANGED <<queue, disk, saves, engineVars, events, sessionVars>>

-------------------------------------------------------------------------------
(* The session.  Each client message and each event ends with              *)
(* submit_pending_analysis.                                                *)

\* Mutant: an edit during an analysis clears the dirty flag.
SubmitLosingEdit(q, a, version) ==
  IF a.dirty /\ a.ready
  THEN /\ analysis' = [a EXCEPT !.dirty = FALSE, !.inFlight = TRUE]
       /\ queue' = IF q.disconnected \/ a.inFlight THEN q ELSE EnqueueAnalyze(q, version)
  ELSE analysis' = a /\ queue' = q

\* One analysis is in flight at a time; later changes leave the session dirty.
Submit(q, a, version) ==
  IF a.dirty /\ a.ready /\ ~a.inFlight
  THEN /\ analysis' = [a EXCEPT !.dirty = FALSE, !.inFlight = TRUE]
       /\ queue' = IF q.disconnected THEN q ELSE EnqueueAnalyze(q, version)
  ELSE analysis' = a /\ queue' = q

Initialize ==
  /\ session.state = "new"
  /\ session' = [session EXCEPT !.state = "open"]
  /\ queue' = EnqueueRoot(queue)
  /\ UNCHANGED <<worldVars, engineVars, events, doc, analysis, resultVars, parked>>

\* The client opens the document, or changes it.
Edit ==
  /\ Open /\ doc.version < MaxEdits
  /\ doc' = [doc EXCEPT !.version = @ + 1]
  /\ Submit(queue, [analysis EXCEPT !.dirty = TRUE], doc.version + 1)
  /\ UNCHANGED <<worldVars, engineVars, events, resultVars, parked, session>>

\* workspace/didChangeWatchedFiles, with some of the changes there are.
WatchedFilesChanged(S) ==
  /\ Open /\ S # {}
  /\ unreported' = unreported \ S
  /\ Submit(EnqueueChange(queue, Change(FALSE, FALSE, S)),
            [analysis EXCEPT !.dirty = TRUE], doc.version)
  /\ UNCHANGED <<disk, buildFile, saves, engineVars, events, doc, resultVars, parked, session>>

\* A request that the engine answers: a definition in a library, or a dump.
Request ==
  /\ Open /\ parked.asked < MaxRequests
  /\ parked' = [waiting |-> parked.waiting \union {parked.asked + 1}, asked |-> parked.asked + 1]
  /\ queue' = EnqueueRequest(queue, parked.asked + 1)
  /\ UNCHANGED <<worldVars, engineVars, events, doc, analysis, resultVars, session>>

Busy == analysis.dirty \/ analysis.inFlight \/ analysis.retry

\* The classes a query asks the engine for are in flight from now on.
MarkRequested(S) == [classes EXCEPT !.requested = @ \union S]

(* workspace/symbol, once no analysis is awaited: asks for the source of   *)
(* the classes it found and that are neither located nor in flight, as     *)
(* many as the bound on markers leaves room for.                           *)
Query(S) ==
  /\ Open /\ (doc.version > 0 => ~Busy)
  /\ S # {} /\ S \subseteq classes.names \ (classes.located \union classes.requested)
  /\ Cardinality(S) <= MaxLocated - Cardinality(classes.requested)
  /\ classes' = MarkRequested(S)
  /\ queue' = EnqueueLocation(queue, generation, S)
  /\ UNCHANGED <<worldVars, engineVars, events, doc, analysis, generation, store, symbols,
                 parked, session>>

RetryDue ==
  /\ Open /\ analysis.retry
  /\ Submit(queue, [analysis EXCEPT !.retry = FALSE, !.dirty = TRUE], doc.version)
  /\ UNCHANGED <<worldVars, engineVars, events, doc, resultVars, parked, session>>

\* exit, or the end of the input: the engine is told, and events are drained.
Exit ==
  /\ Open
  /\ session' = [session EXCEPT !.state = "closed", !.token = FALSE]
  /\ queue' = [queue EXCEPT !.disconnected = TRUE]
  /\ UNCHANGED <<worldVars, engineVars, events, doc, analysis, resultVars, parked>>

-------------------------------------------------------------------------------
(* What each event does to the session.  The results of a generation older *)
(* than the one the session is at are refused.                             *)

\* Only a document's version at the time of the analysis is replaced.
Apply(e) ==
  LET stale == e.version # 0 /\ e.version # doc.version
      a     == [analysis EXCEPT !.inFlight = FALSE]
  IN  /\ doc' = IF ~stale /\ ~e.pending THEN [doc EXCEPT !.analyzed = e.version] ELSE doc
      /\ Submit(queue,
                CASE stale   -> [a EXCEPT !.dirty = TRUE]
                  [] e.pending /\ ~stale -> [a EXCEPT !.dirty = FALSE, !.retry = TRUE]
                  [] OTHER   -> [a EXCEPT !.retry = FALSE],
                doc.version)

\* Mutant: a chunk that failed counts as one that found nothing.
MergeAsConclusive(kept, e) ==
  IF e.generation < generation THEN kept
  ELSE [u \in Uris |-> IF u \in e.attempted THEN e.found[u] ELSE kept[u]]

(* A chunk replaces what is kept of the files it has a result for, and, if *)
(* it is conclusive, removes the other ones it attempted.  (No result is   *)
(* of a later generation: the reset that announces one is sent before.)    *)
Merge(kept, e) ==
  IF e.generation < generation THEN kept
  ELSE [u \in Uris |-> IF e.found[u] # Unknown \/ (u \in e.attempted /\ e.conclusive)
                       THEN e.found[u] ELSE kept[u]]

\* A new model: its names are not known yet, nothing is located or in flight.
ResetClasses == [names |-> {}, located |-> {}, requested |-> {}]

\* Mutant: only the classes that were found are released.
RecordOnSuccess(e) ==
  {[classes EXCEPT !.requested = @ \ e.found, !.located = @ \union e.found]}

(* Every class attempted is no longer in flight; the located ones are      *)
(* kept, up to the bound, for which any other one is forgotten.            *)
Record(e) ==
  LET all == classes.located \union e.found
  IN  {[classes EXCEPT !.requested = @ \ e.attempted, !.located = L] :
         L \in {L \in SUBSET all : Cardinality(L) = Min({MaxLocated, Cardinality(all)})}}

MarkDirty(a) == [a EXCEPT !.dirty = @ \/ doc.version > 0]

Handle(e) ==
  \/ /\ e.type = "complete" /\ Apply(e)
     /\ UNCHANGED <<resultVars, parked, session>>
  \/ /\ e.type \in {"reanalyze", "project", "ready"}
     /\ LET a == IF e.type = "ready" THEN [analysis EXCEPT !.ready = TRUE] ELSE analysis
        IN  Submit(queue, IF e.type = "project" /\ ~e.reanalyze THEN a ELSE MarkDirty(a),
                   doc.version)
     /\ UNCHANGED <<doc, resultVars, parked, session>>
  \/ /\ e.type \in {"status", "globs"}
     /\ session' = IF e.type = "globs" THEN [session EXCEPT !.watching = TRUE]
                                       ELSE [session EXCEPT !.token = e.working]
     /\ Submit(queue, analysis, doc.version)
     /\ UNCHANGED <<doc, resultVars, parked>>
  \/ /\ e.type = "answer"
     /\ parked' = [parked EXCEPT !.waiting = @ \ {e.token}]
     /\ Submit(queue, analysis, doc.version)
     /\ UNCHANGED <<doc, resultVars, session>>
  \/ /\ e.type \in {"index", "symbols", "reset", "names", "located"}
     /\ generation' = IF e.type = "reset" THEN e.generation ELSE generation
     /\ store' = CASE e.type = "reset" -> [u \in Uris |-> Unknown]
                   [] e.type = "index" -> Merge(store, e)
                   [] OTHER -> store
     /\ symbols' = CASE e.type = "reset" -> [u \in Uris |-> Unknown]
                     [] e.type = "symbols" -> Merge(symbols, e)
                     [] OTHER -> symbols
     /\ classes' \in CASE e.type = "reset" -> {ResetClasses}
                       [] e.type = "names" /\ e.generation = generation ->
                            {[ResetClasses EXCEPT !.names = Classes]}
                       [] e.type = "located" /\ e.generation = generation -> Record(e)
                       [] OTHER -> {classes}
     /\ Submit(queue, analysis, doc.version)
     /\ UNCHANGED <<doc, parked, session>>

HandleEvent ==
  /\ Open /\ events # <<>>
  /\ events' = Tail(events)
  /\ Handle(Head(events))
  /\ UNCHANGED <<worldVars, engineVars>>

\* shutdown_engine empties the channel so that the engine is not stuck in it.
DrainEvent ==
  /\ session.state = "closed" /\ events # <<>>
  /\ events' = Tail(events)
  /\ UNCHANGED <<queue, worldVars, engineVars, sessionVars>>

-------------------------------------------------------------------------------
(* The engine.  It takes a command, announces it, runs it and sends what   *)
(* came of it; only then does it take the next.                            *)

Status(working) == [type |-> "status", working |-> working]
Event(type) == [type |-> type]

\* A send waits for room in the channel.
Send ==
  /\ outbox # <<>> /\ Len(events) < Capacity
  /\ events' = Append(events, Head(outbox))
  /\ outbox' = Tail(outbox)
  /\ UNCHANGED <<queue, worldVars, pc, job, refresh, model, inventory, sweptFor, failures,
                 sessionVars>>

\* The debounce of a refresh, or the delay of a retry, is over.
Elapse ==
  /\ refresh = "waiting" /\ refresh' = "due"
  /\ UNCHANGED <<queue, worldVars, pc, job, outbox, model, inventory, sweptFor, failures,
                 events, sessionVars>>

\* Once the client is gone or a refresh is due, only interactive work is taken.
NextCommand(q) ==
  IF q.disconnected \/ refresh = "due" THEN TakeInteractive(q)
  ELSE IF TakeForeground(q).command # None THEN TakeForeground(q)
  ELSE TakeBackground(TakeForeground(q).queue)

Announced(c, q) ==
  CASE c.kind \in {"root", "analyze", "symbols", "index"} -> <<Status(TRUE)>>
    [] c.kind = "locate" /\ c.generation = q.generation -> <<Status(TRUE)>>
    [] OTHER -> <<>>

Recv ==
  /\ pc = "idle" /\ outbox = <<>>
  /\ \E taken \in {NextCommand(queue)} :
       /\ taken.command # None
       /\ pc' = "run" /\ job' = taken.command
       /\ queue' = IF taken.command.kind = "index" THEN AfterProgress(taken.queue)
                                                   ELSE taken.queue
       /\ outbox' = Announced(taken.command, taken.queue)
  /\ UNCHANGED <<worldVars, refresh, model, inventory, sweptFor, failures, events, sessionVars>>

Timeout ==
  /\ pc = "idle" /\ outbox = <<>> /\ refresh = "due"
  /\ ~queue.disconnected /\ NextCommand(queue).command = None
  /\ pc' = "run" /\ job' = [kind |-> "refresh"] /\ outbox' = <<Status(TRUE)>>
  /\ UNCHANGED <<queue, worldVars, refresh, model, inventory, sweptFor, failures, events,
                 sessionVars>>

Stop ==
  /\ pc = "idle" /\ outbox = <<>>
  /\ queue.disconnected /\ queue.pending = <<>>
  /\ pc' = "stopped"
  /\ UNCHANGED <<queue, worldVars, job, outbox, refresh, model, inventory, sweptFor, failures,
                 events, sessionVars>>

Running(kind) == pc = "run" /\ outbox = <<>> /\ job.kind = kind
Works == failures' = failures
Fails == failures.count < MaxFailures /\ failures' = [failures EXCEPT !.count = @ + 1]

\* An index chunk has a result of all its files, or only of some.
IndexWorks(all) == failures' = [failures EXCEPT !.missed = @ \ all]
IndexFails(all, some) ==
  /\ failures.count < MaxMissed
  /\ failures' = [count |-> failures.count + 1,
                  missed |-> (failures.missed \ all) \union {u \in all : u \notin some
                                                                         \/ disk[u] = Gone}]

Finish(sends) == pc' = "idle" /\ job' = None /\ outbox' = sends

\* Engine-side enqueue: nothing is queued any more after a disconnect.
Raise(q, q1) == IF q.disconnected THEN q ELSE q1

\* The events every (re)configuration ends with; readiness only if it changed.
Feedback(reanalyze, was, is) ==
  <<[type |-> "project", reanalyze |-> reanalyze]>>
    \o (IF was = 0 /\ is # 0 THEN <<Event("ready")>> ELSE <<>>)
    \o <<Status(FALSE)>>

\* The model is probed, and the worker restarted with its classpath.
Configured ==
  /\ Works
  /\ model' = buildFile /\ inventory' = NotScanned

\* The probe fails, or the worker does not restart and is retried later.
NotConfigured ==
  /\ Fails
  /\ model' = model /\ inventory' \in {inventory, NotScanned}

RunRoot ==
  /\ Running("root")
  /\ \/ Configured /\ refresh' = "none"
     \/ NotConfigured /\ refresh' \in {"none", "waiting"}
  /\ sweptFor' = 0
  /\ Finish(<<[type |-> "reset", generation |-> queue.generation], Event("globs")>>
             \o Feedback(model' # model, model, model'))
  /\ UNCHANGED <<queue, worldVars, events, sessionVars>>

\* Nothing changed that the model was read from.
RefreshUnchanged ==
  /\ Running("refresh") /\ model = buildFile
  /\ refresh' = "none"
  /\ Finish(Feedback(FALSE, model, model))
  /\ UNCHANGED <<queue, worldVars, model, inventory, sweptFor, failures, events, sessionVars>>

RefreshModel ==
  /\ Running("refresh") /\ model # buildFile
  /\ \/ /\ Configured /\ refresh' = "none"
        /\ queue' = ReplaceGeneration(queue) /\ sweptFor' = 0
        /\ Finish(<<[type |-> "reset", generation |-> queue'.generation]>>
                   \o Feedback(TRUE, model, model'))
     \/ /\ NotConfigured /\ refresh' \in {"none", "waiting"}
        /\ Finish(Feedback(FALSE, model, model))
        /\ UNCHANGED <<queue, sweptFor>>
  /\ UNCHANGED <<worldVars, events, sessionVars>>

\* The worker analyzes the document, or is restarting and asks to be retried.
RunAnalyze ==
  /\ Running("analyze")
  /\ \E pending \in BOOLEAN :
       /\ IF pending THEN Fails ELSE Works
       /\ outbox' = <<[type |-> "complete", version |-> job.version, pending |-> pending],
                      Status(FALSE)>>
  /\ pc' = "sweep"
  /\ UNCHANGED <<queue, worldVars, job, refresh, model, inventory, sweptFor, events, sessionVars>>

SkipSweep ==
  /\ pc = "sweep" /\ outbox = <<>> /\ queue.pending # <<>>
  /\ Finish(<<>>)
  /\ UNCHANGED <<queue, worldVars, refresh, model, inventory, sweptFor, failures, events,
                 sessionVars>>

(* With no interactive work waiting, the files near the open document are  *)
(* queued again, and, once in a generation, the names of the dependencies  *)
(* are published and the whole workspace is queued.                        *)
RaiseSweep ==
  LET first == sweptFor # queue.generation
      files == IF inventory = NotScanned THEN {u \in Uris : disk[u] # Gone} ELSE inventory
      near  == IF job.version > 0 THEN files \intersect Neighbors ELSE {}
      q1    == Raise(queue, EnqueueIndex(queue, "neighborhood", near))
      q2    == EnqueueIndex(EnqueueSymbols(q1, files), "sweep", files)
  IN  /\ pc = "sweep" /\ outbox = <<>> /\ queue.pending = <<>>
      /\ inventory' = files
      /\ sweptFor' = queue.generation
      /\ queue' = IF first THEN Raise(queue, q2) ELSE q1
      /\ Finish((IF inventory = NotScanned THEN <<Status(TRUE), Status(FALSE)>> ELSE <<>>)
                 \o (IF first /\ Classes # {}
                     THEN <<[type |-> "names", generation |-> queue.generation]>> ELSE <<>>))
      /\ UNCHANGED <<worldVars, refresh, model, failures, events, sessionVars>>

RunRequest ==
  /\ Running("request")
  /\ Finish(<<[type |-> "answer", token |-> job.token]>>)
  /\ UNCHANGED <<queue, worldVars, refresh, model, inventory, sweptFor, failures, events,
                 sessionVars>>

\* What a chunk finds: the version on disk, under the model it runs with.
Result(type, attempted, found, conclusive) ==
  [type |-> type, generation |-> job.generation, attempted |-> attempted,
   conclusive |-> conclusive,
   found |-> [u \in Uris |-> IF u \in found /\ disk[u] # Gone
                             THEN [version |-> disk[u], model |-> model] ELSE Unknown]]

(* A pass that times out or is interrupted makes the chunk inconclusive.   *)
(* One that crashes is repeated on halves of the chunk, each of which may  *)
(* then have results or not; a file that crashes the worker alone is given *)
(* a diagnostic that says so, which is a result.  The files with a result  *)
(* are taken to be any of the chunk.                                       *)
RunIndex ==
  /\ Running("index")
  /\ LET all  == ToSet(job.uris)
         last == IF Outstanding(queue) THEN <<>> ELSE <<Status(FALSE)>>
     IN  \/ IndexWorks(all) /\ Finish(<<Result("index", all, all, TRUE)>> \o last)
         \/ \E some \in SUBSET all :
              /\ some # all /\ \E u \in all : disk[u] # Gone
              /\ IndexFails(all, some) /\ Finish(<<Result("index", all, some, FALSE)>> \o last)
  /\ UNCHANGED <<queue, worldVars, refresh, model, inventory, sweptFor, events, sessionVars>>

RunSymbols ==
  /\ Running("symbols")
  /\ Finish(<<Result("symbols", ToSet(job.uris), ToSet(job.uris), TRUE)>>)
  /\ UNCHANGED <<queue, worldVars, refresh, model, inventory, sweptFor, failures, events,
                 sessionVars>>

\* Candidates of an earlier generation are dropped; of the others some may fail.
RunLocate ==
  /\ Running("locate")
  /\ IF job.generation # queue.generation THEN Finish(<<>>)
     ELSE \E found \in SUBSET job.candidates :
            Finish(<<[type |-> "located", generation |-> job.generation,
                      attempted |-> job.candidates, found |-> found]>>)
  /\ UNCHANGED <<queue, worldVars, refresh, model, inventory, sweptFor, failures, events,
                 sessionVars>>

(* Files of the project are indexed again; the build file, or any file     *)
(* while there is no model, asks for a refresh.                            *)
RunChange ==
  LET sources == IF model = 0 THEN {} ELSE job.uris \ {BuildFile}
      q1      == EnqueueIndex(EnqueueSymbols(queue, sources), "neighborhood", sources)
  IN  /\ Running("change")
      /\ refresh' = IF job.refresh \/ job.uris \ sources # {} THEN "waiting" ELSE refresh
      /\ queue' = Raise(queue, q1)
      /\ Finish(IF job.reanalyze \/ sources # {} THEN <<Event("reanalyze")>> ELSE <<>>)
      /\ UNCHANGED <<worldVars, model, inventory, sweptFor, failures, events, sessionVars>>

-------------------------------------------------------------------------------
Run ==
  \/ RunRoot \/ RefreshUnchanged \/ RefreshModel \/ RunAnalyze \/ SkipSweep \/ RaiseSweep
  \/ RunRequest \/ RunIndex \/ RunSymbols \/ RunLocate \/ RunChange
Engine == Recv \/ Timeout \/ Stop \/ Run \/ Send
World == EditBuildFile \/ \E u \in Uris : Save(u)
Events == HandleEvent \/ DrainEvent
Reports == \E S \in SUBSET unreported : WatchedFilesChanged(S)
Client ==
  Initialize \/ Edit \/ Reports \/ Request \/ Exit \/ \E S \in SUBSET Classes : Query(S)
Stopped == pc = "stopped" /\ events = <<>> /\ UNCHANGED vars

Next == World \/ Client \/ RetryDue \/ Events \/ Engine \/ Elapse \/ Stopped

\* There is a step for the engine to take (ENABLED Engine, spelled out for TLC).
EngineReady ==
  \/ outbox # <<>> /\ Len(events) < Capacity
  \/ outbox = <<>> /\ pc \in {"run", "sweep"}
  \/ /\ outbox = <<>> /\ pc = "idle"
     /\ queue.disconnected \/ refresh = "due" \/ NextCommand(queue).command # None

(* The threads run, timers fire and the client reports the changes it      *)
(* watches; nothing makes it edit, ask or exit.  The first conjunct is the *)
(* weak fairness of Engine; each subscript is what every step of the       *)
(* action changes.                                                         *)
Fairness ==
  /\ []<>~EngineReady \/ []<><<Engine>>_<<pc, outbox>>
  /\ WF_events(Events) /\ WF_analysis(RetryDue)
  /\ WF_refresh(Elapse) /\ WF_unreported(Reports)

Spec == Init /\ [][Next]_vars
FairSpec == Spec /\ Fairness

-------------------------------------------------------------------------------
TypeOK ==
  /\ QueueType(queue)
  /\ disk \in [Uris -> 0 .. MaxSaves + 1] /\ buildFile \in 1 .. MaxModels + 1
  /\ unreported \subseteq Uris \union {BuildFile}
  /\ pc \in {"idle", "run", "sweep", "stopped"} /\ refresh \in {"none", "waiting", "due"}
  /\ model \in 0 .. buildFile /\ sweptFor \in 0 .. queue.generation
  /\ inventory = NotScanned \/ inventory \subseteq Uris
  /\ Len(events) <= Capacity
  /\ doc.version \in 0 .. MaxEdits /\ doc.analyzed \in 0 .. doc.version
  /\ generation \in 0 .. queue.generation
  /\ classes.located \union classes.requested \subseteq classes.names
  /\ Cardinality(classes.located) <= MaxLocated /\ Cardinality(classes.requested) <= MaxLocated
  /\ parked.waiting \subseteq 1 .. parked.asked

(* The ownership map, the three index deques and the two progress numbers  *)
(* agree: no file is lost, queued twice or counted twice, through          *)
(* promotion, watched changes during a sweep and a change of model.        *)
QueuesAgree == QueueAccounting(queue)

\* Everything on its way from the queue to the session.
InTransit == ToSet(outbox) \union ToSet(events)

(* A background chunk the engine runs was queued for the model it runs     *)
(* with, and what the session keeps was all found under one model, the     *)
(* engine's, unless the reset of a newer one is still on its way.          *)
OneModel ==
  /\ (pc = "run" /\ job.kind \in {"index", "symbols"}) => job.generation = queue.generation
  /\ \A u, w \in Uris :
       LET a == store[u]  b == symbols[w]
       IN  (a # Unknown /\ b # Unknown) => a.model = b.model
  /\ (Open /\ generation > 0 /\ \A e \in InTransit : e.type # "reset")
       => \A u \in Uris : {store[u], symbols[u]} \subseteq
            {Unknown} \union {[version |-> v, model |-> model] : v \in 1 .. MaxSaves + 1}

\* The places where the class c of the session's generation is being located.
Locating(c) ==
  Cardinality({i \in DOMAIN queue.locations :
                 queue.locations[i].generation = generation /\ c \in queue.locations[i].candidates})
  + (IF pc = "run" /\ job.kind = "locate" /\ job.generation = generation /\ c \in job.candidates
     THEN 1 ELSE 0)
  + Cardinality({e \in InTransit : e.type = "located" /\ e.generation = generation
                                     /\ c \in e.attempted})

\* The analyses of the open document under way.
Analyzing ==
  Cardinality({i \in DOMAIN queue.pending : IsAnalyze(queue.pending[i])})
  + (IF pc = "run" /\ IsAnalyze(job) THEN 1 ELSE 0)
  + Cardinality({e \in InTransit : e.type = "complete"})

(* The session's markers stand for exactly what is under way.  A class is  *)
(* marked in flight exactly while one location of it is: none is located   *)
(* twice at a time, and no marker outlives its location, unless the reset  *)
(* that clears the markers is on its way.  The document is marked exactly  *)
(* while one analysis of it is queued, running or on its way back.         *)
MarkersExact ==
  /\ (Open /\ \A e \in InTransit : e.type # "reset") =>
       \A c \in Classes : Locating(c) = IF c \in classes.requested THEN 1 ELSE 0
  /\ Open => Analyzing = IF analysis.inFlight THEN 1 ELSE 0

(* While no file is written or deleted, what is kept of a file is lost     *)
(* only to a new model: a chunk that timed out or was interrupted is not   *)
(* read as the deletion of its files.                                      *)
KeepsResults ==
  [][(saves = 0 /\ generation' = generation) =>
       \A u \in Uris : store[u] # Unknown => store'[u] # Unknown]_vars

-------------------------------------------------------------------------------
Closed == session.state = "closed"

(* When files stop changing, the session's diagnostics and symbols of      *)
(* every file are those of the file on disk, once the model's workspace    *)
(* has been queued: no change is lost between the watcher, the queues and  *)
(* the chunks already running, and an inconclusive chunk costs no file but *)
(* its own.  Of those the diagnostics stay as they were (KeepsResults) and *)
(* nothing queues them again until they change or the model does.          *)
IndexConverges ==
  <>[](Closed \/ sweptFor = 0 \/ sweptFor # queue.generation
       \/ \A u \in Uris : /\ symbols[u].version = disk[u]
                          /\ u \in failures.missed \/ store[u].version = disk[u])

(* The open document's last version is analyzed in the end, whatever was   *)
(* edited, refused or retried meanwhile, and the session is not left busy. *)
DocumentAnalyzed ==
  <>[](~analysis.ready \/ Closed \/ (doc.analyzed = doc.version /\ ~Busy))

\* A marked class is released, a waiting request answered, or the client gone.
Released ==
  /\ \A c \in Classes : c \in classes.requested ~> (c \notin classes.requested \/ Closed)
  /\ \A t \in 1 .. MaxRequests : t \in parked.waiting ~> (t \notin parked.waiting \/ Closed)

\* Once the client is gone the engine stops, whatever was queued.
EngineStops == Closed ~> pc = "stopped"
=============================================================================
