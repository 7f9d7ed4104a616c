---------------------------- MODULE WorkerLifecycle ----------------------------
(***************************************************************************)
(* The analysis worker of the language server: AnalysisWorker and          *)
(* WorkerProcess (crates/krusty-lsp/src/worker.rs) and the release of a    *)
(* child process and of the thread that reads its stdout                   *)
(* (crates/krusty-lsp/src/worker_lifecycle.rs), with the one slot, shared  *)
(* by every worker of the program, that keeps what could not be released.  *)
(*                                                                         *)
(* A child may crash, hang, close its stdout, leave its stdin unread or    *)
(* survive a kill for any time; try_wait and kill may fail.  A deadline    *)
(* may pass at any moment; a write to the child has none.                  *)
(* That the process is not a child any more counts as its exit, as it does *)
(* in the code; the last, blocking wait is taken not to fail.              *)
(***************************************************************************)
EXTENDS Integers, FiniteSets, FiniteSetsExt

CONSTANTS
  Workers,      \* AnalysisWorkers, each on a thread of its own
  Asked,        \* the workers that get requests; the others are spawned and dropped
  Numbers,      \* the numbers of a worker's children, used again when they are free
  Classpaths,   \* what a worker may be configured with
  MaxAnalyses,  \* max_analyses
  MaxFaults     \* bound of the model: calls to try_wait and kill that fail

ASSUME WorkerAssumption ==
  /\ Asked \subseteq Workers
  /\ Numbers \subseteq Nat /\ Cardinality(Numbers) >= 2 /\ Classpaths \subseteq Nat \ {0}
  /\ MaxAnalyses \in Nat \ {0} /\ MaxFaults \in Nat

VARIABLES
  worker,      \* of each worker: its fields, and what its thread is doing
  child,       \* of each child: its life, the classpath it has, and its last kill
  reader,      \* of each child: its reader thread, and what it has read
  slot,        \* the park slot
  faults       \* calls that have failed

vars == <<worker, child, reader, slot, faults>>

\* A child, and its reader, is the worker it was spawned for and a number.
Children == Workers \X Numbers
None == <<>>
Absent == [life |-> "none", classpath |-> 0, kill |-> "no"]
Free == [child |-> None, reader |-> None]

(* Of a worker, child and inflight are the fields of its process;          *)
(* required, analyses and classpath are its own; pc is what its thread     *)
(* does; then, what follows a restart; why, who called release; target,    *)
(* the classpath that is being applied.                                    *)

\* The fields of r, and those of s that r does not have.
Over(r, s) == [f \in DOMAIN r \union DOMAIN s |-> IF f \in DOMAIN r THEN r[f] ELSE s[f]]

\* The fields r of the worker w are assigned.
With(w, r) == worker' = [worker EXCEPT ![w] = Over(r, @)]

Init ==
  /\ worker = [w \in Workers |->
                 [pc |-> "spawn", then |-> "start", why |-> "drop", child |-> None,
                  inflight |-> None, required |-> FALSE, analyses |-> 0,
                  classpath |-> Min(Classpaths), target |-> Min(Classpaths)]]
  /\ child = [c \in Children |-> Absent] /\ reader = [c \in Children |-> "none"]
  /\ slot = Free /\ faults = 0

-------------------------------------------------------------------------------
(* The operating system: children end and readers do, by themselves or     *)
(* because of a kill.                                                      *)

Dies(c) ==
  /\ child[c].life = "up" /\ child' = [child EXCEPT ![c].life = "gone"]
  /\ UNCHANGED <<worker, reader, slot, faults>>

\* The reader has a frame, or sees the end of stdout.
ReaderEnds(c) ==
  /\ reader[c] = "reading"
  /\ \E a \in {"frame", "eof"} : reader' = [reader EXCEPT ![c] = a]
  /\ UNCHANGED <<worker, child, slot, faults>>

Ended(c) == c # None /\ reader[c] \in {"frame", "eof"}

\* What try_wait may say of the child c.
Polls(c) == {IF child[c].life = "up" THEN "Running" ELSE "Exited", "Failed"}

\* n more calls have failed.
Failing(n) == faults + n <= MaxFaults /\ faults' = faults + n
Fault(answer) == IF answer \in {"Failed", "failed"} THEN 1 ELSE 0

\* The child c was reaped: its handle is not needed any more.
Reaped(c) == child' = [child EXCEPT ![c] = Absent]

-------------------------------------------------------------------------------
(* The slot.  Its mutex is held for the whole body of with_slot, so that a *)
(* body is one step.  slot_occupied reclaims what has ended: the child     *)
(* when it is reaped, both when the reader has ended too.                  *)

\* Mutant: the slot is free as soon as the reader in it has ended.
ReclaimedByReader(p) ==
  IF slot.reader = None \/ Ended(slot.reader) THEN Free
  ELSE [child |-> IF p = "Exited" THEN None ELSE slot.child, reader |-> slot.reader]

Reclaimed(p) ==
  LET c == IF p = "Exited" THEN None ELSE slot.child
  IN  IF c = None /\ (slot.reader = None \/ Ended(slot.reader)) THEN Free
      ELSE [child |-> c, reader |-> slot.reader]

(* The children and readers once the slot has been reclaimed to s.  Only   *)
(* one that has ended is reaped or joined: a handle that is merely dropped *)
(* leaves the process or the thread behind.                                *)
ChildrenAfter(s) ==
  IF slot.child # None /\ s.child = None /\ child[slot.child].life = "gone"
  THEN [child EXCEPT ![slot.child] = Absent] ELSE child
ReadersAfter(s) ==
  IF slot.reader # None /\ s.reader = None /\ Ended(slot.reader)
  THEN [reader EXCEPT ![slot.reader] = "none"] ELSE reader

\* What try_wait may say of the child in the slot.
SlotPolls == IF slot.child = None THEN {"Exited"} ELSE Polls(slot.child)

\* A body of with_slot that only reclaims, to s, and puts now into the slot.
SlotStep(p, now) ==
  /\ Failing(Fault(p)) /\ slot' = now
  /\ child' = ChildrenAfter(Reclaimed(p)) /\ reader' = ReadersAfter(Reclaimed(p))

-------------------------------------------------------------------------------
(* What follows an operation, a restart or a release.                      *)

\* The call is over: what it left in the thread's variables is forgotten.
Return == [pc |-> "idle", then |-> "first", why |-> "drop", target |-> 0]

\* Mutant: a second failure does not mark the worker.
OperationFailsUnmarked(w, kind) ==
  IF worker[w].then = "second" THEN Return
  ELSE [pc |-> "restart", then |-> IF kind = "TimedOut" THEN "return" ELSE "second",
        target |-> worker[w].classpath]

\* The operation failed: a timeout restarts, another error retries once.
OperationFails(w, kind) ==
  IF worker[w].then = "second" THEN Over([required |-> TRUE], Return)
  ELSE [pc |-> "restart", then |-> IF kind = "TimedOut" THEN "return" ELSE "second",
        target |-> worker[w].classpath]

RestartFails(w) == IF worker[w].then = "start" THEN Over([pc |-> "dropped"], Return) ELSE Return

\* The process is dropped: a child the release left is quarantined.
DropFields(w, left) == [pc |-> IF left = None THEN "retain reader" ELSE "quarantine"]

\* Mutant: a restart ignores that its release failed.
ReturnedIgnored(w, r, left) ==
  CASE worker[w].why = "restart" -> [pc |-> "spawn"]
    [] worker[w].why = "observe failed" -> OperationFails(w, "Other")
    [] worker[w].why = "observe running" -> OperationFails(w, IF r = "ok" THEN "Other" ELSE r)
    [] worker[w].why \in {"drop new", "drop"} -> DropFields(w, left)

\* release returned r, ok or a kind of error, and left a child, or None, to the process.
Returned(w, r, left) ==
  CASE worker[w].why = "restart" -> IF r = "ok" THEN [pc |-> "spawn"] ELSE Return
    [] worker[w].why = "observe failed" -> OperationFails(w, "Other")
    [] worker[w].why = "observe running" -> OperationFails(w, IF r = "ok" THEN "Other" ELSE r)
    [] worker[w].why \in {"drop new", "drop"} -> DropFields(w, left)

At(w, p) == worker[w].pc = p

-------------------------------------------------------------------------------
(* Requests.                                                               *)

(* A worker that is marked, has served its share or is over its resident   *)
(* budget is restarted first.                                              *)
Request(w) ==
  /\ At(w, "idle") /\ w \in Asked
  /\ \/ With(w, [pc |-> "restart", then |-> "first", target |-> worker[w].classpath])
     \/ /\ ~worker[w].required /\ worker[w].analyses < MaxAnalyses
        /\ With(w, [pc |-> "operate", then |-> "first"])
  /\ UNCHANGED <<child, reader, slot, faults>>

Reconfigure(w) ==
  /\ At(w, "idle") /\ w \in Asked
  /\ \E cp \in Classpaths :
       /\ cp # worker[w].classpath \/ worker[w].required
       /\ With(w, [pc |-> "restart", then |-> "return", target |-> cp])
  /\ UNCHANGED <<child, reader, slot, faults>>

\* Somebody may still read what is written to the process.
Readable(w) == worker[w].child # None => child[worker[w].child].life = "up"

(* A write to the child's stdin is under way.  It has no deadline: it ends *)
(* when the child has read enough of it, or has ended.                     *)
Writing(w) == worker[w].pc \in {"operate", "greet"} /\ Readable(w)

(* The request has been written, and read_frame starts a reader unless one *)
(* is in flight or the child was taken.                                    *)
Operate(w) ==
  LET c == worker[w].child
  IN  /\ At(w, "operate") /\ Readable(w)
      /\ IF c = None \/ worker[w].inflight # None
         THEN With(w, OperationFails(w, "TimedOut")) /\ UNCHANGED reader
         ELSE /\ With(w, [pc |-> "reading", inflight |-> c])
              /\ reader' = [reader EXCEPT ![c] = "reading"]
      /\ UNCHANGED <<child, slot, faults>>

\* The child has ended, or has closed its stdin.
WriteFails(w) ==
  /\ At(w, "operate") /\ With(w, OperationFails(w, "Other"))
  /\ UNCHANGED <<child, reader, slot, faults>>

\* A request that cannot be encoded is refused before it is written.
Refuse(w) ==
  /\ At(w, "operate") /\ worker[w].then = "first" /\ With(w, Return)
  /\ UNCHANGED <<child, reader, slot, faults>>

Answer(w) ==
  LET c == worker[w].child
  IN  /\ At(w, "reading") /\ Ended(c)
      /\ \/ /\ reader[c] = "frame"
            /\ With(w, Over([inflight |-> None, analyses |-> worker[w].analyses + 1], Return))
         \/ /\ reader[c] = "frame"
            /\ With(w, Over([inflight |-> None], OperationFails(w, "Other")))
         \/ /\ reader[c] = "eof" /\ With(w, [pc |-> "observe", inflight |-> None])
      /\ reader' = [reader EXCEPT ![c] = "none"]
      /\ UNCHANGED <<child, slot, faults>>

\* Mutant: the answer is waited for without a deadline.
AnswerLateNever(w) == FALSE /\ UNCHANGED vars

\* The answer is late: the reader stays in flight.
AnswerLate(w) ==
  /\ At(w, "reading") /\ With(w, OperationFails(w, "TimedOut"))
  /\ UNCHANGED <<child, reader, slot, faults>>

\* observed_exit, after the end of stdout.
Observe(w) ==
  /\ At(w, "observe")
  /\ \E p \in Polls(worker[w].child) :
       /\ Failing(Fault(p))
       /\ CASE p = "Exited" -> /\ With(w, Over([child |-> None], OperationFails(w, "Other")))
                               /\ Reaped(worker[w].child)
            [] p = "Failed" -> With(w, [pc |-> "release", why |-> "observe failed"])
                               /\ UNCHANGED child
            [] p = "Running" -> With(w, [pc |-> "release", why |-> "observe running"])
                                /\ UNCHANGED child
  /\ UNCHANGED <<reader, slot>>

-------------------------------------------------------------------------------
(* Restart: the old process is released, a new one spawned and greeted.    *)

Restart(w) ==
  /\ At(w, "restart")
  /\ \E p \in SlotPolls :
       /\ SlotStep(p, Reclaimed(p))
       /\ With(w, Over([required |-> TRUE], IF Reclaimed(p) # Free THEN RestartFails(w)
                                             ELSE [pc |-> "release", why |-> "restart"]))

Spawn(w) ==
  /\ At(w, "spawn")
  /\ \E p \in SlotPolls :
       /\ SlotStep(p, Reclaimed(p))
       /\ With(w, IF Reclaimed(p) # Free THEN RestartFails(w) ELSE [pc |-> "launch"])

Unused(w) == {<<w, i>> : i \in {i \in Numbers : child[<<w, i>>] = Absent
                                                /\ reader[<<w, i>>] = "none"}}

Launch(w) ==
  /\ At(w, "launch")
  /\ \/ With(w, RestartFails(w)) /\ UNCHANGED child
     \/ /\ Unused(w) # {}
        /\ LET c == CHOOSE c \in Unused(w) : TRUE
           IN  /\ With(w, [pc |-> "greet", child |-> c])
               /\ child' = [child EXCEPT ![c] = [life |-> "up", classpath |-> worker[w].target,
                                                 kill |-> "no"]]
  /\ UNCHANGED <<reader, slot, faults>>

\* The configuration was written, or that failed, and readiness is awaited.
Greet(w) ==
  LET c == worker[w].child
  IN  /\ At(w, "greet")
      /\ \/ With(w, [pc |-> "release", why |-> "drop new"]) /\ UNCHANGED reader
         \/ /\ Readable(w) /\ With(w, [pc |-> "ready", inflight |-> c])
            /\ reader' = [reader EXCEPT ![c] = "reading"]
      /\ UNCHANGED <<child, slot, faults>>

Adopt(w) ==
  LET c == worker[w].child
  IN  /\ At(w, "ready") /\ reader[c] = "frame"
      /\ With(w, Over([inflight |-> None, required |-> FALSE, analyses |-> 0,
                       classpath |-> worker[w].target],
                      IF worker[w].then \in {"first", "second"} THEN [pc |-> "operate"]
                      ELSE Return))
      /\ reader' = [reader EXCEPT ![c] = "none"]
      /\ UNCHANGED <<child, slot, faults>>

\* The new process is not ready in time, ended, or says something else.
NotReady(w) ==
  LET c == worker[w].child
  IN  /\ At(w, "ready")
      /\ \/ Ended(c) /\ With(w, [pc |-> "release", why |-> "drop new", inflight |-> None])
            /\ reader' = [reader EXCEPT ![c] = "none"]
         \/ With(w, [pc |-> "release", why |-> "drop new"]) /\ UNCHANGED reader
      /\ UNCHANGED <<child, slot, faults>>

\* The worker itself is dropped.
Drop(w) ==
  /\ At(w, "idle") /\ With(w, [pc |-> "release", why |-> "drop"])
  /\ UNCHANGED <<child, reader, slot, faults>>

-------------------------------------------------------------------------------
(* release_worker: nothing to release; or the slot is taken; or the child  *)
(* is killed, and it and the reader end before the deadline or go to the   *)
(* slot.  The mutex is held all the while, so that this is one step; what  *)
(* the child and the reader do meanwhile is in what the step may find.     *)

ReleaseNothing(w) ==
  /\ At(w, "release") /\ worker[w].child = None /\ worker[w].inflight = None
  /\ With(w, Returned(w, "ok", None))
  /\ UNCHANGED <<child, reader, slot, faults>>

Holds(w) == worker[w].child # None \/ worker[w].inflight # None

SlotTaken(w) ==
  /\ At(w, "release") /\ Holds(w)
  /\ \E p \in SlotPolls :
       /\ Reclaimed(p) # Free /\ SlotStep(p, Reclaimed(p))
       /\ With(w, Returned(w, "TimedOut", worker[w].child))

(* dispose and finish_reader.  k is what kill said, e what the polls said  *)
(* until the deadline: the child may end at any of them.                   *)
Dispose(w) ==
  LET c == worker[w].child
      r == worker[w].inflight
  IN  /\ At(w, "release") /\ Holds(w)
      /\ "Exited" \in SlotPolls /\ Reclaimed("Exited") = Free
      /\ \E k \in {"done", "failed"}, e \in {"Exited", "Running", "Failed"}, late \in BOOLEAN :
           LET kept   == IF e = "Exited" THEN None ELSE c
               parked == [child |-> kept, reader |-> IF kept # None \/ late THEN r ELSE None]
           IN  /\ c = None => k = "done" /\ e = "Exited"
               /\ c # None /\ child[c].life # "up" => e # "Running"
               /\ late => r # None /\ ~Ended(r)
               /\ Failing(Fault(k) + Fault(e)) /\ slot' = parked
               /\ child' = LET t == ChildrenAfter(Free)
                           IN  IF c = None THEN t ELSE IF kept = None THEN [t EXCEPT ![c] = Absent]
                               ELSE [t EXCEPT ![c].kill = k]
               /\ reader' = LET t == ReadersAfter(Free)
                            IN  IF r = None \/ parked.reader # None THEN t
                                ELSE [t EXCEPT ![r] = "none"]
               /\ With(w, Over([child |-> None, inflight |-> None],
                               Returned(w, CASE parked = Free -> "ok"
                                             [] e = "Failed" -> "Other"
                                             [] OTHER -> "TimedOut", None)))

-------------------------------------------------------------------------------
(* The rest of the drop of a process whose release found the slot taken.   *)

\* The child is killed and polled until it has ended or the grace is over.
Quarantine(w) ==
  LET c == worker[w].child
  IN  /\ At(w, "quarantine")
      /\ \E k \in {"done", "failed"}, e \in {"Exited", "Running", "Failed"} :
           /\ child[c].life # "up" => e # "Running"
           /\ Failing(Fault(k) + Fault(e))
           /\ IF e = "Exited" THEN With(w, [pc |-> "retain reader", child |-> None]) /\ Reaped(c)
              ELSE With(w, [pc |-> "retain child"]) /\ child' = [child EXCEPT ![c].kill = k]
      /\ UNCHANGED <<reader, slot>>

\* The child joins a slot without one; else it is waited for.
RetainChild(w) ==
  /\ At(w, "retain child")
  /\ \E p \in SlotPolls :
       LET s == Reclaimed(p)
       IN  IF s.child = None
           THEN /\ SlotStep(p, [s EXCEPT !.child = worker[w].child])
                /\ With(w, [pc |-> "retain reader", child |-> None])
           ELSE SlotStep(p, s) /\ With(w, [pc |-> "wait"])

WaitChild(w) ==
  LET c == worker[w].child
  IN  /\ At(w, "wait") /\ child[c].life = "gone"
      /\ Reaped(c) /\ With(w, [pc |-> "retain reader", child |-> None])
      /\ UNCHANGED <<reader, slot, faults>>

Dropped(w) == IF worker[w].why = "drop" THEN Over([pc |-> "dropped"], Return) ELSE RestartFails(w)

\* The drop of FrameReader: no reader, or one that has ended and is joined.
JoinReader(w) ==
  LET r == worker[w].inflight
  IN  /\ At(w, "retain reader") /\ (r = None \/ Ended(r))
      /\ With(w, Over([inflight |-> None], Dropped(w)))
      /\ reader' = IF r = None THEN reader ELSE [reader EXCEPT ![r] = "none"]
      /\ UNCHANGED <<child, slot, faults>>

\* A reader that still runs joins a slot without one, or tries again.
RetainReader(w) ==
  LET r == worker[w].inflight
  IN  /\ At(w, "retain reader") /\ r # None /\ ~Ended(r)
      /\ \E p \in SlotPolls :
           LET s == Reclaimed(p)
           IN  IF s.reader = None
               THEN /\ SlotStep(p, [s EXCEPT !.reader = r])
                    /\ With(w, Over([inflight |-> None], Dropped(w)))
               ELSE SlotStep(p, s) /\ UNCHANGED worker

-------------------------------------------------------------------------------
Step(w) ==
  \/ Operate(w) \/ WriteFails(w) \/ Refuse(w) \/ Answer(w) \/ AnswerLate(w) \/ Observe(w)
  \/ Restart(w) \/ Spawn(w) \/ Launch(w) \/ Greet(w) \/ Adopt(w) \/ NotReady(w)
  \/ ReleaseNothing(w) \/ SlotTaken(w) \/ Dispose(w)
  \/ Quarantine(w) \/ RetainChild(w) \/ WaitChild(w) \/ JoinReader(w) \/ RetainReader(w)

Done == (\A w \in Workers : At(w, "dropped")) /\ UNCHANGED vars

Next ==
  \/ \E w \in Workers : Request(w) \/ Reconfigure(w) \/ Drop(w) \/ Step(w)
  \/ \E c \in Children : Dies(c) \/ ReaderEnds(c)
  \/ Done

Spec == Init /\ [][Next]_vars

(* The threads run, but one that writes to a live child may be blocked for *)
(* good; a child that was killed ends, and so does the stdout of a child   *)
(* that has ended.  A child need not read or answer, and one whose kill    *)
(* failed need not end.  (A step of a worker changes one of the things in  *)
(* the subscript, or nothing.)                                             *)
FairSpec ==
  /\ Spec
  /\ \A w \in Workers : WF_<<worker[w], slot, faults>>(~Writing(w) /\ Step(w))
  /\ \A c \in Children : WF_child(child[c].kill = "done" /\ Dies(c))
                         /\ WF_reader(child[c].life # "up" /\ ReaderEnds(c))

-------------------------------------------------------------------------------
TypeOK ==
  /\ \A w \in Workers :
       /\ {worker[w].child, worker[w].inflight} \subseteq Children \union {None}
       /\ worker[w].analyses \in 0 .. MaxAnalyses
       /\ worker[w].classpath \in Classpaths /\ worker[w].target \in Classpaths \union {0}
  /\ \A c \in Children : child[c].life \in {"none", "up", "gone"}
  /\ reader \in [Children -> {"none", "reading", "frame", "eof"}]
  /\ {slot.child, slot.reader} \subseteq Children \union {None}
  /\ faults \in 0 .. MaxFaults

(* No handle is dropped, forgotten or held twice: every child that was not *)
(* reaped, and every reader that was not joined, belongs to one worker or  *)
(* to the slot, whatever is parked, quarantined or retained meanwhile.     *)
HandlesKept ==
  \A c \in Children :
    /\ Cardinality({w \in Workers : worker[w].child = c}) + (IF slot.child = c THEN 1 ELSE 0)
         = IF child[c].life = "none" THEN 0 ELSE 1
    /\ Cardinality({w \in Workers : worker[w].inflight = c}) + (IF slot.reader = c THEN 1 ELSE 0)
         = IF reader[c] = "none" THEN 0 ELSE 1

(* A worker never has two children: a replacement is spawned only when its *)
(* predecessor is proven gone, not when it was merely killed or did not    *)
(* answer.                                                                 *)
OneChild ==
  \A w \in Workers : Cardinality({c \in Children : c[1] = w /\ child[c] # Absent}) <= 1

(* Between requests a worker that is not marked for a restart can be used: *)
(* it has a process with the classpath it was last configured with, and no *)
(* reader is left that would take the next answer.                         *)
UsableUnlessMarked ==
  \A w \in Workers : (At(w, "idle") /\ ~worker[w].required) =>
    /\ worker[w].child # None /\ worker[w].inflight = None
    /\ child[worker[w].child].classpath = worker[w].classpath

(* Every request, reconfiguration and drop of a worker returns, whoever    *)
(* holds the slot and whatever the children do, with two exceptions: a     *)
(* write to a child that is alive and does not read blocks for good, since *)
(* no write has a deadline, and a child may be beyond killing.             *)
Returns ==
  \A w \in Workers :
    []<>~Writing(w) =>
      (worker[w].pc \notin {"idle", "dropped"} ~>
         (worker[w].pc \in {"idle", "dropped"} \/ \E c \in Children : child[c].kill = "failed"))
=============================================================================
