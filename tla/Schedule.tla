------------------------------ MODULE Schedule ------------------------------
(***************************************************************************)
(* The parallel execution of a compile plan in krusty-toolchain:           *)
(* schedule() and its Gate (compile/schedule.rs) together with the work    *)
(* and finished closures that run() (compile/run.rs) hands to it.          *)
(*                                                                         *)
(* The calling thread (main) hands ready steps to at most Jobs spawned     *)
(* threads and receives their results over a channel.  Every spawned       *)
(* thread consults the gate before it touches anything and records a       *)
(* failure in the gate before it reports.  What a step does to its module  *)
(* (run_step) is one nondeterministic outcome here; module                 *)
(* CompileAvoidance opens it up.                                           *)
(***************************************************************************)
EXTENDS Naturals, FiniteSets, Sequences

CONSTANTS
  N,      \* number of steps of the plan
  Waits,  \* Waits[s]: the earlier steps that step s starts after
  Jobs    \* how many steps may run at once

Step == 1 .. N

ASSUME PlanAssumption ==
  /\ N \in Nat
  /\ Jobs \in Nat \ {0}
  /\ Waits \in [Step -> SUBSET Step]
  /\ \A s \in Step : \A d \in Waits[s] : d < s

VARIABLES
  mainpc,     \* where the calling thread is in the scheduling loop
  remaining,  \* remaining[s]: the steps s still waits for (the code counts them)
  ready,      \* the BTreeSet of steps that wait for nothing any more
  running,    \* threads spawned and not yet received from
  stopped,    \* Gate::stopped
  thread,     \* thread[s]: where the thread of step s is
  outcome,    \* outcome[s]: what work(s, gate) came to
  channel,    \* results sent and not yet received
  current,    \* the step whose result is being handled
  results,    \* the steps whose result run() has stored
  next,       \* the first step whose output has not been handed on
  printed     \* the steps whose output was handed on, in that order

vars == <<mainpc, remaining, ready, running, stopped, thread, outcome,
          channel, current, results, next, printed>>

\* What the calling thread's scheduling owns, and what run() adds to it.
mainVars == <<mainpc, remaining, ready, running, current>>
outputVars == <<results, next, printed>>

ThreadState == {"unspawned", "spawned", "working", "failing", "reporting",
                "sent", "received"}

\* "refused" is the None that work returns when the gate is closed.
Outcome == {"none", "refused", "ok", "err", "panic"}

Init ==
  /\ mainpc = "check"
  /\ remaining = [s \in Step |-> Waits[s]]
  /\ ready = {s \in Step : Waits[s] = {}}
  /\ running = 0
  /\ stopped = FALSE
  /\ thread = [s \in Step |-> "unspawned"]
  /\ outcome = [s \in Step |-> "none"]
  /\ channel = <<>>
  /\ current = 0
  /\ results = {}
  /\ next = 1
  /\ printed = <<>>

-----------------------------------------------------------------------------
(* The calling thread.                                                     *)

\* The loop condition: running < jobs && !gate.stopped().
MainCheck ==
  /\ mainpc = "check"
  /\ mainpc' = IF running < Jobs /\ ~stopped THEN "spawn" ELSE "wait"
  /\ UNCHANGED <<remaining, ready, running, stopped, thread, outcome, channel,
                 current, outputVars>>

\* ready.pop_first() found nothing: leave the loop.
MainNothingReady ==
  /\ mainpc = "spawn"
  /\ ready = {}
  /\ mainpc' = "wait"
  /\ UNCHANGED <<remaining, ready, running, stopped, thread, outcome, channel,
                 current, outputVars>>

IsFirst(s, set) == s \in set /\ \A t \in set : s <= t

\* ready.pop_first() and scope.spawn.
MainSpawn(s) ==
  /\ mainpc = "spawn"
  /\ IsFirst(s, ready)
  /\ ready' = ready \ {s}
  /\ thread' = [thread EXCEPT ![s] = "spawned"]
  /\ running' = running + 1
  /\ mainpc' = "check"
  /\ UNCHANGED <<remaining, stopped, outcome, channel, current, outputVars>>

\* receiver.recv(): the next result, and what the loop does with it.
Receive(s) ==
  /\ mainpc = "wait"
  /\ running # 0
  /\ channel # <<>>
  /\ s = Head(channel)
  /\ channel' = Tail(channel)
  /\ running' = running - 1
  /\ thread' = [thread EXCEPT ![s] = "received"]

\* The result of a step that began: finished() stores it.
MainReceiveResult(s) ==
  /\ Receive(s)
  /\ outcome[s] \in {"ok", "err"}
  /\ results' = results \cup {s}
  /\ current' = s
  /\ mainpc' = "print"
  /\ UNCHANGED <<remaining, ready, stopped, outcome, next, printed>>

\* A refused step did nothing, and nothing waits for it.
MainReceiveRefused(s) ==
  /\ Receive(s)
  /\ outcome[s] = "refused"
  /\ mainpc' = "check"
  /\ UNCHANGED <<remaining, ready, stopped, outcome, current, outputVars>>

\* A panic: resume_unwind leaves the loop.
MainReceivePanic(s) ==
  /\ Receive(s)
  /\ outcome[s] = "panic"
  /\ mainpc' = "unwinding"
  /\ UNCHANGED <<remaining, ready, stopped, outcome, current, outputVars>>

\* The scope joins every thread before the panic leaves schedule().
MainUnwound ==
  /\ mainpc = "unwinding"
  /\ \A s \in Step : thread[s] \in {"unspawned", "sent", "received"}
  /\ mainpc' = "unwound"
  /\ UNCHANGED <<remaining, ready, running, stopped, thread, outcome, channel,
                 current, outputVars>>

\* Mutant: finished() hands its own step's output on at once.
MainHandOnAtOnce ==
  /\ mainpc = "print"
  /\ current \in results
  /\ printed' = Append(printed, current)
  /\ next' = next + 1
  /\ mainpc' = "release"
  /\ UNCHANGED <<remaining, ready, running, stopped, thread, outcome, channel,
                 current, results>>

\* One turn of the while loop of finished(): the output of the next planned
\* step is handed on if its result is there.
MainHandOn ==
  /\ mainpc = "print"
  /\ next \in results
  /\ printed' = Append(printed, next)
  /\ next' = next + 1
  /\ UNCHANGED <<mainVars, stopped, thread, outcome, channel, results>>

\* The while loop ends: the next planned step has no result yet.
MainHandedOn ==
  /\ mainpc = "print"
  /\ next \notin results
  /\ mainpc' = "release"
  /\ UNCHANGED <<remaining, ready, running, stopped, thread, outcome, channel,
                 current, outputVars>>

\* Mutant: a dependent is released only by the last step of its list, so one
\* that waits for several steps stays behind when they end out of order.
MainReleaseLastOnly ==
  /\ mainpc = "release"
  /\ remaining' = [t \in Step |-> remaining[t] \ {current}]
  /\ ready' = ready \cup {t \in Step : /\ remaining[t] = {current}
                                      /\ \A d \in Waits[t] : d <= current}
  /\ mainpc' = "check"
  /\ UNCHANGED <<running, stopped, thread, outcome, channel, current, outputVars>>

\* The dependents of the step are released, also those of a failed step.
MainRelease ==
  /\ mainpc = "release"
  /\ remaining' = [t \in Step |-> remaining[t] \ {current}]
  /\ ready' = ready \cup {t \in Step : remaining[t] = {current}}
  /\ mainpc' = "check"
  /\ UNCHANGED <<running, stopped, thread, outcome, channel, current, outputVars>>

\* running == 0: schedule() returns to run().
MainScheduled ==
  /\ mainpc = "wait"
  /\ running = 0
  /\ mainpc' = "flush"
  /\ UNCHANGED <<remaining, ready, running, stopped, thread, outcome, channel,
                 current, outputVars>>

\* One turn of run()'s last loop: hand on the results that are behind steps
\* that never began.
MainFlush ==
  /\ mainpc = "flush"
  /\ next \in Step
  /\ printed' = IF next \in results THEN Append(printed, next) ELSE printed
  /\ next' = next + 1
  /\ UNCHANGED <<mainVars, stopped, thread, outcome, channel, results>>

\* Mutant: run() returns without the last loop.
MainReturnUnflushed ==
  /\ mainpc = "flush"
  /\ mainpc' = "returned"
  /\ UNCHANGED <<remaining, ready, running, stopped, thread, outcome, channel,
                 current, outputVars>>

\* run() returns the failures among the results.
MainReturn ==
  /\ mainpc = "flush"
  /\ next \notin Step
  /\ mainpc' = "returned"
  /\ UNCHANGED <<remaining, ready, running, stopped, thread, outcome, channel,
                 current, outputVars>>

-----------------------------------------------------------------------------
(* The thread of one step.                                                 *)

\* Mutant: the step does not ask the gate.
ThreadBeginUngated(s) ==
  /\ thread[s] = "spawned"
  /\ thread' = [thread EXCEPT ![s] = "working"]
  /\ UNCHANGED <<mainVars, outputVars, stopped, outcome, channel>>

\* gate.begin(): a step begins only while no failure is recorded.
ThreadBegin(s) ==
  /\ thread[s] = "spawned"
  /\ thread' = [thread EXCEPT ![s] = IF stopped THEN "reporting" ELSE "working"]
  /\ outcome' = IF stopped THEN [outcome EXCEPT ![s] = "refused"] ELSE outcome
  /\ UNCHANGED <<mainVars, outputVars, stopped, channel>>

\* run_step returns Ok.
ThreadSucceed(s) ==
  /\ thread[s] = "working"
  /\ outcome' = [outcome EXCEPT ![s] = "ok"]
  /\ thread' = [thread EXCEPT ![s] = "reporting"]
  /\ UNCHANGED <<mainVars, outputVars, stopped, channel>>

\* Mutant: the failure is reported without being recorded in the gate.
ThreadFailUnrecorded(s, how) ==
  /\ thread[s] = "working"
  /\ outcome' = [outcome EXCEPT ![s] = how]
  /\ thread' = [thread EXCEPT ![s] = "reporting"]
  /\ UNCHANGED <<mainVars, outputVars, stopped, channel>>

\* run_step returns Err, or panics and is caught; the gate is not closed yet.
ThreadFail(s, how) ==
  /\ thread[s] = "working"
  /\ outcome' = [outcome EXCEPT ![s] = how]
  /\ thread' = [thread EXCEPT ![s] = "failing"]
  /\ UNCHANGED <<mainVars, outputVars, stopped, channel>>

\* gate.fail().
ThreadRecordFailure(s) ==
  /\ thread[s] = "failing"
  /\ stopped' = TRUE
  /\ thread' = [thread EXCEPT ![s] = "reporting"]
  /\ UNCHANGED <<mainVars, outputVars, outcome, channel>>

\* Mutant: a panic is not caught, so nothing is ever sent for its step.
ThreadSendUncaught(s) ==
  /\ thread[s] = "reporting"
  /\ outcome[s] # "panic"
  /\ channel' = Append(channel, s)
  /\ thread' = [thread EXCEPT ![s] = "sent"]
  /\ UNCHANGED <<mainVars, outputVars, stopped, outcome>>

\* sender.send((step, result)).
ThreadSend(s) ==
  /\ thread[s] = "reporting"
  /\ channel' = Append(channel, s)
  /\ thread' = [thread EXCEPT ![s] = "sent"]
  /\ UNCHANGED <<mainVars, outputVars, stopped, outcome>>

-----------------------------------------------------------------------------

Main ==
  \/ MainCheck
  \/ MainNothingReady
  \/ \E s \in Step : MainSpawn(s)
  \/ \E s \in Step : MainReceiveResult(s)
  \/ \E s \in Step : MainReceiveRefused(s)
  \/ \E s \in Step : MainReceivePanic(s)
  \/ MainUnwound
  \/ MainHandOn
  \/ MainHandedOn
  \/ MainRelease
  \/ MainScheduled
  \/ MainFlush
  \/ MainReturn

Thread(s) ==
  \/ ThreadBegin(s)
  \/ ThreadSucceed(s)
  \/ \E how \in {"err", "panic"} : ThreadFail(s, how)
  \/ ThreadRecordFailure(s)
  \/ ThreadSend(s)

Ended == mainpc \in {"returned", "unwound"}

\* schedule() has returned or unwound; nothing more happens.
Done == Ended /\ UNCHANGED vars

Next == Main \/ (\E s \in Step : Thread(s)) \/ Done

Spec == Init /\ [][Next]_vars

\* The calling thread and the spawned threads are scheduled by the operating
\* system, and the compiler a step runs is assumed to end.
FairSpec == Spec /\ WF_vars(Main) /\ \A s \in Step : WF_vars(Thread(s))

-----------------------------------------------------------------------------
(* Properties.                                                             *)

TypeOK ==
  /\ mainpc \in {"check", "spawn", "wait", "print", "release", "flush",
                "unwinding", "returned", "unwound"}
  /\ remaining \in [Step -> SUBSET Step]
  /\ ready \in SUBSET Step
  /\ running \in Nat
  /\ stopped \in BOOLEAN
  /\ thread \in [Step -> ThreadState]
  /\ outcome \in [Step -> Outcome]
  /\ channel \in Seq(Step)
  /\ current \in 0 .. N
  /\ results \in SUBSET Step
  /\ next \in 1 .. N + 1
  /\ printed \in Seq(Step)

\* The step has done something to its module: the gate let it begin.
Began(s) == thread[s] = "working" \/ outcome[s] \in {"ok", "err", "panic"}

\* A step's module is only ever touched after every module it compiles
\* against compiled successfully, although a failed step releases its
\* dependents just as a successful one does.
DependenciesSucceeded ==
  \A s \in Step : Began(s) => \A d \in Waits[s] : outcome[d] = "ok"

\* Once a failed step is on its way to report, no other step begins, not even
\* one whose thread was spawned before the failure.
NothingBeginsAfterFailure ==
  [][\A f \in Step :
       (outcome[f] \in {"err", "panic"} /\ thread[f] # "failing") =>
         \A s \in Step : thread[s] # "working" => thread'[s] # "working"]_vars

\* Never more than Jobs steps have begun and not finished.
AtMostJobs == Cardinality({s \in Step : thread[s] = "working"}) <= Jobs

\* While the calling thread waits for a result and nothing has failed, no
\* step that could run is held back with a job to spare.
NoIdleJob ==
  (mainpc = "wait" /\ ~stopped /\ running < Jobs) =>
    \A s \in Step : (\A d \in Waits[s] : thread[d] = "received")
                      => thread[s] # "unspawned"

\* Output is handed on in plan order, and never before the output of an
\* earlier planned step that began, however the steps race.
PrintedInPlanOrder ==
  /\ \A i, j \in DOMAIN printed : i < j => printed[i] < printed[j]
  /\ \A i \in DOMAIN printed : \A s \in Step :
       s < printed[i] /\ Began(s) => \E j \in DOMAIN printed : printed[j] = s

\* When run() returns, the output of exactly the steps that began has been
\* handed on; with no failure among them that is the whole plan.
ReturnIsComplete ==
  mainpc = "returned" =>
    /\ {printed[i] : i \in DOMAIN printed} = {s \in Step : Began(s)}
    /\ \A s \in Step : thread[s] \in {"unspawned", "received"}
    /\ (\A s \in results : outcome[s] = "ok") => results = Step

\* The plan always ends: the calling thread is never left waiting for a
\* result that no thread will send, whatever fails or panics.
Terminates == <>Ended
=============================================================================
