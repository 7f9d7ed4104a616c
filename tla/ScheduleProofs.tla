--------------------------- MODULE ScheduleProofs ---------------------------
(***************************************************************************)
(* Proofs about module Schedule, for every plan, every number of jobs and  *)
(* every way the steps' threads interleave.                                *)
(***************************************************************************)
EXTENDS Schedule, TLAPS, FiniteSetTheorems, WellFoundedInduction

-------------------------------------------------------------------------------
(* Every nonempty set of natural numbers has a least element.  The proofs  *)
(* use it in place of induction: to show something of every number, take   *)
(* the least one it fails for.                                             *)
LEMMA LeastNat ==
  ASSUME NEW T, T \subseteq Nat, T # {}
  PROVE  \E n \in T : \A m \in T : n <= m
<1>1. PICK R : IsWellFoundedOn(R, Nat) /\ \A x, y \in Nat : y < x => <<y, x>> \in R
  <2>1. \A x, y \in Nat : y < x => <<y, x>> \in OpToRel(<, Nat)
    BY DEF OpToRel
  <2> QED
    BY <2>1, NatLessThanWellFounded, Zenon
<1>2. PICK n \in T : \A y \in T : ~ (<<y, n>> \in R)
  BY <1>1, WFMin, Zenon
<1>3. \A m \in T : ~ (m < n)
  BY <1>1, <1>2, Zenon
<1> QED
  BY <1>3

-----------------------------------------------------------------------------
(* Type correctness.                                                       *)

\* Initially the state is well typed.
LEMMA TypeInit == Init => TypeOK
<1> SUFFICES ASSUME Init PROVE TypeOK
  OBVIOUS
<1> USE PlanAssumption DEF PlanAssumption, Init
<1>1. remaining \in [Step -> SUBSET Step] /\ ready \in SUBSET Step
  OBVIOUS
<1>2. thread \in [Step -> ThreadState] /\ outcome \in [Step -> Outcome]
  BY DEF ThreadState, Outcome
<1>3. channel \in Seq(Step) /\ printed \in Seq(Step)
  OBVIOUS
<1>4. running \in Nat /\ current \in 0 .. N /\ next \in 1 .. N + 1
  OBVIOUS
<1>5. QED
  BY <1>1, <1>2, <1>3, <1>4 DEF TypeOK

\* Every step keeps the state well typed.
LEMMA TypeStep == TypeOK /\ [Next]_vars => TypeOK'
<1> SUFFICES ASSUME TypeOK, [Next]_vars PROVE TypeOK'
  OBVIOUS
<1> USE PlanAssumption DEF PlanAssumption, TypeOK, ThreadState, Outcome,
                           mainVars, outputVars
<1>1. CASE MainCheck
  BY <1>1 DEF MainCheck
<1>2. CASE MainNothingReady
  BY <1>2 DEF MainNothingReady
<1>3. ASSUME NEW s \in Step, MainSpawn(s) PROVE TypeOK'
  BY <1>3 DEF MainSpawn
<1>4. ASSUME NEW s \in Step, MainReceiveResult(s) PROVE TypeOK'
  <2>1. current' \in 0 .. N
    BY <1>4 DEF MainReceiveResult, Step
  <2>2. channel' \in Seq(Step) /\ running' \in Nat
    BY <1>4 DEF MainReceiveResult, Receive
  <2>3. thread' \in [Step -> ThreadState] /\ results' \in SUBSET Step
    BY <1>4 DEF MainReceiveResult, Receive
  <2>4. QED
    BY <1>4, <2>1, <2>2, <2>3 DEF MainReceiveResult
<1>5. ASSUME NEW s \in Step, MainReceiveRefused(s) PROVE TypeOK'
  BY <1>5 DEF MainReceiveRefused, Receive
<1>6. ASSUME NEW s \in Step, MainReceivePanic(s) PROVE TypeOK'
  BY <1>6 DEF MainReceivePanic, Receive
<1>7. CASE MainUnwound
  BY <1>7 DEF MainUnwound
<1>8. CASE MainHandOn
  <2>1. next' \in 1 .. N + 1
    BY <1>8 DEF MainHandOn, Step
  <2>2. printed' \in Seq(Step)
    BY <1>8 DEF MainHandOn
  <2>3. QED
    BY <1>8, <2>1, <2>2 DEF MainHandOn
<1>9. CASE MainHandedOn
  BY <1>9 DEF MainHandedOn
<1>10. CASE MainRelease
  BY <1>10 DEF MainRelease
<1>11. CASE MainScheduled
  BY <1>11 DEF MainScheduled
<1>12. CASE MainFlush
  <2>1. next' \in 1 .. N + 1
    BY <1>12 DEF MainFlush, Step
  <2>2. printed' \in Seq(Step)
    BY <1>12 DEF MainFlush
  <2>3. QED
    BY <1>12, <2>1, <2>2 DEF MainFlush
<1>13. CASE MainReturn
  BY <1>13 DEF MainReturn
<1>14. ASSUME NEW s \in Step, Thread(s) PROVE TypeOK'
  <2>1. CASE ThreadBegin(s)
    BY <2>1 DEF ThreadBegin
  <2>2. CASE ThreadSucceed(s)
    BY <2>2 DEF ThreadSucceed
  <2>3. ASSUME NEW how \in {"err", "panic"}, ThreadFail(s, how) PROVE TypeOK'
    BY <2>3 DEF ThreadFail
  <2>4. CASE ThreadRecordFailure(s)
    BY <2>4 DEF ThreadRecordFailure
  <2>5. CASE ThreadSend(s)
    BY <2>5 DEF ThreadSend
  <2>6. QED
    BY <1>14, <2>1, <2>2, <2>3, <2>4, <2>5 DEF Thread
<1>15. CASE UNCHANGED vars
  BY <1>15 DEF vars
<1>16. QED
  BY <1>1, <1>2, <1>3, <1>4, <1>5, <1>6, <1>7, <1>8, <1>9, <1>10, <1>11, <1>12,
     <1>13, <1>14, <1>15 DEF Next, Main, Done

\* Every state the scheduler reaches is well typed: in particular the count
\* of running threads never drops below zero and the position in the output
\* never leaves the plan.
THEOREM ThmTypeOK == Spec => []TypeOK
<1>1. QED
  BY TypeInit, TypeStep, PTL DEF Spec

-----------------------------------------------------------------------------
(* Counting.                                                               *)

\* A step that is ready, or has left the ready set, waits for nothing.
ReadyWaitsForNothing ==
  \A s \in Step :
    /\ s \in ready => remaining[s] = {} /\ thread[s] = "unspawned"
    /\ thread[s] # "unspawned" => remaining[s] = {}

\* The steps whose thread was spawned and not yet received from.
Active == {s \in Step : thread[s] \notin {"unspawned", "received"}}

\* Every result in the channel is that of a thread that sent it, once.
ChannelHoldsSent ==
  /\ \A i \in 1 .. Len(channel) : thread[channel[i]] = "sent"
  /\ \A i, j \in 1 .. Len(channel) : channel[i] = channel[j] => i = j

\* running counts the active threads, and there is room for another one
\* between the loop's condition and the spawn.
RunningCounts ==
  /\ running = Cardinality(Active)
  /\ running <= Jobs
  /\ mainpc = "spawn" => running < Jobs

CountInv ==
  /\ TypeOK
  /\ ReadyWaitsForNothing
  /\ ChannelHoldsSent
  /\ RunningCounts

\* Initially nothing is active.
LEMMA CountInit == Init => CountInv
<1> SUFFICES ASSUME Init PROVE CountInv
  OBVIOUS
<1>1. TypeOK
  BY TypeInit
<1>2. Active = {}
  BY DEF Init, Active
<1>3. RunningCounts
  BY <1>2, FS_EmptySet, PlanAssumption DEF PlanAssumption, Init, RunningCounts
<1>4. ReadyWaitsForNothing /\ ChannelHoldsSent
  BY DEF Init, ReadyWaitsForNothing, ChannelHoldsSent
<1>5. QED
  BY <1>1, <1>3, <1>4 DEF CountInv

\* The active threads are finitely many, as the plan's steps are.
LEMMA ActiveFinite == IsFiniteSet(Active)
<1>1. IsFiniteSet(Step)
  BY FS_Interval, PlanAssumption DEF PlanAssumption, Step
<1>2. QED
  BY <1>1, FS_Subset DEF Active

\* Receiving takes one thread out of the active ones and out of the channel.
LEMMA ReceiveCounts ==
  ASSUME CountInv, TypeOK', NEW s \in Step, Receive(s), mainpc' # "spawn",
         UNCHANGED <<remaining, ready>>
  PROVE  CountInv' /\ thread[s] = "sent"
<1> USE PlanAssumption DEF PlanAssumption, CountInv, TypeOK, Receive
<1>1. /\ Len(channel) \in Nat \ {0}
      /\ s = channel[1]
      /\ Len(channel') = Len(channel) - 1
      /\ \A i \in 1 .. Len(channel') : channel'[i] = channel[i + 1]
  OBVIOUS
<1>2. thread[s] = "sent"
  BY <1>1 DEF ChannelHoldsSent
<1>3. \A t \in Step : thread'[t] = IF t = s THEN "received" ELSE thread[t]
  OBVIOUS
<1>4. ChannelHoldsSent'
  <2>1. \A i \in 1 .. Len(channel') : i + 1 \in 1 .. Len(channel)
    BY <1>1
  <2>2. \A i \in 1 .. Len(channel') : channel'[i] # s /\ channel'[i] \in Step
    BY <1>1, <2>1 DEF ChannelHoldsSent
  <2>3. \A i \in 1 .. Len(channel') : thread'[channel'[i]] = "sent"
    BY <1>1, <1>3, <2>1, <2>2 DEF ChannelHoldsSent
  <2>4. \A i, j \in 1 .. Len(channel') : channel'[i] = channel'[j] => i = j
    BY <1>1, <2>1 DEF ChannelHoldsSent
  <2>5. QED
    BY <2>3, <2>4 DEF ChannelHoldsSent
<1>5. RunningCounts'
  <2>1. Active' = Active \ {s} /\ s \in Active
    BY <1>2, <1>3 DEF Active
  <2>2. Cardinality(Active') = Cardinality(Active) - 1
    BY <2>1, ActiveFinite, FS_RemoveElement
  <2>3. QED
    BY <2>2 DEF RunningCounts
<1>6. ReadyWaitsForNothing'
  BY <1>2, <1>3 DEF ReadyWaitsForNothing
<1>7. QED
  BY <1>2, <1>4, <1>5, <1>6

\* A thread that moves without sending stays active.
LEMMA MoveCounts ==
  ASSUME CountInv, TypeOK', NEW s \in Step, NEW at \in ThreadState,
         thread[s] \notin {"unspawned", "sent", "received"},
         at \notin {"unspawned", "received"},
         thread' = [thread EXCEPT ![s] = at],
         UNCHANGED <<mainVars, channel>>
  PROVE  CountInv'
<1> USE DEF CountInv, TypeOK, mainVars
<1>1. \A t \in Step : thread'[t] = IF t = s THEN at ELSE thread[t]
  OBVIOUS
<1>2. Active' = Active
  BY <1>1 DEF Active
<1>3. RunningCounts'
  BY <1>2 DEF RunningCounts
<1>4. \A i \in 1 .. Len(channel) : channel[i] \in Step /\ channel[i] # s
  BY DEF ChannelHoldsSent
<1>5. ChannelHoldsSent'
  BY <1>1, <1>4 DEF ChannelHoldsSent
<1>6. ReadyWaitsForNothing'
  BY <1>1 DEF ReadyWaitsForNothing
<1>7. QED
  BY <1>3, <1>5, <1>6

\* Every step keeps the count.
LEMMA CountStep == CountInv /\ [Next]_vars => CountInv'
<1> SUFFICES ASSUME CountInv, [Next]_vars PROVE CountInv'
  OBVIOUS
<1>0. TypeOK'
  BY TypeStep DEF CountInv
<1>a. ASSUME UNCHANGED <<thread, channel, remaining, ready, running>>,
             mainpc' # "spawn" \/ running < Jobs
      PROVE  CountInv'
  BY <1>0, <1>a DEF CountInv, ReadyWaitsForNothing, ChannelHoldsSent,
     RunningCounts, Active
<1> USE DEF CountInv, mainVars, outputVars
<1>1. CASE MainCheck
  BY <1>1, <1>a DEF MainCheck
<1>2. CASE MainNothingReady
  BY <1>2, <1>a DEF MainNothingReady
<1>3. ASSUME NEW s \in Step, MainSpawn(s) PROVE CountInv'
  <2> USE <1>3 DEF MainSpawn, IsFirst, TypeOK
  <2>1. thread[s] = "unspawned" /\ remaining[s] = {}
    BY DEF ReadyWaitsForNothing
  <2>2. \A t \in Step : thread'[t] = IF t = s THEN "spawned" ELSE thread[t]
    OBVIOUS
  <2>3. RunningCounts'
    <3>1. Active' = Active \cup {s} /\ s \notin Active
      BY <2>1, <2>2 DEF Active
    <3>2. Cardinality(Active') = Cardinality(Active) + 1
      BY <3>1, ActiveFinite, FS_AddElement
    <3>3. QED
      BY <3>2, PlanAssumption DEF PlanAssumption, RunningCounts
  <2>4. \A i \in 1 .. Len(channel) : channel[i] \in Step /\ channel[i] # s
    BY <2>1 DEF ChannelHoldsSent
  <2>5. ChannelHoldsSent'
    BY <2>2, <2>4 DEF ChannelHoldsSent
  <2>6. ReadyWaitsForNothing'
    BY <2>1, <2>2 DEF ReadyWaitsForNothing
  <2>7. QED
    BY <1>0, <2>3, <2>5, <2>6
<1>4. ASSUME NEW s \in Step, MainReceiveResult(s) PROVE CountInv'
  BY <1>0, <1>4, ReceiveCounts DEF MainReceiveResult
<1>5. ASSUME NEW s \in Step, MainReceiveRefused(s) PROVE CountInv'
  BY <1>0, <1>5, ReceiveCounts DEF MainReceiveRefused
<1>6. ASSUME NEW s \in Step, MainReceivePanic(s) PROVE CountInv'
  BY <1>0, <1>6, ReceiveCounts DEF MainReceivePanic
<1>7. CASE MainUnwound
  BY <1>7, <1>a DEF MainUnwound
<1>8. CASE MainHandOn
  BY <1>8, <1>a DEF MainHandOn
<1>9. CASE MainHandedOn
  BY <1>9, <1>a DEF MainHandedOn
<1>10. CASE MainRelease
  <2> USE <1>10 DEF MainRelease
  <2>1. RunningCounts' /\ ChannelHoldsSent'
    BY DEF RunningCounts, ChannelHoldsSent, Active
  <2>2. ReadyWaitsForNothing'
    BY DEF ReadyWaitsForNothing, TypeOK
  <2>3. QED
    BY <1>0, <2>1, <2>2
<1>11. CASE MainScheduled
  BY <1>11, <1>a DEF MainScheduled
<1>12. CASE MainFlush
  BY <1>12, <1>a DEF MainFlush
<1>13. CASE MainReturn
  BY <1>13, <1>a DEF MainReturn
<1>14. ASSUME NEW s \in Step, Thread(s) PROVE CountInv'
  <2>1. CASE ThreadBegin(s)
    BY <1>0, <2>1, MoveCounts DEF ThreadBegin, ThreadState
  <2>2. CASE ThreadSucceed(s)
    BY <1>0, <2>2, MoveCounts DEF ThreadSucceed, ThreadState
  <2>3. ASSUME NEW how \in {"err", "panic"}, ThreadFail(s, how) PROVE CountInv'
    BY <1>0, <2>3, MoveCounts DEF ThreadFail, ThreadState
  <2>4. CASE ThreadRecordFailure(s)
    BY <1>0, <2>4, MoveCounts DEF ThreadRecordFailure, ThreadState
  <2>5. CASE ThreadSend(s)
    <3> USE <2>5 DEF ThreadSend, TypeOK
    <3>1. \A t \in Step : thread'[t] = IF t = s THEN "sent" ELSE thread[t]
      OBVIOUS
    <3>2. Active' = Active
      BY <3>1 DEF Active
    <3>3. RunningCounts'
      BY <3>2 DEF RunningCounts
    <3>4. /\ Len(channel') = Len(channel) + 1
          /\ channel'[Len(channel) + 1] = s
          /\ \A i \in 1 .. Len(channel) : /\ channel'[i] = channel[i]
                                          /\ channel[i] \in Step
                                          /\ channel[i] # s
      BY DEF ChannelHoldsSent
    <3>5. ChannelHoldsSent'
      BY <3>1, <3>4 DEF ChannelHoldsSent
    <3>6. ReadyWaitsForNothing'
      BY <3>1 DEF ReadyWaitsForNothing
    <3>7. QED
      BY <1>0, <3>3, <3>5, <3>6
  <2>6. QED
    BY <1>14, <2>1, <2>2, <2>3, <2>4, <2>5 DEF Thread
<1>15. CASE UNCHANGED vars
  BY <1>15, <1>a DEF vars, RunningCounts
<1>16. QED
  BY <1>1, <1>2, <1>3, <1>4, <1>5, <1>6, <1>7, <1>8, <1>9, <1>10, <1>11, <1>12,
     <1>13, <1>14, <1>15 DEF Next, Main, Done

\* Never more than Jobs steps have begun and not finished: the working
\* threads are among those running counts.
THEOREM ThmAtMostJobs == Spec => []AtMostJobs
<1>1. CountInv => AtMostJobs
  <2> SUFFICES ASSUME CountInv PROVE AtMostJobs
    OBVIOUS
  <2> DEFINE Working == {s \in Step : thread[s] = "working"}
  <2>1. Working \subseteq Active
    BY DEF Active
  <2>2. /\ IsFiniteSet(Working)
        /\ Cardinality(Working) <= Cardinality(Active)
    BY <2>1, ActiveFinite, FS_Subset
  <2>3. Cardinality(Working) \in Nat /\ Cardinality(Active) \in Nat
    BY <2>2, ActiveFinite, FS_CardinalityType
  <2>4. QED
    BY <2>2, <2>3, PlanAssumption
    DEF PlanAssumption, CountInv, RunningCounts, AtMostJobs
<1>2. QED
  BY <1>1, CountInit, CountStep, PTL DEF Spec

-----------------------------------------------------------------------------
(* Dependencies.  A thread that has passed nothing yet may already be      *)
(* spawned when a step fails, and the failed step releases its dependents: *)
(* the invariant ties a released dependent to the recorded failure.        *)

\* What a thread's position says about the outcome of its step.
OutcomeMatchesThread ==
  \A s \in Step :
    /\ (outcome[s] = "none") <=> (thread[s] \in {"unspawned", "spawned", "working"})
    /\ thread[s] = "failing" => outcome[s] \in {"err", "panic"}

\* A failure is recorded in the gate before its step reports.
FailureRecorded ==
  \A s \in Step : outcome[s] \in {"err", "panic"} => thread[s] = "failing" \/ stopped

\* Only a step whose result was received stops being waited for.
ReleasedAfterResult ==
  /\ \A s \in Step : \A d \in Waits[s] \ remaining[s] :
       thread[d] = "received" /\ outcome[d] \in {"ok", "err"}
  /\ mainpc \in {"print", "release"} =>
       /\ current \in Step
       /\ thread[current] = "received"
       /\ outcome[current] \in {"ok", "err"}

GateInv ==
  /\ TypeOK
  /\ OutcomeMatchesThread
  /\ FailureRecorded
  /\ ReleasedAfterResult
  /\ DependenciesSucceeded

\* Initially no step has begun and every step waits for all its dependencies.
LEMMA GateInit == Init => GateInv
<1> SUFFICES ASSUME Init PROVE GateInv
  OBVIOUS
<1>1. TypeOK
  BY TypeInit
<1>2. QED
  BY <1>1 DEF Init, GateInv, OutcomeMatchesThread, FailureRecorded,
     ReleasedAfterResult, DependenciesSucceeded, Began

\* Every step of every thread keeps the gate's invariant.
LEMMA GateStep == CountInv /\ GateInv /\ [Next]_vars => GateInv'
<1> SUFFICES ASSUME CountInv, GateInv, [Next]_vars PROVE GateInv'
  OBVIOUS
<1>0. TypeOK'
  BY TypeStep DEF GateInv
<1>b. ReadyWaitsForNothing
  BY DEF CountInv
<1>c. ASSUME NEW s \in Step, Receive(s), mainpc' # "spawn",
             UNCHANGED <<remaining, ready>>
      PROVE  thread[s] = "sent"
  BY <1>0, <1>c, ReceiveCounts
<1> USE PlanAssumption, <1>0, <1>b
    DEF PlanAssumption, GateInv, TypeOK, ThreadState, Outcome, mainVars,
        outputVars, OutcomeMatchesThread, FailureRecorded, ReleasedAfterResult,
        ReadyWaitsForNothing, DependenciesSucceeded, Began
<1>1. CASE MainCheck
  BY <1>1 DEF MainCheck
<1>2. CASE MainNothingReady
  BY <1>2 DEF MainNothingReady
<1>3. ASSUME NEW s \in Step, MainSpawn(s) PROVE GateInv'
  <2> USE <1>3 DEF MainSpawn, IsFirst
  <2>1. s \in ready /\ thread[s] = "unspawned" /\ remaining[s] = {}
    OBVIOUS
  <2>2. \A t \in Step : thread'[t] = IF t = s THEN "spawned" ELSE thread[t]
    OBVIOUS
  <2>3. OutcomeMatchesThread' /\ FailureRecorded' /\ DependenciesSucceeded'
    BY <2>1, <2>2
  <2>4. ReleasedAfterResult'
    BY <2>1, <2>2
  <2>5. QED
    BY <2>3, <2>4
<1>4. ASSUME NEW s \in Step, MainReceiveResult(s) PROVE GateInv'
  <2>0. thread[s] = "sent"
    BY <1>4, <1>c DEF MainReceiveResult
  <2> USE <1>4 DEF MainReceiveResult, Receive
  <2>1. \A t \in Step : thread'[t] = IF t = s THEN "received" ELSE thread[t]
    OBVIOUS
  <2>2. OutcomeMatchesThread' /\ FailureRecorded' /\ DependenciesSucceeded'
    BY <2>0, <2>1
  <2>3. ReleasedAfterResult'
    BY <2>0, <2>1
  <2>4. QED
    BY <2>2, <2>3
<1>5. ASSUME NEW s \in Step, MainReceiveRefused(s) PROVE GateInv'
  BY <1>5 DEF MainReceiveRefused, Receive
<1>6. ASSUME NEW s \in Step, MainReceivePanic(s) PROVE GateInv'
  <2>0. thread[s] = "sent"
    BY <1>6, <1>c DEF MainReceivePanic
  <2> USE <1>6 DEF MainReceivePanic, Receive
  <2>1. \A t \in Step : thread'[t] = IF t = s THEN "received" ELSE thread[t]
    OBVIOUS
  <2>2. OutcomeMatchesThread' /\ FailureRecorded' /\ DependenciesSucceeded'
    BY <2>0, <2>1
  <2>3. ReleasedAfterResult'
    BY <2>0, <2>1
  <2>4. QED
    BY <2>2, <2>3
<1>7. CASE MainUnwound
  BY <1>7 DEF MainUnwound
<1>8. CASE MainHandOn
  BY <1>8 DEF MainHandOn
<1>9. CASE MainHandedOn
  BY <1>9 DEF MainHandedOn
<1>10. CASE MainRelease
  BY <1>10 DEF MainRelease
<1>11. CASE MainScheduled
  BY <1>11 DEF MainScheduled
<1>12. CASE MainFlush
  BY <1>12 DEF MainFlush
<1>13. CASE MainReturn
  BY <1>13 DEF MainReturn
<1>14. ASSUME NEW s \in Step, Thread(s) PROVE GateInv'
  <2>1. CASE ThreadBegin(s)
    BY <2>1 DEF ThreadBegin
  <2>2. CASE ThreadSucceed(s)
    BY <2>2 DEF ThreadSucceed
  <2>3. ASSUME NEW how \in {"err", "panic"}, ThreadFail(s, how) PROVE GateInv'
    BY <2>3 DEF ThreadFail
  <2>4. CASE ThreadRecordFailure(s)
    BY <2>4 DEF ThreadRecordFailure
  <2>5. CASE ThreadSend(s)
    BY <2>5 DEF ThreadSend
  <2>6. QED
    BY <1>14, <2>1, <2>2, <2>3, <2>4, <2>5 DEF Thread
<1>15. CASE UNCHANGED vars
  BY <1>15 DEF vars
<1>16. QED
  BY <1>1, <1>2, <1>3, <1>4, <1>5, <1>6, <1>7, <1>8, <1>9, <1>10, <1>11, <1>12,
     <1>13, <1>14, <1>15 DEF Next, Main, Done

\* A step's module is only ever touched after every module it compiles
\* against compiled successfully, for every plan and any number of jobs.
THEOREM ThmDependenciesSucceeded == Spec => []DependenciesSucceeded
<1>1. GateInv => DependenciesSucceeded
  BY DEF GateInv
<1>2. QED
  BY <1>1, CountInit, CountStep, GateInit, GateStep, PTL DEF Spec

-----------------------------------------------------------------------------
(* The action property of the gate.                                        *)

\* Once a failed step is on its way to report, no other step begins, for every
\* plan and any number of jobs.
THEOREM ThmNothingBeginsAfterFailure == Spec => NothingBeginsAfterFailure
<1> DEFINE Quiet ==
      \A f \in Step :
        (outcome[f] \in {"err", "panic"} /\ thread[f] # "failing") =>
          \A s \in Step : thread[s] # "working" => thread'[s] # "working"
<1>1. GateInv /\ [Next]_vars => [Quiet]_vars
  <2> SUFFICES ASSUME GateInv, Next, NEW f \in Step,
                      outcome[f] \in {"err", "panic"}, thread[f] # "failing",
                      NEW t \in Step, thread[t] # "working"
               PROVE  thread'[t] # "working"
    OBVIOUS
  <2>1. stopped
    BY DEF GateInv, FailureRecorded
  <2>2. thread \in [Step -> ThreadState]
    BY DEF GateInv, TypeOK
  <2>3. CASE \E s \in Step : Thread(s)
    BY <2>1, <2>2, <2>3
    DEF Thread, ThreadBegin, ThreadSucceed, ThreadFail, ThreadRecordFailure, ThreadSend
  <2>4. CASE Main \/ Done
    BY <2>2, <2>4
    DEF Main, MainCheck, MainNothingReady, MainSpawn, MainReceiveResult, MainReceiveRefused,
        MainReceivePanic, Receive, MainUnwound, MainHandOn, MainHandedOn, MainRelease,
        MainScheduled, MainFlush, MainReturn, Done, vars
  <2> QED
    BY <2>3, <2>4 DEF Next
<1> QED
  BY <1>1, CountInit, CountStep, GateInit, GateStep, PTL DEF Spec, NothingBeginsAfterFailure

-----------------------------------------------------------------------------
(* Progress and output.  What run() has stored, what the steps still wait  *)
(* for and what was handed on are three views of which results were        *)
(* received; these invariants say how they fit together at each point of   *)
(* the calling thread's loop.                                              *)

\* run() or schedule() has no step left to wait for.
Over == mainpc \in {"flush", "returned"}

\* The step whose result is stored and whose dependents are not released yet.
Handling == IF mainpc \in {"print", "release"} THEN {current} ELSE {}

\* The stored results are those of the steps received that began; a panic that
\* was received leaves the loop.
ResultsReceived ==
  /\ \A s \in Step : s \in results <=> (thread[s] = "received" /\ outcome[s] \in {"ok", "err"})
  /\ \A s \in Step : thread[s] = "received" /\ outcome[s] = "panic"
                       => mainpc \in {"unwinding", "unwound"}
  /\ Handling \subseteq results

\* A step waits for exactly its dependencies without a handled result, and one
\* that waits for nothing is not forgotten.
RemainingExact ==
  \A s \in Step : /\ remaining[s] = Waits[s] \ (results \ Handling)
                  /\ remaining[s] = {} => s \in ready \/ thread[s] # "unspawned"

\* The gate is closed by a failure only, and refuses only when it is closed.
StoppedByFailure ==
  /\ stopped => \E f \in Step : outcome[f] \in {"err", "panic"}
  /\ \A s \in Step : outcome[s] = "refused" => stopped

\* The calling thread waits, and returns, only with no step to spawn.
WaitsForAReason ==
  /\ mainpc = "wait" => running >= Jobs \/ stopped \/ ready = {}
  /\ Over => /\ stopped \/ ready = {}
             /\ \A s \in Step : thread[s] \in {"unspawned", "received"}
  /\ mainpc = "returned" => next \notin Step

Handed(s) == \E i \in DOMAIN printed : printed[i] = s

\* The output handed on is in order, of stored results, and without a gap
\* below next; after the loop only steps without a result are skipped.
PrintedSoFar ==
  /\ \A i, j \in DOMAIN printed : i < j => printed[i] < printed[j]
  /\ \A i \in DOMAIN printed : printed[i] < next /\ printed[i] \in results
  /\ \A s \in Step : s < next => Handed(s) \/ (Over /\ s \notin results)

OrderInv ==
  /\ ResultsReceived /\ RemainingExact /\ StoppedByFailure
  /\ WaitsForAReason /\ PrintedSoFar

\* Initially nothing was received, stored or handed on.
LEMMA OrderInit == Init => OrderInv
BY PlanAssumption
DEF PlanAssumption, Init, OrderInv, ResultsReceived, RemainingExact, StoppedByFailure,
    WaitsForAReason, PrintedSoFar, Handling, Over, Handed

\* Every step keeps the stored results those of the steps received.
LEMMA ResultsStep ==
  ASSUME CountInv, GateInv, ResultsReceived, [Next]_vars
  PROVE  ResultsReceived'
<1>a. TypeOK /\ TypeOK'
  BY TypeStep DEF GateInv
<1>b. ASSUME NEW s \in Step, Receive(s), mainpc' # "spawn", UNCHANGED <<remaining, ready>>
      PROVE  thread[s] = "sent"
  BY <1>a, <1>b, ReceiveCounts
<1>c. OutcomeMatchesThread
  BY DEF GateInv
<1> USE <1>a, <1>c
    DEF TypeOK, OutcomeMatchesThread, ResultsReceived, Handling, mainVars, outputVars
<1>1. CASE MainCheck
  BY <1>1 DEF MainCheck
<1>2. CASE MainNothingReady
  BY <1>2 DEF MainNothingReady
<1>3. ASSUME NEW s \in Step, MainSpawn(s) PROVE ResultsReceived'
  BY <1>3 DEF MainSpawn, IsFirst, CountInv, ReadyWaitsForNothing
<1>4. ASSUME NEW s \in Step, MainReceiveResult(s) PROVE ResultsReceived'
  BY <1>4, <1>b DEF MainReceiveResult, Receive
<1>5. ASSUME NEW s \in Step, MainReceiveRefused(s) PROVE ResultsReceived'
  BY <1>5, <1>b DEF MainReceiveRefused, Receive
<1>6. ASSUME NEW s \in Step, MainReceivePanic(s) PROVE ResultsReceived'
  BY <1>6, <1>b DEF MainReceivePanic, Receive
<1>7. CASE MainUnwound
  BY <1>7 DEF MainUnwound
<1>8. CASE MainHandOn
  BY <1>8 DEF MainHandOn
<1>9. CASE MainHandedOn
  BY <1>9 DEF MainHandedOn
<1>10. CASE MainRelease
  BY <1>10 DEF MainRelease
<1>11. CASE MainScheduled
  BY <1>11 DEF MainScheduled
<1>12. CASE MainFlush
  BY <1>12 DEF MainFlush
<1>13. CASE MainReturn
  BY <1>13 DEF MainReturn
<1>14. ASSUME NEW s \in Step, ThreadBegin(s) PROVE ResultsReceived'
  BY <1>14 DEF ThreadBegin
<1>15. ASSUME NEW s \in Step, ThreadSucceed(s) PROVE ResultsReceived'
  BY <1>15 DEF ThreadSucceed
<1>16. ASSUME NEW s \in Step, NEW how \in {"err", "panic"}, ThreadFail(s, how) PROVE ResultsReceived'
  BY <1>16 DEF ThreadFail
<1>17. ASSUME NEW s \in Step, ThreadRecordFailure(s) PROVE ResultsReceived'
  BY <1>17 DEF ThreadRecordFailure
<1>18. ASSUME NEW s \in Step, ThreadSend(s) PROVE ResultsReceived'
  BY <1>18 DEF ThreadSend
<1>19. CASE UNCHANGED vars
  BY <1>19 DEF vars
<1> QED
  BY <1>1, <1>2, <1>3, <1>4, <1>5, <1>6, <1>7, <1>8, <1>9, <1>10,
     <1>11, <1>12, <1>13, <1>14, <1>15, <1>16, <1>17, <1>18, <1>19 DEF Next, Main, Thread, Done

\* Every step keeps what the steps still wait for exact.
LEMMA RemainingStep ==
  ASSUME CountInv, GateInv, ResultsReceived, RemainingExact, [Next]_vars
  PROVE  RemainingExact'
<1>a. TypeOK /\ TypeOK'
  BY TypeStep DEF GateInv
<1>b. ASSUME NEW s \in Step, Receive(s), mainpc' # "spawn", UNCHANGED <<remaining, ready>>
      PROVE  thread[s] = "sent"
  BY <1>a, <1>b, ReceiveCounts
<1> USE <1>a, PlanAssumption
    DEF PlanAssumption, TypeOK, ResultsReceived, RemainingExact, Handling, mainVars, outputVars
<1>1. CASE MainCheck
  BY <1>1 DEF MainCheck
<1>2. CASE MainNothingReady
  BY <1>2 DEF MainNothingReady
<1>3. ASSUME NEW s \in Step, MainSpawn(s) PROVE RemainingExact'
  BY <1>3 DEF MainSpawn, IsFirst
<1>4. ASSUME NEW s \in Step, MainReceiveResult(s) PROVE RemainingExact'
  BY <1>4, <1>b DEF MainReceiveResult, Receive
<1>5. ASSUME NEW s \in Step, MainReceiveRefused(s) PROVE RemainingExact'
  BY <1>5, <1>b DEF MainReceiveRefused, Receive
<1>6. ASSUME NEW s \in Step, MainReceivePanic(s) PROVE RemainingExact'
  BY <1>6, <1>b DEF MainReceivePanic, Receive
<1>7. CASE MainUnwound
  BY <1>7 DEF MainUnwound
<1>8. CASE MainHandOn
  BY <1>8 DEF MainHandOn
<1>9. CASE MainHandedOn
  BY <1>9 DEF MainHandedOn
<1>10. CASE MainRelease
  BY <1>10 DEF MainRelease
<1>11. CASE MainScheduled
  BY <1>11 DEF MainScheduled
<1>12. CASE MainFlush
  BY <1>12 DEF MainFlush
<1>13. CASE MainReturn
  BY <1>13 DEF MainReturn
<1>14. ASSUME NEW s \in Step, ThreadBegin(s) PROVE RemainingExact'
  BY <1>14 DEF ThreadBegin
<1>15. ASSUME NEW s \in Step, ThreadSucceed(s) PROVE RemainingExact'
  BY <1>15 DEF ThreadSucceed
<1>16. ASSUME NEW s \in Step, NEW how \in {"err", "panic"}, ThreadFail(s, how) PROVE RemainingExact'
  BY <1>16 DEF ThreadFail
<1>17. ASSUME NEW s \in Step, ThreadRecordFailure(s) PROVE RemainingExact'
  BY <1>17 DEF ThreadRecordFailure
<1>18. ASSUME NEW s \in Step, ThreadSend(s) PROVE RemainingExact'
  BY <1>18 DEF ThreadSend
<1>19. CASE UNCHANGED vars
  BY <1>19 DEF vars
<1> QED
  BY <1>1, <1>2, <1>3, <1>4, <1>5, <1>6, <1>7, <1>8, <1>9, <1>10,
     <1>11, <1>12, <1>13, <1>14, <1>15, <1>16, <1>17, <1>18, <1>19 DEF Next, Main, Thread, Done

\* Every step keeps a closed gate the work of a failure.
LEMMA StoppedStep ==
  ASSUME GateInv, StoppedByFailure, [Next]_vars
  PROVE  StoppedByFailure'
<1> USE DEF GateInv, TypeOK, OutcomeMatchesThread, StoppedByFailure, mainVars, outputVars
<1>1. CASE MainCheck
  BY <1>1 DEF MainCheck
<1>2. CASE MainNothingReady
  BY <1>2 DEF MainNothingReady
<1>3. ASSUME NEW s \in Step, MainSpawn(s) PROVE StoppedByFailure'
  BY <1>3 DEF MainSpawn, IsFirst
<1>4. ASSUME NEW s \in Step, MainReceiveResult(s) PROVE StoppedByFailure'
  BY <1>4 DEF MainReceiveResult, Receive
<1>5. ASSUME NEW s \in Step, MainReceiveRefused(s) PROVE StoppedByFailure'
  BY <1>5 DEF MainReceiveRefused, Receive
<1>6. ASSUME NEW s \in Step, MainReceivePanic(s) PROVE StoppedByFailure'
  BY <1>6 DEF MainReceivePanic, Receive
<1>7. CASE MainUnwound
  BY <1>7 DEF MainUnwound
<1>8. CASE MainHandOn
  BY <1>8 DEF MainHandOn
<1>9. CASE MainHandedOn
  BY <1>9 DEF MainHandedOn
<1>10. CASE MainRelease
  BY <1>10 DEF MainRelease
<1>11. CASE MainScheduled
  BY <1>11 DEF MainScheduled
<1>12. CASE MainFlush
  BY <1>12 DEF MainFlush
<1>13. CASE MainReturn
  BY <1>13 DEF MainReturn
<1>14. ASSUME NEW s \in Step, ThreadBegin(s) PROVE StoppedByFailure'
  BY <1>14 DEF ThreadBegin
<1>15. ASSUME NEW s \in Step, ThreadSucceed(s) PROVE StoppedByFailure'
  BY <1>15 DEF ThreadSucceed
<1>16. ASSUME NEW s \in Step, NEW how \in {"err", "panic"}, ThreadFail(s, how) PROVE StoppedByFailure'
  BY <1>16 DEF ThreadFail
<1>17. ASSUME NEW s \in Step, ThreadRecordFailure(s) PROVE StoppedByFailure'
  BY <1>17 DEF ThreadRecordFailure
<1>18. ASSUME NEW s \in Step, ThreadSend(s) PROVE StoppedByFailure'
  BY <1>18 DEF ThreadSend
<1>19. CASE UNCHANGED vars
  BY <1>19 DEF vars
<1> QED
  BY <1>1, <1>2, <1>3, <1>4, <1>5, <1>6, <1>7, <1>8, <1>9, <1>10,
     <1>11, <1>12, <1>13, <1>14, <1>15, <1>16, <1>17, <1>18, <1>19 DEF Next, Main, Thread, Done

\* With no thread counted, every thread was received from or never spawned.
LEMMA NoneActive ==
  ASSUME CountInv, running = 0, NEW s \in Step
  PROVE  thread[s] \in {"unspawned", "received"}
<1>1. Active = {}
  BY ActiveFinite, FS_EmptySet DEF CountInv, RunningCounts
<1> QED
  BY <1>1 DEF Active

\* Every step keeps the calling thread waiting for a reason only.
LEMMA WaitsStep ==
  ASSUME CountInv, GateInv, WaitsForAReason, [Next]_vars
  PROVE  WaitsForAReason'
<1>a. TypeOK /\ TypeOK'
  BY TypeStep DEF GateInv
<1> USE <1>a, PlanAssumption
    DEF PlanAssumption, TypeOK, WaitsForAReason, Over, mainVars, outputVars
<1>1. CASE MainCheck
  BY <1>1 DEF MainCheck
<1>2. CASE MainNothingReady
  BY <1>2 DEF MainNothingReady
<1>3. ASSUME NEW s \in Step, MainSpawn(s) PROVE WaitsForAReason'
  BY <1>3 DEF MainSpawn, IsFirst
<1>4. ASSUME NEW s \in Step, MainReceiveResult(s) PROVE WaitsForAReason'
  BY <1>4 DEF MainReceiveResult, Receive
<1>5. ASSUME NEW s \in Step, MainReceiveRefused(s) PROVE WaitsForAReason'
  BY <1>5 DEF MainReceiveRefused, Receive
<1>6. ASSUME NEW s \in Step, MainReceivePanic(s) PROVE WaitsForAReason'
  BY <1>6 DEF MainReceivePanic, Receive
<1>7. CASE MainUnwound
  BY <1>7 DEF MainUnwound
<1>8. CASE MainHandOn
  BY <1>8 DEF MainHandOn
<1>9. CASE MainHandedOn
  BY <1>9 DEF MainHandedOn
<1>10. CASE MainRelease
  BY <1>10 DEF MainRelease
<1>11. CASE MainScheduled
  BY <1>11, NoneActive DEF MainScheduled
<1>12. CASE MainFlush
  BY <1>12 DEF MainFlush
<1>13. CASE MainReturn
  BY <1>13 DEF MainReturn
<1>14. ASSUME NEW s \in Step, ThreadBegin(s) PROVE WaitsForAReason'
  BY <1>14 DEF ThreadBegin
<1>15. ASSUME NEW s \in Step, ThreadSucceed(s) PROVE WaitsForAReason'
  BY <1>15 DEF ThreadSucceed
<1>16. ASSUME NEW s \in Step, NEW how \in {"err", "panic"}, ThreadFail(s, how) PROVE WaitsForAReason'
  BY <1>16 DEF ThreadFail
<1>17. ASSUME NEW s \in Step, ThreadRecordFailure(s) PROVE WaitsForAReason'
  BY <1>17 DEF ThreadRecordFailure
<1>18. ASSUME NEW s \in Step, ThreadSend(s) PROVE WaitsForAReason'
  BY <1>18 DEF ThreadSend
<1>19. CASE UNCHANGED vars
  BY <1>19 DEF vars
<1> QED
  BY <1>1, <1>2, <1>3, <1>4, <1>5, <1>6, <1>7, <1>8, <1>9, <1>10,
     <1>11, <1>12, <1>13, <1>14, <1>15, <1>16, <1>17, <1>18, <1>19 DEF Next, Main, Thread, Done

\* One more output is handed on, or one step is passed over.
LEMMA PrintedGrows ==
  ASSUME TypeOK, PrintedSoFar, next \in Step, next' = next + 1,
         IF next \in results THEN printed' = Append(printed, next)
                             ELSE printed' = printed /\ Over,
         UNCHANGED <<results, Over>>
  PROVE  PrintedSoFar'
<1> USE PlanAssumption DEF PlanAssumption, TypeOK, Step
<1>1. CASE next \in results
  <2>0. PICK n : n = next /\ n \in Step /\ printed' = Append(printed, n)
    BY <1>1
  <2>1. /\ Len(printed') = Len(printed) + 1 /\ Len(printed) \in Nat
        /\ DOMAIN printed = 1 .. Len(printed) /\ DOMAIN printed' = 1 .. Len(printed')
        /\ printed'[Len(printed')] = next
        /\ \A i \in DOMAIN printed :
             i \in DOMAIN printed' /\ printed'[i] = printed[i] /\ printed[i] \in Step
    <3>1. printed \in Seq(Step)
      OBVIOUS
    <3>2. /\ Len(printed') = Len(printed) + 1 /\ Len(printed) \in Nat
          /\ DOMAIN printed = 1 .. Len(printed) /\ DOMAIN printed' = 1 .. Len(printed')
      BY <2>0, <3>1
    <3>3. /\ printed'[Len(printed')] = n
          /\ \A i \in 1 .. Len(printed) : printed'[i] = printed[i] /\ printed[i] \in Step
      BY <2>0, <3>1
    <3> QED
      BY ONLY <2>0, <3>2, <3>3
  <2>2. \A i \in DOMAIN printed' : i \in DOMAIN printed \/ i = Len(printed')
    BY <2>1
  <2>3. \A i, j \in DOMAIN printed' : i < j => printed'[i] < printed'[j]
    <3> SUFFICES ASSUME NEW i \in DOMAIN printed', NEW j \in DOMAIN printed', i < j
                 PROVE  printed'[i] < printed'[j]
      OBVIOUS
    <3>1. i \in DOMAIN printed
      BY <2>1, <2>2
    <3> QED
      BY <2>1, <2>2, <3>1 DEF PrintedSoFar
  <2>4. \A i \in DOMAIN printed' : printed'[i] < next' /\ printed'[i] \in results'
    BY <1>1, <2>1, <2>2 DEF PrintedSoFar
  <2>5. \A s \in Step : Handed(s) \/ s = next => Handed(s)'
    <3>1. \A s \in Step : Handed(s) => Handed(s)'
      BY ONLY <2>1 DEF Handed
    <3>2. Len(printed') \in DOMAIN printed'
      BY <2>1
    <3>3. Handed(n)'
      BY ONLY <2>0, <2>1, <3>2 DEF Handed
    <3> QED
      BY <2>0, <3>1, <3>3
  <2>6. \A s \in Step : s < next' => Handed(s)' \/ (Over' /\ s \notin results')
    BY <2>5 DEF PrintedSoFar
  <2> QED
    BY <2>3, <2>4, <2>6 DEF PrintedSoFar
<1>2. CASE next \notin results
  <2>1. printed' = printed /\ Over' /\ results' = results
    BY <1>2
  <2>2. \A i \in DOMAIN printed : printed[i] \in Step
    OBVIOUS
  <2> QED
    BY <1>2, <2>1, <2>2 DEF PrintedSoFar, Handed
<1> QED
  BY <1>1, <1>2

\* While the loop runs only its own step may have a result that is behind a
\* step without one: what is below next was handed on.
LEMMA PrintedStep ==
  ASSUME CountInv, GateInv, ResultsReceived, PrintedSoFar, [Next]_vars
  PROVE  PrintedSoFar'
<1>a. TypeOK /\ TypeOK'
  BY TypeStep DEF GateInv
<1>b. ASSUME UNCHANGED <<printed, next, results>>, Over => Over' PROVE PrintedSoFar'
  BY <1>b DEF PrintedSoFar, Handed
<1>1. CASE MainHandOn
  <2>1. UNCHANGED Over
    BY <1>1 DEF MainHandOn, mainVars, Over
  <2> QED
    BY <1>a, <1>1, <2>1, PrintedGrows DEF MainHandOn, TypeOK
<1>2. CASE MainFlush
  <2>1. Over /\ UNCHANGED Over
    BY <1>2 DEF MainFlush, mainVars, Over
  <2> QED
    BY <1>a, <1>2, <2>1, PrintedGrows DEF MainFlush
<1>3. ASSUME NEW s \in Step, MainReceiveResult(s) PROVE PrintedSoFar'
  BY <1>3 DEF MainReceiveResult, Receive, PrintedSoFar, Handed, Over
<1>4. CASE \E s \in Step : MainSpawn(s) \/ MainReceiveRefused(s) \/ MainReceivePanic(s) \/ Thread(s)
  BY <1>4, <1>b
  DEF MainSpawn, MainReceiveRefused, MainReceivePanic, Receive, Thread, ThreadBegin, ThreadSucceed,
      ThreadFail, ThreadRecordFailure, ThreadSend, mainVars, outputVars, Over
<1>5. CASE \/ MainCheck \/ MainNothingReady \/ MainUnwound \/ MainHandedOn \/ MainRelease
           \/ MainScheduled \/ MainReturn \/ UNCHANGED vars
  BY <1>5, <1>b
  DEF MainCheck, MainNothingReady, MainUnwound, MainHandedOn, MainRelease, MainScheduled,
      MainReturn, vars, mainVars, outputVars, Over
<1> QED
  BY <1>1, <1>2, <1>3, <1>4, <1>5 DEF Next, Main, Done

\* Every step keeps what the calling thread knows consistent.
LEMMA OrderStep == CountInv /\ GateInv /\ OrderInv /\ [Next]_vars => OrderInv'
BY ResultsStep, RemainingStep, StoppedStep, WaitsStep, PrintedStep DEF OrderInv

\* The three invariants hold together in every behaviour.
LEMMA OrderAlways == Spec => [](CountInv /\ GateInv /\ OrderInv)
BY CountInit, CountStep, GateInit, GateStep, OrderInit, OrderStep, PTL DEF Spec

\* While nothing has failed, a step that was received has a result.
LEMMA ReceivedHasResult ==
  ASSUME CountInv, GateInv, OrderInv, ~stopped, NEW s \in Step, thread[s] = "received"
  PROVE  s \in results
BY DEF GateInv, TypeOK, Outcome, OutcomeMatchesThread, FailureRecorded, OrderInv,
       ResultsReceived, StoppedByFailure

\* No job is idle while a step could run: for every plan, a step all of whose
\* dependencies were received has been spawned whenever the calling thread
\* waits with a job to spare and nothing has failed.
THEOREM ThmNoIdleJob == Spec => []NoIdleJob
<1>1. CountInv /\ GateInv /\ OrderInv => NoIdleJob
  <2> SUFFICES ASSUME CountInv, GateInv, OrderInv, mainpc = "wait", ~stopped, running < Jobs,
                      NEW s \in Step, \A d \in Waits[s] : thread[d] = "received"
               PROVE  thread[s] # "unspawned"
    BY DEF NoIdleJob
  <2>1. ready = {}
    BY PlanAssumption
    DEF PlanAssumption, OrderInv, WaitsForAReason, GateInv, TypeOK
  <2>2. Waits[s] \subseteq results
    BY ReceivedHasResult, PlanAssumption DEF PlanAssumption
  <2>3. remaining[s] = {}
    BY <2>2 DEF OrderInv, RemainingExact, Handling
  <2> QED
    BY <2>1, <2>3 DEF OrderInv, RemainingExact
<1> QED
  BY <1>1, OrderAlways, PTL

\* A step that began and is over was received and stored, once the loop is
\* left without a panic.
LEMMA BeganHasResult ==
  ASSUME CountInv, GateInv, OrderInv, Over, NEW s \in Step
  PROVE  Began(s) <=> s \in results
BY DEF GateInv, TypeOK, Outcome, OutcomeMatchesThread, OrderInv, ResultsReceived,
       WaitsForAReason, Over, Began

\* Output is handed on in plan order and never before the output of an earlier
\* planned step that began, for every plan and however the steps race.
THEOREM ThmPrintedInPlanOrder == Spec => []PrintedInPlanOrder
<1>1. CountInv /\ GateInv /\ OrderInv => PrintedInPlanOrder
  <2> SUFFICES ASSUME CountInv, GateInv, OrderInv PROVE PrintedInPlanOrder
    OBVIOUS
  <2>1. \A i, j \in DOMAIN printed : i < j => printed[i] < printed[j]
    BY DEF OrderInv, PrintedSoFar
  <2>2. ASSUME NEW i \in DOMAIN printed, NEW s \in Step, s < printed[i], Began(s)
        PROVE  Handed(s)
    <3>1. printed[i] \in Step /\ printed[i] < next /\ next \in Nat /\ Step \subseteq Nat
      BY PlanAssumption DEF PlanAssumption, OrderInv, PrintedSoFar, GateInv, TypeOK, Step
    <3>2. s < next
      <4>1. s \in Nat /\ printed[i] \in Nat
        BY ONLY <2>2, <3>1
      <4> QED
        BY ONLY <2>2, <3>1, <4>1
    <3> QED
      BY <2>2, <3>2, BeganHasResult DEF OrderInv, PrintedSoFar
  <2> QED
    BY <2>1, <2>2 DEF PrintedInPlanOrder, Handed
<1> QED
  BY <1>1, OrderAlways, PTL

\* When run() returns, what was handed on is the output of the steps that
\* began, no thread is left, and a run without a failure stored every result:
\* a step without one would have a least one before it, whose dependencies all
\* have results, and which is therefore not held back.
THEOREM ThmReturnIsComplete == Spec => []ReturnIsComplete
<1>1. CountInv /\ GateInv /\ OrderInv => ReturnIsComplete
  <2> SUFFICES ASSUME CountInv, GateInv, OrderInv, mainpc = "returned"
               PROVE  /\ {printed[i] : i \in DOMAIN printed} = {s \in Step : Began(s)}
                      /\ \A s \in Step : thread[s] \in {"unspawned", "received"}
                      /\ (\A s \in results : outcome[s] = "ok") => results = Step
    BY DEF ReturnIsComplete
  <2>1. Over
    BY DEF Over
  <2>2. \A s \in Step : s < next
    BY PlanAssumption DEF PlanAssumption, OrderInv, WaitsForAReason, GateInv, TypeOK, Step
  <2>3. \A s \in Step : Began(s) <=> Handed(s)
    BY <2>1, <2>2, BeganHasResult DEF OrderInv, PrintedSoFar, Handed
  <2>4. {printed[i] : i \in DOMAIN printed} = {s \in Step : Began(s)}
    BY <2>3 DEF Handed, GateInv, TypeOK
  <2>5. \A s \in Step : thread[s] \in {"unspawned", "received"}
    BY <2>1 DEF OrderInv, WaitsForAReason
  <2>6. ASSUME \A s \in results : outcome[s] = "ok" PROVE results = Step
    <3>1. ~ stopped
      <4> SUFFICES ASSUME stopped PROVE FALSE
        OBVIOUS
      <4>1. PICK f \in Step : outcome[f] \in {"err", "panic"}
        BY DEF OrderInv, StoppedByFailure
      <4>2. f \in results
        BY <2>1, <4>1, BeganHasResult DEF Began
      <4> QED
        BY <2>6, <4>1, <4>2
    <3> SUFFICES ASSUME Step \ results # {} PROVE FALSE
      BY DEF GateInv, TypeOK
    <3>2. PICK s \in Step \ results : \A t \in Step \ results : s <= t
      <4>1. Step \ results \subseteq Nat
        BY DEF Step
      <4> QED
        BY <4>1, LeastNat, Zenon
    <3>3. Waits[s] \subseteq results
      BY <3>2, PlanAssumption DEF PlanAssumption, Step
    <3>4. remaining[s] = {}
      BY <3>2, <3>3 DEF OrderInv, RemainingExact, Handling
    <3>5. thread[s] = "received"
      BY <2>5, <3>1, <3>2, <3>4, <2>1 DEF OrderInv, RemainingExact, WaitsForAReason
    <3> QED
      BY <3>1, <3>2, <3>5, ReceivedHasResult
  <2> QED
    BY <2>4, <2>5, <2>6
<1> QED
  BY <1>1, OrderAlways, PTL
=============================================================================
