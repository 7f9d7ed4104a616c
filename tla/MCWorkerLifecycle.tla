--------------------------- MODULE MCWorkerLifecycle ---------------------------
(***************************************************************************)
(* The instance of WorkerLifecycle that TLC checks: two workers that share *)
(* the slot.                                                               *)
(***************************************************************************)
EXTENDS WorkerLifecycle

MCWorkers == {"a", "b"}
MCAsked == {"a"}
MCNumbers == 1 .. 2
MCClasspaths == {1, 2}
=============================================================================
