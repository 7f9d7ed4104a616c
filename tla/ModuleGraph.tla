----------------------------- MODULE ModuleGraph -----------------------------
(***************************************************************************)
(* The module graph of krusty-build (graph.rs): inserting modules, ordering*)
(* them for a build with Kahn's algorithm, and finding what a changed ABI  *)
(* invalidates.  The loops run one iteration per step, in the order of the *)
(* BTreeMaps and BTreeSets they iterate over: module ids are numbers.      *)
(***************************************************************************)
EXTENDS Naturals, Sequences, FiniteSetsExt, Functions

CONSTANTS
  Ids,      \* the module ids
  MaxDeps   \* how many dependencies a declaration may list, repeats included

ASSUME GraphAssumption == /\ Ids \subseteq Nat /\ IsFiniteSet(Ids)
                          /\ MaxDeps \in Nat

VARIABLES
  depends,    \* depends[m]: the dependency list of each inserted module
  phase,      \* which loop is running, or how the last query ended
  remaining,  \* remaining[m]: how many dependencies of m are not resolved
  ready,      \* the queue of modules whose dependencies are all resolved
  order,      \* the build order so far
  scan,       \* what the running for loop has still to visit
  current,    \* the module whose dependents are visited
  seen,       \* the dependents found
  queue       \* the dependents whose own dependents are to be found

vars == <<depends, phase, remaining, ready, order, scan, current, seen, queue>>
orderVars == <<remaining, ready, order>>
askVars == <<seen, queue>>

Lists(n) == UNION {[1 .. k -> Ids] : k \in 0 .. n}
Modules == DOMAIN depends
Deps(m) == Range(depends[m])
Dependents(d) == {m \in Modules : d \in Deps(m)}
NoCounts == [m \in {} |-> 0]

Init ==
  /\ depends = [m \in {} |-> <<>>]
  /\ phase = "idle"
  /\ remaining = NoCounts
  /\ ready = <<>> /\ order = <<>>
  /\ scan = {} /\ current = 0
  /\ seen = {} /\ queue = <<>>

-----------------------------------------------------------------------------
(* insert.                                                                 *)

FirstAt(s, x) == CHOOSE i \in DOMAIN s : s[i] = x /\ \A j \in DOMAIN s : s[j] = x => i <= j

\* kept is declared with repeats dropped, in the order of first appearance.
FirstSeen(declared, kept) ==
  /\ Range(kept) = Range(declared)
  /\ \A i, j \in DOMAIN kept : i < j => FirstAt(declared, kept[i]) < FirstAt(declared, kept[j])

\* Mutant: repeated dependencies are kept.
InsertRepeats(m, declared) ==
  /\ phase = "idle"
  /\ m \notin Modules
  /\ depends' = [x \in Modules \cup {m} |-> IF x = m THEN declared ELSE depends[x]]
  /\ UNCHANGED <<phase, orderVars, scan, current, askVars>>

\* A duplicate id is refused, so the graph is only ever extended.
Insert(m, declared) ==
  /\ phase = "idle"
  /\ m \notin Modules
  /\ \E kept \in Lists(MaxDeps) :
       /\ FirstSeen(declared, kept)
       /\ depends' = [x \in Modules \cup {m} |-> IF x = m THEN kept ELSE depends[x]]
  /\ UNCHANGED <<phase, orderVars, scan, current, askVars>>

-----------------------------------------------------------------------------
(* build_order.                                                            *)

Closed == \A m \in Modules : Deps(m) \subseteq Modules

\* validate: GraphError::UnknownDependency.
Reject ==
  /\ phase = "idle" /\ ~Closed
  /\ phase' = "unknown"
  /\ UNCHANGED <<depends, orderVars, scan, current, askVars>>

Plan ==
  /\ phase = "idle" /\ Closed
  /\ phase' = "seed"
  /\ remaining' = [m \in Modules |-> Len(depends[m])]
  /\ ready' = <<>> /\ order' = <<>>
  /\ scan' = Modules
  /\ UNCHANGED <<depends, current, askVars>>

\* The modules without dependencies are ready from the start.
Seed(m) ==
  /\ phase = "seed"
  /\ scan # {} /\ m = Min(scan)
  /\ scan' = scan \ {m}
  /\ ready' = IF remaining[m] = 0 THEN Append(ready, m) ELSE ready
  /\ phase' = IF scan = {m} THEN "pop" ELSE "seed"
  /\ UNCHANGED <<depends, remaining, order, current, askVars>>

Pop ==
  /\ phase = "pop" /\ ready # <<>>
  /\ current' = Head(ready)
  /\ ready' = Tail(ready)
  /\ order' = Append(order, Head(ready))
  /\ remaining' = [m \in DOMAIN remaining \ {Head(ready)} |-> remaining[m]]
  /\ scan' = Dependents(Head(ready))
  /\ phase' = IF scan' = {} THEN "pop" ELSE "release"
  /\ UNCHANGED <<depends, askVars>>

\* Mutant: a dependent is ready as soon as one dependency is resolved.
ReleaseEarly(m) ==
  /\ phase = "release"
  /\ scan # {} /\ m = Min(scan)
  /\ scan' = scan \ {m}
  /\ remaining' = IF m \in DOMAIN remaining THEN [remaining EXCEPT ![m] = @ - 1] ELSE remaining
  /\ ready' = IF m \in DOMAIN remaining THEN Append(ready, m) ELSE ready
  /\ phase' = IF scan = {m} THEN "pop" ELSE "release"
  /\ UNCHANGED <<depends, order, current, askVars>>

\* One dependency of m less to wait for.
Release(m) ==
  /\ phase = "release"
  /\ scan # {} /\ m = Min(scan)
  /\ scan' = scan \ {m}
  /\ remaining' = IF m \in DOMAIN remaining THEN [remaining EXCEPT ![m] = @ - 1] ELSE remaining
  /\ ready' = IF m \in DOMAIN remaining /\ remaining[m] = 1 THEN Append(ready, m) ELSE ready
  /\ phase' = IF scan = {m} THEN "pop" ELSE "release"
  /\ UNCHANGED <<depends, order, current, askVars>>

\* The queue is empty: every module is ordered, or the rest is a cycle.
Finish ==
  /\ \/ phase = "pop" /\ ready = <<>>
     \/ phase = "seed" /\ scan = {}
  /\ phase' = IF DOMAIN remaining = {} THEN "ordered" ELSE "cycle"
  /\ UNCHANGED <<depends, orderVars, scan, current, askVars>>

-----------------------------------------------------------------------------
(* transitive_dependents.                                                  *)

\* Cyclic graphs and unknown ids are answered too.
Ask(id) ==
  /\ phase = "idle"
  /\ current' = id
  /\ seen' = {} /\ queue' = <<id>>
  /\ scan' = {}
  /\ phase' = "search"
  /\ UNCHANGED <<depends, orderVars>>

\* Mutant: only the direct dependents are found.
VisitDirect(m) ==
  /\ phase = "search"
  /\ scan # {} /\ m = Min(scan)
  /\ scan' = scan \ {m}
  /\ seen' = seen \cup {m}
  /\ UNCHANGED <<depends, phase, orderVars, current, queue>>

Visit(m) ==
  /\ phase = "search"
  /\ scan # {} /\ m = Min(scan)
  /\ scan' = scan \ {m}
  /\ seen' = seen \cup {m}
  /\ queue' = IF m \in seen THEN queue ELSE Append(queue, m)
  /\ UNCHANGED <<depends, phase, orderVars, current>>

NextSearch ==
  /\ phase = "search" /\ scan = {} /\ queue # <<>>
  /\ scan' = Dependents(Head(queue))
  /\ queue' = Tail(queue)
  /\ UNCHANGED <<depends, phase, orderVars, current, seen>>

Answer ==
  /\ phase = "search" /\ scan = {} /\ queue = <<>>
  /\ seen' = seen \ {current}
  /\ phase' = "answered"
  /\ UNCHANGED <<depends, orderVars, scan, current, queue>>

\* The caller has its answer and may go on with the graph.
Return ==
  /\ phase \in {"unknown", "ordered", "cycle", "answered"}
  /\ phase' = "idle"
  /\ remaining' = NoCounts
  /\ ready' = <<>> /\ order' = <<>>
  /\ scan' = {} /\ current' = 0
  /\ seen' = {} /\ queue' = <<>>
  /\ UNCHANGED depends

Next ==
  \/ \E m \in Ids, declared \in Lists(MaxDeps) : Insert(m, declared)
  \/ Reject \/ Plan
  \/ \E m \in Modules : Seed(m) \/ Release(m) \/ Visit(m)
  \/ Pop \/ Finish
  \/ \E id \in Ids : Ask(id)
  \/ NextSearch \/ Answer \/ Return

Spec == Init /\ [][Next]_vars

-----------------------------------------------------------------------------
(* Properties.                                                             *)

TypeOK ==
  /\ Modules \subseteq Ids
  /\ \A m \in Modules : depends[m] \in Lists(MaxDeps)
  /\ phase \in {"idle", "seed", "pop", "release", "search",
                "unknown", "ordered", "cycle", "answered"}
  /\ DOMAIN remaining \subseteq Modules
  /\ \A m \in DOMAIN remaining : remaining[m] \in 0 .. MaxDeps
  /\ ready \in Seq(Modules) /\ order \in Seq(Modules)
  /\ scan \subseteq Modules
  /\ current \in Ids \cup {0}
  /\ seen \subseteq Modules
  /\ queue \in Seq(Ids)

\* At every point of the ordering, a module comes after all of its
\* dependencies and appears once.
DependenciesFirst ==
  \A i \in DOMAIN order :
    /\ Deps(order[i]) \subseteq {order[j] : j \in 1 .. i - 1}
    /\ \A j \in DOMAIN order : order[i] = order[j] => i = j

\* The modules that no order can place: each has a dependency among them.
Unbuildable == UNION {U \in SUBSET Modules : \A m \in U : Deps(m) \cap U # {}}

\* A graph without a cycle is ordered completely; a cycle error names exactly
\* the modules that are on a cycle or behind one.
CycleIsExact ==
  /\ phase = "ordered" => Range(order) = Modules /\ Unbuildable = {}
  /\ phase = "cycle" => DOMAIN remaining = Unbuildable /\ Unbuildable # {}

\* What depends on id, directly or through others: the least set closed under
\* Dependents.
Behind(id) ==
  {m \in Modules : \A C \in SUBSET Modules :
     (Dependents(id) \subseteq C /\ \A d \in C : Dependents(d) \subseteq C) => m \in C}

\* transitive_dependents finds exactly the modules behind the one asked for,
\* without that module itself, also in graphs with cycles.
DependentsExact == phase = "answered" => seen = Behind(current) \ {current}
=============================================================================
