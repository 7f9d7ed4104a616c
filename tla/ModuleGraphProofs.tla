-------------------------- MODULE ModuleGraphProofs --------------------------
(***************************************************************************)
(* Proofs about module ModuleGraph, for every finite set of modules and    *)
(* every graph on them.                                                    *)
(***************************************************************************)
EXTENDS ModuleGraph, TLAPS, FiniteSetTheorems, WellFoundedInduction

-------------------------------------------------------------------------------
(* Every nonempty set of natural numbers has a least element.  The proofs  *)
(* use it in place of induction: to show something of every number, take   *)
(* the least one it fails for.                                             *)
LEMMA LeastNat ==
  ASSUME NEW T, T \subseteq Nat, T # {}
  PROVE  \E n \in T : \A m \in T : n <= m
<1>1. PICK R : IsWellFoundedOn(R, Nat) /\ \A x, y \in Nat : y < x => <<y, x>> \in R
  <2>1. \A x, y \in Nat : y < x => <<y, x>> \in OpToRel(<, Nat)
    BY DEF OpToRel
  <2> QED
    BY <2>1, NatLessThanWellFounded, Zenon
<1>2. PICK n \in T : \A y \in T : ~ (<<y, n>> \in R)
  BY <1>1, WFMin, Zenon
<1>3. \A m \in T : ~ (m < n)
  BY <1>1, <1>2, Zenon
<1> QED
  BY <1>3

-----------------------------------------------------------------------------
Ordering == phase \in {"seed", "pop", "release", "ordered", "cycle"}

-----------------------------------------------------------------------------
(* The graph.                                                              *)

\* The modules are among the ids, and no dependency list has a repeat.
GraphInv ==
  /\ Modules \subseteq Ids
  /\ \A m \in Modules : depends[m] \in Lists(MaxDeps) /\ IsInjective(depends[m])

-----------------------------------------------------------------------------
(* Ordering.                                                               *)

\* What m waits for: its dependencies that are not in the order, and the one
\* added last if m has not been visited since.
Unresolved(m) ==
  Deps(m) \ (Range(order) \ (IF phase = "release" /\ m \in scan THEN {current} ELSE {}))

\* The shape of the state while modules are ordered.
Shape ==
  /\ ready \in Seq(Ids) /\ order \in Seq(Ids)
  /\ scan \subseteq Modules
  /\ Range(ready) \subseteq DOMAIN remaining
  /\ ~Ordering => order = <<>>
  /\ Ordering => /\ Closed
                 /\ Range(order) \subseteq Modules
                 /\ DOMAIN remaining = Modules \ Range(order)
  /\ phase = "seed" => order = <<>> /\ (scan = {} => Modules = {})
  /\ phase \in {"pop", "ordered", "cycle"} => scan = {}
  /\ phase = "release" => current \in Range(order) /\ \A m \in scan : current \in Deps(m)
  /\ phase \in {"ordered", "cycle"} => ready = <<>>

\* The counts are those of what is waited for, and a module is ready when, and
\* only when, it waits for nothing.
Counts ==
  Ordering =>
  \A m \in DOMAIN remaining :
    /\ remaining[m] = Cardinality(Unresolved(m))
    /\ m \in Range(ready) => remaining[m] = 0
    /\ remaining[m] = 0 => m \in Range(ready) \/ (phase = "seed" /\ m \in scan)

\* The queue has no repeats, so no module is ordered twice.
ReadyOnce == IsInjective(ready)
SeedFresh == phase = "seed" => Range(ready) \cap scan = {}

Ended == /\ phase = "ordered" => DOMAIN remaining = {}
         /\ phase = "cycle" => DOMAIN remaining # {}

OrderingInv == Shape /\ Counts /\ ReadyOnce /\ SeedFresh /\ DependenciesFirst /\ Ended

-----------------------------------------------------------------------------
(* Searching.                                                              *)

\* What was found is behind the module asked for, and what depends on it is
\* found, about to be visited, or looked for later.
SearchInv ==
  phase = "search" =>
    /\ queue \in Seq(Ids) /\ current \in Ids
    /\ seen \subseteq Behind(current) /\ scan \subseteq Behind(current)
    /\ Range(queue) \subseteq seen \cup {current}
    /\ \A x \in seen \cup {current} : x \in Range(queue) \/ Dependents(x) \subseteq seen \cup scan

-----------------------------------------------------------------------------
(* Sequences, sets and counting.                                           *)

\* What Append does to the range and the repeats of a sequence.
LEMMA AppendRange ==
  ASSUME NEW S, NEW q \in Seq(S), NEW e \in S
  PROVE  /\ Range(Append(q, e)) = Range(q) \cup {e}
         /\ IsInjective(q) /\ e \notin Range(q) => IsInjective(Append(q, e))
<1> DEFINE r == Append(q, e)
<1>1. /\ r \in Seq(S) /\ Len(r) = Len(q) + 1 /\ Len(q) \in Nat
      /\ DOMAIN q = 1 .. Len(q) /\ DOMAIN r = 1 .. Len(q) + 1
  OBVIOUS
<1>2. r[Len(q) + 1] = e /\ \A i \in 1 .. Len(q) : r[i] = q[i]
  OBVIOUS
<1>3. \A i \in 1 .. Len(q) + 1 : i \in 1 .. Len(q) \/ i = Len(q) + 1
  BY <1>1
<1> HIDE DEF r
<1>4. Range(r) = Range(q) \cup {e}
  BY <1>1, <1>2, <1>3 DEF Range
<1>5. IsInjective(q) /\ e \notin Range(q) => IsInjective(r)
  BY <1>1, <1>2, <1>3 DEF Range, IsInjective
<1> QED
  BY <1>4, <1>5 DEF r

\* What taking the head off does.
LEMMA HeadTailRange ==
  ASSUME NEW S, NEW q \in Seq(S), q # <<>>
  PROVE  /\ Head(q) \in S /\ Tail(q) \in Seq(S)
         /\ Range(q) = {Head(q)} \cup Range(Tail(q))
         /\ IsInjective(q) => IsInjective(Tail(q)) /\ Head(q) \notin Range(Tail(q))
<1>1. /\ Head(q) \in S /\ Tail(q) \in Seq(S)
      /\ Len(q) \in Nat /\ Len(q) > 0 /\ Len(Tail(q)) = Len(q) - 1
      /\ DOMAIN q = 1 .. Len(q) /\ DOMAIN Tail(q) = 1 .. Len(q) - 1
  OBVIOUS
<1>2. Head(q) = q[1] /\ \A i \in 1 .. Len(q) - 1 : Tail(q)[i] = q[i + 1]
  OBVIOUS
<1>3. /\ \A i \in 1 .. Len(q) : i = 1 \/ (i - 1 \in 1 .. Len(q) - 1 /\ (i - 1) + 1 = i)
      /\ \A i \in 1 .. Len(q) - 1 : i + 1 \in 1 .. Len(q) /\ i + 1 # 1
      /\ \A i, j \in 1 .. Len(q) - 1 : i + 1 = j + 1 => i = j
      /\ 1 \in 1 .. Len(q)
  BY <1>1
<1>4. Range(q) = {Head(q)} \cup Range(Tail(q))
  <2>1. ASSUME NEW x \in Range(q) PROVE x \in {Head(q)} \cup Range(Tail(q))
    <3>1. PICK i \in 1 .. Len(q) : x = q[i]
      BY <1>1 DEF Range
    <3>2. CASE i = 1
      BY <1>2, <3>1, <3>2
    <3>3. CASE i # 1
      <4>1. i - 1 \in 1 .. Len(q) - 1 /\ Tail(q)[i - 1] = q[i]
        BY <1>2, <1>3, <3>3
      <4> QED
        BY <1>1, <3>1, <4>1 DEF Range
    <3> QED
      BY <3>2, <3>3
  <2>2. ASSUME NEW x \in {Head(q)} \cup Range(Tail(q)) PROVE x \in Range(q)
    BY <1>1, <1>2, <1>3 DEF Range
  <2> QED
    BY <2>1, <2>2
<1>5. IsInjective(q) => IsInjective(Tail(q)) /\ Head(q) \notin Range(Tail(q))
  BY <1>1, <1>2, <1>3 DEF Range, IsInjective
<1> QED
  BY <1>1, <1>4, <1>5

\* The empty sequence.
LEMMA EmptyRange ==
  /\ Range(<<>>) = {} /\ IsInjective(<<>>) /\ \A S : <<>> \in Seq(S)
  /\ \A q \in Seq(Ids) : Range(q) = {} => q = <<>>
<1>1. ASSUME NEW q \in Seq(Ids), Range(q) = {} PROVE q = <<>>
  BY <1>1 DEF Range
<1> QED
  BY <1>1 DEF Range, IsInjective

\* The least member of a set of ids is a member.
LEMMA MinMember == ASSUME NEW S, S \subseteq Nat, S # {} PROVE Min(S) \in S
BY LeastNat, Zenon DEF Min

\* A dependency list is a sequence of ids, finite in length.
LEMMA ListIsSeq ==
  ASSUME NEW l \in Lists(MaxDeps)
  PROVE  /\ l \in Seq(Ids) /\ DOMAIN l = 1 .. Len(l) /\ Len(l) \in Nat
         /\ Range(l) \subseteq Ids
<1>1. PICK k \in 0 .. MaxDeps : l \in [1 .. k -> Ids]
  BY DEF Lists
<1>2. k \in Nat
  BY GraphAssumption DEF GraphAssumption
<1> QED
  BY <1>1, <1>2 DEF Range

\* A list without repeats is as long as the set it lists.
LEMMA ListCount ==
  ASSUME NEW l \in Lists(MaxDeps), IsInjective(l)
  PROVE  IsFiniteSet(Range(l)) /\ Len(l) = Cardinality(Range(l))
<1>1. l \in [1 .. Len(l) -> Range(l)] /\ Len(l) \in Nat
  BY ListIsSeq DEF Range
<1>2. l \in Surjection(1 .. Len(l), Range(l))
  BY <1>1 DEF Surjection, Range
<1>3. l \in Injection(1 .. Len(l), Range(l))
  BY <1>1 DEF Injection, IsInjective
<1>4. IsFiniteSet(1 .. Len(l)) /\ Cardinality(1 .. Len(l)) = Len(l)
  <2>1. 1 \in Int /\ Len(l) \in Int /\ (1 > Len(l) => Len(l) = 0) /\ Len(l) - 1 + 1 = Len(l)
    BY <1>1
  <2> QED
    BY <2>1, FS_Interval
<1> QED
  BY <1>2, <1>3, <1>4, FS_Surjection

\* A list with the repeats dropped has none.
LEMMA FirstSeenDistinct ==
  ASSUME NEW l \in Lists(MaxDeps), NEW k \in Lists(MaxDeps), FirstSeen(l, k)
  PROVE  IsInjective(k)
<1>1. \A x \in Range(l) : FirstAt(l, x) \in Nat
  <2> SUFFICES ASSUME NEW x \in Range(l) PROVE FirstAt(l, x) \in Nat
    OBVIOUS
  <2> DEFINE T == {i \in DOMAIN l : l[i] = x}
  <2>1. T \subseteq Nat /\ T # {}
    BY ListIsSeq DEF Range
  <2>2. PICK n \in T : \A j \in T : n <= j
    <3> HIDE DEF T
    <3> QED
      BY <2>1, LeastNat, Zenon
  <2>3. \E i \in DOMAIN l : l[i] = x /\ \A j \in DOMAIN l : l[j] = x => i <= j
    BY <2>2
  <2>4. FirstAt(l, x) \in DOMAIN l
    BY <2>3 DEF FirstAt
  <2> QED
    BY <2>4, ListIsSeq
<1> SUFFICES ASSUME NEW i \in DOMAIN k, NEW j \in DOMAIN k, k[i] = k[j] PROVE i = j
  BY DEF IsInjective
<1>2. k[i] \in Range(l) /\ i \in Nat /\ j \in Nat
  <2>1. k[i] \in Range(k)
    BY DEF Range
  <2>2. i \in Nat /\ j \in Nat
    BY ListIsSeq
  <2> QED
    BY <2>1, <2>2 DEF FirstSeen
<1>3. ~ FirstAt(l, k[i]) < FirstAt(l, k[j])
  BY <1>1, <1>2
<1>4. ~ FirstAt(l, k[j]) < FirstAt(l, k[i])
  BY <1>1, <1>2
<1> QED
  BY <1>2, <1>3, <1>4 DEF FirstSeen

-----------------------------------------------------------------------------
(* The graph only grows, and its lists have no repeats.                    *)

\* Every step keeps the graph well formed.
LEMMA GraphStep == ASSUME GraphInv, [Next]_vars PROVE GraphInv'
<1>1. ASSUME NEW m \in Ids, NEW declared \in Lists(MaxDeps), Insert(m, declared)
      PROVE  GraphInv'
  BY <1>1, FirstSeenDistinct DEF Insert, GraphInv, Modules
<1>2. CASE UNCHANGED depends
  BY <1>2 DEF GraphInv, Modules
<1> QED
  BY <1>1, <1>2
  DEF Next, vars, Reject, Plan, Seed, Release, Visit, Pop, Finish, Ask, NextSearch, Answer, Return

\* While a loop runs the graph is not changed.
LEMMA GraphFixed ==
  ASSUME [Next]_vars, phase # "idle"
  PROVE  /\ UNCHANGED depends
         /\ Modules' = Modules /\ Closed' = Closed
         /\ \A m : Deps(m)' = Deps(m) /\ Dependents(m)' = Dependents(m)
<1>1. UNCHANGED depends
  BY DEF Next, vars, Insert, Reject, Plan, Seed, Release, Visit, Pop, Finish, Ask, NextSearch,
         Answer, Return
<1> QED
  BY <1>1 DEF Modules, Closed, Deps, Dependents

\* The dependencies of a module are finitely many.
LEMMA DepsFinite ==
  ASSUME GraphInv, NEW m \in Modules
  PROVE  /\ IsFiniteSet(Deps(m)) /\ Deps(m) \subseteq Ids
         /\ Len(depends[m]) = Cardinality(Deps(m))
BY ListIsSeq, ListCount DEF GraphInv, Deps

\* What a module waits for is finite.
LEMMA UnresolvedFinite ==
  ASSUME GraphInv, NEW m \in Modules
  PROVE  IsFiniteSet(Unresolved(m))
<1>1. Unresolved(m) \in SUBSET Deps(m)
  BY DEF Unresolved
<1> QED
  BY <1>1, DepsFinite, FS_Subset

-----------------------------------------------------------------------------
(* build_order.                                                            *)

\* What Pop takes is a module that waits for nothing.
LEMMA PopHead ==
  ASSUME GraphInv, OrderingInv, Pop
  PROVE  /\ Head(ready) \in DOMAIN remaining /\ Head(ready) \in Modules
         /\ Head(ready) \notin Range(order) /\ Deps(Head(ready)) \subseteq Range(order)
         /\ Range(order') = Range(order) \cup {Head(ready)}
         /\ Range(ready) = Range(ready') \cup {Head(ready)} /\ Head(ready) \notin Range(ready')
         /\ IsInjective(ready')
         /\ ready' \in Seq(Ids) /\ order' \in Seq(Ids)
<1>1. ready \in Seq(Ids) /\ ready # <<>> /\ order \in Seq(Ids)
  BY DEF Pop, OrderingInv, Shape
<1>2. Head(ready) \in Ids /\ Head(ready) \in Range(ready)
  BY <1>1, HeadTailRange
<1>3. /\ Head(ready) \in DOMAIN remaining /\ Head(ready) \in Modules
      /\ Head(ready) \notin Range(order) /\ remaining[Head(ready)] = 0
  BY <1>2 DEF Pop, OrderingInv, Shape, Counts, Ordering
<1>4. Cardinality(Unresolved(Head(ready))) = 0
  BY <1>3 DEF Pop, OrderingInv, Counts, Ordering
<1>5. Unresolved(Head(ready)) = {}
  BY <1>3, <1>4, UnresolvedFinite, FS_EmptySet
<1>6. Deps(Head(ready)) \subseteq Range(order)
  BY <1>5 DEF Unresolved, Pop
<1>7. Range(order') = Range(order) \cup {Head(ready)} /\ order' \in Seq(Ids)
  BY <1>1, <1>2, AppendRange DEF Pop
<1>8. /\ Range(ready) = Range(ready') \cup {Head(ready)} /\ Head(ready) \notin Range(ready')
      /\ IsInjective(ready') /\ ready' \in Seq(Ids)
  BY <1>1, HeadTailRange DEF Pop, OrderingInv, ReadyOnce
<1> QED
  BY <1>3, <1>6, <1>7, <1>8

\* The loops visit a member of what they have still to visit.
LEMMA VisitedIsScanned ==
  ASSUME GraphInv, Shape, NEW m, scan # {}, m = Min(scan)
  PROVE  m \in scan /\ m \in Modules /\ m \in Ids
<1>1. scan \subseteq Nat
  BY GraphAssumption DEF GraphAssumption, GraphInv, Shape
<1> QED
  BY <1>1, MinMember DEF GraphInv, Shape

\* Every step keeps the shape.
LEMMA ShapeStep == ASSUME GraphInv, OrderingInv, [Next]_vars PROVE Shape'
<1>a. Shape
  BY DEF OrderingInv
<1> USE <1>a, EmptyRange DEF Ordering, orderVars, askVars
<1>1. ASSUME NEW m \in Ids, NEW declared \in Lists(MaxDeps), Insert(m, declared)
      PROVE  Shape'
  BY <1>1 DEF Insert, Shape, Modules
<1>2. CASE Reject
  BY <1>2 DEF Reject, Shape, Modules
<1>3. CASE Plan
  BY <1>3 DEF Plan, Shape, Modules, Closed, Deps
<1>4. ASSUME NEW m \in Modules, Seed(m) PROVE Shape'
  <2>1. m \in scan /\ m \in Ids
    BY <1>4, VisitedIsScanned DEF Seed
  <2>2. ready' \in Seq(Ids) /\ Range(ready') \subseteq Range(ready) \cup {m}
    BY <1>4, <2>1, AppendRange DEF Seed, Shape
  <2> QED
    BY <1>4, <2>1, <2>2, GraphFixed DEF Seed, Shape
<1>5. ASSUME NEW m \in Modules, Release(m) PROVE Shape'
  <2>1. m \in scan /\ m \in Ids
    BY <1>5, VisitedIsScanned DEF Release
  <2>2. /\ ready' \in Seq(Ids)
        /\ Range(ready') \subseteq Range(ready) \cup ({m} \cap DOMAIN remaining)
        /\ DOMAIN remaining' = DOMAIN remaining
    BY <1>5, <2>1, AppendRange DEF Release, Shape
  <2> QED
    BY <1>5, <2>1, <2>2, GraphFixed DEF Release, Shape
<1>6. CASE Pop
  BY <1>6, PopHead, GraphFixed DEF Pop, Shape, Dependents
<1>7. CASE Finish
  <2>1. ready = <<>>
    BY <1>7 DEF Finish, Shape
  <2> QED
    BY <1>7, <2>1, GraphFixed DEF Finish, Shape
<1>8. ASSUME NEW id \in Ids, Ask(id) PROVE Shape'
  BY <1>8 DEF Ask, Shape, Modules
<1>9. ASSUME NEW m \in Modules, Visit(m) PROVE Shape'
  BY <1>9, GraphFixed DEF Visit, Shape
<1>10. CASE NextSearch
  BY <1>10, GraphFixed DEF NextSearch, Shape, Dependents
<1>11. CASE Answer
  BY <1>11, GraphFixed DEF Answer, Shape
<1>12. CASE Return
  BY <1>12 DEF Return, Shape, NoCounts
<1>13. CASE UNCHANGED vars
  BY <1>13 DEF vars, Shape, Modules, Closed, Deps
<1> QED
  BY <1>1, <1>2, <1>3, <1>4, <1>5, <1>6, <1>7, <1>8, <1>9, <1>10, <1>11, <1>12, <1>13 DEF Next

\* What a module waits for is changed by Pop and by Release only, by Release
\* only for the module it visits.
LEMMA UnresolvedStep ==
  ASSUME GraphInv, OrderingInv, [Next]_vars, Ordering, Ordering', NEW m \in Modules
  PROVE  /\ ~(Release(m) /\ m \in scan) => Unresolved(m)' = Unresolved(m) \/ m \in Range(order')
         /\ Release(m) /\ m \in scan =>
              current \in Unresolved(m) /\ Unresolved(m)' = Unresolved(m) \ {current}
<1>a. Shape /\ phase # "idle"
  BY DEF OrderingInv, Ordering
<1>b. Deps(m)' = Deps(m)
  BY <1>a, GraphFixed
<1>c. Dependents(Head(ready)) = {x \in Modules : Head(ready) \in Deps(x)}
  BY DEF Dependents
<1>1. CASE Pop
  BY <1>a, <1>b, <1>c, <1>1, PopHead, GraphFixed DEF Pop, Unresolved, Shape, Release
<1>2. ASSUME NEW x \in Modules, Release(x)
      PROVE  /\ x # m => Unresolved(m)' = Unresolved(m)
             /\ x = m => current \in Unresolved(m) /\ Unresolved(m)' = Unresolved(m) \ {current}
  <2>1. x \in scan
    BY <1>a, <1>2, VisitedIsScanned DEF Release
  <2> QED
    BY <1>a, <1>b, <1>2, <2>1 DEF Release, Unresolved, Shape
<1>3. CASE UNCHANGED order /\ phase # "release" /\ phase' # "release"
  BY <1>b, <1>3 DEF Unresolved, Release
<1>4. CASE UNCHANGED <<order, phase, scan, current>>
  BY <1>b, <1>4 DEF Unresolved, Release
<1> QED
  BY <1>1, <1>2, <1>3, <1>4, <1>a
  DEF Next, vars, orderVars, Ordering, Insert, Reject, Plan, Seed, Release, Visit, Finish, Ask,
      NextSearch, Answer, Return

\* Every step keeps the counts exact and the ready queue complete.
LEMMA CountsStep == ASSUME GraphInv, OrderingInv, [Next]_vars PROVE Counts'
<1>a. Shape /\ Counts
  BY DEF OrderingInv
<1>b. ~Ordering' => Counts'
  BY DEF Counts
<1> USE EmptyRange
<1>1. CASE Plan
  <2>1. phase' = "seed" /\ order' = <<>> /\ ready' = <<>> /\ scan' = Modules
        /\ DOMAIN remaining' = Modules
        /\ \A m \in Modules : remaining'[m] = Cardinality(Deps(m))
    BY <1>1, DepsFinite DEF Plan
  <2>2. \A m \in Modules : Unresolved(m)' = Deps(m)
    BY <1>1, <2>1 DEF Unresolved, Plan, Deps
  <2> QED
    BY <2>1, <2>2 DEF Counts
<1>2. ASSUME Ordering, Ordering', UNCHANGED <<remaining, order>>, ~(phase = "release" /\ scan # {})
      PROVE  \A m \in DOMAIN remaining : remaining'[m] = Cardinality(Unresolved(m)')
  <2>1. \A m \in DOMAIN remaining : m \in Modules /\ m \notin Range(order')
    BY <1>a, <1>2 DEF Shape
  <2>2. \A m \in DOMAIN remaining : ~Release(m)
    BY <1>2 DEF Release
  <2> QED
    BY <1>a, <1>2, <2>1, <2>2, UnresolvedStep DEF Counts
<1>3. ASSUME NEW m \in Modules, Seed(m) PROVE Counts'
  <2>1. m \in scan /\ m \in Ids /\ ready \in Seq(Ids)
    BY <1>3, <1>a, VisitedIsScanned DEF Seed, Shape
  <2>2. Range(ready') = IF remaining[m] = 0 THEN Range(ready) \cup {m} ELSE Range(ready)
    <3>1. Range(Append(ready, m)) = Range(ready) \cup {m}
      BY <2>1, AppendRange
    <3> QED
      BY <1>3, <3>1 DEF Seed
  <2>3. phase = "seed" /\ phase' = (IF scan = {m} THEN "pop" ELSE "seed") /\ scan' = scan \ {m}
        /\ UNCHANGED <<remaining, order>>
    BY <1>3 DEF Seed
  <2>4. Ordering /\ Ordering'
    BY <2>3 DEF Ordering
  <2>5. \A x \in DOMAIN remaining : remaining'[x] = Cardinality(Unresolved(x)')
    BY <1>2, <2>3, <2>4
  <2> QED
    BY <1>a, <2>2, <2>3, <2>4, <2>5 DEF Counts
<1>4. ASSUME NEW m \in Modules, Release(m) PROVE Counts'
  <2>1. m \in scan /\ m \in Ids /\ ready \in Seq(Ids)
    BY <1>4, <1>a, VisitedIsScanned DEF Release, Shape
  <2>2. phase = "release" /\ phase' \in {"pop", "release"} /\ DOMAIN remaining' = DOMAIN remaining
        /\ UNCHANGED order
    BY <1>4 DEF Release
  <2>3. Ordering /\ Ordering'
    BY <2>2 DEF Ordering
  <2>4. \A x \in DOMAIN remaining : x \in Modules /\ x \notin Range(order')
    BY <1>a, <2>2, <2>3 DEF Shape
  <2>5. ASSUME NEW x \in DOMAIN remaining, x # m
        PROVE  remaining'[x] = remaining[x] /\ Unresolved(x)' = Unresolved(x)
    <3>1. ~Release(x)
      BY <1>4, <2>5 DEF Release
    <3> QED
      BY <1>4, <2>3, <2>4, <2>5, <3>1, UnresolvedStep DEF Release
  <2>6. CASE m \notin DOMAIN remaining
    <3>1. UNCHANGED <<remaining, ready>>
      BY <1>4, <2>6 DEF Release
    <3> QED
      BY <1>a, <2>2, <2>3, <2>5, <2>6, <3>1 DEF Counts
  <2>7. CASE m \in DOMAIN remaining
    <3>1. current \in Unresolved(m) /\ Unresolved(m)' = Unresolved(m) \ {current}
      BY <1>4, <2>1, <2>3, UnresolvedStep
    <3>2. IsFiniteSet(Unresolved(m))
      BY UnresolvedFinite
    <3>3. Cardinality(Unresolved(m)') = Cardinality(Unresolved(m)) - 1
          /\ Cardinality(Unresolved(m)) \in Nat /\ Cardinality(Unresolved(m)) # 0
      BY <3>1, <3>2, FS_RemoveElement, FS_CardinalityType, FS_EmptySet
    <3>4. remaining[m] = Cardinality(Unresolved(m))
      BY <1>a, <2>3, <2>7 DEF Counts
    <3>5. remaining'[m] = Cardinality(Unresolved(m)')
      BY <1>4, <2>7, <3>3, <3>4 DEF Release
    <3>6. remaining'[m] = 0 <=> remaining[m] = 1
      BY <3>3, <3>4, <3>5
    <3>7. Range(ready') = IF remaining[m] = 1 THEN Range(ready) \cup {m} ELSE Range(ready)
      <4>1. Range(Append(ready, m)) = Range(ready) \cup {m}
        BY <2>1, AppendRange
      <4> QED
        BY <1>4, <2>7, <4>1 DEF Release
    <3>8. m \notin Range(ready)
      BY <1>a, <2>3, <2>7, <3>3, <3>4 DEF Counts
    <3> QED
      BY <1>a, <2>2, <2>3, <2>5, <3>5, <3>6, <3>7, <3>8 DEF Counts
  <2> QED
    BY <2>6, <2>7
<1>5. CASE Pop
  <2>1. /\ Head(ready) \in DOMAIN remaining
        /\ Range(order') = Range(order) \cup {Head(ready)}
        /\ Range(ready) = Range(ready') \cup {Head(ready)} /\ Head(ready) \notin Range(ready')
    BY <1>5, PopHead
  <2>2. phase = "pop" /\ phase' \in {"pop", "release"}
        /\ DOMAIN remaining' = DOMAIN remaining \ {Head(ready)}
        /\ \A x \in DOMAIN remaining' : remaining'[x] = remaining[x]
    BY <1>5 DEF Pop
  <2>3. Ordering /\ Ordering'
    BY <2>2 DEF Ordering
  <2>4. ASSUME NEW x \in DOMAIN remaining' PROVE Unresolved(x)' = Unresolved(x)
    <3>1. x \in DOMAIN remaining /\ x \in Modules /\ x \notin Range(order')
      BY <1>a, <2>1, <2>2, <2>3 DEF Shape
    <3>2. ~Release(x)
      BY <2>2 DEF Release
    <3> QED
      BY <2>3, <3>1, <3>2, UnresolvedStep
  <2> QED
    BY <1>a, <2>1, <2>2, <2>3, <2>4 DEF Counts
<1>6. CASE Finish
  <2>1. /\ UNCHANGED <<remaining, order, ready, scan>> /\ phase' \in {"ordered", "cycle"}
        /\ phase = "pop" \/ (phase = "seed" /\ scan = {})
    BY <1>6 DEF Finish, orderVars
  <2>2. Ordering /\ Ordering'
    BY <2>1 DEF Ordering
  <2>3. \A x \in DOMAIN remaining : remaining'[x] = Cardinality(Unresolved(x)')
    BY <1>2, <2>1, <2>2
  <2> QED
    BY <1>a, <2>1, <2>2, <2>3 DEF Counts
<1>7. CASE UNCHANGED vars
  BY <1>7, <1>a DEF vars, Counts, Ordering, Unresolved, Deps
<1> QED
  BY <1>1, <1>3, <1>4, <1>5, <1>6, <1>7, <1>b
  DEF Next, Ordering, Insert, Reject, Visit, Ask, NextSearch, Answer, Return

\* Every step keeps the ready queue free of repeats: a module enters it when its
\* count comes to zero, which happens once.
LEMMA ReadyStep == ASSUME GraphInv, OrderingInv, [Next]_vars PROVE ReadyOnce' /\ SeedFresh'
<1>a. Shape /\ Counts /\ ReadyOnce /\ SeedFresh
  BY DEF OrderingInv
<1> USE <1>a, EmptyRange DEF ReadyOnce, SeedFresh
<1>1. CASE Plan
  BY <1>1 DEF Plan
<1>2. ASSUME NEW m \in Modules, Seed(m) PROVE ReadyOnce' /\ SeedFresh'
  <2>1. m \in scan /\ m \in Ids /\ ready \in Seq(Ids) /\ m \notin Range(ready)
    BY <1>2, VisitedIsScanned DEF Seed, Shape
  <2>2. Range(Append(ready, m)) = Range(ready) \cup {m} /\ IsInjective(Append(ready, m))
    BY <2>1, AppendRange
  <2> QED
    BY <1>2, <2>1, <2>2 DEF Seed
<1>3. ASSUME NEW m \in Modules, Release(m) PROVE ReadyOnce' /\ SeedFresh'
  <2>1. m \in Ids /\ ready \in Seq(Ids) /\ phase' # "seed"
    BY <1>3, VisitedIsScanned DEF Release, Shape
  <2>2. m \in DOMAIN remaining /\ remaining[m] = 1 => m \notin Range(ready)
    BY <1>3 DEF Release, Counts, Ordering
  <2> QED
    BY <1>3, <2>1, <2>2, AppendRange DEF Release
<1>4. CASE Pop
  BY <1>4, PopHead DEF Pop
<1>5. CASE UNCHANGED ready /\ (phase' = "seed" => UNCHANGED <<phase, scan>>)
  BY <1>5
<1>6. CASE Return
  BY <1>6 DEF Return
<1> QED
  BY <1>1, <1>2, <1>3, <1>4, <1>5, <1>6
  DEF Next, vars, orderVars, Insert, Reject, Visit, Finish, Ask, NextSearch, Answer

\* Every step keeps the order one in which dependencies come first.
LEMMA OrderStep == ASSUME GraphInv, OrderingInv, [Next]_vars PROVE DependenciesFirst'
<1>a. Shape /\ DependenciesFirst
  BY DEF OrderingInv
<1>1. CASE Pop
  <2> DEFINE h == Head(ready)
             n == Len(order)
  <2>1. /\ h \notin Range(order) /\ Deps(h) \subseteq Range(order) /\ h \in Ids
        /\ order \in Seq(Ids) /\ \A m : Deps(m)' = Deps(m)
    BY <1>a, <1>1, PopHead, GraphFixed DEF Pop, Shape, GraphInv
  <2>2. order' = Append(order, h)
    BY <1>1 DEF Pop
  <2> HIDE DEF h
  <2>3. /\ n \in Nat /\ DOMAIN order = 1 .. n /\ DOMAIN order' = 1 .. n + 1
        /\ order'[n + 1] = h /\ \A i \in 1 .. n : order'[i] = order[i]
    BY <2>1, <2>2
  <2>4. Range(order) = {order'[j] : j \in 1 .. n}
    BY <2>3 DEF Range
  <2> HIDE DEF n
  <2>5. ASSUME NEW i \in 1 .. n + 1 PROVE Deps(order'[i]) \subseteq {order'[j] : j \in 1 .. i - 1}
    <3>1. CASE i = n + 1
      BY <2>1, <2>3, <2>4, <3>1
    <3>2. CASE i # n + 1
      <4>1. i \in 1 .. n /\ \A j \in 1 .. i - 1 : j \in 1 .. n
        BY <2>3, <3>2
      <4>2. {order'[j] : j \in 1 .. i - 1} = {order[j] : j \in 1 .. i - 1}
        BY <2>3, <4>1
      <4> QED
        BY <1>a, <2>3, <4>1, <4>2 DEF DependenciesFirst
    <3> QED
      BY <3>1, <3>2
  <2>6. ASSUME NEW i \in 1 .. n + 1, NEW j \in 1 .. n + 1, order'[i] = order'[j] PROVE i = j
    <3>1. \A x \in 1 .. n + 1 : x \in 1 .. n \/ x = n + 1
      BY <2>3
    <3>2. \A x \in 1 .. n : order'[x] \in Range(order) /\ order'[x] = order[x]
      BY <2>3 DEF Range
    <3> QED
      BY <1>a, <2>1, <2>3, <2>6, <3>1, <3>2 DEF DependenciesFirst
  <2> QED
    BY <2>1, <2>3, <2>5, <2>6 DEF DependenciesFirst
<1>2. CASE UNCHANGED order /\ phase # "idle"
  BY <1>a, <1>2, GraphFixed DEF DependenciesFirst
<1>3. CASE order' = <<>>
  BY <1>3 DEF DependenciesFirst
<1> QED
  BY <1>a, <1>1, <1>2, <1>3
  DEF Next, vars, orderVars, Shape, Ordering, DependenciesFirst, Insert, Reject, Plan, Seed, Release,
      Visit, Finish, Ask, NextSearch, Answer, Return, Deps

\* Every step keeps the verdict that of the modules left.
LEMMA EndedStep == ASSUME OrderingInv, [Next]_vars PROVE Ended'
<1>1. CASE Finish
  BY <1>1 DEF Finish, Ended, orderVars
<1>2. CASE UNCHANGED <<phase, remaining>>
  BY <1>2 DEF OrderingInv, Ended
<1>3. CASE phase' \notin {"ordered", "cycle"}
  BY <1>3 DEF Ended
<1> QED
  BY <1>1, <1>2, <1>3
  DEF Next, vars, orderVars, Insert, Reject, Plan, Seed, Release, Visit, Pop, Ask, NextSearch, Answer,
      Return

\* The ordering invariant holds in every behaviour.
LEMMA OrderingAlways == Spec => [](GraphInv /\ OrderingInv)
<1>1. Init => GraphInv /\ OrderingInv
  BY EmptyRange
  DEF Init, GraphInv, OrderingInv, Shape, Counts, ReadyOnce, SeedFresh, DependenciesFirst, Ended,
      Ordering, Modules, NoCounts
<1>2. GraphInv /\ OrderingInv /\ [Next]_vars => (GraphInv /\ OrderingInv)'
  BY GraphStep, ShapeStep, CountsStep, ReadyStep, OrderStep, EndedStep DEF OrderingInv
<1> QED
  BY <1>1, <1>2, PTL DEF Spec

\* In every graph a build order places each module after all of its dependencies
\* and once, at every point of the ordering.
THEOREM ThmDependenciesFirst == Spec => []DependenciesFirst
<1>1. OrderingInv => DependenciesFirst
  BY DEF OrderingInv
<1> QED
  BY <1>1, OrderingAlways, PTL

\* Nothing in the order is unbuildable: the first such module in it would have an
\* unbuildable dependency before it.
LEMMA OrderedIsBuildable ==
  ASSUME OrderingInv, NEW U, \A m \in U : Deps(m) \cap U # {}
  PROVE  Range(order) \cap U = {}
<1> DEFINE T == {i \in DOMAIN order : order[i] \in U}
<1>1. DOMAIN order = 1 .. Len(order) /\ Len(order) \in Nat
  BY DEF OrderingInv, Shape
<1>2. T \subseteq Nat
  BY <1>1
<1> SUFFICES ASSUME T # {} PROVE FALSE
  BY DEF Range
<1>3. PICK i \in T : \A j \in T : i <= j
  <2> HIDE DEF T
  <2> QED
    BY <1>2, LeastNat, Zenon
<1>4. PICK d \in Deps(order[i]) : d \in U
  BY <1>3
<1>5. PICK j \in 1 .. i - 1 : d = order[j]
  BY <1>3, <1>4 DEF OrderingInv, DependenciesFirst
<1>6. j \in T /\ j < i
  BY <1>1, <1>3, <1>4, <1>5
<1> QED
  BY <1>2, <1>3, <1>6

\* When the queue runs empty, each module left waits for another one left.
LEMMA LeftIsUnbuildable ==
  ASSUME GraphInv, OrderingInv, phase = "cycle", NEW m \in DOMAIN remaining
  PROVE  Deps(m) \cap DOMAIN remaining # {}
<1>1. Ordering /\ ready = <<>> /\ m \in Modules /\ DOMAIN remaining = Modules \ Range(order) /\ Closed
  BY DEF OrderingInv, Shape, Ordering
<1>2. Cardinality(Unresolved(m)) # 0
  BY <1>1, EmptyRange DEF OrderingInv, Counts
<1>3. Unresolved(m) # {}
  BY <1>2, FS_EmptySet
<1>4. Deps(m) \ Range(order) # {}
  BY <1>3 DEF Unresolved
<1> QED
  BY <1>1, <1>4 DEF Closed

\* A graph is ordered completely if it can be, and a cycle error names exactly
\* the modules that no order can place: those on a cycle or behind one.
THEOREM ThmCycleIsExact == Spec => []CycleIsExact
<1>1. GraphInv /\ OrderingInv => CycleIsExact
  <2> SUFFICES ASSUME GraphInv, OrderingInv PROVE CycleIsExact
    OBVIOUS
  <2>1. Range(order) \cap Unbuildable = {}
    BY OrderedIsBuildable DEF Unbuildable
  <2>2. Unbuildable \subseteq Modules
    BY DEF Unbuildable
  <2>3. ASSUME phase = "ordered" PROVE Range(order) = Modules /\ Unbuildable = {}
    BY <2>1, <2>2, <2>3 DEF OrderingInv, Shape, Ended, Ordering
  <2>4. ASSUME phase = "cycle" PROVE DOMAIN remaining = Unbuildable /\ Unbuildable # {}
    <3>1. DOMAIN remaining = Modules \ Range(order) /\ DOMAIN remaining # {}
      BY <2>4 DEF OrderingInv, Shape, Ended, Ordering
    <3>2. DOMAIN remaining \subseteq Unbuildable
      BY <2>4, <3>1, LeftIsUnbuildable DEF Unbuildable
    <3> QED
      BY <2>1, <2>2, <3>1, <3>2
  <2> QED
    BY <2>3, <2>4 DEF CycleIsExact
<1> QED
  BY <1>1, OrderingAlways, PTL

-----------------------------------------------------------------------------
(* transitive_dependents.                                                  *)

\* What depends on something behind id, or on id itself, is behind id.
LEMMA BehindClosed ==
  ASSUME NEW id, NEW d, d = id \/ d \in Behind(id)
  PROVE  Dependents(d) \subseteq Behind(id)
<1>1. Dependents(d) \subseteq Modules
  BY DEF Dependents
<1> QED
  BY <1>1 DEF Behind

\* Every step of the search finds only what is behind, and forgets nothing.
LEMMA SearchStep == ASSUME GraphInv, Shape, SearchInv, [Next]_vars PROVE SearchInv'
<1>a. phase # "idle" => /\ \A d : Dependents(d)' = Dependents(d)
                        /\ \A id : Behind(id)' = Behind(id)
  BY GraphFixed DEF Behind
<1>1. ASSUME NEW id \in Ids, Ask(id) PROVE SearchInv'
  <2>1. queue' = <<id>> /\ Range(queue') = {id} /\ current' = id /\ seen' = {} /\ scan' = {}
    BY <1>1 DEF Ask, Range
  <2>2. queue' \in Seq(Ids)
    BY <2>1
  <2> QED
    BY <2>1, <2>2 DEF SearchInv
<1>2. ASSUME NEW m \in Modules, Visit(m) PROVE SearchInv'
  <2>1. m \in scan /\ m \in Ids /\ phase = "search"
    BY <1>2, VisitedIsScanned DEF Visit
  <2>2. /\ queue' \in Seq(Ids)
        /\ Range(queue') = IF m \in seen THEN Range(queue) ELSE Range(queue) \cup {m}
    <3>1. queue \in Seq(Ids)
      BY <2>1 DEF SearchInv
    <3>2. Append(queue, m) \in Seq(Ids) /\ Range(Append(queue, m)) = Range(queue) \cup {m}
      BY <2>1, <3>1, AppendRange
    <3> QED
      BY <1>2, <3>1, <3>2 DEF Visit
  <2>3. scan' = scan \ {m} /\ seen' = seen \cup {m} /\ current' = current /\ phase' = phase
    BY <1>2 DEF Visit
  <2> QED
    BY <1>a, <2>1, <2>2, <2>3 DEF SearchInv
<1>3. CASE NextSearch
  <2>1. phase = "search" /\ queue \in Seq(Ids) /\ queue # <<>>
    BY <1>3 DEF NextSearch, SearchInv
  <2>2. queue' \in Seq(Ids) /\ Range(queue) = {Head(queue)} \cup Range(queue')
    BY <1>3, <2>1, HeadTailRange DEF NextSearch
  <2>3. Head(queue) \in seen \cup {current}
    BY <2>1, <2>2 DEF SearchInv
  <2>4. Dependents(Head(queue)) \subseteq Behind(current)
    BY <2>1, <2>3, BehindClosed DEF SearchInv
  <2>5. /\ scan = {} /\ scan' = Dependents(Head(queue))
        /\ seen' = seen /\ current' = current /\ phase' = phase
    BY <1>3 DEF NextSearch
  <2> QED
    BY <1>a, <2>1, <2>2, <2>4, <2>5 DEF SearchInv
<1>4. CASE UNCHANGED <<depends, phase, current, seen, scan, queue>>
  BY <1>4 DEF SearchInv, Behind, Dependents, Deps, Modules
<1>5. CASE phase' # "search"
  BY <1>5 DEF SearchInv
<1> QED
  BY <1>1, <1>2, <1>3, <1>4, <1>5
  DEF Next, vars, orderVars, askVars, Insert, Reject, Plan, Seed, Release, Pop, Finish, Answer, Return

\* Once nothing is left to look for, what was found is all there is.
LEMMA SearchDone ==
  ASSUME SearchInv, phase = "search", scan = {}, queue = <<>>
  PROVE  seen = Behind(current)
<1>1. seen \subseteq Behind(current) /\ \A x \in seen \cup {current} : Dependents(x) \subseteq seen
  BY EmptyRange DEF SearchInv
<1>2. seen \in SUBSET Modules
  BY <1>1 DEF Behind
<1> QED
  BY <1>1, <1>2 DEF Behind

\* Every step keeps an answer exact.
LEMMA AnswerStep ==
  ASSUME SearchInv, DependentsExact, [Next]_vars
  PROVE  DependentsExact'
<1>1. CASE Answer
  <2>1. phase = "search" /\ scan = {} /\ queue = <<>> /\ seen' = seen \ {current} /\ current' = current
    BY <1>1 DEF Answer
  <2>2. Behind(current)' = Behind(current)
    BY <2>1, GraphFixed DEF Behind
  <2> QED
    BY <2>1, <2>2, SearchDone DEF DependentsExact
<1>2. CASE UNCHANGED <<depends, phase, current, seen>>
  BY <1>2 DEF DependentsExact, Behind, Dependents, Deps, Modules
<1>3. CASE phase' # "answered"
  BY <1>3 DEF DependentsExact
<1> QED
  BY <1>1, <1>2, <1>3
  DEF Next, vars, orderVars, askVars, Insert, Reject, Plan, Seed, Release, Visit, Pop, Finish, Ask,
      NextSearch, Return

\* In every graph, cyclic ones included, transitive_dependents finds exactly the
\* modules behind the one asked for.
THEOREM ThmDependentsExact == Spec => []DependentsExact
<1>1. Init => SearchInv /\ DependentsExact
  BY DEF Init, SearchInv, DependentsExact
<1>2. GraphInv /\ OrderingInv /\ SearchInv /\ [Next]_vars => SearchInv'
  BY SearchStep DEF OrderingInv
<1>3. SearchInv /\ DependentsExact /\ [Next]_vars => DependentsExact'
  BY AnswerStep
<1> QED
  BY <1>1, <1>2, <1>3, OrderingAlways, PTL DEF Spec
=============================================================================
