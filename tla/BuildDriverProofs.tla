-------------------------- MODULE BuildDriverProofs --------------------------
(***************************************************************************)
(* Proofs about module BuildDriver, for any module graph, any sources and  *)
(* any number of builds, edits and mishaps.                                *)
(***************************************************************************)
EXTENDS BuildDriver, WellFoundedInduction, TLAPS

-------------------------------------------------------------------------------
(* Every nonempty set of natural numbers has a least element.  The proofs  *)
(* use it in place of induction: to show something of every number, take   *)
(* the least one it fails for.                                             *)
LEMMA LeastNat ==
  ASSUME NEW T, T \subseteq Nat, T # {}
  PROVE  \E n \in T : \A m \in T : n <= m
<1>1. PICK R : IsWellFoundedOn(R, Nat) /\ \A x, y \in Nat : y < x => <<y, x>> \in R
  <2>1. \A x, y \in Nat : y < x => <<y, x>> \in OpToRel(<, Nat)
    BY DEF OpToRel
  <2> QED
    BY <2>1, NatLessThanWellFounded, Zenon
<1>2. PICK n \in T : \A y \in T : ~ (<<y, n>> \in R)
  BY <1>1, WFMin, Zenon
<1>3. \A m \in T : ~ (m < n)
  BY <1>1, <1>2, Zenon
<1> QED
  BY <1>3

-----------------------------------------------------------------------------
(* The invariants.  The first is about one build at a time and the store;  *)
(* it says what the other three, which compare a build with a clean one,   *)
(* rest on.                                                                *)

Working == {"lookup", "compile", "put", "aside", "swap"}
Holding == {"put", "aside", "swap"}

\* The shape of the state, as far as the proofs need it.
Shape ==
  /\ DOMAIN disk = Modules /\ DOMAIN outcome = Modules /\ DOMAIN abi = Modules
  /\ source \in [Modules -> Versions]
  /\ at \in Nat
  /\ pc \in Working \union {"idle", "module", "done"}
  /\ pc \in Working => at \in Modules
  /\ pc = "done" => \A m \in Modules : m < at

\* Between a module's outcome and the end of the build, the module's output is
\* on disk and has the ABI that the module published.
Fresh ==
  pc # "idle" => \A m \in Modules : m < at /\ Ok(outcome[m]) =>
    disk[m] # None /\ abi[m] = Abi(m, disk[m])

\* There is something to put in place.
Present ==
  /\ \A k \in DOMAIN store : store[k] # None
  /\ pc \in Holding => made # None /\ Ok(outcome[at])

\* The sources of m have moved on from version v for good, or versions come back
\* and an edit has raced a build.
Stale(v, m) == raced /\ (restored \/ v < source[m])

\* What was compiled is what its key names.
Named(out, k) == out = Output(k.version, k.deps) /\ k.version \notin Broken

\* The key names the ABIs that the dependencies published, and the sources as they
\* were when it was computed; it is in the store before the output is put in
\* place.
Keyed ==
  /\ pc \in Working =>
       /\ at \notin Java
       /\ \A d \in Deps[at] : Ok(outcome[d])
       /\ key = Key(at, key.version, [d \in Deps[at] |-> abi[d]])
       /\ key.version \in Versions
       /\ key.version = source[at] \/ (edited /\ Stale(key.version, at))
  /\ pc = "compile" => key \notin DOMAIN store
  /\ pc \in Holding => Named(made, key) \/ Stale(key.version, at)
  /\ pc \in {"aside", "swap"} => key \in DOMAIN store

\* An entry that is not what its key names will never be asked for again, unless
\* an earlier version is brought back.
Stored ==
  \A k \in DOMAIN store :
    /\ k.module \in Modules /\ k.version \in Versions
    /\ Named(store[k], k) \/ Stale(k.version, k.module)

BuildInv == Shape /\ Fresh /\ Present /\ Keyed /\ Stored

\* An edit has raced a build and an edit was undone.
Lost == raced /\ restored

\* What an unedited build has put in place so far is what a clean build puts there.
CleanSoFar ==
  pc # "idle" /\ ~edited /\ ~Lost =>
    \A m \in Modules : m < at /\ Ok(outcome[m]) => disk[m] = Clean(source)[m]

\* A build without edits and faults has so far produced whatever a clean build does.
CompleteSoFar ==
  pc # "idle" /\ ~edited /\ ~faulted =>
    \A m \in Modules : m < at /\ Clean(source)[m] # None => Ok(outcome[m])

\* The store has the outputs of the last undisturbed build.
SettledStored == settled # None => \A m \in Modules :
  Clean(settled)[m] # None => CleanKey(settled, m) \in DOMAIN store

\* The store has the outputs of the current build so far.
BuiltStored == pc # "idle" /\ ~edited => \A m \in Modules :
  m < at /\ Ok(outcome[m]) => CleanKey(source, m) \in DOMAIN store

\* What was compiled had another key in the last undisturbed build.
CompiledChanged == pc # "idle" /\ ~edited /\ settled # None => \A m \in Modules :
  outcome[m] = "compiled" => CleanKey(source, m) # CleanKey(settled, m)

MinimalSoFar == ~Lost => SettledStored /\ BuiltStored /\ CompiledChanged

-----------------------------------------------------------------------------
(* What a clean build leaves.                                              *)

\* What the body of Clean computes for module m of the sources src, given the
\* outputs out of the modules before m.
CleanStep(src, out, m) ==
  IF m \in Java \/ src[m] \in Broken \/ \E d \in Deps[m] : out[d] = None
    THEN None
    ELSE Output(src[m], [d \in Deps[m] |-> Abi(d, out[d])])

\* The outcome depends on the outputs of the dependencies only.
LEMMA StepLocal ==
  ASSUME NEW src, NEW g, NEW h, NEW m, \A d \in Deps[m] : g[d] = h[d]
  PROVE  CleanStep(src, g, m) = CleanStep(src, h, m)
<1>1. [d \in Deps[m] |-> Abi(d, g[d])] = [d \in Deps[m] |-> Abi(d, h[d])]
  OBVIOUS
<1> QED
  BY <1>1 DEF CleanStep

\* Clean is such a function: dependencies come before their dependents, so the
\* recursion is well founded.
LEMMA CleanUnfolds ==
  ASSUME NEW src
  PROVE  \A m \in Modules : Clean(src)[m] = CleanStep(src, Clean(src), m)
<1> DEFINE Upto(n, g) == /\ g = [m \in Modules |-> g[m]]
                         /\ \A m \in Modules : m <= n => g[m] = CleanStep(src, g, m)
           Without == {n \in 0 .. N : ~(\E g : Upto(n, g))}
           Fix(g) == g = [m \in Modules |-> CleanStep(src, g, m)]
<1>0. N \in Nat /\ \A m \in Modules : Deps[m] \subseteq Modules /\ \A d \in Deps[m] : d < m
  BY DriverAssumption DEF DriverAssumption
<1>1. Without = {}
  <2> SUFFICES ASSUME Without # {} PROVE FALSE
    OBVIOUS
  <2>0. Without \subseteq Nat
    BY <1>0
  <2>1. PICK n \in Without : \A m \in Without : n <= m
    <3> HIDE DEF Without
    <3> QED
      BY <2>0, LeastNat, Zenon
  <2>2. CASE n = 0
    <3> DEFINE z == [m \in Modules |-> None]
    <3>1. z = [m \in Modules |-> z[m]] /\ \A m \in Modules : ~(m <= 0)
      BY DEF Modules
    <3>2. Upto(0, z)
      BY <3>1
    <3> QED
      BY <2>1, <2>2, <3>2
  <2>3. CASE n # 0
    <3>1. n - 1 \in 0 .. N /\ n - 1 \notin Without /\ n \in Modules
      BY <1>0, <2>1, <2>3 DEF Modules
    <3>2. PICK g : Upto(n - 1, g)
      BY <3>1
    <3> DEFINE h == [m \in Modules |-> IF m = n THEN CleanStep(src, g, n) ELSE g[m]]
    <3>3. h = [m \in Modules |-> h[m]]
      OBVIOUS
    <3>4. ASSUME NEW m \in Modules, m <= n PROVE h[m] = CleanStep(src, h, m)
      <4>1. ASSUME NEW d \in Deps[m] PROVE g[d] = h[d]
        <5>1. d \in Modules /\ d < m
          BY <1>0
        <5>2. d # n
          BY <3>1, <3>4, <5>1 DEF Modules
        <5> QED
          BY <5>1, <5>2
      <4>2. CleanStep(src, g, m) = CleanStep(src, h, m)
        BY <4>1, StepLocal
      <4>3. CASE m = n
        BY <4>2, <4>3
      <4>4. CASE m # n
        <5>1. m <= n - 1
          BY <3>1, <3>4, <4>4 DEF Modules
        <5>2. g[m] = CleanStep(src, g, m)
          BY <3>2, <5>1
        <5> QED
          BY <4>2, <4>4, <5>2
      <4> QED
        BY <4>3, <4>4
    <3>5. Upto(n, h)
      BY <3>3, <3>4
    <3> QED
      BY <2>1, <3>5
  <2> QED
    BY <2>2, <2>3
<1>2. PICK g : Upto(N, g)
  BY <1>0, <1>1
<1>3. Fix(g)
  <2>1. \A m \in Modules : m <= N
    BY DEF Modules
  <2>2. \A m \in Modules : g[m] = CleanStep(src, g, m)
    BY <1>2, <2>1
  <2> QED
    BY <1>2, <2>2
<1>4. Clean(src) = CHOOSE h : Fix(h)
  BY DEF Clean, CleanStep
<1>5. Fix(Clean(src))
  BY <1>3, <1>4
<1> QED
  BY <1>5
-----------------------------------------------------------------------------
(* One build and the store.                                                *)

\* A build's first invariant holds initially.
LEMMA BuildInit == Init => BuildInv
<1> SUFFICES ASSUME Init PROVE BuildInv
  OBVIOUS
<1>1. source \in [Modules -> Versions]
  BY DriverAssumption DEF DriverAssumption, Init
<1> QED
  BY <1>1 DEF Init, BuildInv, Shape, Fresh, Present, Keyed, Stored, Working, Holding

\* Every output differs from none.
LEMMA OutputIsSome == \A v, abis : Output(v, abis) # None
<1> SUFFICES ASSUME NEW v, NEW abis, Output(v, abis) = None PROVE FALSE
  OBVIOUS
<1>1. DOMAIN Output(v, abis) = {"version", "deps"} /\ DOMAIN None = {"version"}
  BY DEF Output, None
<1> QED
  BY <1>1

\* A key gives back what it was made from.
LEMMA KeyFields ==
  \A m, v, abis : /\ Key(m, v, abis).module = m /\ Key(m, v, abis).version = v
                  /\ Key(m, v, abis).deps = abis
BY DEF Key

\* Modules are numbers, and so are versions; dependencies come first.
LEMMA Numbers ==
  /\ N \in Nat /\ Modules \subseteq Nat /\ Versions \subseteq Nat /\ Java \subseteq Modules
  /\ \A m \in Modules : Deps[m] \subseteq Modules /\ \A d \in Deps[m] : d < m
  /\ \A m \in Modules : ~ m < 1 /\ m # 0
  /\ \A m \in Modules, i \in Nat : m < i + 1 => m < i \/ m = i
  /\ \A m \in Modules, i \in Nat : i > N => m < i
BY DriverAssumption DEF DriverAssumption, Modules

\* Once stale, a version stays so.
LEMMA StaysStale ==
  ASSUME BuildInv, NEW m \in Modules, NEW v \in Versions, Edit(m, v)
  PROVE  /\ \A x, n : n \in Modules /\ x \in Versions /\ Stale(x, n) => Stale(x, n)'
         /\ pc # "idle" => \A x \in Versions :
              x = source[m] \/ Stale(x, m) => Stale(x, m)'
         /\ source' \in [Modules -> Versions] /\ source'[m] = v
         /\ \A n \in Modules : n # m => source'[n] = source[n]
<1>1. /\ source \in [Modules -> Versions] /\ source' = [source EXCEPT ![m] = v]
      /\ source[m] \in Nat /\ v \in Nat /\ v # source[m] /\ Versions \subseteq Nat
  BY Numbers DEF Edit, BuildInv, Shape
<1>2. (raced' <=> (raced \/ pc # "idle")) /\ (restored' <=> (restored \/ v < source[m]))
  BY Zenon DEF Edit
<1>3. /\ source' \in [Modules -> Versions] /\ source'[m] = v
      /\ \A n \in Modules : n # m => source'[n] = source[n]
  BY <1>1
<1>4. ASSUME NEW x, NEW n, n \in Modules, x \in Versions, Stale(x, n) PROVE Stale(x, n)'
  <2>1. CASE n = m
    BY <1>1, <1>2, <1>3, <1>4, <2>1 DEF Stale
  <2>2. CASE n # m
    BY <1>1, <1>2, <1>3, <1>4, <2>2 DEF Stale
  <2> QED
    BY <2>1, <2>2
<1>5. ASSUME pc # "idle", NEW x \in Versions, x = source[m] PROVE Stale(x, m)'
  BY <1>1, <1>2, <1>3, <1>5 DEF Stale
<1> QED
  BY <1>3, <1>4, <1>5

\* The invariant is kept when the current module gets an outcome that is not a
\* success and only its output changes on disk.
LEMMA ConcludeKeeps ==
  ASSUME BuildInv, at \in Modules, pc # "idle", NEW what, ~Ok(what), Conclude(what, None),
         DOMAIN disk' = Modules, \A m \in Modules : m # at => disk'[m] = disk[m],
         UNCHANGED <<source, raced, restored, store>>
  PROVE  BuildInv'
<1> USE Numbers DEF BuildInv
<1>1. /\ DOMAIN outcome' = Modules /\ DOMAIN abi' = Modules /\ outcome'[at] = what
      /\ \A m \in Modules : m # at => outcome'[m] = outcome[m] /\ abi'[m] = abi[m]
      /\ pc' = "module" /\ at' = at + 1
  BY DEF Conclude, Shape
<1>2. Shape'
  BY <1>1 DEF Shape, Working
<1>3. Fresh'
  BY <1>1 DEF Fresh, Shape
<1>4. Present' /\ Keyed'
  BY <1>1 DEF Present, Keyed, Working, Holding
<1>5. Stored'
  BY DEF Stored, Stale, Named
<1> QED
  BY <1>2, <1>3, <1>4, <1>5

\* Every step keeps the invariant.
LEMMA BuildStep == BuildInv /\ [Next]_vars => BuildInv'
<1> SUFFICES ASSUME BuildInv, [Next]_vars PROVE BuildInv'
  OBVIOUS
<1> USE Numbers DEF BuildInv, sourceVars, buildVars, watchVars, countVars
<1>1. CASE Begin
  BY <1>1 DEF Begin, Shape, Fresh, Present, Keyed, Stored, Stale, Named, Working, Holding, Ok
<1>2. CASE Refuse
  BY <1>2, ConcludeKeeps DEF Refuse, Shape, Ok
<1>3. CASE Block
  BY <1>3, ConcludeKeeps DEF Block, Shape, Ok
<1>4. CASE Inputs
  <2>1. Shape' /\ Fresh' /\ Present' /\ Stored'
    BY <1>4 DEF Inputs, Shape, Fresh, Present, Stored, Stale, Named, Working, Holding
  <2>2. key' = Key(at, source[at], [d \in Deps[at] |-> abi[d]]) /\ at \in Modules
    BY <1>4 DEF Inputs, InputsKey
  <2>3. Keyed'
    BY <1>4, <2>2, KeyFields DEF Inputs, Blocked, Keyed, Shape, Working, Holding
  <2> QED
    BY <2>1, <2>3
<1>5. CASE Hit
  <2>0. /\ at \in Modules /\ outcome'[at] = "hit" /\ DOMAIN outcome' = Modules
        /\ \A m \in Modules : m # at => outcome'[m] = outcome[m]
        /\ \A d \in Deps[at] : d \in Modules /\ d # at
    BY <1>5 DEF Hit, Shape, Working
  <2>1. Shape' /\ Fresh' /\ Present' /\ Stored'
    BY <1>5, <2>0 DEF Hit, Shape, Fresh, Present, Stored, Stale, Named, Working, Holding, Ok
  <2>2. key.module = at
    BY <1>5, KeyFields DEF Hit, Keyed, Working
  <2>3. Keyed'
    BY <1>5, <2>0, <2>2 DEF Hit, Keyed, Stored, Stale, Named, Working, Holding
  <2> QED
    BY <2>1, <2>3
<1>6. CASE Miss
  BY <1>6 DEF Miss, Shape, Fresh, Present, Keyed, Stored, Stale, Named, Working, Holding
<1>7. CASE Compile
  <2>0. /\ at \in Modules /\ outcome'[at] = "compiled" /\ DOMAIN outcome' = Modules
        /\ \A m \in Modules : m # at => outcome'[m] = outcome[m]
        /\ \A d \in Deps[at] : d \in Modules /\ d # at /\ d < at
    BY <1>7 DEF Compile, Shape, Working
  <2>1. [d \in Deps[at] |-> Abi(d, disk[d])] = [d \in Deps[at] |-> abi[d]]
    BY <1>7, <2>0 DEF Compile, Fresh, Keyed, Working
  <2>2. made' = Output(source[at], key.deps) /\ made' # None
    BY <1>7, <2>1, KeyFields, OutputIsSome DEF Compile, Keyed, Working
  <2>3. Shape' /\ Fresh' /\ Present' /\ Stored'
    BY <1>7, <2>0, <2>2
    DEF Compile, Shape, Fresh, Present, Stored, Stale, Named, Working, Holding, Ok
  <2>4. Keyed'
    BY <1>7, <2>0, <2>2 DEF Compile, Keyed, Stale, Named, Working, Holding
  <2> QED
    BY <2>3, <2>4
<1>8. CASE CompileFails
  BY <1>8, ConcludeKeeps DEF CompileFails, Shape, Ok, Working
<1>9. CASE Put
  <2>1. /\ DOMAIN store' = DOMAIN store \union {key}
        /\ \A k \in DOMAIN store' : k \in DOMAIN store => store'[k] = store[k]
        /\ key \notin DOMAIN store => store'[key] = made
    BY <1>9 DEF Put
  <2>2. at \in Modules /\ key.module = at /\ key.version \in Versions
    BY <1>9, KeyFields DEF Put, Keyed, Shape, Working
  <2>3. Shape' /\ Fresh' /\ Present'
    BY <1>9, <2>1 DEF Put, Shape, Fresh, Present, Working, Holding
  <2>4. Stored'
    BY <1>9, <2>1, <2>2 DEF Put, Keyed, Stored, Stale, Named, Working, Holding
  <2>5. Keyed'
    BY <1>9, <2>1 DEF Put, Keyed, Stale, Named, Working, Holding
  <2> QED
    BY <2>3, <2>4, <2>5
<1>10. CASE SetAside
  <2>0. /\ at \in Modules /\ DOMAIN disk' = Modules
        /\ \A m \in Modules : m < at => disk'[m] = disk[m]
    BY <1>10 DEF SetAside, Shape, Working
  <2>1. Shape' /\ Fresh' /\ Present' /\ Stored'
    BY <1>10, <2>0 DEF SetAside, Shape, Fresh, Present, Stored, Stale, Named, Working, Holding
  <2>2. Keyed'
    BY <1>10 DEF SetAside, Keyed, Stale, Named, Working, Holding
  <2> QED
    BY <2>1, <2>2
<1>11. CASE Swap
  <2>0. /\ at \in Modules /\ DOMAIN disk' = Modules /\ disk'[at] = made
        /\ DOMAIN abi' = Modules /\ abi'[at] = Abi(at, made)
        /\ DOMAIN outcome' = Modules /\ \A m \in Modules : outcome'[m] = outcome[m]
        /\ pc' = "module" /\ at' = at + 1
        /\ \A m \in Modules : m # at => disk'[m] = disk[m] /\ abi'[m] = abi[m]
    BY <1>11 DEF Swap, Conclude, Shape, Working
  <2>1. Shape' /\ Fresh'
    BY <1>11, <2>0 DEF Swap, Shape, Fresh, Present, Working, Holding
  <2>2. Present' /\ Keyed' /\ Stored'
    BY <1>11, <2>0 DEF Swap, Present, Keyed, Stored, Stale, Named, Working, Holding
  <2> QED
    BY <2>1, <2>2
<1>12. CASE Report
  BY <1>12 DEF Report, Shape, Fresh, Present, Keyed, Stored, Stale, Named, Working, Holding
<1>13. CASE Done
  BY <1>13 DEF Done, Shape, Fresh, Present, Keyed, Stored, Stale, Named, Working, Holding
<1>14. CASE Fault
  <2>1. at \in Modules /\ pc # "idle"
    BY <1>14 DEF Fault, Shape, Working
  <2>2. DOMAIN disk' = Modules /\ \A m \in Modules : m # at => disk'[m] = disk[m]
    BY <1>14, <2>1 DEF Fault, Shape
  <2> QED
    BY <1>14, <2>1, <2>2, ConcludeKeeps DEF Fault, Ok
<1>15. CASE Crash
  BY <1>15 DEF Crash, Shape, Fresh, Present, Keyed, Stored, Stale, Named, Working, Holding
<1>16. ASSUME NEW m \in Modules, NEW v \in Versions, Edit(m, v) PROVE BuildInv'
  <2>1. UNCHANGED <<disk, store, pc, at, buildVars>>
    BY <1>16 DEF Edit
  <2>2. pc # "idle" => edited'
    BY <1>16, Zenon DEF Edit
  <2>3. Shape' /\ Fresh' /\ Present'
    BY <1>16, <2>1, StaysStale DEF Shape, Fresh, Present
  <2>4. Stored'
    BY <1>16, <2>1, StaysStale DEF Stored, Named
  <2>5. ASSUME pc \in Working
        PROVE  /\ key.version = source'[at] \/ (edited' /\ Stale(key.version, at)')
               /\ Stale(key.version, at) => Stale(key.version, at)'
    <3>1. at \in Modules /\ key.version \in Versions /\ pc # "idle"
      BY <2>5 DEF Shape, Keyed, Working
    <3>2. Stale(key.version, at) => Stale(key.version, at)'
      BY <1>16, <2>1, <3>1, StaysStale DEF Stale
    <3>3. key.version = source[at] \/ (edited /\ Stale(key.version, at))
      BY <2>5 DEF Keyed
    <3>4. CASE at = m
      BY <1>16, <2>1, <2>2, <3>1, <3>2, <3>3, <3>4, StaysStale DEF Stale
    <3>5. CASE at # m
      BY <1>16, <2>2, <3>1, <3>2, <3>3, <3>5, StaysStale
    <3> QED
      BY <3>2, <3>4, <3>5
  <2>6. Keyed'
    BY <2>1, <2>5 DEF Keyed, Named, Working, Holding
  <2> QED
    BY <2>3, <2>4, <2>6
<1>17. ASSUME NEW k \in DOMAIN store, Evict(k) PROVE BuildInv'
  BY <1>17 DEF Evict, Shape, Fresh, Present, Keyed, Stored, Stale, Named, Working, Holding
<1>18. ASSUME NEW m \in Modules, NEW out, Tamper(m, out) PROVE BuildInv'
  BY <1>18 DEF Tamper, Shape, Fresh, Present, Keyed, Stored, Stale, Named, Working, Holding
<1>19. CASE UNCHANGED vars
  BY <1>19 DEF vars, Shape, Fresh, Present, Keyed, Stored, Stale, Named, Working, Holding
<1>20. QED
  BY <1>1, <1>2, <1>3, <1>4, <1>5, <1>6, <1>7, <1>8, <1>9, <1>10, <1>11, <1>12, <1>13,
     <1>14, <1>15, <1>16, <1>17, <1>18, <1>19
  DEF Next, Build

-----------------------------------------------------------------------------
(* The current module and a clean build.                                   *)

\* What an unedited build of the current module works with is what a clean build
\* has: the dependencies' outputs, the key and, once there is one, the output.
LEMMA CurrentIsClean ==
  ASSUME BuildInv, CleanSoFar, pc \in Working, ~edited, ~Lost
  PROVE  /\ at \in Modules \ Java /\ key.version = source[at]
         /\ \A d \in Deps[at] : Clean(source)[d] # None
         /\ key = CleanKey(source, at)
         /\ key.deps = [d \in Deps[at] |-> Abi(d, Clean(source)[d])]
         /\ pc \in Holding => made = Clean(source)[at] /\ made # None
<1>1. /\ at \in Modules \ Java /\ key.version = source[at] /\ pc # "idle"
      /\ key = Key(at, key.version, [d \in Deps[at] |-> abi[d]])
      /\ \A d \in Deps[at] : Ok(outcome[d])
  BY DEF BuildInv, Shape, Keyed, Working
<1>2. ASSUME NEW d \in Deps[at]
      PROVE  disk[d] = Clean(source)[d] /\ disk[d] # None /\ abi[d] = Abi(d, disk[d])
  <2>1. d \in Modules /\ d < at /\ Ok(outcome[d])
    BY <1>1, Numbers
  <2> QED
    BY <1>1, <2>1 DEF BuildInv, Fresh, CleanSoFar
<1>3. [d \in Deps[at] |-> abi[d]] = [d \in Deps[at] |-> Abi(d, Clean(source)[d])]
  BY <1>2
<1>4. \A d \in Deps[at] : Clean(source)[d] # None
  BY <1>2
<1>5. key = CleanKey(source, at)
  BY <1>1, <1>3, <1>4 DEF CleanKey
<1>6. key.deps = [d \in Deps[at] |-> Abi(d, Clean(source)[d])]
  BY <1>1, <1>3, KeyFields
<1>7. ASSUME pc \in Holding PROVE made = Clean(source)[at] /\ made # None
  <2>1. ~Stale(key.version, at)
    <3>1. source[at] \in Nat
      BY <1>1, Numbers DEF BuildInv, Shape
    <3> QED
      BY <1>1, <3>1 DEF Stale, Lost
  <2>2. Named(made, key) /\ made # None
    BY <1>7, <2>1 DEF BuildInv, Keyed, Present
  <2>3. Clean(source)[at] = CleanStep(source, Clean(source), at)
    BY <1>1, CleanUnfolds
  <2> QED
    BY <1>1, <1>4, <1>6, <2>2, <2>3 DEF Named, CleanStep
<1> QED
  BY <1>1, <1>4, <1>5, <1>6, <1>7

\* A module that has an output in a clean build has no Java sources, sources that
\* compile, and dependencies that all have an output.
LEMMA CleanNeeds ==
  ASSUME NEW src, NEW m \in Modules
  PROVE  Clean(src)[m] # None <=>
           m \notin Java /\ src[m] \notin Broken /\ \A d \in Deps[m] : Clean(src)[d] # None
<1>1. Clean(src)[m] = CleanStep(src, Clean(src), m)
  BY CleanUnfolds
<1> QED
  BY <1>1, OutputIsSome DEF CleanStep

\* What an outcome that is no success leaves of the comparison with a clean build.
LEMMA ConcludeLeaves ==
  ASSUME BuildInv, at \in Modules, NEW what, ~Ok(what), Conclude(what, None)
  PROVE  /\ at' = at + 1 /\ pc' = "module" /\ outcome'[at] = what
         /\ \A m \in Modules : m # at => outcome'[m] = outcome[m]
BY DEF Conclude, BuildInv, Shape

-----------------------------------------------------------------------------
(* The output of every success is the output of a clean build.             *)

\* Every step keeps the comparison.
LEMMA CleanStays == BuildInv /\ CleanSoFar /\ [Next]_vars => CleanSoFar'
<1> SUFFICES ASSUME BuildInv, CleanSoFar, [Next]_vars PROVE CleanSoFar'
  OBVIOUS
<1> USE Numbers DEF sourceVars, buildVars, watchVars, countVars
<1>s. DOMAIN disk = Modules /\ DOMAIN outcome = Modules /\ at \in Nat
  BY DEF BuildInv, Shape
<1>0. ASSUME at \in Modules, pc # "idle", NEW what, ~Ok(what), Conclude(what, None),
             \A m \in Modules : m # at => disk'[m] = disk[m],
             UNCHANGED <<source, raced, restored, edited>>
      PROVE  CleanSoFar'
  BY <1>0, <1>s, ConcludeLeaves DEF CleanSoFar, Lost
<1>1. CASE Begin
  BY <1>1, <1>s DEF Begin, CleanSoFar, Ok
<1>2. CASE Refuse
  BY <1>2, <1>0 DEF Refuse, Ok
<1>3. CASE Block
  BY <1>3, <1>0 DEF Block, Ok
<1>4. CASE Inputs
  BY <1>4 DEF Inputs, CleanSoFar, Lost
<1>5. CASE Hit
  BY <1>5, <1>s DEF Hit, CleanSoFar, Lost
<1>6. CASE Miss
  BY <1>6 DEF Miss, CleanSoFar, Lost
<1>7. CASE Compile
  BY <1>7, <1>s DEF Compile, CleanSoFar, Lost
<1>8. CASE CompileFails
  BY <1>8, <1>0 DEF CompileFails, Ok, BuildInv, Shape, Working
<1>9. CASE Put
  BY <1>9 DEF Put, CleanSoFar, Lost
<1>10. CASE SetAside
  BY <1>10, <1>s DEF SetAside, CleanSoFar, Lost
<1>11. CASE Swap
  <2>1. /\ at \in Modules /\ disk'[at] = made /\ at' = at + 1 /\ pc = "swap"
        /\ \A m \in Modules : m # at => disk'[m] = disk[m]
        /\ \A m \in Modules : outcome'[m] = outcome[m]
        /\ UNCHANGED <<source, edited, raced, restored>>
    BY <1>11, <1>s DEF Swap, Conclude, BuildInv, Shape, Working
  <2>2. ~edited /\ ~Lost => made = Clean(source)[at]
    BY <2>1, CurrentIsClean DEF Working, Holding
  <2> QED
    BY <1>s, <2>1, <2>2 DEF CleanSoFar, Lost
<1>12. CASE Report
  BY <1>12 DEF Report, CleanSoFar, Lost
<1>13. CASE Done
  BY <1>13 DEF Done, CleanSoFar
<1>14. CASE Fault
  <2>1. at \in Modules /\ pc # "idle"
    BY <1>14 DEF Fault, BuildInv, Shape, Working
  <2>2. \A m \in Modules : m # at => disk'[m] = disk[m]
    BY <1>14, <1>s, <2>1 DEF Fault
  <2> QED
    BY <1>14, <1>0, <2>1, <2>2 DEF Fault, Ok
<1>15. CASE Crash
  BY <1>15 DEF Crash, CleanSoFar
<1>16. ASSUME NEW m \in Modules, NEW v \in Versions, Edit(m, v) PROVE CleanSoFar'
  <2>1. (pc # "idle" => edited') /\ pc' = pc
    BY <1>16, Zenon DEF Edit
  <2> QED
    BY <2>1 DEF CleanSoFar
<1>17. ASSUME NEW k \in DOMAIN store, Evict(k) PROVE CleanSoFar'
  BY <1>17 DEF Evict, CleanSoFar
<1>18. ASSUME NEW m \in Modules, NEW out, Tamper(m, out) PROVE CleanSoFar'
  BY <1>18 DEF Tamper, CleanSoFar
<1>19. CASE UNCHANGED vars
  BY <1>19 DEF vars, CleanSoFar, Lost
<1>20. QED
  BY <1>1, <1>2, <1>3, <1>4, <1>5, <1>6, <1>7, <1>8, <1>9, <1>10, <1>11, <1>12, <1>13,
     <1>14, <1>15, <1>16, <1>17, <1>18, <1>19
  DEF Next, Build

-----------------------------------------------------------------------------
(* Whatever a clean build produces is produced.                            *)

\* Every step keeps the comparison.
LEMMA CompleteStays == BuildInv /\ CompleteSoFar /\ [Next]_vars => CompleteSoFar'
<1> SUFFICES ASSUME BuildInv, CompleteSoFar, [Next]_vars PROVE CompleteSoFar'
  OBVIOUS
<1> USE Numbers DEF sourceVars, buildVars, watchVars, countVars
<1>s. DOMAIN disk = Modules /\ DOMAIN outcome = Modules /\ at \in Nat
  BY DEF BuildInv, Shape
<1>0. ASSUME at \in Modules, pc # "idle", NEW what, ~Ok(what), Conclude(what, None),
             ~edited /\ ~faulted => Clean(source)[at] = None,
             UNCHANGED <<source, edited, faulted>>
      PROVE  CompleteSoFar'
  BY <1>0, <1>s, ConcludeLeaves DEF CompleteSoFar
<1>1. CASE Begin
  BY <1>1 DEF Begin, CompleteSoFar
<1>2. CASE Refuse
  <2>1. at \in Modules /\ Clean(source)[at] = None
    BY <1>2, CleanNeeds DEF Refuse
  <2> QED
    BY <1>2, <1>0, <2>1 DEF Refuse, Ok
<1>3. CASE Block
  <2>1. at \in Modules /\ \E d \in Deps[at] : ~Ok(outcome[d])
    BY <1>3 DEF Block, Blocked
  <2>2. ~edited /\ ~faulted => \E d \in Deps[at] : Clean(source)[d] = None
    BY <1>3, <2>1 DEF CompleteSoFar, Block
  <2>3. ~edited /\ ~faulted => Clean(source)[at] = None
    BY <2>1, <2>2, CleanNeeds
  <2> QED
    BY <1>3, <1>0, <2>1, <2>3 DEF Block, Ok
<1>4. CASE Inputs
  BY <1>4 DEF Inputs, CompleteSoFar
<1>5. CASE Hit
  BY <1>5, <1>s DEF Hit, CompleteSoFar
<1>6. CASE Miss
  BY <1>6 DEF Miss, CompleteSoFar
<1>7. CASE Compile
  BY <1>7, <1>s DEF Compile, CompleteSoFar
<1>8. CASE CompileFails
  <2>1. at \in Modules /\ pc = "compile" /\ \A d \in Deps[at] : d \in Modules /\ d < at
    BY <1>8 DEF CompileFails, BuildInv, Shape, Working
  <2>2. \A d \in Deps[at] : disk[d] # None
    BY <2>1 DEF BuildInv, Keyed, Fresh, Working
  <2>3. Clean(source)[at] = None
    BY <1>8, <2>1, <2>2, CleanNeeds DEF CompileFails
  <2> QED
    BY <1>8, <1>0, <2>1, <2>3 DEF CompileFails, Ok
<1>9. CASE Put
  BY <1>9 DEF Put, CompleteSoFar
<1>10. CASE SetAside
  BY <1>10 DEF SetAside, CompleteSoFar
<1>11. CASE Swap
  <2>1. /\ at \in Modules /\ at' = at + 1 /\ pc = "swap" /\ Ok(outcome[at])
        /\ \A m \in Modules : outcome'[m] = outcome[m]
        /\ UNCHANGED <<source, edited, faulted>>
    BY <1>11, <1>s DEF Swap, Conclude, BuildInv, Shape, Present, Working, Holding
  <2> QED
    BY <1>s, <2>1 DEF CompleteSoFar
<1>12. CASE Report
  BY <1>12 DEF Report, CompleteSoFar
<1>13. CASE Done
  BY <1>13 DEF Done, CompleteSoFar
<1>14. CASE Fault
  BY <1>14 DEF Fault, CompleteSoFar
<1>15. CASE Crash
  BY <1>15 DEF Crash, CompleteSoFar
<1>16. ASSUME NEW m \in Modules, NEW v \in Versions, Edit(m, v) PROVE CompleteSoFar'
  <2>1. (pc # "idle" => edited') /\ pc' = pc
    BY <1>16, Zenon DEF Edit
  <2> QED
    BY <2>1 DEF CompleteSoFar
<1>17. ASSUME NEW k \in DOMAIN store, Evict(k) PROVE CompleteSoFar'
  BY <1>17 DEF Evict, CompleteSoFar
<1>18. ASSUME NEW m \in Modules, NEW out, Tamper(m, out) PROVE CompleteSoFar'
  BY <1>18 DEF Tamper, CompleteSoFar
<1>19. CASE UNCHANGED vars
  BY <1>19 DEF vars, CompleteSoFar
<1>20. QED
  BY <1>1, <1>2, <1>3, <1>4, <1>5, <1>6, <1>7, <1>8, <1>9, <1>10, <1>11, <1>12, <1>13,
     <1>14, <1>15, <1>16, <1>17, <1>18, <1>19
  DEF Next, Build

-----------------------------------------------------------------------------
(* Only what changed is compiled.                                          *)

\* In an unedited build, a key that is not in the store is not the key that the module
\* had in the last undisturbed build.
LEMMA MissMeansChanged ==
  ASSUME BuildInv, CleanSoFar, MinimalSoFar, pc = "compile", ~edited, ~Lost,
         settled # None, source[at] \notin Broken
  PROVE  CleanKey(source, at) # CleanKey(settled, at)
<1> SUFFICES ASSUME CleanKey(source, at) = CleanKey(settled, at) PROVE FALSE
  OBVIOUS
<1>1. /\ at \in Modules \ Java /\ key = CleanKey(source, at) /\ key.version = source[at]
      /\ key \notin DOMAIN store /\ key.module = at
  BY CurrentIsClean, KeyFields DEF BuildInv, Keyed, Working
<1>2. CleanKey(settled, at) # NoKey
  BY <1>1, Numbers DEF NoKey
<1>3. /\ \A d \in Deps[at] : Clean(settled)[d] # None
      /\ CleanKey(settled, at)
           = Key(at, settled[at], [d \in Deps[at] |-> Abi(d, Clean(settled)[d])])
  BY <1>2 DEF CleanKey
<1>4. settled[at] = source[at]
  BY <1>1, <1>3, KeyFields
<1>5. Clean(settled)[at] # None
  BY <1>1, <1>3, <1>4, CleanNeeds
<1> QED
  BY <1>1, <1>5 DEF MinimalSoFar, SettledStored

\* Every step keeps the comparison.
LEMMA MinimalStays ==
  BuildInv /\ CleanSoFar /\ CompleteSoFar /\ MinimalSoFar /\ [Next]_vars => MinimalSoFar'
<1> SUFFICES ASSUME BuildInv, CleanSoFar, CompleteSoFar, MinimalSoFar, [Next]_vars, ~Lost'
             PROVE  SettledStored' /\ BuiltStored' /\ CompiledChanged'
  BY DEF MinimalSoFar
<1> USE Numbers DEF sourceVars, buildVars, watchVars, countVars
<1>s. DOMAIN outcome = Modules /\ at \in Nat
  BY DEF BuildInv, Shape
<1>l. ~Lost
  <2>1. \A m \in Modules, v \in Versions :
          Edit(m, v) => (raced => raced') /\ (restored => restored')
    BY Zenon DEF Edit
  <2>2. CASE \E m \in Modules, v \in Versions : Edit(m, v)
    BY <2>1, <2>2 DEF Lost
  <2>3. CASE ~ \E m \in Modules, v \in Versions : Edit(m, v)
    <3>1. UNCHANGED <<raced, restored>>
      BY <2>3 DEF Next, Build, vars, Begin, Refuse, Block, Inputs, Hit, Miss, Compile,
                  CompileFails, Put, SetAside, Swap, Report, Done, Fault, Crash, Evict, Tamper
    <3> QED
      BY <3>1 DEF Lost
  <2> QED
    BY <2>2, <2>3
<1>i. SettledStored /\ BuiltStored /\ CompiledChanged
  BY <1>l DEF MinimalSoFar
<1>0. ASSUME at \in Modules, pc # "idle", NEW what, ~Ok(what), Conclude(what, None),
             UNCHANGED <<source, store, edited, settled>>
      PROVE  SettledStored' /\ BuiltStored' /\ CompiledChanged'
  BY <1>0, <1>s, <1>i, ConcludeLeaves DEF SettledStored, BuiltStored, CompiledChanged, Ok
<1>1. CASE Begin
  BY <1>1, <1>i DEF Begin, SettledStored, BuiltStored, CompiledChanged
<1>2. CASE Refuse
  BY <1>2, <1>0 DEF Refuse, Ok
<1>3. CASE Block
  BY <1>3, <1>0 DEF Block, Ok
<1>4. CASE Inputs
  BY <1>4, <1>i DEF Inputs, SettledStored, BuiltStored, CompiledChanged
<1>5. CASE Hit
  BY <1>5, <1>s, <1>i DEF Hit, SettledStored, BuiltStored, CompiledChanged
<1>6. CASE Miss
  BY <1>6, <1>i DEF Miss, SettledStored, BuiltStored, CompiledChanged
<1>7. CASE Compile
  <2>1. /\ at \in Modules /\ pc = "compile" /\ source[at] \notin Broken
        /\ \A m \in Modules : m # at => outcome'[m] = outcome[m]
        /\ UNCHANGED <<source, store, at, edited, settled>>
    BY <1>7, <1>s DEF Compile, BuildInv, Shape, Working
  <2>2. ~edited /\ settled # None => CleanKey(source, at) # CleanKey(settled, at)
    BY <1>l, <2>1, MissMeansChanged
  <2>3. SettledStored' /\ BuiltStored'
    BY <1>s, <1>i, <2>1 DEF SettledStored, BuiltStored
  <2>4. CompiledChanged'
    BY <1>i, <2>1, <2>2 DEF CompiledChanged
  <2> QED
    BY <2>3, <2>4
<1>8. CASE CompileFails
  BY <1>8, <1>0 DEF CompileFails, Ok, BuildInv, Shape, Working
<1>9. CASE Put
  <2>1. DOMAIN store' = DOMAIN store \union {key}
    BY <1>9 DEF Put
  <2> QED
    BY <1>9, <1>i, <2>1 DEF Put, SettledStored, BuiltStored, CompiledChanged
<1>10. CASE SetAside
  BY <1>10, <1>i DEF SetAside, SettledStored, BuiltStored, CompiledChanged
<1>11. CASE Swap
  <2>1. /\ at \in Modules /\ at' = at + 1 /\ pc = "swap" /\ key \in DOMAIN store
        /\ \A m \in Modules : outcome'[m] = outcome[m]
        /\ UNCHANGED <<source, store, edited, settled>>
    BY <1>11, <1>s DEF Swap, Conclude, BuildInv, Shape, Keyed, Working
  <2>2. ~edited => key = CleanKey(source, at)
    BY <1>l, <2>1, CurrentIsClean DEF Working
  <2> QED
    BY <1>s, <1>i, <2>1, <2>2 DEF SettledStored, BuiltStored, CompiledChanged
<1>12. CASE Report
  BY <1>12, <1>i DEF Report, SettledStored, BuiltStored, CompiledChanged
<1>13. CASE Done
  <2>1. pc = "done" /\ \A m \in Modules : m < at
    BY <1>13 DEF Done, BuildInv, Shape
  <2>2. ~edited /\ ~faulted =>
          \A m \in Modules : Clean(source)[m] # None => CleanKey(source, m) \in DOMAIN store
    BY <1>i, <2>1 DEF CompleteSoFar, BuiltStored
  <2>3. settled' = settled \/ (~edited /\ ~faulted /\ settled' = source)
    BY <1>13 DEF Done
  <2> QED
    BY <1>13, <1>i, <2>2, <2>3 DEF Done, SettledStored, BuiltStored, CompiledChanged
<1>14. CASE Fault
  <2>1. at \in Modules /\ pc # "idle"
    BY <1>14 DEF Fault, BuildInv, Shape, Working
  <2> QED
    BY <1>14, <1>0, <2>1 DEF Fault, Ok
<1>15. CASE Crash
  BY <1>15, <1>i DEF Crash, SettledStored, BuiltStored, CompiledChanged
<1>16. ASSUME NEW m \in Modules, NEW v \in Versions, Edit(m, v)
       PROVE SettledStored' /\ BuiltStored' /\ CompiledChanged'
  <2>1. (pc # "idle" => edited') /\ pc' = pc /\ UNCHANGED <<store, settled>>
    BY <1>16, Zenon DEF Edit
  <2> QED
    BY <1>i, <2>1 DEF SettledStored, BuiltStored, CompiledChanged
<1>17. ASSUME NEW k \in DOMAIN store, Evict(k)
       PROVE SettledStored' /\ BuiltStored' /\ CompiledChanged'
  BY <1>17 DEF Evict, SettledStored, BuiltStored, CompiledChanged
<1>18. ASSUME NEW m \in Modules, NEW out, Tamper(m, out)
       PROVE SettledStored' /\ BuiltStored' /\ CompiledChanged'
  BY <1>18, <1>i DEF Tamper, SettledStored, BuiltStored, CompiledChanged
<1>19. CASE UNCHANGED vars
  BY <1>19, <1>i DEF vars, SettledStored, BuiltStored, CompiledChanged
<1>20. QED
  BY <1>1, <1>2, <1>3, <1>4, <1>5, <1>6, <1>7, <1>8, <1>9, <1>10, <1>11, <1>12, <1>13,
     <1>14, <1>15, <1>16, <1>17, <1>18, <1>19
  DEF Next, Build

-----------------------------------------------------------------------------
(* The theorems.                                                           *)

\* The first two invariants hold of every behaviour.
LEMMA BuildsAlwaysClean == Spec => [](BuildInv /\ CleanSoFar)
<1>1. Init => CleanSoFar
  BY DEF Init, CleanSoFar
<1> QED
  BY <1>1, BuildInit, BuildStep, CleanStays, PTL DEF Spec

\* And so does the third.
LEMMA BuildsAlwaysComplete == Spec => [](BuildInv /\ CompleteSoFar)
<1>1. Init => CompleteSoFar
  BY DEF Init, CompleteSoFar
<1> QED
  BY <1>1, BuildInit, BuildStep, CompleteStays, PTL DEF Spec

\* While nobody has edited during a build, what is stored under a key was compiled from
\* exactly the sources and ABIs the key names, for any graph, however builds
\* fail or crash and whatever happens to the outputs in between.
THEOREM ThmStoreSound == Spec => []StoreSound
<1>1. BuildInv => StoreSound
  BY DEF BuildInv, Stored, Named, Stale, StoreSound
<1> QED
  BY <1>1, BuildsAlwaysClean, PTL

\* For any module graph, a build during which nobody edits leaves the output of a clean
\* build for every module it reports as cached or compiled, unless an edit has raced
\* a build and an edit was undone.
THEOREM ThmOkUnlessRestored == Spec => []OkUnlessRestored
<1>1. BuildInv /\ CleanSoFar => OkUnlessRestored
  BY DEF BuildInv, Shape, CleanSoFar, Lost, OkUnlessRestored, OkIsClean
<1> QED
  BY <1>1, BuildsAlwaysClean, PTL

\* For any module graph, a build without edits and I/O faults produces every module that
\* a clean build produces, whatever raced, failed or was restored before.
THEOREM ThmBuildsAllItCan == Spec => []BuildsAllItCan
<1>1. BuildInv /\ CompleteSoFar => BuildsAllItCan
  BY DEF BuildInv, Shape, CompleteSoFar, BuildsAllItCan
<1> QED
  BY <1>1, BuildsAlwaysComplete, PTL

\* For any module graph, a build compiles a module again only if its sources or the ABI
\* of a dependency differ from the last undisturbed build.
THEOREM ThmMinimalRebuild == Spec => []MinimalRebuild
<1>1. Init => MinimalSoFar
  BY DEF Init, MinimalSoFar, SettledStored, BuiltStored, CompiledChanged
<1>2. MinimalSoFar => MinimalRebuild
  BY DEF MinimalSoFar, CompiledChanged, Lost, MinimalRebuild
<1> QED
  BY <1>1, <1>2, BuildsAlwaysClean, BuildsAlwaysComplete, MinimalStays, PTL DEF Spec

=============================================================================
