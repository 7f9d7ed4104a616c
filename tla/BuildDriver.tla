----------------------------- MODULE BuildDriver -----------------------------
(***************************************************************************)
(* The build driver of krusty-build (driver.rs, compiler.rs, cache.rs):    *)
(* for each module in build order compute a cache key, look it up, compile *)
(* on a miss, store, and put the output in place.  Builds follow each other*)
(* on one store and one project; the sources are edited at any moment.     *)
(*                                                                         *)
(* Modules are named by their place in the build order (ModuleGraph shows  *)
(* that dependencies come first).  The output of a module is a record of   *)
(* what it was compiled from: its source version and the ABI each          *)
(* dependency's output had on disk.  The store is the map that ArtifactStore*)
(* implements; an eviction also stands for an entry that turned out damaged.*)
(***************************************************************************)
EXTENDS Naturals, FiniteSets

CONSTANTS
  N,           \* the number of modules
  Deps,        \* Deps[m]: the direct dependencies of m
  Java,        \* the modules with Java sources
  Exact,       \* the modules whose environment publishes an exact ABI
  Versions,    \* the source versions of a module, numbered
  Broken,      \* the versions that do not compile
  Sig,         \* Sig[v]: the signature of version v, its body left out
  MaxEdits,    \* how many edits there are
  MaxMishaps   \* how many crashes, I/O faults, evictions and tamperings

Modules == 1 .. N

ASSUME DriverAssumption ==
  /\ N \in Nat
  /\ Deps \in [Modules -> SUBSET Modules]
  /\ \A m \in Modules : \A d \in Deps[m] : d < m
  /\ Java \subseteq Modules
  /\ Versions \subseteq Nat /\ 1 \in Versions
  /\ MaxEdits \in Nat /\ MaxMishaps \in Nat

VARIABLES
  source,    \* source[m]: the version of m's sources on disk
  raced,     \* history: a source was edited during a build
  restored,  \* history: an earlier version of a source was brought back
  disk,      \* disk[m]: what is in m's output directory
  store,     \* the artifact store: key -> output
  pc, at,    \* where the build is, and at which module
  outcome,   \* outcome[m]: what happened to m in this build
  abi,       \* abi[m]: the ABI that m published in this build
  key,       \* the cache key of the current module
  made,      \* the artifacts to put in place
  retired,   \* the output set aside while the new one is put in place
  edited,    \* sources changed since the build began
  faulted,   \* an I/O fault happened since the build began
  settled,   \* the sources of the last undisturbed build, for comparison
  edits, mishaps   \* how many there were so far

sourceVars == <<source, raced, restored>>
buildVars == <<outcome, abi, key, made, retired>>
watchVars == <<edited, faulted, settled>>
countVars == <<edits, mishaps>>
vars == <<sourceVars, disk, store, pc, at, buildVars, watchVars, countVars>>

None == [version |-> 0]
Output(v, abis) == [version |-> v, deps |-> abis]

\* published_abi: a hash of the whole output, unless the environment vouches
\* for an exact ABI, which leaves bodies out.
Abi(m, out) == IF m \in Exact THEN [sig |-> Sig[out.version], deps |-> out.deps]
               ELSE [whole |-> out]

NoKey == [module |-> 0]
Key(m, v, abis) == [module |-> m, version |-> v, deps |-> abis]

Init ==
  /\ source = [m \in Modules |-> 1]
  /\ raced = FALSE /\ restored = FALSE
  /\ disk = [m \in Modules |-> None]
  /\ store = [k \in {} |-> None]
  /\ pc = "idle" /\ at = 1
  /\ outcome = [m \in Modules |-> "none"]
  /\ abi = [m \in Modules |-> None]
  /\ key = NoKey /\ made = None /\ retired = None
  /\ edited = FALSE /\ faulted = FALSE
  /\ settled = None
  /\ edits = 0 /\ mishaps = 0

Ok(what) == what \in {"hit", "compiled"}

-----------------------------------------------------------------------------
(* One build.                                                              *)

Begin ==
  /\ pc = "idle"
  /\ pc' = "module" /\ at' = 1
  /\ outcome' = [m \in Modules |-> "none"]
  /\ abi' = [m \in Modules |-> None]
  /\ edited' = FALSE /\ faulted' = FALSE
  /\ UNCHANGED <<sourceVars, disk, store, key, made, retired, settled, countVars>>

\* The outcome of the current module; the build goes on with the next.
Conclude(what, published) ==
  /\ outcome' = [outcome EXCEPT ![at] = what]
  /\ abi' = [abi EXCEPT ![at] = published]
  /\ at' = at + 1
  /\ pc' = "module"
  /\ key' = NoKey /\ made' = None /\ retired' = None

\* is_krusty_compilable, and what else the environment cannot honour.
Refuse ==
  /\ pc = "module" /\ at \in Java
  /\ Conclude("refused", None)
  /\ UNCHANGED <<sourceVars, disk, store, watchVars, countVars>>

\* Mutant: any module that produced nothing blocks all that follow.
BlockedByAny == \E d \in 1 .. at - 1 : ~Ok(outcome[d])

\* A dependency produced nothing in this build.
Blocked == \E d \in Deps[at] : ~Ok(outcome[d])

Block ==
  /\ pc = "module" /\ at \in Modules \ Java /\ Blocked
  /\ Conclude("blocked", None)
  /\ UNCHANGED <<sourceVars, disk, store, watchVars, countVars>>

\* Mutant: the dependencies' ABIs are not part of the key.
InputsKeyLessDeps == Key(at, source[at], <<>>)

\* base_inputs digests the sources now; the driver adds the ABIs.
InputsKey == Key(at, source[at], [d \in Deps[at] |-> abi[d]])

Inputs ==
  /\ pc = "module" /\ at \in Modules \ Java /\ ~Blocked
  /\ key' = InputsKey
  /\ pc' = "lookup"
  /\ UNCHANGED <<sourceVars, disk, store, at, outcome, abi, made, retired, watchVars,
                 countVars>>

Hit ==
  /\ pc = "lookup" /\ key \in DOMAIN store
  /\ made' = store[key]
  /\ outcome' = [outcome EXCEPT ![at] = "hit"]
  /\ pc' = "aside"
  /\ UNCHANGED <<sourceVars, disk, store, at, abi, key, retired, watchVars, countVars>>

Miss ==
  /\ pc = "lookup" /\ key \notin DOMAIN store
  /\ pc' = "compile"
  /\ UNCHANGED <<sourceVars, disk, store, at, buildVars, watchVars, countVars>>

\* The compiler reads the sources and the dependencies' outputs from disk.
Compile ==
  /\ pc = "compile"
  /\ source[at] \notin Broken
  /\ \A d \in Deps[at] : disk[d] # None
  /\ made' = Output(source[at], [d \in Deps[at] |-> Abi(d, disk[d])])
  /\ outcome' = [outcome EXCEPT ![at] = "compiled"]
  /\ pc' = "put"
  /\ UNCHANGED <<sourceVars, disk, store, at, abi, key, retired, watchVars, countVars>>

CompileFails ==
  /\ pc = "compile"
  /\ source[at] \in Broken \/ \E d \in Deps[at] : disk[d] = None
  /\ Conclude("failed", None)
  /\ UNCHANGED <<sourceVars, disk, store, watchVars, countVars>>

\* Mutant: nothing is stored.
PutNothing ==
  /\ pc = "put"
  /\ pc' = "aside"
  /\ UNCHANGED <<sourceVars, disk, store, at, buildVars, watchVars, countVars>>

\* An entry that is already there stays.
Put ==
  /\ pc = "put"
  /\ store' = [k \in DOMAIN store \cup {key} |-> IF k \in DOMAIN store THEN store[k] ELSE made]
  /\ pc' = "aside"
  /\ UNCHANGED <<sourceVars, disk, at, buildVars, watchVars, countVars>>

\* replace_tree: the new tree is staged beside the old one, which is renamed
\* away before the new one is renamed into place.
SetAside ==
  /\ pc = "aside"
  /\ retired' = disk[at]
  /\ disk' = [disk EXCEPT ![at] = None]
  /\ pc' = "swap"
  /\ UNCHANGED <<sourceVars, store, at, outcome, abi, key, made, watchVars, countVars>>

\* Mutant: what a cache hit already finds on disk is left there.
SwapUnlessPresent ==
  /\ pc = "swap"
  /\ disk' = [disk EXCEPT ![at] = IF outcome[at] = "hit" /\ retired # None THEN retired ELSE made]
  /\ Conclude(outcome[at], Abi(at, made))
  /\ UNCHANGED <<sourceVars, store, watchVars, countVars>>

Swap ==
  /\ pc = "swap"
  /\ disk' = [disk EXCEPT ![at] = made]
  /\ Conclude(outcome[at], Abi(at, made))
  /\ UNCHANGED <<sourceVars, store, watchVars, countVars>>

\* Every module has its outcome: the report is returned.
Report ==
  /\ pc = "module" /\ at > N
  /\ pc' = "done"
  /\ UNCHANGED <<sourceVars, disk, store, at, buildVars, watchVars, countVars>>

Done ==
  /\ pc = "done"
  /\ pc' = "idle" /\ at' = 1
  /\ outcome' = [m \in Modules |-> "none"]
  /\ abi' = [m \in Modules |-> None]
  /\ settled' = IF edited \/ faulted THEN settled ELSE source
  /\ UNCHANGED <<sourceVars, disk, store, key, made, retired, edited, faulted, countVars>>

-----------------------------------------------------------------------------
(* The world.                                                              *)

\* Reading the inputs, running the compiler, reading or writing the store, or
\* putting the output in place fails; in the last case the old output is put
\* back.
Fault ==
  /\ mishaps < MaxMishaps
  /\ \/ pc = "module" /\ at \in Modules \ Java /\ ~Blocked
     \/ pc \in {"lookup", "compile", "put", "aside", "swap"}
  /\ mishaps' = mishaps + 1
  /\ faulted' = TRUE
  /\ disk' = IF pc = "swap" THEN [disk EXCEPT ![at] = retired] ELSE disk
  /\ Conclude("failed", None)
  /\ UNCHANGED <<sourceVars, store, edited, settled, edits>>

Crash ==
  /\ mishaps < MaxMishaps
  /\ pc \notin {"idle", "done"}
  /\ mishaps' = mishaps + 1
  /\ pc' = "idle" /\ at' = 1
  /\ outcome' = [m \in Modules |-> "none"]
  /\ abi' = [m \in Modules |-> None]
  /\ key' = NoKey /\ made' = None /\ retired' = None
  /\ UNCHANGED <<sourceVars, disk, store, watchVars, edits>>

Edit(m, v) ==
  /\ edits < MaxEdits
  /\ v # source[m]
  /\ edits' = edits + 1
  /\ source' = [source EXCEPT ![m] = v]
  /\ raced' = (raced \/ pc # "idle")
  /\ restored' = (restored \/ v < source[m])
  /\ edited' = (pc # "idle")
  /\ UNCHANGED <<disk, store, pc, at, buildVars, faulted, settled, mishaps>>

Evict(k) ==
  /\ mishaps < MaxMishaps
  /\ pc = "idle"
  /\ mishaps' = mishaps + 1
  /\ store' = [x \in DOMAIN store \ {k} |-> store[x]]
  /\ settled' = None
  /\ UNCHANGED <<sourceVars, disk, pc, at, buildVars, edited, faulted, edits>>

\* Somebody deletes an output directory, or leaves an older output in it.
Tamper(m, out) ==
  /\ mishaps < MaxMishaps
  /\ pc = "idle"
  /\ disk[m] # out
  /\ mishaps' = mishaps + 1
  /\ disk' = [disk EXCEPT ![m] = out]
  /\ UNCHANGED <<sourceVars, store, pc, at, buildVars, watchVars, edits>>

Build ==
  \/ Begin \/ Refuse \/ Block \/ Inputs \/ Hit \/ Miss \/ Compile \/ CompileFails
  \/ Put \/ SetAside \/ Swap \/ Report \/ Done

Next ==
  \/ Build \/ Fault \/ Crash
  \/ \E m \in Modules, v \in Versions : Edit(m, v)
  \/ \E k \in DOMAIN store : Evict(k)
  \/ \E m \in Modules : \E out \in {None} \cup {store[k] : k \in {x \in DOMAIN store : x.module = m}} :
       Tamper(m, out)

Spec == Init /\ [][Next]_vars

-----------------------------------------------------------------------------
(* Properties.                                                             *)

\* What a clean build of the sources src leaves in each output directory.
Clean(src) ==
  LET out[m \in Modules] ==
        IF m \in Java \/ src[m] \in Broken \/ \E d \in Deps[m] : out[d] = None
          THEN None
          ELSE Output(src[m], [d \in Deps[m] |-> Abi(d, out[d])])
  IN  out

\* The key under which an undisturbed build of src looks m up.
CleanKey(src, m) ==
  LET out == Clean(src) IN
  IF \E d \in Deps[m] : out[d] = None THEN NoKey
  ELSE Key(m, src[m], [d \in Deps[m] |-> Abi(d, out[d])])

TypeOK ==
  /\ source \in [Modules -> Versions]
  /\ raced \in BOOLEAN /\ restored \in BOOLEAN
  /\ DOMAIN disk = Modules
  /\ pc \in {"idle", "module", "lookup", "compile", "put", "aside", "swap", "done"}
  /\ at \in 1 .. N + 1
  /\ outcome \in [Modules -> {"none", "hit", "compiled", "refused", "failed", "blocked"}]
  /\ DOMAIN abi = Modules
  /\ pc \in {"lookup", "compile", "put", "aside", "swap"} => at \in Modules /\ key # NoKey
  /\ pc \in {"put", "aside", "swap"} => made # None /\ Ok(outcome[at])
  /\ edited \in BOOLEAN /\ faulted \in BOOLEAN
  /\ edits \in 0 .. MaxEdits /\ mishaps \in 0 .. MaxMishaps

\* A build during which nobody edits leaves, for every module it reports as
\* cached or compiled, exactly the output of a clean build, whatever was
\* cached, interrupted, evicted, tampered with or edited before.
OkIsClean ==
  pc = "done" /\ ~edited =>
    \A m \in Modules : Ok(outcome[m]) => disk[m] = Clean(source)[m]

\* The same, unless an edit raced a build and an edit was undone: either alone
\* is harmless.
OkUnlessRestored == ~(raced /\ restored) => OkIsClean

\* Such a build, if no I/O fails, produces every module that a clean build
\* produces: a failure elsewhere never costs a module that does not need it.
BuildsAllItCan ==
  pc = "done" /\ ~edited /\ ~faulted =>
    \A m \in Modules : Clean(source)[m] # None => Ok(outcome[m])

\* While no edit has raced a build, what is stored under a key was compiled
\* from exactly the sources and ABIs that the key names.
StoreSound ==
  ~raced =>
  \A k \in DOMAIN store : store[k] = Output(k.version, k.deps)

\* A module is compiled again only if its own sources or the ABI of one of
\* its dependencies differ from the last undisturbed build, unless an edit raced
\* a build and an edit was undone.
MinimalRebuild ==
  pc = "done" /\ ~edited /\ settled # None /\ ~(raced /\ restored) =>
    \A m \in Modules : outcome[m] = "compiled" => CleanKey(source, m) # CleanKey(settled, m)
=============================================================================
