-------------------------- MODULE CompileAvoidance --------------------------
(***************************************************************************)
(* One module's step of a toolchain run: run_step, run_ksp and             *)
(* copy_resources (compile/run.rs) with the skip check of avoidance.rs.    *)
(*                                                                         *)
(* The project on disk is one of Versions; it determines the module's      *)
(* Kotlin sources, its resource directories and its use of KSP.  Between   *)
(* any two steps the run may be interrupted (or an I/O call may fail),     *)
(* leaving the disk as it is, and the user may edit the project.  What is  *)
(* on disk is a tagged tuple, which stands for the contents of a directory *)
(* or a file and for their digest (SHA-256 is taken to be injective).      *)
(***************************************************************************)
EXTENDS Naturals

CONSTANTS
  Versions,          \* the contents the project may have, a set of numbers
  WithSources,       \* the versions in which the module has Kotlin sources
  WithResources,     \* the versions in which it has a resource directory
  WithKsp,           \* the versions in which it runs a KSP processor
  MaxEdits           \* bound of the model: how many edits there are

ASSUME ProjectAssumption ==
  /\ Versions \subseteq Nat
  /\ WithSources \subseteq Versions
  /\ WithResources \subseteq Versions
  /\ WithKsp \subseteq Versions
  /\ MaxEdits \in Nat

VARIABLES
  source,     \* the project's contents
  edits,      \* how many edits there were
  raced,      \* history: an edit happened during a run
  restored,   \* history: an edit brought an earlier version back
  pc,         \* where the step is; "idle" between runs
  planned,    \* the version the plan was made from
  kspInputs,  \* the fingerprint of KSP's inputs, taken by this run
  inputs,     \* the fingerprint of the compilation's inputs, taken by this run
  reading,    \* what the tool that is running has read
  kspOut,     \* the contents of KSP's output directory
  kspState,   \* the contents of ksp.state
  output,     \* the contents of the module's output directory
  state,      \* the contents of compilation.state
  resOut,     \* the contents of the resources output
  result,     \* how the last run ended
  disturbed,  \* history: the project or its outputs changed since the run began
  settled     \* history: nothing changed since a run that succeeded undisturbed

sourceVars == <<source, edits, raced, restored>>
diskVars == <<kspOut, kspState, output, state, resOut>>
runVars == <<planned, kspInputs, inputs, reading>>
historyVars == <<result, disturbed, settled>>
vars == <<sourceVars, pc, runVars, diskVars, historyVars>>

None == <<"none">>
Absent == <<"absent">>
Empty == <<"empty">>
Partial == <<"partial">>
Tampered == <<"tampered">>
Torn == <<"torn">>

\* What KSP and the compilation read, and its fingerprint.
KspInputs(v) == <<"sources", v>>
ModuleInputs(v, generated) == <<"module", v, generated>>

Generated(v) == <<"generated", v>>
Classes(read) == <<"classes", read>>
Copied(read) == <<"copied", read>>
Record(fingerprint, contents) == <<"record", fingerprint, contents>>

KspContents == {Absent, Empty, Partial, Tampered} \cup {Generated(v) : v \in Versions}
Read == {ModuleInputs(v, k) : v \in Versions, k \in KspContents}
OutputContents == {Absent, Empty, Partial, Tampered} \cup {Classes(r) : r \in Read}

\* What a compilation of the whole project at version v from nothing leaves.
CleanKsp(v) == IF v \in WithKsp THEN Generated(v) ELSE Absent
CleanOutput(v) ==
  IF v \in WithSources THEN Classes(ModuleInputs(v, CleanKsp(v))) ELSE Absent
CleanResources(v) ==
  IF v \in WithResources \cup WithKsp THEN Copied(ModuleInputs(v, CleanKsp(v))) ELSE Absent

Init ==
  /\ source \in Versions
  /\ edits = 0 /\ raced = FALSE /\ restored = FALSE
  /\ pc = "idle"
  /\ planned = source
  /\ kspInputs = None /\ inputs = None /\ reading = None
  /\ kspOut = Absent /\ kspState = Absent
  /\ output = Absent /\ state = Absent
  /\ resOut = Absent
  /\ result = "none"
  /\ disturbed = FALSE /\ settled = FALSE

\* KSP's output, if the plan puts it on the module's classpath and among its
\* resource directories.
KspRead == IF planned \in WithKsp THEN kspOut ELSE Absent

-----------------------------------------------------------------------------
(* The run begins: the plan says whether there is anything to compile.     *)

Plan ==
  /\ pc = "idle"
  /\ planned' = source
  /\ kspInputs' = None /\ inputs' = None /\ reading' = None
  /\ pc' = IF source \in WithKsp THEN "ksp" ELSE "module"
  /\ result' = "none"
  /\ disturbed' = FALSE
  /\ UNCHANGED <<sourceVars, diskVars, settled>>

\* up_to_date: the recorded compilation had these inputs and left the output
\* as it is now.
UpToDate(recorded, out, fingerprint) ==
  out # Absent /\ recorded = Record(fingerprint, out)

-----------------------------------------------------------------------------
(* run_ksp.                                                                *)

\* Mutant: KSP runs whatever its state says.
KspCheckNever ==
  /\ pc = "ksp"
  /\ kspInputs' = KspInputs(source)
  /\ pc' = "kspForget"
  /\ UNCHANGED <<sourceVars, planned, inputs, reading, diskVars, historyVars>>

\* KSP's inputs are fingerprinted before the module's.
KspCheck ==
  /\ pc = "ksp"
  /\ kspInputs' = KspInputs(source)
  /\ pc' = IF UpToDate(kspState, kspOut, KspInputs(source)) THEN "module" ELSE "kspForget"
  /\ UNCHANGED <<sourceVars, planned, inputs, reading, diskVars, historyVars>>

KspForget ==
  /\ pc = "kspForget"
  /\ kspState' = Absent
  /\ pc' = "kspClear"
  /\ UNCHANGED <<sourceVars, runVars, kspOut, output, state, resOut, historyVars>>

\* ksp::run removes the whole output before it starts KSP.
KspClear ==
  /\ pc = "kspClear"
  /\ kspOut' = Absent
  /\ pc' = "kspRun"
  /\ UNCHANGED <<sourceVars, runVars, kspState, output, state, resOut, historyVars>>

KspStart ==
  /\ pc = "kspRun"
  /\ reading' = KspInputs(source)
  /\ kspOut' = Partial
  /\ pc' = "kspRunning"
  /\ UNCHANGED <<sourceVars, planned, kspInputs, inputs, kspState, output, state,
                 resOut, historyVars>>

\* KSP succeeds and generated no sources.
KspSucceed ==
  /\ pc = "kspRunning"
  /\ kspOut' = Generated(reading[2])
  /\ pc' = "kspRecord"
  /\ UNCHANGED <<sourceVars, runVars, kspState, output, state, resOut, historyVars>>

KspRecordOpen ==
  /\ pc = "kspRecord"
  /\ kspState' = Torn
  /\ pc' = "kspRecording"
  /\ UNCHANGED <<sourceVars, runVars, kspOut, output, state, resOut, historyVars>>

KspRecordWrite ==
  /\ pc = "kspRecording"
  /\ kspState' = Record(kspInputs, kspOut)
  /\ pc' = "module"
  /\ UNCHANGED <<sourceVars, runVars, kspOut, output, state, resOut, historyVars>>

-----------------------------------------------------------------------------
(* run_step after KSP, for a module that has Kotlin sources.               *)

\* krusty fingerprints what the compilation reads, or takes no fingerprint.
Fingerprint(fingerprint) ==
  /\ pc = "module"
  /\ planned \in WithSources
  /\ fingerprint \in {None, ModuleInputs(source, KspRead)}
  /\ inputs' = fingerprint
  /\ pc' = IF fingerprint # None /\ UpToDate(state, output, fingerprint)
             THEN "resources" ELSE "forget"
  /\ UNCHANGED <<sourceVars, planned, kspInputs, reading, diskVars, historyVars>>

Forget ==
  /\ pc = "forget"
  /\ state' = Absent
  /\ pc' = "clear"
  /\ UNCHANGED <<sourceVars, runVars, kspOut, kspState, output, resOut, historyVars>>

ClearRemove ==
  /\ pc = "clear"
  /\ output' = Absent
  /\ pc' = "create"
  /\ UNCHANGED <<sourceVars, runVars, kspOut, kspState, state, resOut, historyVars>>

ClearCreate ==
  /\ pc = "create"
  /\ output' = Empty
  /\ pc' = "compile"
  /\ UNCHANGED <<sourceVars, runVars, kspOut, kspState, state, resOut, historyVars>>

\* krusty starts, and reads what there is now.
CompileStart ==
  /\ pc = "compile"
  /\ reading' = ModuleInputs(source, KspRead)
  /\ output' = Partial
  /\ pc' = "compiling"
  /\ UNCHANGED <<sourceVars, planned, kspInputs, inputs, kspOut, kspState, state,
                 resOut, historyVars>>

CompileSucceed ==
  /\ pc = "compiling"
  /\ reading[2] \in WithSources
  /\ output' = Classes(reading)
  /\ pc' = IF inputs = None THEN "resources" ELSE "record"
  /\ UNCHANGED <<sourceVars, runVars, kspOut, kspState, state, resOut, historyVars>>

\* Mutant: krusty's exit status is not looked at.
CompileFailUnnoticed ==
  /\ pc = "compiling"
  /\ pc' = IF inputs = None THEN "resources" ELSE "record"
  /\ UNCHANGED <<sourceVars, runVars, diskVars, historyVars>>

\* krusty exits with a failure, whatever it has written so far.
CompileFail ==
  /\ pc = "compiling"
  /\ pc' = "idle"
  /\ result' = "failed"
  /\ settled' = FALSE
  /\ UNCHANGED <<sourceVars, runVars, diskVars, disturbed>>

\* record: the state file is opened (and so emptied), then written.
RecordOpen ==
  /\ pc = "record"
  /\ state' = Torn
  /\ pc' = "recording"
  /\ UNCHANGED <<sourceVars, runVars, kspOut, kspState, output, resOut, historyVars>>

\* Mutant: the inputs are fingerprinted again when the compilation is recorded.
RecordWriteLate ==
  /\ pc = "recording"
  /\ state' = Record(ModuleInputs(source, KspRead), output)
  /\ pc' = "resources"
  /\ UNCHANGED <<sourceVars, runVars, kspOut, kspState, output, resOut, historyVars>>

\* What is recorded are the inputs as they were before the compilation.
RecordWrite ==
  /\ pc = "recording"
  /\ state' = Record(inputs, output)
  /\ pc' = "resources"
  /\ UNCHANGED <<sourceVars, runVars, kspOut, kspState, output, resOut, historyVars>>

-----------------------------------------------------------------------------
(* run_step for a module without Kotlin sources.                           *)

NothingToCompileForget ==
  /\ pc = "module"
  /\ planned \notin WithSources
  /\ state' = Absent
  /\ pc' = "dropOutput"
  /\ UNCHANGED <<sourceVars, runVars, kspOut, kspState, output, resOut, historyVars>>

NothingToCompileRemove ==
  /\ pc = "dropOutput"
  /\ output' = Absent
  /\ pc' = "resources"
  /\ UNCHANGED <<sourceVars, runVars, kspOut, kspState, state, resOut, historyVars>>

-----------------------------------------------------------------------------
(* copy_resources, on every run that gets this far.                        *)

Succeed ==
  /\ pc' = "idle"
  /\ result' = "ok"
  /\ settled' = (~disturbed /\ (planned \in WithSources => inputs # None))

ResourcesRemove ==
  /\ pc = "resources"
  /\ planned \notin WithResources \cup WithKsp
  /\ resOut' = Absent
  /\ Succeed
  /\ UNCHANGED <<sourceVars, runVars, kspOut, kspState, output, state, disturbed>>

ResourcesClear ==
  /\ pc = "resources"
  /\ planned \in WithResources \cup WithKsp
  /\ resOut' = Empty
  /\ pc' = "copy"
  /\ UNCHANGED <<sourceVars, runVars, kspOut, kspState, output, state, historyVars>>

ResourcesCopy ==
  /\ pc = "copy"
  /\ planned \in WithResources => source \in WithResources
  /\ resOut' = Copied(ModuleInputs(IF planned \in WithResources THEN source ELSE planned,
                                   KspRead))
  /\ Succeed
  /\ UNCHANGED <<sourceVars, runVars, kspOut, kspState, output, state, disturbed>>

-----------------------------------------------------------------------------
(* The world.                                                              *)

\* The run is killed, or an I/O call fails: the disk stays as it is.
Abort ==
  /\ pc # "idle"
  /\ pc' = "idle"
  /\ result' = "failed"
  /\ settled' = FALSE
  /\ UNCHANGED <<sourceVars, runVars, diskVars, disturbed>>

Edit(v) ==
  /\ edits < MaxEdits /\ v # source
  /\ edits' = edits + 1
  /\ source' = v
  /\ raced' = (raced \/ pc # "idle")
  /\ restored' = (restored \/ v < source)
  /\ disturbed' = TRUE
  /\ settled' = FALSE
  /\ UNCHANGED <<pc, runVars, diskVars, result>>

\* Between runs somebody removes, changes or restores an output.
TamperOutput(contents) ==
  /\ pc = "idle"
  /\ output' = contents
  /\ disturbed' = TRUE
  /\ settled' = FALSE
  /\ UNCHANGED <<sourceVars, pc, runVars, kspOut, kspState, state, resOut, result>>

TamperKsp(contents) ==
  /\ pc = "idle"
  /\ kspOut' = contents
  /\ disturbed' = TRUE
  /\ settled' = FALSE
  /\ UNCHANGED <<sourceVars, pc, runVars, kspState, output, state, resOut, result>>

Ksp == \/ KspCheck \/ KspForget \/ KspClear \/ KspStart \/ KspSucceed
       \/ KspRecordOpen \/ KspRecordWrite

Compile == \/ \E fingerprint \in {None, ModuleInputs(source, KspRead)} : Fingerprint(fingerprint)
           \/ Forget \/ ClearRemove \/ ClearCreate \/ CompileStart
           \/ CompileSucceed \/ CompileFail \/ RecordOpen \/ RecordWrite
           \/ NothingToCompileForget \/ NothingToCompileRemove

Resources == ResourcesRemove \/ ResourcesClear \/ ResourcesCopy

World == \/ Abort
         \/ \E v \in Versions : Edit(v)
         \/ \E contents \in {Absent, Tampered} \cup {CleanOutput(v) : v \in Versions} :
              TamperOutput(contents)
         \/ \E contents \in {Absent, Tampered} : TamperKsp(contents)

Next == Plan \/ Ksp \/ Compile \/ Resources \/ World

Spec == Init /\ [][Next]_vars

-----------------------------------------------------------------------------
(* Properties.                                                             *)

IsState(file, fingerprints, contents) ==
  \/ file \in {Absent, Torn}
  \/ /\ file = Record(file[2], file[3])
     /\ file[2] \in fingerprints
     /\ file[3] \in contents

TypeOK ==
  /\ source \in Versions /\ edits \in 0 .. MaxEdits
  /\ raced \in BOOLEAN /\ restored \in BOOLEAN
  /\ pc \in {"idle", "ksp", "kspForget", "kspClear", "kspRun", "kspRunning",
            "kspRecord", "kspRecording", "module", "forget", "clear", "create",
            "compile", "compiling", "record", "recording", "dropOutput",
            "resources", "copy"}
  /\ planned \in Versions
  /\ kspInputs \in {None} \cup {KspInputs(v) : v \in Versions}
  /\ inputs \in {None} \cup Read
  /\ reading \in {None} \cup Read \cup {KspInputs(v) : v \in Versions}
  /\ kspOut \in KspContents
  /\ IsState(kspState, {KspInputs(v) : v \in Versions}, KspContents)
  /\ output \in OutputContents
  /\ IsState(state, Read, OutputContents)
  /\ resOut \in {Absent, Empty} \cup {Copied(r) : r \in Read}
  /\ result \in {"none", "ok", "failed"}
  /\ disturbed \in BOOLEAN
  /\ settled \in BOOLEAN

\* After a run that reported success and during which nothing was edited, the
\* outputs are exactly those of a clean build, whatever earlier runs were
\* interrupted, failed, or raced an edit, and whatever was done to the outputs.
SuccessMatchesSources ==
  (pc = "idle" /\ result = "ok" /\ ~disturbed) =>
    /\ output = CleanOutput(source)
    /\ resOut = CleanResources(source)

\* The same, unless an edit raced a run and an edit was undone: an edit that
\* races a run is harmless as long as no edit is undone, and undoing edits as
\* long as none raced a run.
SuccessUnlessRestored == ~(raced /\ restored) => SuccessMatchesSources

\* A state file never vouches for an output that a compilation did not finish,
\* at any instant at which a run may be interrupted.
RecordedIsComplete ==
  /\ \A f \in Read : state = Record(f, output) => \E r \in Read : output = Classes(r)
  /\ \A v \in Versions :
       kspState = Record(KspInputs(v), kspOut) => \E w \in Versions : kspOut = Generated(w)

\* Nothing is compiled again when nothing changed since a run that succeeded
\* undisturbed: neither KSP nor krusty runs (unless krusty takes no
\* fingerprint).
UnchangedIsSkipped ==
  settled => /\ pc # "kspRunning"
             /\ pc = "compiling" => inputs = None
=============================================================================
