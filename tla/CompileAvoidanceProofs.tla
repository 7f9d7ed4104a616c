----------------------- MODULE CompileAvoidanceProofs -----------------------
(***************************************************************************)
(* Proofs about module CompileAvoidance, for any set of versions of the    *)
(* project and any number of edits, interruptions and runs.                *)
(***************************************************************************)
EXTENDS CompileAvoidance, TLAPS

InKsp == {"kspForget", "kspClear", "kspRun", "kspRunning", "kspRecord", "kspRecording"}
InCompile == {"forget", "clear", "create", "compile", "compiling", "record", "recording"}
AfterKsp == InCompile \cup {"module", "dropOutput", "resources", "copy"}

-----------------------------------------------------------------------------
(* The constructors are injective and their values distinct.               *)

\* Contents of different kinds differ, and equal contents have equal parts.
LEMMA Tags ==
  /\ \A a, b : Record(a, b) # Absent /\ Record(a, b) # Torn
  /\ \A a, b, c, d : Record(a, b) = Record(c, d) => a = c /\ b = d
  /\ \A a, b, c, d : ModuleInputs(a, b) = ModuleInputs(c, d) => a = c /\ b = d
  /\ \A a, b : ModuleInputs(a, b) # None /\ ModuleInputs(a, b)[2] = a
  /\ \A a, b : KspInputs(a) = KspInputs(b) => a = b
  /\ \A a : KspInputs(a)[2] = a
  /\ \A a, b : Classes(a) = Classes(b) => a = b
  /\ \A a : Classes(a) # Absent
  /\ \A a, b : Generated(a) = Generated(b) => a = b
  /\ \A a : Generated(a) # Absent
BY DEF Record, Absent, Torn, ModuleInputs, None, KspInputs, Classes, Generated

-----------------------------------------------------------------------------
(* What a state file vouches for, and when it was true.                    *)

\* The version w was on disk no earlier than v, and is the same unless a run was
\* raced by an edit.
Later(v, w) == (raced \/ v = w) /\ (restored \/ v <= w)

\* KSP's state vouches for generated contents, and the version they were
\* generated from is at least as late as the one it names.
KspVouched ==
  \/ kspState \in {Absent, Torn}
  \/ \E v, w \in Versions : /\ kspState = Record(KspInputs(v), Generated(w))
                            /\ Later(v, w) /\ (restored \/ w <= source)

\* So does the state of the compilation; both its parts name the same generated
\* contents, which no edit changes.
Vouched ==
  \/ state \in {Absent, Torn}
  \/ \E v, w \in Versions, k \in KspContents :
       /\ state = Record(ModuleInputs(v, k), Classes(ModuleInputs(w, k)))
       /\ Later(v, w) /\ (restored \/ w <= source)

\* What this run of KSP took the fingerprint of, read and generated, in the
\* order in which it did.
KspRunInOrder ==
  pc \in InKsp =>
    \E v \in Versions :
      /\ kspInputs = KspInputs(v)
      /\ Later(v, source)
      /\ pc = "kspRunning" =>
           \E w \in Versions : reading = KspInputs(w) /\ Later(v, w) /\ Later(w, source)
      /\ pc \in {"kspRecord", "kspRecording"} =>
           \E w \in Versions : kspOut = Generated(w) /\ Later(v, w) /\ Later(w, source)

\* The same of the compilation.
RunInOrder ==
  /\ pc \in InCompile /\ inputs # None =>
       \E v \in Versions :
         /\ inputs = ModuleInputs(v, KspRead)
         /\ Later(v, source)
         /\ pc = "compiling" =>
              \E w \in Versions : reading = ModuleInputs(w, KspRead) /\ Later(v, w) /\ Later(w, source)
         /\ pc \in {"record", "recording"} =>
              \E w \in Versions : output = Classes(ModuleInputs(w, KspRead)) /\ Later(v, w) /\ Later(w, source)
  /\ pc \in {"record", "recording"} => inputs # None
  /\ pc = "compiling" => \E w \in Versions : reading = ModuleInputs(w, KspRead)

Typed ==
  /\ source \in Versions /\ planned \in Versions
  /\ kspOut \in KspContents
  /\ raced \in BOOLEAN /\ restored \in BOOLEAN /\ disturbed \in BOOLEAN /\ settled \in BOOLEAN

\* The plan decided which way this run goes.
Branch ==
  /\ pc \in InKsp \cup {"ksp"} => planned \in WithKsp
  /\ pc \in InCompile => planned \in WithSources
  /\ pc = "dropOutput" => planned \notin WithSources
  /\ pc = "copy" => planned \in WithResources \cup WithKsp

OrderInv == Typed /\ Branch /\ KspVouched /\ Vouched /\ KspRunInOrder /\ RunInOrder

-----------------------------------------------------------------------------
(* A run that nothing disturbs.                                            *)

KspGood == /\ kspOut # Absent
           /\ kspState = Record(KspInputs(source), kspOut)
ModuleGood == /\ output # Absent
              /\ state = Record(ModuleInputs(source, KspRead), output)

\* Up to where it is, the run has brought the disk to where the next one would
\* leave it alone.
Recorded ==
  pc # "idle" /\ ~disturbed =>
    /\ planned = source
    /\ pc \in InKsp => kspInputs = KspInputs(source)
    /\ pc \in AfterKsp /\ planned \in WithKsp => KspGood
    /\ pc \in InCompile => inputs \in {None, ModuleInputs(source, KspRead)}
    /\ pc \in {"resources", "copy"} /\ planned \in WithSources /\ inputs # None => ModuleGood

\* Where a settled project may be: the next run checks, and finds all as it was.
SettledInv ==
  settled =>
    /\ ~disturbed
    /\ pc \notin InKsp \cup {"record", "recording"}
    /\ pc \in InCompile => inputs = None
    /\ planned = source
    /\ source \in WithKsp => KspGood
    /\ source \in WithSources =>
         \/ ModuleGood
         \/ pc \in InCompile \cup {"resources", "copy"} /\ inputs = None

\* Up to where it is, the run has left what a clean build leaves.
Cleaned ==
  ~disturbed /\ ~(raced /\ restored) =>
    /\ pc = "kspRunning" => reading = KspInputs(source)
    /\ pc \in {"kspRecord", "kspRecording"} => kspOut = Generated(source)
    /\ pc \in AfterKsp /\ planned \in WithKsp => kspOut = Generated(source)
    /\ pc = "compiling" => reading = ModuleInputs(source, KspRead)
    /\ pc \in {"record", "recording", "resources", "copy"} => output = CleanOutput(source)
    /\ pc = "idle" /\ result = "ok" => output = CleanOutput(source) /\ resOut = CleanResources(source)

RunInv == Recorded /\ SettledInv /\ Cleaned

\* Nothing is on disk yet and no run has begun.
LEMMA OrderInit == Init => OrderInv
BY Tags DEF Init, OrderInv, Typed, KspVouched, Vouched, KspRunInOrder, RunInOrder, Branch,
   KspContents, InKsp, InCompile

\* An edit makes no version earlier, and one that races a run is known as such.
LEMMA EditLater ==
  ASSUME Typed, NEW u \in Versions, Edit(u)
  PROVE  /\ \A v, w \in Versions : Later(v, w) => Later(v, w)'
         /\ \A w \in Versions : restored \/ w <= source => restored' \/ w <= u
         /\ pc # "idle" => \A w \in Versions : Later(w, source) => Later(w, u)'
<1>1. raced' <=> (raced \/ pc # "idle")
  BY Zenon DEF Edit
<1>2. restored' <=> (restored \/ u < source)
  BY Zenon DEF Edit
<1>3. \A v, w \in Versions : Later(v, w) => Later(v, w)'
  BY <1>1, <1>2 DEF Later
<1>4. \A w \in Versions : restored \/ w <= source => restored' \/ w <= u
  BY <1>2, ProjectAssumption DEF ProjectAssumption, Typed
<1>5. pc # "idle" => \A w \in Versions : Later(w, source) => Later(w, u)'
  BY <1>1, <1>2, <1>4 DEF Later
<1> QED
  BY <1>3, <1>4, <1>5

\* Every step keeps the versions and the contents well typed.
LEMMA TypedStep ==
  ASSUME Typed, KspRunInOrder, [Next]_vars
  PROVE  Typed'
<1> USE DEF Typed, KspContents, sourceVars, runVars, diskVars, historyVars, Succeed
<1>1. CASE KspClear
  BY <1>1 DEF KspClear
<1>2. CASE KspStart
  BY <1>2 DEF KspStart
<1>3. CASE KspSucceed
  BY <1>3, Tags DEF KspSucceed, KspRunInOrder, InKsp
<1>4. ASSUME NEW u \in Versions, Edit(u) PROVE Typed'
  BY <1>4 DEF Edit
<1>5. ASSUME NEW c \in {Absent, Tampered}, TamperKsp(c) PROVE Typed'
  BY <1>5 DEF TamperKsp
<1>6. CASE \/ Plan \/ KspCheck \/ KspForget \/ KspRecordOpen \/ KspRecordWrite
           \/ Forget \/ ClearRemove \/ ClearCreate \/ CompileStart \/ CompileSucceed
           \/ CompileFail \/ RecordOpen \/ RecordWrite \/ NothingToCompileForget
           \/ NothingToCompileRemove \/ ResourcesRemove \/ ResourcesClear
           \/ ResourcesCopy \/ Abort \/ UNCHANGED vars
           \/ \E fp \in {None, ModuleInputs(source, KspRead)} : Fingerprint(fp)
           \/ \E c \in {Absent, Tampered} \cup {CleanOutput(v) : v \in Versions} : TamperOutput(c)
  BY <1>6
  DEF Plan, KspCheck, KspForget, KspRecordOpen, KspRecordWrite, Forget, ClearRemove,
      ClearCreate, CompileStart, CompileSucceed, CompileFail, RecordOpen,
      RecordWrite, NothingToCompileForget, NothingToCompileRemove, ResourcesRemove,
      ResourcesClear, ResourcesCopy, Abort, Fingerprint, TamperOutput, vars
<1> QED
  BY <1>1, <1>2, <1>3, <1>4, <1>5, <1>6
  DEF Next, Ksp, Compile, Resources, World

\* Every step stays on the way the plan decided.
LEMMA BranchStep ==
  ASSUME Branch, [Next]_vars
  PROVE  Branch'
<1> USE DEF Branch, InKsp, InCompile, sourceVars, runVars, diskVars, historyVars
<1>1. CASE Plan
  BY <1>1 DEF Plan
<1>2. CASE KspCheck
  BY <1>2 DEF KspCheck
<1>3. ASSUME NEW fp \in {None, ModuleInputs(source, KspRead)}, Fingerprint(fp) PROVE Branch'
  BY <1>3 DEF Fingerprint
<1>4. ASSUME NEW u \in Versions, Edit(u) PROVE Branch'
  BY <1>4 DEF Edit
<1>5. CASE \/ KspForget \/ KspClear \/ KspStart \/ KspSucceed \/ KspRecordOpen
           \/ KspRecordWrite \/ Forget \/ ClearRemove \/ ClearCreate \/ CompileStart
           \/ CompileSucceed \/ CompileFail \/ RecordOpen \/ RecordWrite
           \/ NothingToCompileForget \/ NothingToCompileRemove \/ ResourcesRemove
           \/ ResourcesClear \/ ResourcesCopy \/ Abort \/ UNCHANGED vars
           \/ \E c \in {Absent, Tampered} \cup {CleanOutput(v) : v \in Versions} : TamperOutput(c)
           \/ \E c \in {Absent, Tampered} : TamperKsp(c)
  BY <1>5
  DEF KspForget, KspClear, KspStart, KspSucceed, KspRecordOpen, KspRecordWrite,
      Forget, ClearRemove, ClearCreate, CompileStart, CompileSucceed, CompileFail,
      RecordOpen, RecordWrite, NothingToCompileForget, NothingToCompileRemove,
      ResourcesRemove, ResourcesClear, ResourcesCopy, Abort, TamperOutput,
      TamperKsp, vars, Succeed
<1> QED
  BY <1>1, <1>2, <1>3, <1>4, <1>5
  DEF Next, Ksp, Compile, Resources, World

\* Every step keeps what KSP's state vouches for in order.
LEMMA KspVouchedStep ==
  ASSUME Typed, KspVouched, KspRunInOrder, [Next]_vars
  PROVE  KspVouched'
<1>a. ASSUME UNCHANGED <<kspState, sourceVars>> PROVE KspVouched'
  BY <1>a DEF KspVouched, Later, sourceVars
<1> USE ProjectAssumption DEF ProjectAssumption, Typed, sourceVars, runVars, diskVars, historyVars
<1>1. CASE KspForget
  BY <1>1 DEF KspForget, KspVouched
<1>2. CASE KspRecordOpen
  BY <1>2 DEF KspRecordOpen, KspVouched
<1>3. CASE KspRecordWrite
  BY <1>3 DEF KspRecordWrite, KspVouched, KspRunInOrder, InKsp, Later
<1>4. ASSUME NEW u \in Versions, Edit(u) PROVE KspVouched'
  BY <1>4, EditLater DEF Edit, KspVouched
<1>5. CASE \/ Plan \/ KspCheck \/ KspClear \/ KspStart \/ KspSucceed \/ Forget
           \/ ClearRemove \/ ClearCreate \/ CompileStart \/ CompileSucceed
           \/ CompileFail \/ RecordOpen \/ RecordWrite \/ NothingToCompileForget
           \/ NothingToCompileRemove \/ ResourcesRemove \/ ResourcesClear
           \/ ResourcesCopy \/ Abort \/ UNCHANGED vars
           \/ \E fp \in {None, ModuleInputs(source, KspRead)} : Fingerprint(fp)
           \/ \E c \in {Absent, Tampered} \cup {CleanOutput(v) : v \in Versions} : TamperOutput(c)
           \/ \E c \in {Absent, Tampered} : TamperKsp(c)
  BY <1>5, <1>a
  DEF Plan, KspCheck, KspClear, KspStart, KspSucceed, Forget, ClearRemove,
      ClearCreate, CompileStart, CompileSucceed, CompileFail, RecordOpen,
      RecordWrite, NothingToCompileForget, NothingToCompileRemove, ResourcesRemove,
      ResourcesClear, ResourcesCopy, Abort, Fingerprint, TamperOutput, TamperKsp,
      vars, Succeed
<1> QED
  BY <1>1, <1>2, <1>3, <1>4, <1>5
  DEF Next, Ksp, Compile, Resources, World

\* Every step keeps what the state of the compilation vouches for in order.
LEMMA VouchedStep ==
  ASSUME Typed, Vouched, RunInOrder, [Next]_vars
  PROVE  Vouched'
<1>a. ASSUME UNCHANGED <<state, sourceVars>> PROVE Vouched'
  BY <1>a DEF Vouched, Later, sourceVars
<1>b. KspRead \in KspContents
  BY DEF Typed, KspRead, KspContents
<1> USE ProjectAssumption DEF ProjectAssumption, Typed, sourceVars, runVars, diskVars, historyVars
<1>1. CASE Forget
  BY <1>1 DEF Forget, Vouched
<1>2. CASE RecordOpen
  BY <1>2 DEF RecordOpen, Vouched
<1>3. CASE RecordWrite
  BY <1>3, <1>b DEF RecordWrite, Vouched, RunInOrder, InCompile, Later
<1>4. CASE NothingToCompileForget
  BY <1>4 DEF NothingToCompileForget, Vouched
<1>5. ASSUME NEW u \in Versions, Edit(u) PROVE Vouched'
  BY <1>5, EditLater DEF Edit, Vouched
<1>6. CASE \/ Plan \/ KspCheck \/ KspForget \/ KspClear \/ KspStart \/ KspSucceed
           \/ KspRecordOpen \/ KspRecordWrite \/ ClearRemove \/ ClearCreate
           \/ CompileStart \/ CompileSucceed \/ CompileFail \/ NothingToCompileRemove
           \/ ResourcesRemove \/ ResourcesClear \/ ResourcesCopy \/ Abort
           \/ UNCHANGED vars
           \/ \E fp \in {None, ModuleInputs(source, KspRead)} : Fingerprint(fp)
           \/ \E c \in {Absent, Tampered} \cup {CleanOutput(v) : v \in Versions} : TamperOutput(c)
           \/ \E c \in {Absent, Tampered} : TamperKsp(c)
  BY <1>6, <1>a
  DEF Plan, KspCheck, KspForget, KspClear, KspStart, KspSucceed, KspRecordOpen,
      KspRecordWrite, ClearRemove, ClearCreate, CompileStart, CompileSucceed,
      CompileFail, NothingToCompileRemove, ResourcesRemove, ResourcesClear,
      ResourcesCopy, Abort, Fingerprint, TamperOutput, TamperKsp, vars, Succeed
<1> QED
  BY <1>1, <1>2, <1>3, <1>4, <1>5, <1>6
  DEF Next, Ksp, Compile, Resources, World

\* Every step keeps KSP's fingerprint, reading and output in order.
LEMMA KspRunStep ==
  ASSUME Typed, KspRunInOrder, [Next]_vars
  PROVE  KspRunInOrder'
<1> USE Tags, ProjectAssumption
    DEF ProjectAssumption, Typed, KspRunInOrder, InKsp, Later, sourceVars, runVars, diskVars, historyVars
<1>1. CASE KspCheck
  BY <1>1 DEF KspCheck
<1>2. CASE KspForget
  BY <1>2 DEF KspForget
<1>3. CASE KspClear
  BY <1>3 DEF KspClear
<1>4. CASE KspStart
  BY <1>4 DEF KspStart
<1>5. CASE KspSucceed
  BY <1>5 DEF KspSucceed
<1>6. CASE KspRecordOpen
  BY <1>6 DEF KspRecordOpen
<1>7. ASSUME NEW u \in Versions, Edit(u) PROVE KspRunInOrder'
  <2>1. pc # "idle" => \A v \in Versions : Later(v, source) => Later(v, source)'
    BY <1>7, EditLater DEF Edit, Later
  <2> HIDE DEF Later
  <2> QED
    BY <1>7, <2>1, EditLater DEF Edit
<1>8. CASE \/ Plan \/ KspRecordWrite \/ Forget \/ ClearRemove \/ ClearCreate
           \/ CompileStart \/ CompileSucceed \/ CompileFail \/ RecordOpen
           \/ RecordWrite \/ NothingToCompileForget \/ NothingToCompileRemove
           \/ ResourcesRemove \/ ResourcesClear \/ ResourcesCopy \/ Abort
           \/ UNCHANGED vars
           \/ \E fp \in {None, ModuleInputs(source, KspRead)} : Fingerprint(fp)
           \/ \E c \in {Absent, Tampered} \cup {CleanOutput(v) : v \in Versions} : TamperOutput(c)
           \/ \E c \in {Absent, Tampered} : TamperKsp(c)
  BY <1>8
  DEF Plan, KspRecordWrite, Forget, ClearRemove, ClearCreate, CompileStart,
      CompileSucceed, CompileFail, RecordOpen, RecordWrite, NothingToCompileForget,
      NothingToCompileRemove, ResourcesRemove, ResourcesClear, ResourcesCopy, Abort,
      Fingerprint, TamperOutput, TamperKsp, vars, Succeed
<1> QED
  BY <1>1, <1>2, <1>3, <1>4, <1>5, <1>6, <1>7, <1>8
  DEF Next, Ksp, Compile, Resources, World

\* Every step keeps the compilation's fingerprint, reading and output in order.
LEMMA RunStep ==
  ASSUME Typed, RunInOrder, [Next]_vars
  PROVE  RunInOrder'
<1> USE Tags, ProjectAssumption
    DEF ProjectAssumption, Typed, RunInOrder, InCompile, Later, KspRead, sourceVars, runVars, diskVars,
        historyVars
<1>1. CASE Forget
  BY <1>1 DEF Forget
<1>2. CASE ClearRemove
  BY <1>2 DEF ClearRemove
<1>3. CASE ClearCreate
  BY <1>3 DEF ClearCreate
<1>4. CASE CompileStart
  BY <1>4 DEF CompileStart
<1>5. CASE CompileSucceed
  BY <1>5 DEF CompileSucceed
<1>6. CASE RecordOpen
  BY <1>6 DEF RecordOpen
<1>7. ASSUME NEW fp \in {None, ModuleInputs(source, KspRead)}, Fingerprint(fp) PROVE RunInOrder'
  BY <1>7 DEF Fingerprint
<1>8. ASSUME NEW u \in Versions, Edit(u) PROVE RunInOrder'
  <2>1. pc # "idle" => \A v \in Versions : Later(v, source) => Later(v, source)'
    BY <1>8, EditLater DEF Edit, Later
  <2> HIDE DEF Later
  <2> QED
    BY <1>8, <2>1, EditLater DEF Edit
<1>9. CASE \/ Plan \/ KspCheck \/ KspForget \/ KspClear \/ KspStart \/ KspSucceed
           \/ KspRecordOpen \/ KspRecordWrite \/ CompileFail \/ RecordWrite
           \/ NothingToCompileForget \/ NothingToCompileRemove \/ ResourcesRemove
           \/ ResourcesClear \/ ResourcesCopy \/ Abort \/ UNCHANGED vars
           \/ \E c \in {Absent, Tampered} \cup {CleanOutput(v) : v \in Versions} : TamperOutput(c)
           \/ \E c \in {Absent, Tampered} : TamperKsp(c)
  BY <1>9
  DEF Plan, KspCheck, KspForget, KspClear, KspStart, KspSucceed, KspRecordOpen,
      KspRecordWrite, CompileFail, RecordWrite, NothingToCompileForget,
      NothingToCompileRemove, ResourcesRemove, ResourcesClear, ResourcesCopy, Abort,
      TamperOutput, TamperKsp, vars, Succeed
<1> QED
  BY <1>1, <1>2, <1>3, <1>4, <1>5, <1>6, <1>7, <1>8, <1>9
  DEF Next, Ksp, Compile, Resources, World

\* The order of fingerprints, readings and records holds in every behaviour.
LEMMA OrderStep == OrderInv /\ [Next]_vars => OrderInv'
BY TypedStep, BranchStep, KspVouchedStep, VouchedStep, KspRunStep, RunStep DEF OrderInv

\* No run has begun.
LEMMA RunInit == Init => RunInv
BY DEF Init, RunInv, Recorded, SettledInv, Cleaned, InKsp, AfterKsp, InCompile

\* Every step of an undisturbed run leaves the disk as the next run wants it.
LEMMA RecordedStep ==
  ASSUME Branch, OrderInv, Recorded, [Next]_vars
  PROVE  Recorded'
<1> USE Tags
    DEF Typed, Branch, Recorded, InKsp, InCompile, AfterKsp, KspGood, ModuleGood, KspRead,
        sourceVars, runVars, diskVars, historyVars
<1>1. CASE Plan
  BY <1>1 DEF Plan
<1>2. CASE KspCheck
  BY <1>2 DEF KspCheck, UpToDate
<1>3. CASE KspRecordWrite
  BY <1>3 DEF KspRecordWrite, OrderInv, KspRunInOrder
<1>4. CASE CompileSucceed
  BY <1>4 DEF CompileSucceed
<1>5. CASE RecordWrite
  BY <1>5 DEF RecordWrite, OrderInv, RunInOrder
<1>6. CASE NothingToCompileForget
  BY <1>6 DEF NothingToCompileForget
<1>7. CASE NothingToCompileRemove
  BY <1>7 DEF NothingToCompileRemove
<1>8. ASSUME NEW fp \in {None, ModuleInputs(source, KspRead)}, Fingerprint(fp) PROVE Recorded'
  BY <1>8 DEF Fingerprint, UpToDate
<1>9. ASSUME NEW u \in Versions, Edit(u) PROVE Recorded'
  BY <1>9 DEF Edit
<1>10. CASE \/ KspForget \/ KspClear \/ KspStart \/ KspSucceed \/ KspRecordOpen
            \/ Forget \/ ClearRemove \/ ClearCreate \/ CompileStart \/ CompileFail
            \/ RecordOpen \/ ResourcesRemove \/ ResourcesClear \/ ResourcesCopy
            \/ Abort \/ UNCHANGED vars
            \/ \E c \in {Absent, Tampered} \cup {CleanOutput(v) : v \in Versions} : TamperOutput(c)
            \/ \E c \in {Absent, Tampered} : TamperKsp(c)
  BY <1>10
  DEF KspForget, KspClear, KspStart, KspSucceed, KspRecordOpen, Forget, ClearRemove,
      ClearCreate, CompileStart, CompileFail, RecordOpen, ResourcesRemove,
      ResourcesClear, ResourcesCopy, Abort, TamperOutput, TamperKsp, vars, Succeed
<1> QED
  BY <1>1, <1>2, <1>3, <1>4, <1>5, <1>6, <1>7, <1>8, <1>9, <1>10
  DEF Next, Ksp, Compile, Resources, World

\* Every step of a settled project finds all as it was.
LEMMA SettledStep ==
  ASSUME Branch, OrderInv, Recorded, SettledInv, [Next]_vars
  PROVE  SettledInv'
<1> USE Tags
    DEF Typed, Branch, SettledInv, InKsp, InCompile, AfterKsp, KspGood, ModuleGood, KspRead,
        sourceVars, runVars, diskVars, historyVars
<1>1. CASE Plan
  BY <1>1 DEF Plan
<1>2. CASE KspCheck
  BY <1>2 DEF KspCheck, UpToDate
<1>3. CASE CompileSucceed
  BY <1>3 DEF CompileSucceed
<1>4. CASE ResourcesRemove
  BY <1>4 DEF ResourcesRemove, Succeed, Recorded
<1>5. CASE ResourcesCopy
  BY <1>5 DEF ResourcesCopy, Succeed, Recorded
<1>6. ASSUME NEW fp \in {None, ModuleInputs(source, KspRead)}, Fingerprint(fp) PROVE SettledInv'
  BY <1>6 DEF Fingerprint, UpToDate
<1>7. ASSUME NEW u \in Versions, Edit(u) PROVE SettledInv'
  BY <1>7 DEF Edit
<1>8. CASE \/ KspForget \/ KspClear \/ KspStart \/ KspSucceed \/ KspRecordOpen
           \/ KspRecordWrite \/ Forget \/ ClearRemove \/ ClearCreate \/ CompileStart
           \/ CompileFail \/ RecordOpen \/ RecordWrite \/ NothingToCompileForget
           \/ NothingToCompileRemove \/ ResourcesClear \/ Abort \/ UNCHANGED vars
           \/ \E c \in {Absent, Tampered} \cup {CleanOutput(v) : v \in Versions} : TamperOutput(c)
           \/ \E c \in {Absent, Tampered} : TamperKsp(c)
  BY <1>8
  DEF KspForget, KspClear, KspStart, KspSucceed, KspRecordOpen, KspRecordWrite,
      Forget, ClearRemove, ClearCreate, CompileStart, CompileFail, RecordOpen,
      RecordWrite, NothingToCompileForget, NothingToCompileRemove, ResourcesClear,
      Abort, TamperOutput, TamperKsp, vars, Succeed
<1> QED
  BY <1>1, <1>2, <1>3, <1>4, <1>5, <1>6, <1>7, <1>8
  DEF Next, Ksp, Compile, Resources, World

\* Every step of an undisturbed run leaves what a clean build leaves.
LEMMA CleanedStep ==
  ASSUME OrderInv, Recorded, Cleaned, [Next]_vars
  PROVE  Cleaned'
<1>a. pc \in AfterKsp /\ ~disturbed /\ ~(raced /\ restored) => planned = source /\ KspRead = CleanKsp(source)
  BY DEF Recorded, Cleaned, KspRead, CleanKsp, AfterKsp, InCompile
<1>b. Typed /\ Branch /\ KspVouched /\ Vouched
  BY DEF OrderInv
<1> USE Tags, ProjectAssumption, <1>b
    DEF ProjectAssumption, Typed, Branch, Cleaned, InKsp, InCompile, AfterKsp, KspGood, ModuleGood, KspRead,
        sourceVars, runVars, diskVars, historyVars
<1>1. CASE Plan
  BY <1>1 DEF Plan
<1>2. CASE KspCheck
  BY <1>2 DEF KspCheck, UpToDate, KspVouched, Later, Recorded
<1>3. CASE KspStart
  BY <1>3 DEF KspStart
<1>4. CASE KspSucceed
  BY <1>4 DEF KspSucceed
<1>5. CASE CompileStart
  BY <1>5 DEF CompileStart
<1>6. CASE CompileSucceed
  BY <1>6, <1>a DEF CompileSucceed, CleanOutput
<1>7. CASE NothingToCompileRemove
  BY <1>7, <1>a DEF NothingToCompileRemove, CleanOutput
<1>8. CASE ResourcesRemove
  BY <1>8, <1>a DEF ResourcesRemove, Succeed, CleanResources
<1>9. CASE ResourcesCopy
  BY <1>9, <1>a DEF ResourcesCopy, Succeed, CleanResources
<1>10. ASSUME NEW fp \in {None, ModuleInputs(source, KspRead)}, Fingerprint(fp) PROVE Cleaned'
  BY <1>10, <1>a DEF Fingerprint, UpToDate, Vouched, Later, CleanOutput
<1>11. ASSUME NEW u \in Versions, Edit(u) PROVE Cleaned'
  BY <1>11 DEF Edit
<1>12. CASE \/ KspForget \/ KspClear \/ KspRecordOpen \/ KspRecordWrite \/ Forget
            \/ ClearRemove \/ ClearCreate \/ CompileFail \/ RecordOpen \/ RecordWrite
            \/ NothingToCompileForget \/ ResourcesClear \/ Abort \/ UNCHANGED vars
            \/ \E c \in {Absent, Tampered} \cup {CleanOutput(v) : v \in Versions} : TamperOutput(c)
            \/ \E c \in {Absent, Tampered} : TamperKsp(c)
  BY <1>12
  DEF KspForget, KspClear, KspRecordOpen, KspRecordWrite, Forget, ClearRemove,
      ClearCreate, CompileFail, RecordOpen, RecordWrite, NothingToCompileForget,
      ResourcesClear, Abort, TamperOutput, TamperKsp, vars, Succeed
<1> QED
  BY <1>1, <1>2, <1>3, <1>4, <1>5, <1>6, <1>7, <1>8, <1>9, <1>10, <1>11, <1>12
  DEF Next, Ksp, Compile, Resources, World

\* What an undisturbed run leaves holds in every behaviour.
LEMMA RunInvAlways == Spec => [](OrderInv /\ RunInv)
<1>1. OrderInv /\ RunInv /\ [Next]_vars => RunInv'
  BY RecordedStep, SettledStep, CleanedStep DEF RunInv, OrderInv
<1> QED
  BY <1>1, OrderInit, OrderStep, RunInit, PTL DEF Spec

-----------------------------------------------------------------------------
(* The theorems.                                                           *)

\* A state file never vouches for an output that no compilation finished, for
\* any versions and wherever runs are interrupted.
THEOREM ThmRecordedIsComplete == Spec => []RecordedIsComplete
<1>1. OrderInv => RecordedIsComplete
  <2> SUFFICES ASSUME OrderInv PROVE RecordedIsComplete
    OBVIOUS
  <2>1. ASSUME NEW f \in Read, state = Record(f, output) PROVE \E r \in Read : output = Classes(r)
    <3>1. PICK v \in Versions, w \in Versions, k \in KspContents :
            state = Record(ModuleInputs(v, k), Classes(ModuleInputs(w, k)))
      BY <2>1, Tags DEF OrderInv, Vouched
    <3>2. output = Classes(ModuleInputs(w, k))
      <4>1. Record(f, output) = Record(ModuleInputs(v, k), Classes(ModuleInputs(w, k)))
        BY <2>1, <3>1
      <4> QED
        BY ONLY <4>1 DEF Record
    <3> QED
      BY <3>2 DEF Read
  <2>2. ASSUME NEW v \in Versions, kspState = Record(KspInputs(v), kspOut)
        PROVE  \E w \in Versions : kspOut = Generated(w)
    BY <2>2, Tags DEF OrderInv, KspVouched
  <2> QED
    BY <2>1, <2>2 DEF RecordedIsComplete
<1> QED
  BY <1>1, RunInvAlways, PTL

\* After a run that succeeded undisturbed the outputs are those of a clean
\* build, unless some edit raced a run and some edit was undone.
THEOREM ThmSuccessUnlessRestored == Spec => []SuccessUnlessRestored
<1>1. RunInv => SuccessUnlessRestored
  BY DEF RunInv, Cleaned, SuccessUnlessRestored, SuccessMatchesSources
<1> QED
  BY <1>1, RunInvAlways, PTL

\* Nothing is compiled again when nothing changed since a run that succeeded
\* undisturbed.
THEOREM ThmUnchangedIsSkipped == Spec => []UnchangedIsSkipped
<1>1. RunInv => UnchangedIsSkipped
  BY DEF RunInv, SettledInv, UnchangedIsSkipped, InKsp, InCompile
<1> QED
  BY <1>1, RunInvAlways, PTL
=============================================================================
