# krusty: a verification project

krusty is a Kotlin compiler written in Rust. Around the compiler proper, the
repository holds a toolchain driver that compiles a multi-module project
(`crates/krusty-toolchain`), a build driver with a shared artifact store
(`crates/krusty-build`), a language server (`crates/krusty-lsp`), a command line
(`crates/krusty-cli`) and a host for compiler plugins
(`crates/krusty-plugin-host`). The compiler itself is a sequential translation,
tested against Kotlin's conformance suite. What tests hardly reach is around it:
threads, processes that share a disk, runs killed half way, caches that must
never be wrong, queues with limits. That is what these TLA+ modules model.

Paths below are relative to `src/`.

## Inventory

| Component | State | Operations | What is hard | Correct means |
|---|---|---|---|---|
| Scheduler: `krusty-toolchain/src/compile/schedule.rs`, `run.rs` | what each step waits for, ready set, running count, gate, result channel, output printed so far | start a step on a thread, receive its result, release dependents, print in order, return or unwind | threads racing a failure; panics; a receiver that could wait for ever | nothing is compiled against a failed dependency, the job bound holds, output comes in plan order, it always ends |
| Compile avoidance: `compile/avoidance.rs`, `run.rs` | per module: output, state file, KSP output and its state file, resources | fingerprint, forget, clear, compile, record; the same for KSP; copy resources | kills between any two file operations; edits while compiling | a successful run leaves what a clean build leaves; an unchanged module is skipped |
| Artifact store: `krusty-build/src/store.rs` | one directory per key, staging directories | get, put (verify, quarantine, stage, seal, rename), collect garbage | processes racing on one directory; kills; damaged files | no wrong hit, no half entry, damage that can be read heals, races fail no build |
| Module graph: `krusty-build/src/graph.rs` | the modules and their dependency lists | insert, build_order, transitive_dependents | counters against sets, cycles, repeats | topological and complete, or the exact cycle; the exact closure |
| Build driver: `krusty-build/src/driver.rs`, `compiler.rs`, `cache.rs` | outputs, store, ABI published by each module of this build | key, look up, compile, store, swap the output directory | keys computed from sources that change; crashes between two renames; partial failure | a build equals a clean one, compiles what it must and no more |
| Analysis engine: `krusty-lsp/src/server/engine.rs`, `engine/location_queue.rs` | the command queue, the project model, the index queues, a refresh timer | every command, timeout, stop | one thread for interactive and background work; a bounded channel back; models replaced under queued work | everything changed is indexed again; nothing of an old model is kept; it stops |
| LSP session: `server/implementation.rs`, `workspace_index.rs`, `status.rs` | documents, diagnostics and symbols per generation, classes in flight, parked requests, retry timer | client messages, engine events, timers | results that arrive after an edit or under another model | the last version is analyzed; markers are released |
| Output queue: `server/output_queue.rs` | waiting frames, channel, held bytes, writer thread | write, flush, is_idle, finish | a client that stops reading; a count two threads update; a grace period | a FIFO within its budget, a shutdown that ends |
| Response delivery: `server/response_delivery.rs`, `diagnostic_page.rs`, the loop and the coalescing in `implementation.rs` | the paged response, two queues of kept input, the input channel | take an event, coalesce changes, dispatch, write a page, see a cancellation | input that arrives while pages wait for a client; two buffers that must keep one order | no event lost or reordered, one end per response, no page before its turn |
| Worker lifecycle: `worker.rs`, `worker_lifecycle.rs` | per worker: child, in-flight reader, restart flag, analyses; one park slot of the process | request, configure, restart, release, park, quarantine, reclaim, drop | a child that outlives its kill, a reader that does not end, workers that share the slot, calls that fail | no handle lost, no second child, every call returns that is not blocked in a write |
| The child's side of the worker protocol, project probe, caches of the language server | child process, lock files | analyze, probe, store, collect | file locks against collection | planned |
| Command line, plugin host, Maven resolution, downloads | staging tree, framed session, version graph, budget | commit, request, resolve, download | partial failure, deadlines | planned |
| Compiler: lexer, parser, types, FIR, backends, metadata | trees | translation | sequential and very large | tested, not modelled |

How they interact. `krusty-toolchain` makes a plan, `schedule` runs its steps on
threads, and each step is what `CompileAvoidance` models. `krusty-build` orders
modules with the graph, and for each one the driver uses the store and runs the
compiler as a process. The two build systems share no state. In the language
server the client's messages reach the session; the session submits commands to
the engine's queue and receives events over a bounded channel; the engine asks
an analysis worker, a child process it restarts when it must; every message to
the client goes through the output queue, and a paged response waits there for
the client before its next page.

`PROJECT.json` lists every component with its status, and the hazards of the
code line by line with the properties that would notice them going wrong.

## Modules

| Module | Models | State and actions |
|---|---|---|
| `Schedule` | `schedule()`, `Gate`, `run()` | The calling thread (`Main...`) and one process per step thread (`Thread...`). The counter of dependencies is the set it counts. What a step does is a choice between success, failure and panic. |
| `CompileAvoidance` | `run_step`, `run_ksp`, `copy_resources`, `avoidance.rs` | One action per file-system effect; `Abort` between any two stands for a kill and for an I/O error. Contents of directories and files are tagged tuples that say what they were made from; SHA-256 is taken to be injective. |
| `ArtifactStore` | `store.rs` | Builders are processes that take one file-system step at a time; `rename` moves a directory; a collector deletes file by file, also in a directory renamed under it. One key: keys share nothing. |
| `ModuleGraph` | `graph.rs` | One step per loop iteration, in the order of the code's BTree iterations. |
| `BuildDriver` | `driver.rs`, `compiler.rs`, `cache.rs` | Builds in sequence on one project and one store, `Fault` and `Crash` at every step, edits at every moment. An output records the source version and the dependency ABIs it was compiled from. The store is the map that `ArtifactStore` shows it to be; an eviction also stands for damage. |
| `CommandQueue` | `CommandState`, `location_queue.rs` | A record and one operator per method; the code runs each method under one mutex. |
| `AnalysisEngine` | the engine's loop and the session's part in it | Extends `CommandQueue`. Session, engine and world interleave; a send blocks while the channel is full. A file's contents are its version. |
| `OutputQueue` | `output_queue.rs` | Session thread and writer thread interleave at every access to the channel, the count of held bytes and the error. |
| `FrameFifo` | the contract in `output_queue.rs`'s module comment | A queue with two actions, Put and Deliver. `OutputQueue` implements it: `Fifo == INSTANCE FrameFifo WITH waiting <- Waiting, delivered <- written`, where `Waiting` is the writer's frame, then the channel, then the pending frames. |
| `ResponseDelivery` | `run_async_loop`, `coalesce_document_notifications`, `response_delivery.rs`, `diagnostic_page.rs` | Extends `OutputQueue` and composes the session's loop with it: the loop is the only one that writes frames. Events are numbers and kinds, pages are counted. |
| `WorkerLifecycle` | `AnalysisWorker`, `WorkerProcess`, `worker_lifecycle.rs` | One thread per worker, children, reader threads, and the slot. Each body of `with_slot` is one step, as its mutex makes it. What a child does is a choice: answer, hang, crash, close a stream, outlive a kill. |

`MC*.tla` give the constants of each instance, `*Proofs.tla` hold the theorems,
`EngineInvariants.tla` the inductive invariants of the engine.
An operator whose comment begins with "Mutant:" is a plausible bug in the
definition that follows it; `PROJECT.json` says which property notices it. None
is part of any specification.

Abstractions worth knowing:

- `AnalysisEngine` has one open document, and one kind of request for
  Materialize and Dump. The channel of four events is one of one event, which
  blocks more often. An incomplete source set counts as an analysis: it is
  published as the document's diagnostics. `Exit` is shutdown and exit in one.
  The queue's coalescing of edits is modelled although the session, which keeps
  one analysis in flight, never makes use of it; `resubmit_pending` is left
  out, since it is set only where `analysis_dirty` is.
- `ResponseDelivery` leaves out the refresh of the project, which the loop also
  runs when it is due and which is to this loop one more source of frames, and
  the wait for the engine at shutdown. The input channel does not disconnect:
  the engine keeps a sender while the loop runs. The loop leaves by `?` when an
  advance fails, so that the queue is then shut down by its Drop.
- `failures` of `AnalysisEngine` is a history variable, which counts failures and
  remembers of which files the last index chunk gave no result; nothing but the
  bounds reads it. The files of an inconclusive chunk that still have results are
  any of it. In the code a pass that times out or is interrupted gives none;
  one that crashes is repeated on halves of the chunk, and a file that crashes
  the worker alone is given a diagnostic (index_chunk.rs).
- `WorkerLifecycle`: a deadline may pass at any moment. Analyses are counted up
  to `max_analyses`; a request is any operation. The content of answers is left
  out, and so is a panic of the reader thread. A write to the child's stdin (the
  launch configuration, worker.rs:672, and the three kinds of request, :813, :831
  and :837) has no deadline in the code, and the model assumes of none that it
  ends while the child lives. The server creates one worker (main.rs:751); that
  two contend for the slot is what the public `AnalysisWorker` allows.
- `BuildDriver` numbers modules in build order, which `ModuleGraph` shows to
  exist and to put dependencies first.
- `ArtifactStore`: a file or a MANIFEST that cannot be read is damage that stays.
  Writes fail only into a directory that was collected; other errors of writing
  (a full disk) are left out. `BuildDriver` has no entry that cannot be read: its
  builds fail by `Fault`, one at a time.
- `ModuleGraph` leaves out the path-overlap checks of `validate`.

## Runs

Passing runs:

| Run | Instance | What it shows |
|---|---|---|
| `schedule` | a diamond and an independent step, two jobs; any step fails or panics | `DependenciesSucceeded`, `NothingBeginsAfterFailure`: a failed step releases its dependents like a successful one, and only the gate keeps them back. `NoIdleJob`: the count kept by the receiver wastes no job. `PrintedInPlanOrder`, `ReturnIsComplete`, `Terminates`. |
| `avoidance` | five versions of a module (with and without sources, resources, KSP), two edits at any moment, any number of runs, aborts and tamperings | `SuccessUnlessRestored`: a run during which nobody edited leaves a clean build's outputs, unless an earlier edit raced a run and was undone. `RecordedIsComplete`: no instant at which a kill leaves a state file that vouches for an unfinished output. `UnchangedIsSkipped`. |
| `store` | two builds, two artifacts; one damage, one kill, one collection | `HitIsComplete`, `PublishedComplete`, `RacesAreHarmless` (only damage or a collection can make a build fail). `Heals`: the entry ends up complete for good, or it was damaged so that it cannot be read, and then it stays so (see below). The damage is a file or the MANIFEST missing, different, torn or unreadable. |
| `module_graph` | every graph on three modules with lists of up to three entries: cycles, self-dependencies, repeats, unknown ids | `DependenciesFirst`, `CycleIsExact` against the largest set each of whose members depends on a member, `DependentsExact` against the least closed set. |
| `driver` | a chain of three, the first with an exact ABI, and a module with Java sources; four versions, one broken, two with the same ABI; two edits, two mishaps | `OkUnlessRestored`: what a build reports as cached or compiled equals a clean build. `BuildsAllItCan`, `MinimalRebuild`, `StoreSound`. |
| `engine_settles` | two files in chunks of two, one edit, two writes, a watch report at its limit, one inconclusive chunk | `QueuesAgree`: the ownership map, the three deques and the progress numbers agree, so that no file is lost, queued twice or counted twice. `IndexConverges`: after the last write, symbols are those of the files on disk, and so are diagnostics, except of the files whose last chunk was inconclusive: the code keeps their earlier diagnostics and does not queue them again (workspace_index.rs:124, worker/deadline.rs:12). `EngineStops`. |
| `engine_models` | one file, one class, a new project model, a request, a document that is opened and then changed at any moment of its analysis, a failure of the probe, the worker or a chunk | `OneModel`, `MarkersExact`, `KeepsResults`; `Released`, `DocumentAnalyzed`. |
| `delivery` | a channel of one frame, a budget of three bytes, frames of one byte and one over the budget; an input channel and a buffer of one event each, three events of every kind, two pages | `ImplementsFifo` (the refinement), `HeldExact`, `OkIsDelivered`; `EventsKept`, `OneEnd`, `BackPressure`; `ShutdownEnds`, `Serves`. |
| `worker_lifecycle` | two workers that share the slot, one of them asked, two children each (used again when reaped), two classpaths, one analysis before a restart, one call that fails | `HandlesKept`, `OneChild`, `UsableUnlessMarked`. `Returns`: every call returns, unless a write to a live child blocks for good or a child cannot be killed. |

Why the bounds are enough. A race needs two parties and each run has them: two
jobs and two independent steps, two builds, a file that changes while its chunk
is queued and again while it runs, two workers at one slot. A stale value needs one edit to make it and
one to use it: two edits. `avoidance` also holds with three edits and `driver`
with three edits and one mishap (12 and 9 million states); those instances are
too slow to keep. Chunk sizes, fairness quotas (`BeforeLocation`, `BeforeSweep`)
and limits are one or two, so that every limit is met and passed: in `delivery`
two kept events fill the buffer and the channel, and the third meets the backlog
limit. What the client sends is bounded, so no run says that the quotas keep an
endless client from starving a location. `MaxFailures` bounds the failures of
the probe and the worker and `MaxMissed` those of index chunks; in
`engine_settles` only a chunk fails (with a probe or worker failure besides it
has 3.2 million states), in `engine_models` any of the three. `Numbers` has two members, so that a second child beside a live one could
exist. `MaxFrames` is above what the bounded events can make, so it cuts nothing
off. There is no
symmetry reduction: the runs check liveness, or break ties by order.

Deadlock is checked in every run; `Done`, `Finished` and `Stopped` are the
explicit ends of the systems that end.

The type invariants of `Schedule` and `ArtifactStore` are proved as they stand;
of the others, what the theorems need is part of their inductive invariants. The runs spend their time on the other properties.

## Fairness

- `Schedule`: the calling thread and each step thread are scheduled by the
  operating system, and the compiler that a step runs ends.
- `ArtifactStore`: a build that was not killed goes on. Nothing is assumed of
  the collector.
- `AnalysisEngine`: the engine's thread and the session's event loop run, timers
  fire, and the client reports a change of a file it was asked to watch, as the
  protocol demands. Nothing makes it edit, ask or exit. What enables the engine is
  written out (`EngineReady`): TLC is three times as fast as with ENABLED, to
  which it is equal in every state of `engine_settles`.
- `ResponseDelivery` (with `OutputQueue`): the session's loop runs, the writer
  thread takes a frame and counts it off, and the grace period passes. Nothing is
  assumed of the write itself: the client may never read again. `Serves` has the
  client's reading as its premise.
- `WorkerLifecycle`: the threads of the workers run, but not one that is in a
  write to a live child (`Writing`): nothing makes that end. A child that was
  killed ends some time, and so does the stdout of a child that has ended. A
  child need not read or answer, and one whose kill failed need not end.
  `Returns` has as its premise that the worker's writes do not block for good,
  and excepts a child whose kill failed; one worker's blocked write does not
  excuse the other.
- `CompileAvoidance`, `ModuleGraph` and `BuildDriver` state safety only.

## Where the code and its comments disagree

Three runs show a violation:

- `driver_restored_source` (`OkIsClean`). The key is computed from a digest of
  the sources, the compiler reads them again (driver.rs:284, compiler.rs:301). An
  edit in between stores the output of the edited text under the key of the old
  one; when the edit is undone, every build sharing the store takes it as a hit.
  cache.rs:3 says what that costs.
- `engine_watch_overflow` (`IndexConverges`). A report of more than
  MAX_PENDING_WATCHED_FILES files is turned into a refresh (engine.rs:487, :705),
  which does nothing when the build is unchanged, so closed files keep the
  diagnostics of their old text; docs/ARCHITECTURE.md:249 says that watched
  changes requeue their own file.
- `delivery_order` (`ChangesInOrder`). `coalesce_document_notifications` reads the
  channel (implementation.rs:3813) although older events may be waiting in
  `pending`, where they were kept during a paged response. Edits 2 and 3 are kept
  and edit 4 is in the channel: 2 is taken, 4 is coalesced to it, and 3 is
  dispatched last, as a stale version. docs/ARCHITECTURE.md:361 says that
  coalescing never crosses another document notification.

Seen while modelling, and not kept as runs:

- `put` takes a failed rename for a lost race only if the entry is still a
  directory afterwards (store.rs:211). If the entry in the way is damaged,
  another build may set it aside just then, and the build fails with "cache write
  failed"; store.rs:57 says that a damaged cache never leads to a failed build.
  `RacesAreHarmless` therefore excludes damage.
- A MANIFEST whose bytes are not UTF-8, or a file that exists and cannot be read,
  is an error of `get` (store.rs:110, :127) and so of `put` (:168): every build of
  the key fails (driver.rs:305) until the entry is collected or removed by hand.
  store.rs:57 says that a damaged cache never leads to a failed build, and :97
  that errors are reserved for a healthy store. `Heals` states the exception.
- No write to the worker's stdin has a deadline (worker.rs:672, :813, :831, :837).
  A child that hangs before it has read a request larger than the pipe blocks the
  engine's thread, and the deadlines of worker/deadline.rs never start.
- An inconclusive chunk is not queued again, so its files keep the diagnostics
  they had, also of an older text, until they change or the model does.
- docs/ARCHITECTURE.md:364 says that a worker is restarted after 30 seconds;
  worker/deadline.rs waits 30 minutes for an interactive analysis and two minutes
  for an index.
- `CompileAvoidance` has the same window as the driver: the fingerprint is taken
  at run.rs:116, before the compilation, and recorded after it; an edit that
  races the run and is then undone is skipped as unchanged. `SuccessUnlessRestored`
  states what is left.
- `gc_older_than` removes staging directories by age, also of a build that is
  still filling one (store.rs:253 against store.rs:240); `put` then fails. That is
  why `RacesAreHarmless` excludes collections.
- No Ready status follows a symbols or locate command (engine.rs:1161), although
  the comment at engine.rs:953 expects one after each command.
- `shutdown` tests its deadline before it pumps again (output_queue.rs:244), so a
  frame is dropped if the writer made room just before the deadline.
- The sweep of the workspace is raised at the end of an analysis only if nothing
  interactive waits (engine.rs:1050); if something does and no edit follows, the
  workspace stays unindexed. `IndexConverges` therefore speaks of models whose
  sweep was raised.

## Proofs

All are checked by TLAPS for every value of the constants, from the assumption
that the module of the component states about them. Every invariant and every
action property of the passing runs is proved.

| Theorem | Assumption | Argument |
|---|---|---|
| `ScheduleProofs!ThmTypeOK` | `PlanAssumption`: steps wait for earlier ones, `Jobs > 0` | step by step |
| `ThmAtMostJobs` | the same | `AtMostJobs` alone is not inductive: `running` is decremented by the receiver. `CountInv` says that `running` counts exactly the threads spawned and not received from; the working ones are among them. |
| `ThmDependenciesSucceeded` | the same | A step is released when its dependencies were received, failed or not. `GateInv` adds that whoever was released waits only for steps that were received, and that a received failure has closed the gate; a thread that begins saw it open. |
| `ThmNothingBeginsAfterFailure` | the same | An action property, from `GateInv`: the gate is closed before the result of a failed step is sent, and nothing opens it. |
| `ThmNoIdleJob`, `ThmPrintedInPlanOrder`, `ThmReturnIsComplete` | the same | `OrderInv`: what a step waits for is exactly its dependencies without a result; a step that waits for nothing is ready or spawned; what was handed on is increasing and complete up to `next`. That a run without a failure ran everything needs the least step that did not run: its dependencies have results, so it was ready. |
| `CompileAvoidanceProofs!ThmRecordedIsComplete` | `ProjectAssumption` | `OrderInv`: a state file vouches for an output that was made from what it names or from a later version; the fingerprint, the reading and the output of the current run are of versions in this order. |
| `ThmSuccessUnlessRestored`, `ThmUnchangedIsSkipped` | the same | `RunInv`, on top of it: a run that nothing disturbs has, up to each of its steps, the fingerprints and outputs of the one version there is; a settled project stays so until it is touched. |
| `ArtifactStoreProofs!ThmTypeOK` | `StoreAssumption` | step by step |
| `ThmHitIsComplete` | the same | `ReadSoFar`: what a reader has read of the entry up to its current file matched, whatever happened to the entry since. |
| `ThmPublishedComplete` | the same | `StagedSoFar`: while nothing was damaged or collected, a staging directory is right up to the file being written, and complete when it is renamed. |
| `ThmRacesAreHarmless` | the same | `EntryStays`: while nothing was damaged or collected, an entry once there stays, so that a put that lost the race finds it. |
| `ModuleGraphProofs!ThmDependenciesFirst`, `ThmCycleIsExact` | `GraphAssumption`: finitely many ids | `OrderingInv`: the counter of a module is the number of its dependencies not in the order, but for those of the visit under way; the ready queue has exactly the modules whose counter is zero, once. When it is empty, what remains is a set each of whose members depends on a member, and it contains every such set. |
| `ThmDependentsExact` | the same | `SearchInv`: all that was seen is behind the module asked for, and the dependents of whatever was seen are seen, are being visited or wait in the queue. |
| `BuildDriverProofs!ThmStoreSound` | `DriverAssumption`: dependencies come earlier, `Java` are modules | `BuildInv`: the ABIs published so far in this build are those of the outputs on disk (`Fresh`), the current key names them (`Keyed`), and an entry is what its key names or is of a version that is gone for good, unless one was brought back (`Stored`). |
| `ThmOkUnlessRestored` | the same | `CleanSoFar`: the outputs of the modules done so far are those of `Clean`, by which an unedited key is the clean build's. `CleanUnfolds` gives the recursive function `Clean` its equation. |
| `ThmBuildsAllItCan` | the same | `CompleteSoFar`: without faults, whatever a clean build produces is done so far. |
| `ThmMinimalRebuild` | the same | `MinimalSoFar`: the store has the last undisturbed build's outputs, and those of the current build so far; so what was compiled had another key. |
| `ResponseDeliveryProofs!QueueImplementsFifo` | `OutputAssumption` | `OutputQueue`'s `Spec => Fifo!Spec`. Accept is the FIFO's Put, Write its Deliver, and every hand-over (pending to channel, channel to writer) leaves `Waiting` as it is. `QueueInv` is needed for the last: the writer's hand counts as empty when it holds `NoFrame`, so frames that were made must differ from it and a writer that waits must hold none. |
| `ThmHeldExact` | the same | `HeldInv`: until the transport fails, `held` is the sum of the sizes of the frames that are pending, in the channel and in the writer's hand; the sum is within the budget even then. `Bytes` is a prefix sum; what it is of an appended or shortened sequence is shown by least counterexamples. |
| `ThmOkIsDelivered` | the same | `EndInv`: the channel is closed in time only when nothing is pending, and a writer that ended without an error found the channel closed and empty. |
| `SessionImplementsFifo`, `SessionKeepsQueue` | also `DeliveryAssumption` | Each step of the session's loop is a step of the queue or leaves its variables alone (`SessionStep`), so `DeliverySpec => Spec`. |
| `ThmEventsKept` | the same | `EventInv`: the batch, the kept events, the deferred ones and the channel each hold increasing numbers; the kept ones come before the deferred ones and those before the channel's (a batch may run ahead of what was kept before it, which is the finding above); no number that is kept was dropped, answered or given to the stream; and those dispatched, kept and dropped are together those that arrived. `LoopInv` says where in the loop which queue may be filled. |
| `ThmOneEnd` | the same | `OneEnd` is inductive given `EventInv` and `LoopInv`: the number of a pull is fresh, so that no end of another is taken for its own. |
| `ThmBackPressure` | the same | `PressureInv`: the load, the frames that wait and the one not flushed yet, is zero when `is_idle` says yes, falls with every other step of the queue, and is at most one while a stream that has sent something is active. |
| `AnalysisEngineProofs!QueuesAlwaysAgree` | `FilesAssumption`, `BoundsAssumption`, `EngineAssumption` | `QueueInv`: the deques hold no file twice, the neighborhood and the symbol deque hold exactly the files recorded there, the sweep at least those recorded for it (`Books`). One lemma per method of the queue. Two invariants around it are needed: `BeginInv`, that nothing is queued, sent or kept until the root is configured, and `SweepInv`, that a sweep is queued only in the generation it was raised in; without it, raising a second one would queue a stale copy twice. With `Shape` they are `Base`. |
| `MarkersAlwaysExact` | the same | `AnalyzeInv`, `LocateInv` and `NamesInv`, each of the queue, the engine and `Line`, the events not handled yet, in order. `Exactly` says that of what waits, what runs and what comes back there is one if the marker is set and none otherwise. A class is asked for only if it was named, and `NamesInv` has the names of a generation published once, before they are asked for: a second publication would forget markers. |
| `OneModelKept` | the same | `ResetInv`: the resets in transit announce rising generations, all later than the session's, the last one the queue's. `ResultInv`: a result of a later generation than the session's comes behind that generation's reset; results of one generation were found under one model, for the queue's generation the engine's, and agree with what is kept. `OneStored` is what remains of it in any state. |
| `ResultsKept` | the same | `VersionInv`: until a file is written, a conclusive result names a finding for each file it was asked for, so that `Merge` removes nothing; of an inconclusive result, a failed chunk's, it takes only the findings. With the invariants of the previous two it makes `Deep`, inductive relative to `Base`, with one lemma per action. |
| `WorkerLifecycleProofs!ThmHandlesKept`, `ThmOneChild` | none | `HandleInv`: a child that was not reaped is had by its worker or by the slot and never by both, the same of readers, and a worker whose child is in the slot has no other. One lemma per way to move a handle (`OwnReap`, `OwnPark...`, `ReclaimKeeps`), stated of any handles so that a release, which moves several, is their composition. `LaunchInv` bridges the two critical sections of a spawn: none of the worker's children can reach the slot in between. |
| `ThmUsableUnlessMarked` | none | `WorkerInv`: at each place of the thread, which handles the worker has, that it is marked while it is being replaced, and which classpath its child has. |

Where a proof by induction is wanted, it takes the least counterexample: the
lemma `LeastNat`, stated in each module that needs it, says that a nonempty set
of natural numbers has a least element. For the same reason the queue's
operators that walk a list (`Only`, `Compact`) are recursive functions on its
indices, whose equations can be proved, and not folds.

Model-checked only: all liveness (`Terminates`, `Heals`, `IndexConverges`,
`EngineStops`, `DocumentAnalyzed`, `Released`, `ShutdownEnds`, `Serves`,
`Returns`), since the prover does not do fairness.

## Plan

Done: the two build systems; of the language server the engine with its queue,
the output queue with its contract, the session's loop with paged responses, and
the worker's lifecycle; proofs of the safety properties of all of them, and of
the refinement of the FIFO.

Next modules, in this order:

1. `StagedOutput` (krusty-cli/src/staged_output.rs): staging and commit, with a
   failure in the middle.
2. Two toolchain processes on one project, and two drivers on one scratch
   directory: what holds without a lock.
3. The caches of the language server (deps_cache.rs): shared and exclusive file
   locks against collection.
4. An abstract store (a partial map that only ever answers right) implemented by
   `ArtifactStore`, which is what `BuildDriver` relies on.
5. Pure algorithms against references: Maven's version order and conflict waves,
   the LRU cache, line and position conversion, KSP rounds; the shared budget of
   the downloads.

Next theorem: the refinement of the abstract store.

## Not modelled

The components of the plan above are not modelled yet. Not planned: lexing,
parsing, type inference, lowering, code generation and binary formats, which are
sequential functions on large trees, far beyond a small instance, and tested by
the conformance suite; Gradle import, YAML and work requests, which are parsing
without state; editor queries, which read an immutable snapshot. The child's side
of the worker protocol is one request after the other; its outcomes are choices of
`WorkerLifecycle` and `AnalysisEngine`.
