----------------------------- MODULE CommandQueue -----------------------------
(***************************************************************************)
(* The queue between the language server's session and its analysis        *)
(* thread (crates/krusty-lsp/src/server/engine.rs, CommandState, and       *)
(* engine/location_queue.rs).  A queue is a record; every method of        *)
(* CommandState is an operator from a queue to a queue.  The Rust code     *)
(* runs each of them under one mutex.                                      *)
(*                                                                         *)
(* Commands of the session wait in pending (edits, requests, project       *)
(* changes) and in locations; work the engine raises for itself waits in   *)
(* chunks of files in neighborhood, symbols and sweep.                     *)
(***************************************************************************)
EXTENDS Integers, Sequences, FiniteSets, SequencesExt

CONSTANTS
  Files,          \* the source files of the workspace, a sequence in URI order
  IndexChunk,     \* MAX_INDEX_CHUNK_FILES
  SymbolChunk,    \* MAX_SYMBOL_INDEX_CHUNK_FILES
  BeforeLocation, \* INTERACTIVE_COMMANDS_BEFORE_LOCATION
  BeforeSweep,    \* SYMBOL_CHUNKS_BEFORE_SWEEP
  MaxWatched      \* MAX_PENDING_WATCHED_FILES

Uris == ToSet(Files)

ASSUME FilesAssumption == Files \in Seq(Uris) /\ IsInjective(Files)
ASSUME BoundsAssumption ==
  /\ {IndexChunk, SymbolChunk, BeforeLocation, BeforeSweep} \subseteq Nat \ {0}
  /\ MaxWatched \in Nat

Nowhere == "nowhere"            \* a URI that is in no index queue
Levels == {"neighborhood", "sweep"}

\* The elements of a sequence that are in S, in their order.
Only(s, S) ==
  LET kept[i \in 0 .. Len(s)] ==
        IF i = 0 THEN <<>>
        ELSE IF s[i] \in S THEN Append(kept[i - 1], s[i]) ELSE kept[i - 1]
  IN  kept[Len(s)]

\* The URIs of a set, in the order the code keeps them sorted in.
Sorted(S) == Only(Files, S)

\* A queue that has just been created.
EmptyQueue ==
  [ pending |-> <<>>, locations |-> <<>>, sinceLocation |-> 0,
    neighborhood |-> <<>>, sweep |-> <<>>, symbols |-> <<>>, sinceSweep |-> 0,
    symbolQueued |-> {}, queued |-> [u \in Uris |-> Nowhere],
    done |-> 0, total |-> 0, generation |-> 0, disconnected |-> FALSE ]

-------------------------------------------------------------------------------
(* Project changes: adjacent ones are merged, and one with too many files  *)
(* becomes a request to refresh the project.                               *)

Change(refresh, reanalyze, uris) ==
  [kind |-> "change", refresh |-> refresh, reanalyze |-> reanalyze, uris |-> uris]

MergeChange(a, b) ==
  LET refresh   == a.refresh \/ b.refresh
      reanalyze == a.reanalyze \/ b.reanalyze
  IN  IF reanalyze /\ a.uris = {} THEN Change(refresh, reanalyze, {})
      ELSE IF Cardinality(b.uris) > MaxWatched - Cardinality(a.uris)
           THEN Change(TRUE, TRUE, {})
           ELSE Change(refresh, reanalyze, a.uris \union b.uris)

\* Appends a command, merging a project change into one that is last.
Append1(cs, c) ==
  IF c.kind = "change" /\ cs # <<>> /\ Last(cs).kind = "change"
  THEN Append(Front(cs), MergeChange(Last(cs), c))
  ELSE Append(cs, c)

Compact(cs) ==
  LET merged[i \in 0 .. Len(cs)] ==
        IF i = 0 THEN <<>> ELSE Append1(merged[i - 1], cs[i])
  IN  merged[Len(cs)]

EnqueueChange(q, c) ==
  LET c1 == IF Cardinality(c.uris) > MaxWatched THEN Change(TRUE, TRUE, {}) ELSE c
  IN  [q EXCEPT !.pending = Append1(@, c1)]

-------------------------------------------------------------------------------
(* Commands of the session.                                                *)

IsAnalyze(c) == c.kind = "analyze"

\* At most one analysis waits: a new one replaces it and goes to the end.
EnqueueAnalyze(q, version) ==
  [q EXCEPT !.pending =
     Append(Compact(Only(@, {c \in ToSet(@) : ~IsAnalyze(c)})),
            [kind |-> "analyze", version |-> version])]

\* A Materialize or a Dump, whose client is waiting for the answer.
EnqueueRequest(q, token) ==
  [q EXCEPT !.pending = Append(@, [kind |-> "request", token |-> token])]

EnqueueLocation(q, generation, candidates) ==
  [q EXCEPT !.locations =
     Append(@, [kind |-> "locate", generation |-> generation, candidates |-> candidates])]

\* Mutant: chunks of the old model stay queued.
ReplaceKeepingSweep(q) ==
  [EmptyQueue EXCEPT !.pending = q.pending, !.disconnected = q.disconnected,
                     !.generation = q.generation + 1,
                     !.sweep = q.sweep, !.queued = q.queued,
                     !.total = q.total, !.done = q.done]

\* Work queued against the previous model must never run against the next one.
ReplaceGeneration(q) ==
  [EmptyQueue EXCEPT !.pending = q.pending, !.disconnected = q.disconnected,
                     !.generation = q.generation + 1]

(* SetWorkspaceRoot.  The session sends it once, from initialize, and      *)
(* refuses everything before; so the code's search for an analysis and a   *)
(* root that wait already finds none.                                      *)
EnqueueRoot(q) ==
  [ReplaceGeneration(q) EXCEPT !.pending = Append(Compact(@), [kind |-> "root"])]

-------------------------------------------------------------------------------
(* Work of the engine.                                                     *)

\* The files of a list in chunks of at most n.
Chunks(uris, n) ==
  [i \in 1 .. ((Len(uris) + n - 1) \div n) |->
     SubSeq(uris, (i - 1) * n + 1, IF i * n < Len(uris) THEN i * n ELSE Len(uris))]

\* Mutant: a URI of the neighborhood goes to the sweep when the sweep is raised.
AdmitsDemoted(q, u, level) == q.queued[u] # level

\* A URI waits once; a sweep URI may be promoted to the neighborhood.
Admits(q, u, level) ==
  \/ q.queued[u] = Nowhere
  \/ q.queued[u] = "sweep" /\ level = "neighborhood"

\* The callers list the files of an index or symbol job in URI order.
EnqueueIndex(q, level, uris) ==
  LET new    == Sorted({u \in uris : Admits(q, u, level)})
      chunks == [i \in DOMAIN Chunks(new, IndexChunk) |->
                   [kind |-> "index", generation |-> q.generation, level |-> level,
                    uris |-> Chunks(new, IndexChunk)[i]]]
      q1 == [q EXCEPT !.queued = [u \in Uris |-> IF u \in ToSet(new) THEN level ELSE @[u]],
                      !.total = @ + Cardinality({u \in ToSet(new) : q.queued[u] = Nowhere})]
  IN  IF level = "neighborhood" THEN [q1 EXCEPT !.neighborhood = @ \o chunks]
                                ELSE [q1 EXCEPT !.sweep = @ \o chunks]

EnqueueSymbols(q, uris) ==
  LET new    == Sorted(uris \ q.symbolQueued)
      chunks == [i \in DOMAIN Chunks(new, SymbolChunk) |->
                   [kind |-> "symbols", generation |-> q.generation,
                    uris |-> Chunks(new, SymbolChunk)[i]]]
  IN  [q EXCEPT !.symbols = @ \o chunks, !.symbolQueued = @ \union ToSet(new)]

-------------------------------------------------------------------------------
(* Taking a command.  The result is the command, or None, and the queue    *)
(* that is left.                                                           *)

None == [kind |-> "none"]
Taken(c, q) == [command |-> c, queue |-> q]

\* Mutant: the command is not taken out of the queue.
TakeInteractivePeeking(q) ==
  IF q.pending = <<>> THEN Taken(None, q) ELSE Taken(Head(q.pending), q)

\* Edits, requests and project changes, leaving locations queued.
TakeInteractive(q) ==
  IF q.pending = <<>> THEN Taken(None, q)
  ELSE Taken(Head(q.pending),
             [q EXCEPT !.pending = Tail(@),
                       !.sinceLocation = IF q.locations = <<>> THEN 0 ELSE @ + 1])

\* Interactive work first, but a location after BeforeLocation of them.
TakeForeground(q) ==
  IF q.locations # <<>> /\ (q.sinceLocation >= BeforeLocation \/ q.pending = <<>>)
  THEN Taken(Head(q.locations), [q EXCEPT !.locations = Tail(@), !.sinceLocation = 0])
  ELSE IF q.pending = <<>> THEN Taken(None, [q EXCEPT !.sinceLocation = 0])
  ELSE TakeInteractive(q)

\* The URIs that a chunk still owns: a promoted one has left it.
Owned(q, c) == Only(c.uris, {u \in Uris : q.queued[u] = c.level})
Live(q, c) == \E u \in ToSet(c.uris) : q.queued[u] = c.level

\* Without the chunks at the front that own nothing any more.
DropStale(q, cs) ==
  LET live == {i \in DOMAIN cs : Live(q, cs[i])}
  IN  IF live = {} THEN <<>> ELSE SubSeq(cs, Min(live), Len(cs))

\* Hands out a chunk: its URIs may be queued again while it runs.
Claim(q, c) ==
  Taken([c EXCEPT !.uris = Owned(q, c)],
        [q EXCEPT !.queued = [u \in Uris |-> IF u \in ToSet(Owned(q, c)) THEN Nowhere ELSE @[u]],
                  !.done = @ + Len(Owned(q, c))])

\* Mutant: files of a running chunk still count as queued.
TakeSymbolChunkStillQueued(q) ==
  Taken(Head(q.symbols), [q EXCEPT !.symbols = Tail(@)])

TakeSymbolChunk(q) ==
  Taken(Head(q.symbols),
        [q EXCEPT !.symbols = Tail(@), !.symbolQueued = @ \ ToSet(Head(q.symbols).uris)])

(* The neighborhood, then symbols, then the sweep; but a sweep chunk that  *)
(* waits is served after BeforeSweep symbol chunks.  Chunks whose URIs     *)
(* have all been promoted are dropped on the way.                          *)
TakeBackground(q) ==
  LET near  == DropStale(q, q.neighborhood)
      q0    == [q EXCEPT !.neighborhood = <<>>]
      due   == q.sweep # <<>> /\ q.sinceSweep >= BeforeSweep
      \* a due sweep chunk that turns out stale has used up its turn
      spent == due /\ ~Live(q, Head(q.sweep))
      q1    == IF spent THEN [q0 EXCEPT !.sweep = Tail(@), !.sinceSweep = 0] ELSE q0
      far   == DropStale(q, q1.sweep)
      q2    == [q1 EXCEPT !.sweep = <<>>, !.sinceSweep = 0]
  IN  IF near # <<>>
      THEN Claim([q EXCEPT !.neighborhood = Tail(near)], Head(near))
      ELSE IF (spent \/ ~due) /\ q1.symbols # <<>>
      THEN TakeSymbolChunk([q1 EXCEPT !.sinceSweep = IF q1.sweep = <<>> THEN 0 ELSE @ + 1])
      ELSE IF far = <<>> THEN Taken(None, q2)
      ELSE Claim([q2 EXCEPT !.sweep = Tail(far)], Head(far))

Outstanding(q) == \E u \in Uris : q.queued[u] # Nowhere

\* The progress counters start again once nothing is queued.
AfterProgress(q) == IF Outstanding(q) THEN q ELSE [q EXCEPT !.done = 0, !.total = 0]

-------------------------------------------------------------------------------
\* How often a URI is in the chunks of a deque.
Copies(cs, u) == Cardinality({p \in (DOMAIN cs) \X (1 .. Len(Files)) :
                                p[2] \in DOMAIN cs[p[1]].uris /\ cs[p[1]].uris[p[2]] = u})

(* What the queues promise: the owner recorded for a URI is one chunk, and *)
(* only one; the files not yet handed out are exactly the difference of    *)
(* the two numbers the progress shows; every chunk is of this generation.  *)
QueueAccounting(q) ==
  /\ \A u \in Uris :
       /\ q.queued[u] = "neighborhood" => Copies(q.neighborhood, u) = 1
       /\ q.queued[u] = "sweep" => Copies(q.sweep, u) = 1
       /\ q.queued[u] # "neighborhood" => Copies(q.neighborhood, u) = 0
       /\ Copies(q.symbols, u) = IF u \in q.symbolQueued THEN 1 ELSE 0
  /\ q.total = q.done + Cardinality({u \in Uris : q.queued[u] # Nowhere})
  /\ \A c \in ToSet(q.neighborhood) \union ToSet(q.sweep) \union ToSet(q.symbols) :
       c.generation = q.generation

Commands ==
  [kind : {"root"}] \union [kind : {"analyze"}, version : Nat]
    \union [kind : {"request"}, token : Nat]
    \union [kind : {"change"}, refresh : BOOLEAN, reanalyze : BOOLEAN,
            uris : SUBSET (Uris \union {"build file"})]

QueueType(q) ==
  /\ \A c \in ToSet(q.pending) : c \in Commands
  /\ q.queued \in [Uris -> Levels \union {Nowhere}]
  /\ q.symbolQueued \subseteq Uris
  /\ {q.done, q.total, q.generation, q.sinceLocation, q.sinceSweep} \subseteq Nat
  /\ q.disconnected \in BOOLEAN
  /\ \A c \in ToSet(q.neighborhood) \union ToSet(q.sweep) \union ToSet(q.symbols) :
       c.uris # <<>> /\ ToSet(c.uris) \subseteq Uris
=============================================================================
