--------------------------- MODULE EngineInvariants ---------------------------
(***************************************************************************)
(* The inductive invariants of the analysis engine, its queues and its     *)
(* session.  The invariants of module AnalysisEngine follow from them, and *)
(* module AnalysisEngineProofs shows that every step keeps them.           *)
(***************************************************************************)
EXTENDS AnalysisEngine

-------------------------------------------------------------------------------
(* The queues.                                                             *)

\* What the queues hold.
IndexChunks(level) ==
  [kind : {"index"}, generation : Nat, level : {level}, uris : Seq(Uris)]
SymbolChunks == [kind : {"symbols"}, generation : Nat, uris : Seq(Uris)]
Locates == [kind : {"locate"}, generation : Nat, candidates : SUBSET Classes]

Queues ==
  [ pending : Seq(Commands), locations : Seq(Locates), sinceLocation : Nat,
    neighborhood : Seq(IndexChunks("neighborhood")), sweep : Seq(IndexChunks("sweep")),
    symbols : Seq(SymbolChunks), sinceSweep : Nat,
    symbolQueued : SUBSET Uris, queued : [Uris -> Levels \union {Nowhere}],
    done : Nat, total : Nat, generation : Nat, disconnected : BOOLEAN ]

\* A chunk of the deque holds the file u, and no file is held twice.
Holds(cs, u) == \E i \in 1 .. Len(cs) : \E j \in 1 .. Len(cs[i].uris) : cs[i].uris[j] = u
NoRepeat(cs) ==
  \A i, k \in 1 .. Len(cs) : \A j \in 1 .. Len(cs[i].uris), l \in 1 .. Len(cs[k].uris) :
    cs[i].uris[j] = cs[k].uris[l] => i = k /\ j = l

\* The chunks are of generation g and hold a file.
Proper(cs, g) ==
  \A i \in 1 .. Len(cs) : cs[i].generation = g /\ Len(cs[i].uris) \in 1 .. Len(Files)

\* The files that an index deque owns.
Waiting(queued) == {u \in Uris : queued[u] # Nowhere}

(* A file is in the neighborhood exactly if it is recorded there; one      *)
(* recorded for the sweep is in it; but the sweep may hold copies of files *)
(* promoted meanwhile.                                                     *)
Books(near, far, syms, queued, symbolQueued, done, total, g) ==
  /\ Proper(near, g) /\ NoRepeat(near) /\ Proper(far, g) /\ NoRepeat(far)
  /\ Proper(syms, g) /\ NoRepeat(syms)
  /\ \A u \in Uris : Holds(near, u) <=> queued[u] = "neighborhood"
  /\ \A u \in Uris : queued[u] = "sweep" => Holds(far, u)
  /\ \A u \in Uris : Holds(syms, u) <=> u \in symbolQueued
  /\ total = done + Cardinality(Waiting(queued))

QueueInv(q) ==
  Books(q.neighborhood, q.sweep, q.symbols, q.queued, q.symbolQueued, q.done, q.total,
        q.generation)

-------------------------------------------------------------------------------
(* The invariants of the engine and its session.                           *)

Findings == [version : Nat, model : Nat]

EventSet ==
  [type : {"status"}, working : BOOLEAN] \union [type : {"globs", "ready", "reanalyze"}]
    \union [type : {"project"}, reanalyze : BOOLEAN]
    \union [type : {"reset", "names"}, generation : Nat]
    \union [type : {"complete"}, version : Nat, pending : BOOLEAN]
    \union [type : {"answer"}, token : Nat]
    \union [type : {"index", "symbols"}, generation : Nat, attempted : SUBSET Uris,
            conclusive : BOOLEAN, found : [Uris -> Findings]]
    \union [type : {"located"}, generation : Nat, attempted : SUBSET Classes,
            found : SUBSET Classes]

Jobs ==
  Commands \union IndexChunks("neighborhood") \union IndexChunks("sweep") \union SymbolChunks
    \union Locates \union {None, [kind |-> "refresh"]}

\* The shape of the state, as far as the proofs need it.
Markers == [dirty : BOOLEAN, inFlight : BOOLEAN, ready : BOOLEAN, retry : BOOLEAN]

WorldShape ==
  /\ disk \in [Uris -> Nat] /\ buildFile \in Nat /\ saves \in Nat
  /\ unreported \subseteq Uris \union {BuildFile}
EngineShape ==
  /\ pc \in {"idle", "run", "sweep", "stopped"} /\ job \in Jobs
  /\ pc = "sweep" => job.kind = "analyze"
  /\ model \in Nat /\ sweptFor \in Nat
  /\ inventory = NotScanned \/ inventory \subseteq Uris
LineShape == outbox \in Seq(EventSet) /\ events \in Seq(EventSet)
SessionShape ==
  /\ doc \in [version : Nat, analyzed : Nat] /\ analysis \in Markers
  /\ parked \in [waiting : SUBSET Nat, asked : Nat]
  /\ session \in [state : {"new", "open", "closed"}, watching : BOOLEAN, token : BOOLEAN]
ResultShape ==
  /\ generation \in Nat
  /\ store \in [Uris -> Findings] /\ symbols \in [Uris -> Findings]
  /\ classes \in [names : SUBSET Classes, located : SUBSET Classes, requested : SUBSET Classes]
Shape ==
  queue \in Queues /\ WorldShape /\ EngineShape /\ LineShape /\ SessionShape /\ ResultShape

\* What the engine has sent and the session has not handled, in order.
Line == events \o outbox
Resets == {e \in EventSet : e.type = "reset"}
ResetComes == \E e \in InTransit : e.type = "reset"

\* Until the root has been configured, nothing has happened.
RootWaits == \E i \in 1 .. Len(queue.pending) : queue.pending[i].kind = "root"
RootRuns == pc = "run" /\ job.kind = "root"
Beginning == session.state = "new" \/ RootWaits \/ RootRuns

NothingYet ==
  /\ generation = 0 /\ model = 0 /\ refresh = "none" /\ sweptFor = 0
  /\ queue.locations = <<>> /\ queue.neighborhood = <<>> /\ queue.sweep = <<>>
  /\ queue.symbols = <<>>
  /\ \A e \in InTransit : e.type = "status"
  /\ \A u \in Uris : store[u] = Unknown /\ symbols[u] = Unknown
  /\ classes.names = {} /\ classes.requested = {}
  /\ ~ analysis.ready /\ ~ analysis.inFlight

BeginInv ==
  /\ Beginning => NothingYet
  /\ session.state = "new" =>
       /\ pc = "idle" /\ Line = <<>> /\ queue.pending = <<>> /\ queue.generation = 0
  /\ session.state # "new" => queue.generation > 0
  /\ session.state # "closed" => ~ queue.disconnected
  /\ RootWaits => /\ pc = "idle" /\ Line = <<>>
                  /\ \A i \in 1 .. Len(queue.pending) : queue.pending[i].kind = "root" <=> i = 1

\* The sweep is raised once in a generation.
SweepInv ==
  /\ queue.sweep # <<>> => sweptFor = queue.generation
  /\ (pc = "run" /\ job.kind \in {"index", "symbols"}) =>
       job.generation = queue.generation /\ ~ Beginning

\* None of the elements of a list is in S; at most one is.
Free(s, S) == \A i \in 1 .. Len(s) : s[i] \notin S
Single(s, S) == \A i, j \in 1 .. Len(s) : s[i] \in S /\ s[j] \in S => i = j

(* Of the elements of s in S, those of t in T, and the one that runs if    *)
(* r is true, there is exactly one if m is true, and none otherwise.       *)
Exactly(s, S, r, t, T, m) ==
  /\ Single(s, S) /\ Single(t, T)
  /\ Free(s, S) \/ (~ r /\ Free(t, T))
  /\ r => Free(t, T)
  /\ m <=> (~ Free(s, S) \/ r \/ ~ Free(t, T))

\* The document is marked while one analysis of it is under way.
Analyses == {c \in Commands : c.kind = "analyze"}
Completes == {e \in EventSet : e.type = "complete"}
AnalyzeRuns == pc = "run" /\ job.kind = "analyze"
AnalyzeInv ==
  Exactly(queue.pending, Analyses, AnalyzeRuns, Line, Completes, analysis.inFlight)

\* A class is marked while one location of it, of generation g, is under way.
LocatesOf(g, c) == {l \in Locates : l.generation = g /\ c \in l.candidates}
LocateRuns(g, c) ==
  pc = "run" /\ job.kind = "locate" /\ job.generation = g /\ c \in job.candidates
LocatedOf(g, c) ==
  {e \in EventSet : e.type = "located" /\ e.generation = g /\ c \in e.attempted}
LocateInv ==
  /\ \A l \in ToSet(queue.locations) : l.generation <= generation
  /\ (pc = "run" /\ job.kind = "locate") => job.generation <= generation
  /\ \A e \in InTransit : e.type = "located" => e.generation <= generation
  /\ ~ ResetComes => \A c \in Classes :
       Exactly(queue.locations, LocatesOf(generation, c), LocateRuns(generation, c),
               Line, LocatedOf(generation, c), c \in classes.requested)

\* The names of a generation are published once, before any of them is asked for.
NamesOf(g) == {e \in EventSet : e.type = "names" /\ e.generation = g}
NamesInv ==
  /\ classes.requested \subseteq classes.names
  /\ \A g \in Nat : Single(Line, NamesOf(g))
  /\ \A e \in InTransit : e.type = "names" =>
       /\ e.generation <= queue.generation
       /\ e.generation = generation => classes.names = {}
       /\ e.generation = queue.generation => sweptFor = queue.generation
  /\ (sweptFor # queue.generation /\ generation = queue.generation) => classes.names = {}

\* The resets announce later and later generations, the last one the queue's.
ResetInv ==
  /\ generation <= queue.generation
  /\ \A e \in InTransit : e.type = "reset" =>
       generation < e.generation /\ e.generation <= queue.generation
  /\ \A i, j \in 1 .. Len(Line) :
       Line[i].type = "reset" /\ Line[j].type = "reset" /\ i < j =>
         Line[i].generation < Line[j].generation
  /\ \/ Beginning \/ generation = queue.generation
     \/ \E e \in InTransit : e.type = "reset" /\ e.generation = queue.generation

(* A result is found under the model of its generation, and is announced   *)
(* by a reset if that is not the session's yet.                            *)
IsResult(e) == e.type \in {"index", "symbols"}
ResultInv ==
  /\ \A i \in 1 .. Len(Line) : IsResult(Line[i]) =>
       \/ Line[i].generation <= generation
       \/ \E j \in 1 .. i - 1 : /\ Line[j].type = "reset"
                                /\ Line[j].generation = Line[i].generation
  /\ \A e \in InTransit : IsResult(e) => e.generation <= queue.generation
  /\ \A d, e \in InTransit : \A u, w \in Uris :
       /\ IsResult(d) /\ IsResult(e) /\ d.generation = e.generation
       /\ d.found[u] # Unknown /\ e.found[w] # Unknown
       => d.found[u].model = e.found[w].model
  /\ \A e \in InTransit : \A u \in Uris :
       IsResult(e) /\ e.generation = queue.generation /\ e.found[u] # Unknown =>
         e.found[u].model = model
  /\ \A e \in InTransit : \A u, w \in Uris :
       IsResult(e) /\ e.generation = generation /\ e.found[u] # Unknown =>
         /\ store[w] # Unknown => store[w].model = e.found[u].model
         /\ symbols[w] # Unknown => symbols[w].model = e.found[u].model
  /\ generation = queue.generation =>
       \A u \in Uris : /\ store[u] # Unknown => store[u].model = model
                       /\ symbols[u] # Unknown => symbols[u].model = model

OneStored ==
  \A u, w \in Uris :
    /\ (store[u] # Unknown /\ symbols[w] # Unknown) => store[u].model = symbols[w].model
    /\ (store[u] # Unknown /\ store[w] # Unknown) => store[u].model = store[w].model
    /\ (symbols[u] # Unknown /\ symbols[w] # Unknown) => symbols[u].model = symbols[w].model

\* Versions are those of the files.
Real(r) == r = Unknown \/ r.version \in 1 .. MaxSaves + 1
VersionInv ==
  /\ saves <= MaxSaves
  /\ \A u \in Uris : disk[u] <= saves + 1 /\ Real(store[u]) /\ Real(symbols[u])
  /\ \A e \in InTransit : IsResult(e) => \A u \in Uris : Real(e.found[u])
  /\ saves = 0 => \A u \in Uris : disk[u] = 1
  /\ saves = 0 => \A e \in InTransit : e.type = "index" /\ e.conclusive =>
       \A u \in e.attempted : e.found[u] # Unknown

-------------------------------------------------------------------------------
(* The queues, and what has happened before the root is configured.        *)
Base == Shape /\ BeginInv /\ QueueInv(queue) /\ SweepInv

(* The invariants that rest on what each step of the engine and of the     *)
(* session does to the line between them.                                  *)
Deep ==
  /\ VersionInv /\ OneStored
  /\ Open => AnalyzeInv /\ LocateInv /\ NamesInv /\ ResetInv /\ ResultInv
===============================================================================
