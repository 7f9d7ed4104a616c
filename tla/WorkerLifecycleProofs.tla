------------------------ MODULE WorkerLifecycleProofs ------------------------
(***************************************************************************)
(* Proofs about module WorkerLifecycle, for any number of workers and any  *)
(* number of children, requests and failing calls.                         *)
(***************************************************************************)
EXTENDS WorkerLifecycle, FiniteSetTheorems, TLAPS

-------------------------------------------------------------------------------
(* The invariant.  Owned is about the handles: who has which child and     *)
(* which reader.  It is a relation between what the workers have, has and  *)
(* reads, the children ch, the readers rd and the slot sl, so that a step  *)
(* that moves several handles can be taken apart.                          *)

Fields == {"pc", "then", "why", "child", "inflight", "required", "analyses", "classpath",
           "target"}
Reasons == {"restart", "observe failed", "observe running", "drop new", "drop"}
Dropping == {"release", "quarantine", "retain child", "wait", "retain reader"}

\* A handle of the worker w is of a child that was spawned for w.
Mine(w, c) == c = None \/ (c \in Children /\ c[1] = w)

\* The shape of the children, the readers and the slot.
Shapes(ch, rd, sl) ==
  /\ DOMAIN ch = Children
  /\ \A c \in Children : /\ DOMAIN ch[c] = {"life", "classpath", "kill"}
                         /\ ch[c].life \in {"none", "up", "gone"}
                         /\ ch[c].life = "none" => ch[c] = Absent
  /\ rd \in [Children -> {"none", "reading", "frame", "eof"}]
  /\ sl.child \in Children \union {None} /\ sl.reader \in Children \union {None}
  /\ sl = [child |-> sl.child, reader |-> sl.reader]

\* The children that were not reaped are the ones that one worker or the slot has; a
\* worker whose child is in the slot has no other.
ChildrenHeld(has, ch, sl) ==
  /\ DOMAIN has = Workers /\ \A w \in Workers : Mine(w, has[w])
  /\ \A c \in Children : (ch[c].life # "none") <=> (has[c[1]] = c \/ sl.child = c)
  /\ sl.child # None => has[sl.child[1]] = None

\* The readers that were not joined are the ones that one worker or the slot has; the slot
\* does not have the reader of a child that a worker has.
ReadersHeld(has, reads, rd, sl) ==
  /\ DOMAIN reads = Workers /\ \A w \in Workers : Mine(w, reads[w])
  /\ \A c \in Children : (rd[c] # "none") <=> (reads[c[1]] = c \/ sl.reader = c)
  /\ sl.reader # None => reads[sl.reader[1]] # sl.reader /\ has[sl.reader[1]] # sl.reader

Owned(has, reads, ch, rd, sl) ==
  Shapes(ch, rd, sl) /\ ChildrenHeld(has, ch, sl) /\ ReadersHeld(has, reads, rd, sl)

\* Which handles a worker with the fields r has, where its thread is.
PlaceOK(r) ==
  /\ r.child = None \/ r.inflight = None \/ r.child = r.inflight
  /\ r.pc \in {"spawn", "launch"} => r.child = None /\ r.inflight = None
  /\ r.pc \in {"greet", "observe"} => r.child # None /\ r.inflight = None
  /\ r.pc \in {"ready", "reading"} => r.child # None /\ r.inflight = r.child
  /\ r.pc \in {"quarantine", "retain child", "wait"} => r.child # None
  /\ r.pc = "retain reader" => r.child = None

\* A worker that is being replaced is marked, unless this is its first process; a worker
\* that is not marked has a process to use, with the classpath cp.
MarkOK(r, cp) ==
  /\ r.required \in BOOLEAN /\ r.why \in Reasons
  /\ r.pc \in {"spawn", "launch", "greet", "ready"} => r.required \/ r.then = "start"
  /\ r.pc \in Dropping /\ r.why = "drop new" => r.required \/ r.then = "start"
  /\ r.pc = "release" /\ r.why = "restart" => r.required
  /\ r.pc \in Dropping \ {"release"} => r.why \in {"drop new", "drop"}
  /\ r.pc \in {"operate", "reading"} => ~r.required
  /\ r.pc \in {"idle", "operate", "reading"} /\ ~r.required => r.child # None /\ cp = r.classpath
  /\ r.pc \in {"idle", "operate"} /\ ~r.required => r.inflight = None
  /\ r.pc \in {"greet", "ready"} => cp = r.target

Has == [w \in Workers |-> worker[w].child]
Reads == [w \in Workers |-> worker[w].inflight]

HandleInv == Owned(Has, Reads, child, reader, slot)

WorkerInv ==
  /\ DOMAIN worker = Workers
  /\ \A w \in Workers : /\ DOMAIN worker[w] = Fields /\ PlaceOK(worker[w])
                        /\ MarkOK(worker[w], child[worker[w].child].classpath)

\* A worker launches a child only while the slot has none of its own.
LaunchInv ==
  \A w \in Workers : At(w, "launch") => slot.child = None \/ slot.child[1] # w

LifeInv == HandleInv /\ WorkerInv /\ LaunchInv

-------------------------------------------------------------------------------
(* Moving one handle.                                                      *)

\* A child is its worker and a number, and none is no child.
LEMMA ChildFacts ==
  /\ None \notin Children
  /\ \A c \in Children : c[1] \in Workers
  /\ \A w \in Workers, i \in Numbers : <<w, i>> \in Children /\ <<w, i>>[1] = w
BY DEF None, Children

\* Nothing has a worker's child but the worker.
LEMMA OnlyHolder ==
  ASSUME NEW has, NEW reads, NEW ch, NEW rd, NEW sl, Owned(has, reads, ch, rd, sl),
         NEW w \in Workers
  PROVE  /\ has[w] # None =>
              /\ has[w] \in Children /\ has[w][1] = w /\ sl.child # has[w]
              /\ ch[has[w]].life # "none"
              /\ \A v \in Workers \ {w} : has[v] # has[w]
         /\ reads[w] # None =>
              /\ reads[w] \in Children /\ reads[w][1] = w /\ sl.reader # reads[w]
              /\ rd[reads[w]] # "none"
              /\ \A v \in Workers \ {w} : reads[v] # reads[w]
BY ChildFacts DEF Owned, Shapes, ChildrenHeld, ReadersHeld, Mine

\* A reader is started on the worker's child.
LEMMA OwnStart ==
  ASSUME NEW has, NEW reads, NEW ch, NEW rd, NEW sl, Owned(has, reads, ch, rd, sl),
         NEW w \in Workers, has[w] # None, reads[w] = None
  PROVE  Owned(has, [reads EXCEPT ![w] = has[w]], ch, [rd EXCEPT ![has[w]] = "reading"], sl)
BY OnlyHolder, ChildFacts DEF Owned, Shapes, ChildrenHeld, ReadersHeld, Mine

\* The worker's reader is joined.
LEMMA OwnJoin ==
  ASSUME NEW has, NEW reads, NEW ch, NEW rd, NEW sl, Owned(has, reads, ch, rd, sl),
         NEW w \in Workers, reads[w] # None
  PROVE  Owned(has, [reads EXCEPT ![w] = None], ch, [rd EXCEPT ![reads[w]] = "none"], sl)
BY OnlyHolder, ChildFacts DEF Owned, Shapes, ChildrenHeld, ReadersHeld, Mine

\* The worker's child is reaped.
LEMMA OwnReap ==
  ASSUME NEW has, NEW reads, NEW ch, NEW rd, NEW sl, Owned(has, reads, ch, rd, sl),
         NEW w \in Workers, has[w] # None
  PROVE  Owned([has EXCEPT ![w] = None], reads, [ch EXCEPT ![has[w]] = Absent], rd, sl)
BY OnlyHolder, ChildFacts DEF Owned, Shapes, ChildrenHeld, ReadersHeld, Mine, Absent

\* A child is told to end, or ends; its handle stays where it is.
LEMMA OwnChange ==
  ASSUME NEW has, NEW reads, NEW ch, NEW rd, NEW sl, Owned(has, reads, ch, rd, sl),
         NEW c \in Children, ch[c].life # "none", NEW k, NEW x \in {"up", "gone"}
  PROVE  /\ Owned(has, reads, [ch EXCEPT ![c].kill = k], rd, sl)
         /\ Owned(has, reads, [ch EXCEPT ![c].life = x], rd, sl)
BY DEF Owned, Shapes, ChildrenHeld, ReadersHeld

\* A child is launched for a worker without one, in the slot or of its own.
LEMMA OwnLaunch ==
  ASSUME NEW has, NEW reads, NEW ch, NEW rd, NEW sl, Owned(has, reads, ch, rd, sl),
         NEW w \in Workers, has[w] = None, sl.child = None \/ sl.child[1] # w,
         NEW c \in Children, c[1] = w, ch[c] = Absent, rd[c] = "none", NEW cp
  PROVE  Owned([has EXCEPT ![w] = c], reads,
               [ch EXCEPT ![c] = [life |-> "up", classpath |-> cp, kill |-> "no"]], rd, sl)
BY ChildFacts DEF Owned, Shapes, ChildrenHeld, ReadersHeld, Mine, Absent

\* The worker's child joins a slot without one.
LEMMA OwnParkChild ==
  ASSUME NEW has, NEW reads, NEW ch, NEW rd, NEW sl, Owned(has, reads, ch, rd, sl),
         NEW w \in Workers, has[w] # None, sl.child = None
  PROVE  Owned([has EXCEPT ![w] = None], reads, ch, rd, [child |-> has[w], reader |-> sl.reader])
BY OnlyHolder, ChildFacts DEF Owned, Shapes, ChildrenHeld, ReadersHeld, Mine

\* The worker's reader joins a slot without one.
LEMMA OwnParkReader ==
  ASSUME NEW has, NEW reads, NEW ch, NEW rd, NEW sl, Owned(has, reads, ch, rd, sl),
         NEW w \in Workers, reads[w] # None, has[w] = None, sl.reader = None
  PROVE  Owned(has, [reads EXCEPT ![w] = None], ch, rd, [child |-> sl.child, reader |-> reads[w]])
BY OnlyHolder, ChildFacts DEF Owned, Shapes, ChildrenHeld, ReadersHeld, Mine

\* Reclaiming the slot keeps the handles: what leaves it is reaped or joined.  A worker's
\* own child is not touched.
LEMMA ReclaimKeeps ==
  ASSUME HandleInv, NEW p \in SlotPolls
  PROVE  LET s == Reclaimed(p) IN
         /\ Owned(Has, Reads, ChildrenAfter(s), ReadersAfter(s), s)
         /\ s.child \in {None, slot.child}
         /\ \A w \in Workers : worker[w].child # None =>
              ChildrenAfter(s)[worker[w].child] = child[worker[w].child]
<1> DEFINE s == Reclaimed(p)
           ch == ChildrenAfter(s)
           rd == ReadersAfter(s)
<1>0. /\ slot.child \in Children \union {None} /\ slot.reader \in Children \union {None}
      /\ None \notin Children
  BY ChildFacts DEF HandleInv, Owned, Shapes
<1>1. /\ s = [child |-> s.child, reader |-> s.reader]
      /\ s.child \in {None, slot.child} /\ s.reader \in {None, slot.reader}
  BY DEF Reclaimed, Free
<1>2. slot.child # None /\ s.child = None => child[slot.child].life = "gone"
  <2>1. slot.child # None =>
          p \in {IF child[slot.child].life = "up" THEN "Running" ELSE "Exited", "Failed"}
    BY DEF SlotPolls, Polls
  <2>2. slot.child # None /\ s.child = None => p = "Exited"
    BY DEF Reclaimed, Free
  <2>3. slot.child # None => child[slot.child].life \in {"up", "gone"}
    BY <1>0 DEF HandleInv, Owned, Shapes, ChildrenHeld
  <2> QED
    BY <2>1, <2>2, <2>3
<1>3. slot.reader # None /\ s.reader = None => Ended(slot.reader)
  BY DEF Reclaimed, Free
<1>4. ch = IF slot.child # None /\ s.child = None
           THEN [child EXCEPT ![slot.child] = Absent] ELSE child
  BY <1>2 DEF ChildrenAfter
<1>5. rd = IF slot.reader # None /\ s.reader = None
           THEN [reader EXCEPT ![slot.reader] = "none"] ELSE reader
  BY <1>3 DEF ReadersAfter
<1> HIDE DEF s, ch, rd
<1>6. Shapes(ch, rd, s)
  BY <1>0, <1>1, <1>4, <1>5 DEF HandleInv, Owned, Shapes, Absent
<1>7. ChildrenHeld(Has, ch, s)
  BY <1>0, <1>1, <1>4 DEF HandleInv, Owned, Shapes, ChildrenHeld, Absent
<1>8. ReadersHeld(Has, Reads, rd, s)
  BY <1>0, <1>1, <1>5 DEF HandleInv, Owned, Shapes, ReadersHeld
<1>9. ASSUME NEW w \in Workers, worker[w].child # None
      PROVE  ch[worker[w].child] = child[worker[w].child]
  <2>1. Has[w] = worker[w].child
    BY DEF Has
  <2>2. worker[w].child # slot.child /\ worker[w].child \in Children
    BY <1>9, <2>1, OnlyHolder DEF HandleInv
  <2> QED
    BY <1>4, <2>2 DEF HandleInv, Owned, Shapes
<1> QED
  BY <1>1, <1>6, <1>7, <1>8, <1>9 DEF Owned, s, ch, rd

-------------------------------------------------------------------------------
(* Changing one worker.                                                    *)

\* Only the worker w has changed.
OnlyOf(w) ==
  /\ DOMAIN worker' = Workers /\ DOMAIN worker'[w] = Fields
  /\ \A v \in Workers \ {w} : worker'[v] = worker[v]

\* Only the fields of w that r has are assigned.
LEMMA WithEffect ==
  ASSUME WorkerInv, NEW w \in Workers, NEW r, DOMAIN r \subseteq Fields, With(w, r)
  PROVE  /\ OnlyOf(w)
         /\ \A x \in Fields : worker'[w][x] = IF x \in DOMAIN r THEN r[x] ELSE worker[w][x]
BY DEF With, Over, WorkerInv, OnlyOf

\* Only the fields of w that f or r has are assigned.
LEMMA WithOverEffect ==
  ASSUME WorkerInv, NEW w \in Workers, NEW f, NEW r,
         DOMAIN f \subseteq Fields, DOMAIN r \subseteq Fields, With(w, Over(f, r))
  PROVE  /\ OnlyOf(w)
         /\ \A x \in Fields : worker'[w][x] = IF x \in DOMAIN f THEN f[x]
                                              ELSE IF x \in DOMAIN r THEN r[x] ELSE worker[w][x]
<1>1. /\ DOMAIN Over(f, r) = DOMAIN f \union DOMAIN r
      /\ \A x \in DOMAIN f \union DOMAIN r : Over(f, r)[x] = IF x \in DOMAIN f THEN f[x] ELSE r[x]
  BY DEF Over
<1> QED
  BY <1>1, WithEffect

\* What the workers have after a step of w.
LEMMA HandlesAfter ==
  ASSUME WorkerInv, NEW w \in Workers, DOMAIN worker' = Workers,
         \A v \in Workers \ {w} : worker'[v] = worker[v]
  PROVE  /\ Has' = [Has EXCEPT ![w] = worker'[w].child]
         /\ Reads' = [Reads EXCEPT ![w] = worker'[w].inflight]
         /\ worker'[w].child = worker[w].child => Has' = Has
         /\ worker'[w].inflight = worker[w].inflight => Reads' = Reads
BY DEF Has, Reads

\* A step of w keeps WorkerInv if it does so for w, and no other worker's child gets
\* another classpath.
LEMMA OthersKept ==
  ASSUME WorkerInv, NEW w \in Workers, DOMAIN worker' = Workers, DOMAIN worker'[w] = Fields,
         \A v \in Workers \ {w} : worker'[v] = worker[v],
         \A v \in Workers \ {w} : worker[v].child # None =>
           child'[worker[v].child].classpath = child[worker[v].child].classpath,
         PlaceOK(worker'[w]), MarkOK(worker'[w], child'[worker'[w].child].classpath)
  PROVE  WorkerInv'
<1>1. ASSUME NEW v \in Workers \ {w}
      PROVE  DOMAIN worker'[v] = Fields /\ PlaceOK(worker'[v])
             /\ MarkOK(worker'[v], child'[worker'[v].child].classpath)
  <2>1. PlaceOK(worker[v]) /\ MarkOK(worker[v], child[worker[v].child].classpath)
        /\ DOMAIN worker[v] = Fields
    BY DEF WorkerInv
  <2>2. worker[v].child = None => MarkOK(worker[v], child'[worker[v].child].classpath)
    BY <2>1 DEF MarkOK, PlaceOK
  <2> QED
    BY <2>1, <2>2
<1> QED
  BY <1>1 DEF WorkerInv

\* A worker that is about to restart, is marked or is dropped may have any handles.
Spare(r) ==
  /\ r.pc \in {"restart", "dropped"} \/ (r.pc = "idle" /\ r.required)
  /\ r.required \in BOOLEAN /\ r.why \in Reasons
  /\ r.child = None \/ r.inflight = None \/ r.child = r.inflight

\* Whatever classpath its child has.
LEMMA SpareOK == ASSUME NEW r, NEW cp, Spare(r) PROVE PlaceOK(r) /\ MarkOK(r, cp)
BY DEF Spare, PlaceOK, MarkOK, Dropping

\* The worker w is as it should be after the step.
GoodAfter(w) == PlaceOK(worker'[w]) /\ MarkOK(worker'[w], child'[worker'[w].child].classpath)

\* A step of w keeps the invariant if it keeps the handles, if w is as it should be and
\* no other worker's child gets another classpath.
LEMMA StepOf ==
  ASSUME LifeInv, NEW w \in Workers, OnlyOf(w), GoodAfter(w), HandleInv',
         \A v \in Workers \ {w} : worker[v].child # None =>
           child'[worker[v].child].classpath = child[worker[v].child].classpath,
         slot'.child \in {None, slot.child} \/ slot'.child[1] = w,
         worker'[w].pc = "launch" => slot'.child = None
  PROVE  LifeInv'
<1>1. WorkerInv'
  BY OthersKept DEF LifeInv, OnlyOf, GoodAfter
<1>2. LaunchInv'
  BY DEF LifeInv, LaunchInv, At, OnlyOf
<1> QED
  BY <1>1, <1>2 DEF LifeInv

\* The worker keeps its handles.
SameHandles(w) ==
  OnlyOf(w) /\ worker'[w].child = worker[w].child /\ worker'[w].inflight = worker[w].inflight

\* A step of w that only changes its other fields.
LEMMA QuietStep ==
  ASSUME LifeInv, NEW w \in Workers, SameHandles(w), GoodAfter(w), worker'[w].pc # "launch",
         UNCHANGED <<child, reader, slot>>
  PROVE  LifeInv'
<1>1. HandleInv'
  BY HandlesAfter DEF LifeInv, HandleInv, SameHandles, OnlyOf
<1> QED
  BY <1>1, StepOf DEF SameHandles

\* A step of w that reclaims the slot and changes its other fields.
LEMMA ReclaimStep ==
  ASSUME LifeInv, NEW w \in Workers, SameHandles(w), NEW p \in SlotPolls,
         SlotStep(p, Reclaimed(p)),
         PlaceOK(worker'[w]), MarkOK(worker'[w], child[worker[w].child].classpath),
         worker'[w].pc = "launch" => Reclaimed(p) = Free
  PROVE  LifeInv'
<1>1. /\ Owned(Has, Reads, child', reader', slot') /\ slot'.child \in {None, slot.child}
      /\ \A v \in Workers : worker[v].child # None =>
           child'[worker[v].child] = child[worker[v].child]
  BY ReclaimKeeps DEF LifeInv, SlotStep
<1>2. HandleInv'
  BY <1>1, HandlesAfter DEF LifeInv, HandleInv, SameHandles, OnlyOf
<1>3. GoodAfter(w)
  <2>1. CASE worker[w].child = None
    BY <2>1 DEF GoodAfter, MarkOK, PlaceOK, SameHandles
  <2>2. CASE worker[w].child # None
    BY <1>1, <2>2 DEF GoodAfter, SameHandles
  <2> QED
    BY <2>1, <2>2
<1>4. worker'[w].pc = "launch" => slot'.child = None
  BY DEF SlotStep, Free
<1> QED
  BY <1>1, <1>2, <1>3, <1>4, StepOf DEF SameHandles

\* What is known of a worker before its step.
LEMMA Before ==
  ASSUME WorkerInv, NEW w \in Workers
  PROVE  /\ DOMAIN worker = Workers /\ DOMAIN worker[w] = Fields /\ PlaceOK(worker[w])
         /\ MarkOK(worker[w], child[worker[w].child].classpath)
BY DEF WorkerInv

\* Assigning the fields r makes the worker w restart, drops it or finds it marked, and
\* leaves its handles alone.
Sparing(w, r) ==
  /\ DOMAIN r \subseteq Fields \ {"child", "inflight"} /\ "pc" \in DOMAIN r
  /\ "why" \in DOMAIN r => r.why \in Reasons
  /\ "required" \in DOMAIN r => r.required = TRUE
  /\ \/ r.pc \in {"restart", "dropped"}
     \/ r.pc = "idle" /\ ("required" \in DOMAIN r \/ worker[w].required = TRUE)

\* Assigning such fields, and handles f, gives a worker that may have them.
LEMMA SparingEffect ==
  ASSUME WorkerInv, NEW w \in Workers, NEW r, Sparing(w, r)
  PROVE  /\ With(w, r) => SameHandles(w) /\ Spare(worker'[w])
         /\ \A f : With(w, Over(f, r)) /\ DOMAIN f \subseteq {"child", "inflight"} =>
              /\ OnlyOf(w)
              /\ "child" \in DOMAIN f => worker'[w].child = f.child
              /\ "child" \notin DOMAIN f => worker'[w].child = worker[w].child
              /\ "inflight" \in DOMAIN f => worker'[w].inflight = f.inflight
              /\ "inflight" \notin DOMAIN f => worker'[w].inflight = worker[w].inflight
              /\ worker'[w].child = None \/ worker'[w].inflight = None => Spare(worker'[w])
<1>0. /\ worker[w].required \in BOOLEAN /\ worker[w].why \in Reasons
      /\ worker[w].child = None \/ worker[w].inflight = None \/ worker[w].child = worker[w].inflight
  BY Before DEF PlaceOK, MarkOK
<1>1. DOMAIN r \subseteq Fields /\ {"pc", "why", "required", "child", "inflight"} \subseteq Fields
  BY DEF Sparing, Fields
<1>2. ASSUME \A x \in {"pc", "why", "required"} :
               worker'[w][x] = IF x \in DOMAIN r THEN r[x] ELSE worker[w][x]
      PROVE  /\ \/ worker'[w].pc \in {"restart", "dropped"}
                \/ worker'[w].pc = "idle" /\ worker'[w].required
             /\ worker'[w].required \in BOOLEAN /\ worker'[w].why \in Reasons
  <2>1. worker'[w].pc = r.pc
    BY <1>2 DEF Sparing
  <2>2. worker'[w].required = IF "required" \in DOMAIN r THEN TRUE ELSE worker[w].required
    BY <1>2 DEF Sparing
  <2>3. worker'[w].why = worker[w].why \/ (worker'[w].why = r.why /\ "why" \in DOMAIN r)
    BY <1>2 DEF Sparing
  <2> QED
    BY <1>0, <2>1, <2>2, <2>3 DEF Sparing
<1>3. ASSUME With(w, r) PROVE SameHandles(w) /\ Spare(worker'[w])
  <2>1. /\ OnlyOf(w)
        /\ \A x \in Fields : worker'[w][x] = IF x \in DOMAIN r THEN r[x] ELSE worker[w][x]
    BY <1>1, <1>3, WithEffect
  <2>2. worker'[w].child = worker[w].child /\ worker'[w].inflight = worker[w].inflight
    BY <1>1, <2>1 DEF Sparing
  <2>3. \A x \in {"pc", "why", "required"} :
          worker'[w][x] = IF x \in DOMAIN r THEN r[x] ELSE worker[w][x]
    BY <1>1, <2>1
  <2> QED
    BY <1>0, <1>2, <2>1, <2>2, <2>3 DEF SameHandles, Spare
<1>4. ASSUME NEW f, With(w, Over(f, r)), DOMAIN f \subseteq {"child", "inflight"}
      PROVE  /\ OnlyOf(w)
             /\ "child" \in DOMAIN f => worker'[w].child = f.child
             /\ "child" \notin DOMAIN f => worker'[w].child = worker[w].child
             /\ "inflight" \in DOMAIN f => worker'[w].inflight = f.inflight
             /\ "inflight" \notin DOMAIN f => worker'[w].inflight = worker[w].inflight
             /\ worker'[w].child = None \/ worker'[w].inflight = None => Spare(worker'[w])
  <2>0. DOMAIN f \subseteq Fields
    BY <1>1, <1>4
  <2>1. /\ OnlyOf(w)
        /\ \A x \in Fields : worker'[w][x] = IF x \in DOMAIN f THEN f[x]
                                             ELSE IF x \in DOMAIN r THEN r[x] ELSE worker[w][x]
    BY <1>1, <1>4, <2>0, WithOverEffect
  <2>2. /\ "child" \in DOMAIN f => worker'[w].child = f.child
        /\ "child" \notin DOMAIN f => worker'[w].child = worker[w].child
        /\ "inflight" \in DOMAIN f => worker'[w].inflight = f.inflight
        /\ "inflight" \notin DOMAIN f => worker'[w].inflight = worker[w].inflight
    BY <1>1, <2>1 DEF Sparing
  <2>3. \A x \in {"pc", "why", "required"} :
          worker'[w][x] = IF x \in DOMAIN r THEN r[x] ELSE worker[w][x]
    BY <1>1, <1>4, <2>1
  <2> QED
    BY <1>2, <2>1, <2>2, <2>3 DEF Spare
<1> QED
  BY <1>3, <1>4

\* A failed operation restarts the worker or marks it.  A failed restart ends the call; the
\* worker was marked before, or is not one yet.
LEMMA FailuresSpare ==
  ASSUME NEW w
  PROVE  /\ \A kind : Sparing(w, OperationFails(w, kind))
         /\ Sparing(w, Over([required |-> TRUE], RestartFails(w)))
         /\ worker[w].required = TRUE => Sparing(w, Return)
         /\ worker[w].required = TRUE \/ worker[w].then = "start" => Sparing(w, RestartFails(w))
         /\ worker[w].required = TRUE \/ worker[w].then = "start" \/ worker[w].why = "drop" =>
              Sparing(w, Dropped(w))
<1> USE DEF Fields, Reasons
<1>1. ASSUME NEW kind PROVE Sparing(w, OperationFails(w, kind))
  BY DEF OperationFails, Over, Return, Sparing
<1>2. Sparing(w, Over([required |-> TRUE], RestartFails(w)))
  BY DEF RestartFails, Over, Return, Sparing
<1>3. worker[w].required = TRUE => Sparing(w, Return)
  BY DEF Return, Sparing
<1>4. worker[w].required = TRUE \/ worker[w].then = "start" => Sparing(w, RestartFails(w))
  BY DEF RestartFails, Over, Return, Sparing
<1>5. Sparing(w, Over([pc |-> "dropped"], Return))
  BY DEF Over, Return, Sparing
<1> QED
  BY <1>1, <1>2, <1>3, <1>4, <1>5 DEF Dropped

\* The same for the handles that the steps assign.
LEMMA SparingHandles ==
  ASSUME WorkerInv, NEW w \in Workers, NEW r, Sparing(w, r)
  PROVE  /\ With(w, Over([inflight |-> None], r)) =>
              /\ OnlyOf(w) /\ Spare(worker'[w])
              /\ worker'[w].child = worker[w].child /\ worker'[w].inflight = None
         /\ With(w, Over([child |-> None], r)) =>
              /\ OnlyOf(w) /\ Spare(worker'[w])
              /\ worker'[w].child = None /\ worker'[w].inflight = worker[w].inflight
         /\ With(w, Over([child |-> None, inflight |-> None], r)) =>
              /\ OnlyOf(w) /\ Spare(worker'[w])
              /\ worker'[w].child = None /\ worker'[w].inflight = None
<1> DEFINE f == [inflight |-> None]
           g == [child |-> None]
           h == [child |-> None, inflight |-> None]
<1>1. /\ DOMAIN f = {"inflight"} /\ f.inflight = None
      /\ DOMAIN g = {"child"} /\ g.child = None
      /\ DOMAIN h = {"child", "inflight"} /\ h.child = None /\ h.inflight = None
  OBVIOUS
<1> HIDE DEF f, g, h
<1>2. With(w, Over(f, r)) =>
        /\ OnlyOf(w) /\ Spare(worker'[w])
        /\ worker'[w].child = worker[w].child /\ worker'[w].inflight = None
  BY <1>1, SparingEffect
<1>3. With(w, Over(g, r)) =>
        /\ OnlyOf(w) /\ Spare(worker'[w])
        /\ worker'[w].child = None /\ worker'[w].inflight = worker[w].inflight
  BY <1>1, SparingEffect
<1>4. With(w, Over(h, r)) =>
        /\ OnlyOf(w) /\ Spare(worker'[w])
        /\ worker'[w].child = None /\ worker'[w].inflight = None
  BY <1>1, SparingEffect
<1> QED
  BY <1>2, <1>3, <1>4 DEF f, g, h

\* Such a step keeps the invariant, with and without a look at the slot.
LEMMA SpareStep ==
  ASSUME LifeInv, NEW w \in Workers, NEW r, Sparing(w, r), With(w, r)
  PROVE  /\ UNCHANGED <<child, reader, slot>> => LifeInv'
         /\ \A p \in SlotPolls : SlotStep(p, Reclaimed(p)) => LifeInv'
<1>1. SameHandles(w) /\ Spare(worker'[w])
  BY SparingEffect DEF LifeInv
<1>2. /\ PlaceOK(worker'[w]) /\ worker'[w].pc # "launch"
      /\ \A cp : MarkOK(worker'[w], cp)
  BY <1>1, SpareOK DEF Spare
<1> QED
  BY <1>1, <1>2, QuietStep, ReclaimStep DEF GoodAfter

\* The worker w has the fields f as before.
Same(w, f) == \A x \in f : worker'[w][x] = worker[w][x]

\* The process of w is released, because of y.
LEMMA ReleaseEffect ==
  ASSUME WorkerInv, NEW w \in Workers, NEW y, With(w, [pc |-> "release", why |-> y])
  PROVE  /\ OnlyOf(w) /\ worker'[w].pc = "release" /\ worker'[w].why = y
         /\ Same(w, {"child", "inflight", "required", "then"})
<1> DEFINE r == [pc |-> "release", why |-> y]
<1>1. DOMAIN r = {"pc", "why"} /\ r.pc = "release" /\ r.why = y
  OBVIOUS
<1>2. With(w, r)
  OBVIOUS
<1> HIDE DEF r
<1> QED
  BY <1>1, <1>2, WithEffect DEF Same, Fields

-------------------------------------------------------------------------------
(* Requests.                                                               *)

\* A request operates or restarts first.
LEMMA RequestStep == ASSUME LifeInv, NEW w \in Workers, Request(w) PROVE LifeInv'
<1> USE DEF Fields
<1>1. CASE With(w, [pc |-> "restart", then |-> "first", target |-> worker[w].classpath])
  <2>1. Sparing(w, [pc |-> "restart", then |-> "first", target |-> worker[w].classpath])
    BY DEF Sparing
  <2> QED
    BY <1>1, <2>1, SpareStep DEF Request
<1>2. CASE /\ ~worker[w].required /\ worker[w].analyses < MaxAnalyses
           /\ With(w, [pc |-> "operate", then |-> "first"])
  <2>1. /\ OnlyOf(w) /\ worker'[w].pc = "operate"
        /\ Same(w, {"why", "child", "inflight", "required", "classpath", "target"})
    BY <1>2, WithEffect DEF LifeInv, Same
  <2>2. GoodAfter(w)
    BY <1>2, <2>1, Before DEF LifeInv, Request, At, Same, GoodAfter, PlaceOK, MarkOK, Dropping
  <2> QED
    BY <2>1, <2>2, QuietStep DEF Request, SameHandles, Same
<1> QED
  BY <1>1, <1>2 DEF Request

\* Another classpath needs another process.
LEMMA ReconfigureStep == ASSUME LifeInv, NEW w \in Workers, Reconfigure(w) PROVE LifeInv'
<1>1. PICK cp \in Classpaths : With(w, [pc |-> "restart", then |-> "return", target |-> cp])
  BY DEF Reconfigure
<1>2. Sparing(w, [pc |-> "restart", then |-> "return", target |-> cp])
  BY DEF Sparing, Fields
<1> QED
  BY <1>1, <1>2, SpareStep DEF Reconfigure

\* A drop begins with a release.
LEMMA DropStep == ASSUME LifeInv, NEW w \in Workers, Drop(w) PROVE LifeInv'
<1>1. /\ OnlyOf(w) /\ worker'[w].pc = "release" /\ worker'[w].why = "drop"
      /\ Same(w, {"child", "inflight", "required", "then"})
  BY ReleaseEffect DEF LifeInv, Drop
<1>2. GoodAfter(w)
  BY <1>1, Before DEF LifeInv, Same, GoodAfter, PlaceOK, MarkOK, Reasons
<1> QED
  BY <1>1, <1>2, QuietStep DEF Drop, SameHandles, Same

\* The request is written: a reader is started, or the operation fails.
LEMMA OperateStep == ASSUME LifeInv, NEW w \in Workers, Operate(w) PROVE LifeInv'
<1>1. CASE With(w, OperationFails(w, "TimedOut")) /\ UNCHANGED reader
  BY <1>1, SpareStep, FailuresSpare DEF Operate
<1>2. CASE /\ worker[w].child # None /\ worker[w].inflight = None
           /\ With(w, [pc |-> "reading", inflight |-> worker[w].child])
           /\ reader' = [reader EXCEPT ![worker[w].child] = "reading"]
  <2>1. /\ OnlyOf(w) /\ worker'[w].pc = "reading" /\ worker'[w].inflight = worker[w].child
        /\ Same(w, {"why", "child", "required", "classpath", "target", "then"})
    BY <1>2, WithEffect DEF LifeInv, Same, Fields
  <2>2. Has' = Has /\ Reads' = [Reads EXCEPT ![w] = Has[w]]
        /\ Has[w] = worker[w].child /\ Reads[w] = worker[w].inflight
    BY <2>1, HandlesAfter DEF LifeInv, OnlyOf, Same, Has, Reads
  <2>3. HandleInv'
    BY <1>2, <2>2, OwnStart DEF LifeInv, HandleInv, Operate
  <2>4. GoodAfter(w)
    BY <1>2, <2>1, Before DEF LifeInv, Operate, At, Same, GoodAfter, PlaceOK, MarkOK, Dropping
  <2> QED
    BY <2>1, <2>3, <2>4, StepOf DEF Operate
<1> QED
  BY <1>1, <1>2 DEF Operate

\* The write failed, the request was refused, or the answer is late.
LEMMA UnansweredStep ==
  ASSUME LifeInv, NEW w \in Workers, WriteFails(w) \/ Refuse(w) \/ AnswerLate(w)
  PROVE  LifeInv'
<1>1. CASE WriteFails(w) \/ AnswerLate(w)
  BY <1>1, SpareStep, FailuresSpare DEF WriteFails, AnswerLate
<1>2. CASE Refuse(w)
  <2>1. /\ OnlyOf(w) /\ worker'[w].pc = "idle" /\ worker'[w].why = "drop"
        /\ Same(w, {"child", "inflight", "required", "classpath"})
    BY <1>2, WithEffect DEF LifeInv, Refuse, Return, Same, Fields
  <2>2. GoodAfter(w)
    BY <1>2, <2>1, Before
    DEF LifeInv, Refuse, At, Same, GoodAfter, PlaceOK, MarkOK, Reasons, Dropping
  <2> QED
    BY <1>2, <2>1, <2>2, QuietStep DEF Refuse, SameHandles, Same
<1> QED
  BY <1>1, <1>2

\* The worker's reader is joined in a step that keeps its child.
LEMMA JoinStep ==
  ASSUME LifeInv, NEW w \in Workers, OnlyOf(w), GoodAfter(w), worker'[w].pc # "launch",
         worker[w].inflight # None, worker'[w].inflight = None,
         worker'[w].child = worker[w].child,
         reader' = [reader EXCEPT ![worker[w].inflight] = "none"], UNCHANGED <<child, slot>>
  PROVE  LifeInv'
<1>1. Has' = Has /\ Reads' = [Reads EXCEPT ![w] = None] /\ Reads[w] = worker[w].inflight
  BY HandlesAfter DEF LifeInv, OnlyOf, Reads
<1>2. HandleInv'
  BY <1>1, OwnJoin DEF LifeInv, HandleInv
<1> QED
  BY <1>2, StepOf

\* The worker's child is reaped in a step that keeps its reader.
LEMMA ReapStep ==
  ASSUME LifeInv, NEW w \in Workers, OnlyOf(w), GoodAfter(w), worker'[w].pc # "launch",
         worker[w].child # None, worker'[w].child = None,
         worker'[w].inflight = worker[w].inflight,
         Reaped(worker[w].child), UNCHANGED <<reader, slot>>
  PROVE  LifeInv'
<1>1. Reads' = Reads /\ Has' = [Has EXCEPT ![w] = None] /\ Has[w] = worker[w].child
  BY HandlesAfter DEF LifeInv, OnlyOf, Has
<1>2. HandleInv'
  BY <1>1, OwnReap DEF LifeInv, HandleInv, Reaped
<1>3. ASSUME NEW v \in Workers \ {w}, worker[v].child # None
      PROVE  child'[worker[v].child] = child[worker[v].child]
  <2>1. worker[v].child # worker[w].child /\ worker[v].child \in DOMAIN child
    BY <1>3, OnlyHolder DEF LifeInv, HandleInv, Has, Owned, Shapes
  <2> QED
    BY <2>1 DEF Reaped
<1> QED
  BY <1>2, <1>3, StepOf

\* The answer arrives, or the end of stdout does.
LEMMA AnswerStep == ASSUME LifeInv, NEW w \in Workers, Answer(w) PROVE LifeInv'
<1>0. /\ At(w, "reading") /\ worker[w].inflight = worker[w].child /\ worker[w].child # None
      /\ reader' = [reader EXCEPT ![worker[w].inflight] = "none"] /\ UNCHANGED <<child, slot>>
  BY Before DEF LifeInv, Answer, At, PlaceOK
<1>1. CASE With(w, Over([inflight |-> None, analyses |-> worker[w].analyses + 1], Return))
  <2>1. /\ OnlyOf(w) /\ worker'[w].pc = "idle" /\ worker'[w].why = "drop"
        /\ worker'[w].inflight = None /\ Same(w, {"child", "required", "classpath"})
    BY <1>1, WithOverEffect DEF LifeInv, Return, Same, Fields
  <2>2. GoodAfter(w)
    BY <1>0, <2>1, Before DEF LifeInv, At, Same, GoodAfter, PlaceOK, MarkOK, Reasons, Dropping
  <2> QED
    BY <1>0, <2>1, <2>2, JoinStep DEF Same
<1>2. CASE With(w, Over([inflight |-> None], OperationFails(w, "Other")))
  <2>1. /\ OnlyOf(w) /\ Spare(worker'[w])
        /\ worker'[w].inflight = None /\ worker'[w].child = worker[w].child
    BY <1>2, SparingHandles, FailuresSpare DEF LifeInv
  <2>2. GoodAfter(w) /\ worker'[w].pc # "launch"
    BY <2>1, SpareOK DEF GoodAfter, Spare
  <2> QED
    BY <1>0, <2>1, <2>2, JoinStep
<1>3. CASE With(w, [pc |-> "observe", inflight |-> None])
  <2>1. /\ OnlyOf(w) /\ worker'[w].pc = "observe"
        /\ worker'[w].inflight = None /\ Same(w, {"why", "child", "required", "then"})
    BY <1>3, WithEffect DEF LifeInv, Same, Fields
  <2>2. GoodAfter(w)
    BY <1>0, <2>1, Before DEF LifeInv, At, Same, GoodAfter, PlaceOK, MarkOK, Dropping
  <2> QED
    BY <1>0, <2>1, <2>2, JoinStep DEF Same
<1> QED
  BY <1>1, <1>2, <1>3 DEF Answer

\* The child has ended and is reaped, or is released.
LEMMA ObserveStep == ASSUME LifeInv, NEW w \in Workers, Observe(w) PROVE LifeInv'
<1>0. /\ At(w, "observe") /\ worker[w].child # None /\ worker[w].inflight = None
      /\ UNCHANGED <<reader, slot>>
  BY Before DEF LifeInv, Observe, At, PlaceOK
<1>1. CASE /\ With(w, Over([child |-> None], OperationFails(w, "Other")))
           /\ Reaped(worker[w].child)
  <2>1. /\ OnlyOf(w) /\ Spare(worker'[w])
        /\ worker'[w].inflight = worker[w].inflight /\ worker'[w].child = None
    BY <1>1, SparingHandles, FailuresSpare DEF LifeInv
  <2>2. GoodAfter(w) /\ worker'[w].pc # "launch"
    BY <2>1, SpareOK DEF GoodAfter, Spare
  <2> QED
    BY <1>0, <1>1, <2>1, <2>2, ReapStep
<1>2. ASSUME NEW y \in {"observe failed", "observe running"},
             With(w, [pc |-> "release", why |-> y]), UNCHANGED child
      PROVE  LifeInv'
  <2>1. /\ OnlyOf(w) /\ worker'[w].pc = "release" /\ worker'[w].why = y
        /\ Same(w, {"child", "inflight", "required", "then"})
    BY <1>2, ReleaseEffect DEF LifeInv
  <2>2. GoodAfter(w)
    BY <1>0, <2>1, Before DEF LifeInv, At, Same, GoodAfter, PlaceOK, MarkOK, Reasons, Dropping
  <2> QED
    BY <1>0, <1>2, <2>1, <2>2, QuietStep DEF SameHandles, Same
<1>3. PICK p \in Polls(worker[w].child) :
        CASE p = "Exited" -> /\ With(w, Over([child |-> None], OperationFails(w, "Other")))
                             /\ Reaped(worker[w].child)
          [] p = "Failed" -> With(w, [pc |-> "release", why |-> "observe failed"])
                             /\ UNCHANGED child
          [] p = "Running" -> With(w, [pc |-> "release", why |-> "observe running"])
                              /\ UNCHANGED child
  BY DEF Observe
<1>4. p \in {"Exited", "Failed", "Running"}
  BY <1>3 DEF Polls
<1> QED
  BY <1>1, <1>2, <1>3, <1>4

-------------------------------------------------------------------------------
(* Restart.                                                                *)

\* A restart marks the worker, and goes on if the slot is free.
LEMMA RestartStep == ASSUME LifeInv, NEW w \in Workers, Restart(w) PROVE LifeInv'
<1>0. PICK p \in SlotPolls :
        /\ SlotStep(p, Reclaimed(p))
        /\ With(w, Over([required |-> TRUE], IF Reclaimed(p) # Free THEN RestartFails(w)
                                             ELSE [pc |-> "release", why |-> "restart"]))
  BY DEF Restart
<1>1. CASE Reclaimed(p) # Free
  BY <1>0, <1>1, SpareStep, FailuresSpare
<1>2. CASE Reclaimed(p) = Free
  <2>1. /\ OnlyOf(w) /\ worker'[w].pc = "release" /\ worker'[w].why = "restart"
        /\ worker'[w].required = TRUE /\ Same(w, {"child", "inflight"})
    BY <1>0, <1>2, WithOverEffect DEF LifeInv, Same, Fields
  <2>2. PlaceOK(worker'[w]) /\ \A cp : MarkOK(worker'[w], cp)
    BY <2>1, Before DEF LifeInv, Same, PlaceOK, MarkOK, Reasons, Dropping
  <2> QED
    BY <1>0, <1>2, <2>1, <2>2, ReclaimStep DEF SameHandles, Same
<1> QED
  BY <1>1, <1>2

\* A child may be launched if the slot is free.
LEMMA SpawnStep == ASSUME LifeInv, NEW w \in Workers, Spawn(w) PROVE LifeInv'
<1>0. PICK p \in SlotPolls :
        /\ SlotStep(p, Reclaimed(p))
        /\ With(w, IF Reclaimed(p) # Free THEN RestartFails(w) ELSE [pc |-> "launch"])
  BY DEF Spawn
<1>a. /\ worker[w].child = None /\ worker[w].inflight = None /\ worker[w].required \in BOOLEAN
      /\ worker[w].why \in Reasons /\ (worker[w].required = TRUE \/ worker[w].then = "start")
  BY Before DEF LifeInv, Spawn, At, PlaceOK, MarkOK
<1>1. CASE Reclaimed(p) # Free
  BY <1>0, <1>a, <1>1, SpareStep, FailuresSpare
<1>2. CASE Reclaimed(p) = Free
  <2>1. /\ OnlyOf(w) /\ worker'[w].pc = "launch"
        /\ Same(w, {"child", "inflight", "required", "then", "why"})
    BY <1>0, <1>2, WithEffect DEF LifeInv, Same, Fields
  <2>2. PlaceOK(worker'[w]) /\ \A cp : MarkOK(worker'[w], cp)
    BY <1>a, <2>1 DEF Same, PlaceOK, MarkOK, Dropping
  <2> QED
    BY <1>0, <1>2, <2>1, <2>2, ReclaimStep DEF SameHandles, Same
<1> QED
  BY <1>1, <1>2

\* The child is launched with the classpath that is being applied, or cannot be.
LEMMA LaunchStep == ASSUME LifeInv, NEW w \in Workers, Launch(w) PROVE LifeInv'
<1>0. /\ worker[w].child = None /\ worker[w].inflight = None /\ worker[w].required \in BOOLEAN
      /\ worker[w].why \in Reasons /\ (worker[w].required = TRUE \/ worker[w].then = "start")
      /\ slot.child = None \/ slot.child[1] # w
  BY Before DEF LifeInv, LaunchInv, Launch, At, PlaceOK, MarkOK
<1>1. CASE With(w, RestartFails(w)) /\ UNCHANGED child
  BY <1>0, <1>1, SpareStep, FailuresSpare DEF Launch
<1>2. ASSUME NEW c \in Unused(w), With(w, [pc |-> "greet", child |-> c]),
             child' = [child EXCEPT ![c] = [life |-> "up", classpath |-> worker[w].target,
                                            kill |-> "no"]]
      PROVE  LifeInv'
  <2>1. c \in Children /\ c[1] = w /\ child[c] = Absent /\ reader[c] = "none" /\ c # None
    BY <1>2, ChildFacts DEF Unused
  <2>2. /\ OnlyOf(w) /\ worker'[w].pc = "greet" /\ worker'[w].child = c
        /\ Same(w, {"inflight", "required", "then", "why", "target"})
    BY <1>2, WithEffect DEF LifeInv, Same, Fields
  <2>3. Reads' = Reads /\ Has' = [Has EXCEPT ![w] = c] /\ Has[w] = None
    BY <1>0, <2>2, HandlesAfter DEF LifeInv, OnlyOf, Same, Has
  <2>4. HandleInv'
    BY <1>0, <1>2, <2>1, <2>3, OwnLaunch DEF LifeInv, HandleInv, Launch
  <2>5. child'[c].classpath = worker[w].target
        /\ \A d \in Children : d # c => child'[d] = child[d]
    BY <1>2, <2>1 DEF LifeInv, HandleInv, Owned, Shapes
  <2>6. GoodAfter(w)
    BY <1>0, <2>1, <2>2, <2>5 DEF Same, GoodAfter, PlaceOK, MarkOK, Dropping
  <2>7. ASSUME NEW v \in Workers \ {w}, worker[v].child # None
        PROVE  child'[worker[v].child] = child[worker[v].child]
    <3>1. worker[v].child \in Children /\ worker[v].child # c
      BY <2>1, <2>7, OnlyHolder DEF LifeInv, HandleInv, Has
    <3> QED
      BY <2>5, <3>1
  <2> QED
    BY <2>2, <2>4, <2>6, <2>7, StepOf DEF Launch
<1> QED
  BY <1>1, <1>2 DEF Launch

\* The new process is greeted.
LEMMA GreetStep == ASSUME LifeInv, NEW w \in Workers, Greet(w) PROVE LifeInv'
<1>0. /\ worker[w].child # None /\ worker[w].inflight = None /\ worker[w].required \in BOOLEAN
      /\ worker[w].why \in Reasons /\ (worker[w].required = TRUE \/ worker[w].then = "start")
      /\ child[worker[w].child].classpath = worker[w].target
  BY Before DEF LifeInv, Greet, At, PlaceOK, MarkOK
<1>1. CASE With(w, [pc |-> "release", why |-> "drop new"]) /\ UNCHANGED reader
  <2>1. /\ OnlyOf(w) /\ worker'[w].pc = "release" /\ worker'[w].why = "drop new"
        /\ Same(w, {"child", "inflight", "required", "then"})
    BY <1>1, ReleaseEffect DEF LifeInv
  <2>2. GoodAfter(w)
    BY <1>0, <2>1 DEF Same, GoodAfter, PlaceOK, MarkOK, Reasons, Dropping
  <2> QED
    BY <1>1, <2>1, <2>2, QuietStep DEF Greet, SameHandles, Same
<1>2. CASE /\ With(w, [pc |-> "ready", inflight |-> worker[w].child])
           /\ reader' = [reader EXCEPT ![worker[w].child] = "reading"]
  <2>1. /\ OnlyOf(w) /\ worker'[w].pc = "ready" /\ worker'[w].inflight = worker[w].child
        /\ Same(w, {"why", "child", "required", "target", "then"})
    BY <1>2, WithEffect DEF LifeInv, Same, Fields
  <2>2. Has' = Has /\ Reads' = [Reads EXCEPT ![w] = Has[w]]
        /\ Has[w] = worker[w].child /\ Reads[w] = worker[w].inflight
    BY <2>1, HandlesAfter DEF LifeInv, OnlyOf, Same, Has, Reads
  <2>3. HandleInv'
    BY <1>0, <1>2, <2>2, OwnStart DEF LifeInv, HandleInv, Greet
  <2>4. GoodAfter(w)
    BY <1>0, <2>1 DEF Greet, Same, GoodAfter, PlaceOK, MarkOK, Dropping
  <2> QED
    BY <2>1, <2>3, <2>4, StepOf DEF Greet
<1> QED
  BY <1>1, <1>2 DEF Greet

\* The new process is ready and replaces the old one.
LEMMA AdoptStep == ASSUME LifeInv, NEW w \in Workers, Adopt(w) PROVE LifeInv'
<1>0. /\ worker[w].child # None /\ worker[w].inflight = worker[w].child
      /\ worker[w].why \in Reasons /\ child[worker[w].child].classpath = worker[w].target
      /\ reader' = [reader EXCEPT ![worker[w].inflight] = "none"] /\ UNCHANGED <<child, slot>>
  BY Before DEF LifeInv, Adopt, At, PlaceOK, MarkOK
<1>1. /\ OnlyOf(w) /\ worker'[w].pc \in {"operate", "idle"} /\ worker'[w].inflight = None
      /\ worker'[w].required = FALSE /\ worker'[w].classpath = worker[w].target
      /\ worker'[w].why \in {worker[w].why, "drop"} /\ worker'[w].child = worker[w].child
  <2>1. CASE worker[w].then \in {"first", "second"}
    BY <2>1, WithOverEffect DEF LifeInv, Adopt, Same, Fields
  <2>2. CASE worker[w].then \notin {"first", "second"}
    BY <2>2, WithOverEffect DEF LifeInv, Adopt, Return, Same, Fields
  <2> QED
    BY <2>1, <2>2
<1>2. GoodAfter(w)
  BY <1>0, <1>1 DEF GoodAfter, PlaceOK, MarkOK, Reasons, Dropping
<1> QED
  BY <1>0, <1>1, <1>2, JoinStep

\* The new process is not ready: it is released, with its reader or without.
LEMMA NotReadyStep == ASSUME LifeInv, NEW w \in Workers, NotReady(w) PROVE LifeInv'
<1>0. /\ worker[w].child # None /\ worker[w].inflight = worker[w].child
      /\ worker[w].required \in BOOLEAN /\ (worker[w].required = TRUE \/ worker[w].then = "start")
      /\ UNCHANGED <<child, slot>>
  BY Before DEF LifeInv, NotReady, At, PlaceOK, MarkOK
<1>1. CASE /\ With(w, [pc |-> "release", why |-> "drop new", inflight |-> None])
           /\ reader' = [reader EXCEPT ![worker[w].child] = "none"]
  <2>1. /\ OnlyOf(w) /\ worker'[w].pc = "release" /\ worker'[w].why = "drop new"
        /\ worker'[w].inflight = None /\ Same(w, {"child", "required", "then"})
    <3> DEFINE r == [pc |-> "release", why |-> "drop new", inflight |-> None]
    <3>1. /\ DOMAIN r = {"pc", "why", "inflight"} /\ With(w, r)
          /\ r.pc = "release" /\ r.why = "drop new" /\ r.inflight = None
      BY <1>1
    <3> HIDE DEF r
    <3> QED
      BY <3>1, WithEffect DEF LifeInv, Same, Fields
  <2>2. GoodAfter(w)
    BY <1>0, <2>1 DEF Same, GoodAfter, PlaceOK, MarkOK, Reasons, Dropping
  <2> QED
    BY <1>0, <1>1, <2>1, <2>2, JoinStep DEF Same
<1>2. CASE With(w, [pc |-> "release", why |-> "drop new"]) /\ UNCHANGED reader
  <2>1. /\ OnlyOf(w) /\ worker'[w].pc = "release" /\ worker'[w].why = "drop new"
        /\ Same(w, {"child", "inflight", "required", "then"})
    BY <1>2, ReleaseEffect DEF LifeInv
  <2>2. GoodAfter(w)
    BY <1>0, <2>1 DEF Same, GoodAfter, PlaceOK, MarkOK, Reasons, Dropping
  <2> QED
    BY <1>0, <1>2, <2>1, <2>2, QuietStep DEF SameHandles, Same
<1> QED
  BY <1>1, <1>2 DEF NotReady

-------------------------------------------------------------------------------
(* Release.                                                                *)

\* What a worker does when release returns q and left it the child left: its restart goes
\* on, the drop of its process does, or the call fails.
LEMMA ReturnedKinds ==
  ASSUME WorkerInv, NEW w \in Workers, At(w, "release"), NEW q, NEW left
  PROVE  \/ Sparing(w, Returned(w, q, left))
         \/ /\ Returned(w, q, left) = [pc |-> "spawn"] /\ q = "ok"
            /\ worker[w].why = "restart" /\ worker[w].required = TRUE
         \/ /\ worker[w].why \in {"drop new", "drop"}
            /\ \/ Returned(w, q, left) = [pc |-> "retain reader"] /\ left = None
               \/ Returned(w, q, left) = [pc |-> "quarantine"] /\ left # None
<1>0. /\ worker[w].why \in Reasons /\ worker[w].required \in BOOLEAN
      /\ worker[w].why = "restart" => worker[w].required = TRUE
  BY Before DEF At, MarkOK
<1>1. CASE worker[w].why = "restart"
  BY <1>0, <1>1, FailuresSpare DEF Returned
<1>2. CASE worker[w].why = "observe failed"
  BY <1>2, FailuresSpare DEF Returned
<1>3. CASE worker[w].why = "observe running"
  BY <1>3, FailuresSpare DEF Returned
<1>4. CASE worker[w].why \in {"drop new", "drop"}
  <2>1. Returned(w, q, left) = DropFields(w, left)
    BY <1>4 DEF Returned
  <2> QED
    BY <1>4, <2>1 DEF DropFields
<1> QED
  BY <1>0, <1>1, <1>2, <1>3, <1>4 DEF Reasons

\* A worker that goes on like this, keeps its mark and has the handles of the new place.
LEMMA GoesOn ==
  ASSUME WorkerInv, NEW w \in Workers, At(w, "release"),
         Same(w, {"why", "then", "required"}),
         \/ /\ worker'[w].pc = "spawn" /\ worker[w].why = "restart" /\ worker[w].required = TRUE
            /\ worker'[w].child = None /\ worker'[w].inflight = None
         \/ /\ worker'[w].pc = "retain reader" /\ worker'[w].child = None
            /\ worker[w].why \in {"drop new", "drop"}
         \/ /\ worker'[w].pc = "quarantine" /\ worker'[w].child # None
            /\ worker[w].why \in {"drop new", "drop"}
            /\ worker'[w].child = worker[w].child /\ worker'[w].inflight = worker[w].inflight
  PROVE  PlaceOK(worker'[w]) /\ (\A cp : MarkOK(worker'[w], cp)) /\ worker'[w].pc # "launch"
<1>1. /\ worker'[w].why = worker[w].why /\ worker'[w].then = worker[w].then
      /\ worker'[w].required = worker[w].required
  BY DEF Same
<1>2. /\ worker[w].required \in BOOLEAN /\ worker[w].why \in Reasons
      /\ worker[w].why = "drop new" => worker[w].required = TRUE \/ worker[w].then = "start"
      /\ worker[w].child = None \/ worker[w].inflight = None \/ worker[w].child = worker[w].inflight
  BY Before DEF At, PlaceOK, MarkOK, Dropping
<1> QED
  BY <1>1, <1>2 DEF PlaceOK, MarkOK, Dropping

\* After a release that left the handles to the worker, or found none.
LEMMA LeftEffect ==
  ASSUME WorkerInv, NEW w \in Workers, At(w, "release"), NEW q,
         q = "ok" => worker[w].child = None /\ worker[w].inflight = None,
         With(w, Returned(w, q, worker[w].child))
  PROVE  /\ SameHandles(w) /\ PlaceOK(worker'[w]) /\ (\A cp : MarkOK(worker'[w], cp))
         /\ worker'[w].pc # "launch"
<1> DEFINE r == Returned(w, q, worker[w].child)
<1>1. CASE Sparing(w, r)
  <2>1. SameHandles(w) /\ Spare(worker'[w])
    BY <1>1, SparingEffect
  <2> QED
    BY <2>1, SpareOK DEF Spare
<1>2. ASSUME NEW p \in {"spawn", "retain reader", "quarantine"}, r = [pc |-> p]
      PROVE  /\ SameHandles(w) /\ worker'[w].pc = p /\ Same(w, {"why", "then", "required"})
  <2> DEFINE f == [pc |-> p]
  <2>1. DOMAIN f = {"pc"} /\ f.pc = p /\ With(w, f)
    BY <1>2
  <2> HIDE DEF f
  <2> QED
    BY <2>1, WithEffect DEF SameHandles, Same, Fields
<1>3. CASE ~Sparing(w, r)
  BY <1>2, <1>3, ReturnedKinds, GoesOn DEF SameHandles
<1> QED
  BY <1>1, <1>3

\* After a release that took the handles.
LEMMA TakenEffect ==
  ASSUME WorkerInv, NEW w \in Workers, At(w, "release"), NEW q,
         With(w, Over([child |-> None, inflight |-> None], Returned(w, q, None)))
  PROVE  /\ OnlyOf(w) /\ worker'[w].child = None /\ worker'[w].inflight = None
         /\ PlaceOK(worker'[w]) /\ (\A cp : MarkOK(worker'[w], cp)) /\ worker'[w].pc # "launch"
<1> DEFINE r == Returned(w, q, None)
<1>1. CASE Sparing(w, r)
  <2>1. OnlyOf(w) /\ Spare(worker'[w]) /\ worker'[w].child = None /\ worker'[w].inflight = None
    BY <1>1, SparingHandles
  <2> QED
    BY <2>1, SpareOK DEF Spare
<1>2. ASSUME NEW p \in {"spawn", "retain reader", "quarantine"}, r = [pc |-> p]
      PROVE  /\ OnlyOf(w) /\ worker'[w].child = None /\ worker'[w].inflight = None
             /\ worker'[w].pc = p /\ Same(w, {"why", "then", "required"})
  <2> DEFINE f == [pc |-> p]
             h == [child |-> None, inflight |-> None]
  <2>1. /\ DOMAIN f = {"pc"} /\ f.pc = p /\ With(w, Over(h, f))
        /\ DOMAIN h = {"child", "inflight"} /\ h.child = None /\ h.inflight = None
    BY <1>2
  <2> HIDE DEF f, h
  <2> QED
    BY <2>1, WithOverEffect DEF Same, Fields
<1>3. CASE ~Sparing(w, r)
  BY <1>2, <1>3, ReturnedKinds, GoesOn
<1> QED
  BY <1>1, <1>3

\* Nothing to release, or the slot is taken.
LEMMA NotReleasedStep ==
  ASSUME LifeInv, NEW w \in Workers, ReleaseNothing(w) \/ SlotTaken(w)
  PROVE  LifeInv'
<1>1. CASE ReleaseNothing(w)
  BY <1>1, LeftEffect, QuietStep DEF LifeInv, ReleaseNothing, GoodAfter
<1>2. CASE SlotTaken(w)
  BY <1>2, LeftEffect, ReclaimStep DEF LifeInv, SlotTaken
<1> QED
  BY <1>1, <1>2

\* The child and the reader are released or parked.
LEMMA DisposeStep == ASSUME LifeInv, NEW w \in Workers, Dispose(w) PROVE LifeInv'
<1> DEFINE c == worker[w].child
           r == worker[w].inflight
           t == ChildrenAfter(Free)
           u == ReadersAfter(Free)
           has == [Has EXCEPT ![w] = None]
<1>1. PICK k \in {"done", "failed"}, e \in {"Exited", "Running", "Failed"}, late \in BOOLEAN :
        LET kept   == IF e = "Exited" THEN None ELSE c
            parked == [child |-> kept, reader |-> IF kept # None \/ late THEN r ELSE None]
        IN  /\ c = None => k = "done" /\ e = "Exited"
            /\ c # None /\ child[c].life # "up" => e # "Running"
            /\ late => r # None /\ ~Ended(r)
            /\ Failing(Fault(k) + Fault(e)) /\ slot' = parked
            /\ child' = IF c = None THEN t ELSE IF kept = None THEN [t EXCEPT ![c] = Absent]
                        ELSE [t EXCEPT ![c].kill = k]
            /\ reader' = IF r = None \/ parked.reader # None THEN u ELSE [u EXCEPT ![r] = "none"]
            /\ With(w, Over([child |-> None, inflight |-> None],
                            Returned(w, CASE parked = Free -> "ok"
                                          [] e = "Failed" -> "Other"
                                          [] OTHER -> "TimedOut", None)))
  BY Zenon DEF Dispose
<1> DEFINE kept == IF e = "Exited" THEN None ELSE c
           into == IF kept # None \/ late THEN r ELSE None
<1>2. /\ slot' = [child |-> kept, reader |-> into]
      /\ child' = IF c = None THEN t ELSE IF kept = None THEN [t EXCEPT ![c] = Absent]
                  ELSE [t EXCEPT ![c].kill = k]
      /\ reader' = IF r = None \/ into # None THEN u ELSE [u EXCEPT ![r] = "none"]
      /\ c = None => kept = None
      /\ kept \in {None, c} /\ into \in {None, r}
  BY <1>1
<1>3. /\ OnlyOf(w) /\ worker'[w].child = None /\ worker'[w].inflight = None
      /\ GoodAfter(w) /\ worker'[w].pc # "launch"
  <2>1. At(w, "release")
    BY DEF Dispose
  <2>2. PICK q : With(w, Over([child |-> None, inflight |-> None], Returned(w, q, None)))
    BY <1>1, Zenon
  <2> QED
    BY <2>1, <2>2, TakenEffect DEF LifeInv, GoodAfter
<1>4. /\ Has' = has /\ Reads' = [Reads EXCEPT ![w] = None]
      /\ Has[w] = c /\ Reads[w] = r /\ has[w] = None
      /\ c = None => has = Has
      /\ r = None => [Reads EXCEPT ![w] = None] = Reads
  BY <1>3, HandlesAfter DEF LifeInv, OnlyOf, Has, Reads
<1>5. /\ Owned(Has, Reads, t, u, Free)
      /\ \A v \in Workers : worker[v].child # None => t[worker[v].child] = child[worker[v].child]
  BY ReclaimKeeps DEF LifeInv, Dispose
<1> HIDE DEF c, r, t, u, has, kept, into
<1>6. Owned(has, Reads, child', u, [child |-> kept, reader |-> None])
  <2>1. Free.child = None /\ Free.reader = None /\ Free = [child |-> None, reader |-> None]
    BY DEF Free
  <2>2. CASE c = None
    BY <1>2, <1>4, <1>5, <2>1, <2>2
  <2>3. CASE c # None /\ kept = None
    <3>1. Owned([Has EXCEPT ![w] = None], Reads, [t EXCEPT ![Has[w]] = Absent], u, Free)
      BY <1>4, <1>5, <2>3, OwnReap
    <3> QED
      BY <1>2, <1>4, <2>1, <2>3, <3>1 DEF has
  <2>4. CASE c # None /\ kept # None
    <3>1. c \in Children /\ t[c].life # "none"
      BY <1>4, <1>5, <2>4, OnlyHolder
    <3>2. Owned(Has, Reads, [t EXCEPT ![c].kill = k], u, Free)
      BY <1>5, <3>1, OwnChange
    <3>3. Owned([Has EXCEPT ![w] = None], Reads, [t EXCEPT ![c].kill = k], u,
                [child |-> Has[w], reader |-> Free.reader])
      BY <1>4, <2>1, <2>4, <3>2, OwnParkChild
    <3> QED
      BY <1>2, <1>4, <2>1, <2>4, <3>3 DEF has
  <2> QED
    BY <2>2, <2>3, <2>4
<1>7. HandleInv'
  <2> DEFINE sl == [child |-> kept, reader |-> None]
  <2>0. sl.reader = None /\ sl.child = kept /\ Owned(has, Reads, child', u, sl)
    BY <1>6
  <2>1. CASE r = None
    BY <1>2, <1>4, <1>6, <2>1 DEF HandleInv
  <2>2. CASE r # None /\ into = None
    <3>1. Owned(has, [Reads EXCEPT ![w] = None], child', [u EXCEPT ![Reads[w]] = "none"],
                [child |-> kept, reader |-> None])
      BY <1>4, <1>6, <2>2, OwnJoin
    <3> QED
      BY <1>2, <1>4, <2>2, <3>1 DEF HandleInv
  <2>3. CASE r # None /\ into # None
    <3> HIDE DEF sl
    <3>1. Owned(has, [Reads EXCEPT ![w] = None], child', u,
                [child |-> sl.child, reader |-> Reads[w]])
      BY <1>4, <2>0, <2>3, OwnParkReader
    <3> QED
      BY <1>2, <1>4, <2>0, <2>3, <3>1 DEF HandleInv
  <2> QED
    BY <2>1, <2>2, <2>3
<1>8. ASSUME NEW v \in Workers \ {w}, worker[v].child # None
      PROVE  child'[worker[v].child].classpath = child[worker[v].child].classpath
  <2>1. worker[v].child \in Children /\ worker[v].child # c
    BY <1>4, <1>8, OnlyHolder DEF LifeInv, HandleInv, Has
  <2>2. DOMAIN t = Children
    BY <1>5 DEF Owned, Shapes
  <2>3. child'[worker[v].child] = t[worker[v].child]
    BY <1>2, <2>1, <2>2
  <2> QED
    BY <1>5, <1>8, <2>3
<1>9. slot'.child = None \/ slot'.child[1] = w
  <2>1. c # None => c[1] = w
    BY <1>4, OnlyHolder DEF LifeInv, HandleInv
  <2> QED
    BY <1>2, <2>1
<1> QED
  BY <1>3, <1>7, <1>8, <1>9, StepOf

-------------------------------------------------------------------------------
(* The drop of a process whose release found the slot taken.               *)

\* What is known of a worker that drops its process.
LEMMA DroppingFacts ==
  ASSUME WorkerInv, NEW w \in Workers,
         worker[w].pc \in {"quarantine", "retain child", "wait", "retain reader"}
  PROVE  /\ worker[w].required \in BOOLEAN /\ worker[w].why \in {"drop new", "drop"}
         /\ worker[w].why = "drop new" => worker[w].required = TRUE \/ worker[w].then = "start"
         /\ worker[w].pc # "retain reader" => worker[w].child # None
         /\ worker[w].pc = "retain reader" => worker[w].child = None
         /\ \/ worker[w].child = None \/ worker[w].inflight = None
            \/ worker[w].child = worker[w].inflight
BY Before DEF PlaceOK, MarkOK, Dropping

\* A worker that goes on with the drop.
LEMMA DropGoesOn ==
  ASSUME WorkerInv, NEW w \in Workers,
         worker[w].pc \in {"quarantine", "retain child", "wait", "retain reader"},
         Same(w, {"why", "then", "required", "inflight"}),
         \/ worker'[w].pc = "retain reader" /\ worker'[w].child = None
         \/ worker'[w].pc \in {"retain child", "wait"} /\ worker'[w].child = worker[w].child
            /\ worker[w].child # None
  PROVE  PlaceOK(worker'[w]) /\ (\A cp : MarkOK(worker'[w], cp)) /\ worker'[w].pc # "launch"
<1>1. /\ worker'[w].why = worker[w].why /\ worker'[w].then = worker[w].then
      /\ worker'[w].required = worker[w].required /\ worker'[w].inflight = worker[w].inflight
  BY DEF Same
<1> QED
  BY <1>1, DroppingFacts DEF PlaceOK, MarkOK, Dropping, Reasons

\* The fields that such a step assigns.
LEMMA DropEffect ==
  ASSUME WorkerInv, NEW w \in Workers
  PROVE  /\ With(w, [pc |-> "retain reader", child |-> None]) =>
              /\ OnlyOf(w) /\ worker'[w].pc = "retain reader" /\ worker'[w].child = None
              /\ Same(w, {"why", "then", "required", "inflight"})
         /\ \A p : With(w, [pc |-> p]) =>
              /\ OnlyOf(w) /\ worker'[w].pc = p /\ worker'[w].child = worker[w].child
              /\ Same(w, {"why", "then", "required", "inflight"})
<1>1. ASSUME With(w, [pc |-> "retain reader", child |-> None])
      PROVE  /\ OnlyOf(w) /\ worker'[w].pc = "retain reader" /\ worker'[w].child = None
             /\ Same(w, {"why", "then", "required", "inflight"})
  <2> DEFINE r == [pc |-> "retain reader", child |-> None]
  <2>1. DOMAIN r = {"pc", "child"} /\ r.pc = "retain reader" /\ r.child = None /\ With(w, r)
    BY <1>1
  <2> HIDE DEF r
  <2> QED
    BY <2>1, WithEffect DEF Same, Fields
<1>2. ASSUME NEW p, With(w, [pc |-> p])
      PROVE  /\ OnlyOf(w) /\ worker'[w].pc = p /\ worker'[w].child = worker[w].child
             /\ Same(w, {"why", "then", "required", "inflight"})
  <2> DEFINE r == [pc |-> p]
  <2>1. DOMAIN r = {"pc"} /\ r.pc = p /\ With(w, r)
    BY <1>2
  <2> HIDE DEF r
  <2> QED
    BY <2>1, WithEffect DEF Same, Fields
<1> QED
  BY <1>1, <1>2

\* The child has ended and is reaped, or was killed to no avail.
LEMMA QuarantineStep == ASSUME LifeInv, NEW w \in Workers, Quarantine(w) PROVE LifeInv'
<1> DEFINE c == worker[w].child
<1>0. worker[w].pc = "quarantine" /\ c # None /\ UNCHANGED <<reader, slot>>
  BY DroppingFacts DEF LifeInv, Quarantine, At
<1>1. CASE With(w, [pc |-> "retain reader", child |-> None]) /\ Reaped(c)
  <2>1. /\ OnlyOf(w) /\ worker'[w].pc = "retain reader" /\ worker'[w].child = None
        /\ Same(w, {"why", "then", "required", "inflight"})
    BY <1>1, DropEffect DEF LifeInv
  <2>2. GoodAfter(w)
    BY <1>0, <2>1, DropGoesOn DEF LifeInv, GoodAfter
  <2> QED
    BY <1>0, <1>1, <2>1, <2>2, ReapStep DEF Same
<1>2. ASSUME NEW k, With(w, [pc |-> "retain child"]), child' = [child EXCEPT ![c].kill = k]
      PROVE  LifeInv'
  <2>1. /\ OnlyOf(w) /\ worker'[w].pc = "retain child" /\ worker'[w].child = worker[w].child
        /\ Same(w, {"why", "then", "required", "inflight"})
    BY <1>2, DropEffect DEF LifeInv
  <2>2. GoodAfter(w)
    BY <1>0, <2>1, DropGoesOn DEF LifeInv, GoodAfter
  <2>3. Has' = Has /\ Reads' = Reads /\ Has[w] = c
    BY <2>1, HandlesAfter DEF LifeInv, OnlyOf, Same, Has
  <2>4. c \in Children /\ child[c].life # "none"
    BY <1>0, <2>3, OnlyHolder DEF LifeInv, HandleInv
  <2>5. HandleInv'
    BY <1>0, <1>2, <2>3, <2>4, OwnChange DEF LifeInv, HandleInv
  <2>6. ASSUME NEW v \in Workers \ {w}, worker[v].child # None
        PROVE  child'[worker[v].child] = child[worker[v].child]
    <3>1. worker[v].child # c /\ worker[v].child \in DOMAIN child
      BY <2>6, OnlyHolder DEF LifeInv, HandleInv, Has, Owned, Shapes
    <3> QED
      BY <1>2, <3>1
  <2> QED
    BY <1>0, <2>1, <2>2, <2>5, <2>6, StepOf
<1> QED
  BY <1>1, <1>2 DEF Quarantine

\* The child goes to the slot, or has to be waited for.
LEMMA RetainChildStep == ASSUME LifeInv, NEW w \in Workers, RetainChild(w) PROVE LifeInv'
<1>0. worker[w].pc = "retain child" /\ worker[w].child # None
  BY DroppingFacts DEF LifeInv, RetainChild, At
<1>1. ASSUME NEW p \in SlotPolls, Reclaimed(p).child = None,
             SlotStep(p, [Reclaimed(p) EXCEPT !.child = worker[w].child]),
             With(w, [pc |-> "retain reader", child |-> None])
      PROVE  LifeInv'
  <2> DEFINE s == Reclaimed(p)
  <2>1. /\ OnlyOf(w) /\ worker'[w].pc = "retain reader" /\ worker'[w].child = None
        /\ Same(w, {"why", "then", "required", "inflight"})
    BY <1>1, DropEffect DEF LifeInv
  <2>2. GoodAfter(w)
    BY <1>0, <2>1, DropGoesOn DEF LifeInv, GoodAfter
  <2>3. /\ Owned(Has, Reads, child', reader', s) /\ s = [child |-> s.child, reader |-> s.reader]
        /\ \A v \in Workers : worker[v].child # None =>
             child'[worker[v].child] = child[worker[v].child]
    BY <1>1, ReclaimKeeps DEF LifeInv, SlotStep, Owned, Shapes
  <2>4. Reads' = Reads /\ Has' = [Has EXCEPT ![w] = None] /\ Has[w] = worker[w].child
    BY <2>1, HandlesAfter DEF LifeInv, OnlyOf, Same, Has
  <2>5. slot' = [child |-> Has[w], reader |-> s.reader] /\ slot'.child = Has[w]
    <3> HIDE DEF s
    <3>1. slot' = [s EXCEPT !.child = worker[w].child]
      BY <1>1 DEF SlotStep, s
    <3> QED
      BY <2>3, <2>4, <3>1
  <2>6. HandleInv'
    BY <1>0, <1>1, <2>3, <2>4, <2>5, OwnParkChild DEF HandleInv
  <2>7. Has[w][1] = w
    <3>1. Has[w] # None /\ Owned(Has, Reads, child, reader, slot)
      BY <1>0, <2>4 DEF LifeInv, HandleInv
    <3> QED
      BY <3>1, OnlyHolder
  <2> QED
    BY <2>1, <2>2, <2>3, <2>5, <2>6, <2>7, StepOf
<1>2. ASSUME NEW p \in SlotPolls, SlotStep(p, Reclaimed(p)), With(w, [pc |-> "wait"])
      PROVE  LifeInv'
  <2>1. /\ OnlyOf(w) /\ worker'[w].pc = "wait" /\ worker'[w].child = worker[w].child
        /\ Same(w, {"why", "then", "required", "inflight"})
    BY <1>2, DropEffect DEF LifeInv
  <2>2. PlaceOK(worker'[w]) /\ \A cp : MarkOK(worker'[w], cp)
    BY <1>0, <2>1, DropGoesOn DEF LifeInv
  <2> QED
    BY <1>2, <2>1, <2>2, ReclaimStep DEF SameHandles, Same
<1> QED
  BY <1>1, <1>2 DEF RetainChild

\* The child has ended at last.
LEMMA WaitChildStep == ASSUME LifeInv, NEW w \in Workers, WaitChild(w) PROVE LifeInv'
<1>0. worker[w].pc = "wait" /\ worker[w].child # None
  BY DroppingFacts DEF LifeInv, WaitChild, At
<1>1. /\ OnlyOf(w) /\ worker'[w].pc = "retain reader" /\ worker'[w].child = None
      /\ Same(w, {"why", "then", "required", "inflight"})
  BY DropEffect DEF LifeInv, WaitChild
<1>2. GoodAfter(w)
  BY <1>0, <1>1, DropGoesOn DEF LifeInv, GoodAfter
<1> QED
  BY <1>0, <1>1, <1>2, ReapStep DEF WaitChild, Same

\* The end of the drop, however it was reached.
LEMMA DroppedEffect ==
  ASSUME WorkerInv, NEW w \in Workers, At(w, "retain reader"),
         With(w, Over([inflight |-> None], Dropped(w)))
  PROVE  /\ OnlyOf(w) /\ worker'[w].child = None /\ worker'[w].inflight = None
         /\ worker[w].child = None /\ GoodAfter(w) /\ worker'[w].pc # "launch"
<1>0. /\ worker[w].required = TRUE \/ worker[w].then = "start" \/ worker[w].why = "drop"
      /\ worker[w].child = None
  BY DroppingFacts DEF At
<1>1. /\ OnlyOf(w) /\ Spare(worker'[w])
      /\ worker'[w].child = worker[w].child /\ worker'[w].inflight = None
  BY <1>0, SparingHandles, FailuresSpare
<1> QED
  BY <1>0, <1>1, SpareOK DEF GoodAfter, Spare

\* The reader is joined, if there is one.
LEMMA JoinReaderStep == ASSUME LifeInv, NEW w \in Workers, JoinReader(w) PROVE LifeInv'
<1>1. /\ OnlyOf(w) /\ worker'[w].child = None /\ worker'[w].inflight = None
      /\ worker[w].child = None /\ GoodAfter(w) /\ worker'[w].pc # "launch"
  BY DroppedEffect DEF LifeInv, JoinReader
<1>2. CASE worker[w].inflight = None
  BY <1>1, <1>2, QuietStep DEF JoinReader, SameHandles
<1>3. CASE worker[w].inflight # None
  BY <1>1, <1>3, JoinStep DEF JoinReader
<1> QED
  BY <1>2, <1>3

\* The reader goes to the slot, or tries again.
LEMMA RetainReaderStep == ASSUME LifeInv, NEW w \in Workers, RetainReader(w) PROVE LifeInv'
<1> DEFINE r == worker[w].inflight
<1>1. ASSUME NEW p \in SlotPolls, Reclaimed(p).reader = None,
             SlotStep(p, [Reclaimed(p) EXCEPT !.reader = r]),
             With(w, Over([inflight |-> None], Dropped(w)))
      PROVE  LifeInv'
  <2> DEFINE s == Reclaimed(p)
  <2>1. /\ OnlyOf(w) /\ worker'[w].child = None /\ worker'[w].inflight = None
        /\ worker[w].child = None /\ GoodAfter(w) /\ worker'[w].pc # "launch"
    BY <1>1, DroppedEffect DEF LifeInv, RetainReader
  <2>2. /\ Owned(Has, Reads, child', reader', s) /\ s = [child |-> s.child, reader |-> s.reader]
        /\ s.child \in {None, slot.child}
        /\ \A v \in Workers : worker[v].child # None =>
             child'[worker[v].child] = child[worker[v].child]
    BY <1>1, ReclaimKeeps DEF LifeInv, SlotStep, Owned, Shapes
  <2>3. Has' = Has /\ Reads' = [Reads EXCEPT ![w] = None] /\ Has[w] = None /\ Reads[w] = r
    BY <2>1, HandlesAfter DEF LifeInv, OnlyOf, Has, Reads
  <2>4. slot' = [child |-> s.child, reader |-> Reads[w]] /\ slot'.child = s.child
    <3> HIDE DEF s
    <3>1. slot' = [s EXCEPT !.reader = r]
      BY <1>1 DEF SlotStep, s
    <3> QED
      BY <2>2, <2>3, <3>1
  <2>5. HandleInv'
    BY <1>1, <2>2, <2>3, <2>4, OwnParkReader DEF HandleInv, RetainReader
  <2> QED
    BY <2>1, <2>2, <2>4, <2>5, StepOf
<1>2. ASSUME NEW p \in SlotPolls, SlotStep(p, Reclaimed(p)), UNCHANGED worker
      PROVE  LifeInv'
  <2>1. /\ SameHandles(w) /\ worker'[w].pc # "launch"
        /\ PlaceOK(worker'[w]) /\ MarkOK(worker'[w], child[worker[w].child].classpath)
    BY <1>2, Before DEF LifeInv, SameHandles, OnlyOf, RetainReader, At
  <2> QED
    BY <1>2, <2>1, ReclaimStep
<1> QED
  BY <1>1, <1>2 DEF RetainReader

-------------------------------------------------------------------------------
(* The operating system, and the invariant.                                *)

\* A child that ends keeps its handle and its classpath.
LEMMA DiesStep == ASSUME LifeInv, NEW c \in Children, Dies(c) PROVE LifeInv'
<1>1. /\ child[c].life = "up" /\ child' = [child EXCEPT ![c].life = "gone"]
      /\ UNCHANGED <<worker, reader, slot>> /\ Has' = Has /\ Reads' = Reads
  BY DEF Dies, Has, Reads
<1>2. DOMAIN child = Children
  BY DEF LifeInv, HandleInv, Owned, Shapes
<1>3. HandleInv'
  BY <1>1, OwnChange DEF LifeInv, HandleInv
<1>4. \A d \in Children : child'[d].classpath = child[d].classpath
  BY <1>1, <1>2 DEF LifeInv, HandleInv, Owned, Shapes
<1>5. ASSUME NEW w \in Workers
      PROVE  MarkOK(worker[w], child'[worker[w].child].classpath)
  <2>1. MarkOK(worker[w], child[worker[w].child].classpath) /\ PlaceOK(worker[w])
    BY DEF LifeInv, WorkerInv
  <2>2. CASE worker[w].child = None
    BY <2>1, <2>2 DEF MarkOK, PlaceOK
  <2>3. CASE worker[w].child # None
    <3>1. Has[w] = worker[w].child
      BY DEF Has
    <3>2. worker[w].child \in Children
      BY <2>3, <3>1, OnlyHolder DEF LifeInv, HandleInv
    <3> QED
      BY <1>4, <2>1, <3>2
  <2> QED
    BY <2>2, <2>3
<1>6. WorkerInv'
  BY <1>1, <1>5 DEF LifeInv, WorkerInv
<1>7. LaunchInv'
  BY <1>1 DEF LifeInv, LaunchInv, At
<1> QED
  BY <1>3, <1>6, <1>7 DEF LifeInv

\* So does a reader that has a frame or sees the end of stdout.
LEMMA ReaderEndsStep == ASSUME LifeInv, NEW c \in Children, ReaderEnds(c) PROVE LifeInv'
<1>1. PICK a \in {"frame", "eof"} : reader' = [reader EXCEPT ![c] = a]
  BY DEF ReaderEnds
<1>2. reader[c] = "reading" /\ UNCHANGED <<worker, child, slot>> /\ Has' = Has /\ Reads' = Reads
  BY DEF ReaderEnds, Has, Reads
<1>3. /\ reader' \in [Children -> {"none", "reading", "frame", "eof"}]
      /\ \A d \in Children : (reader'[d] # "none") <=> (reader[d] # "none")
  BY <1>1, <1>2 DEF LifeInv, HandleInv, Owned, Shapes
<1>4. HandleInv'
  BY <1>2, <1>3 DEF LifeInv, HandleInv, Owned, Shapes, ChildrenHeld, ReadersHeld
<1> QED
  BY <1>2, <1>4 DEF LifeInv, WorkerInv, LaunchInv, At

\* A worker begins without a process, and the slot without handles.
LEMMA LifeInit == Init => LifeInv
<1> SUFFICES ASSUME Init PROVE LifeInv
  OBVIOUS
<1>1. \A w \in Workers : /\ DOMAIN worker[w] = Fields
                         /\ worker[w].pc = "spawn" /\ worker[w].then = "start"
                         /\ worker[w].why = "drop" /\ worker[w].child = None
                         /\ worker[w].inflight = None /\ worker[w].required = FALSE
  BY DEF Init, Fields
<1>2. /\ DOMAIN Has = Workers /\ DOMAIN Reads = Workers
      /\ \A w \in Workers : Has[w] = None /\ Reads[w] = None
  BY <1>1 DEF Has, Reads
<1>3. /\ child = [c \in Children |-> Absent] /\ reader = [c \in Children |-> "none"]
      /\ slot = [child |-> None, reader |-> None]
  BY DEF Init, Free
<1>4. HandleInv
  <2>1. Shapes(child, reader, slot)
    BY <1>3 DEF Shapes, Absent
  <2>2. ChildrenHeld(Has, child, slot)
    BY <1>2, <1>3, ChildFacts DEF ChildrenHeld, Mine, Absent
  <2>3. ReadersHeld(Has, Reads, reader, slot)
    BY <1>2, <1>3, ChildFacts DEF ReadersHeld, Mine
  <2> QED
    BY <2>1, <2>2, <2>3 DEF HandleInv, Owned
<1>5. WorkerInv
  <2>1. DOMAIN worker = Workers
    BY DEF Init
  <2>2. ASSUME NEW w \in Workers
        PROVE  PlaceOK(worker[w]) /\ \A cp : MarkOK(worker[w], cp)
    BY <1>1 DEF PlaceOK, MarkOK, Reasons, Dropping
  <2> QED
    BY <1>1, <2>1, <2>2 DEF WorkerInv
<1>6. LaunchInv
  BY <1>1 DEF LaunchInv, At
<1> QED
  BY <1>4, <1>5, <1>6 DEF LifeInv

\* Every step keeps the invariant.
LEMMA LifeStep == LifeInv /\ [Next]_vars => LifeInv'
<1> SUFFICES ASSUME LifeInv, [Next]_vars PROVE LifeInv'
  OBVIOUS
<1>1. ASSUME NEW w \in Workers, Request(w) \/ Reconfigure(w) \/ Drop(w) PROVE LifeInv'
  BY <1>1, RequestStep, ReconfigureStep, DropStep
<1>2. ASSUME NEW w \in Workers, Step(w) PROVE LifeInv'
  <2>1. CASE Operate(w) \/ WriteFails(w) \/ Refuse(w) \/ Answer(w) \/ AnswerLate(w) \/ Observe(w)
    BY <2>1, OperateStep, UnansweredStep, AnswerStep, ObserveStep
  <2>2. CASE Restart(w) \/ Spawn(w) \/ Launch(w) \/ Greet(w) \/ Adopt(w) \/ NotReady(w)
    BY <2>2, RestartStep, SpawnStep, LaunchStep, GreetStep, AdoptStep, NotReadyStep
  <2>3. CASE ReleaseNothing(w) \/ SlotTaken(w) \/ Dispose(w)
    BY <2>3, NotReleasedStep, DisposeStep
  <2>4. CASE \/ Quarantine(w) \/ RetainChild(w) \/ WaitChild(w) \/ JoinReader(w)
             \/ RetainReader(w)
    BY <2>4, QuarantineStep, RetainChildStep, WaitChildStep, JoinReaderStep, RetainReaderStep
  <2> QED
    BY <1>2, <2>1, <2>2, <2>3, <2>4 DEF Step
<1>3. ASSUME NEW c \in Children, Dies(c) \/ ReaderEnds(c) PROVE LifeInv'
  BY <1>3, DiesStep, ReaderEndsStep
<1>4. ASSUME UNCHANGED vars PROVE LifeInv'
  <2>1. /\ UNCHANGED worker /\ UNCHANGED child /\ UNCHANGED reader /\ UNCHANGED slot
        /\ Has' = Has /\ Reads' = Reads
    BY <1>4 DEF vars, Has, Reads
  <2> QED
    BY <2>1 DEF LifeInv, HandleInv, WorkerInv, LaunchInv, At
<1>5. CASE Done
  BY <1>4, <1>5 DEF Done
<1> QED
  BY <1>1, <1>2, <1>3, <1>4, <1>5 DEF Next

\* The invariant holds whenever.
LEMMA LifeAlways == Spec => []LifeInv
BY LifeInit, LifeStep, PTL DEF Spec

-------------------------------------------------------------------------------
(* What the invariant says of the handles and of the workers.              *)

\* One of the workers has it, or none has.
LEMMA CountHolders ==
  ASSUME NEW has, \A w \in Workers : Mine(w, has[w]), NEW c \in Children
  PROVE  Cardinality({w \in Workers : has[w] = c}) = IF has[c[1]] = c THEN 1 ELSE 0
<1>1. c[1] \in Workers /\ c # None
  BY ChildFacts
<1>2. \A w \in Workers : has[w] = c => w = c[1]
  BY <1>1 DEF Mine
<1>3. CASE has[c[1]] = c
  <2>1. {w \in Workers : has[w] = c} = {c[1]}
    BY <1>1, <1>2, <1>3
  <2> QED
    BY <1>3, <2>1, FS_Singleton
<1>4. CASE has[c[1]] # c
  <2>1. {w \in Workers : has[w] = c} = {}
    BY <1>2, <1>4
  <2> QED
    BY <1>4, <2>1, FS_EmptySet
<1> QED
  BY <1>3, <1>4

(* No handle of a child or of a reader is lost or held twice, by the       *)
(* workers and the park slot of worker_lifecycle.rs, however many workers  *)
(* share the slot and whatever fails.                                      *)
THEOREM ThmHandlesKept == Spec => []HandlesKept
<1>1. LifeInv => HandlesKept
  <2> SUFFICES ASSUME LifeInv, NEW c \in Children
               PROVE  /\ Cardinality({w \in Workers : worker[w].child = c})
                           + (IF slot.child = c THEN 1 ELSE 0)
                           = IF child[c].life = "none" THEN 0 ELSE 1
                      /\ Cardinality({w \in Workers : worker[w].inflight = c})
                           + (IF slot.reader = c THEN 1 ELSE 0)
                           = IF reader[c] = "none" THEN 0 ELSE 1
    BY DEF HandlesKept
  <2>0. c[1] \in Workers /\ c # None
    BY ChildFacts
  <2>1. /\ {w \in Workers : worker[w].child = c} = {w \in Workers : Has[w] = c}
        /\ {w \in Workers : worker[w].inflight = c} = {w \in Workers : Reads[w] = c}
    BY DEF Has, Reads
  <2>2. /\ \A w \in Workers : Mine(w, Has[w]) /\ Mine(w, Reads[w])
        /\ (child[c].life # "none") <=> (Has[c[1]] = c \/ slot.child = c)
        /\ (reader[c] # "none") <=> (Reads[c[1]] = c \/ slot.reader = c)
        /\ ~(Has[c[1]] = c /\ slot.child = c) /\ ~(Reads[c[1]] = c /\ slot.reader = c)
    BY <2>0 DEF LifeInv, HandleInv, Owned, ChildrenHeld, ReadersHeld
  <2>3. /\ Cardinality({w \in Workers : worker[w].child = c}) = IF Has[c[1]] = c THEN 1 ELSE 0
        /\ Cardinality({w \in Workers : worker[w].inflight = c}) = IF Reads[c[1]] = c THEN 1 ELSE 0
    BY <2>1, <2>2, CountHolders
  <2> QED
    BY <2>2, <2>3
<1> QED
  BY <1>1, LifeAlways, PTL

(* A worker is never given a second child while one of its children has    *)
(* not been reaped: restart and the drop of a process free the worker's    *)
(* own handle first, and spawn refuses while the slot is taken.            *)
THEOREM ThmOneChild == Spec => []OneChild
<1>1. LifeInv => OneChild
  <2> SUFFICES ASSUME LifeInv, NEW w \in Workers
               PROVE  Cardinality({c \in Children : c[1] = w /\ child[c] # Absent}) <= 1
    BY DEF OneChild
  <2> DEFINE S == {c \in Children : c[1] = w /\ child[c] # Absent}
  <2>1. ASSUME NEW c \in S, NEW d \in S PROVE c = d
    <3>1. /\ c \in Children /\ c[1] = w /\ child[c] # Absent
          /\ d \in Children /\ d[1] = w /\ child[d] # Absent
      OBVIOUS
    <3>2. child[c].life # "none" /\ child[d].life # "none" /\ None \notin Children
      BY <3>1, ChildFacts DEF LifeInv, HandleInv, Owned, Shapes
    <3> QED
      BY <3>1, <3>2 DEF LifeInv, HandleInv, Owned, ChildrenHeld
  <2>2. CASE S = {}
    BY <2>2, FS_EmptySet
  <2>3. CASE S # {}
    <3>1. PICK c : c \in S
      BY <2>3
    <3>2. S = {c}
      BY <2>1, <3>1
    <3>3. Cardinality(S) = 1
      BY <3>2, FS_Singleton, Zenon
    <3> QED
      BY <3>3
  <2> QED
    BY <2>2, <2>3
<1> QED
  BY <1>1, LifeAlways, PTL

(* Between calls a worker that restart_required does not mark has a        *)
(* process with its classpath, and no reader in flight, so that the next   *)
(* request is answered by the process it was written to.                   *)
THEOREM ThmUsableUnlessMarked == Spec => []UsableUnlessMarked
<1>1. LifeInv => UsableUnlessMarked
  BY Before DEF LifeInv, MarkOK, UsableUnlessMarked, At
<1> QED
  BY <1>1, LifeAlways, PTL
=============================================================================
