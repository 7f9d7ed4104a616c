------------------------- MODULE AnalysisEngineProofs -------------------------
(***************************************************************************)
(* Proofs about modules CommandQueue and AnalysisEngine, for any workspace *)
(* and any number of edits, writes, models, requests and failures: what    *)
(* the queues promise of the files they hold, and what the session may     *)
(* rely on when it keeps a result of the engine.                           *)
(***************************************************************************)
EXTENDS EngineInvariants, SequenceTheorems, FiniteSetTheorems, WellFoundedInduction, TLAPS

-------------------------------------------------------------------------------
(* Every nonempty set of natural numbers has a least element.  The proofs  *)
(* use it in place of induction: to show something of every number, take   *)
(* the least one it fails for.                                             *)
LEMMA LeastNat ==
  ASSUME NEW T, T \subseteq Nat, T # {}
  PROVE  \E n \in T : \A m \in T : n <= m
<1>1. PICK R : IsWellFoundedOn(R, Nat) /\ \A x, y \in Nat : y < x => <<y, x>> \in R
  <2>1. \A x, y \in Nat : y < x => <<y, x>> \in OpToRel(<, Nat)
    BY DEF OpToRel
  <2> QED
    BY <2>1, NatLessThanWellFounded, Zenon
<1>2. PICK n \in T : \A y \in T : ~ (<<y, n>> \in R)
  BY <1>1, WFMin, Zenon
<1>3. \A m \in T : ~ (m < n)
  BY <1>1, <1>2, Zenon
<1> QED
  BY <1>3

-------------------------------------------------------------------------------
(* Lists.                                                                  *)

\* No element of a list is repeated.
Distinct(s) == \A j, k \in 1 .. Len(s) : s[j] = s[k] => j = k

\* The elements of a part of a list.
LEMMA SliceOf ==
  ASSUME NEW T, NEW s \in Seq(T), NEW m \in 1 .. Len(s) + 1, NEW n \in m - 1 .. Len(s)
  PROVE  /\ SubSeq(s, m, n) \in Seq(T) /\ Len(SubSeq(s, m, n)) = n - m + 1
         /\ \A i \in 1 .. n - m + 1 : SubSeq(s, m, n)[i] = s[m + i - 1]
<1>1. Len(s) \in Nat /\ \A i \in 1 .. Len(s) : s[i] \in T
  OBVIOUS
<1>2. m \in Int /\ n \in Int /\ \A i \in m .. n : s[i] \in T
  BY <1>1
<1>3. /\ SubSeq(s, m, n) \in Seq(T)
      /\ Len(SubSeq(s, m, n)) = IF m <= n THEN n - m + 1 ELSE 0
      /\ \A i \in 1 .. n - m + 1 : SubSeq(s, m, n)[i] = s[m + i - 1]
  BY <1>2, SubSeqProperties
<1>4. (IF m <= n THEN n - m + 1 ELSE 0) = n - m + 1
  BY <1>1
<1> QED
  BY <1>3, <1>4

\* The elements of two lists one after the other.
LEMMA ConcatOf ==
  ASSUME NEW T, NEW s \in Seq(T), NEW t \in Seq(T)
  PROVE  /\ s \o t \in Seq(T) /\ Len(s \o t) = Len(s) + Len(t)
         /\ Len(s) \in Nat /\ Len(t) \in Nat
         /\ \A i \in 1 .. Len(s) : (s \o t)[i] = s[i]
         /\ \A i \in 1 .. Len(t) : (s \o t)[Len(s) + i] = t[i]
<1>1. Len(s) \in Nat /\ Len(t) \in Nat
  OBVIOUS
<1>2. /\ s \o t \in Seq(T) /\ Len(s \o t) = Len(s) + Len(t)
      /\ \A i \in 1 .. Len(s) + Len(t) :
           (s \o t)[i] = IF i <= Len(s) THEN s[i] ELSE t[i - Len(s)]
  BY ConcatProperties
<1>3. \A i \in 1 .. Len(t) : Len(s) + i \in 1 .. Len(s) + Len(t) /\ ~ (Len(s) + i <= Len(s))
                              /\ Len(s) + i - Len(s) = i
  BY <1>1
<1> QED
  BY <1>1, <1>2, <1>3

\* The head and the tail of a list.
LEMMA TailOf ==
  ASSUME NEW T, NEW s \in Seq(T), s # <<>>
  PROVE  /\ Head(s) \in T /\ Head(s) = s[1] /\ Len(s) \in Nat \ {0}
         /\ Tail(s) \in Seq(T) /\ Len(Tail(s)) = Len(s) - 1
         /\ \A i \in 1 .. Len(s) - 1 : Tail(s)[i] = s[i + 1]
<1>1. Len(s) \in Nat \ {0} /\ Head(s) = s[1] /\ Head(s) \in T
  OBVIOUS
<1>2. Tail(s) \in Seq(T) /\ Len(Tail(s)) = Len(s) - 1
  OBVIOUS
<1>3. \A i \in 1 .. Len(s) - 1 : Tail(s)[i] = s[i + 1]
  OBVIOUS
<1> QED
  BY <1>1, <1>2, <1>3

\* There is a function as in the definition of Only.
LEMMA OnlyDefined ==
  ASSUME NEW s, Len(s) \in Nat, NEW S
  PROVE  \E f : f = [i \in 0 .. Len(s) |->
                       IF i = 0 THEN <<>>
                       ELSE IF s[i] \in S THEN Append(f[i - 1], s[i]) ELSE f[i - 1]]
<1> DEFINE Upto(n, f) == f = [i \in 0 .. n |->
                       IF i = 0 THEN <<>>
                       ELSE IF s[i] \in S THEN Append(f[i - 1], s[i]) ELSE f[i - 1]]
           Bad == {n \in 0 .. Len(s) : ~ \E f : Upto(n, f)}
<1>1. Bad = {}
  <2> SUFFICES ASSUME Bad # {} PROVE FALSE
    OBVIOUS
  <2>1. Bad \subseteq Nat
    OBVIOUS
  <2> HIDE DEF Bad
  <2>2. PICK n \in Bad : \A m \in Bad : n <= m
    BY <2>1, LeastNat, Zenon
  <2>3. n \in 0 .. Len(s) /\ ~ \E f : Upto(n, f)
    BY <2>2, Zenon DEF Bad
  <2>4. n # 0
    <3>1. Upto(0, [i \in 0 .. 0 |-> <<>>])
      OBVIOUS
    <3> QED
      BY <3>1, <2>3, Zenon
  <2>5. n - 1 \in 0 .. Len(s) /\ n - 1 \notin Bad
    BY <2>1, <2>2, <2>3, <2>4
  <2>6. PICK g : Upto(n - 1, g)
    BY <2>5, Zenon DEF Bad
  <2> DEFINE h == [i \in 0 .. n |->
                     IF i = n
                     THEN IF s[n] \in S THEN Append(g[n - 1], s[n]) ELSE g[n - 1]
                     ELSE g[i]]
  <2>7. Upto(n, h)
    <3> DEFINE step(f, i) == IF i = 0 THEN <<>>
                             ELSE IF s[i] \in S THEN Append(f[i - 1], s[i]) ELSE f[i - 1]
    <3>1. \A i \in 0 .. n - 1 : g[i] = step(g, i)
      BY <2>6, Zenon
    <3>2. \A i \in 0 .. n - 1 : h[i] = g[i]
      BY <2>3, <2>4
    <3>3. \A i \in 0 .. n - 1 : step(h, i) = step(g, i)
      BY <3>2, <2>3
    <3>4. h[n] = step(h, n)
      BY <3>2, <2>3, <2>4
    <3> HIDE DEF step
    <3>5. \A i \in 0 .. n : h[i] = step(h, i)
      BY <3>1, <3>2, <3>3, <3>4, <2>3, SMTT(30)
    <3>6. h = [i \in 0 .. n |-> h[i]]
      OBVIOUS
    <3> HIDE DEF h
    <3>7. h = [i \in 0 .. n |-> step(h, i)]
      BY <3>5, <3>6
    <3> QED
      BY <3>7, Zenon DEF step
  <2> QED
    BY <2>7, <2>3, Zenon
<1>2. Len(s) \notin Bad /\ Len(s) \in 0 .. Len(s)
  BY <1>1
<1> HIDE DEF Upto
<1>3. \E f : Upto(Len(s), f)
  BY <1>2
<1> QED
  BY <1>3, Zenon DEF Upto

\* What Only selects, and that it repeats nothing.
LEMMA OnlySelects ==
  ASSUME NEW T, NEW s \in Seq(T), NEW S
  PROVE  /\ Only(s, S) \in Seq(T) /\ Len(Only(s, S)) <= Len(s)
         /\ \A k \in 1 .. Len(Only(s, S)) :
              \E j \in 1 .. Len(s) : s[j] \in S /\ Only(s, S)[k] = s[j]
         /\ \A j \in 1 .. Len(s) :
              s[j] \in S => \E k \in 1 .. Len(Only(s, S)) : Only(s, S)[k] = s[j]
         /\ Distinct(s) => Distinct(Only(s, S))
<1>0. Len(s) \in Nat /\ \A i \in 1 .. Len(s) : s[i] \in T
  OBVIOUS
<1> DEFINE Is(f) == f = [i \in 0 .. Len(s) |->
                       IF i = 0 THEN <<>>
                       ELSE IF s[i] \in S THEN Append(f[i - 1], s[i]) ELSE f[i - 1]]
           f == CHOOSE f : Is(f)
<1>1. Is(f)
  BY <1>0, OnlyDefined, ZenonT(60)
<1>2. Only(s, S) = f[Len(s)]
  BY Zenon DEF Only
<1> HIDE DEF f
<1>a. /\ f[0] = <<>>
      /\ \A i \in 1 .. Len(s) :
           f[i] = IF s[i] \in S THEN Append(f[i - 1], s[i]) ELSE f[i - 1]
  <2>1. \A i \in 0 .. Len(s) :
          f[i] = IF i = 0 THEN <<>>
                 ELSE IF s[i] \in S THEN Append(f[i - 1], s[i]) ELSE f[i - 1]
    BY <1>1, Zenon
  <2> QED
    BY <2>1, <1>0
<1> HIDE DEF Is
<1> DEFINE Good(i) ==
      /\ f[i] \in Seq(T) /\ Len(f[i]) <= i
      /\ \A k \in 1 .. Len(f[i]) : \E j \in 1 .. i : s[j] \in S /\ f[i][k] = s[j]
      /\ \A j \in 1 .. i : s[j] \in S => \E k \in 1 .. Len(f[i]) : f[i][k] = s[j]
      /\ Distinct(s) => Distinct(f[i])
    Bad == {i \in 0 .. Len(s) : ~ Good(i)}
<1>3. Good(0)
  BY <1>a DEF Distinct
<1>4. ASSUME NEW i \in 1 .. Len(s), Good(i - 1)
      PROVE  Good(i)
  <2>1. CASE s[i] \in S
    <3>1. f[i] = Append(f[i - 1], s[i])
      BY <1>a, <2>1
    <3> DEFINE g == f[i - 1]
    <3>2. /\ g \in Seq(T) /\ s[i] \in T /\ f[i] = Append(g, s[i]) /\ Len(g) \in Nat
          /\ Len(g) <= i - 1
      BY <3>1, <1>4, <1>0
    <3>3. /\ f[i] \in Seq(T) /\ Len(f[i]) = Len(g) + 1 /\ f[i][Len(g) + 1] = s[i]
          /\ \A k \in 1 .. Len(g) : f[i][k] = g[k]
      BY <3>2
    <3>4. \A k \in 1 .. Len(f[i]) : \E j \in 1 .. i : s[j] \in S /\ f[i][k] = s[j]
      BY <3>3, <3>2, <1>4, <2>1, <1>0
    <3>5. ASSUME NEW j \in 1 .. i, s[j] \in S
          PROVE  \E k \in 1 .. Len(f[i]) : f[i][k] = s[j]
      <4>1. CASE j = i
        BY <3>3, <3>2, <4>1
      <4>2. CASE j # i
        <5>0. j \in 1 .. i - 1
          BY <4>2, <1>0
        <5>1. PICK k \in 1 .. Len(g) : g[k] = s[j]
          BY <5>0, <1>4, <3>5, Zenon
        <5> QED
          BY <5>1, <3>3, <3>2
      <4> QED
        BY <4>1, <4>2
    <3>6. ASSUME Distinct(s) PROVE Distinct(f[i])
      <4>1. Distinct(g)
        BY <1>4, <3>6
      <4>2. \A k \in 1 .. Len(g) : g[k] # s[i]
        BY <1>4, <3>6, <1>0 DEF Distinct
      <4> QED
        BY <4>1, <4>2, <3>3, <3>2 DEF Distinct
    <3>7. f[i] \in Seq(T) /\ Len(f[i]) <= i
      BY <3>2, <3>3
    <3> QED
      BY <3>4, <3>5, <3>6, <3>7, Zenon
  <2>2. CASE s[i] \notin S
    <3>1. f[i] = f[i - 1]
      BY <1>a, <2>2
    <3> QED
      BY <3>1, <1>4, <1>0, <2>2
  <2> QED
    BY <2>1, <2>2
<1> HIDE DEF Good
<1>5. Bad = {}
  <2> SUFFICES ASSUME Bad # {} PROVE FALSE
    OBVIOUS
  <2>1. Bad \subseteq Nat
    BY <1>0
  <2> HIDE DEF Bad
  <2>2. PICK n \in Bad : \A m \in Bad : n <= m
    BY <2>1, LeastNat, Zenon
  <2>3. n \in 1 .. Len(s) /\ ~ Good(n)
    BY <2>2, <1>3, <1>0 DEF Bad
  <2>4. n - 1 \notin Bad
    BY <2>1, <2>2, <2>3
  <2>5. Good(n - 1)
    BY <2>3, <2>4, <1>0 DEF Bad
  <2> QED
    BY <2>3, <2>5, <1>4
<1>6. Good(Len(s))
  BY <1>5, <1>0
<1> QED
  BY <1>6, <1>2, <1>0 DEF Good

\* Merging project changes makes no command of another kind.
LEMMA Appended1 ==
  ASSUME NEW cs \in Seq(Commands), NEW c \in Commands
  PROVE  /\ Append1(cs, c) \in Seq(Commands) /\ Append1(cs, c) # <<>>
         /\ Len(Append1(cs, c)) \in {Len(cs), Len(cs) + 1}
         /\ \A i \in 1 .. Len(Append1(cs, c)) :
              IF i <= Len(cs)
              THEN /\ Append1(cs, c)[i].kind = cs[i].kind
                   /\ cs[i].kind # "change" => Append1(cs, c)[i] = cs[i]
              ELSE Append1(cs, c)[i].kind = c.kind
         /\ Len(Append1(cs, c)) = Len(cs) => c.kind = "change"
<1>1. CASE c.kind = "change" /\ cs # <<>> /\ Last(cs).kind = "change"
  <2> DEFINE m == MergeChange(Last(cs), c)
             r == Append1(cs, c)
  <2>1. r = Append(Front(cs), m)
    BY <1>1, Zenon DEF Append1
  <2>2. Last(cs) \in Commands /\ Last(cs) = cs[Len(cs)]
    BY <1>1 DEF Last
  <2>3. /\ Last(cs).refresh \in BOOLEAN /\ Last(cs).reanalyze \in BOOLEAN
        /\ Last(cs).uris \subseteq Uris \union {"build file"}
        /\ c.refresh \in BOOLEAN /\ c.reanalyze \in BOOLEAN
        /\ c.uris \subseteq Uris \union {"build file"}
    BY <1>1, <2>2 DEF Commands
  <2>4. \A a, b \in BOOLEAN, U \in SUBSET (Uris \union {"build file"}) :
          Change(a, b, U) \in Commands /\ Change(a, b, U).kind = "change"
    BY DEF Change, Commands
  <2>5. m \in Commands /\ m.kind = "change"
    BY <2>3, <2>4, Zenon DEF MergeChange
  <2> HIDE DEF m
  <2>6. /\ Len(cs) \in Nat \ {0} /\ Front(cs) \in Seq(Commands)
        /\ Len(Front(cs)) = Len(cs) - 1
        /\ \A i \in 1 .. Len(cs) - 1 : Front(cs)[i] = cs[i]
    <3>1. Len(cs) \in Nat \ {0}
      BY <1>1
    <3>2. /\ Front(cs) \in Seq(Commands) /\ Len(Front(cs)) = Len(cs) - 1 - 1 + 1
          /\ \A i \in 1 .. Len(cs) - 1 - 1 + 1 : Front(cs)[i] = cs[1 + i - 1]
      <4>1. 1 \in 1 .. Len(cs) + 1 /\ Len(cs) - 1 \in 1 - 1 .. Len(cs)
        BY <3>1
      <4> QED
        BY <4>1, SliceOf, Zenon DEF Front
    <3>3. \A i \in 1 .. Len(cs) - 1 : 1 + i - 1 = i /\ i \in 1 .. Len(cs) - 1 - 1 + 1
      BY <3>1
    <3>4. Len(Front(cs)) = Len(cs) - 1
      BY <3>2, <3>1
    <3> QED
      BY <3>1, <3>2, <3>3, <3>4
  <2>7. /\ r \in Seq(Commands) /\ Len(r) = Len(cs) /\ r[Len(cs)] = m
        /\ \A i \in 1 .. Len(cs) - 1 : r[i] = cs[i]
    BY <2>1, <2>5, <2>6
  <2> HIDE DEF r
  <2> QED
    BY <2>2, <2>5, <2>6, <2>7, <1>1 DEF r
<1>2. CASE ~ (c.kind = "change" /\ cs # <<>> /\ Last(cs).kind = "change")
  <2>1. Append1(cs, c) = Append(cs, c)
    BY <1>2, Zenon DEF Append1
  <2> QED
    BY <2>1
<1> QED
  BY <1>1, <1>2

\* There is a function as in the definition of Compact.
LEMMA CompactDefined ==
  ASSUME NEW cs, Len(cs) \in Nat
  PROVE  \E f : f = [i \in 0 .. Len(cs) |->
                       IF i = 0 THEN <<>> ELSE Append1(f[i - 1], cs[i])]
<1> DEFINE Upto(n, f) ==
             f = [i \in 0 .. n |-> IF i = 0 THEN <<>> ELSE Append1(f[i - 1], cs[i])]
           Bad == {n \in 0 .. Len(cs) : ~ \E f : Upto(n, f)}
<1>1. Bad = {}
  <2> SUFFICES ASSUME Bad # {} PROVE FALSE
    OBVIOUS
  <2>1. Bad \subseteq Nat
    OBVIOUS
  <2> HIDE DEF Bad
  <2>2. PICK n \in Bad : \A m \in Bad : n <= m
    BY <2>1, LeastNat, Zenon
  <2>3. n \in 0 .. Len(cs) /\ ~ \E f : Upto(n, f)
    BY <2>2, Zenon DEF Bad
  <2>4. n # 0
    <3>1. Upto(0, [i \in 0 .. 0 |-> <<>>])
      OBVIOUS
    <3> QED
      BY <3>1, <2>3, Zenon
  <2>5. n - 1 \in 0 .. Len(cs) /\ n - 1 \notin Bad
    BY <2>1, <2>2, <2>3, <2>4
  <2>6. PICK g : Upto(n - 1, g)
    BY <2>5, Zenon DEF Bad
  <2> DEFINE h == [i \in 0 .. n |-> IF i = n THEN Append1(g[n - 1], cs[n]) ELSE g[i]]
  <2>7. Upto(n, h)
    <3> DEFINE step(f, i) == IF i = 0 THEN <<>> ELSE Append1(f[i - 1], cs[i])
    <3>1. \A i \in 0 .. n - 1 : g[i] = step(g, i)
      BY <2>6, Zenon
    <3>2. \A i \in 0 .. n - 1 : h[i] = g[i]
      BY <2>3, <2>4
    <3>3. \A i \in 0 .. n - 1 : step(h, i) = step(g, i)
      BY <3>2, <2>3
    <3>4. h[n] = step(h, n)
      BY <3>2, <2>3, <2>4
    <3> HIDE DEF step
    <3>5. \A i \in 0 .. n : h[i] = step(h, i)
      BY <3>1, <3>2, <3>3, <3>4, <2>3
    <3>6. h = [i \in 0 .. n |-> h[i]]
      OBVIOUS
    <3> HIDE DEF h
    <3>7. h = [i \in 0 .. n |-> step(h, i)]
      BY <3>5, <3>6
    <3> QED
      BY <3>7, Zenon DEF step
  <2> QED
    BY <2>7, <2>3, Zenon
<1>2. Len(cs) \notin Bad /\ Len(cs) \in 0 .. Len(cs)
  BY <1>1
<1> HIDE DEF Upto
<1>3. \E f : Upto(Len(cs), f)
  BY <1>2
<1> QED
  BY <1>3, Zenon DEF Upto

\* Compacting makes no command of a kind that was not there.
LEMMA CompactKinds ==
  ASSUME NEW cs \in Seq(Commands)
  PROVE  /\ Compact(cs) \in Seq(Commands)
         /\ \A k \in 1 .. Len(Compact(cs)) : \E j \in 1 .. Len(cs) :
              Compact(cs)[k].kind = cs[j].kind
         /\ cs = <<>> => Compact(cs) = <<>>
<1>0. Len(cs) \in Nat /\ \A i \in 1 .. Len(cs) : cs[i] \in Commands
  OBVIOUS
<1> DEFINE Is(f) ==
             f = [i \in 0 .. Len(cs) |-> IF i = 0 THEN <<>> ELSE Append1(f[i - 1], cs[i])]
           f == CHOOSE f : Is(f)
<1>1. Is(f)
  BY <1>0, CompactDefined, Zenon
<1>2. Compact(cs) = f[Len(cs)]
  BY Zenon DEF Compact
<1> HIDE DEF f
<1>a. f[0] = <<>> /\ \A i \in 1 .. Len(cs) : f[i] = Append1(f[i - 1], cs[i])
  <2>1. \A i \in 0 .. Len(cs) : f[i] = IF i = 0 THEN <<>> ELSE Append1(f[i - 1], cs[i])
    BY <1>1, Zenon
  <2> QED
    BY <2>1, <1>0
<1> HIDE DEF Is
<1> DEFINE Good(i) ==
      /\ f[i] \in Seq(Commands)
      /\ \A k \in 1 .. Len(f[i]) : \E j \in 1 .. i : f[i][k].kind = cs[j].kind
    Bad == {i \in 0 .. Len(cs) : ~ Good(i)}
<1>3. Good(0)
  BY <1>a
<1>4. ASSUME NEW i \in 1 .. Len(cs), Good(i - 1)
      PROVE  Good(i)
  <2> DEFINE g == f[i - 1]
             r == Append1(g, cs[i])
  <2>1. g \in Seq(Commands) /\ cs[i] \in Commands /\ f[i] = r
    BY <1>4, <1>0, <1>a
  <2>2. /\ r \in Seq(Commands) /\ Len(r) \in {Len(g), Len(g) + 1}
        /\ \A k \in 1 .. Len(r) : IF k <= Len(g) THEN r[k].kind = g[k].kind
                                                 ELSE r[k].kind = cs[i].kind
    <3> HIDE DEF g
    <3> QED
      BY <2>1, Appended1, Zenon
  <2>3. ASSUME NEW k \in 1 .. Len(r)
        PROVE  \E j \in 1 .. i : r[k].kind = cs[j].kind
    <3>1. CASE k <= Len(g)
      <4>1. k \in 1 .. Len(g)
        BY <3>1, <2>1, <2>2, <2>3
      <4>2. PICK j \in 1 .. i - 1 : g[k].kind = cs[j].kind
        BY <4>1, <1>4, Zenon
      <4> QED
        BY <4>2, <2>2, <3>1
    <3>2. CASE ~ (k <= Len(g))
      BY <3>2, <2>2, <1>0
    <3> QED
      BY <3>1, <3>2
  <2> QED
    BY <2>1, <2>2, <2>3, Zenon
<1> HIDE DEF Good
<1>5. Bad = {}
  <2> SUFFICES ASSUME Bad # {} PROVE FALSE
    OBVIOUS
  <2>1. Bad \subseteq Nat
    BY <1>0
  <2> HIDE DEF Bad
  <2>2. PICK n \in Bad : \A m \in Bad : n <= m
    BY <2>1, LeastNat, Zenon
  <2>3. n \in 1 .. Len(cs) /\ ~ Good(n)
    BY <2>2, <1>3, <1>0 DEF Bad
  <2>4. n - 1 \notin Bad
    BY <2>1, <2>2, <2>3
  <2>5. Good(n - 1)
    BY <2>3, <2>4, <1>0 DEF Bad
  <2> QED
    BY <2>3, <2>5, <1>4
<1>6. Good(Len(cs))
  BY <1>5, <1>0
<1>7. cs = <<>> => Compact(cs) = <<>>
  BY <1>2, <1>a, <1>0
<1> QED
  BY <1>6, <1>7, <1>2, ZenonT(40) DEF Good

-------------------------------------------------------------------------------
(* Chunks.                                                                 *)

\* A number is written in one way as a multiple of n and a rest in 1 .. n.
LEMMA OneMultiple ==
  ASSUME NEW n \in Nat \ {0}, NEW i \in Nat, NEW k \in Nat, NEW j \in 1 .. n, NEW l \in 1 .. n,
         i * n + j = k * n + l
  PROVE  i = k /\ j = l
<1>1. ASSUME NEW a \in Nat, NEW b \in Nat, a < b PROVE a * n + n <= b * n
  <2>1. (b - a) * n >= n
    BY <1>1
  <2>2. b * n = (b - a) * n + a * n
    OBVIOUS
  <2>3. a * n \in Nat /\ b * n \in Nat /\ (b - a) * n \in Nat
    BY <1>1
  <2> QED
    BY <2>1, <2>2, <2>3
<1>2. i * n \in Nat /\ k * n \in Nat
  OBVIOUS
<1>3. ~ (i < k) /\ ~ (k < i)
  BY <1>1, <1>2
<1>4. i = k
  BY <1>3
<1> QED
  BY <1>2, <1>4

\* Element p of a list is element j of chunk i, for one i and one j.
LEMMA ChunksOf ==
  ASSUME NEW T, NEW s \in Seq(T), NEW n \in Nat \ {0}
  PROVE  /\ Chunks(s, n) \in Seq(Seq(T))
         /\ \A i \in 1 .. Len(Chunks(s, n)) :
              LET c == Chunks(s, n)[i]
              IN  /\ Len(c) \in 1 .. Len(s) /\ Len(c) <= n
                  /\ \A j \in 1 .. Len(c) : /\ (i - 1) * n + j \in 1 .. Len(s)
                                            /\ c[j] = s[(i - 1) * n + j]
         /\ \A p \in 1 .. Len(s) :
              \E i \in 1 .. Len(Chunks(s, n)) : \E j \in 1 .. Len(Chunks(s, n)[i]) :
                Chunks(s, n)[i][j] = s[p]
<1> DEFINE L == Len(s)
           k == (L + n - 1) \div n
           hi(i) == IF i * n < L THEN i * n ELSE L
           cs == Chunks(s, n)
<1>1. L \in Nat
  OBVIOUS
<1>2. k \in Nat /\ k * n <= L + n - 1 /\ L + n - 1 < k * n + n
  BY <1>1
<1>3. cs = [i \in 1 .. k |-> SubSeq(s, (i - 1) * n + 1, hi(i))]
  BY Zenon DEF Chunks
<1> HIDE DEF cs, k, L
<1>4. ASSUME NEW i \in 1 .. k
      PROVE  /\ (i - 1) * n \in Nat /\ i * n = (i - 1) * n + n /\ (i - 1) * n < L
             /\ hi(i) \in Nat /\ hi(i) - (i - 1) * n \in 1 .. L /\ hi(i) - (i - 1) * n <= n
             /\ hi(i) <= L
  <2>1. i - 1 \in Nat /\ i \in Nat /\ (i - 1) * n \in Nat /\ i * n \in Nat
    BY <1>2
  <2>2. i * n = (i - 1) * n + n
    BY <2>1
  <2>3. i * n <= k * n
    <3>1. (k - i) * n >= 0 /\ k * n = (k - i) * n + i * n
      BY <1>2
    <3> QED
      BY <3>1, <1>2, <2>1
  <2>4. (i - 1) * n < L
    BY <1>1, <1>2, <2>1, <2>2, <2>3
  <2>5. hi(i) \in Nat /\ hi(i) <= L /\ hi(i) > (i - 1) * n /\ hi(i) <= (i - 1) * n + n
    BY <1>1, <2>1, <2>2, <2>4
  <2> HIDE DEF hi
  <2> QED
    BY <1>1, <2>1, <2>2, <2>4, <2>5
<1>5. ASSUME NEW i \in 1 .. k
      PROVE  /\ cs[i] \in Seq(T) /\ Len(cs[i]) = hi(i) - (i - 1) * n
             /\ \A j \in 1 .. Len(cs[i]) : cs[i][j] = s[(i - 1) * n + j]
  <2> DEFINE lo == (i - 1) * n + 1
  <2>1. cs[i] = SubSeq(s, lo, hi(i))
    BY <1>3
  <2>2. lo \in 1 .. Len(s) + 1 /\ hi(i) \in lo - 1 .. Len(s) /\ (i - 1) * n \in Nat /\ lo \in Nat
        /\ hi(i) \in Nat
    <3> HIDE DEF hi
    <3> QED
      BY <1>1, <1>4 DEF L
  <2>3. hi(i) - lo + 1 = hi(i) - (i - 1) * n
        /\ \A j \in Nat : lo + j - 1 = (i - 1) * n + j
    BY <2>2
  <2> HIDE DEF lo, hi
  <2>4. /\ cs[i] \in Seq(T) /\ Len(cs[i]) = hi(i) - lo + 1
        /\ \A j \in 1 .. hi(i) - lo + 1 : cs[i][j] = s[lo + j - 1]
    BY <2>1, <2>2, SliceOf, ZenonT(40)
  <2>5. \A j \in 1 .. hi(i) - lo + 1 : j \in Nat
    BY <2>2
  <2> QED
    BY <2>3, <2>4, <2>5
<1>6. cs \in Seq(Seq(T)) /\ Len(cs) = k
  <2>1. cs \in [1 .. k -> Seq(T)]
    <3>1. \A i \in 1 .. k : SubSeq(s, (i - 1) * n + 1, hi(i)) \in Seq(T)
      BY <1>3, <1>5
    <3> HIDE DEF hi
    <3> QED
      BY <1>3, <3>1
  <2> QED
    BY <2>1, <1>2, IsASeq, LenProperties
<1>7. ASSUME NEW i \in 1 .. k
      PROVE  /\ Len(cs[i]) \in 1 .. L /\ Len(cs[i]) <= n
             /\ \A j \in 1 .. Len(cs[i]) : (i - 1) * n + j \in 1 .. L
  <2> HIDE DEF hi
  <2> QED
    BY <1>1, <1>4, <1>5
<1>8. ASSUME NEW p \in 1 .. L
      PROVE  \E i \in 1 .. k : \E j \in 1 .. Len(cs[i]) : cs[i][j] = s[p]
  <2> DEFINE m == (p - 1) \div n
  <2>1. m \in Nat /\ m * n <= p - 1 /\ p - 1 < m * n + n /\ m * n \in Nat
    BY <1>1
  <2> HIDE DEF m
  <2>2. m + 1 \in 1 .. k
    <3>1. ASSUME ~ (m < k) PROVE FALSE
      <4>1. (m - k) * n >= 0 /\ m * n = (m - k) * n + k * n
        BY <2>1, <1>2, <3>1
      <4> QED
        BY <4>1, <2>1, <1>2, <1>1
    <3> QED
      BY <3>1, <2>1, <1>2
  <2>3. PICK i \in 1 .. k : (i - 1) * n <= p - 1 /\ p - 1 < (i - 1) * n + n
    <3>1. m + 1 - 1 = m
      BY <2>1
    <3> QED
      BY <2>1, <2>2, <3>1
  <2>4. PICK j \in Nat : (i - 1) * n + j = p /\ j \in 1 .. n
    <3>1. (i - 1) * n \in Nat
      BY <1>4, Zenon
    <3>2. p - (i - 1) * n \in 1 .. n /\ (i - 1) * n + (p - (i - 1) * n) = p
      BY <2>3, <3>1
    <3> QED
      BY <3>2
  <2>5. j \in 1 .. Len(cs[i])
    <3>1. Len(cs[i]) = hi(i) - (i - 1) * n /\ (i - 1) * n \in Nat /\ i * n = (i - 1) * n + n
      <4> HIDE DEF hi
      <4> QED
        BY <1>4, <1>5
    <3> QED
      BY <3>1, <2>4, <1>1
  <2> HIDE DEF hi
  <2>6. cs[i][j] = s[p]
    BY <2>4, <2>5, <1>5, Zenon
  <2> QED
    BY <2>5, <2>6, Zenon
<1> QED
  <2> HIDE DEF hi
  <2> QED
    BY <1>5, <1>6, <1>7, <1>8 DEF cs, L

-------------------------------------------------------------------------------
(* Deques.                                                                 *)

\* The elements of a list.
LEMMA Elements ==
  ASSUME NEW T, NEW s \in Seq(T)
  PROVE  /\ \A u : u \in ToSet(s) <=> \E j \in 1 .. Len(s) : s[j] = u
         /\ ToSet(s) \subseteq T /\ Len(s) \in Nat
         /\ s = <<>> <=> Len(s) = 0
<1>1. DOMAIN s = 1 .. Len(s) /\ Len(s) \in Nat /\ \A i \in 1 .. Len(s) : s[i] \in T
  OBVIOUS
<1>2. \A u : u \in ToSet(s) <=> \E j \in 1 .. Len(s) : s[j] = u
  BY <1>1, Zenon DEF ToSet
<1>3. ToSet(s) \subseteq T
  BY <1>1, <1>2, Zenon
<1>4. s = <<>> <=> Len(s) = 0
  OBVIOUS
<1> QED
  BY <1>1, <1>2, <1>3, <1>4

\* The place of a file in a deque.
Spot(cs, i, j, u) == i \in 1 .. Len(cs) /\ j \in 1 .. Len(cs[i].uris) /\ cs[i].uris[j] = u

\* What a deque holds, in terms of places.
LEMMA Spots ==
  ASSUME NEW cs
  PROVE  /\ \A u : Holds(cs, u) <=> \E i, j : Spot(cs, i, j, u)
         /\ NoRepeat(cs) <=> \A u, i, j, k, l :
              Spot(cs, i, j, u) /\ Spot(cs, k, l, u) => i = k /\ j = l
<1>1. \A u : Holds(cs, u) <=> \E i, j : Spot(cs, i, j, u)
  BY Zenon DEF Holds, Spot
<1>2. ASSUME NoRepeat(cs), NEW u, NEW i, NEW j, NEW k, NEW l,
             Spot(cs, i, j, u), Spot(cs, k, l, u)
      PROVE  i = k /\ j = l
  <2>1. /\ i \in 1 .. Len(cs) /\ j \in 1 .. Len(cs[i].uris)
        /\ k \in 1 .. Len(cs) /\ l \in 1 .. Len(cs[k].uris)
        /\ cs[i].uris[j] = cs[k].uris[l]
    BY <1>2, Zenon DEF Spot
  <2> QED
    BY <1>2, <2>1, Zenon DEF NoRepeat
<1>3. ASSUME \A u, i, j, k, l : Spot(cs, i, j, u) /\ Spot(cs, k, l, u) => i = k /\ j = l
      PROVE  NoRepeat(cs)
  <2> SUFFICES ASSUME NEW i \in 1 .. Len(cs), NEW k \in 1 .. Len(cs),
                      NEW j \in 1 .. Len(cs[i].uris), NEW l \in 1 .. Len(cs[k].uris),
                      cs[i].uris[j] = cs[k].uris[l]
               PROVE  i = k /\ j = l
    BY DEF NoRepeat
  <2>1. Spot(cs, i, j, cs[i].uris[j]) /\ Spot(cs, k, l, cs[i].uris[j])
    BY Zenon DEF Spot
  <2> QED
    BY <2>1, <1>3, Zenon
<1> QED
  BY <1>1, <1>2, <1>3, Zenon

\* The files of a chunk are those with a place in it.
LEMMA ChunkSpots ==
  ASSUME NEW C, \A c \in C : c.uris \in Seq(Uris), NEW cs \in Seq(C), NEW i \in 1 .. Len(cs)
  PROVE  \A u : u \in ToSet(cs[i].uris) <=> \E j : Spot(cs, i, j, u)
<1>1. cs[i].uris \in Seq(Uris)
  <2>1. cs[i] \in C
    OBVIOUS
  <2> QED
    BY <2>1, Zenon
<1>2. \A u : u \in ToSet(cs[i].uris) <=> \E j \in 1 .. Len(cs[i].uris) : cs[i].uris[j] = u
  BY <1>1, Elements, Zenon
<1> QED
  BY <1>2, Zenon DEF Spot

\* What a deque holds without some of the first chunks.
LEMMA SuffixHolds ==
  ASSUME NEW C, \A c \in C : c.uris \in Seq(Uris),
         NEW cs \in Seq(C), NEW m \in 1 .. Len(cs) + 1, NEW r \in Seq(C),
         Len(r) = Len(cs) - m + 1, \A i \in 1 .. Len(cs) - m + 1 : r[i] = cs[m + i - 1]
  PROVE  /\ NoRepeat(cs) => NoRepeat(r)
         /\ \A g : Proper(cs, g) => Proper(r, g)
         /\ \A u : Holds(r, u) => Holds(cs, u)
         /\ \A u : Holds(cs, u) =>
              Holds(r, u) \/ \E i \in 1 .. m - 1 : u \in ToSet(cs[i].uris)
         /\ NoRepeat(cs) =>
              \A u : Holds(r, u) => \A i \in 1 .. m - 1 : u \notin ToSet(cs[i].uris)
<1>1. Len(cs) \in Nat /\ Len(r) \in Nat /\ m \in Nat
  OBVIOUS
<1>2. \A i \in 1 .. Len(r) : m + i - 1 \in 1 .. Len(cs) /\ r[i] = cs[m + i - 1]
  BY <1>1
<1>3. \A i, j, u : Spot(r, i, j, u) => Spot(cs, m + i - 1, j, u) /\ i \in Nat
  BY <1>1, <1>2 DEF Spot
<1>4. \A i, j, u : Spot(cs, i, j, u) => i \in 1 .. m - 1 \/ Spot(r, i - m + 1, j, u)
  <2> SUFFICES ASSUME NEW i, NEW j, NEW u, Spot(cs, i, j, u), i \notin 1 .. m - 1
               PROVE  Spot(r, i - m + 1, j, u)
    BY Zenon
  <2>1. i \in m .. Len(cs)
    BY <1>1 DEF Spot
  <2>2. i - m + 1 \in 1 .. Len(r) /\ m + (i - m + 1) - 1 = i
    BY <1>1, <2>1
  <2>3. r[i - m + 1] = cs[i]
    BY <1>2, <2>2
  <2> QED
    BY <2>2, <2>3, Zenon DEF Spot
<1>5. ASSUME NoRepeat(cs) PROVE NoRepeat(r)
  <2> SUFFICES ASSUME NEW u, NEW i, NEW j, NEW k, NEW l, Spot(r, i, j, u), Spot(r, k, l, u)
               PROVE  i = k /\ j = l
    BY Spots, Zenon
  <2>1. Spot(cs, m + i - 1, j, u) /\ Spot(cs, m + k - 1, l, u) /\ i \in Nat /\ k \in Nat
    BY <1>3, Zenon
  <2>2. m + i - 1 = m + k - 1 /\ j = l
    BY <2>1, <1>5, Spots, ZenonT(40)
  <2> QED
    BY <2>1, <2>2, <1>1
<1>6. \A g : Proper(cs, g) => Proper(r, g)
  BY <1>2 DEF Proper
<1>7. ASSUME NEW u, Holds(r, u) PROVE Holds(cs, u)
  <2>1. PICK i, j : Spot(r, i, j, u)
    BY <1>7, Spots, Zenon
  <2>2. \E k : Spot(cs, k, j, u)
    BY <2>1, <1>3
  <2> QED
    BY <2>2, Spots, Zenon
<1>8. \A i \in 1 .. m - 1 : \A u : u \in ToSet(cs[i].uris) <=> \E j : Spot(cs, i, j, u)
  <2>1. \A i \in 1 .. m - 1 : i \in 1 .. Len(cs)
    BY <1>1
  <2> QED
    BY <2>1, ChunkSpots, Zenon
<1>9. ASSUME NEW u, Holds(cs, u)
      PROVE  Holds(r, u) \/ \E i \in 1 .. m - 1 : u \in ToSet(cs[i].uris)
  <2>1. PICK i, j : Spot(cs, i, j, u)
    BY <1>9, Spots, Zenon
  <2>2. i \in 1 .. m - 1 \/ \E k : Spot(r, k, j, u)
    BY <2>1, <1>4
  <2> QED
    BY <2>1, <2>2, <1>8, Spots, Zenon
<1>10. ASSUME NoRepeat(cs), NEW u, Holds(r, u), NEW i \in 1 .. m - 1, u \in ToSet(cs[i].uris)
       PROVE  FALSE
  <2>1. PICK j : Spot(cs, i, j, u)
    BY <1>8, <1>10, Zenon
  <2>2. PICK k, l : Spot(r, k, l, u)
    BY <1>10, Spots, Zenon
  <2>3. Spot(cs, m + k - 1, l, u) /\ k \in 1 .. Len(r)
    BY <2>2, <1>3, Zenon DEF Spot
  <2>4. i = m + k - 1
    BY <2>1, <2>3, <1>10, Spots, Zenon
  <2> QED
    BY <2>3, <2>4, <1>1
<1> QED
  BY <1>5, <1>6, <1>7, <1>9, <1>10, Zenon

\* What a deque holds without its first chunk.
LEMMA TailHolds ==
  ASSUME NEW C, \A c \in C : c.uris \in Seq(Uris), NEW cs \in Seq(C), cs # <<>>
  PROVE  /\ Head(cs) \in C /\ Tail(cs) \in Seq(C)
         /\ NoRepeat(cs) => NoRepeat(Tail(cs)) /\ Distinct(Head(cs).uris)
         /\ \A g : Proper(cs, g) => /\ Proper(Tail(cs), g) /\ Head(cs).generation = g
                                    /\ Len(Head(cs).uris) \in 1 .. Len(Files)
         /\ \A u : Holds(cs, u) <=> Holds(Tail(cs), u) \/ u \in ToSet(Head(cs).uris)
         /\ NoRepeat(cs) => \A u \in ToSet(Head(cs).uris) : ~ Holds(Tail(cs), u)
<1>1. /\ Head(cs) \in C /\ Head(cs) = cs[1] /\ Len(cs) \in Nat \ {0}
      /\ Tail(cs) \in Seq(C) /\ Len(Tail(cs)) = Len(cs) - 1
      /\ \A i \in 1 .. Len(cs) - 1 : Tail(cs)[i] = cs[i + 1]
  BY TailOf, Zenon
<1>2. /\ 2 \in 1 .. Len(cs) + 1 /\ Len(Tail(cs)) = Len(cs) - 2 + 1
      /\ \A i \in 1 .. Len(cs) - 2 + 1 : Tail(cs)[i] = cs[2 + i - 1]
      /\ 1 \in 1 .. Len(cs)
  <2>1. Len(cs) - 2 + 1 = Len(cs) - 1 /\ \A i \in 1 .. Len(cs) - 1 : 2 + i - 1 = i + 1
    BY <1>1
  <2> QED
    BY <1>1, <2>1
<1>3. /\ NoRepeat(cs) => NoRepeat(Tail(cs))
      /\ \A g : Proper(cs, g) => Proper(Tail(cs), g)
      /\ \A u : Holds(Tail(cs), u) => Holds(cs, u)
      /\ \A u : Holds(cs, u) =>
           Holds(Tail(cs), u) \/ \E i \in 1 .. 2 - 1 : u \in ToSet(cs[i].uris)
      /\ NoRepeat(cs) =>
           \A u : Holds(Tail(cs), u) => \A i \in 1 .. 2 - 1 : u \notin ToSet(cs[i].uris)
  BY <1>1, <1>2, SuffixHolds, Zenon
<1>4. (\A i \in 1 .. 2 - 1 : i = 1) /\ 1 \in 1 .. 2 - 1
  OBVIOUS
<1>5. \A u : u \in ToSet(cs[1].uris) <=> \E j : Spot(cs, 1, j, u)
  BY <1>2, ChunkSpots, Zenon
<1>6. ASSUME NoRepeat(cs) PROVE Distinct(cs[1].uris)
  <2> SUFFICES ASSUME NEW j \in 1 .. Len(cs[1].uris), NEW k \in 1 .. Len(cs[1].uris),
                      cs[1].uris[j] = cs[1].uris[k]
               PROVE  j = k
    BY DEF Distinct
  <2>1. Spot(cs, 1, j, cs[1].uris[j]) /\ Spot(cs, 1, k, cs[1].uris[j])
    BY <1>2, Zenon DEF Spot
  <2> QED
    BY <2>1, <1>6, Spots, Zenon
<1>7. \A g : Proper(cs, g) => cs[1].generation = g /\ Len(cs[1].uris) \in 1 .. Len(Files)
  BY <1>2, Zenon DEF Proper
<1>8. \A u : u \in ToSet(cs[1].uris) => Holds(cs, u)
  BY <1>5, Spots, Zenon
<1>9. \A u : Holds(cs, u) <=> Holds(Tail(cs), u) \/ u \in ToSet(cs[1].uris)
  BY <1>3, <1>4, <1>8, Zenon
<1>10. NoRepeat(cs) => \A u \in ToSet(cs[1].uris) : ~ Holds(Tail(cs), u)
  BY <1>3, <1>4, Zenon
<1>11. Head(cs) = cs[1]
  BY <1>1
<1> QED
  BY <1>1, <1>3, <1>6, <1>7, <1>9, <1>10, <1>11

\* What two deques hold together.
LEMMA JoinHolds ==
  ASSUME NEW C, NEW cs \in Seq(C), NEW ds \in Seq(C)
  PROVE  /\ cs \o ds \in Seq(C)
         /\ \A g : Proper(cs, g) /\ Proper(ds, g) => Proper(cs \o ds, g)
         /\ \A u : Holds(cs \o ds, u) <=> Holds(cs, u) \/ Holds(ds, u)
         /\ (NoRepeat(cs) /\ NoRepeat(ds) /\ \A u : ~ (Holds(cs, u) /\ Holds(ds, u)))
              => NoRepeat(cs \o ds)
<1> DEFINE r == cs \o ds
<1>1. /\ r \in Seq(C) /\ Len(r) = Len(cs) + Len(ds) /\ Len(cs) \in Nat /\ Len(ds) \in Nat
      /\ \A i \in 1 .. Len(cs) : r[i] = cs[i]
      /\ \A i \in 1 .. Len(ds) : r[Len(cs) + i] = ds[i]
  BY ConcatOf
<1> HIDE DEF r
<1>2. \A i, j, u : Spot(cs, i, j, u) => Spot(r, i, j, u) /\ i \in 1 .. Len(cs)
  BY <1>1 DEF Spot
<1>3. ASSUME NEW i, NEW j, NEW u, Spot(ds, i, j, u)
      PROVE  Spot(r, Len(cs) + i, j, u) /\ i \in Nat
  <2>1. i \in 1 .. Len(ds) /\ j \in 1 .. Len(ds[i].uris) /\ ds[i].uris[j] = u
    BY <1>3, Zenon DEF Spot
  <2>2. Len(cs) + i \in 1 .. Len(r) /\ r[Len(cs) + i] = ds[i] /\ i \in Nat
    BY <2>1, <1>1
  <2> QED
    BY <2>1, <2>2, Zenon DEF Spot
<1>4. ASSUME NEW i, NEW j, NEW u, Spot(r, i, j, u)
      PROVE  \/ Spot(cs, i, j, u) /\ i \in 1 .. Len(cs)
             \/ Spot(ds, i - Len(cs), j, u) /\ i \in Len(cs) + 1 .. Len(r)
  <2>1. i \in 1 .. Len(r) /\ j \in 1 .. Len(r[i].uris) /\ r[i].uris[j] = u
    BY <1>4, Zenon DEF Spot
  <2>2. CASE i <= Len(cs)
    <3>1. i \in 1 .. Len(cs) /\ r[i] = cs[i]
      BY <2>1, <2>2, <1>1
    <3> QED
      BY <3>1, <2>1, Zenon DEF Spot
  <2>3. CASE ~ (i <= Len(cs))
    <3>1. /\ i - Len(cs) \in 1 .. Len(ds) /\ Len(cs) + (i - Len(cs)) = i
          /\ i \in Len(cs) + 1 .. Len(r)
      BY <2>1, <2>3, <1>1
    <3>2. r[i] = ds[i - Len(cs)]
      BY <3>1, <1>1
    <3> QED
      BY <3>1, <3>2, <2>1, Zenon DEF Spot
  <2> QED
    BY <2>2, <2>3
<1>5. \A g : Proper(cs, g) /\ Proper(ds, g) => Proper(r, g)
  <2> SUFFICES ASSUME NEW g, Proper(cs, g), Proper(ds, g), NEW i \in 1 .. Len(r)
               PROVE  r[i].generation = g /\ Len(r[i].uris) \in 1 .. Len(Files)
    BY DEF Proper
  <2>1. CASE i <= Len(cs)
    BY <2>1, <1>1 DEF Proper
  <2>2. CASE ~ (i <= Len(cs))
    <3>1. i - Len(cs) \in 1 .. Len(ds) /\ Len(cs) + (i - Len(cs)) = i
      BY <2>2, <1>1
    <3>2. r[i] = ds[i - Len(cs)]
      BY <3>1, <1>1
    <3> QED
      BY <3>1, <3>2, Zenon DEF Proper
  <2> QED
    BY <2>1, <2>2
<1>6. ASSUME NEW u, Holds(r, u) PROVE Holds(cs, u) \/ Holds(ds, u)
  <2>1. PICK i, j : Spot(r, i, j, u)
    BY <1>6, Spots, Zenon
  <2>2. Spot(cs, i, j, u) \/ \E k : Spot(ds, k, j, u)
    BY <2>1, <1>4
  <2> QED
    BY <2>2, Spots, Zenon
<1>7. ASSUME NEW u, Holds(cs, u) \/ Holds(ds, u) PROVE Holds(r, u)
  <2>1. \E i, j : Spot(cs, i, j, u) \/ Spot(ds, i, j, u)
    BY <1>7, Spots, Zenon
  <2>2. \E i, j : Spot(r, i, j, u)
    BY <2>1, <1>2, <1>3
  <2> QED
    BY <2>2, Spots, Zenon
<1>8. ASSUME NoRepeat(cs), NoRepeat(ds), \A u : ~ (Holds(cs, u) /\ Holds(ds, u))
      PROVE  NoRepeat(r)
  <2> SUFFICES ASSUME NEW u, NEW i, NEW j, NEW k, NEW l, Spot(r, i, j, u), Spot(r, k, l, u)
               PROVE  i = k /\ j = l
    BY Spots, Zenon
  <2>1. \A x, y, z, w : ~ (Spot(cs, x, y, u) /\ Spot(ds, z, w, u))
    BY <1>8, Spots, Zenon
  <2>2. CASE Spot(cs, i, j, u) /\ Spot(cs, k, l, u)
    BY <2>2, <1>8, Spots, Zenon
  <2>3. CASE /\ Spot(ds, i - Len(cs), j, u) /\ i \in Len(cs) + 1 .. Len(r)
             /\ Spot(ds, k - Len(cs), l, u) /\ k \in Len(cs) + 1 .. Len(r)
    <3>1. i - Len(cs) = k - Len(cs) /\ j = l
      BY <2>3, <1>8, Spots, Zenon
    <3> QED
      BY <3>1, <2>3, <1>1
  <2> QED
    BY <2>1, <2>2, <2>3, <1>4, Zenon
<1> QED
  BY <1>1, <1>5, <1>6, <1>7, <1>8, Zenon DEF r

\* What the chunks of a list without repeats hold.
LEMMA ChunksHold ==
  ASSUME NEW new \in Seq(Uris), Distinct(new), Len(new) <= Len(Files), NEW n \in Nat \ {0},
         NEW g, NEW C, NEW ds \in Seq(C), Len(ds) = Len(Chunks(new, n)),
         \A i \in 1 .. Len(ds) : ds[i].uris = Chunks(new, n)[i] /\ ds[i].generation = g
  PROVE  /\ NoRepeat(ds) /\ Proper(ds, g)
         /\ \A u : Holds(ds, u) <=> u \in ToSet(new)
<1> DEFINE cs == Chunks(new, n)
<1>0. /\ cs \in Seq(Seq(Uris)) /\ Len(cs) \in Nat /\ Len(new) \in Nat /\ Len(Files) \in Nat
      /\ Len(ds) = Len(cs)
      /\ \A i \in 1 .. Len(cs) : ds[i].uris = cs[i] /\ ds[i].generation = g
      /\ \A u : u \in ToSet(new) <=> \E p \in 1 .. Len(new) : new[p] = u
  <2>1. cs \in Seq(Seq(Uris)) /\ Files \in Seq(Uris)
    BY ChunksOf, FilesAssumption, Zenon DEF FilesAssumption
  <2>2. Len(cs) \in Nat /\ Len(new) \in Nat /\ Len(Files) \in Nat
    BY <2>1, LenProperties, Zenon
  <2> QED
    BY <2>1, <2>2, Elements, Zenon
<1>1. \A i \in 1 .. Len(cs) :
        /\ Len(cs[i]) \in 1 .. Len(new) /\ Len(cs[i]) <= n
        /\ \A j \in 1 .. Len(cs[i]) : /\ (i - 1) * n + j \in 1 .. Len(new)
                                      /\ cs[i][j] = new[(i - 1) * n + j]
  BY ChunksOf, ZenonT(60)
<1>2. \A p \in 1 .. Len(new) : \E i \in 1 .. Len(cs) : \E j \in 1 .. Len(cs[i]) :
        cs[i][j] = new[p]
  BY ChunksOf, ZenonT(60)
<1> HIDE DEF cs
<1>3. ASSUME NEW i, NEW j, NEW u, Spot(ds, i, j, u)
      PROVE  /\ i \in 1 .. Len(cs) /\ i - 1 \in Nat /\ j \in 1 .. n
             /\ (i - 1) * n + j \in 1 .. Len(new) /\ new[(i - 1) * n + j] = u
  <2>1. i \in 1 .. Len(cs) /\ j \in 1 .. Len(cs[i]) /\ cs[i][j] = u
    BY <1>3, <1>0, Zenon DEF Spot
  <2>2. (i - 1) * n + j \in 1 .. Len(new) /\ new[(i - 1) * n + j] = u
    BY <2>1, <1>1, Zenon
  <2>3. Len(cs[i]) \in Nat /\ Len(cs[i]) <= n
    BY <2>1, <1>1, <1>0
  <2>4. i - 1 \in Nat /\ j \in 1 .. n
    BY <2>1, <2>3, <1>0
  <2> QED
    BY <2>1, <2>2, <2>4
<1>4. NoRepeat(ds)
  <2> SUFFICES ASSUME NEW u, NEW i, NEW j, NEW k, NEW l, Spot(ds, i, j, u), Spot(ds, k, l, u)
               PROVE  i = k /\ j = l
    BY Spots, Zenon
  <2>1. /\ i \in 1 .. Len(cs) /\ i - 1 \in Nat /\ j \in 1 .. n
        /\ (i - 1) * n + j \in 1 .. Len(new) /\ new[(i - 1) * n + j] = u
    BY <1>3, Zenon
  <2>2. /\ k \in 1 .. Len(cs) /\ k - 1 \in Nat /\ l \in 1 .. n
        /\ (k - 1) * n + l \in 1 .. Len(new) /\ new[(k - 1) * n + l] = u
    BY <1>3, Zenon
  <2>3. (i - 1) * n + j = (k - 1) * n + l
    BY <2>1, <2>2, Zenon DEF Distinct
  <2>4. i - 1 = k - 1 /\ j = l
    <3>1. PICK a \in Nat : a = i - 1
      BY <2>1
    <3>2. PICK b \in Nat : b = k - 1
      BY <2>2
    <3>3. a * n + j = b * n + l
      BY <2>3, <3>1, <3>2
    <3>4. j \in 1 .. n /\ l \in 1 .. n
      BY <2>1, <2>2, Zenon
    <3>5. a = b /\ j = l
      BY <3>3, <3>4, OneMultiple, ZenonT(40)
    <3> QED
      BY <3>1, <3>2, <3>5
  <2> QED
    BY <2>1, <2>2, <2>4, <1>0
<1>5. Proper(ds, g)
  <2> SUFFICES ASSUME NEW i \in 1 .. Len(ds)
               PROVE  ds[i].generation = g /\ Len(ds[i].uris) \in 1 .. Len(Files)
    BY DEF Proper
  <2>1. ds[i].generation = g /\ ds[i].uris = cs[i] /\ Len(cs[i]) \in 1 .. Len(new)
    BY <1>0, <1>1, Zenon
  <2> QED
    BY <2>1, <1>0
<1>6. ASSUME NEW u, u \in ToSet(new)
      PROVE  Holds(ds, u)
  <2>1. PICK p \in 1 .. Len(new) : new[p] = u
    BY <1>6, <1>0, Zenon
  <2>2. PICK i \in 1 .. Len(cs) : \E j \in 1 .. Len(cs[i]) : cs[i][j] = u
    BY <2>1, <1>2, Zenon
  <2>3. \E j : Spot(ds, i, j, u)
    BY <2>2, <1>0, Zenon DEF Spot
  <2> QED
    BY <2>3, Spots, Zenon
<1>7. ASSUME NEW u, Holds(ds, u)
      PROVE  u \in ToSet(new)
  <2>1. PICK i, j : Spot(ds, i, j, u)
    BY <1>7, Spots, Zenon
  <2> QED
    BY <2>1, <1>3, <1>0, Zenon
<1> QED
  BY <1>4, <1>5, <1>6, <1>7, Zenon

-------------------------------------------------------------------------------
(* The operations of the queue.                                            *)

\* The files of the workspace are listed once.
LEMMA FilesListed ==
  /\ Files \in Seq(Uris) /\ Distinct(Files)
  /\ Len(Files) \in Nat /\ \A u : u \in Uris <=> \E j \in 1 .. Len(Files) : Files[j] = u
<1>1. Files \in Seq(Uris) /\ IsInjective(Files)
  BY FilesAssumption, Zenon
<1>2. DOMAIN Files = 1 .. Len(Files)
  BY <1>1
<1>3. Distinct(Files)
  BY <1>1, <1>2, Zenon DEF IsInjective, Distinct
<1>4. Len(Files) \in Nat /\ \A u : u \in ToSet(Files) <=> \E j \in 1 .. Len(Files) : Files[j] = u
  BY <1>1, Elements, Zenon
<1> QED
  BY <1>1, <1>3, <1>4, Zenon DEF Uris

\* There are as many elements in a list without repeats as places.
LEMMA CountDistinct ==
  ASSUME NEW T, NEW s \in Seq(T), Distinct(s)
  PROVE  IsFiniteSet(ToSet(s)) /\ Cardinality(ToSet(s)) = Len(s)
<1> DEFINE D == 1 .. Len(s)
<1>1. Len(s) \in Nat /\ DOMAIN s = D /\ s = [i \in D |-> s[i]]
  OBVIOUS
<1>2. \A u : u \in ToSet(s) <=> \E j \in D : s[j] = u
  BY Elements, Zenon
<1>3. IsFiniteSet(D) /\ Cardinality(D) = Len(s)
  <2>1. 1 \in Int /\ Len(s) \in Int /\ (IF 1 > Len(s) THEN 0 ELSE Len(s) - 1 + 1) = Len(s)
    BY <1>1
  <2>2. IsFiniteSet(D) /\ Cardinality(D) = IF 1 > Len(s) THEN 0 ELSE Len(s) - 1 + 1
    BY <2>1, FS_Interval, Zenon
  <2> QED
    BY <2>1, <2>2
<1> HIDE DEF D
<1>4. s \in [D -> ToSet(s)]
  <2>1. \A i \in D : s[i] \in ToSet(s)
    BY <1>2, Zenon
  <2> QED
    BY <1>1, <2>1
<1>5. s \in Surjection(D, ToSet(s))
  BY <1>2, <1>4, Zenon DEF Surjection
<1>6. s \in Injection(D, ToSet(s))
  BY <1>1, <1>4, Zenon DEF Injection, IsInjective, Distinct, D
<1> QED
  BY <1>3, <1>5, <1>6, FS_Surjection, Zenon

\* There are finitely many files.
LEMMA FinitelyMany ==
  /\ IsFiniteSet(Uris)
  /\ \A S \in SUBSET Uris : IsFiniteSet(S) /\ Cardinality(S) \in Nat
<1>1. IsFiniteSet(Uris)
  BY FilesListed, CountDistinct, Zenon DEF Uris
<1>2. \A S \in SUBSET Uris : IsFiniteSet(S)
  BY <1>1, FS_Subset, Zenon
<1> QED
  BY <1>1, <1>2, FS_CardinalityType, Zenon

\* The files of a set in order.
LEMMA SortedOf ==
  ASSUME NEW S
  PROVE  /\ Sorted(S) \in Seq(Uris) /\ Distinct(Sorted(S)) /\ Len(Sorted(S)) <= Len(Files)
         /\ \A u : u \in ToSet(Sorted(S)) <=> u \in Uris /\ u \in S
<1> DEFINE r == Sorted(S)
<1>0. /\ r \in Seq(Uris) /\ Len(r) <= Len(Files)
      /\ \A k \in 1 .. Len(r) : \E j \in 1 .. Len(Files) : Files[j] \in S /\ r[k] = Files[j]
      /\ \A j \in 1 .. Len(Files) : Files[j] \in S => \E k \in 1 .. Len(r) : r[k] = Files[j]
      /\ Distinct(Files) => Distinct(r)
  BY FilesListed, OnlySelects, Zenon DEF Sorted
<1>1. \A u : u \in ToSet(r) <=> \E j \in 1 .. Len(r) : r[j] = u
  BY <1>0, Elements, Zenon
<1> HIDE DEF r
<1>2. ASSUME NEW u PROVE u \in ToSet(r) <=> u \in Uris /\ u \in S
  <2>1. ASSUME u \in ToSet(r) PROVE u \in Uris /\ u \in S
    <3>1. PICK k \in 1 .. Len(r) : r[k] = u
      BY <2>1, <1>1, Zenon
    <3>2. PICK j \in 1 .. Len(Files) : Files[j] \in S /\ r[k] = Files[j]
      BY <1>0, <3>1, Zenon
    <3> QED
      BY <3>1, <3>2, FilesListed, Zenon
  <2>2. ASSUME u \in Uris, u \in S PROVE u \in ToSet(r)
    <3>1. PICK j \in 1 .. Len(Files) : Files[j] = u
      BY <2>2, FilesListed, Zenon
    <3>2. PICK k \in 1 .. Len(r) : r[k] = Files[j]
      BY <3>1, <2>2, <1>0, Zenon
    <3> QED
      BY <1>1, <3>1, <3>2, Zenon
  <2> QED
    BY <2>1, <2>2, Zenon
<1> QED
  BY <1>0, <1>2, FilesListed, Zenon DEF r

\* An empty deque, and the files a deque holds.
LEMMA EmptyHolds ==
  /\ NoRepeat(<<>>) /\ \A g : Proper(<<>>, g)
  /\ \A u : ~ Holds(<<>>, u)
<1>1. 1 .. Len(<<>>) = {}
  OBVIOUS
<1> QED
  BY <1>1, Zenon DEF NoRepeat, Proper, Holds

\* A deque holds files of the workspace.
LEMMA HeldFiles ==
  ASSUME NEW C, \A c \in C : c.uris \in Seq(Uris), NEW cs \in Seq(C), NEW u, Holds(cs, u)
  PROVE  u \in Uris
<1>1. PICK i \in 1 .. Len(cs) : \E j \in 1 .. Len(cs[i].uris) : cs[i].uris[j] = u
  BY Zenon DEF Holds
<1>2. cs[i] \in C
  BY <1>1
<1>3. cs[i].uris \in Seq(Uris)
  BY <1>2, Zenon
<1> QED
  BY <1>1, <1>3, Elements, Zenon

\* The chunks of each deque have a list of files.
LEMMA ChunkTypes ==
  /\ \A c \in IndexChunks("neighborhood") : c.uris \in Seq(Uris)
  /\ \A c \in IndexChunks("sweep") : c.uris \in Seq(Uris)
  /\ \A c \in SymbolChunks : c.uris \in Seq(Uris)
BY DEF IndexChunks, SymbolChunks

\* The files of two disjoint sets are counted together.
LEMMA CountTogether ==
  ASSUME NEW A, NEW B, A \subseteq Uris, B \subseteq Uris, \A u \in A : u \notin B
  PROVE  /\ Cardinality(A) \in Nat /\ Cardinality(B) \in Nat
         /\ Cardinality(A \union B) = Cardinality(A) + Cardinality(B)
<1>1. /\ IsFiniteSet(A) /\ Cardinality(A) \in Nat
      /\ IsFiniteSet(B) /\ Cardinality(B) \in Nat
  BY FinitelyMany, Zenon
<1>2. A \cap B = {}
  OBVIOUS
<1>3. Cardinality(A \cap B) = 0
  BY <1>2, FS_EmptySet, Zenon
<1>4. Cardinality(A \union B) = Cardinality(A) + Cardinality(B) - Cardinality(A \cap B)
  BY <1>1, FS_Union, Zenon
<1> QED
  BY <1>1, <1>3, <1>4

\* Which files wait is recorded at most for those the deques hold.
QueuedMaps == [Uris -> Levels \union {Nowhere}]

\* The fields of a queue.
LEMMA QueueFields ==
  ASSUME NEW q \in Queues
  PROVE  /\ q.pending \in Seq(Commands) /\ q.locations \in Seq(Locates) /\ q.sinceLocation \in Nat
         /\ q.neighborhood \in Seq(IndexChunks("neighborhood"))
         /\ q.sweep \in Seq(IndexChunks("sweep"))
         /\ q.symbols \in Seq(SymbolChunks) /\ q.sinceSweep \in Nat
         /\ q.symbolQueued \in SUBSET Uris /\ q.queued \in QueuedMaps
         /\ q.done \in Nat /\ q.total \in Nat /\ q.generation \in Nat
         /\ q.disconnected \in BOOLEAN
BY DEF Queues, QueuedMaps

(* The files of S are recorded at a level; the ones of them that waited    *)
(* nowhere are new.                                                        *)
Recorded(queued, S, level) == [u \in Uris |-> IF u \in S THEN level ELSE queued[u]]
Fresh(queued, S) == {u \in S : queued[u] = Nowhere}

\* A deque of generation g holds the files of S, each once.
Deque(ds, g, S) == NoRepeat(ds) /\ Proper(ds, g) /\ \A u : Holds(ds, u) <=> u \in S

\* Chunks join the neighborhood: their files are recorded there.
LEMMA NearJoined ==
  ASSUME NEW q \in Queues, QueueInv(q),
         NEW ds \in Seq(IndexChunks("neighborhood")), NEW S \in SUBSET Uris,
         Deque(ds, q.generation, S), \A u \in S : q.queued[u] # "neighborhood"
  PROVE  LET queued1 == Recorded(q.queued, S, "neighborhood")
             total1 == q.total + Cardinality(Fresh(q.queued, S))
         IN  /\ Books(q.neighborhood \o ds, q.sweep, q.symbols, queued1, q.symbolQueued,
                      q.done, total1, q.generation)
             /\ queued1 \in QueuedMaps /\ total1 \in Nat
<1> DEFINE near == q.neighborhood
           far == q.sweep
           syms == q.symbols
           queued == q.queued
           sq == q.symbolQueued
           done == q.done
           total == q.total
           g == q.generation
<1>F. /\ near \in Seq(IndexChunks("neighborhood")) /\ far \in Seq(IndexChunks("sweep"))
      /\ syms \in Seq(SymbolChunks) /\ sq \in SUBSET Uris /\ queued \in QueuedMaps
      /\ done \in Nat /\ total \in Nat /\ g \in Nat
  BY QueueFields, Zenon
<1>B. Books(near, far, syms, queued, sq, done, total, g)
  BY Zenon DEF QueueInv
<1>D. /\ NoRepeat(ds) /\ Proper(ds, g) /\ \A u : Holds(ds, u) <=> u \in S
      /\ \A u \in S : queued[u] # "neighborhood"
  BY Zenon DEF Deque
<1> HIDE DEF near, far, syms, queued, sq, done, total, g
<1> DEFINE queued1 == Recorded(queued, S, "neighborhood")
           B == Fresh(queued, S)
           total1 == total + Cardinality(B)
<1> DEFINE A == Waiting(queued)
           js == near \o ds
<1>1. /\ Proper(near, g) /\ NoRepeat(near) /\ Proper(far, g) /\ NoRepeat(far)
      /\ Proper(syms, g) /\ NoRepeat(syms)
      /\ \A u \in Uris : Holds(near, u) <=> queued[u] = "neighborhood"
      /\ \A u \in Uris : queued[u] = "sweep" => Holds(far, u)
      /\ \A u \in Uris : Holds(syms, u) <=> u \in sq
      /\ total = done + Cardinality(A)
  BY <1>B, Zenon DEF Books
<1>2. \A u \in Uris : queued1[u] = IF u \in S THEN "neighborhood" ELSE queued[u]
  BY DEF Recorded
<1>3. queued1 \in QueuedMaps
  BY <1>F DEF QueuedMaps, Levels, Recorded
<1>4. /\ Cardinality(A) \in Nat /\ Cardinality(B) \in Nat
      /\ Cardinality(A \union B) = Cardinality(A) + Cardinality(B)
  <2>1. A \subseteq Uris /\ B \subseteq Uris /\ \A u \in A : u \notin B
    BY DEF Waiting, Fresh
  <2> QED
    BY <2>1, CountTogether, Zenon
<1>5. Waiting(queued1) = A \union B
  BY <1>2 DEF Waiting, Nowhere, Fresh
<1>6. \A u : Holds(near, u) => u \in Uris
  BY <1>F, HeldFiles, ChunkTypes, Zenon
<1>7. \A u : ~ (Holds(near, u) /\ Holds(ds, u))
  BY <1>1, <1>6, <1>D, Zenon
<1>8. /\ Proper(js, g) /\ NoRepeat(js)
      /\ \A u : Holds(js, u) <=> Holds(near, u) \/ Holds(ds, u)
  BY <1>1, <1>7, <1>D, <1>F, JoinHolds, Zenon
<1> HIDE DEF A, B, js, queued1
<1>9. \A u \in Uris : Holds(js, u) <=> queued1[u] = "neighborhood"
  BY <1>1, <1>2, <1>8, <1>D
<1>10. \A u \in Uris : queued1[u] = "sweep" => Holds(far, u)
  BY <1>1, <1>2
<1>11. total1 = done + Cardinality(Waiting(queued1)) /\ total1 \in Nat
  <2>2. Cardinality(Waiting(queued1)) = Cardinality(A) + Cardinality(B)
    BY <1>4, <1>5, Zenon
  <2> QED
    BY <1>1, <1>4, <1>F, <2>2
<1>12. Books(js, far, syms, queued1, sq, done, total1, g)
  BY <1>1, <1>8, <1>9, <1>10, <1>11, Zenon DEF Books
<1> QED
  BY <1>3, <1>11, <1>12, Zenon DEF near, far, syms, queued, sq, done, total, g, js, B, queued1

\* The sweep is filled: the files of its chunks waited nowhere.
LEMMA FarFilled ==
  ASSUME NEW q \in Queues, QueueInv(q), q.sweep = <<>>,
         NEW ds \in Seq(IndexChunks("sweep")), NEW S \in SUBSET Uris,
         Deque(ds, q.generation, S), \A u \in S : q.queued[u] = Nowhere
  PROVE  LET queued1 == Recorded(q.queued, S, "sweep")
             total1 == q.total + Cardinality(Fresh(q.queued, S))
         IN  /\ Books(q.neighborhood, ds, q.symbols, queued1, q.symbolQueued,
                      q.done, total1, q.generation)
             /\ queued1 \in QueuedMaps /\ total1 \in Nat
<1> DEFINE near == q.neighborhood
           far == q.sweep
           syms == q.symbols
           queued == q.queued
           sq == q.symbolQueued
           done == q.done
           total == q.total
           g == q.generation
<1>F. /\ near \in Seq(IndexChunks("neighborhood")) /\ far \in Seq(IndexChunks("sweep"))
      /\ syms \in Seq(SymbolChunks) /\ sq \in SUBSET Uris /\ queued \in QueuedMaps
      /\ done \in Nat /\ total \in Nat /\ g \in Nat
  BY QueueFields, Zenon
<1>B. Books(near, far, syms, queued, sq, done, total, g)
  BY Zenon DEF QueueInv
<1>D. /\ NoRepeat(ds) /\ Proper(ds, g) /\ \A u : Holds(ds, u) <=> u \in S
      /\ far = <<>> /\ \A u \in S : queued[u] = Nowhere
  BY Zenon DEF Deque
<1> HIDE DEF near, far, syms, queued, sq, done, total, g
<1> DEFINE queued1 == Recorded(queued, S, "sweep")
           B == Fresh(queued, S)
           total1 == total + Cardinality(B)
<1> DEFINE A == Waiting(queued)
<1>1. /\ Proper(near, g) /\ NoRepeat(near)
      /\ Proper(syms, g) /\ NoRepeat(syms)
      /\ \A u \in Uris : Holds(near, u) <=> queued[u] = "neighborhood"
      /\ \A u \in Uris : queued[u] = "sweep" => Holds(far, u)
      /\ \A u \in Uris : Holds(syms, u) <=> u \in sq
      /\ total = done + Cardinality(A)
  BY <1>B, Zenon DEF Books
<1>2. \A u \in Uris : queued1[u] = IF u \in S THEN "sweep" ELSE queued[u]
  BY DEF Recorded
<1>3. queued1 \in QueuedMaps
  BY <1>F DEF QueuedMaps, Levels, Recorded
<1>4. /\ Cardinality(A) \in Nat /\ Cardinality(B) \in Nat
      /\ Cardinality(A \union B) = Cardinality(A) + Cardinality(B)
  <2>1. A \subseteq Uris /\ B \subseteq Uris /\ \A u \in A : u \notin B
    BY DEF Waiting, Fresh
  <2> QED
    BY <2>1, CountTogether, Zenon
<1>5. Waiting(queued1) = A \union B
  BY <1>2 DEF Waiting, Nowhere, Fresh
<1> HIDE DEF A, B, queued1
<1>9. \A u \in Uris : Holds(near, u) <=> queued1[u] = "neighborhood"
  BY <1>1, <1>2, <1>D DEF Nowhere
<1>10. \A u \in Uris : queued1[u] = "sweep" => Holds(ds, u)
  BY <1>1, <1>2, <1>D, EmptyHolds
<1>11. total1 = done + Cardinality(Waiting(queued1)) /\ total1 \in Nat
  <2>2. Cardinality(Waiting(queued1)) = Cardinality(A) + Cardinality(B)
    BY <1>4, <1>5, Zenon
  <2> QED
    BY <1>1, <1>4, <1>F, <2>2
<1>12. Books(near, ds, syms, queued1, sq, done, total1, g)
  BY <1>1, <1>9, <1>10, <1>11, <1>D, Zenon DEF Books
<1> QED
  BY <1>3, <1>11, <1>12, Zenon DEF near, far, syms, queued, sq, done, total, g, B, queued1

\* Symbol chunks are added: their files did not wait there.
LEMMA SymbolsJoined ==
  ASSUME NEW near, NEW far, NEW syms \in Seq(SymbolChunks),
         NEW queued, NEW sq \in SUBSET Uris, NEW done, NEW total, NEW g,
         Books(near, far, syms, queued, sq, done, total, g),
         NEW ds \in Seq(SymbolChunks), NoRepeat(ds), Proper(ds, g),
         NEW S \in SUBSET Uris, \A u : Holds(ds, u) <=> u \in S, \A u \in S : u \notin sq
  PROVE  Books(near, far, syms \o ds, queued, sq \union S, done, total, g)
<1> DEFINE js == syms \o ds
           sq1 == sq \union S
<1>1. /\ Proper(near, g) /\ NoRepeat(near) /\ Proper(far, g) /\ NoRepeat(far)
      /\ Proper(syms, g) /\ NoRepeat(syms)
      /\ \A u \in Uris : Holds(near, u) <=> queued[u] = "neighborhood"
      /\ \A u \in Uris : queued[u] = "sweep" => Holds(far, u)
      /\ \A u \in Uris : Holds(syms, u) <=> u \in sq
      /\ total = done + Cardinality(Waiting(queued))
  BY Zenon DEF Books
<1>6. \A u : Holds(syms, u) => u \in Uris
  BY HeldFiles, ChunkTypes, Zenon
<1>7. \A u : ~ (Holds(syms, u) /\ Holds(ds, u))
  BY <1>1, Zenon
<1>8. /\ Proper(js, g) /\ NoRepeat(js)
      /\ \A u : Holds(js, u) <=> Holds(syms, u) \/ Holds(ds, u)
  BY <1>1, <1>7, JoinHolds, Zenon
<1>9. \A u \in Uris : Holds(js, u) <=> u \in sq1
  BY <1>1, <1>8, Zenon
<1> HIDE DEF js, sq1
<1>10. Books(near, far, js, queued, sq1, done, total, g)
  BY <1>1, <1>8, <1>9, Zenon DEF Books
<1> QED
  BY <1>10, Zenon DEF js, sq1

(* A chunk is handed out: near1 and far1 are the index deques without it,  *)
(* O the files it owns, which wait nowhere now.                            *)
LEMMA BooksClaimed ==
  ASSUME NEW q \in Queues, QueueInv(q),
         NEW own \in Seq(Uris), Distinct(own), \A u \in ToSet(own) : q.queued[u] # Nowhere,
         NEW near1, NoRepeat(near1), Proper(near1, q.generation),
         \A u \in Uris : Holds(near1, u) <=> q.queued[u] = "neighborhood" /\ u \notin ToSet(own),
         NEW far1, NoRepeat(far1), Proper(far1, q.generation),
         \A u \in Uris : q.queued[u] = "sweep" /\ u \notin ToSet(own) => Holds(far1, u)
  PROVE  LET queued1 == Recorded(q.queued, ToSet(own), Nowhere)
         IN  /\ Books(near1, far1, q.symbols, queued1, q.symbolQueued, q.done + Len(own),
                      q.total, q.generation)
             /\ queued1 \in QueuedMaps /\ q.done + Len(own) \in Nat
<1> DEFINE syms == q.symbols
           queued == q.queued
           sq == q.symbolQueued
           done == q.done
           total == q.total
           g == q.generation
           queued1 == Recorded(queued, ToSet(own), Nowhere)
<1>F. queued \in QueuedMaps /\ done \in Nat /\ total \in Nat /\ g \in Nat
  BY QueueFields, Zenon
<1>B. Books(q.neighborhood, q.sweep, syms, queued, sq, done, total, g)
  BY Zenon DEF QueueInv
<1>D. /\ \A u \in ToSet(own) : queued[u] # Nowhere
      /\ \A u \in Uris : Holds(near1, u) <=> queued[u] = "neighborhood" /\ u \notin ToSet(own)
      /\ \A u \in Uris : queued[u] = "sweep" /\ u \notin ToSet(own) => Holds(far1, u)
      /\ NoRepeat(near1) /\ Proper(near1, g) /\ NoRepeat(far1) /\ Proper(far1, g)
  BY Zenon
<1> HIDE DEF syms, queued, sq, done, total, g
<1> DEFINE O == ToSet(own)
           A == Waiting(queued1)
           done1 == done + Len(own)
<1>1. /\ Proper(syms, g) /\ NoRepeat(syms)
      /\ \A u \in Uris : Holds(syms, u) <=> u \in sq
      /\ total = done + Cardinality(Waiting(queued))
  BY <1>B, Zenon DEF Books
<1>0. O \subseteq Uris /\ Len(own) \in Nat /\ Cardinality(O) = Len(own)
  BY CountDistinct, Elements, Zenon
<1>2. \A u \in Uris : queued1[u] = IF u \in O THEN Nowhere ELSE queued[u]
  BY DEF Recorded
<1> HIDE DEF O
<1>3. queued1 \in QueuedMaps
  BY <1>F DEF QueuedMaps, Levels, Recorded
<1>4. /\ Cardinality(A) \in Nat /\ Cardinality(O) \in Nat
      /\ Cardinality(A \union O) = Cardinality(A) + Cardinality(O)
  <2>1. A \subseteq Uris /\ \A u \in A : u \notin O
    BY <1>2 DEF Waiting
  <2> QED
    BY <2>1, <1>0, CountTogether, Zenon
<1>5. Waiting(queued) = A \union O
  BY <1>0, <1>2, <1>D DEF Waiting, O
<1>9. \A u \in Uris : Holds(near1, u) <=> queued1[u] = "neighborhood"
  BY <1>2, <1>D DEF Nowhere, O
<1>10. \A u \in Uris : queued1[u] = "sweep" => Holds(far1, u)
  BY <1>2, <1>D DEF Nowhere, O
<1> HIDE DEF A, queued1
<1>11. total = done1 + Cardinality(A) /\ done1 \in Nat
  BY <1>0, <1>1, <1>4, <1>5, <1>F
<1> HIDE DEF done1
<1>12. Books(near1, far1, syms, queued1, sq, done1, total, g)
  BY <1>1, <1>9, <1>10, <1>11, <1>D, Zenon DEF Books, A
<1> QED
  BY <1>3, <1>11, <1>12, Zenon DEF done1, syms, queued, sq, done, total, g, queued1

\* What background work leaves alone.
SameFront(q, r) ==
  /\ r.pending = q.pending /\ r.locations = q.locations
  /\ r.generation = q.generation /\ r.disconnected = q.disconnected

\* The files of an index job are queued; a sweep is, once its deque is empty.
LEMMA IndexQueued ==
  ASSUME NEW q \in Queues, QueueInv(q), NEW level \in Levels, NEW uris,
         level = "sweep" => q.sweep = <<>>
  PROVE  LET r == EnqueueIndex(q, level, uris)
         IN  /\ r \in Queues /\ QueueInv(r) /\ SameFront(q, r)
             /\ level = "neighborhood" => r.sweep = q.sweep
<1> DEFINE new == Sorted({u \in uris : Admits(q, u, level)})
           ds == [i \in DOMAIN Chunks(new, IndexChunk) |->
                   [kind |-> "index", generation |-> q.generation, level |-> level,
                    uris |-> Chunks(new, IndexChunk)[i]]]
           S == ToSet(new)
           queued1 == Recorded(q.queued, S, level)
           total1 == q.total + Cardinality(Fresh(q.queued, S))
           q1 == [q EXCEPT !.queued = queued1, !.total = total1]
           r == EnqueueIndex(q, level, uris)
<1>0. r = IF level = "neighborhood" THEN [q1 EXCEPT !.neighborhood = @ \o ds]
                                    ELSE [q1 EXCEPT !.sweep = @ \o ds]
  BY DEF EnqueueIndex, Recorded, Fresh
<1>1. /\ new \in Seq(Uris) /\ Distinct(new) /\ Len(new) <= Len(Files)
      /\ \A u : u \in S <=> u \in Uris /\ u \in {v \in uris : Admits(q, v, level)}
  BY SortedOf, Zenon
<1>2. IndexChunk \in Nat \ {0}
  BY BoundsAssumption
<1> HIDE DEF new
<1>3. /\ Chunks(new, IndexChunk) \in Seq(Seq(Uris))
  BY <1>1, <1>2, ChunksOf, Zenon
<1>F. /\ q.neighborhood \in Seq(IndexChunks("neighborhood"))
      /\ q.sweep \in Seq(IndexChunks("sweep"))
      /\ q.symbols \in Seq(SymbolChunks)
      /\ q.symbolQueued \in SUBSET Uris /\ q.queued \in QueuedMaps
      /\ q.done \in Nat /\ q.total \in Nat /\ q.generation \in Nat
  BY QueueFields, Zenon
<1>B. Books(q.neighborhood, q.sweep, q.symbols, q.queued, q.symbolQueued, q.done, q.total,
            q.generation)
  BY Zenon DEF QueueInv
<1>4. /\ ds \in Seq(IndexChunks(level)) /\ Len(ds) = Len(Chunks(new, IndexChunk))
      /\ \A i \in 1 .. Len(ds) :
           ds[i].uris = Chunks(new, IndexChunk)[i] /\ ds[i].generation = q.generation
  <2> DEFINE cs == Chunks(new, IndexChunk)
             rec(i) == [kind |-> "index", generation |-> q.generation, level |-> level,
                        uris |-> cs[i]]
  <2>1. cs \in Seq(Seq(Uris)) /\ DOMAIN cs = 1 .. Len(cs) /\ Len(cs) \in Nat
    BY <1>3
  <2> HIDE DEF cs
  <2>2. \A i \in 1 .. Len(cs) : /\ rec(i) \in IndexChunks(level) /\ rec(i).uris = cs[i]
                                /\ rec(i).generation = q.generation
    BY <2>1, <1>F DEF IndexChunks
  <2>3. ds = [i \in 1 .. Len(cs) |-> rec(i)]
    BY <2>1, Zenon DEF cs
  <2> HIDE DEF rec, ds
  <2>4. ds \in Seq(IndexChunks(level)) /\ Len(ds) = Len(cs)
        /\ \A i \in 1 .. Len(cs) : ds[i] = rec(i)
    BY <2>1, <2>2, <2>3
  <2> QED
    BY <2>2, <2>4, Zenon DEF cs
<1>5. NoRepeat(ds) /\ Proper(ds, q.generation) /\ \A u : Holds(ds, u) <=> u \in S
  BY <1>1, <1>2, <1>4, ChunksHold, Zenon
<1>6. S \in SUBSET Uris /\ \A u \in S : Admits(q, u, level)
  BY <1>1, Zenon
<1> HIDE DEF ds, S, queued1, total1, r
<1>7. CASE level = "neighborhood"
  <2>1. \A u \in S : q.queued[u] # "neighborhood"
    BY <1>6 DEF Admits, Nowhere
  <2> DEFINE near1 == q.neighborhood \o ds
  <2>2. /\ Books(near1, q.sweep, q.symbols, queued1, q.symbolQueued, q.done, total1, q.generation)
        /\ queued1 \in QueuedMaps /\ total1 \in Nat
    <3>1. queued1 = Recorded(q.queued, S, "neighborhood")
      BY <1>7, Zenon DEF queued1
    <3>2. ds \in Seq(IndexChunks("neighborhood")) /\ Deque(ds, q.generation, S)
      BY <1>4, <1>5, <1>7, Zenon DEF Deque
    <3> QED
      BY <1>6, <2>1, <3>1, <3>2, NearJoined, Zenon DEF total1
  <2>3. near1 \in Seq(IndexChunks("neighborhood"))
    BY <1>F, <1>4, <1>7, ConcatOf, Zenon
  <2>4. r = [q EXCEPT !.queued = queued1, !.total = total1, !.neighborhood = near1]
    BY <1>0, <1>7 DEF Queues
  <2> HIDE DEF near1
  <2>5. /\ r.neighborhood = near1 /\ r.sweep = q.sweep /\ r.symbols = q.symbols
        /\ r.queued = queued1 /\ r.symbolQueued = q.symbolQueued /\ r.done = q.done
        /\ r.total = total1 /\ r.generation = q.generation
    BY <2>4 DEF Queues
  <2>6. r \in Queues /\ SameFront(q, r)
    BY <2>2, <2>3, <2>4 DEF Queues, SameFront, QueuedMaps
  <2>7. QueueInv(r)
    BY <2>2, <2>5, Zenon DEF QueueInv
  <2> QED
    BY <2>5, <2>6, <2>7, Zenon DEF r
<1>8. CASE level = "sweep"
  <2>1. \A u \in S : q.queued[u] = Nowhere
    BY <1>6, <1>8 DEF Admits
  <2>2. q.sweep = <<>>
    BY <1>8
  <2>3. /\ Books(q.neighborhood, ds, q.symbols, queued1, q.symbolQueued, q.done, total1,
                 q.generation)
        /\ queued1 \in QueuedMaps /\ total1 \in Nat
    <3>1. queued1 = Recorded(q.queued, S, "sweep")
      BY <1>8, Zenon DEF queued1
    <3>2. ds \in Seq(IndexChunks("sweep")) /\ Deque(ds, q.generation, S)
      BY <1>4, <1>5, <1>8, Zenon DEF Deque
    <3> QED
      BY <1>6, <2>1, <2>2, <3>1, <3>2, FarFilled, Zenon DEF total1
  <2>4. r = [q EXCEPT !.queued = queued1, !.total = total1, !.sweep = ds]
    <3>1. q.sweep \o ds = ds
      BY <2>2, <1>4
    <3> QED
      BY <1>0, <1>8, <3>1 DEF Queues
  <2>5. /\ r.neighborhood = q.neighborhood /\ r.sweep = ds /\ r.symbols = q.symbols
        /\ r.queued = queued1 /\ r.symbolQueued = q.symbolQueued /\ r.done = q.done
        /\ r.total = total1 /\ r.generation = q.generation
    BY <2>4 DEF Queues
  <2>6. r \in Queues /\ SameFront(q, r)
    BY <2>3, <2>4, <1>4, <1>8 DEF Queues, SameFront, QueuedMaps
  <2>7. QueueInv(r)
    BY <2>3, <2>5, Zenon DEF QueueInv
  <2> QED
    BY <2>6, <2>7, <1>8, Zenon DEF r
<1> QED
  BY <1>7, <1>8 DEF Levels

\* The files of a symbol job are queued.
LEMMA SymbolsQueued ==
  ASSUME NEW q \in Queues, QueueInv(q), NEW uris
  PROVE  LET r == EnqueueSymbols(q, uris)
         IN  r \in Queues /\ QueueInv(r) /\ SameFront(q, r) /\ r.sweep = q.sweep
<1> DEFINE new == Sorted(uris \ q.symbolQueued)
           ds == [i \in DOMAIN Chunks(new, SymbolChunk) |->
                   [kind |-> "symbols", generation |-> q.generation,
                    uris |-> Chunks(new, SymbolChunk)[i]]]
           S == ToSet(new)
           r == EnqueueSymbols(q, uris)
<1>0. r = [q EXCEPT !.symbols = @ \o ds, !.symbolQueued = @ \union S]
  BY DEF EnqueueSymbols
<1>1. /\ new \in Seq(Uris) /\ Distinct(new) /\ Len(new) <= Len(Files)
      /\ \A u : u \in S <=> u \in Uris /\ u \in uris \ q.symbolQueued
  BY SortedOf, Zenon
<1>2. SymbolChunk \in Nat \ {0}
  BY BoundsAssumption
<1> HIDE DEF new
<1>3. /\ Chunks(new, SymbolChunk) \in Seq(Seq(Uris))
  BY <1>1, <1>2, ChunksOf, Zenon
<1>F. q.symbols \in Seq(SymbolChunks) /\ q.symbolQueued \in SUBSET Uris /\ q.generation \in Nat
  BY QueueFields, Zenon
<1>B. Books(q.neighborhood, q.sweep, q.symbols, q.queued, q.symbolQueued, q.done, q.total,
            q.generation)
  BY Zenon DEF QueueInv
<1>4. /\ ds \in Seq(SymbolChunks) /\ Len(ds) = Len(Chunks(new, SymbolChunk))
      /\ \A i \in 1 .. Len(ds) :
           ds[i].uris = Chunks(new, SymbolChunk)[i] /\ ds[i].generation = q.generation
  <2> DEFINE cs == Chunks(new, SymbolChunk)
             rec(i) == [kind |-> "symbols", generation |-> q.generation, uris |-> cs[i]]
  <2>1. cs \in Seq(Seq(Uris)) /\ DOMAIN cs = 1 .. Len(cs) /\ Len(cs) \in Nat
    BY <1>3
  <2> HIDE DEF cs
  <2>2. \A i \in 1 .. Len(cs) : /\ rec(i) \in SymbolChunks /\ rec(i).uris = cs[i]
                                /\ rec(i).generation = q.generation
    BY <2>1, <1>F DEF SymbolChunks
  <2>3. ds = [i \in 1 .. Len(cs) |-> rec(i)]
    BY <2>1, Zenon DEF cs
  <2> HIDE DEF rec, ds
  <2>4. ds \in Seq(SymbolChunks) /\ Len(ds) = Len(cs)
        /\ \A i \in 1 .. Len(cs) : ds[i] = rec(i)
    BY <2>1, <2>2, <2>3
  <2> QED
    BY <2>2, <2>4, Zenon DEF cs
<1>5. NoRepeat(ds) /\ Proper(ds, q.generation) /\ \A u : Holds(ds, u) <=> u \in S
  BY <1>1, <1>2, <1>4, ChunksHold, Zenon
<1>6. S \in SUBSET Uris /\ \A u \in S : u \notin q.symbolQueued
  BY <1>1, Zenon
<1> DEFINE syms1 == q.symbols \o ds
           sq1 == q.symbolQueued \union S
<1> HIDE DEF ds, S, r
<1>7. Books(q.neighborhood, q.sweep, syms1, q.queued, sq1, q.done, q.total, q.generation)
  BY <1>F, <1>B, <1>4, <1>5, <1>6, SymbolsJoined, Zenon
<1>8. syms1 \in Seq(SymbolChunks) /\ sq1 \in SUBSET Uris
  BY <1>F, <1>4, <1>6
<1>9. r = [q EXCEPT !.symbols = syms1, !.symbolQueued = sq1]
  BY <1>0 DEF Queues
<1> HIDE DEF syms1, sq1
<1>10. /\ r.neighborhood = q.neighborhood /\ r.sweep = q.sweep /\ r.symbols = syms1
       /\ r.queued = q.queued /\ r.symbolQueued = sq1 /\ r.done = q.done
       /\ r.total = q.total /\ r.generation = q.generation
  BY <1>9 DEF Queues
<1>11. r \in Queues /\ SameFront(q, r)
  BY <1>8, <1>9 DEF Queues, SameFront
<1>12. QueueInv(r)
  BY <1>7, <1>10, Zenon DEF QueueInv
<1> QED
  BY <1>10, <1>11, <1>12, Zenon DEF r

\* The files a chunk still owns.
LEMMA OwnedOf ==
  ASSUME NEW q, NEW level, NEW c \in IndexChunks(level), Distinct(c.uris)
  PROVE  /\ Owned(q, c) \in Seq(Uris) /\ Distinct(Owned(q, c))
         /\ \A u : u \in ToSet(Owned(q, c)) <=> u \in ToSet(c.uris) /\ q.queued[u] = level
<1> DEFINE s == c.uris
           S == {u \in Uris : q.queued[u] = level}
           r == Only(s, S)
<1>0. s \in Seq(Uris) /\ c.level = level
  BY DEF IndexChunks
<1>1. Owned(q, c) = r
  BY <1>0, Zenon DEF Owned
<1> HIDE DEF s, S, r
<1>2. /\ r \in Seq(Uris) /\ Len(r) <= Len(s)
      /\ \A k \in 1 .. Len(r) : \E j \in 1 .. Len(s) : s[j] \in S /\ r[k] = s[j]
      /\ \A j \in 1 .. Len(s) : s[j] \in S => \E k \in 1 .. Len(r) : r[k] = s[j]
      /\ Distinct(s) => Distinct(r)
  <2>1. s \in Seq(Uris)
    BY <1>0, Zenon
  <2> QED
    BY <2>1, OnlySelects, Zenon DEF r
<1>3. /\ \A u : u \in ToSet(r) <=> \E j \in 1 .. Len(r) : r[j] = u
      /\ \A u : u \in ToSet(s) <=> \E j \in 1 .. Len(s) : s[j] = u
      /\ ToSet(s) \subseteq Uris
  BY <1>0, <1>2, Elements, ZenonT(40)
<1>4. ASSUME NEW u PROVE u \in ToSet(r) <=> u \in ToSet(s) /\ u \in S
  <2>1. ASSUME u \in ToSet(r) PROVE u \in ToSet(s) /\ u \in S
    <3>1. PICK k \in 1 .. Len(r) : r[k] = u
      BY <2>1, <1>3, Zenon
    <3>2. PICK j \in 1 .. Len(s) : s[j] \in S /\ r[k] = s[j]
      BY <1>2, <3>1, Zenon
    <3> QED
      BY <3>1, <3>2, <1>3, Zenon
  <2>2. ASSUME u \in ToSet(s), u \in S PROVE u \in ToSet(r)
    <3>1. PICK j \in 1 .. Len(s) : s[j] = u
      BY <2>2, <1>3, Zenon
    <3>2. PICK k \in 1 .. Len(r) : r[k] = s[j]
      BY <3>1, <2>2, <1>2, Zenon
    <3> QED
      BY <1>3, <3>1, <3>2, Zenon
  <2> QED
    BY <2>1, <2>2, Zenon
<1>5. \A u \in Uris : u \in S <=> q.queued[u] = level
  BY Zenon DEF S
<1>6. Distinct(r)
  BY <1>2, Zenon DEF s
<1>7. \A u : u \in ToSet(r) <=> u \in ToSet(s) /\ q.queued[u] = level
  BY <1>3, <1>4, <1>5, Zenon
<1> QED
  BY <1>1, <1>2, <1>6, <1>7, Zenon DEF s

\* Every chunk of the neighborhood owns its files.
LEMMA NearLive ==
  ASSUME NEW q \in Queues, QueueInv(q)
  PROVE  DropStale(q, q.neighborhood) = q.neighborhood
<1> DEFINE cs == q.neighborhood
           live == {i \in DOMAIN cs : Live(q, cs[i])}
<1>1. cs \in Seq(IndexChunks("neighborhood")) /\ DOMAIN cs = 1 .. Len(cs) /\ Len(cs) \in Nat
  BY QueueFields
<1>2. /\ Proper(cs, q.generation)
      /\ \A u \in Uris : Holds(cs, u) <=> q.queued[u] = "neighborhood"
  BY Zenon DEF QueueInv, Books
<1>3. CASE cs = <<>>
  <2>1. live = {}
    BY <1>1, <1>3
  <2> QED
    BY <2>1, <1>3, Zenon DEF DropStale
<1>4. CASE cs # <<>>
  <2>1. 1 \in 1 .. Len(cs)
    BY <1>1, <1>4
  <2>2. cs[1] \in IndexChunks("neighborhood")
    BY <1>1, <2>1
  <2>3. cs[1].uris \in Seq(Uris) /\ cs[1].level = "neighborhood"
    BY <2>2 DEF IndexChunks
  <2>4. 1 \in 1 .. Len(cs[1].uris)
    <3>1. Len(cs[1].uris) \in 1 .. Len(Files)
      BY <1>2, <2>1, Zenon DEF Proper
    <3> QED
      BY <3>1, FilesListed
  <2> DEFINE u == cs[1].uris[1]
  <2>5. Holds(cs, u)
    BY <2>1, <2>4, Zenon DEF Holds
  <2>6. u \in Uris /\ u \in ToSet(cs[1].uris)
    <3>1. PICK s \in Seq(Uris) : s = cs[1].uris
      BY <2>3, Zenon
    <3>2. ToSet(s) \subseteq Uris /\ \A v : v \in ToSet(s) <=> \E j \in 1 .. Len(s) : s[j] = v
      BY Elements, Zenon
    <3>3. s[1] \in ToSet(s) /\ s[1] \in Uris
      BY <2>4, <3>1, <3>2, Zenon
    <3> QED
      BY <3>1, <3>3, Zenon
  <2>7. 1 \in live
    BY <1>1, <1>2, <2>1, <2>3, <2>5, <2>6, Zenon DEF Live
  <2>8. live \subseteq Nat /\ \A i \in live : 1 <= i
    BY <1>1
  <2> HIDE DEF live, cs
  <2>9. Min(live) = 1
    <3>1. Min(live) \in live /\ \A i \in live : Min(live) <= i
      BY <2>7, <2>8, Zenon DEF Min
    <3>2. Min(live) <= 1 /\ 1 <= Min(live) /\ Min(live) \in Nat
      BY <2>7, <2>8, <3>1, Zenon
    <3> QED
      BY <3>2
  <2>10. DropStale(q, cs) = SubSeq(cs, 1, Len(cs))
    <3>1. live # {}
      BY <2>7, Zenon
    <3> QED
      BY <3>1, <2>9, Zenon DEF DropStale, live
  <2>11. SubSeq(cs, 1, Len(cs)) = cs
    BY <1>1
  <2> QED
    BY <2>10, <2>11, Zenon DEF cs
<1> QED
  BY <1>3, <1>4, Zenon

\* The deque far is one the sweep may be, of files recorded there or promoted.
Covers(q, far) ==
  /\ NoRepeat(far) /\ Proper(far, q.generation)
  /\ \A u \in Uris : q.queued[u] = "sweep" => Holds(far, u)

\* Dropping chunks that own nothing loses no file of the sweep.
LEMMA StaleDropped ==
  ASSUME NEW q, NEW far \in Seq(IndexChunks("sweep")), Covers(q, far),
         NEW m \in 1 .. Len(far) + 1, \A i \in 1 .. m - 1 : ~ Live(q, far[i]),
         NEW r \in Seq(IndexChunks("sweep")),
         Len(r) = Len(far) - m + 1, \A i \in 1 .. Len(far) - m + 1 : r[i] = far[m + i - 1]
  PROVE  Covers(q, r)
<1>1. /\ NoRepeat(far) => NoRepeat(r)
      /\ \A g : Proper(far, g) => Proper(r, g)
      /\ \A u : Holds(far, u) => Holds(r, u) \/ \E i \in 1 .. m - 1 : u \in ToSet(far[i].uris)
  <2>1. \A c \in IndexChunks("sweep") : c.uris \in Seq(Uris)
    BY ChunkTypes, Zenon
  <2> QED
    BY <2>1, SuffixHolds
<1>2. /\ NoRepeat(far) /\ Proper(far, q.generation)
      /\ \A u \in Uris : q.queued[u] = "sweep" => Holds(far, u)
  BY Zenon DEF Covers
<1>3. \A i \in 1 .. m - 1 : \A u \in ToSet(far[i].uris) : q.queued[u] # "sweep"
  <2>1. SUFFICES ASSUME NEW i \in 1 .. m - 1
                 PROVE  \A u \in ToSet(far[i].uris) : q.queued[u] # "sweep"
    OBVIOUS
  <2>2. far[i].level = "sweep"
    <3>1. i \in 1 .. Len(far) /\ far[i] \in IndexChunks("sweep")
      OBVIOUS
    <3> QED
      BY <3>1 DEF IndexChunks
  <2> QED
    BY <2>2, Zenon DEF Live
<1> QED
  BY <1>1, <1>2, <1>3, Zenon DEF Covers

\* Dropping the stale chunks of a sweep leaves chunks of a sweep that still
\* cover what is queued in it, and adds nothing to an empty list.
LEMMA FarDropped ==
  ASSUME NEW q, NEW far \in Seq(IndexChunks("sweep")), Covers(q, far)
  PROVE  /\ DropStale(q, far) \in Seq(IndexChunks("sweep")) /\ Covers(q, DropStale(q, far))
         /\ far = <<>> => DropStale(q, far) = <<>>
<1> DEFINE live == {i \in DOMAIN far : Live(q, far[i])}
<1>1. DOMAIN far = 1 .. Len(far) /\ Len(far) \in Nat
  OBVIOUS
<1>2. CASE live = {}
  <2>1. DropStale(q, far) = <<>>
    BY <1>2, Zenon DEF DropStale
  <2>2. Len(far) + 1 \in 1 .. Len(far) + 1 /\ Len(<<>>) = Len(far) - (Len(far) + 1) + 1
        /\ <<>> \in Seq(IndexChunks("sweep"))
        /\ 1 .. Len(far) - (Len(far) + 1) + 1 = {} /\ 1 .. Len(far) + 1 - 1 = 1 .. Len(far)
    BY <1>1
  <2>3. \A i \in 1 .. Len(far) : ~ Live(q, far[i])
    BY <1>1, <1>2
  <2>4. PICK m \in 1 .. Len(far) + 1 :
          /\ Len(<<>>) = Len(far) - m + 1 /\ 1 .. Len(far) - m + 1 = {}
          /\ 1 .. m - 1 = 1 .. Len(far)
    BY <2>2
  <2>5. /\ \A i \in 1 .. m - 1 : ~ Live(q, far[i])
        /\ \A i \in 1 .. Len(far) - m + 1 : <<>>[i] = far[m + i - 1]
    BY <2>3, <2>4, Zenon
  <2>6. Covers(q, <<>>)
    BY <2>2, <2>4, <2>5, StaleDropped, Zenon
  <2> QED
    BY <2>1, <2>2, <2>6, Zenon
<1>3. CASE live # {}
  <2> DEFINE m == Min(live)
             r == SubSeq(far, m, Len(far))
  <2>1. live \subseteq Nat
    BY <1>1
  <2>2. m \in live /\ \A i \in live : m <= i
    <3>1. \E n \in live : \A i \in live : n <= i
      BY <2>1, <1>3, LeastNat, Zenon
    <3> QED
      BY <3>1, Zenon DEF Min
  <2>3. DropStale(q, far) = r
    BY <1>3, Zenon DEF DropStale
  <2>4. m \in 1 .. Len(far)
    BY <1>1, <2>2
  <2> HIDE DEF m
  <2>5. m \in 1 .. Len(far) + 1 /\ Len(far) \in m - 1 .. Len(far)
    BY <1>1, <2>4
  <2>6. /\ r \in Seq(IndexChunks("sweep")) /\ Len(r) = Len(far) - m + 1
        /\ \A i \in 1 .. Len(far) - m + 1 : r[i] = far[m + i - 1]
    BY <2>5, SliceOf, Zenon
  <2>7. \A i \in 1 .. m - 1 : ~ Live(q, far[i])
    <3>1. \A i \in 1 .. m - 1 : i \in DOMAIN far /\ ~ (m <= i)
      BY <1>1, <2>4
    <3> HIDE DEF live
    <3>2. \A i \in 1 .. m - 1 : i \notin live
      BY <3>1, <2>2, Zenon
    <3> QED
      BY <3>1, <3>2, Zenon DEF live
  <2> HIDE DEF r, live
  <2>8. Covers(q, r)
    BY <2>5, <2>6, <2>7, StaleDropped, Zenon
  <2>9. far # <<>>
    BY <2>4
  <2> QED
    BY <2>3, <2>6, <2>8, <2>9, Zenon
<1> QED
  BY <1>2, <1>3, Zenon

\* What is the same in two queues that differ in their index deques.
SameRest(q, p) ==
  /\ SameFront(q, p)
  /\ p.symbols = q.symbols /\ p.queued = q.queued /\ p.symbolQueued = q.symbolQueued
  /\ p.done = q.done /\ p.total = q.total

(* A chunk c taken from a deque of q, which leaves p, is handed out with   *)
(* the files it owns.                                                      *)
LEMMA ClaimedChunk ==
  ASSUME NEW q \in Queues, QueueInv(q), NEW p \in Queues, SameRest(q, p),
         NEW level \in Levels, NEW c \in IndexChunks(level), Distinct(c.uris),
         c.generation = q.generation,
         NoRepeat(p.neighborhood), Proper(p.neighborhood, q.generation),
         \A u \in Uris : Holds(p.neighborhood, u) <=>
           q.queued[u] = "neighborhood" /\ ~ (level = "neighborhood" /\ u \in ToSet(c.uris)),
         NoRepeat(p.sweep), Proper(p.sweep, q.generation),
         \A u \in Uris : q.queued[u] = "sweep" =>
           Holds(p.sweep, u) \/ (level = "sweep" /\ u \in ToSet(c.uris))
  PROVE  LET t == Claim(p, c)
         IN  /\ t.command \in IndexChunks(level) /\ t.command.generation = q.generation
             /\ t.queue \in Queues /\ QueueInv(t.queue) /\ SameFront(q, t.queue)
             /\ t.queue.sweep = p.sweep
<1> DEFINE own == Owned(p, c)
           O == ToSet(own)
           near1 == p.neighborhood
           far1 == p.sweep
           queued1 == Recorded(q.queued, O, Nowhere)
           done1 == q.done + Len(own)
           t == Claim(p, c)
<1>F. /\ q.queued \in QueuedMaps /\ q.done \in Nat /\ q.total \in Nat /\ q.generation \in Nat
  BY QueueFields, Zenon
<1>B. Books(q.neighborhood, q.sweep, q.symbols, q.queued, q.symbolQueued, q.done, q.total,
            q.generation)
  BY Zenon DEF QueueInv
<1>S. /\ p.symbols = q.symbols /\ p.queued = q.queued /\ p.symbolQueued = q.symbolQueued
      /\ p.done = q.done /\ p.total = q.total /\ SameFront(q, p)
  BY Zenon DEF SameRest
<1>1. /\ own \in Seq(Uris) /\ Distinct(own)
      /\ \A u : u \in O <=> u \in ToSet(c.uris) /\ p.queued[u] = level
  BY OwnedOf, Zenon
<1>2. \A u : u \in O <=> u \in ToSet(c.uris) /\ q.queued[u] = level
  BY <1>1, <1>S, Zenon
<1>0. t = Taken([c EXCEPT !.uris = own], [p EXCEPT !.queued = queued1, !.done = done1])
  BY <1>S DEF Claim, Recorded
<1> HIDE DEF own, O, t, near1, far1
<1>3. \A u \in O : q.queued[u] # Nowhere
  BY <1>2 DEF Levels, Nowhere
<1>4. /\ NoRepeat(near1) /\ Proper(near1, q.generation)
      /\ \A u \in Uris : Holds(near1, u) <=> q.queued[u] = "neighborhood" /\ u \notin O
  <2>1. ASSUME NEW u \in Uris
        PROVE  Holds(near1, u) <=> q.queued[u] = "neighborhood" /\ u \notin O
    <3>1. Holds(near1, u) <=>
            q.queued[u] = "neighborhood" /\ ~ (level = "neighborhood" /\ u \in ToSet(c.uris))
      BY Zenon DEF near1
    <3> QED
      BY <3>1, <1>2, Zenon
  <2> QED
    BY <2>1, Zenon DEF near1
<1>5. /\ NoRepeat(far1) /\ Proper(far1, q.generation)
      /\ \A u \in Uris : q.queued[u] = "sweep" /\ u \notin O => Holds(far1, u)
  <2>1. ASSUME NEW u \in Uris, q.queued[u] = "sweep", u \notin O
        PROVE  Holds(far1, u)
    BY <2>1, <1>2, Zenon DEF far1
  <2> QED
    BY <2>1, Zenon DEF far1
<1>6. /\ Books(near1, far1, q.symbols, queued1, q.symbolQueued, done1, q.total, q.generation)
      /\ queued1 \in QueuedMaps /\ done1 \in Nat
  BY <1>1, <1>3, <1>4, <1>5, BooksClaimed, Zenon DEF O
<1> HIDE DEF queued1, done1
<1>7. /\ t.command = [c EXCEPT !.uris = own]
      /\ t.queue = [p EXCEPT !.queued = queued1, !.done = done1]
  BY <1>0 DEF Taken
<1>8. t.command \in IndexChunks(level) /\ t.command.generation = q.generation
  BY <1>7, <1>1 DEF IndexChunks
<1>9. /\ t.queue \in Queues
      /\ t.queue.neighborhood = near1 /\ t.queue.sweep = far1
      /\ t.queue.symbols = p.symbols /\ t.queue.queued = queued1
      /\ t.queue.symbolQueued = p.symbolQueued /\ t.queue.done = done1
      /\ t.queue.total = p.total /\ SameFront(p, t.queue)
  <2>1. queued1 \in QueuedMaps /\ done1 \in Nat
    BY <1>6, Zenon
  <2>2. t.queue \in Queues
    BY <1>7, <2>1 DEF Queues, QueuedMaps
  <2>3. /\ t.queue.neighborhood = near1 /\ t.queue.sweep = far1
        /\ t.queue.symbols = p.symbols /\ t.queue.queued = queued1
        /\ t.queue.symbolQueued = p.symbolQueued /\ t.queue.done = done1
        /\ t.queue.total = p.total /\ SameFront(p, t.queue)
    BY <1>7 DEF Queues, SameFront, near1, far1
  <2> QED
    BY <2>2, <2>3, Zenon
<1>10. SameFront(q, t.queue)
  BY <1>9, <1>S, Zenon DEF SameFront
<1>11. QueueInv(t.queue)
  <2>1. t.queue.generation = q.generation
    BY <1>10, Zenon DEF SameFront
  <2> QED
    BY <1>6, <1>9, <1>S, <2>1, Zenon DEF QueueInv
<1> QED
  BY <1>8, <1>9, <1>10, <1>11, Zenon DEF t, far1

\* Taking the first chunk of the neighborhood.
LEMMA NearTaken ==
  ASSUME NEW q \in Queues, QueueInv(q), q.neighborhood # <<>>
  PROVE  LET t == Claim([q EXCEPT !.neighborhood = Tail(q.neighborhood)], Head(q.neighborhood))
         IN  /\ t.command \in IndexChunks("neighborhood")
             /\ t.command.generation = q.generation
             /\ t.queue \in Queues /\ QueueInv(t.queue) /\ SameFront(q, t.queue)
             /\ t.queue.sweep = q.sweep
<1> DEFINE cs == q.neighborhood
           p == [q EXCEPT !.neighborhood = Tail(cs)]
           c == Head(cs)
<1>0. cs \in Seq(IndexChunks("neighborhood"))
  BY QueueFields, Zenon
<1>1. /\ Proper(cs, q.generation) /\ NoRepeat(cs)
      /\ Proper(q.sweep, q.generation) /\ NoRepeat(q.sweep)
      /\ \A u \in Uris : Holds(cs, u) <=> q.queued[u] = "neighborhood"
      /\ \A u \in Uris : q.queued[u] = "sweep" => Holds(q.sweep, u)
  BY Zenon DEF QueueInv, Books
<1> HIDE DEF cs
<1>2. /\ c \in IndexChunks("neighborhood") /\ Tail(cs) \in Seq(IndexChunks("neighborhood"))
      /\ NoRepeat(Tail(cs)) /\ Distinct(c.uris)
      /\ Proper(Tail(cs), q.generation) /\ c.generation = q.generation
      /\ \A u : Holds(cs, u) <=> Holds(Tail(cs), u) \/ u \in ToSet(c.uris)
      /\ \A u \in ToSet(c.uris) : ~ Holds(Tail(cs), u)
  <2>1. cs # <<>>
    BY Zenon DEF cs
  <2> QED
    BY <1>0, <1>1, <2>1, ChunkTypes, TailHolds, Zenon
<1>3. /\ p \in Queues /\ p.neighborhood = Tail(cs) /\ p.sweep = q.sweep /\ SameRest(q, p)
  <2>1. Tail(cs) \in Seq(IndexChunks("neighborhood"))
    BY <1>2, Zenon
  <2>2. p \in Queues
    BY <2>1 DEF Queues
  <2>3. p.neighborhood = Tail(cs) /\ p.sweep = q.sweep /\ SameRest(q, p)
    BY DEF Queues, SameRest, SameFront
  <2> QED
    BY <2>2, <2>3, Zenon
<1> HIDE DEF p, c
<1>4. \A u \in Uris : Holds(p.neighborhood, u) <=>
        q.queued[u] = "neighborhood" /\ ~ ("neighborhood" = "neighborhood" /\ u \in ToSet(c.uris))
  BY <1>1, <1>2, <1>3, Zenon
<1>5. \A u \in Uris : q.queued[u] = "sweep" =>
        Holds(p.sweep, u) \/ ("neighborhood" = "sweep" /\ u \in ToSet(c.uris))
  BY <1>1, <1>3, Zenon
<1>6. NoRepeat(p.neighborhood) /\ Proper(p.neighborhood, q.generation)
      /\ NoRepeat(p.sweep) /\ Proper(p.sweep, q.generation) /\ "neighborhood" \in Levels
  BY <1>1, <1>2, <1>3, Zenon DEF Levels
<1>7. /\ Claim(p, c).command \in IndexChunks("neighborhood")
      /\ Claim(p, c).command.generation = q.generation
      /\ Claim(p, c).queue \in Queues /\ QueueInv(Claim(p, c).queue)
      /\ SameFront(q, Claim(p, c).queue) /\ Claim(p, c).queue.sweep = p.sweep
  BY <1>2, <1>3, <1>4, <1>5, <1>6, ClaimedChunk, ZenonT(60)
<1> QED
  BY <1>3, <1>7, Zenon DEF p, c, cs

\* Taking the first chunk of what is left of the sweep.
LEMMA FarTaken ==
  ASSUME NEW q \in Queues, QueueInv(q), NEW far \in Seq(IndexChunks("sweep")), far # <<>>,
         Covers(q, far), NEW p \in Queues, SameRest(q, p), p.sweep = Tail(far),
         p.neighborhood = q.neighborhood
  PROVE  LET t == Claim(p, Head(far))
         IN  /\ t.command \in IndexChunks("sweep") /\ t.command.generation = q.generation
             /\ t.queue \in Queues /\ QueueInv(t.queue) /\ SameFront(q, t.queue)
<1> DEFINE c == Head(far)
<1>1. /\ Proper(q.neighborhood, q.generation) /\ NoRepeat(q.neighborhood)
      /\ \A u \in Uris : Holds(q.neighborhood, u) <=> q.queued[u] = "neighborhood"
  BY Zenon DEF QueueInv, Books
<1>2. /\ NoRepeat(far) /\ Proper(far, q.generation)
      /\ \A u \in Uris : q.queued[u] = "sweep" => Holds(far, u)
  BY Zenon DEF Covers
<1>3. /\ c \in IndexChunks("sweep")
      /\ NoRepeat(Tail(far)) /\ Distinct(c.uris)
      /\ Proper(Tail(far), q.generation) /\ c.generation = q.generation
      /\ \A u : Holds(far, u) <=> Holds(Tail(far), u) \/ u \in ToSet(c.uris)
  BY <1>2, ChunkTypes, TailHolds, Zenon
<1> HIDE DEF c
<1>4. \A u \in Uris : Holds(p.neighborhood, u) <=>
        q.queued[u] = "neighborhood" /\ ~ ("sweep" = "neighborhood" /\ u \in ToSet(c.uris))
  BY <1>1, Zenon
<1>5. \A u \in Uris : q.queued[u] = "sweep" =>
        Holds(p.sweep, u) \/ ("sweep" = "sweep" /\ u \in ToSet(c.uris))
  BY <1>2, <1>3, Zenon
<1>6. NoRepeat(p.neighborhood) /\ Proper(p.neighborhood, q.generation)
      /\ NoRepeat(p.sweep) /\ Proper(p.sweep, q.generation) /\ "sweep" \in Levels
  BY <1>1, <1>3, Zenon DEF Levels
<1>7. /\ Claim(p, c).command \in IndexChunks("sweep")
      /\ Claim(p, c).command.generation = q.generation
      /\ Claim(p, c).queue \in Queues /\ QueueInv(Claim(p, c).queue)
      /\ SameFront(q, Claim(p, c).queue)
  BY <1>3, <1>4, <1>5, <1>6, ClaimedChunk, Zenon
<1> QED
  BY <1>7, Zenon DEF c

\* Taking the first symbol chunk, once stale chunks of the sweep are dropped.
LEMMA SymbolTaken ==
  ASSUME NEW q \in Queues, QueueInv(q), NEW p \in Queues, SameRest(q, p),
         p.neighborhood = q.neighborhood, Covers(q, p.sweep), q.symbols # <<>>
  PROVE  LET t == TakeSymbolChunk(p)
         IN  /\ t.command \in SymbolChunks /\ t.command.generation = q.generation
             /\ t.queue \in Queues /\ QueueInv(t.queue) /\ SameFront(q, t.queue)
             /\ t.queue.sweep = p.sweep
<1> DEFINE cs == q.symbols
           c == Head(cs)
           sq1 == q.symbolQueued \ ToSet(c.uris)
           t == TakeSymbolChunk(p)
<1>F. cs \in Seq(SymbolChunks) /\ q.symbolQueued \in SUBSET Uris
  BY QueueFields, Zenon
<1>B. /\ Proper(q.neighborhood, q.generation) /\ NoRepeat(q.neighborhood)
      /\ Proper(cs, q.generation) /\ NoRepeat(cs)
      /\ \A u \in Uris : Holds(q.neighborhood, u) <=> q.queued[u] = "neighborhood"
      /\ \A u \in Uris : Holds(cs, u) <=> u \in q.symbolQueued
      /\ q.total = q.done + Cardinality(Waiting(q.queued))
  BY Zenon DEF QueueInv, Books
<1>C. /\ NoRepeat(p.sweep) /\ Proper(p.sweep, q.generation)
      /\ \A u \in Uris : q.queued[u] = "sweep" => Holds(p.sweep, u)
  BY Zenon DEF Covers
<1>S. /\ p.symbols = cs /\ p.queued = q.queued /\ p.symbolQueued = q.symbolQueued
      /\ p.done = q.done /\ p.total = q.total /\ SameFront(q, p) /\ cs # <<>>
  BY Zenon DEF SameRest
<1>0. /\ t.command = c
      /\ t.queue = [p EXCEPT !.symbols = Tail(cs), !.symbolQueued = sq1]
  BY <1>S DEF TakeSymbolChunk, Taken
<1> HIDE DEF cs
<1>1. /\ c \in SymbolChunks /\ Tail(cs) \in Seq(SymbolChunks)
      /\ NoRepeat(Tail(cs))
      /\ Proper(Tail(cs), q.generation) /\ c.generation = q.generation
      /\ \A u : Holds(cs, u) <=> Holds(Tail(cs), u) \/ u \in ToSet(c.uris)
      /\ \A u \in ToSet(c.uris) : ~ Holds(Tail(cs), u)
  BY <1>F, <1>B, <1>S, ChunkTypes, TailHolds, Zenon
<1>2. \A u \in Uris : Holds(Tail(cs), u) <=> u \in sq1
  BY <1>B, <1>1, Zenon
<1> HIDE DEF c, sq1, t
<1>3. t.queue \in Queues
  <2>1. Tail(cs) \in Seq(SymbolChunks) /\ sq1 \in SUBSET Uris
    BY <1>1, <1>F DEF sq1
  <2> QED
    BY <1>0, <2>1 DEF Queues
<1>4. /\ t.queue.neighborhood = p.neighborhood /\ t.queue.sweep = p.sweep
      /\ t.queue.symbols = Tail(cs) /\ t.queue.queued = p.queued
      /\ t.queue.symbolQueued = sq1 /\ t.queue.done = p.done
      /\ t.queue.total = p.total /\ SameFront(p, t.queue)
  BY <1>0 DEF Queues, SameFront
<1>5. SameFront(q, t.queue)
  BY <1>4, <1>S, Zenon DEF SameFront
<1>6. Books(q.neighborhood, p.sweep, Tail(cs), q.queued, sq1, q.done, q.total, q.generation)
  BY <1>B, <1>C, <1>1, <1>2, Zenon DEF Books
<1>7. QueueInv(t.queue)
  <2>1. t.queue.generation = q.generation
    BY <1>5, Zenon DEF SameFront
  <2> QED
    BY <1>4, <1>6, <1>S, <2>1, Zenon DEF QueueInv
<1> QED
  BY <1>0, <1>1, <1>3, <1>4, <1>5, <1>7, Zenon DEF t

\* Background work that is handed out is of this generation.
LEMMA BackgroundTaken ==
  ASSUME NEW q \in Queues, QueueInv(q), TakeBackground(q).command # None
  PROVE  LET t == TakeBackground(q)
         IN  /\ \/ t.command \in IndexChunks("neighborhood") \/ t.command \in IndexChunks("sweep")
                \/ t.command \in SymbolChunks
             /\ t.command.generation = q.generation
             /\ t.queue \in Queues /\ QueueInv(t.queue) /\ SameFront(q, t.queue)
             /\ q.sweep = <<>> => t.queue.sweep = <<>>
             /\ q.neighborhood # <<>> \/ q.symbols # <<>> \/ q.sweep # <<>>
<1> DEFINE near  == DropStale(q, q.neighborhood)
           q0    == [q EXCEPT !.neighborhood = <<>>]
           due   == q.sweep # <<>> /\ q.sinceSweep >= BeforeSweep
           spent == due /\ ~ Live(q, Head(q.sweep))
           q1    == IF spent THEN [q0 EXCEPT !.sweep = Tail(@), !.sinceSweep = 0] ELSE q0
           far   == DropStale(q, q1.sweep)
           q2    == [q1 EXCEPT !.sweep = <<>>, !.sinceSweep = 0]
           q3    == [q1 EXCEPT !.sinceSweep = IF q1.sweep = <<>> THEN 0 ELSE @ + 1]
           t     == TakeBackground(q)
<1>0. t = IF near # <<>>
          THEN Claim([q EXCEPT !.neighborhood = Tail(near)], Head(near))
          ELSE IF (spent \/ ~ due) /\ q1.symbols # <<>> THEN TakeSymbolChunk(q3)
          ELSE IF far = <<>> THEN Taken(None, q2)
          ELSE Claim([q2 EXCEPT !.sweep = Tail(far)], Head(far))
  BY DEF TakeBackground
<1> HIDE DEF t
<1>1. near = q.neighborhood
  BY NearLive, Zenon
<1>2. CASE near # <<>>
  <2>1. t = Claim([q EXCEPT !.neighborhood = Tail(q.neighborhood)], Head(q.neighborhood))
    BY <1>0, <1>1, <1>2, Zenon
  <2>2. /\ t.command \in IndexChunks("neighborhood") /\ t.command.generation = q.generation
        /\ t.queue \in Queues /\ QueueInv(t.queue) /\ SameFront(q, t.queue)
        /\ t.queue.sweep = q.sweep
    BY <1>1, <1>2, <2>1, NearTaken, Zenon
  <2> QED
    BY <2>2, <1>1, <1>2, Zenon DEF t
<1>3. CASE near = <<>>
  <2>F. /\ q.sweep \in Seq(IndexChunks("sweep")) /\ q.sinceSweep \in Nat
    BY QueueFields, Zenon
  <2>C. Covers(q, q.sweep)
    BY Zenon DEF Covers, QueueInv, Books
  <2>0. q0 = q /\ q.neighborhood = <<>>
    BY <1>1, <1>3 DEF Queues
  <2> DEFINE far1 == IF spent THEN Tail(q.sweep) ELSE q.sweep
             since1 == IF spent THEN 0 ELSE q.sinceSweep
  <2>1. far1 \in Seq(IndexChunks("sweep")) /\ Covers(q, far1) /\ (q.sweep = <<>> => far1 = <<>>)
    <3>1. CASE spent
      <4>1. q.sweep # <<>> /\ ~ Live(q, Head(q.sweep)) /\ far1 = Tail(q.sweep)
        BY <3>1, Zenon
      <4>2. PICK s \in Seq(IndexChunks("sweep")) : s = q.sweep
        BY <2>F, Zenon
      <4>3. /\ Tail(s) \in Seq(IndexChunks("sweep")) /\ Len(Tail(s)) = Len(s) - 1
            /\ Head(s) = s[1] /\ Len(s) \in Nat \ {0}
            /\ \A i \in 1 .. Len(s) - 1 : Tail(s)[i] = s[i + 1]
        BY <4>1, <4>2, TailOf, Zenon
      <4>4. PICK m \in 1 .. Len(s) + 1 : m = 2
        BY <4>3
      <4>5. /\ Len(Tail(s)) = Len(s) - m + 1
            /\ \A i \in 1 .. Len(s) - m + 1 : Tail(s)[i] = s[m + i - 1]
        BY <4>3, <4>4
      <4>6. \A i \in 1 .. m - 1 : ~ Live(q, s[i])
        <5>1. \A i \in 1 .. m - 1 : i = 1
          BY <4>4
        <5> QED
          BY <5>1, <4>1, <4>2, <4>3, Zenon
      <4>7. Covers(q, Tail(s))
        BY <4>2, <4>3, <4>5, <4>6, <2>C, StaleDropped, Zenon
      <4> QED
        BY <4>1, <4>2, <4>3, <4>7, Zenon
    <3>2. CASE ~ spent
      BY <3>2, <2>F, <2>C, Zenon
    <3> QED
      BY <3>1, <3>2, Zenon
  <2>2. q1 = [q EXCEPT !.sweep = far1, !.sinceSweep = since1]
    BY <2>0 DEF Queues
  <2>3. since1 \in Nat
    BY <2>F
  <2> HIDE DEF spent, due, far1, since1
  <2>4. /\ q1 \in Queues /\ q1.sweep = far1 /\ q1.sinceSweep = since1 /\ q1.symbols = q.symbols
        /\ q1.neighborhood = q.neighborhood
    <3>1. far1 \in Seq(IndexChunks("sweep"))
      BY <2>1, Zenon
    <3> QED
      BY <2>2, <2>3, <3>1 DEF Queues
  <2>5. SameRest(q, q1)
    BY <2>2 DEF Queues, SameRest, SameFront
  <2>6. /\ far \in Seq(IndexChunks("sweep")) /\ Covers(q, far)
        /\ q.sweep = <<>> => far = <<>>
    BY <2>1, <2>4, FarDropped, Zenon
  <2> HIDE DEF q0, q1, far, near
  <2>7. CASE (spent \/ ~ due) /\ q1.symbols # <<>>
    <3>1. t = TakeSymbolChunk(q3)
      BY <1>0, <1>3, <2>7, Zenon
    <3>2. q3 \in Queues
      <4>1. PICK n \in Nat : q3 = [q1 EXCEPT !.sinceSweep = n]
        <5>1. (IF q1.sweep = <<>> THEN 0 ELSE q1.sinceSweep + 1) \in Nat
          BY <2>3, <2>4
        <5> QED
          BY <5>1
      <4> HIDE DEF q3
      <4> QED
        BY <4>1, <2>4 DEF Queues
    <3>3. q3.sweep = far1 /\ q3.neighborhood = q.neighborhood
      BY <2>4 DEF Queues
    <3>4. SameRest(q1, q3)
      BY <2>4 DEF Queues, SameRest, SameFront
    <3>5. SameRest(q, q3)
      BY <3>4, <2>5, Zenon DEF SameRest, SameFront
    <3> HIDE DEF q3
    <3>6. /\ t.command \in SymbolChunks /\ t.command.generation = q.generation
          /\ t.queue \in Queues /\ QueueInv(t.queue) /\ SameFront(q, t.queue)
          /\ t.queue.sweep = far1
      BY <3>1, <3>2, <3>3, <3>5, <2>1, <2>4, <2>7, SymbolTaken, Zenon
    <3> QED
      BY <3>6, <2>1, <2>4, <2>7, Zenon DEF t
  <2>8. CASE ~ ((spent \/ ~ due) /\ q1.symbols # <<>>) /\ far = <<>>
    <3>1. t = Taken(None, q2)
      BY <1>0, <1>3, <2>8, Zenon
    <3>2. t.command = None
      BY <3>1 DEF Taken
    <3> QED
      BY <3>2, Zenon DEF t
  <2>9. CASE ~ ((spent \/ ~ due) /\ q1.symbols # <<>>) /\ far # <<>>
    <3> DEFINE p == [q2 EXCEPT !.sweep = Tail(far)]
    <3>1. t = Claim(p, Head(far))
      BY <1>0, <1>3, <2>9, Zenon
    <3>2. p = [q1 EXCEPT !.sweep = Tail(far), !.sinceSweep = 0]
      BY <2>4 DEF Queues
    <3>3. Tail(far) \in Seq(IndexChunks("sweep"))
      BY <2>6, <2>9, TailOf, Zenon
    <3> HIDE DEF p
    <3>4. p \in Queues
      BY <3>2, <3>3, <2>4 DEF Queues
    <3>5. p.sweep = Tail(far) /\ p.neighborhood = q.neighborhood
      BY <3>2, <2>4 DEF Queues
    <3>6. SameRest(q1, p)
      BY <3>2, <2>4 DEF Queues, SameRest, SameFront
    <3>7. SameRest(q, p)
      BY <3>6, <2>5, Zenon DEF SameRest, SameFront
    <3>8. /\ t.command \in IndexChunks("sweep") /\ t.command.generation = q.generation
          /\ t.queue \in Queues /\ QueueInv(t.queue) /\ SameFront(q, t.queue)
      BY <3>1, <3>4, <3>5, <3>7, <2>6, <2>9, FarTaken, Zenon
    <3> QED
      BY <3>8, <2>6, <2>9, Zenon DEF t
  <2> QED
    BY <2>7, <2>8, <2>9, Zenon
<1> QED
  BY <1>2, <1>3, Zenon

\* What foreground work leaves alone.
SameBackground(q, r) ==
  /\ r.neighborhood = q.neighborhood /\ r.sweep = q.sweep /\ r.symbols = q.symbols
  /\ r.queued = q.queued /\ r.symbolQueued = q.symbolQueued
  /\ r.done = q.done /\ r.total = q.total
  /\ r.generation = q.generation /\ r.disconnected = q.disconnected

\* The account of the background lists is about those lists alone.
LEMMA BackgroundKept ==
  ASSUME NEW q, NEW r, SameBackground(q, r), QueueInv(q)
  PROVE  QueueInv(r)
BY Zenon DEF SameBackground, QueueInv

\* A queue with other commands of the session.
WithPending(q, p) == [q EXCEPT !.pending = p]

\* Other commands of the session leave the background lists as they are.
LEMMA PendingReplaced ==
  ASSUME NEW q \in Queues, NEW p \in Seq(Commands)
  PROVE  LET r == WithPending(q, p)
         IN  r \in Queues /\ SameBackground(q, r) /\ r.pending = p /\ r.locations = q.locations
<1>1. WithPending(q, p) \in Queues
  BY DEF Queues, WithPending
<1>2. SameBackground(q, WithPending(q, p))
  BY DEF Queues, SameBackground, WithPending
<1>3. WithPending(q, p).pending = p /\ WithPending(q, p).locations = q.locations
  BY DEF Queues, WithPending
<1> QED
  BY <1>1, <1>2, <1>3, Zenon

\* Taking a command of the session.
LEMMA InteractiveTaken ==
  ASSUME NEW q \in Queues, q.pending # <<>>
  PROVE  LET t == TakeInteractive(q)
         IN  /\ t.command = Head(q.pending) /\ t.queue.pending = Tail(q.pending)
             /\ t.queue.locations = q.locations
             /\ t.queue \in Queues /\ SameBackground(q, t.queue)
<1> DEFINE n == IF q.locations = <<>> THEN 0 ELSE q.sinceLocation + 1
           r == [q EXCEPT !.pending = Tail(q.pending), !.locations = q.locations,
                          !.sinceLocation = n]
<1>1. /\ q.pending \in Seq(Commands) /\ q.locations \in Seq(Locates) /\ q.sinceLocation \in Nat
  BY QueueFields, Zenon
<1>2. Tail(q.pending) \in Seq(Commands) /\ n \in Nat
  BY <1>1
<1>3. TakeInteractive(q).command = Head(q.pending) /\ TakeInteractive(q).queue = r
  <2>1. TakeInteractive(q) = Taken(Head(q.pending), r)
    BY DEF TakeInteractive, Queues
  <2> QED
    BY <2>1 DEF Taken
<1>5. r = [q EXCEPT !.pending = Tail(q.pending), !.locations = q.locations, !.sinceLocation = n]
  OBVIOUS
<1> HIDE DEF n, r
<1>4. /\ r \in Queues /\ SameBackground(q, r)
      /\ r.pending = Tail(q.pending) /\ r.locations = q.locations
  <2>1. r \in Queues
    BY <1>1, <1>2, <1>5 DEF Queues
  <2>2. SameBackground(q, r) /\ r.pending = Tail(q.pending) /\ r.locations = q.locations
    BY <1>5 DEF Queues, SameBackground
  <2> QED
    BY <2>1, <2>2, Zenon
<1> QED
  BY <1>3, <1>4, Zenon

(* The command the engine receives: the first of the session, or the first *)
(* location, or a chunk of this generation.                                *)
LEMMA CommandTaken ==
  ASSUME NEW q \in Queues, QueueInv(q), NextCommand(q).command # None
  PROVE  LET c == NextCommand(q).command
             r == NextCommand(q).queue
         IN  /\ r \in Queues /\ QueueInv(r)
             /\ \/ /\ q.pending # <<>> /\ c = Head(q.pending) /\ r.pending = Tail(q.pending)
                   /\ r.locations = q.locations /\ SameBackground(q, r)
                \/ /\ q.locations # <<>> /\ c = Head(q.locations)
                   /\ r.locations = Tail(q.locations) /\ r.pending = q.pending
                   /\ SameBackground(q, r)
                \/ /\ \/ c \in IndexChunks("neighborhood") \/ c \in IndexChunks("sweep")
                      \/ c \in SymbolChunks
                   /\ c.generation = q.generation /\ SameFront(q, r)
                   /\ q.sweep = <<>> => r.sweep = <<>>
                   /\ q.neighborhood # <<>> \/ q.symbols # <<>> \/ q.sweep # <<>>
<1> DEFINE t == NextCommand(q)
           f == TakeForeground(q)
<1>F. q.locations \in Seq(Locates) /\ q.pending \in Seq(Commands)
  BY QueueFields, Zenon
<1>I. ASSUME t = TakeInteractive(q), q.pending # <<>>
      PROVE  /\ t.queue \in Queues /\ QueueInv(t.queue)
             /\ q.pending # <<>> /\ t.command = Head(q.pending)
             /\ t.queue.pending = Tail(q.pending)
             /\ t.queue.locations = q.locations /\ SameBackground(q, t.queue)
  BY <1>I, InteractiveTaken, BackgroundKept, Zenon
<1>N. Taken(None, q).command = None
  BY DEF Taken
<1>1. CASE q.disconnected \/ refresh = "due"
  <2>1. t = TakeInteractive(q)
    BY <1>1, Zenon DEF NextCommand
  <2>2. q.pending # <<>>
    BY <2>1, <1>N, Zenon DEF TakeInteractive
  <2> QED
    BY <2>1, <2>2, <1>I, Zenon
<1>2. CASE ~ (q.disconnected \/ refresh = "due")
  <2>1. t = IF f.command # None THEN f ELSE TakeBackground(f.queue)
    BY <1>2, Zenon DEF NextCommand
  <2>2. CASE q.locations # <<>> /\ (q.sinceLocation >= BeforeLocation \/ q.pending = <<>>)
    <3> DEFINE r == [q EXCEPT !.pending = q.pending, !.locations = Tail(q.locations),
                              !.sinceLocation = 0]
    <3>1. f = Taken(Head(q.locations), r)
      BY <2>2 DEF TakeForeground, Queues
    <3>2. f.command = Head(q.locations) /\ f.queue = r
      BY <3>1 DEF Taken
    <3>3. Head(q.locations) \in Locates /\ Tail(q.locations) \in Seq(Locates)
      BY <1>F, <2>2, TailOf, Zenon
    <3>4. Head(q.locations) # None
      BY <3>3 DEF Locates, None
    <3>5. /\ r \in Queues /\ SameBackground(q, r)
          /\ r.pending = q.pending /\ r.locations = Tail(q.locations)
      <4>1. /\ 0 \in Nat
            /\ r = [q EXCEPT !.pending = q.pending, !.locations = Tail(q.locations),
                              !.sinceLocation = 0]
        OBVIOUS
      <4> HIDE DEF r
      <4>2. r \in Queues
        BY <4>1, <1>F, <3>3 DEF Queues
      <4>3. SameBackground(q, r) /\ r.pending = q.pending /\ r.locations = Tail(q.locations)
        BY <4>1 DEF Queues, SameBackground
      <4> QED
        BY <4>2, <4>3, Zenon
    <3> HIDE DEF r
    <3>6. QueueInv(r) /\ t = f
      BY <3>2, <3>4, <3>5, <2>1, BackgroundKept, Zenon
    <3> QED
      BY <3>2, <3>5, <3>6, <2>2, Zenon
  <2>3. CASE /\ ~ (q.locations # <<>> /\ (q.sinceLocation >= BeforeLocation \/ q.pending = <<>>))
             /\ q.pending # <<>>
    <3>1. f = TakeInteractive(q)
      BY <2>3, Zenon DEF TakeForeground
    <3>2. f.command = Head(q.pending)
      BY <3>1, <2>3, InteractiveTaken, Zenon
    <3>3. f.command # None
      <4>1. Head(q.pending) \in Commands
        BY <1>F, <2>3, TailOf, Zenon
      <4>2. None.kind = "none" /\ \A c \in Commands : c.kind # "none"
        BY DEF Commands, None
      <4> QED
        BY <3>2, <4>1, <4>2, Zenon
    <3>4. t = TakeInteractive(q)
      BY <3>1, <3>3, <2>1, Zenon
    <3> QED
      BY <3>4, <2>3, <1>I, Zenon
  <2>4. CASE /\ ~ (q.locations # <<>> /\ (q.sinceLocation >= BeforeLocation \/ q.pending = <<>>))
             /\ q.pending = <<>>
    <3> DEFINE q1 == [q EXCEPT !.sinceLocation = 0]
    <3>1. f = Taken(None, q1)
      BY <2>4, Zenon DEF TakeForeground
    <3>2. f.command = None /\ f.queue = q1
      BY <3>1 DEF Taken
    <3>3. q1 \in Queues /\ SameBackground(q, q1) /\ SameFront(q, q1)
      BY DEF Queues, SameBackground, SameFront
    <3> HIDE DEF q1
    <3>4. t = TakeBackground(q1) /\ QueueInv(q1)
      BY <3>2, <3>3, <2>1, BackgroundKept, Zenon
    <3>5. /\ \/ t.command \in IndexChunks("neighborhood") \/ t.command \in IndexChunks("sweep")
             \/ t.command \in SymbolChunks
          /\ t.command.generation = q1.generation
          /\ t.queue \in Queues /\ QueueInv(t.queue) /\ SameFront(q1, t.queue)
          /\ q1.sweep = <<>> => t.queue.sweep = <<>>
          /\ q1.neighborhood # <<>> \/ q1.symbols # <<>> \/ q1.sweep # <<>>
      BY <3>3, <3>4, BackgroundTaken, Zenon
    <3> HIDE DEF t
    <3>6. /\ t.command.generation = q.generation /\ SameFront(q, t.queue)
          /\ q.sweep = <<>> => t.queue.sweep = <<>>
          /\ q.neighborhood # <<>> \/ q.symbols # <<>> \/ q.sweep # <<>>
      BY <3>3, <3>5, Zenon DEF SameFront, SameBackground
    <3> QED
      BY <3>5, <3>6, Zenon DEF t
  <2> QED
    BY <2>2, <2>3, <2>4, Zenon
<1> QED
  BY <1>1, <1>2, Zenon

\* The progress starts again once no file waits.
LEMMA ProgressReset ==
  ASSUME NEW q \in Queues, QueueInv(q)
  PROVE  LET r == AfterProgress(q)
         IN  r \in Queues /\ QueueInv(r) /\ SameFront(q, r) /\ r.sweep = q.sweep
<1>1. CASE Outstanding(q)
  <2>1. AfterProgress(q) = q
    BY <1>1, Zenon DEF AfterProgress
  <2> QED
    BY <2>1, Zenon DEF SameFront
<1>2. CASE ~ Outstanding(q)
  <2> DEFINE r == [q EXCEPT !.done = 0, !.total = 0]
  <2>1. AfterProgress(q) = r
    BY <1>2, Zenon DEF AfterProgress
  <2>2. r \in Queues
    BY DEF Queues
  <2>3. SameFront(q, r) /\ r.sweep = q.sweep
    BY DEF Queues, SameFront
  <2>4. /\ r.neighborhood = q.neighborhood /\ r.symbols = q.symbols /\ r.queued = q.queued
        /\ r.symbolQueued = q.symbolQueued /\ r.done = 0 /\ r.total = 0
        /\ r.generation = q.generation
    BY DEF Queues
  <2> HIDE DEF r
  <2>5. Waiting(q.queued) = {}
    BY <1>2, Zenon DEF Outstanding, Waiting
  <2>6. Cardinality(Waiting(q.queued)) = 0
    BY <2>5, FS_EmptySet, Zenon
  <2>7. 0 = 0 + Cardinality(Waiting(q.queued))
    BY <2>6
  <2>8. QueueInv(r)
    BY <2>3, <2>4, <2>7, Zenon DEF QueueInv, Books
  <2> QED
    BY <2>1, <2>2, <2>3, <2>8, Zenon
<1> QED
  BY <1>1, <1>2, Zenon

\* A file is in a deque as often as the deque holds it.
LEMMA CopiesOf ==
  ASSUME NEW C, \A c \in C : c.uris \in Seq(Uris), NEW cs \in Seq(C), NEW g,
         NoRepeat(cs), Proper(cs, g), NEW u
  PROVE  Copies(cs, u) = IF Holds(cs, u) THEN 1 ELSE 0
<1> DEFINE P == {p \in (DOMAIN cs) \X (1 .. Len(Files)) :
                   p[2] \in DOMAIN cs[p[1]].uris /\ cs[p[1]].uris[p[2]] = u}
<1>0. DOMAIN cs = 1 .. Len(cs)
  OBVIOUS
<1>1. \A i \in 1 .. Len(cs) : DOMAIN cs[i].uris = 1 .. Len(cs[i].uris)
  <2>1. ASSUME NEW i \in 1 .. Len(cs) PROVE DOMAIN cs[i].uris = 1 .. Len(cs[i].uris)
    <3>1. cs[i] \in C
      BY <2>1
    <3>2. PICK s \in Seq(Uris) : s = cs[i].uris
      BY <3>1, Zenon
    <3>3. DOMAIN s = 1 .. Len(s)
      OBVIOUS
    <3> QED
      BY <3>2, <3>3, Zenon
  <2> QED
    BY <2>1, Zenon
<1>2. \A p \in P : \E i \in 1 .. Len(cs) : \E j \in 1 .. Len(cs[i].uris) :
        cs[i].uris[j] = u /\ p = <<i, j>>
  <2>1. SUFFICES ASSUME NEW p \in P
                 PROVE  \E i \in 1 .. Len(cs) : \E j \in 1 .. Len(cs[i].uris) :
                          cs[i].uris[j] = u /\ p = <<i, j>>
    BY Zenon
  <2>2. PICK i \in DOMAIN cs, j \in 1 .. Len(Files) : p = <<i, j>>
    BY <2>1
  <2>3. p[1] = i /\ p[2] = j
    BY <2>2
  <2>4. j \in DOMAIN cs[i].uris /\ cs[i].uris[j] = u
    BY <2>1, <2>3, Zenon
  <2>5. i \in 1 .. Len(cs) /\ j \in 1 .. Len(cs[i].uris)
    BY <2>4, <1>0, <1>1, Zenon
  <2> QED
    BY <2>2, <2>4, <2>5, Zenon
<1>3. CASE ~ Holds(cs, u)
  <2>1. P = {}
    BY <1>2, <1>3, Zenon DEF Holds
  <2> QED
    BY <2>1, <1>3, FS_EmptySet, Zenon DEF Copies
<1>4. CASE Holds(cs, u)
  <2>1. PICK i \in 1 .. Len(cs) : \E j \in 1 .. Len(cs[i].uris) : cs[i].uris[j] = u
    BY <1>4, Zenon DEF Holds
  <2>2. PICK j \in 1 .. Len(cs[i].uris) : cs[i].uris[j] = u
    BY <2>1, Zenon
  <2>3. Len(cs[i].uris) \in 1 .. Len(Files)
    BY <2>1, Zenon DEF Proper
  <2>4. j \in 1 .. Len(Files)
    BY <2>2, <2>3, FilesListed
  <2>5. <<i, j>> \in P
    <3>1. i \in DOMAIN cs /\ j \in DOMAIN cs[i].uris
      BY <2>1, <2>2, <1>0, <1>1, Zenon
    <3>2. <<i, j>> \in (DOMAIN cs) \X (1 .. Len(Files)) /\ <<i, j>>[1] = i /\ <<i, j>>[2] = j
      BY <3>1, <2>4
    <3> QED
      BY <3>1, <3>2, <2>2
  <2>6. \A p \in P : p = <<i, j>>
    <3>1. SUFFICES ASSUME NEW p \in P PROVE p = <<i, j>>
      BY Zenon
    <3>2. PICK k \in 1 .. Len(cs) : \E l \in 1 .. Len(cs[k].uris) :
            cs[k].uris[l] = u /\ p = <<k, l>>
      BY <3>1, <1>2, Zenon
    <3>3. PICK l \in 1 .. Len(cs[k].uris) : cs[k].uris[l] = u /\ p = <<k, l>>
      BY <3>2, Zenon
    <3>4. k = i /\ l = j
      <4>1. Spot(cs, i, j, u) /\ Spot(cs, k, l, u)
        BY <2>1, <2>2, <3>2, <3>3, Zenon DEF Spot
      <4> QED
        BY <4>1, Spots, Zenon
    <3> QED
      BY <3>3, <3>4, Zenon
  <2> HIDE DEF P
  <2>7. P = {<<i, j>>}
    BY <2>5, <2>6, Zenon
  <2>8. Cardinality(P) = 1
    BY <2>7, FS_Singleton, Zenon
  <2> QED
    BY <2>8, <1>4, Zenon DEF Copies, P
<1> QED
  BY <1>3, <1>4, Zenon

\* What the invariant of the queue says of its promise.
LEMMA Accounted ==
  ASSUME NEW q \in Queues, QueueInv(q)
  PROVE  QueueAccounting(q)
<1> DEFINE Chs == ToSet(q.neighborhood) \union ToSet(q.sweep) \union ToSet(q.symbols)
<1>F. /\ q.neighborhood \in Seq(IndexChunks("neighborhood"))
      /\ q.sweep \in Seq(IndexChunks("sweep")) /\ q.symbols \in Seq(SymbolChunks)
  BY QueueFields, Zenon
<1>1. /\ Proper(q.neighborhood, q.generation) /\ NoRepeat(q.neighborhood)
      /\ Proper(q.sweep, q.generation) /\ NoRepeat(q.sweep)
      /\ Proper(q.symbols, q.generation) /\ NoRepeat(q.symbols)
      /\ \A u \in Uris : Holds(q.neighborhood, u) <=> q.queued[u] = "neighborhood"
      /\ \A u \in Uris : q.queued[u] = "sweep" => Holds(q.sweep, u)
      /\ \A u \in Uris : Holds(q.symbols, u) <=> u \in q.symbolQueued
      /\ q.total = q.done + Cardinality(Waiting(q.queued))
  BY Zenon DEF QueueInv, Books
<1>2. \A u : /\ Copies(q.neighborhood, u) = IF Holds(q.neighborhood, u) THEN 1 ELSE 0
             /\ Copies(q.sweep, u) = IF Holds(q.sweep, u) THEN 1 ELSE 0
             /\ Copies(q.symbols, u) = IF Holds(q.symbols, u) THEN 1 ELSE 0
  BY <1>1, <1>F, CopiesOf, ChunkTypes, Zenon
<1>3. \A u \in Uris :
       /\ q.queued[u] = "neighborhood" => Copies(q.neighborhood, u) = 1
       /\ q.queued[u] = "sweep" => Copies(q.sweep, u) = 1
       /\ q.queued[u] # "neighborhood" => Copies(q.neighborhood, u) = 0
       /\ Copies(q.symbols, u) = IF u \in q.symbolQueued THEN 1 ELSE 0
  BY <1>1, <1>2, Zenon
<1>4. q.total = q.done + Cardinality({u \in Uris : q.queued[u] # Nowhere})
  BY <1>1, Zenon DEF Waiting
<1>5. ASSUME NEW C, NEW cs \in Seq(C), Proper(cs, q.generation), NEW c \in ToSet(cs)
      PROVE  c.generation = q.generation
  <2>1. PICK j \in 1 .. Len(cs) : cs[j] = c
    BY <1>5, Elements, Zenon
  <2> QED
    BY <2>1, <1>5, Zenon DEF Proper
<1>6. \A c \in Chs : c.generation = q.generation
  BY <1>1, <1>5, <1>F, Zenon
<1> QED
  BY <1>3, <1>4, <1>6, Zenon DEF QueueAccounting

\* A queue that has just been created.
NewQueue(p, d, g) ==
  [EmptyQueue EXCEPT !.pending = p, !.disconnected = d, !.generation = g]

\* A queue that has just been made holds the commands it was given and
\* nothing else, and its account is exact.
LEMMA EmptyAccounted ==
  ASSUME NEW p \in Seq(Commands), NEW g \in Nat, NEW d \in BOOLEAN
  PROVE  LET q == NewQueue(p, d, g)
         IN  /\ q \in Queues /\ QueueInv(q)
             /\ q.pending = p /\ q.disconnected = d /\ q.generation = g
             /\ q.locations = <<>> /\ q.neighborhood = <<>> /\ q.sweep = <<>>
             /\ q.symbols = <<>>
<1> DEFINE q == NewQueue(p, d, g)
           f == [u \in Uris |-> Nowhere]
<1>4. f \in QueuedMaps /\ \A u \in Uris : f[u] = Nowhere
  BY DEF QueuedMaps
<1>1. EmptyQueue =
        [ pending |-> <<>>, locations |-> <<>>, sinceLocation |-> 0,
          neighborhood |-> <<>>, sweep |-> <<>>, symbols |-> <<>>, sinceSweep |-> 0,
          symbolQueued |-> {}, queued |-> f,
          done |-> 0, total |-> 0, generation |-> 0, disconnected |-> FALSE ]
  BY Zenon DEF EmptyQueue
<1> HIDE DEF f
<1>0. EmptyQueue \in Queues
  <2>1. /\ <<>> \in Seq(Commands) /\ <<>> \in Seq(Locates) /\ <<>> \in Seq(SymbolChunks)
        /\ <<>> \in Seq(IndexChunks("neighborhood")) /\ <<>> \in Seq(IndexChunks("sweep"))
    OBVIOUS
  <2> QED
    BY <1>1, <1>4, <2>1 DEF Queues, QueuedMaps
<1>a. /\ EmptyQueue.locations = <<>> /\ EmptyQueue.neighborhood = <<>>
      /\ EmptyQueue.sweep = <<>> /\ EmptyQueue.symbols = <<>> /\ EmptyQueue.symbolQueued = {}
      /\ EmptyQueue.done = 0 /\ EmptyQueue.total = 0 /\ EmptyQueue.queued = f
  BY <1>1
<1>2. q \in Queues
  BY <1>0 DEF NewQueue, Queues
<1>3. /\ q.pending = p /\ q.disconnected = d /\ q.generation = g
      /\ q.locations = <<>> /\ q.neighborhood = <<>> /\ q.sweep = <<>> /\ q.symbols = <<>>
      /\ q.symbolQueued = {} /\ q.done = 0 /\ q.total = 0
      /\ q.queued = f
  <2>1. /\ q.locations = EmptyQueue.locations /\ q.neighborhood = EmptyQueue.neighborhood
        /\ q.sweep = EmptyQueue.sweep /\ q.symbols = EmptyQueue.symbols
        /\ q.symbolQueued = EmptyQueue.symbolQueued /\ q.done = EmptyQueue.done
        /\ q.total = EmptyQueue.total /\ q.queued = EmptyQueue.queued
    BY <1>0 DEF NewQueue, Queues
  <2>2. q.pending = p /\ q.disconnected = d /\ q.generation = g
    BY <1>0 DEF NewQueue, Queues
  <2> QED
    BY <2>1, <2>2, <1>a, Zenon
<1> HIDE DEF q
<1>5. Waiting(q.queued) = {}
  BY <1>3, <1>4, Zenon DEF Waiting
<1>6. Cardinality(Waiting(q.queued)) = 0
  BY <1>5, FS_EmptySet, Zenon
<1>7. 0 = 0 + Cardinality(Waiting(q.queued))
  BY <1>6
<1>8. \A u \in Uris : q.queued[u] # "neighborhood" /\ q.queued[u] # "sweep"
  BY <1>3, <1>4 DEF Nowhere
<1>9. QueueInv(q)
  BY <1>3, <1>7, <1>8, EmptyHolds, Zenon DEF QueueInv, Books
<1> QED
  BY <1>2, <1>3, <1>9, Zenon DEF q

\* A new generation keeps the commands of the session, and nothing else.
LEMMA GenerationReplaced ==
  ASSUME NEW q \in Queues
  PROVE  LET r == ReplaceGeneration(q)
         IN  /\ r \in Queues /\ QueueInv(r)
             /\ r.pending = q.pending /\ r.disconnected = q.disconnected
             /\ r.generation = q.generation + 1 /\ r.locations = <<>>
             /\ r.neighborhood = <<>> /\ r.sweep = <<>> /\ r.symbols = <<>>
<1> DEFINE r == ReplaceGeneration(q)
<1>1. q.pending \in Seq(Commands) /\ q.disconnected \in BOOLEAN /\ q.generation + 1 \in Nat
  <2>1. q.pending \in Seq(Commands) /\ q.disconnected \in BOOLEAN /\ q.generation \in Nat
    BY QueueFields, Zenon
  <2> QED
    BY <2>1
<1>2. PICK g \in Nat : g = q.generation + 1
  BY <1>1, Zenon
<1>3. r = NewQueue(q.pending, q.disconnected, g)
  BY <1>2 DEF ReplaceGeneration, NewQueue
<1> HIDE DEF r
<1>6. /\ r \in Queues /\ QueueInv(r)
      /\ r.pending = q.pending /\ r.disconnected = q.disconnected /\ r.generation = g
      /\ r.locations = <<>> /\ r.neighborhood = <<>> /\ r.sweep = <<>> /\ r.symbols = <<>>
  <2> DEFINE n == NewQueue(q.pending, q.disconnected, g)
  <2>1. /\ n \in Queues /\ QueueInv(n)
        /\ n.pending = q.pending /\ n.disconnected = q.disconnected /\ n.generation = g
        /\ n.locations = <<>> /\ n.neighborhood = <<>> /\ n.sweep = <<>> /\ n.symbols = <<>>
    BY <1>1, <1>2, EmptyAccounted
  <2> QED
    BY <2>1, <1>3, Zenon
<1> QED
  BY <1>2, <1>6, Zenon DEF r

\* An analysis is queued: it is the last command and the only analysis.
LEMMA AnalyzeQueued ==
  ASSUME NEW q \in Queues, NEW v \in Nat
  PROVE  LET r == EnqueueAnalyze(q, v)
         IN  /\ r \in Queues /\ SameBackground(q, r) /\ r.locations = q.locations
             /\ \E x \in Seq(Commands) :
                  /\ r.pending = Append(x, [kind |-> "analyze", version |-> v])
                  /\ \A i \in 1 .. Len(x) : x[i].kind # "analyze"
                  /\ \A i \in 1 .. Len(x) :
                       \E j \in 1 .. Len(q.pending) : x[i].kind = q.pending[j].kind
<1> DEFINE p == q.pending
           S == {c \in ToSet(p) : ~ IsAnalyze(c)}
           y == Only(p, S)
           x == Compact(y)
           a == [kind |-> "analyze", version |-> v]
           r == EnqueueAnalyze(q, v)
<1>0. p \in Seq(Commands)
  BY QueueFields, Zenon
<1>1. r = [q EXCEPT !.pending = Append(x, a)]
  BY Zenon DEF EnqueueAnalyze
<1> HIDE DEF p, S
<1>2. /\ y \in Seq(Commands) /\ Len(y) <= Len(p)
      /\ \A k \in 1 .. Len(y) : \E j \in 1 .. Len(p) : p[j] \in S /\ y[k] = p[j]
      /\ \A j \in 1 .. Len(p) : p[j] \in S => \E k \in 1 .. Len(y) : y[k] = p[j]
      /\ Distinct(p) => Distinct(y)
  BY <1>0, OnlySelects, Zenon
<1>b. \A u : u \in S => ~ IsAnalyze(u)
  BY Zenon DEF S
<1>3. \A k \in 1 .. Len(y) : /\ y[k].kind # "analyze"
                             /\ \E j \in 1 .. Len(p) : y[k].kind = p[j].kind
  BY <1>2, <1>b, Zenon DEF IsAnalyze
<1> HIDE DEF y
<1>4. /\ x \in Seq(Commands)
      /\ \A k \in 1 .. Len(x) : \E j \in 1 .. Len(y) : x[k].kind = y[j].kind
  BY <1>2, CompactKinds, Zenon
<1> HIDE DEF x
<1>5. \A k \in 1 .. Len(x) : /\ x[k].kind # "analyze"
                             /\ \E j \in 1 .. Len(p) : x[k].kind = p[j].kind
  <2>1. SUFFICES ASSUME NEW k \in 1 .. Len(x)
                 PROVE  /\ x[k].kind # "analyze"
                        /\ \E j \in 1 .. Len(p) : x[k].kind = p[j].kind
    BY Zenon
  <2>2. PICK j \in 1 .. Len(y) : x[k].kind = y[j].kind
    BY <1>4, Zenon
  <2> QED
    BY <2>2, <1>3, Zenon
<1>6. a \in Commands
  BY DEF Commands
<1>7. Append(x, a) \in Seq(Commands)
  BY <1>4, <1>6
<1>8. PICK z \in Seq(Commands) : z = Append(x, a)
  BY <1>7, Zenon
<1>9. r = WithPending(q, z)
  BY <1>1, <1>8, Zenon DEF WithPending
<1> HIDE DEF r, a
<1>10. r \in Queues /\ SameBackground(q, r) /\ r.pending = z /\ r.locations = q.locations
  BY <1>9, PendingReplaced, Zenon
<1> QED
  BY <1>4, <1>5, <1>8, <1>10, Zenon DEF r, a, p

\* A project change is queued: it is the last command, or merged into it.
LEMMA ChangeQueued ==
  ASSUME NEW q \in Queues, NEW S \in SUBSET (Uris \union {BuildFile})
  PROVE  LET r == EnqueueChange(q, Change(FALSE, FALSE, S))
         IN  /\ r \in Queues /\ SameBackground(q, r) /\ r.locations = q.locations
             /\ Len(r.pending) \in {Len(q.pending), Len(q.pending) + 1}
             /\ \A i \in 1 .. Len(r.pending) :
                  IF i <= Len(q.pending)
                  THEN /\ r.pending[i].kind = q.pending[i].kind
                       /\ q.pending[i].kind # "change" => r.pending[i] = q.pending[i]
                  ELSE r.pending[i].kind = "change"
<1> DEFINE c == Change(FALSE, FALSE, S)
           c1 == IF Cardinality(c.uris) > MaxWatched THEN Change(TRUE, TRUE, {}) ELSE c
           p == q.pending
           z == Append1(p, c1)
           r == EnqueueChange(q, c)
<1>0. p \in Seq(Commands)
  BY QueueFields, Zenon
<1>1. c1 \in Commands /\ c1.kind = "change"
  BY DEF Change, Commands, BuildFile
<1>2. r = WithPending(q, z)
  BY Zenon DEF EnqueueChange, WithPending
<1> HIDE DEF c1, p, r, c
<1>3. /\ z \in Seq(Commands) /\ Len(z) \in {Len(p), Len(p) + 1}
      /\ \A i \in 1 .. Len(z) : IF i <= Len(p)
                                THEN /\ z[i].kind = p[i].kind
                                     /\ p[i].kind # "change" => z[i] = p[i]
                                ELSE z[i].kind = c1.kind
  BY <1>0, <1>1, Appended1, Zenon
<1> HIDE DEF z
<1>4. r \in Queues /\ SameBackground(q, r) /\ r.pending = z /\ r.locations = q.locations
  BY <1>2, <1>3, PendingReplaced, Zenon
<1> QED
  BY <1>1, <1>3, <1>4, Zenon DEF r, p, c

\* A request is queued.
LEMMA RequestQueued ==
  ASSUME NEW q \in Queues, NEW n \in Nat
  PROVE  LET r == EnqueueRequest(q, n)
         IN  /\ r \in Queues /\ SameBackground(q, r) /\ r.locations = q.locations
             /\ r.pending = Append(q.pending, [kind |-> "request", token |-> n])
<1> DEFINE z == Append(q.pending, [kind |-> "request", token |-> n])
           r == EnqueueRequest(q, n)
<1>0. q.pending \in Seq(Commands)
  BY QueueFields, Zenon
<1>1. [kind |-> "request", token |-> n] \in Commands
  BY DEF Commands
<1>2. z \in Seq(Commands) /\ r = WithPending(q, z)
  BY <1>0, <1>1 DEF EnqueueRequest, WithPending
<1> HIDE DEF r, z
<1>3. r \in Queues /\ SameBackground(q, r) /\ r.pending = z /\ r.locations = q.locations
  BY <1>2, PendingReplaced, Zenon
<1> QED
  BY <1>3, Zenon DEF r, z

\* A location is queued.
LEMMA LocationQueued ==
  ASSUME NEW q \in Queues, NEW g \in Nat, NEW S \in SUBSET Classes
  PROVE  LET r == EnqueueLocation(q, g, S)
             l == [kind |-> "locate", generation |-> g, candidates |-> S]
         IN  /\ r \in Queues /\ SameBackground(q, r) /\ r.pending = q.pending
             /\ r.locations = Append(q.locations, l) /\ l \in Locates
<1> DEFINE l == [kind |-> "locate", generation |-> g, candidates |-> S]
           z == Append(q.locations, l)
           r == EnqueueLocation(q, g, S)
<1>0. q.locations \in Seq(Locates)
  BY QueueFields, Zenon
<1>1. l \in Locates
  BY DEF Locates
<1>2. z \in Seq(Locates) /\ r = [q EXCEPT !.locations = z]
  BY <1>0, <1>1 DEF EnqueueLocation
<1> HIDE DEF r, z, l
<1>3. r \in Queues
  BY <1>2 DEF Queues
<1>4. SameBackground(q, r) /\ r.locations = z /\ r.pending = q.pending
  BY <1>2 DEF Queues, SameBackground
<1> QED
  BY <1>1, <1>3, <1>4, Zenon DEF r, z, l

\* The root is queued, on a new generation.
LEMMA RootQueued ==
  ASSUME NEW q \in Queues, q.pending = <<>>
  PROVE  LET r == EnqueueRoot(q)
         IN  /\ r \in Queues /\ QueueInv(r) /\ r.disconnected = q.disconnected
             /\ r.generation = q.generation + 1 /\ r.pending = <<[kind |-> "root"]>>
             /\ r.locations = <<>>
             /\ r.neighborhood = <<>> /\ r.sweep = <<>> /\ r.symbols = <<>>
<1> DEFINE p == ReplaceGeneration(q)
           z == <<[kind |-> "root"]>>
           r == EnqueueRoot(q)
<1>1. /\ p \in Queues /\ QueueInv(p)
      /\ p.pending = q.pending /\ p.disconnected = q.disconnected
      /\ p.generation = q.generation + 1 /\ p.locations = <<>>
      /\ p.neighborhood = <<>> /\ p.sweep = <<>> /\ p.symbols = <<>>
  BY GenerationReplaced, Zenon
<1>2. Compact(p.pending) = <<>>
  <2>1. <<>> \in Seq(Commands)
    OBVIOUS
  <2> QED
    BY <1>1, <2>1, CompactKinds, Zenon
<1>3. r = [p EXCEPT !.pending = Append(Compact(p.pending), [kind |-> "root"])]
  BY Zenon DEF EnqueueRoot
<1> HIDE DEF p, r
<1>4. r = WithPending(p, z) /\ z \in Seq(Commands)
  <2>1. Append(<<>>, [kind |-> "root"]) = z
    OBVIOUS
  <2>2. [kind |-> "root"] \in Commands
    BY DEF Commands
  <2>3. z \in Seq(Commands)
    BY <2>2
  <2> QED
    BY <1>2, <1>3, <2>1, <2>3, Zenon DEF WithPending
<1> HIDE DEF z
<1>5. r \in Queues /\ SameBackground(p, r) /\ r.pending = z /\ r.locations = p.locations
  BY <1>1, <1>4, PendingReplaced, Zenon
<1>6. QueueInv(r)
  BY <1>1, <1>5, BackgroundKept, Zenon
<1> QED
  BY <1>1, <1>5, <1>6, Zenon DEF SameBackground, r, z

-------------------------------------------------------------------------------
(* Lists of which some elements count.                                     *)

\* An empty list has no element that counts.
LEMMA FreeEmpty ==
  ASSUME NEW S
  PROVE  Free(<<>>, S) /\ Single(<<>>, S)
<1>1. 1 .. Len(<<>>) = {}
  OBVIOUS
<1> QED
  BY <1>1, Zenon DEF Free, Single

\* A list without elements that count has at most one.
LEMMA FreeSingle ==
  ASSUME NEW s, NEW S, Free(s, S)
  PROVE  Single(s, S)
BY Zenon DEF Free, Single

\* The first element and the others.
LEMMA ListTail ==
  ASSUME NEW T, NEW s \in Seq(T), s # <<>>, NEW S
  PROVE  /\ Free(s, S) <=> Head(s) \notin S /\ Free(Tail(s), S)
         /\ Single(s, S) => Single(Tail(s), S) /\ (Head(s) \in S => Free(Tail(s), S))
<1>1. /\ Head(s) = s[1] /\ Len(s) \in Nat \ {0} /\ Len(Tail(s)) = Len(s) - 1
      /\ \A i \in 1 .. Len(s) - 1 : Tail(s)[i] = s[i + 1]
  BY TailOf, Zenon
<1>2. 1 \in 1 .. Len(s)
  BY <1>1
<1>3. \A i \in 1 .. Len(Tail(s)) : i + 1 \in 1 .. Len(s) /\ Tail(s)[i] = s[i + 1]
  BY <1>1
<1>4. \A i \in 1 .. Len(s) : i = 1 \/ \E k \in 1 .. Len(Tail(s)) : i = k + 1
  <2>1. SUFFICES ASSUME NEW i \in 1 .. Len(s), i # 1
                 PROVE  \E k \in 1 .. Len(Tail(s)) : i = k + 1
    OBVIOUS
  <2>2. i - 1 \in 1 .. Len(Tail(s)) /\ i = i - 1 + 1
    BY <1>1, <2>1
  <2> QED
    BY <2>2
<1>5. Free(s, S) => Head(s) \notin S /\ Free(Tail(s), S)
  BY <1>1, <1>2, <1>3, Zenon DEF Free
<1>6. Head(s) \notin S /\ Free(Tail(s), S) => Free(s, S)
  <2>1. SUFFICES ASSUME Head(s) \notin S, Free(Tail(s), S), NEW i \in 1 .. Len(s), s[i] \in S
                 PROVE  FALSE
    BY Zenon DEF Free
  <2>2. PICK k \in 1 .. Len(Tail(s)) : i = k + 1
    BY <1>1, <1>4, <2>1, Zenon
  <2>3. Tail(s)[k] \in S
    BY <1>3, <2>1, <2>2, Zenon
  <2> QED
    BY <2>1, <2>3, Zenon DEF Free
<1>7. ASSUME Single(s, S), Head(s) \in S PROVE Free(Tail(s), S)
  <2>1. SUFFICES ASSUME NEW i \in 1 .. Len(Tail(s)), Tail(s)[i] \in S PROVE FALSE
    BY Zenon DEF Free
  <2>2. i + 1 \in 1 .. Len(s) /\ s[i + 1] \in S
    BY <1>3, <2>1, Zenon
  <2>3. i + 1 = 1
    BY <1>1, <1>2, <1>7, <2>2, Zenon DEF Single
  <2> QED
    BY <2>3
<1>8. ASSUME Single(s, S) PROVE Single(Tail(s), S)
  <2>1. SUFFICES ASSUME NEW i \in 1 .. Len(Tail(s)), NEW j \in 1 .. Len(Tail(s)),
                        Tail(s)[i] \in S, Tail(s)[j] \in S
                 PROVE  i = j
    BY Zenon DEF Single
  <2>2. i + 1 \in 1 .. Len(s) /\ s[i + 1] \in S /\ j + 1 \in 1 .. Len(s) /\ s[j + 1] \in S
    BY <1>3, <2>1, Zenon
  <2>3. i + 1 = j + 1
    BY <1>8, <2>2, Zenon DEF Single
  <2> QED
    BY <2>3
<1> QED
  BY <1>5, <1>6, <1>7, <1>8, Zenon

\* Two lists one after the other.
LEMMA ListJoin ==
  ASSUME NEW T, NEW s \in Seq(T), NEW t \in Seq(T), NEW S
  PROVE  /\ Free(s \o t, S) <=> Free(s, S) /\ Free(t, S)
         /\ Single(s \o t, S) <=>
              Single(s, S) /\ Single(t, S) /\ (Free(s, S) \/ Free(t, S))
<1> DEFINE r == s \o t
<1>1. /\ r \in Seq(T) /\ Len(r) = Len(s) + Len(t) /\ Len(s) \in Nat /\ Len(t) \in Nat
      /\ \A i \in 1 .. Len(s) : r[i] = s[i]
      /\ \A i \in 1 .. Len(t) : r[Len(s) + i] = t[i]
  BY ConcatOf
<1> HIDE DEF r
<1>2. \A i \in 1 .. Len(s) : i \in 1 .. Len(r) /\ r[i] = s[i]
  BY <1>1
<1>3. \A i \in 1 .. Len(t) : Len(s) + i \in 1 .. Len(r) /\ r[Len(s) + i] = t[i]
  BY <1>1
<1>4. \A i \in 1 .. Len(r) : i \in 1 .. Len(s) \/ \E k \in 1 .. Len(t) : i = Len(s) + k
  <2>1. SUFFICES ASSUME NEW i \in 1 .. Len(r), i \notin 1 .. Len(s)
                 PROVE  \E k \in 1 .. Len(t) : i = Len(s) + k
    OBVIOUS
  <2>2. i - Len(s) \in 1 .. Len(t) /\ i = Len(s) + (i - Len(s))
    BY <1>1, <2>1
  <2> QED
    BY <2>2
<1>5. Free(r, S) => Free(s, S) /\ Free(t, S)
  BY <1>2, <1>3, Zenon DEF Free
<1>6. Free(s, S) /\ Free(t, S) => Free(r, S)
  <2>1. SUFFICES ASSUME Free(s, S), Free(t, S), NEW i \in 1 .. Len(r) PROVE r[i] \notin S
    BY Zenon DEF Free
  <2>2. CASE i \in 1 .. Len(s)
    BY <2>1, <2>2, <1>2, Zenon DEF Free
  <2>3. CASE i \notin 1 .. Len(s)
    <3>1. PICK k \in 1 .. Len(t) : i = Len(s) + k
      BY <2>3, <1>4, Zenon
    <3> QED
      BY <3>1, <2>1, <1>3, Zenon DEF Free
  <2> QED
    BY <2>2, <2>3, Zenon
<1>7. ASSUME Single(r, S)
      PROVE  Single(s, S) /\ Single(t, S) /\ (Free(s, S) \/ Free(t, S))
  <2>1. Single(s, S)
    BY <1>7, <1>2, Zenon DEF Single
  <2>2. Single(t, S)
    <3>1. SUFFICES ASSUME NEW i \in 1 .. Len(t), NEW j \in 1 .. Len(t), t[i] \in S, t[j] \in S
                   PROVE  i = j
      BY Zenon DEF Single
    <3>2. Len(s) + i = Len(s) + j
      BY <3>1, <1>3, <1>7, Zenon DEF Single
    <3> QED
      BY <3>2, <1>1
  <2>3. Free(s, S) \/ Free(t, S)
    <3>1. SUFFICES ASSUME NEW i \in 1 .. Len(s), NEW j \in 1 .. Len(t), s[i] \in S, t[j] \in S
                   PROVE  FALSE
      BY Zenon DEF Free
    <3>2. i = Len(s) + j
      BY <3>1, <1>2, <1>3, <1>7, Zenon DEF Single
    <3> QED
      BY <3>1, <3>2, <1>1
  <2> QED
    BY <2>1, <2>2, <2>3, Zenon
<1>8. ASSUME Single(s, S), Single(t, S), Free(s, S) \/ Free(t, S)
      PROVE  Single(r, S)
  <2>1. SUFFICES ASSUME NEW i \in 1 .. Len(r), NEW j \in 1 .. Len(r), r[i] \in S, r[j] \in S
                 PROVE  i = j
    BY Zenon DEF Single
  <2>2. ASSUME NEW k \in 1 .. Len(r), r[k] \in S
        PROVE  \/ k \in 1 .. Len(s) /\ s[k] \in S
               \/ \E l \in 1 .. Len(t) : k = Len(s) + l /\ t[l] \in S
    <3>1. CASE k \in 1 .. Len(s)
      BY <3>1, <2>2, <1>2, Zenon
    <3>2. CASE k \notin 1 .. Len(s)
      <4>1. PICK l \in 1 .. Len(t) : k = Len(s) + l
        BY <3>2, <1>4, Zenon
      <4> QED
        BY <4>1, <2>2, <1>3, Zenon
    <3> QED
      BY <3>1, <3>2, Zenon
  <2>3. CASE Free(s, S)
    <3>1. PICK k \in 1 .. Len(t) : i = Len(s) + k /\ t[k] \in S
      BY <2>1, <2>2, <2>3, Zenon DEF Free
    <3>2. PICK l \in 1 .. Len(t) : j = Len(s) + l /\ t[l] \in S
      BY <2>1, <2>2, <2>3, Zenon DEF Free
    <3> QED
      BY <3>1, <3>2, <1>8, Zenon DEF Single
  <2>4. CASE Free(t, S)
    BY <2>1, <2>2, <2>4, <1>8, Zenon DEF Free, Single
  <2> QED
    BY <2>3, <2>4, <1>8, Zenon
<1> QED
  BY <1>5, <1>6, <1>7, <1>8, Zenon DEF r

\* One more element.
LEMMA ListAppend ==
  ASSUME NEW T, NEW s \in Seq(T), NEW x \in T, NEW S
  PROVE  /\ Free(Append(s, x), S) <=> Free(s, S) /\ x \notin S
         /\ Single(Append(s, x), S) <=> Single(s, S) /\ (Free(s, S) \/ x \notin S)
<1>1. Append(s, x) = s \o <<x>> /\ <<x>> \in Seq(T)
  OBVIOUS
<1>2. Len(<<x>>) = 1 /\ <<x>>[1] = x
  OBVIOUS
<1>3. 1 .. 1 = {1}
  OBVIOUS
<1>4. (Free(<<x>>, S) <=> x \notin S) /\ Single(<<x>>, S)
  BY <1>2, <1>3 DEF Free, Single
<1> QED
  <2> DEFINE t == <<x>>
  <2>1. t \in Seq(T) /\ Append(s, x) = s \o t /\ (Free(t, S) <=> x \notin S) /\ Single(t, S)
    BY <1>1, <1>4, Zenon
  <2> HIDE DEF t
  <2>2. /\ Free(s \o t, S) <=> Free(s, S) /\ Free(t, S)
        /\ Single(s \o t, S) <=>
             Single(s, S) /\ Single(t, S) /\ (Free(s, S) \/ Free(t, S))
    BY <2>1, ListJoin, Zenon
  <2> QED
    BY <2>1, <2>2, Zenon

\* The elements of lists that are cut or joined.
LEMMA ElementsTail ==
  ASSUME NEW T, NEW s \in Seq(T), s # <<>>
  PROVE  \A x : x \in ToSet(s) <=> x = Head(s) \/ x \in ToSet(Tail(s))
<1>1. /\ Head(s) = s[1] /\ Len(s) \in Nat \ {0} /\ Len(Tail(s)) = Len(s) - 1
      /\ Tail(s) \in Seq(T) /\ \A i \in 1 .. Len(s) - 1 : Tail(s)[i] = s[i + 1]
  BY TailOf, Zenon
<1>2. /\ \A x : x \in ToSet(s) <=> \E j \in 1 .. Len(s) : s[j] = x
      /\ \A x : x \in ToSet(Tail(s)) <=> \E j \in 1 .. Len(Tail(s)) : Tail(s)[j] = x
  BY <1>1, Elements, Zenon
<1>3. ASSUME NEW x, x \in ToSet(s), x # Head(s)
      PROVE  x \in ToSet(Tail(s))
  <2>1. PICK j \in 1 .. Len(s) : s[j] = x
    BY <1>2, <1>3, Zenon
  <2>2. j # 1
    BY <2>1, <1>1, <1>3, Zenon
  <2>3. PICK k \in 1 .. Len(Tail(s)) : k + 1 = j
    <3>1. j - 1 \in 1 .. Len(Tail(s)) /\ j - 1 + 1 = j
      BY <2>1, <2>2, <1>1
    <3> QED
      BY <3>1
  <2>4. Tail(s)[k] = s[k + 1]
    BY <1>1
  <2> QED
    BY <2>1, <2>3, <2>4, <1>2, Zenon
<1>4. ASSUME NEW x, x = Head(s) \/ x \in ToSet(Tail(s))
      PROVE  x \in ToSet(s)
  <2>1. CASE x = Head(s)
    <3>1. 1 \in 1 .. Len(s)
      BY <1>1
    <3> QED
      BY <2>1, <3>1, <1>1, <1>2, Zenon
  <2>2. CASE x \in ToSet(Tail(s))
    <3>1. PICK k \in 1 .. Len(Tail(s)) : Tail(s)[k] = x
      BY <1>2, <2>2, Zenon
    <3>2. k + 1 \in 1 .. Len(s) /\ s[k + 1] = x
      BY <3>1, <1>1
    <3> QED
      BY <3>2, <1>2, Zenon
  <2> QED
    BY <1>4, <2>1, <2>2, Zenon
<1> QED
  BY <1>3, <1>4, Zenon

\* The elements of two lists joined are those of both.
LEMMA ElementsJoin ==
  ASSUME NEW T, NEW s \in Seq(T), NEW t \in Seq(T)
  PROVE  \A x : x \in ToSet(s \o t) <=> x \in ToSet(s) \/ x \in ToSet(t)
<1>1. /\ s \o t \in Seq(T) /\ Len(s \o t) = Len(s) + Len(t)
      /\ Len(s) \in Nat /\ Len(t) \in Nat
      /\ \A i \in 1 .. Len(s) : (s \o t)[i] = s[i]
      /\ \A i \in 1 .. Len(t) : (s \o t)[Len(s) + i] = t[i]
  BY ConcatOf
<1> DEFINE r == s \o t
<1>2. /\ \A x : x \in ToSet(s) <=> \E j \in 1 .. Len(s) : s[j] = x
      /\ \A x : x \in ToSet(t) <=> \E j \in 1 .. Len(t) : t[j] = x
      /\ \A x : x \in ToSet(r) <=> \E j \in 1 .. Len(r) : r[j] = x
  BY <1>1, Elements, Zenon
<1> HIDE DEF r
<1>3. \A i \in 1 .. Len(s) : i \in 1 .. Len(r) /\ r[i] = s[i]
  BY <1>1 DEF r
<1>4. \A i \in 1 .. Len(t) : Len(s) + i \in 1 .. Len(r) /\ r[Len(s) + i] = t[i]
  BY <1>1 DEF r
<1>5. \A i \in 1 .. Len(r) : i \in 1 .. Len(s) \/ \E k \in 1 .. Len(t) : i = Len(s) + k
  <2>1. SUFFICES ASSUME NEW i \in 1 .. Len(r), i \notin 1 .. Len(s)
                 PROVE  \E k \in 1 .. Len(t) : i = Len(s) + k
    OBVIOUS
  <2>2. i - Len(s) \in 1 .. Len(t) /\ i = Len(s) + (i - Len(s))
    BY <1>1, <2>1 DEF r
  <2> QED
    BY <2>2
<1>6. ASSUME NEW x, x \in ToSet(r) PROVE x \in ToSet(s) \/ x \in ToSet(t)
  <2>1. PICK j \in 1 .. Len(r) : r[j] = x
    BY <1>2, <1>6, Zenon
  <2>2. CASE j \in 1 .. Len(s)
    BY <2>1, <2>2, <1>2, <1>3, Zenon
  <2>3. CASE j \notin 1 .. Len(s)
    <3>1. PICK k \in 1 .. Len(t) : j = Len(s) + k
      BY <1>5, <2>3, Zenon
    <3> QED
      BY <3>1, <2>1, <1>2, <1>4, Zenon
  <2> QED
    BY <2>2, <2>3, Zenon
<1>7. ASSUME NEW x, x \in ToSet(s) \/ x \in ToSet(t) PROVE x \in ToSet(r)
  BY <1>7, <1>2, <1>3, <1>4, Zenon
<1> QED
  BY <1>6, <1>7, Zenon DEF r

-------------------------------------------------------------------------------
(* The line from the engine to the session.                                *)

\* In the order of the resets, and each result after the reset of its generation.
Ordered(s) ==
  \A i, j \in 1 .. Len(s) :
    s[i].type = "reset" /\ s[j].type = "reset" /\ i < j => s[i].generation < s[j].generation
Heralded(s, g) ==
  \A i \in 1 .. Len(s) : IsResult(s[i]) =>
    \/ s[i].generation <= g
    \/ \E j \in 1 .. i - 1 : s[j].type = "reset" /\ s[j].generation = s[i].generation

\* Nothing of the given types enters or leaves a line that was s and is t.
Calm(s, t, types) ==
  \/ \E o \in Seq(EventSet) : t = s \o o /\ \A x \in ToSet(o) : x.type \notin types
  \/ s # <<>> /\ t = Tail(s) /\ Head(s).type \notin types

Alike(s, t, S) == (Free(s, S) <=> Free(t, S)) /\ (Single(s, S) => Single(t, S))

\* A line that only grew by events of other types carries the same events
\* of the given types, in the same order.
LEMMA CalmAlike ==
  ASSUME NEW s \in Seq(EventSet), NEW t, NEW types, Calm(s, t, types)
  PROVE  /\ t \in Seq(EventSet)
         /\ \A x : x.type \in types => (x \in ToSet(t) <=> x \in ToSet(s))
         /\ \A S : (\A x \in S : x.type \in types) => Alike(s, t, S)
<1>1. CASE \E o \in Seq(EventSet) : t = s \o o /\ \A x \in ToSet(o) : x.type \notin types
  <2>1. PICK o \in Seq(EventSet) : t = s \o o /\ \A x \in ToSet(o) : x.type \notin types
    BY <1>1, Zenon
  <2>2. t \in Seq(EventSet)
    BY <2>1
  <2>3. \A x : x \in ToSet(t) <=> x \in ToSet(s) \/ x \in ToSet(o)
    BY <2>1, ElementsJoin, Zenon
  <2>4. ASSUME NEW S, \A x \in S : x.type \in types PROVE Alike(s, t, S)
    <3>1. Free(o, S)
      <4>1. \A x : x \in ToSet(o) <=> \E j \in 1 .. Len(o) : o[j] = x
        BY <2>1, Elements, Zenon
      <4> QED
        BY <4>1, <2>1, <2>4, Zenon DEF Free
    <3>2. Single(o, S)
      BY <3>1, FreeSingle, Zenon
    <3>3. /\ Free(s \o o, S) <=> Free(s, S) /\ Free(o, S)
          /\ Single(s \o o, S) <=> Single(s, S) /\ Single(o, S) /\ (Free(s, S) \/ Free(o, S))
      BY ListJoin, Zenon
    <3> QED
      BY <2>1, <3>1, <3>2, <3>3, Zenon DEF Alike
  <2> QED
    BY <2>1, <2>2, <2>3, <2>4, Zenon
<1>2. CASE s # <<>> /\ t = Tail(s) /\ Head(s).type \notin types
  <2>1. t \in Seq(EventSet)
    BY <1>2
  <2>2. \A x : x \in ToSet(s) <=> x = Head(s) \/ x \in ToSet(t)
    BY <1>2, ElementsTail, Zenon
  <2>3. ASSUME NEW S, \A x \in S : x.type \in types PROVE Alike(s, t, S)
    <3>1. /\ Free(s, S) <=> Head(s) \notin S /\ Free(Tail(s), S)
          /\ Single(s, S) => Single(Tail(s), S) /\ (Head(s) \in S => Free(Tail(s), S))
      BY <1>2, ListTail, Zenon
    <3> QED
      BY <3>1, <2>3, <1>2, Zenon DEF Alike
  <2> QED
    BY <1>2, <2>1, <2>2, <2>3, Zenon
<1> QED
  BY <1>1, <1>2, Zenon DEF Calm

\* Resets and results have a generation.
LEMMA EventTypes ==
  /\ \A x \in EventSet : x.type \in {"reset", "names", "index", "symbols", "located"}
       => x.generation \in Nat
  /\ \A x \in EventSet : IsResult(x) =>
       /\ x.generation \in Nat /\ x.attempted \in SUBSET Uris /\ x.found \in [Uris -> Findings]
       /\ x.conclusive \in BOOLEAN
  /\ \A x \in EventSet : x.type = "located" =>
       x.attempted \in SUBSET Classes /\ x.found \in SUBSET Classes
  /\ \A x \in EventSet : x.type = "complete" => x.version \in Nat /\ x.pending \in BOOLEAN
<1>1. \A x \in EventSet : x.type \in {"reset", "names", "index", "symbols", "located"}
        => x.generation \in Nat
  BY DEF EventSet
<1>2. \A x \in EventSet : IsResult(x) =>
       /\ x.generation \in Nat /\ x.attempted \in SUBSET Uris /\ x.found \in [Uris -> Findings]
  BY DEF EventSet, IsResult
<1>3. \A x \in EventSet : IsResult(x) => x.conclusive \in BOOLEAN
  BY DEF EventSet, IsResult
<1>4. \A x \in EventSet : x.type = "located" =>
       x.attempted \in SUBSET Classes /\ x.found \in SUBSET Classes
  BY DEF EventSet
<1>5. \A x \in EventSet : x.type = "complete" => x.version \in Nat
  BY DEF EventSet
<1>6. \A x \in EventSet : x.type = "complete" => x.pending \in BOOLEAN
  BY DEF EventSet
<1> QED
  BY <1>1, <1>2, <1>3, <1>4, <1>5, <1>6, Zenon

\* The first event is handled.
LEMMA OrderedTail ==
  ASSUME NEW s \in Seq(EventSet), s # <<>>, Ordered(s)
  PROVE  /\ Ordered(Tail(s))
         /\ Head(s).type = "reset" =>
              \A x \in ToSet(Tail(s)) : x.type = "reset" => Head(s).generation < x.generation
<1>1. /\ Head(s) = s[1] /\ Len(s) \in Nat \ {0} /\ Len(Tail(s)) = Len(s) - 1
      /\ Tail(s) \in Seq(EventSet) /\ \A i \in 1 .. Len(s) - 1 : Tail(s)[i] = s[i + 1]
  BY TailOf, Zenon
<1>2. \A i \in 1 .. Len(Tail(s)) : i + 1 \in 1 .. Len(s) /\ Tail(s)[i] = s[i + 1] /\ 1 < i + 1
  BY <1>1
<1>3. Ordered(Tail(s))
  <2>1. SUFFICES ASSUME NEW i \in 1 .. Len(Tail(s)), NEW j \in 1 .. Len(Tail(s)),
                        Tail(s)[i].type = "reset", Tail(s)[j].type = "reset", i < j
                 PROVE  Tail(s)[i].generation < Tail(s)[j].generation
    BY Zenon DEF Ordered
  <2>2. i + 1 < j + 1
    BY <2>1
  <2>3. PICK k \in 1 .. Len(s), l \in 1 .. Len(s) :
          k < l /\ Tail(s)[i] = s[k] /\ Tail(s)[j] = s[l]
    BY <2>1, <2>2, <1>2, Zenon
  <2> QED
    BY <2>1, <2>3, Zenon DEF Ordered
<1>4. ASSUME Head(s).type = "reset", NEW x \in ToSet(Tail(s)), x.type = "reset"
      PROVE  Head(s).generation < x.generation
  <2>1. PICK i \in 1 .. Len(Tail(s)) : Tail(s)[i] = x
    BY <1>1, <1>4, Elements, Zenon
  <2>2. PICK k \in 1 .. Len(s) : 1 < k /\ s[k] = x
    BY <2>1, <1>2, Zenon
  <2>3. 1 \in 1 .. Len(s)
    BY <1>1
  <2> QED
    BY <2>2, <2>3, <1>1, <1>4, Zenon DEF Ordered
<1> QED
  BY <1>3, <1>4, Zenon

\* Taking the first event off the line keeps every result that remains
\* behind the reset of its generation, or in the session's generation.
LEMMA HeraldedTail ==
  ASSUME NEW s \in Seq(EventSet), s # <<>>, NEW g \in Nat, NEW h \in Nat, Heralded(s, g), g <= h,
         Head(s).type = "reset" => Head(s).generation = h
  PROVE  Heralded(Tail(s), h)
<1>1. /\ Head(s) = s[1] /\ Len(s) \in Nat \ {0} /\ Len(Tail(s)) = Len(s) - 1
      /\ Tail(s) \in Seq(EventSet) /\ \A i \in 1 .. Len(s) - 1 : Tail(s)[i] = s[i + 1]
  BY TailOf, Zenon
<1>2. SUFFICES ASSUME NEW i \in 1 .. Len(Tail(s)), IsResult(Tail(s)[i])
               PROVE  \/ Tail(s)[i].generation <= h
                      \/ \E j \in 1 .. i - 1 : /\ Tail(s)[j].type = "reset"
                                               /\ Tail(s)[j].generation = Tail(s)[i].generation
  BY Zenon DEF Heralded
<1>3. i + 1 \in 1 .. Len(s) /\ Tail(s)[i] = s[i + 1] /\ i + 1 - 1 = i
  BY <1>1
<1>4. PICK x \in EventSet : x = Tail(s)[i]
  BY <1>1, <1>2
<1>5. IsResult(x) /\ x.generation \in Nat
  BY <1>2, <1>4, EventTypes, Zenon
<1>6. x.generation <= g \/ \E j \in 1 .. i : s[j].type = "reset" /\ s[j].generation = x.generation
  <2>1. PICK k \in 1 .. Len(s) : k = i + 1 /\ s[k] = x /\ k - 1 = i
    BY <1>3, <1>4
  <2>2. x.generation <= g \/ \E j \in 1 .. k - 1 :
          s[j].type = "reset" /\ s[j].generation = x.generation
    BY <2>1, <1>5, Zenon DEF Heralded
  <2> QED
    BY <2>1, <2>2, Zenon
<1>7. CASE x.generation <= g
  <2>1. x.generation <= h
    BY <1>5, <1>7
  <2> QED
    BY <2>1, <1>4, Zenon
<1>8. ASSUME NEW j \in 1 .. i, s[j].type = "reset", s[j].generation = x.generation
      PROVE  \/ x.generation <= h
             \/ \E k \in 1 .. i - 1 : /\ Tail(s)[k].type = "reset"
                                      /\ Tail(s)[k].generation = x.generation
  <2>1. CASE j = 1
    <3>1. x.generation = h
      BY <2>1, <1>1, <1>8, Zenon
    <3> QED
      BY <3>1
  <2>2. CASE j # 1
    <3>1. PICK k \in 1 .. i - 1 : Tail(s)[k] = s[j]
      <4>1. j - 1 \in 1 .. i - 1 /\ j - 1 \in 1 .. Len(s) - 1 /\ j - 1 + 1 = j
        BY <1>8, <2>2, <1>1
      <4>2. Tail(s)[j - 1] = s[j - 1 + 1]
        BY <1>1, <4>1
      <4> QED
        BY <4>1, <4>2
    <3> QED
      BY <3>1, <1>8, Zenon
  <2> QED
    BY <2>1, <2>2, Zenon
<1> QED
  BY <1>4, <1>6, <1>7, <1>8, Zenon

\* Events are added at the end.
LEMMA OrderedJoin ==
  ASSUME NEW s \in Seq(EventSet), NEW o \in Seq(EventSet), Ordered(s), Ordered(o),
         \A x \in ToSet(s), y \in ToSet(o) :
           x.type = "reset" /\ y.type = "reset" => x.generation < y.generation
  PROVE  Ordered(s \o o)
<1> DEFINE r == s \o o
<1>1. /\ r \in Seq(EventSet) /\ Len(r) = Len(s) + Len(o)
      /\ Len(s) \in Nat /\ Len(o) \in Nat
      /\ \A i \in 1 .. Len(s) : r[i] = s[i]
      /\ \A i \in 1 .. Len(o) : r[Len(s) + i] = o[i]
  BY ConcatOf
<1> HIDE DEF r
<1>2. /\ \A x : x \in ToSet(s) <=> \E j \in 1 .. Len(s) : s[j] = x
      /\ \A x : x \in ToSet(o) <=> \E j \in 1 .. Len(o) : o[j] = x
  BY Elements, Zenon
<1>3. \A i \in 1 .. Len(r) : \/ i \in 1 .. Len(s) /\ r[i] = s[i]
                             \/ i - Len(s) \in 1 .. Len(o) /\ r[i] = o[i - Len(s)]
  <2>1. ASSUME NEW i \in 1 .. Len(r), i \notin 1 .. Len(s)
        PROVE  i - Len(s) \in 1 .. Len(o) /\ r[i] = o[i - Len(s)]
    <3>1. i - Len(s) \in 1 .. Len(o) /\ Len(s) + (i - Len(s)) = i
      BY <2>1, <1>1
    <3> QED
      BY <3>1, <1>1
  <2> QED
    BY <2>1, <1>1
<1>4. ASSUME NEW i \in 1 .. Len(r), NEW j \in 1 .. Len(r),
             r[i].type = "reset", r[j].type = "reset", i < j
      PROVE  r[i].generation < r[j].generation
  <2>1. CASE i \in 1 .. Len(s) /\ j \in 1 .. Len(s)
    BY <2>1, <1>1, <1>4, Zenon DEF Ordered
  <2>2. CASE i \in 1 .. Len(s) /\ j \notin 1 .. Len(s)
    <3>1. r[i] = s[i] /\ r[i] \in ToSet(s)
      BY <2>2, <1>1, <1>2, Zenon
    <3>2. j - Len(s) \in 1 .. Len(o) /\ r[j] = o[j - Len(s)]
      BY <2>2, <1>3
    <3>3. r[j] \in ToSet(o)
      BY <3>2, <1>2
    <3> QED
      BY <3>1, <3>3, <1>4, Zenon
  <2>3. CASE i \notin 1 .. Len(s)
    <3>1. PICK k \in 1 .. Len(o), l \in 1 .. Len(o) :
            k = i - Len(s) /\ l = j - Len(s) /\ r[i] = o[k] /\ r[j] = o[l]
      <4>1. j \notin 1 .. Len(s)
        BY <2>3, <1>1, <1>4
      <4> QED
        BY <4>1, <2>3, <1>3
    <3>2. k < l
      BY <3>1, <1>1, <1>4
    <3> QED
      BY <3>1, <3>2, <1>4, Zenon DEF Ordered
  <2> QED
    BY <2>1, <2>2, <2>3, Zenon
<1> QED
  BY <1>4, Zenon DEF Ordered, r

\* Events put at the end of the line are heralded when their generation is
\* the session's or that of a reset already on the line.
LEMMA HeraldedJoin ==
  ASSUME NEW s \in Seq(EventSet), NEW o \in Seq(EventSet), NEW g, Heralded(s, g),
         \A x \in ToSet(o) : IsResult(x) =>
           x.generation <= g \/ \E y \in ToSet(s) : y.type = "reset" /\ y.generation = x.generation
  PROVE  Heralded(s \o o, g)
<1> DEFINE r == s \o o
<1>1. /\ r \in Seq(EventSet) /\ Len(r) = Len(s) + Len(o)
      /\ Len(s) \in Nat /\ Len(o) \in Nat
      /\ \A i \in 1 .. Len(s) : r[i] = s[i]
      /\ \A i \in 1 .. Len(o) : r[Len(s) + i] = o[i]
  BY ConcatOf
<1> HIDE DEF r
<1>2. /\ \A x : x \in ToSet(s) <=> \E j \in 1 .. Len(s) : s[j] = x
      /\ \A x : x \in ToSet(o) <=> \E j \in 1 .. Len(o) : o[j] = x
  BY Elements, Zenon
<1>3. ASSUME NEW i \in 1 .. Len(r), IsResult(r[i])
      PROVE  r[i].generation <= g \/ \E j \in 1 .. i - 1 :
               r[j].type = "reset" /\ r[j].generation = r[i].generation
  <2>1. CASE i \in 1 .. Len(s)
    <3>1. r[i] = s[i]
      BY <2>1, <1>1
    <3>2. s[i].generation <= g \/ \E j \in 1 .. i - 1 :
            s[j].type = "reset" /\ s[j].generation = s[i].generation
      BY <2>1, <3>1, <1>3, Zenon DEF Heralded
    <3>3. \A j \in 1 .. i - 1 : r[j] = s[j]
      BY <2>1, <1>1
    <3> QED
      BY <3>1, <3>2, <3>3, Zenon
  <2>2. CASE i \notin 1 .. Len(s)
    <3>1. i - Len(s) \in 1 .. Len(o) /\ Len(s) + (i - Len(s)) = i
      BY <2>2, <1>1
    <3>2. r[i] = o[i - Len(s)]
      BY <3>1, <1>1
    <3>3. r[i] \in ToSet(o)
      BY <3>1, <3>2, <1>2
    <3>4. CASE \E y \in ToSet(s) : y.type = "reset" /\ y.generation = r[i].generation
      <4>0. PICK y \in ToSet(s) : y.type = "reset" /\ y.generation = r[i].generation
        BY <3>4, Zenon
      <4>1. PICK j \in 1 .. Len(s) : s[j].type = "reset" /\ s[j].generation = r[i].generation
        <5>1. PICK j \in 1 .. Len(s) : s[j] = y
          BY <4>0, <1>2, Zenon
        <5> QED
          BY <5>1, <4>0, Zenon
      <4>2. j \in 1 .. i - 1 /\ r[j] = s[j]
        BY <4>1, <2>2, <1>1
      <4> QED
        BY <4>1, <4>2, Zenon
    <3> QED
      BY <3>3, <3>4, <1>3, Zenon
  <2> QED
    BY <2>1, <2>2, Zenon
<1> QED
  BY <1>3, Zenon DEF Heralded, r

\* What the order says after a step that concerns neither resets nor results.
LEMMA CalmOrder ==
  ASSUME NEW s \in Seq(EventSet), NEW t
  PROVE  /\ Ordered(s) /\ Calm(s, t, {"reset"}) => Ordered(t)
         /\ \A g \in Nat : Heralded(s, g) /\ Calm(s, t, {"reset", "index", "symbols"})
              => Heralded(t, g)
<1>1. ASSUME NEW o \in Seq(EventSet), t = s \o o, \A x \in ToSet(o) : x.type # "reset", Ordered(s)
      PROVE  Ordered(t)
  <2>1. Ordered(o)
    <3>1. \A x : x \in ToSet(o) <=> \E j \in 1 .. Len(o) : o[j] = x
      BY Elements, Zenon
    <3> QED
      BY <3>1, <1>1, Zenon DEF Ordered
  <2> QED
    BY <1>1, <2>1, OrderedJoin, Zenon
<1>2. Ordered(s) /\ Calm(s, t, {"reset"}) => Ordered(t)
  <2>1. SUFFICES ASSUME Ordered(s), Calm(s, t, {"reset"}) PROVE Ordered(t)
    OBVIOUS
  <2>2. CASE s # <<>> /\ t = Tail(s)
    BY <2>1, <2>2, OrderedTail, Zenon
  <2>3. CASE \E o \in Seq(EventSet) : t = s \o o /\ \A x \in ToSet(o) : x.type \notin {"reset"}
    <3>1. PICK o \in Seq(EventSet) : t = s \o o /\ \A x \in ToSet(o) : x.type # "reset"
      BY <2>3, Zenon
    <3> QED
      BY <3>1, <2>1, <1>1, Zenon
  <2> QED
    BY <2>1, <2>2, <2>3, Zenon DEF Calm
<1>3. ASSUME NEW g \in Nat, Heralded(s, g), Calm(s, t, {"reset", "index", "symbols"})
      PROVE  Heralded(t, g)
  <2>2. CASE s # <<>> /\ t = Tail(s) /\ Head(s).type \notin {"reset", "index", "symbols"}
    <3>1. g <= g /\ Head(s).type # "reset"
      BY <2>2
    <3> QED
      BY <3>1, <2>2, <1>3, HeraldedTail, Zenon
  <2>3. CASE \E o \in Seq(EventSet) :
               t = s \o o /\ \A x \in ToSet(o) : x.type \notin {"reset", "index", "symbols"}
    <3>1. PICK o \in Seq(EventSet) : t = s \o o /\ \A x \in ToSet(o) : ~ IsResult(x)
      BY <2>3, Zenon DEF IsResult
    <3> QED
      BY <3>1, <1>3, HeraldedJoin, Zenon
  <2> QED
    BY <1>3, <2>2, <2>3, Zenon DEF Calm
<1> QED
  BY <1>2, <1>3, Zenon

-------------------------------------------------------------------------------
(* The parts of a step: what becomes of the line, of the session's marks   *)
(* and of the commands it has queued.                                      *)

\* What is on the line is in transit.
LEMMA Transit ==
  ASSUME NEW a \in Seq(EventSet), NEW b \in Seq(EventSet)
  PROVE  /\ a \o b \in Seq(EventSet)
         /\ \A x : x \in ToSet(b) \union ToSet(a) <=> x \in ToSet(a \o b)
         /\ ToSet(a) \subseteq EventSet /\ ToSet(b) \subseteq EventSet
<1>1. a \o b \in Seq(EventSet)
  OBVIOUS
<1>2. \A x : x \in ToSet(a \o b) <=> x \in ToSet(a) \/ x \in ToSet(b)
  BY ElementsJoin, Zenon
<1>3. ToSet(a) \subseteq EventSet /\ ToSet(b) \subseteq EventSet
  BY Elements, Zenon
<1> QED
  BY <1>1, <1>2, <1>3, Zenon

\* The line before a step and after it.
LEMMA LineNow ==
  ASSUME LineShape
  PROVE  /\ Line \in Seq(EventSet) /\ InTransit \subseteq EventSet
         /\ \A x : x \in InTransit <=> x \in ToSet(Line)
<1>1. outbox \in Seq(EventSet) /\ events \in Seq(EventSet)
  BY Zenon DEF LineShape
<1> QED
  BY <1>1, Transit, Zenon DEF Line, InTransit

\* After a step, too, what is in transit is what the line carries.
LEMMA LineNext ==
  ASSUME LineShape'
  PROVE  /\ Line' \in Seq(EventSet) /\ InTransit' \subseteq EventSet
         /\ \A x : x \in InTransit' <=> x \in ToSet(Line')
<1>1. outbox' \in Seq(EventSet) /\ events' \in Seq(EventSet)
  BY Zenon DEF LineShape
<1>2. /\ events' \o outbox' \in Seq(EventSet)
      /\ \A x : x \in ToSet(outbox') \union ToSet(events') <=> x \in ToSet(events' \o outbox')
      /\ ToSet(events') \subseteq EventSet /\ ToSet(outbox') \subseteq EventSet
  BY <1>1, Transit, Zenon
<1> QED
  BY <1>2, Zenon DEF Line, InTransit

(* An event is sent: the line stays as it is.  The engine has sent all of  *)
(* the last command: what it raises is put at the end.  The session takes  *)
(* the first.                                                              *)
LEMMA LineStep ==
  ASSUME LineShape
  PROVE  /\ UNCHANGED <<events, outbox>> => Line' = Line
         /\ Send => Line' = Line
         /\ outbox = <<>> => Line = events
         /\ outbox = <<>> /\ events' = events /\ outbox' \in Seq(EventSet)
              => Line' = Line \o outbox'
         /\ events # <<>> /\ events' = Tail(events) /\ outbox' = outbox
              => Line # <<>> /\ Head(Line) = Head(events) /\ Line' = Tail(Line)
<1>1. outbox \in Seq(EventSet) /\ events \in Seq(EventSet)
  BY Zenon DEF LineShape
<1>2. UNCHANGED <<events, outbox>> => Line' = Line
  BY Zenon DEF Line
<1>3. ASSUME Send PROVE Line' = Line
  <2>1. outbox # <<>> /\ events' = Append(events, Head(outbox)) /\ outbox' = Tail(outbox)
    BY <1>3, Zenon DEF Send
  <2>2. PICK a \in Seq(EventSet), b \in Seq(EventSet) : a = events /\ b = outbox
    BY <1>1, Zenon
  <2>3. b # <<>> => Append(a, Head(b)) \o Tail(b) = a \o b
    OBVIOUS
  <2> QED
    BY <2>1, <2>2, <2>3, Zenon DEF Line
<1>4. outbox = <<>> => Line = events
  BY <1>1 DEF Line
<1>5. ASSUME events # <<>>, events' = Tail(events), outbox' = outbox
      PROVE  Line # <<>> /\ Head(Line) = Head(events) /\ Line' = Tail(Line)
  <2>2. PICK a \in Seq(EventSet), b \in Seq(EventSet) : a = events /\ b = outbox
    BY <1>1, Zenon
  <2>3. a # <<>> => a \o b # <<>> /\ Head(a \o b) = Head(a) /\ Tail(a \o b) = Tail(a) \o b
    OBVIOUS
  <2> QED
    BY <1>5, <2>2, <2>3, Zenon DEF Line
<1>6. outbox = <<>> /\ events' = events /\ outbox' \in Seq(EventSet) => Line' = Line \o outbox'
  BY <1>4, Zenon DEF Line
<1> QED
  BY <1>2, <1>3, <1>4, <1>5, <1>6, Zenon

\* The events that the invariants are about.
Loud == {"complete", "located", "names", "reset", "index", "symbols"}

\* A line is calm for fewer types if it is for more.
LEMMA CalmLess ==
  ASSUME NEW s, NEW t, NEW A, NEW B, Calm(s, t, A), B \subseteq A
  PROVE  Calm(s, t, B)
BY Zenon DEF Calm

\* Nothing enters a line that stays as it is.
LEMMA CalmStill ==
  ASSUME NEW s \in Seq(EventSet), NEW types
  PROVE  Calm(s, s, types)
<1>1. s \o <<>> = s /\ <<>> \in Seq(EventSet)
  OBVIOUS
<1>2. ToSet(<<>>) = {}
  <2>1. \A x : x \in ToSet(<<>>) <=> \E j \in 1 .. Len(<<>>) : <<>>[j] = x
    BY <1>1, Elements, Zenon
  <2>2. 1 .. Len(<<>>) = {}
    OBVIOUS
  <2> QED
    BY <2>1, <2>2, Zenon
<1> QED
  BY <1>1, <1>2, Zenon DEF Calm

\* Commands of other kinds have been put at the end of p.
Extended(p, r) ==
  /\ Len(p) <= Len(r)
  /\ \A i \in 1 .. Len(r) : IF i <= Len(p) THEN r[i].kind = p[i].kind
                                          ELSE r[i].kind \notin {"root", "analyze"}

\* What submit_pending_analysis makes of a queue q and the marks a.
Submitted(q, a) ==
  /\ queue' \in Queues /\ SameBackground(q, queue') /\ queue'.locations = q.locations
  /\ analysis' \in Markers /\ (analysis'.ready <=> a.ready)
  /\ \/ queue' = q /\ (analysis'.inFlight <=> a.inFlight)
     \/ /\ a.ready /\ ~ a.inFlight /\ analysis'.inFlight
        /\ \E v \in Nat, x \in Seq(Commands) :
             /\ queue'.pending = Append(x, [kind |-> "analyze", version |-> v])
             /\ \A i \in 1 .. Len(x) : x[i].kind # "analyze"
             /\ \A i \in 1 .. Len(x) :
                  \E j \in 1 .. Len(q.pending) : x[i].kind = q.pending[j].kind

\* A step of the session ends so, having changed no more than pending.
Fed(a) ==
  \E q \in Queues : /\ Extended(queue.pending, q.pending) /\ SameBackground(queue, q)
                    /\ q.locations = queue.locations /\ Submitted(q, a)

\* The analysis is submitted, or not.
LEMMA SubmitEffect ==
  ASSUME NEW q \in Queues, ~ q.disconnected, NEW a \in Markers, NEW v \in Nat, Submit(q, a, v)
  PROVE  Submitted(q, a)
<1>1. CASE a.dirty /\ a.ready /\ ~ a.inFlight
  <2> DEFINE r == EnqueueAnalyze(q, v)
  <2>1. analysis' = [a EXCEPT !.dirty = FALSE, !.inFlight = TRUE] /\ queue' = r
    BY <1>1, Zenon DEF Submit
  <2>2. /\ r \in Queues /\ SameBackground(q, r) /\ r.locations = q.locations
        /\ \E x \in Seq(Commands) :
             /\ r.pending = Append(x, [kind |-> "analyze", version |-> v])
             /\ \A i \in 1 .. Len(x) : x[i].kind # "analyze"
             /\ \A i \in 1 .. Len(x) :
                  \E j \in 1 .. Len(q.pending) : x[i].kind = q.pending[j].kind
    BY AnalyzeQueued, Zenon
  <2>3. analysis' \in Markers
    BY <2>1 DEF Markers
  <2>4. (analysis'.ready <=> a.ready) /\ analysis'.inFlight
    BY <2>1, Zenon DEF Markers
  <2> HIDE DEF r
  <2> QED
    BY <1>1, <2>1, <2>2, <2>3, <2>4, Zenon DEF Submitted
<1>2. CASE ~ (a.dirty /\ a.ready /\ ~ a.inFlight)
  <2>1. analysis' = a /\ queue' = q
    BY <1>2, Zenon DEF Submit
  <2>2. SameBackground(q, q)
    BY Zenon DEF SameBackground
  <2> QED
    BY <2>1, <2>2, Zenon DEF Submitted
<1> QED
  BY <1>1, <1>2, Zenon

\* A queue is an extension of itself.
LEMMA ExtendedSelf ==
  ASSUME NEW q \in Queues
  PROVE  Extended(q.pending, q.pending) /\ SameBackground(q, q)
<1>1. Len(q.pending) \in Nat
  <2>1. q.pending \in Seq(Commands)
    BY QueueFields, Zenon
  <2> QED
    BY <2>1
<1>2. Len(q.pending) <= Len(q.pending) /\ \A i \in 1 .. Len(q.pending) : i <= Len(q.pending)
  BY <1>1
<1> QED
  BY <1>2, Zenon DEF Extended, SameBackground

\* A request or a project change is put at the end.
LEMMA ExtendedBy ==
  ASSUME NEW q \in Queues
  PROVE  /\ \A n \in Nat : Extended(q.pending, EnqueueRequest(q, n).pending)
         /\ \A S \in SUBSET (Uris \union {BuildFile}) :
              Extended(q.pending, EnqueueChange(q, Change(FALSE, FALSE, S)).pending)
<1>1. q.pending \in Seq(Commands) /\ Len(q.pending) \in Nat
  <2>1. q.pending \in Seq(Commands)
    BY QueueFields, Zenon
  <2> QED
    BY <2>1
<1>2. ASSUME NEW n \in Nat PROVE Extended(q.pending, EnqueueRequest(q, n).pending)
  <2> DEFINE p == q.pending
             c == [kind |-> "request", token |-> n]
             r == EnqueueRequest(q, n)
  <2>1. r.pending = Append(p, c)
    BY RequestQueued, Zenon
  <2>2. c.kind = "request"
    OBVIOUS
  <2> HIDE DEF r, p, c
  <2>3. p \in Seq(Commands)
    BY <1>1, Zenon DEF p
  <2>4. /\ Len(r.pending) = Len(p) + 1 /\ r.pending[Len(p) + 1] = c
        /\ \A i \in 1 .. Len(p) : r.pending[i] = p[i]
    BY <2>1, <2>3
  <2>5. Extended(p, r.pending)
    BY <2>2, <2>3, <2>4 DEF Extended
  <2> QED
    BY <2>5, Zenon DEF r, p
<1>3. ASSUME NEW S \in SUBSET (Uris \union {BuildFile})
      PROVE  Extended(q.pending, EnqueueChange(q, Change(FALSE, FALSE, S)).pending)
  <2> DEFINE r == EnqueueChange(q, Change(FALSE, FALSE, S))
             p == q.pending
  <2>1. /\ r \in Queues /\ SameBackground(q, r) /\ r.locations = q.locations
        /\ Len(r.pending) \in {Len(q.pending), Len(q.pending) + 1}
        /\ \A i \in 1 .. Len(r.pending) :
             IF i <= Len(q.pending)
             THEN /\ r.pending[i].kind = q.pending[i].kind
                  /\ q.pending[i].kind # "change" => r.pending[i] = q.pending[i]
             ELSE r.pending[i].kind = "change"
    BY ChangeQueued, Zenon
  <2> HIDE DEF r
  <2>2. Len(q.pending) <= Len(r.pending)
    BY <1>1, <2>1
  <2>3. "change" \notin {"root", "analyze"}
    OBVIOUS
  <2> QED
    BY <2>1, <2>2, <2>3, Zenon DEF Extended, r
<1> QED
  BY <1>2, <1>3, Zenon

\* What is done to the session's commands brings no root, and leaves the queues.
LEMMA FedKinds ==
  ASSUME queue \in Queues, NEW a, Fed(a)
  PROVE  /\ queue' \in Queues /\ SameBackground(queue, queue')
         /\ queue'.locations = queue.locations
         /\ analysis' \in Markers /\ (analysis'.ready <=> a.ready)
         /\ RootWaits' => RootWaits
         /\ ~ a.ready => /\ Extended(queue.pending, queue'.pending)
                         /\ analysis'.inFlight <=> a.inFlight
<1>1. PICK q \in Queues :
        /\ Extended(queue.pending, q.pending) /\ SameBackground(queue, q)
        /\ q.locations = queue.locations /\ Submitted(q, a)
  BY Zenon DEF Fed
<1>2. SameBackground(queue, queue') /\ queue'.locations = queue.locations
  BY <1>1, Zenon DEF SameBackground, Submitted
<1>3. ASSUME NEW j \in 1 .. Len(q.pending), q.pending[j].kind = "root" PROVE RootWaits
  <2>1. Len(q.pending) \in Nat /\ Len(queue.pending) \in Nat
    <3>1. q.pending \in Seq(Commands) /\ queue.pending \in Seq(Commands)
      BY QueueFields, Zenon
    <3> QED
      BY <3>1
  <2>2. IF j <= Len(queue.pending) THEN q.pending[j].kind = queue.pending[j].kind
                                   ELSE q.pending[j].kind \notin {"root", "analyze"}
    BY <1>1, <1>3, Zenon DEF Extended
  <2>3. j <= Len(queue.pending)
    BY <2>2, <1>3
  <2>4. j \in 1 .. Len(queue.pending)
    BY <2>1, <2>3
  <2> QED
    BY <2>2, <2>3, <2>4, <1>3, Zenon DEF RootWaits
<1>4. ASSUME RootWaits' PROVE RootWaits
  <2>1. PICK i \in 1 .. Len(queue'.pending) : queue'.pending[i].kind = "root"
    BY <1>4, Zenon DEF RootWaits
  <2>2. CASE queue' = q
    BY <2>1, <2>2, <1>3, Zenon
  <2>3. CASE queue' # q
    <3>1. PICK v \in Nat, x \in Seq(Commands) :
             /\ queue'.pending = Append(x, [kind |-> "analyze", version |-> v])
             /\ \A k \in 1 .. Len(x) : x[k].kind # "analyze"
             /\ \A k \in 1 .. Len(x) :
                  \E j \in 1 .. Len(q.pending) : x[k].kind = q.pending[j].kind
      BY <2>3, <1>1, Zenon DEF Submitted
    <3>2. i \in 1 .. Len(x) /\ x[i].kind = "root"
      BY <3>1, <2>1
    <3> QED
      BY <3>1, <3>2, <1>3, Zenon
  <2> QED
    BY <2>2, <2>3, Zenon
<1>5. ASSUME ~ a.ready
      PROVE  Extended(queue.pending, queue'.pending) /\ (analysis'.inFlight <=> a.inFlight)
  BY <1>1, <1>5, Zenon DEF Submitted
<1> QED
  BY <1>1, <1>2, <1>4, <1>5, Zenon DEF Submitted

\* What a handler keeps of a result is typed.
LEMMA Merged ==
  ASSUME NEW kept \in [Uris -> Findings], NEW e \in EventSet, IsResult(e)
  PROVE  Merge(kept, e) \in [Uris -> Findings]
<1>1. e.found \in [Uris -> Findings]
  BY EventTypes, Zenon
<1> QED
  BY <1>1 DEF Merge

\* What the session keeps of a result, a reset, a list of names or a located
\* class it handles.
LEMMA HandledResults ==
  ASSUME ResultShape, NEW e \in EventSet,
         e.type \in {"index", "symbols", "reset", "names", "located"}, Handle(e)
  PROVE  /\ ResultShape'
         /\ generation' = (IF e.type = "reset" THEN e.generation ELSE generation)
         /\ e.type = "reset" => /\ store' = [u \in Uris |-> Unknown]
                                /\ symbols' = [u \in Uris |-> Unknown]
                                /\ classes' = ResetClasses
         /\ store' = (IF e.type = "reset" THEN [u \in Uris |-> Unknown]
                      ELSE IF e.type = "index" THEN Merge(store, e) ELSE store)
         /\ symbols' = (IF e.type = "reset" THEN [u \in Uris |-> Unknown]
                        ELSE IF e.type = "symbols" THEN Merge(symbols, e) ELSE symbols)
         /\ e.type = "names" =>
              classes' = IF e.generation = generation THEN [ResetClasses EXCEPT !.names = Classes]
                                                      ELSE classes
         /\ e.type = "located" =>
              IF e.generation = generation
              THEN /\ classes'.requested = classes.requested \ e.attempted
                   /\ classes'.names = classes.names
              ELSE classes' = classes
         /\ e.type \in {"index", "symbols"} => classes' = classes
         /\ Submit(queue, analysis, doc.version)
         /\ UNCHANGED <<doc, parked, session>>
<1>1. /\ generation' = (IF e.type = "reset" THEN e.generation ELSE generation)
      /\ store' = (CASE e.type = "reset" -> [u \in Uris |-> Unknown]
                     [] e.type = "index" -> Merge(store, e)
                     [] OTHER -> store)
      /\ symbols' = (CASE e.type = "reset" -> [u \in Uris |-> Unknown]
                       [] e.type = "symbols" -> Merge(symbols, e)
                       [] OTHER -> symbols)
      /\ classes' \in CASE e.type = "reset" -> {ResetClasses}
                        [] e.type = "names" /\ e.generation = generation ->
                             {[ResetClasses EXCEPT !.names = Classes]}
                        [] e.type = "located" /\ e.generation = generation -> Record(e)
                        [] OTHER -> {classes}
      /\ Submit(queue, analysis, doc.version)
      /\ UNCHANGED <<doc, parked, session>>
  <2>1. /\ e.type # "complete" /\ e.type \notin {"reanalyze", "project", "ready"}
        /\ e.type \notin {"status", "globs"} /\ e.type # "answer"
    OBVIOUS
  <2> QED
    BY <2>1, Zenon DEF Handle
<1>2. /\ generation \in Nat /\ store \in [Uris -> Findings] /\ symbols \in [Uris -> Findings]
      /\ classes \in [names : SUBSET Classes, located : SUBSET Classes,
                      requested : SUBSET Classes]
  BY Zenon DEF ResultShape
<1>3. generation' \in Nat
  BY <1>1, <1>2, EventTypes, Zenon
<1>4. [u \in Uris |-> Unknown] \in [Uris -> Findings]
  BY DEF Unknown, Findings, Gone
<1>5. /\ store' = (IF e.type = "reset" THEN [u \in Uris |-> Unknown]
                   ELSE IF e.type = "index" THEN Merge(store, e) ELSE store)
      /\ symbols' = (IF e.type = "reset" THEN [u \in Uris |-> Unknown]
                     ELSE IF e.type = "symbols" THEN Merge(symbols, e) ELSE symbols)
  BY <1>1
<1>6. store' \in [Uris -> Findings] /\ symbols' \in [Uris -> Findings]
  <2>1. e.type = "index" \/ e.type = "symbols" => IsResult(e)
    BY DEF IsResult
  <2> QED
    BY <1>2, <1>4, <1>5, <2>1, Merged, Zenon
<1>7. /\ e.type = "reset" => classes' = ResetClasses
      /\ e.type = "names" => classes' = IF e.generation = generation
                                        THEN [ResetClasses EXCEPT !.names = Classes] ELSE classes
      /\ e.type = "located" => IF e.generation = generation THEN classes' \in Record(e)
                               ELSE classes' = classes
      /\ e.type \in {"index", "symbols"} => classes' = classes
  BY <1>1
<1>8. e.type = "located" /\ e.generation = generation =>
        /\ classes' \in [names : SUBSET Classes, located : SUBSET Classes,
                         requested : SUBSET Classes]
        /\ classes'.requested = classes.requested \ e.attempted
        /\ classes'.names = classes.names
  <2>1. SUFFICES ASSUME e.type = "located", e.generation = generation
                 PROVE  /\ classes' \in [names : SUBSET Classes, located : SUBSET Classes,
                                         requested : SUBSET Classes]
                        /\ classes'.requested = classes.requested \ e.attempted
                        /\ classes'.names = classes.names
    BY Zenon
  <2>2. e.attempted \in SUBSET Classes /\ e.found \in SUBSET Classes
    BY <2>1, EventTypes, Zenon
  <2>3. PICK L \in SUBSET (classes.located \union e.found) :
          classes' = [classes EXCEPT !.requested = @ \ e.attempted, !.located = L]
    BY <2>1, <1>7, Zenon DEF Record
  <2> QED
    BY <2>2, <2>3, <1>2
<1>9. classes' \in [names : SUBSET Classes, located : SUBSET Classes, requested : SUBSET Classes]
  <2>1. /\ ResetClasses \in [names : SUBSET Classes, located : SUBSET Classes,
                             requested : SUBSET Classes]
        /\ [ResetClasses EXCEPT !.names = Classes] \in
             [names : SUBSET Classes, located : SUBSET Classes, requested : SUBSET Classes]
    BY DEF ResetClasses
  <2> QED
    BY <1>2, <1>7, <1>8, <2>1, Zenon
<1>10. ResultShape'
  BY <1>3, <1>6, <1>9, Zenon DEF ResultShape
<1> QED
  BY <1>1, <1>5, <1>7, <1>8, <1>10, Zenon

\* The session's steps that submit to the queue as it is.
LEMMA FedPlain ==
  ASSUME queue \in Queues, ~ queue.disconnected, NEW a \in Markers, NEW v \in Nat,
         Submit(queue, a, v)
  PROVE  Fed(a)
<1>1. Submitted(queue, a)
  BY SubmitEffect, Zenon
<1>2. Extended(queue.pending, queue.pending) /\ SameBackground(queue, queue)
  BY ExtendedSelf, Zenon
<1> QED
  BY <1>1, <1>2, Zenon DEF Fed

\* The marks b are those of a, as far as the proofs are concerned.
SameMarks(a, b) ==
  b \in Markers /\ (b.ready <=> a.ready) /\ (b.inFlight <=> a.inFlight)

\* Marks that are set.
LEMMA MarksSet ==
  ASSUME NEW a \in Markers, NEW b \in BOOLEAN, NEW c \in BOOLEAN
  PROVE  /\ SameMarks(a, [a EXCEPT !.dirty = b]) /\ SameMarks(a, [a EXCEPT !.retry = b])
         /\ SameMarks(a, [a EXCEPT !.retry = b, !.dirty = c])
         /\ SameMarks(a, [a EXCEPT !.dirty = b, !.retry = c])
<1>1. /\ [a EXCEPT !.dirty = b] \in Markers /\ [a EXCEPT !.retry = b] \in Markers
      /\ [a EXCEPT !.retry = b, !.dirty = c] \in Markers
      /\ [a EXCEPT !.dirty = b, !.retry = c] \in Markers
  BY DEF Markers
<1>2. /\ [a EXCEPT !.dirty = b].ready <=> a.ready
      /\ [a EXCEPT !.dirty = b].inFlight <=> a.inFlight
      /\ [a EXCEPT !.retry = b].ready <=> a.ready
      /\ [a EXCEPT !.retry = b].inFlight <=> a.inFlight
  BY Zenon DEF Markers
<1>3. /\ [a EXCEPT !.retry = b, !.dirty = c].ready <=> a.ready
      /\ [a EXCEPT !.retry = b, !.dirty = c].inFlight <=> a.inFlight
      /\ [a EXCEPT !.dirty = b, !.retry = c].ready <=> a.ready
      /\ [a EXCEPT !.dirty = b, !.retry = c].inFlight <=> a.inFlight
  BY Zenon DEF Markers
<1> QED
  BY <1>1, <1>2, <1>3, Zenon DEF SameMarks

\* The session handles an event.
LEMMA HandledEvent ==
  ASSUME Shape, BeginInv, HandleEvent
  PROVE  LET e == Head(events)
         IN  /\ e \in EventSet
             /\ \E a \in Markers :
                  /\ Fed(a)
                  /\ e.type # "ready" => (a.ready <=> analysis.ready)
                  /\ a.inFlight <=> (analysis.inFlight /\ e.type # "complete")
             /\ SessionShape' /\ session'.state = session.state /\ ResultShape'
             /\ e.type \notin {"index", "symbols", "reset", "names", "located"}
                  => UNCHANGED resultVars
<1> DEFINE e == Head(events)
<1>1. Open /\ events # <<>> /\ Handle(e)
  BY Zenon DEF HandleEvent
<1>2. queue \in Queues /\ ~ queue.disconnected
  BY <1>1, Zenon DEF Shape, BeginInv, Open
<1>3. e \in EventSet
  <2>1. events \in Seq(EventSet)
    BY Zenon DEF Shape, LineShape
  <2> QED
    BY <1>1, <2>1
<1>4. /\ doc \in [version : Nat, analyzed : Nat] /\ analysis \in Markers
      /\ parked \in [waiting : SUBSET Nat, asked : Nat] /\ ResultShape
      /\ session \in [state : {"new", "open", "closed"}, watching : BOOLEAN, token : BOOLEAN]
  BY Zenon DEF Shape, SessionShape
<1>5. doc.version \in Nat
  BY <1>4
<1> HIDE DEF e
<1> DEFINE Marked(a) == /\ a \in Markers /\ Submit(queue, a, doc.version)
                        /\ e.type # "ready" => (a.ready <=> analysis.ready)
                        /\ a.inFlight <=> (analysis.inFlight /\ e.type # "complete")
<1>6. SUFFICES /\ \E a : Marked(a)
               /\ doc' \in [version : Nat, analyzed : Nat]
               /\ parked' \in [waiting : SUBSET Nat, asked : Nat]
               /\ session' \in [state : {"new", "open", "closed"}, watching : BOOLEAN,
                                token : BOOLEAN]
               /\ session'.state = session.state /\ ResultShape'
               /\ e.type \notin {"index", "symbols", "reset", "names", "located"}
                    => UNCHANGED resultVars
  <2>1. PICK a : Marked(a)
    BY <1>6, Zenon
  <2>2. Fed(a)
    BY <2>1, <1>2, <1>5, FedPlain, Zenon
  <2>3. analysis' \in Markers
    BY <2>2, <1>2, FedKinds, Zenon
  <2> QED
    BY <1>3, <1>6, <2>1, <2>2, <2>3, Zenon DEF SessionShape, e
<1>7. UNCHANGED resultVars => ResultShape'
  BY <1>4, Zenon DEF ResultShape, resultVars
<1>8. CASE e.type = "complete"
  <2>1. Apply(e) /\ UNCHANGED <<resultVars, parked, session>>
    <3>1. /\ e.type \notin {"reanalyze", "project", "ready"} /\ e.type # "answer"
          /\ e.type \notin {"status", "globs"}
          /\ e.type \notin {"index", "symbols", "reset", "names", "located"}
      BY <1>8
    <3> QED
      BY <3>1, <1>1, Zenon DEF Handle
  <2>2. e.version \in Nat
    BY <1>3, <1>8, EventTypes, Zenon
  <2>3. doc' \in [version : Nat, analyzed : Nat]
    <3>1. doc' = doc \/ doc' = [doc EXCEPT !.analyzed = e.version]
      BY <2>1, Zenon DEF Apply
    <3> QED
      BY <3>1, <2>2, <1>4
  <2>4. \E a : Marked(a)
    <3> DEFINE stale == e.version # 0 /\ e.version # doc.version
               b == [analysis EXCEPT !.inFlight = FALSE]
    <3>1. b \in Markers /\ (b.ready <=> analysis.ready) /\ ~ b.inFlight
      <4>1. b \in Markers
        BY <1>4 DEF Markers
      <4>2. (b.ready <=> analysis.ready) /\ ~ b.inFlight
        BY <1>4, Zenon DEF Markers
      <4> QED
        BY <4>1, <4>2, Zenon
    <3>2. Submit(queue, CASE stale   -> [b EXCEPT !.dirty = TRUE]
                          [] e.pending /\ ~stale -> [b EXCEPT !.dirty = FALSE, !.retry = TRUE]
                          [] OTHER   -> [b EXCEPT !.retry = FALSE], doc.version)
      BY <2>1, Zenon DEF Apply
    <3> HIDE DEF b, stale
    <3>3. \E a \in {[b EXCEPT !.dirty = TRUE], [b EXCEPT !.dirty = FALSE, !.retry = TRUE],
                    [b EXCEPT !.retry = FALSE]} : Submit(queue, a, doc.version)
      <4>1. \/ Submit(queue, [b EXCEPT !.dirty = TRUE], doc.version)
            \/ Submit(queue, [b EXCEPT !.dirty = FALSE, !.retry = TRUE], doc.version)
            \/ Submit(queue, [b EXCEPT !.retry = FALSE], doc.version)
        BY <3>2, Zenon
      <4> QED
        BY <4>1, Zenon
    <3>4. PICK a : /\ Submit(queue, a, doc.version)
                   /\ \/ a = [b EXCEPT !.dirty = TRUE] \/ a = [b EXCEPT !.retry = FALSE]
                      \/ a = [b EXCEPT !.dirty = FALSE, !.retry = TRUE]
      BY <3>3, Zenon
    <3>5. TRUE \in BOOLEAN /\ FALSE \in BOOLEAN
      OBVIOUS
    <3>6. /\ SameMarks(b, [b EXCEPT !.dirty = TRUE]) /\ SameMarks(b, [b EXCEPT !.retry = FALSE])
          /\ SameMarks(b, [b EXCEPT !.dirty = FALSE, !.retry = TRUE])
      BY <3>1, <3>5, MarksSet, Zenon
    <3>7. SameMarks(b, a)
      BY <3>4, <3>6, Zenon
    <3> QED
      BY <3>1, <3>4, <3>7, <1>8, Zenon DEF SameMarks
  <2> QED
    BY <2>1, <2>3, <2>4, <1>4, <1>7, Zenon
<1>9. CASE e.type \in {"reanalyze", "project", "ready"}
  <2> DEFINE b == IF e.type = "ready" THEN [analysis EXCEPT !.ready = TRUE] ELSE analysis
             a == IF e.type = "project" /\ ~e.reanalyze THEN b ELSE MarkDirty(b)
  <2>1. /\ Submit(queue, a, doc.version)
        /\ UNCHANGED <<doc, resultVars, parked, session>>
    <3>1. /\ e.type # "complete" /\ e.type # "answer"
          /\ e.type \notin {"status", "globs"}
          /\ e.type \notin {"index", "symbols", "reset", "names", "located"}
      BY <1>9
    <3> QED
      BY <3>1, <1>1, <1>9, Zenon DEF Handle
  <2>2. /\ b \in Markers /\ (b.inFlight <=> analysis.inFlight)
        /\ e.type # "ready" => (b.ready <=> analysis.ready)
    <3>1. CASE e.type = "ready"
      <4>1. b = [analysis EXCEPT !.ready = TRUE]
        BY <3>1, Zenon
      <4>2. b \in Markers
        BY <4>1, <1>4 DEF Markers
      <4>3. b.inFlight <=> analysis.inFlight
        BY <4>1, <1>4, Zenon DEF Markers
      <4> QED
        BY <3>1, <4>2, <4>3, Zenon
    <3>2. CASE e.type # "ready"
      BY <3>2, <1>4, Zenon
    <3> QED
      BY <3>1, <3>2, Zenon
  <2> HIDE DEF b
  <2>3. MarkDirty(b) \in Markers /\ (MarkDirty(b).ready <=> b.ready)
        /\ (MarkDirty(b).inFlight <=> b.inFlight)
    <3>1. (b.dirty \/ doc.version > 0) \in BOOLEAN
      OBVIOUS
    <3>2. MarkDirty(b) = [b EXCEPT !.dirty = b.dirty \/ doc.version > 0]
      BY Zenon DEF MarkDirty
    <3> QED
      <4>1. SameMarks(b, [b EXCEPT !.dirty = b.dirty \/ doc.version > 0])
        BY <2>2, <3>1, MarksSet, Zenon
      <4> QED
        BY <3>2, <4>1, Zenon DEF SameMarks
  <2>4. e.type # "complete"
    BY <1>9
  <2>5. Marked(a)
    BY <2>1, <2>2, <2>3, <2>4, Zenon
  <2> QED
    BY <2>1, <2>5, <1>4, <1>7, Zenon
<1>10. CASE e.type \in {"status", "globs"}
  <2>1. /\ session' = (IF e.type = "globs" THEN [session EXCEPT !.watching = TRUE]
                                          ELSE [session EXCEPT !.token = e.working])
        /\ Submit(queue, analysis, doc.version)
        /\ UNCHANGED <<doc, resultVars, parked>>
    <3>1. /\ e.type # "complete" /\ e.type # "answer"
          /\ e.type \notin {"reanalyze", "project", "ready"}
          /\ e.type \notin {"index", "symbols", "reset", "names", "located"}
      BY <1>10
    <3> QED
      BY <3>1, <1>1, <1>10, Zenon DEF Handle
  <2>2. e.type = "status" => e.working \in BOOLEAN
    BY <1>3 DEF EventSet
  <2>3. /\ session' \in [state : {"new", "open", "closed"}, watching : BOOLEAN, token : BOOLEAN]
        /\ session'.state = session.state
    BY <2>1, <2>2, <1>4, <1>10
  <2>4. Marked(analysis)
    <3>1. e.type # "complete"
      BY <1>10
    <3> QED
      BY <2>1, <3>1, <1>4, Zenon
  <2> QED
    BY <2>1, <2>3, <2>4, <1>4, <1>7, Zenon
<1>11. CASE e.type = "answer"
  <2>1. /\ parked' = [parked EXCEPT !.waiting = @ \ {e.token}]
        /\ Submit(queue, analysis, doc.version)
        /\ UNCHANGED <<doc, resultVars, session>>
    <3>1. /\ e.type # "complete" /\ e.type \notin {"status", "globs"}
          /\ e.type \notin {"reanalyze", "project", "ready"}
          /\ e.type \notin {"index", "symbols", "reset", "names", "located"}
      BY <1>11
    <3> QED
      BY <3>1, <1>1, <1>11, Zenon DEF Handle
  <2>2. parked' \in [waiting : SUBSET Nat, asked : Nat]
    BY <2>1, <1>4
  <2>3. Marked(analysis)
    <3>1. e.type # "complete"
      BY <1>11
    <3> QED
      BY <2>1, <3>1, <1>4, Zenon
  <2> QED
    BY <2>1, <2>2, <2>3, <1>4, <1>7, Zenon
<1>12. CASE e.type \in {"index", "symbols", "reset", "names", "located"}
  <2>1. /\ ResultShape' /\ Submit(queue, analysis, doc.version)
        /\ UNCHANGED <<doc, parked, session>>
    BY <1>1, <1>3, <1>4, <1>12, HandledResults, Zenon
  <2>2. Marked(analysis)
    <3>1. e.type # "complete"
      BY <1>12
    <3> QED
      BY <2>1, <3>1, <1>4, Zenon
  <2> QED
    BY <2>1, <2>2, <1>4, <1>12, Zenon
<1> QED
  BY <1>1, <1>8, <1>9, <1>10, <1>11, <1>12, Zenon DEF Handle

-------------------------------------------------------------------------------
(* The queues, and what has happened before the root is configured.        *)

\* A step of the session: nothing it does hides a root that is not configured.
LEMMA FedBase ==
  ASSUME Base, NEW a, Fed(a), session.state = "open", session'.state = "open",
         Beginning => ~ a.ready /\ ~ a.inFlight /\ UNCHANGED resultVars,
         UNCHANGED <<pc, job, refresh, model, sweptFor>>,
         InTransit' \subseteq InTransit, Line = <<>> => Line' = <<>>
  PROVE  /\ queue' \in Queues /\ BeginInv' /\ QueueInv(queue)' /\ SweepInv'
         /\ Beginning' <=> Beginning
<1>1. queue \in Queues
  BY Zenon DEF Base, Shape
<1>2. /\ queue' \in Queues /\ SameBackground(queue, queue')
      /\ queue'.locations = queue.locations
      /\ analysis' \in Markers /\ (analysis'.ready <=> a.ready)
      /\ RootWaits' => RootWaits
      /\ ~ a.ready => /\ Extended(queue.pending, queue'.pending)
                      /\ analysis'.inFlight <=> a.inFlight
  BY <1>1, FedKinds, Zenon
<1>3. QueueInv(queue')
  BY <1>2, BackgroundKept, Zenon DEF Base
<1>4. RootRuns' <=> RootRuns
  BY Zenon DEF RootRuns
<1>5. "open" # "new" /\ "open" # "closed"
  OBVIOUS
<1>6. Beginning' => Beginning
  BY <1>2, <1>4, <1>5, Zenon DEF Beginning
<1>7. /\ Beginning => NothingYet
      /\ queue.generation > 0 /\ ~ queue.disconnected
      /\ RootWaits => /\ pc = "idle" /\ Line = <<>>
                      /\ \A i \in 1 .. Len(queue.pending) :
                           queue.pending[i].kind = "root" <=> i = 1
  BY <1>5, Zenon DEF Base, BeginInv
<1>8. Beginning => NothingYet'
  <2>1. SUFFICES ASSUME Beginning PROVE NothingYet'
    OBVIOUS
  <2> QED
    BY <2>1, <1>2, <1>7, Zenon DEF NothingYet, SameBackground, resultVars
<1>9. ASSUME RootWaits
      PROVE  /\ RootWaits'
             /\ \A i \in 1 .. Len(queue'.pending) : queue'.pending[i].kind = "root" <=> i = 1
  <2>1. PICK k \in 1 .. Len(queue.pending) : queue.pending[k].kind = "root"
    BY <1>9, Zenon DEF RootWaits
  <2>2. Extended(queue.pending, queue'.pending)
    BY <1>2, <1>9, Zenon DEF Beginning
  <2>3. Len(queue.pending) \in Nat /\ Len(queue'.pending) \in Nat
    <3>1. queue.pending \in Seq(Commands) /\ queue'.pending \in Seq(Commands)
      BY <1>1, <1>2, QueueFields, Zenon
    <3> QED
      BY <3>1
  <2>4. \A i \in 1 .. Len(queue'.pending) : queue'.pending[i].kind = "root" <=> i = 1
    <3>1. SUFFICES ASSUME NEW i \in 1 .. Len(queue'.pending)
                   PROVE  queue'.pending[i].kind = "root" <=> i = 1
      BY Zenon
    <3>2. IF i <= Len(queue.pending) THEN queue'.pending[i].kind = queue.pending[i].kind
                                     ELSE queue'.pending[i].kind \notin {"root", "analyze"}
      BY <2>2, Zenon DEF Extended
    <3>3. CASE i <= Len(queue.pending)
      <4>1. i \in 1 .. Len(queue.pending)
        BY <3>3, <2>3
      <4> QED
        BY <3>2, <3>3, <4>1, <1>7, <1>9, Zenon
    <3>4. CASE ~ (i <= Len(queue.pending))
      <4>1. i # 1
        BY <3>4, <2>1, <2>3
      <4> QED
        BY <3>2, <3>4, <4>1
    <3> QED
      BY <3>3, <3>4, Zenon
  <2>5. 1 \in 1 .. Len(queue'.pending)
    BY <2>1, <2>2, <2>3 DEF Extended
  <2> QED
    BY <2>4, <2>5, Zenon DEF RootWaits
<1>10. Beginning => Beginning'
  BY <1>4, <1>5, <1>9, Zenon DEF Beginning
<1>11. queue'.generation = queue.generation /\ queue'.disconnected = queue.disconnected
       /\ queue'.sweep = queue.sweep
  BY <1>2, Zenon DEF SameBackground
<1>12. BeginInv'
  BY <1>2, <1>5, <1>6, <1>7, <1>8, <1>9, <1>11, Zenon DEF BeginInv
<1>13. SweepInv'
  BY <1>6, <1>11, Zenon DEF SweepInv, Base
<1> QED
  BY <1>2, <1>3, <1>6, <1>10, <1>12, <1>13, Zenon

\* A step of the engine that ends a command leaves the root configured.
LEMMA RunBase ==
  ASSUME Base, pc \in {"run", "sweep"}, pc' \in {"idle", "sweep"}, session' = session,
         queue' \in Queues, QueueInv(queue'), queue'.pending = queue.pending,
         queue'.disconnected = queue.disconnected,
         queue'.generation = queue.generation \/ queue'.generation = queue.generation + 1,
         queue'.sweep # <<>> => sweptFor' = queue'.generation
  PROVE  BeginInv' /\ QueueInv(queue)' /\ SweepInv' /\ ~ Beginning'
<1>1. pc # "idle" /\ pc' # "run"
  OBVIOUS
<1>2. session.state # "new" /\ ~ RootWaits /\ queue.generation > 0
  BY <1>1, Zenon DEF Base, BeginInv
<1>3. ~ RootWaits'
  BY <1>2, Zenon DEF RootWaits
<1>4. ~ Beginning'
  BY <1>1, <1>2, <1>3, Zenon DEF Beginning, RootRuns
<1>5. queue'.generation > 0
  <2>1. queue.generation \in Nat
    BY QueueFields, Zenon DEF Base, Shape
  <2> QED
    BY <1>2, <2>1
<1>6. BeginInv'
  BY <1>2, <1>3, <1>4, <1>5, Zenon DEF Base, BeginInv
<1>7. SweepInv'
  BY <1>1, Zenon DEF SweepInv
<1> QED
  BY <1>4, <1>6, <1>7, Zenon

\* The fields of the command that runs.
LEMMA JobFields ==
  ASSUME EngineShape
  PROVE  /\ job.kind = "analyze" => job.version \in Nat
         /\ job.kind = "request" => job.token \in Nat
         /\ job.kind \in {"index", "symbols"} => job.uris \in Seq(Uris) /\ job.generation \in Nat
         /\ job.kind = "locate" => job.candidates \in SUBSET Classes /\ job.generation \in Nat
         /\ job.kind = "change" => job.uris \subseteq Uris \union {BuildFile}
<1>1. job \in Jobs
  BY Zenon DEF EngineShape
<1>2. /\ \A c \in Commands : c.kind \in {"root", "analyze", "request", "change"}
      /\ \A c \in Commands : c.kind = "analyze" => c.version \in Nat
      /\ \A c \in Commands : c.kind = "request" => c.token \in Nat
  BY DEF Commands
<1>3. \A c \in Commands : c.kind = "change" => c.uris \subseteq Uris \union {BuildFile}
  BY DEF Commands, BuildFile
<1>4. \A l \in {"neighborhood", "sweep"} : \A c \in IndexChunks(l) :
        c.kind = "index" /\ c.uris \in Seq(Uris) /\ c.generation \in Nat
  BY DEF IndexChunks
<1>5. \A c \in SymbolChunks : c.kind = "symbols" /\ c.uris \in Seq(Uris) /\ c.generation \in Nat
  BY DEF SymbolChunks
<1>6. \A c \in Locates :
        c.kind = "locate" /\ c.candidates \in SUBSET Classes /\ c.generation \in Nat
  BY DEF Locates
<1>7. None.kind = "none" /\ [kind |-> "refresh"].kind = "refresh"
  BY DEF None
<1>8. CASE job \in Commands
  BY <1>2, <1>3, <1>8
<1>9. CASE job \in IndexChunks("neighborhood") \/ job \in IndexChunks("sweep")
  BY <1>4, <1>9
<1>10. CASE job \in SymbolChunks
  BY <1>5, <1>10
<1>11. CASE job \in Locates
  BY <1>6, <1>11
<1>12. CASE job = None \/ job = [kind |-> "refresh"]
  <2>1. job.kind = "none" \/ job.kind = "refresh"
    BY <1>7, <1>12, Zenon
  <2> QED
    BY <2>1
<1> QED
  BY <1>1, <1>8, <1>9, <1>10, <1>11, <1>12, Zenon DEF Jobs

\* Nothing of the engine or the session changes.
LEMMA StillBase ==
  ASSUME Base, WorldShape', UNCHANGED <<queue, engineVars, events, sessionVars>>
  PROVE  Base'
<1>1. /\ UNCHANGED <<queue, pc, job, outbox, refresh, model, inventory, sweptFor>>
      /\ UNCHANGED <<events, doc, analysis, generation, store, symbols, classes, parked, session>>
  BY Zenon DEF engineVars, sessionVars, resultVars
<1>2. Shape'
  BY <1>1, Zenon DEF Base, Shape, EngineShape, LineShape, SessionShape, ResultShape
<1>3. (Line' = Line) /\ (InTransit' = InTransit) /\ (RootWaits' <=> RootWaits)
      /\ (RootRuns' <=> RootRuns)
  BY <1>1, Zenon DEF Line, InTransit, RootWaits, RootRuns
<1>4. Beginning' <=> Beginning
  BY <1>1, <1>3, Zenon DEF Beginning
<1>5. NothingYet => NothingYet'
  BY <1>1, <1>3, Zenon DEF NothingYet
<1>6. BeginInv'
  BY <1>1, <1>3, <1>4, <1>5, Zenon DEF Base, BeginInv
<1>7. SweepInv'
  BY <1>1, <1>4, Zenon DEF Base, SweepInv
<1> QED
  BY <1>1, <1>2, <1>6, <1>7, Zenon DEF Base

\* Files are written, or the build file is.
LEMMA WorldBase ==
  ASSUME Base, World
  PROVE  Base' /\ UNCHANGED <<queue, engineVars, events, sessionVars>>
<1>1. WorldShape
  BY Zenon DEF Base, Shape
<1>2. CASE EditBuildFile
  <2>1. /\ buildFile' = buildFile + 1 /\ Noticed(BuildFile)
        /\ UNCHANGED <<queue, disk, saves, engineVars, events, sessionVars>>
    BY <1>2, Zenon DEF EditBuildFile
  <2>2. WorldShape'
    BY <1>1, <2>1 DEF WorldShape, Noticed
  <2> QED
    BY <2>1, <2>2, StillBase, Zenon
<1>3. ASSUME NEW u \in Uris, Save(u)
      PROVE  Base' /\ UNCHANGED <<queue, engineVars, events, sessionVars>>
  <2>1. /\ saves' = saves + 1 /\ Noticed(u)
        /\ \E v \in {saves + 2, Gone} \ {disk[u]} : disk' = [disk EXCEPT ![u] = v]
        /\ UNCHANGED <<queue, buildFile, engineVars, events, sessionVars>>
    BY <1>3, Zenon DEF Save
  <2>2. WorldShape'
    BY <1>1, <2>1 DEF WorldShape, Noticed, Gone
  <2> QED
    BY <2>1, <2>2, StillBase, Zenon
<1> QED
  BY <1>2, <1>3, Zenon DEF World

\* The client's first message.
LEMMA InitializeBase ==
  ASSUME Base, Initialize
  PROVE  /\ Base' /\ Beginning' /\ Line' = <<>> /\ queue'.locations = <<>> /\ pc' = "idle"
         /\ queue'.pending = <<[kind |-> "root"]>>
<1>1. /\ session.state = "new" /\ session' = [session EXCEPT !.state = "open"]
      /\ queue' = EnqueueRoot(queue)
      /\ UNCHANGED <<worldVars, engineVars, events, doc, analysis, resultVars, parked>>
  BY Zenon DEF Initialize
<1>2. /\ UNCHANGED <<disk, buildFile, saves, unreported>>
      /\ UNCHANGED <<pc, job, outbox, refresh, model, inventory, sweptFor>>
      /\ UNCHANGED <<events, doc, analysis, generation, store, symbols, classes, parked>>
  BY <1>1, Zenon DEF worldVars, engineVars, resultVars
<1>3. /\ queue \in Queues /\ Beginning /\ NothingYet /\ pc = "idle" /\ Line = <<>>
      /\ queue.pending = <<>> /\ ~ queue.disconnected /\ queue.generation = 0
  <2>1. "new" # "closed"
    OBVIOUS
  <2> QED
    BY <1>1, <2>1, Zenon DEF Base, Shape, BeginInv, Beginning
<1>4. /\ queue' \in Queues /\ QueueInv(queue') /\ queue'.disconnected = queue.disconnected
      /\ queue'.generation = queue.generation + 1 /\ queue'.pending = <<[kind |-> "root"]>>
      /\ queue'.locations = <<>>
      /\ queue'.neighborhood = <<>> /\ queue'.sweep = <<>> /\ queue'.symbols = <<>>
  BY <1>1, <1>3, RootQueued, Zenon
<1>5. session'.state = "open"
      /\ session' \in [state : {"new", "open", "closed"}, watching : BOOLEAN, token : BOOLEAN]
  <2>1. session \in [state : {"new", "open", "closed"}, watching : BOOLEAN, token : BOOLEAN]
    BY Zenon DEF Base, Shape, SessionShape
  <2> QED
    BY <1>1, <2>1
<1>6. Shape'
  BY <1>2, <1>4, <1>5, Zenon
    DEF Base, Shape, WorldShape, EngineShape, LineShape, SessionShape, ResultShape
<1>7. (Line' = Line) /\ (InTransit' = InTransit)
  BY <1>2, Zenon DEF Line, InTransit
<1>8. NothingYet'
  BY <1>2, <1>3, <1>4, <1>7, Zenon DEF NothingYet
<1>9. /\ RootWaits'
      /\ \A i \in 1 .. Len(queue'.pending) : queue'.pending[i].kind = "root" <=> i = 1
  <2> DEFINE p == <<[kind |-> "root"]>>
  <2>1. Len(p) = 1 /\ p[1].kind = "root" /\ 1 .. 1 = {1}
    OBVIOUS
  <2>2. 1 \in 1 .. Len(p) /\ \A i \in 1 .. Len(p) : i = 1
    BY <2>1
  <2> QED
    BY <1>4, <2>1, <2>2, Zenon DEF RootWaits
<1>10. Beginning'
  BY <1>9, Zenon DEF Beginning
<1>11. queue'.generation > 0 /\ session'.state # "new" /\ session'.state # "closed"
  BY <1>3, <1>4, <1>5
<1>12. BeginInv'
  BY <1>2, <1>3, <1>4, <1>7, <1>8, <1>9, <1>11, Zenon DEF BeginInv
<1>13. SweepInv'
  <2>1. "idle" # "run"
    OBVIOUS
  <2> QED
    BY <1>2, <1>3, <1>4, <2>1, Zenon DEF SweepInv
<1> QED
  BY <1>2, <1>3, <1>4, <1>6, <1>7, <1>10, <1>12, <1>13, Zenon DEF Base

\* The messages that queue commands for the engine.
Message == Edit \/ Reports \/ Request \/ RetryDue

\* A message of the client changes what the session sends and nothing of the
\* engine, of its results or of the files.
LEMMA MessageEffect ==
  ASSUME Base, Message
  PROVE  /\ \E a \in Markers : SameMarks(analysis, a) /\ Fed(a)
         /\ session.state = "open" /\ session' = session
         /\ UNCHANGED <<engineVars, events, resultVars, disk, buildFile, saves>>
         /\ WorldShape' /\ SessionShape'
<1>1. /\ queue \in Queues /\ WorldShape /\ analysis \in Markers
      /\ doc \in [version : Nat, analyzed : Nat] /\ parked \in [waiting : SUBSET Nat, asked : Nat]
      /\ session \in [state : {"new", "open", "closed"}, watching : BOOLEAN, token : BOOLEAN]
      /\ unreported \subseteq Uris \union {BuildFile}
  BY Zenon DEF Base, Shape, SessionShape, WorldShape
<1>2. Open
  BY Zenon DEF Message, Edit, Reports, WatchedFilesChanged, Request, RetryDue
<1>3. ~ queue.disconnected
  <2>1. "open" # "closed"
    OBVIOUS
  <2> QED
    BY <1>2, <2>1, Zenon DEF Base, BeginInv, Open
<1>4. TRUE \in BOOLEAN /\ FALSE \in BOOLEAN
  OBVIOUS
<1>5. doc.version \in Nat /\ parked.asked \in Nat
  BY <1>1
<1>6. CASE Edit
  <2> DEFINE a == [analysis EXCEPT !.dirty = TRUE]
  <2>1. /\ doc' = [doc EXCEPT !.version = @ + 1]
        /\ Submit(queue, a, doc.version + 1)
        /\ UNCHANGED <<worldVars, engineVars, events, resultVars, parked, session>>
    BY <1>6, Zenon DEF Edit
  <2>2. SameMarks(analysis, a)
    BY <1>1, <1>4, MarksSet, Zenon
  <2> HIDE DEF a
  <2>3. Fed(a)
    <3>1. doc.version + 1 \in Nat /\ a \in Markers
      BY <1>5, <2>2 DEF SameMarks
    <3> QED
      BY <1>1, <1>3, <2>1, <3>1, FedPlain, Zenon
  <2>4. doc' \in [version : Nat, analyzed : Nat]
    BY <1>1, <2>1
  <2>5. analysis' \in Markers
    BY <1>1, <2>3, FedKinds, Zenon
  <2> QED
    BY <1>1, <1>2, <2>1, <2>2, <2>3, <2>4, <2>5, Zenon
      DEF SessionShape, WorldShape, worldVars, SameMarks, Open
<1>7. CASE Reports
  <2> DEFINE a == [analysis EXCEPT !.dirty = TRUE]
  <2>1. PICK S \in SUBSET unreported : WatchedFilesChanged(S)
    BY <1>7, Zenon DEF Reports
  <2> DEFINE q == EnqueueChange(queue, Change(FALSE, FALSE, S))
  <2>2. /\ unreported' = unreported \ S /\ Submit(q, a, doc.version)
        /\ UNCHANGED <<disk, buildFile, saves, engineVars, events, doc, resultVars, parked,
                       session>>
    BY <2>1, Zenon DEF WatchedFilesChanged
  <2>3. SameMarks(analysis, a)
    BY <1>1, <1>4, MarksSet, Zenon
  <2>4. S \in SUBSET (Uris \union {BuildFile})
    BY <1>1
  <2>5. q \in Queues /\ SameBackground(queue, q) /\ q.locations = queue.locations
    BY <1>1, <2>4, ChangeQueued, Zenon
  <2>6. Extended(queue.pending, q.pending)
    BY <1>1, <2>4, ExtendedBy, Zenon
  <2> HIDE DEF a, q
  <2>7. Submitted(q, a)
    BY <1>3, <1>5, <2>2, <2>3, <2>5, SubmitEffect, Zenon DEF SameMarks, SameBackground
  <2>8. Fed(a)
    BY <2>5, <2>6, <2>7, Zenon DEF Fed
  <2>9. analysis' \in Markers
    BY <2>7, Zenon DEF Submitted
  <2>10. WorldShape'
    BY <1>1, <2>2 DEF WorldShape
  <2> QED
    BY <1>1, <1>2, <2>2, <2>3, <2>8, <2>9, <2>10, Zenon DEF SessionShape, SameMarks, Open
<1>8. CASE Request
  <2> DEFINE q == EnqueueRequest(queue, parked.asked + 1)
  <2>1. /\ parked' = [waiting |-> parked.waiting \union {parked.asked + 1},
                      asked |-> parked.asked + 1]
        /\ queue' = q
        /\ UNCHANGED <<worldVars, engineVars, events, doc, analysis, resultVars, session>>
    BY <1>8, Zenon DEF Request
  <2>2. parked.asked + 1 \in Nat
    BY <1>5
  <2>3. q \in Queues /\ SameBackground(queue, q) /\ q.locations = queue.locations
    BY <1>1, <2>2, RequestQueued, Zenon
  <2>4. Extended(queue.pending, q.pending)
    BY <1>1, <2>2, ExtendedBy, Zenon
  <2> HIDE DEF q
  <2>5. Submitted(q, analysis)
    <3>1. SameBackground(q, q)
      BY Zenon DEF SameBackground
    <3> QED
      BY <1>1, <2>1, <2>3, <3>1, Zenon DEF Submitted
  <2>6. Fed(analysis)
    BY <2>3, <2>4, <2>5, Zenon DEF Fed
  <2>7. parked' \in [waiting : SUBSET Nat, asked : Nat]
    BY <1>1, <2>1, <2>2
  <2> QED
    BY <1>1, <1>2, <2>1, <2>6, <2>7, Zenon
      DEF SessionShape, WorldShape, worldVars, SameMarks, Open
<1>9. CASE RetryDue
  <2> DEFINE a == [analysis EXCEPT !.retry = FALSE, !.dirty = TRUE]
  <2>1. /\ Submit(queue, a, doc.version)
        /\ UNCHANGED <<worldVars, engineVars, events, doc, resultVars, parked, session>>
    BY <1>9, Zenon DEF RetryDue
  <2>2. SameMarks(analysis, a)
    BY <1>1, <1>4, MarksSet, Zenon
  <2> HIDE DEF a
  <2>3. Fed(a)
    BY <1>1, <1>3, <1>5, <2>1, <2>2, FedPlain, Zenon DEF SameMarks
  <2>4. analysis' \in Markers
    BY <1>1, <2>3, FedKinds, Zenon
  <2> QED
    BY <1>1, <1>2, <2>1, <2>2, <2>3, <2>4, Zenon
      DEF SessionShape, WorldShape, worldVars, SameMarks, Open
<1> QED
  BY <1>6, <1>7, <1>8, <1>9, Zenon DEF Message

\* A message of the client keeps the shape of the system.
LEMMA MessageBase ==
  ASSUME Base, Message
  PROVE  Base' /\ (Beginning' <=> Beginning)
<1>1. /\ \E a \in Markers : SameMarks(analysis, a) /\ Fed(a)
      /\ session.state = "open" /\ session' = session
      /\ UNCHANGED <<engineVars, events, resultVars, disk, buildFile, saves>>
      /\ WorldShape' /\ SessionShape'
  BY MessageEffect, Zenon
<1>2. PICK a \in Markers : SameMarks(analysis, a) /\ Fed(a)
  BY <1>1, Zenon
<1>3. /\ UNCHANGED <<pc, job, outbox, refresh, model, inventory, sweptFor, events>>
      /\ UNCHANGED <<generation, store, symbols, classes>> /\ UNCHANGED resultVars
  BY <1>1, Zenon DEF engineVars, resultVars
<1>4. (Line' = Line) /\ (InTransit' = InTransit)
  BY <1>3, Zenon DEF Line, InTransit
<1>5. Beginning => ~ a.ready /\ ~ a.inFlight
  BY <1>2, Zenon DEF Base, BeginInv, NothingYet, SameMarks
<1>6. /\ queue' \in Queues /\ BeginInv' /\ QueueInv(queue)' /\ SweepInv'
      /\ Beginning' <=> Beginning
  BY <1>1, <1>2, <1>3, <1>4, <1>5, FedBase, Zenon
<1>7. EngineShape' /\ LineShape' /\ ResultShape'
  BY <1>3, Zenon DEF Base, Shape, EngineShape, LineShape, ResultShape
<1> QED
  BY <1>1, <1>6, <1>7, Zenon DEF Base, Shape

\* The session handles an event.
LEMMA HandleBase ==
  ASSUME Base, HandleEvent
  PROVE  Base' /\ (Beginning' <=> Beginning)
<1> DEFINE e == Head(events)
<1>1. Shape /\ BeginInv
  BY Zenon DEF Base
<1>2. /\ e \in EventSet
      /\ \E a \in Markers :
           /\ Fed(a)
           /\ e.type # "ready" => (a.ready <=> analysis.ready)
           /\ a.inFlight <=> (analysis.inFlight /\ e.type # "complete")
      /\ SessionShape' /\ session'.state = session.state /\ ResultShape'
      /\ e.type \notin {"index", "symbols", "reset", "names", "located"} => UNCHANGED resultVars
  BY <1>1, HandledEvent, Zenon
<1>3. /\ Open /\ events # <<>> /\ events' = Tail(events)
      /\ UNCHANGED <<worldVars, engineVars>>
  BY Zenon DEF HandleEvent
<1>4. /\ UNCHANGED <<pc, job, outbox, refresh, model, inventory, sweptFor>>
      /\ UNCHANGED <<disk, buildFile, saves, unreported>>
  BY <1>3, Zenon DEF engineVars, worldVars
<1>5. LineShape /\ events \in Seq(EventSet)
  BY <1>1, Zenon DEF Shape, LineShape
<1>6. \A x : x \in ToSet(events) <=> x = Head(events) \/ x \in ToSet(Tail(events))
  BY <1>3, <1>5, ElementsTail, Zenon
<1>7. e \in InTransit /\ InTransit' \subseteq InTransit
  BY <1>3, <1>4, <1>6, Zenon DEF InTransit
<1>8. Line # <<>>
  BY <1>3, <1>4, <1>5, LineStep, Zenon
<1> HIDE DEF e
<1>9. PICK a \in Markers : /\ Fed(a)
                           /\ e.type # "ready" => (a.ready <=> analysis.ready)
                           /\ a.inFlight <=> (analysis.inFlight /\ e.type # "complete")
  BY <1>2, Zenon
<1>10. ASSUME Beginning PROVE ~ a.ready /\ ~ a.inFlight /\ UNCHANGED resultVars
  <2>1. e.type = "status" /\ ~ analysis.ready /\ ~ analysis.inFlight
    BY <1>7, <1>10, Zenon DEF Base, BeginInv, NothingYet
  <2>2. e.type # "ready" /\ e.type \notin {"index", "symbols", "reset", "names", "located"}
    BY <2>1
  <2> QED
    BY <1>2, <1>9, <2>1, <2>2, Zenon
<1>11. /\ queue' \in Queues /\ BeginInv' /\ QueueInv(queue)' /\ SweepInv'
       /\ Beginning' <=> Beginning
  <2>1. session.state = "open" /\ session'.state = "open"
    BY <1>2, <1>3, Zenon DEF Open
  <2>2. UNCHANGED <<pc, job, refresh, model, sweptFor>>
    BY <1>4, Zenon
  <2> QED
    BY <1>7, <1>8, <1>9, <1>10, <2>1, <2>2, FedBase, Zenon
<1>12. EngineShape' /\ WorldShape'
  BY <1>1, <1>4, Zenon DEF Shape, EngineShape, WorldShape
<1>13. LineShape'
  <2>1. Tail(events) \in Seq(EventSet)
    BY <1>3, <1>5
  <2> QED
    BY <1>3, <1>4, <1>5, <2>1, Zenon DEF LineShape
<1> QED
  BY <1>2, <1>11, <1>12, <1>13, Zenon DEF Base, Shape

\* The session asks for classes, whose names it knows.
LEMMA QueryBase ==
  ASSUME Base, NEW S \in SUBSET Classes, Query(S)
  PROVE  /\ Base' /\ ~ Beginning /\ ~ Beginning'
         /\ queue'.locations = Append(queue.locations, [kind |-> "locate",
                                        generation |-> generation, candidates |-> S])
         /\ queue'.pending = queue.pending /\ queue'.generation = queue.generation
         /\ [kind |-> "locate", generation |-> generation, candidates |-> S] \in Locates
<1>1. /\ Open /\ S # {} /\ S \subseteq classes.names \ (classes.located \union classes.requested)
      /\ classes' = MarkRequested(S) /\ queue' = EnqueueLocation(queue, generation, S)
      /\ UNCHANGED <<worldVars, engineVars, events, doc, analysis, generation, store, symbols,
                     parked, session>>
  BY Zenon DEF Query
<1>2. /\ UNCHANGED <<disk, buildFile, saves, unreported>>
      /\ UNCHANGED <<pc, job, outbox, refresh, model, inventory, sweptFor>>
      /\ UNCHANGED <<events, doc, analysis, generation, store, symbols, parked, session>>
  BY <1>1, Zenon DEF worldVars, engineVars
<1>3. /\ queue \in Queues /\ generation \in Nat
      /\ classes \in [names : SUBSET Classes, located : SUBSET Classes,
                      requested : SUBSET Classes]
  BY Zenon DEF Base, Shape, ResultShape
<1>4. /\ queue' \in Queues /\ SameBackground(queue, queue') /\ queue'.pending = queue.pending
      /\ queue'.locations = Append(queue.locations, [kind |-> "locate",
                                     generation |-> generation, candidates |-> S])
      /\ [kind |-> "locate", generation |-> generation, candidates |-> S] \in Locates
  BY <1>1, <1>3, LocationQueued, Zenon
<1>5. QueueInv(queue')
  BY <1>4, BackgroundKept, Zenon DEF Base
<1>6. classes' \in [names : SUBSET Classes, located : SUBSET Classes, requested : SUBSET Classes]
  BY <1>1, <1>3 DEF MarkRequested
<1>7. Shape'
  BY <1>2, <1>4, <1>6, Zenon
    DEF Base, Shape, WorldShape, EngineShape, LineShape, SessionShape, ResultShape
<1>8. ~ Beginning
  <2>1. classes.names # {}
    BY <1>1
  <2> QED
    BY <2>1, Zenon DEF Base, BeginInv, NothingYet
<1>9. (RootWaits' <=> RootWaits) /\ (Beginning' <=> Beginning)
  BY <1>2, <1>4, Zenon DEF Beginning, RootWaits, RootRuns
<1>10. /\ queue'.generation = queue.generation /\ queue'.disconnected = queue.disconnected
       /\ queue'.sweep = queue.sweep
  BY <1>4, Zenon DEF SameBackground
<1>11. BeginInv'
  BY <1>2, <1>4, <1>8, <1>9, <1>10, Zenon DEF Base, BeginInv, Beginning
<1>12. SweepInv'
  BY <1>2, <1>8, <1>9, <1>10, Zenon DEF Base, SweepInv
<1> QED
  BY <1>4, <1>5, <1>7, <1>8, <1>9, <1>10, <1>11, <1>12, Zenon DEF Base

\* The client is gone.
LEMMA ExitBase ==
  ASSUME Base, Exit
  PROVE  Base' /\ session'.state = "closed"
<1>1. /\ Open /\ session' = [session EXCEPT !.state = "closed", !.token = FALSE]
      /\ queue' = [queue EXCEPT !.disconnected = TRUE]
      /\ UNCHANGED <<worldVars, engineVars, events, doc, analysis, resultVars, parked>>
  BY Zenon DEF Exit
<1>2. /\ UNCHANGED <<disk, buildFile, saves, unreported>>
      /\ UNCHANGED <<pc, job, outbox, refresh, model, inventory, sweptFor>>
      /\ UNCHANGED <<events, doc, analysis, generation, store, symbols, classes, parked>>
  BY <1>1, Zenon DEF worldVars, engineVars, resultVars
<1>3. queue \in Queues
  BY Zenon DEF Base, Shape
<1>4. queue' \in Queues
  BY <1>1, <1>3 DEF Queues
<1>5. /\ queue'.pending = queue.pending /\ queue'.locations = queue.locations
      /\ queue'.neighborhood = queue.neighborhood /\ queue'.sweep = queue.sweep
      /\ queue'.symbols = queue.symbols /\ queue'.queued = queue.queued
      /\ queue'.symbolQueued = queue.symbolQueued /\ queue'.done = queue.done
      /\ queue'.total = queue.total /\ queue'.generation = queue.generation
  BY <1>1, <1>3 DEF Queues
<1>6. QueueInv(queue')
  BY <1>5, Zenon DEF Base, QueueInv
<1>7. session'.state = "closed"
      /\ session' \in [state : {"new", "open", "closed"}, watching : BOOLEAN, token : BOOLEAN]
  <2>1. session \in [state : {"new", "open", "closed"}, watching : BOOLEAN, token : BOOLEAN]
    BY Zenon DEF Base, Shape, SessionShape
  <2> QED
    BY <1>1, <2>1
<1>8. Shape'
  BY <1>2, <1>4, <1>7, Zenon
    DEF Base, Shape, WorldShape, EngineShape, LineShape, SessionShape, ResultShape
<1>9. session.state # "new" /\ session'.state # "new"
  BY <1>1, <1>7 DEF Open
<1>10. /\ RootWaits' <=> RootWaits
       /\ Beginning' <=> Beginning
       /\ Line' = Line
       /\ InTransit' = InTransit
  BY <1>2, <1>5, <1>9, Zenon DEF Beginning, RootWaits, RootRuns, Line, InTransit
<1>11. NothingYet => NothingYet'
  BY <1>2, <1>5, <1>10, Zenon DEF NothingYet
<1>12. BeginInv'
  BY <1>2, <1>5, <1>7, <1>9, <1>10, <1>11, Zenon DEF Base, BeginInv
<1>13. SweepInv'
  BY <1>2, <1>5, <1>10, Zenon DEF Base, SweepInv
<1> QED
  BY <1>6, <1>7, <1>8, <1>12, <1>13, Zenon DEF Base

\* Short lists of events.
LEMMA EventLists ==
  /\ <<>> \in Seq(EventSet) /\ ToSet(<<>>) = {}
  /\ \A x \in EventSet : <<x>> \in Seq(EventSet) /\ ToSet(<<x>>) = {x}
  /\ \A x, y \in EventSet : <<x, y>> \in Seq(EventSet) /\ ToSet(<<x, y>>) = {x, y}
<1>1. <<>> \in Seq(EventSet) /\ ToSet(<<>>) = {}
  BY DEF ToSet
<1>2. ASSUME NEW x \in EventSet PROVE <<x>> \in Seq(EventSet) /\ ToSet(<<x>>) = {x}
  BY DEF ToSet
<1>3. ASSUME NEW x \in EventSet, NEW y \in EventSet
      PROVE  <<x, y>> \in Seq(EventSet) /\ ToSet(<<x, y>>) = {x, y}
  BY DEF ToSet
<1> QED
  BY <1>1, <1>2, <1>3, Zenon

\* Two events are one after the other.
LEMMA EventPair ==
  ASSUME NEW x, NEW y
  PROVE  <<x, y>> = <<x>> \o <<y>>
<1> DEFINE T == {x, y}
           a == <<x>>
           b == <<y>>
<1>1. /\ a \in Seq(T) /\ b \in Seq(T) /\ Len(a) = 1 /\ Len(b) = 1
      /\ a[1] = x /\ b[1] = y
  OBVIOUS
<1>2. <<x, y>> \in Seq(T) /\ Len(<<x, y>>) = 2 /\ <<x, y>>[1] = x /\ <<x, y>>[2] = y
  OBVIOUS
<1> HIDE DEF T, a, b
<1>3. /\ a \o b \in Seq(T) /\ Len(a \o b) = Len(a) + Len(b)
      /\ \A i \in 1 .. Len(a) : (a \o b)[i] = a[i]
      /\ \A i \in 1 .. Len(b) : (a \o b)[Len(a) + i] = b[i]
  BY <1>1, ConcatOf
<1>4. Len(a \o b) = 2 /\ (a \o b)[1] = x /\ (a \o b)[2] = y
  BY <1>1, <1>3
<1>5. <<x, y>> = a \o b
  BY <1>2, <1>3, <1>4
<1> QED
  BY <1>5 DEF a, b

(* Events are passed on or drained, a delay elapses, the engine stops or   *)
(* turns to a refresh: steps that leave the queues alone.                  *)
LEMMA QuietBase ==
  ASSUME Base, DrainEvent \/ Send \/ Elapse \/ Timeout \/ Stop
  PROVE  /\ Base' /\ queue' = queue
         /\ Beginning' <=> Beginning
<1>1. /\ queue \in Queues /\ WorldShape /\ EngineShape /\ LineShape /\ SessionShape /\ ResultShape
      /\ events \in Seq(EventSet) /\ outbox \in Seq(EventSet)
  BY Zenon DEF Base, Shape, LineShape
<1>2. /\ UNCHANGED <<queue, disk, buildFile, saves, unreported, model, inventory, sweptFor>>
      /\ UNCHANGED <<doc, analysis, generation, store, symbols, classes, parked, session>>
  BY Zenon DEF DrainEvent, Send, Elapse, Timeout, Stop, worldVars, engineVars, sessionVars,
               resultVars
<1>3. WorldShape' /\ SessionShape' /\ ResultShape'
  BY <1>1, <1>2, Zenon DEF WorldShape, SessionShape, ResultShape
<1>4. SUFFICES /\ EngineShape' /\ LineShape' /\ (RootRuns' <=> RootRuns)
               /\ Beginning => /\ InTransit' \subseteq InTransit /\ refresh' = refresh
                               /\ Line = <<>> => Line' = <<>>
                               /\ pc' = pc
               /\ pc' = "run" => (pc = "run" /\ job' = job) \/ job'.kind = "refresh"
  <2>1. (RootWaits' <=> RootWaits) /\ (Beginning' <=> Beginning)
    BY <1>2, <1>4, Zenon DEF Beginning, RootWaits
  <2>2. Beginning => NothingYet'
    <3>1. SUFFICES ASSUME Beginning PROVE NothingYet'
      OBVIOUS
    <3> QED
      BY <3>1, <1>2, <1>4, Zenon DEF Base, BeginInv, NothingYet
  <2>3. BeginInv'
    BY <1>2, <1>4, <2>1, <2>2, Zenon DEF Base, BeginInv, Beginning
  <2>4. SweepInv'
    <3>1. "refresh" \notin {"index", "symbols"}
      OBVIOUS
    <3> QED
      BY <1>2, <1>4, <2>1, <3>1, Zenon DEF Base, SweepInv
  <2> QED
    BY <1>1, <1>2, <1>3, <1>4, <2>1, <2>3, <2>4, Zenon DEF Base, Shape
<1>5. CASE DrainEvent
  <2>1. /\ events # <<>> /\ events' = Tail(events)
        /\ UNCHANGED <<pc, job, outbox, refresh>>
    BY <1>5, Zenon DEF DrainEvent, engineVars
  <2>2. Tail(events) \in Seq(EventSet)
    BY <1>1, <2>1
  <2>3. Line # <<>>
    BY <1>1, <2>1, LineStep, Zenon
  <2>4. InTransit' \subseteq InTransit
    <3>1. \A x : x \in ToSet(events) <=> x = Head(events) \/ x \in ToSet(Tail(events))
      BY <1>1, <2>1, ElementsTail, Zenon
    <3> QED
      BY <2>1, <3>1, Zenon DEF InTransit
  <2> QED
    BY <1>1, <1>2, <2>1, <2>2, <2>3, <2>4, Zenon DEF EngineShape, LineShape, RootRuns
<1>6. CASE Send
  <2>1. /\ outbox # <<>> /\ events' = Append(events, Head(outbox)) /\ outbox' = Tail(outbox)
        /\ UNCHANGED <<pc, job, refresh>>
    BY <1>6, Zenon DEF Send
  <2>2. events' \in Seq(EventSet) /\ outbox' \in Seq(EventSet)
    BY <1>1, <2>1
  <2>3. Line' = Line
    BY <1>1, <1>6, LineStep, Zenon
  <2>4. LineShape'
    BY <2>2, Zenon DEF LineShape
  <2>5. InTransit' \subseteq InTransit
    BY <1>1, <2>3, <2>4, LineNow, LineNext, Zenon
  <2> QED
    BY <1>1, <1>2, <2>1, <2>3, <2>4, <2>5, Zenon DEF EngineShape, RootRuns
<1>7. CASE Elapse
  <2>1. refresh = "waiting" /\ UNCHANGED <<pc, job, outbox, events>>
    BY <1>7, Zenon DEF Elapse
  <2>2. ~ Beginning
    <3>1. refresh # "none"
      BY <2>1
    <3> QED
      BY <3>1, Zenon DEF Base, BeginInv, NothingYet
  <2> QED
    BY <1>1, <1>2, <2>1, <2>2, Zenon DEF EngineShape, LineShape, RootRuns
<1>8. CASE Timeout
  <2>1. /\ pc = "idle" /\ refresh = "due" /\ pc' = "run" /\ job' = [kind |-> "refresh"]
        /\ outbox' = <<Status(TRUE)>> /\ events' = events
    BY <1>8, Zenon DEF Timeout
  <2>2. ~ Beginning
    <3>1. refresh # "none"
      BY <2>1
    <3> QED
      BY <3>1, Zenon DEF Base, BeginInv, NothingYet
  <2>3. outbox' \in Seq(EventSet)
    <3>1. Status(TRUE) \in EventSet
      BY DEF Status, EventSet
    <3> QED
      BY <2>1, <3>1, EventLists, Zenon
  <2>4. job'.kind = "refresh" /\ job' \in Jobs /\ pc' # "sweep"
    <3>1. job'.kind = "refresh" /\ pc' # "sweep"
      BY <2>1
    <3> QED
      BY <2>1, <3>1, Zenon DEF Jobs
  <2>5. "refresh" # "root" /\ "idle" # "run"
    OBVIOUS
  <2> QED
    BY <1>1, <1>2, <2>1, <2>2, <2>3, <2>4, <2>5, Zenon DEF EngineShape, LineShape, RootRuns
<1>9. CASE Stop
  <2>1. /\ pc = "idle" /\ queue.disconnected /\ queue.pending = <<>> /\ pc' = "stopped"
        /\ UNCHANGED <<job, outbox, events>>
    BY <1>9, Zenon DEF Stop
  <2>2. "stopped" # "run" /\ "idle" # "run" /\ "stopped" # "sweep"
    OBVIOUS
  <2>3. ~ Beginning
    <3>1. ~ RootWaits
      <4>1. 1 .. Len(<<>>) = {}
        OBVIOUS
      <4> QED
        BY <2>1, <4>1, Zenon DEF RootWaits
    <3>2. "new" # "closed"
      OBVIOUS
    <3> QED
      BY <2>1, <2>2, <3>1, <3>2, Zenon DEF Base, BeginInv, Beginning, RootRuns
  <2> QED
    BY <1>1, <1>2, <2>1, <2>2, <2>3, Zenon DEF EngineShape, LineShape, RootRuns
<1> QED
  BY <1>5, <1>6, <1>7, <1>8, <1>9, Zenon

\* The engine takes a command.
LEMMA RecvEffect ==
  ASSUME queue \in Queues, QueueInv(queue), Recv
  PROVE  /\ pc = "idle" /\ outbox = <<>> /\ pc' = "run" /\ events' = events
         /\ outbox' = <<>> \/ outbox' = <<Status(TRUE)>>
         /\ UNCHANGED <<worldVars, refresh, model, inventory, sweptFor, failures, sessionVars>>
         /\ queue' \in Queues /\ QueueInv(queue')
         /\ queue'.generation = queue.generation /\ queue'.disconnected = queue.disconnected
         /\ queue.sweep = <<>> => queue'.sweep = <<>>
         /\ \/ /\ queue.pending # <<>> /\ job' = Head(queue.pending)
               /\ queue'.pending = Tail(queue.pending) /\ queue'.locations = queue.locations
               /\ SameBackground(queue, queue')
            \/ /\ queue.locations # <<>> /\ job' = Head(queue.locations)
               /\ queue'.locations = Tail(queue.locations) /\ queue'.pending = queue.pending
               /\ SameBackground(queue, queue')
            \/ /\ \/ job' \in IndexChunks("neighborhood") \/ job' \in IndexChunks("sweep")
                  \/ job' \in SymbolChunks
               /\ job'.generation = queue.generation
               /\ queue'.pending = queue.pending /\ queue'.locations = queue.locations
               /\ queue.neighborhood # <<>> \/ queue.symbols # <<>> \/ queue.sweep # <<>>
<1> DEFINE c == NextCommand(queue).command
           r == NextCommand(queue).queue
<1>1. /\ pc = "idle" /\ outbox = <<>> /\ c # None /\ pc' = "run" /\ job' = c
      /\ queue' = (IF c.kind = "index" THEN AfterProgress(r) ELSE r)
      /\ outbox' = Announced(c, r)
      /\ UNCHANGED <<worldVars, refresh, model, inventory, sweptFor, failures, events,
                     sessionVars>>
  BY Zenon DEF Recv
<1>2. /\ r \in Queues /\ QueueInv(r)
      /\ \/ /\ queue.pending # <<>> /\ c = Head(queue.pending) /\ r.pending = Tail(queue.pending)
            /\ r.locations = queue.locations /\ SameBackground(queue, r)
         \/ /\ queue.locations # <<>> /\ c = Head(queue.locations)
            /\ r.locations = Tail(queue.locations) /\ r.pending = queue.pending
            /\ SameBackground(queue, r)
         \/ /\ \/ c \in IndexChunks("neighborhood") \/ c \in IndexChunks("sweep")
               \/ c \in SymbolChunks
            /\ c.generation = queue.generation /\ SameFront(queue, r)
            /\ queue.sweep = <<>> => r.sweep = <<>>
            /\ queue.neighborhood # <<>> \/ queue.symbols # <<>> \/ queue.sweep # <<>>
  BY <1>1, CommandTaken, Zenon
<1>3. outbox' = <<>> \/ outbox' = <<Status(TRUE)>>
  BY <1>1, Zenon DEF Announced
<1> HIDE DEF c, r
<1>4. queue.pending \in Seq(Commands) /\ queue.locations \in Seq(Locates)
  BY QueueFields, Zenon
<1>5. \A x \in Commands : x.kind # "index"
  BY DEF Commands
<1>6. \A x \in Locates : x.kind # "index"
  BY DEF Locates
<1>7. CASE /\ queue.pending # <<>> /\ c = Head(queue.pending) /\ r.pending = Tail(queue.pending)
           /\ r.locations = queue.locations /\ SameBackground(queue, r)
  <2>1. c.kind # "index"
    <3>1. c \in Commands
      BY <1>4, <1>7
    <3> QED
      BY <3>1, <1>5, Zenon
  <2>2. queue' = r
    BY <1>1, <2>1, Zenon
  <2> QED
    BY <1>1, <1>2, <1>3, <1>7, <2>2, Zenon DEF SameBackground
<1>8. CASE /\ queue.locations # <<>> /\ c = Head(queue.locations)
           /\ r.locations = Tail(queue.locations) /\ r.pending = queue.pending
           /\ SameBackground(queue, r)
  <2>1. c.kind # "index"
    <3>1. c \in Locates
      BY <1>4, <1>8
    <3> QED
      BY <3>1, <1>6, Zenon
  <2>2. queue' = r
    BY <1>1, <2>1, Zenon
  <2> QED
    BY <1>1, <1>2, <1>3, <1>8, <2>2, Zenon DEF SameBackground
<1>9. CASE /\ \/ c \in IndexChunks("neighborhood") \/ c \in IndexChunks("sweep")
              \/ c \in SymbolChunks
           /\ c.generation = queue.generation /\ SameFront(queue, r)
           /\ queue.sweep = <<>> => r.sweep = <<>>
           /\ queue.neighborhood # <<>> \/ queue.symbols # <<>> \/ queue.sweep # <<>>
  <2>1. /\ AfterProgress(r) \in Queues /\ QueueInv(AfterProgress(r))
        /\ SameFront(r, AfterProgress(r)) /\ AfterProgress(r).sweep = r.sweep
    BY <1>2, ProgressReset, Zenon
  <2>2. queue' = r \/ queue' = AfterProgress(r)
    BY <1>1, Zenon
  <2>3. /\ queue' \in Queues /\ QueueInv(queue') /\ SameFront(queue, queue')
        /\ queue'.sweep = r.sweep
    BY <1>2, <1>9, <2>1, <2>2, Zenon DEF SameFront
  <2> QED
    BY <1>1, <1>3, <1>9, <2>3, Zenon DEF SameFront
<1> QED
  BY <1>2, <1>7, <1>8, <1>9, Zenon

\* The engine's receipt of a command keeps the shape of the system.
LEMMA RecvBase ==
  ASSUME Base, Recv
  PROVE  /\ Base'
         /\ Beginning' <=> Beginning
<1>1. queue \in Queues /\ QueueInv(queue)
  BY Zenon DEF Base, Shape
<1>2. /\ pc = "idle" /\ outbox = <<>> /\ pc' = "run" /\ events' = events
      /\ outbox' = <<>> \/ outbox' = <<Status(TRUE)>>
      /\ UNCHANGED <<worldVars, refresh, model, inventory, sweptFor, failures, sessionVars>>
      /\ queue' \in Queues /\ QueueInv(queue')
      /\ queue'.generation = queue.generation /\ queue'.disconnected = queue.disconnected
      /\ queue.sweep = <<>> => queue'.sweep = <<>>
  BY <1>1, RecvEffect, Zenon
<1>3. \/ /\ queue.pending # <<>> /\ job' = Head(queue.pending)
         /\ queue'.pending = Tail(queue.pending) /\ queue'.locations = queue.locations
         /\ SameBackground(queue, queue')
      \/ /\ queue.locations # <<>> /\ job' = Head(queue.locations)
         /\ queue'.locations = Tail(queue.locations) /\ queue'.pending = queue.pending
         /\ SameBackground(queue, queue')
      \/ /\ \/ job' \in IndexChunks("neighborhood") \/ job' \in IndexChunks("sweep")
            \/ job' \in SymbolChunks
         /\ job'.generation = queue.generation
         /\ queue'.pending = queue.pending /\ queue'.locations = queue.locations
         /\ queue.neighborhood # <<>> \/ queue.symbols # <<>> \/ queue.sweep # <<>>
  BY <1>1, RecvEffect, Zenon
<1>4. /\ UNCHANGED <<disk, buildFile, saves, unreported, refresh, model, inventory, sweptFor>>
      /\ UNCHANGED <<doc, analysis, generation, store, symbols, classes, parked, session>>
  BY <1>2, Zenon DEF worldVars, sessionVars, resultVars
<1>5. WorldShape' /\ SessionShape' /\ ResultShape' /\ EngineShape
  BY <1>4, Zenon DEF Base, Shape, WorldShape, SessionShape, ResultShape
<1>6. /\ outbox' \in Seq(EventSet) /\ LineShape'
      /\ \A x \in ToSet(outbox') : x = Status(TRUE)
  <2>1. Status(TRUE) \in EventSet
    BY DEF Status, EventSet
  <2>2. outbox' \in Seq(EventSet) /\ \A x \in ToSet(outbox') : x = Status(TRUE)
    BY <1>2, <2>1, EventLists, Zenon
  <2> QED
    BY <1>2, <2>2, Zenon DEF Base, Shape, LineShape
<1>7. \A x \in InTransit' : x \in InTransit \/ x.type = "status"
  <2>1. Status(TRUE).type = "status"
    BY DEF Status
  <2> QED
    BY <1>2, <1>6, <2>1, Zenon DEF InTransit
<1>8. /\ queue.pending \in Seq(Commands) /\ queue.locations \in Seq(Locates)
      /\ queue'.pending \in Seq(Commands)
  BY <1>1, <1>2, QueueFields, Zenon
<1>9. "idle" # "run" /\ "run" # "idle" /\ "run" # "sweep"
  OBVIOUS
<1>10. 1 .. Len(<<>>) = {}
  OBVIOUS
<1>11. SUFFICES /\ job' \in Jobs
                /\ Beginning => /\ SameBackground(queue, queue')
                                /\ queue'.locations = queue.locations
                /\ ~ RootWaits'
                /\ Beginning' <=> Beginning
                /\ session.state # "new"
                /\ job'.kind \in {"index", "symbols"} =>
                     job'.generation = queue.generation /\ ~ Beginning
  <2>1. EngineShape'
    BY <1>2, <1>4, <1>5, <1>9, <1>11, Zenon DEF EngineShape
  <2>2. Beginning => NothingYet'
    <3>1. SUFFICES ASSUME Beginning PROVE NothingYet'
      OBVIOUS
    <3> QED
      BY <3>1, <1>4, <1>7, <1>11, Zenon DEF Base, BeginInv, NothingYet, SameBackground
  <2>3. BeginInv'
    BY <1>2, <1>4, <1>11, <2>2, Zenon DEF Base, BeginInv
  <2>4. SweepInv'
    BY <1>2, <1>4, <1>11, Zenon DEF Base, SweepInv
  <2> QED
    BY <1>2, <1>5, <1>6, <1>11, <2>1, <2>3, <2>4, Zenon DEF Base, Shape
<1>12. ~ RootRuns
  BY <1>2, <1>9, Zenon DEF RootRuns
<1>13. ASSUME session.state = "new" PROVE FALSE
  <2>1. /\ queue.pending = <<>> /\ queue.locations = <<>> /\ queue.neighborhood = <<>>
        /\ queue.symbols = <<>> /\ queue.sweep = <<>>
    BY <1>13, Zenon DEF Base, BeginInv, Beginning, NothingYet
  <2> QED
    BY <1>3, <2>1, Zenon
<1>14. Beginning <=> RootWaits
  BY <1>12, <1>13, Zenon DEF Beginning
<1>15. CASE /\ queue.pending # <<>> /\ job' = Head(queue.pending)
            /\ queue'.pending = Tail(queue.pending) /\ queue'.locations = queue.locations
            /\ SameBackground(queue, queue')
  <2>1. /\ Head(queue.pending) = queue.pending[1] /\ Len(queue.pending) \in Nat \ {0}
        /\ Len(queue'.pending) = Len(queue.pending) - 1
        /\ \A i \in 1 .. Len(queue.pending) - 1 : queue'.pending[i] = queue.pending[i + 1]
    BY <1>8, <1>15, TailOf, Zenon
  <2>2. 1 \in 1 .. Len(queue.pending)
    BY <2>1
  <2>3. job' \in Commands
    BY <1>8, <1>15
  <2>4. \A x \in Commands : x.kind \notin {"index", "symbols"}
    BY DEF Commands
  <2>5. RootWaits => job'.kind = "root"
    BY <1>15, <2>1, <2>2, Zenon DEF Base, BeginInv
  <2>6. job'.kind = "root" => RootWaits
    BY <1>15, <2>1, <2>2, Zenon DEF RootWaits
  <2>7. ASSUME RootWaits' PROVE FALSE
    <3>1. PICK i \in 1 .. Len(queue'.pending) : queue'.pending[i].kind = "root"
      BY <2>7, Zenon DEF RootWaits
    <3>2. PICK j \in 1 .. Len(queue.pending) : j # 1 /\ queue.pending[j].kind = "root"
      <4>1. i + 1 \in 1 .. Len(queue.pending) /\ i + 1 # 1 /\ queue.pending[i + 1].kind = "root"
        BY <2>1, <3>1
      <4> QED
        BY <4>1
    <3> QED
      BY <3>2, Zenon DEF Base, BeginInv, RootWaits
  <2>8. RootRuns' <=> RootWaits
    BY <1>2, <2>5, <2>6, Zenon DEF RootRuns
  <2>9. Beginning' <=> Beginning
    BY <1>4, <1>13, <1>14, <2>7, <2>8, Zenon DEF Beginning
  <2> QED
    BY <1>13, <1>15, <2>3, <2>4, <2>7, <2>9, Zenon DEF Jobs
<1>16. CASE /\ queue.locations # <<>> /\ job' = Head(queue.locations)
            /\ queue'.locations = Tail(queue.locations) /\ queue'.pending = queue.pending
            /\ SameBackground(queue, queue')
  <2>1. ~ Beginning
    BY <1>16, Zenon DEF Base, BeginInv, NothingYet
  <2>2. job' \in Locates
    BY <1>8, <1>16
  <2>3. \A x \in Locates : x.kind \notin {"index", "symbols", "root"}
    BY DEF Locates
  <2>4. job'.kind # "root" /\ job'.kind \notin {"index", "symbols"}
    BY <2>2, <2>3
  <2>5. ~ RootWaits' /\ ~ RootRuns'
    BY <1>14, <1>16, <2>1, <2>4, Zenon DEF RootWaits, RootRuns
  <2>6. Beginning' <=> Beginning
    BY <1>4, <1>13, <2>1, <2>5, Zenon DEF Beginning
  <2> QED
    BY <1>13, <2>1, <2>2, <2>4, <2>5, <2>6, Zenon DEF Jobs
<1>17. CASE /\ \/ job' \in IndexChunks("neighborhood") \/ job' \in IndexChunks("sweep")
               \/ job' \in SymbolChunks
            /\ job'.generation = queue.generation
            /\ queue'.pending = queue.pending /\ queue'.locations = queue.locations
            /\ queue.neighborhood # <<>> \/ queue.symbols # <<>> \/ queue.sweep # <<>>
  <2>1. ~ Beginning
    BY <1>17, Zenon DEF Base, BeginInv, NothingYet
  <2>2. job'.kind # "root"
    BY <1>17 DEF IndexChunks, SymbolChunks
  <2>3. ~ RootWaits' /\ ~ RootRuns'
    BY <1>14, <1>17, <2>1, <2>2, Zenon DEF RootWaits, RootRuns
  <2>4. Beginning' <=> Beginning
    BY <1>4, <1>13, <2>1, <2>3, Zenon DEF Beginning
  <2> QED
    BY <1>13, <1>17, <2>1, <2>3, <2>4, Zenon DEF Jobs
<1> QED
  BY <1>3, <1>15, <1>16, <1>17, Zenon

\* Events that the invariants are not about, and lists with one that they are about.
Quietly(s) == s \in Seq(EventSet) /\ \A x \in ToSet(s) : x.type \notin Loud
Raises(s, e) ==
  e \in EventSet /\ \E a, b : Quietly(a) /\ Quietly(b) /\ s = a \o (<<e>> \o b)

\* Quiet lists.
LEMMA QuietLists ==
  /\ Quietly(<<>>) /\ \A x \in EventSet : x.type \notin Loud => Quietly(<<x>>)
  /\ \A a, b : Quietly(a) /\ Quietly(b) => Quietly(a \o b)
  /\ \A w \in BOOLEAN : Quietly(<<Status(w)>>)
<1>1. Quietly(<<>>) /\ \A x \in EventSet : x.type \notin Loud => Quietly(<<x>>)
  <2>1. Quietly(<<>>)
    BY EventLists, Zenon DEF Quietly
  <2>2. ASSUME NEW x \in EventSet, x.type \notin Loud PROVE Quietly(<<x>>)
    <3>1. <<x>> \in Seq(EventSet) /\ ToSet(<<x>>) = {x}
      BY EventLists, Zenon
    <3>2. \A y \in {x} : y.type \notin Loud
      BY <2>2
    <3> QED
      BY <3>1, <3>2, Zenon DEF Quietly
  <2> QED
    BY <2>1, <2>2, Zenon
<1>2. ASSUME NEW a, NEW b, Quietly(a), Quietly(b) PROVE Quietly(a \o b)
  <2>1. a \in Seq(EventSet) /\ b \in Seq(EventSet)
    BY <1>2, Zenon DEF Quietly
  <2>2. a \o b \in Seq(EventSet)
    BY <2>1
  <2>3. \A x : x \in ToSet(a \o b) <=> x \in ToSet(a) \/ x \in ToSet(b)
    BY <2>1, ElementsJoin, Zenon
  <2> QED
    BY <1>2, <2>2, <2>3, Zenon DEF Quietly
<1>3. ASSUME NEW w \in BOOLEAN PROVE Quietly(<<Status(w)>>)
  <2>1. Status(w) \in EventSet /\ Status(w).type \notin Loud
    BY DEF Status, EventSet, Loud
  <2> QED
    BY <1>1, <2>1, Zenon
<1> QED
  BY <1>1, <1>2, <1>3, Zenon

\* A list with one event that counts.
LEMMA RaisedList ==
  ASSUME NEW s, NEW e, Raises(s, e)
  PROVE  /\ s \in Seq(EventSet) /\ e \in ToSet(s)
         /\ \A x \in ToSet(s) : x = e \/ x.type \notin Loud
         /\ \A S : (\A x \in S : x.type \in Loud) => (Free(s, S) <=> e \notin S) /\ Single(s, S)
<1>1. PICK a, b : Quietly(a) /\ Quietly(b) /\ s = a \o (<<e>> \o b)
  BY Zenon DEF Raises
<1>2. a \in Seq(EventSet) /\ b \in Seq(EventSet) /\ e \in EventSet
  BY <1>1, Zenon DEF Quietly, Raises
<1>3. <<e>> \in Seq(EventSet) /\ ToSet(<<e>>) = {e}
  BY <1>2, EventLists, Zenon
<1> DEFINE t == <<e>>
           r == t \o b
<1>4. t \in Seq(EventSet) /\ r \in Seq(EventSet) /\ a \o r \in Seq(EventSet)
  BY <1>2, <1>3
<1>5. /\ \A x : x \in ToSet(r) <=> x \in ToSet(t) \/ x \in ToSet(b)
      /\ \A x : x \in ToSet(a \o r) <=> x \in ToSet(a) \/ x \in ToSet(r)
  BY <1>2, <1>4, ElementsJoin, Zenon
<1>6. \A S : (Free(t, S) <=> e \notin S) /\ Single(t, S)
  <2>1. Len(t) = 1 /\ t[1] = e /\ 1 .. 1 = {1}
    OBVIOUS
  <2> HIDE DEF t
  <2> QED
    BY <2>1 DEF Free, Single
<1>7. ASSUME NEW S, \A x \in S : x.type \in Loud, NEW c, Quietly(c)
      PROVE  Free(c, S) /\ Single(c, S)
  <2>1. \A x : x \in ToSet(c) <=> \E j \in 1 .. Len(c) : c[j] = x
    BY <1>7, Elements, Zenon DEF Quietly
  <2>2. Free(c, S)
    BY <1>7, <2>1, Zenon DEF Quietly, Free
  <2> QED
    BY <2>2, FreeSingle, Zenon
<1> HIDE DEF t
<1>8. ASSUME NEW S, \A x \in S : x.type \in Loud
      PROVE  (Free(s, S) <=> e \notin S) /\ Single(s, S)
  <2>1. Free(a, S) /\ Single(a, S) /\ Free(b, S) /\ Single(b, S)
    BY <1>1, <1>7, <1>8, Zenon
  <2>2. /\ Free(r, S) <=> Free(t, S) /\ Free(b, S)
        /\ Single(r, S) <=> Single(t, S) /\ Single(b, S) /\ (Free(t, S) \/ Free(b, S))
    BY <1>2, <1>4, ListJoin, Zenon
  <2> HIDE DEF r
  <2>3. /\ Free(a \o r, S) <=> Free(a, S) /\ Free(r, S)
        /\ Single(a \o r, S) <=> Single(a, S) /\ Single(r, S) /\ (Free(a, S) \/ Free(r, S))
    BY <1>2, <1>4, ListJoin, Zenon
  <2> QED
    BY <1>1, <1>6, <2>1, <2>2, <2>3, Zenon DEF r, t
<1> QED
  BY <1>1, <1>3, <1>4, <1>5, <1>8, Zenon DEF Quietly, t

\* The lists that the engine sends.
LEMMA RaisedLists ==
  ASSUME NEW e \in EventSet
  PROVE  /\ \A b : Quietly(b) => Raises(<<e>> \o b, e)
         /\ \A a : Quietly(a) => Raises(a \o <<e>>, e)
         /\ \A f : Quietly(<<f>>) => Raises(<<e, f>>, e)
         /\ \A f, b : Quietly(<<f>>) /\ Quietly(b) => Raises(<<e, f>> \o b, e)
<1>1. ASSUME NEW b, Quietly(b) PROVE Raises(<<e>> \o b, e)
  <2>1. <<>> \o (<<e>> \o b) = <<e>> \o b
    <3>1. b \in Seq(EventSet)
      BY <1>1, Zenon DEF Quietly
    <3> QED
      BY <3>1
  <2> QED
    BY <1>1, <2>1, QuietLists, Zenon DEF Raises
<1>2. ASSUME NEW a, Quietly(a) PROVE Raises(a \o <<e>>, e)
  <2>1. a \o (<<e>> \o <<>>) = a \o <<e>>
    <3>1. a \in Seq(EventSet)
      BY <1>2, Zenon DEF Quietly
    <3> QED
      BY <3>1
  <2> QED
    BY <1>2, <2>1, QuietLists, Zenon DEF Raises
<1>3. ASSUME NEW f, Quietly(<<f>>) PROVE Raises(<<e, f>>, e)
  <2>1. <<e, f>> = <<e>> \o <<f>>
    BY EventPair, Zenon
  <2> QED
    BY <1>1, <1>3, <2>1, Zenon
<1>4. ASSUME NEW f, NEW b, Quietly(<<f>>), Quietly(b) PROVE Raises(<<e, f>> \o b, e)
  <2>1. f \in EventSet /\ b \in Seq(EventSet)
    <3>1. <<f>> \in Seq(EventSet) /\ b \in Seq(EventSet)
      BY <1>4, Zenon DEF Quietly
    <3> QED
      BY <3>1
  <2>2. <<e, f>> \o b = <<e>> \o (<<f>> \o b)
    BY <2>1
  <2>3. Quietly(<<f>> \o b)
    BY <1>4, QuietLists, Zenon
  <2> QED
    BY <1>1, <2>2, <2>3, Zenon
<1> QED
  BY <1>1, <1>2, <1>3, <1>4, Zenon

\* The events that end a configuration.
LEMMA FeedbackQuiet ==
  ASSUME NEW b \in BOOLEAN, NEW m, NEW n
  PROVE  Quietly(Feedback(b, m, n))
<1> DEFINE x == [type |-> "project", reanalyze |-> b]
           y == Event("ready")
           r == IF m = 0 /\ n # 0 THEN <<Event("ready")>> ELSE <<>>
<1>1. x \in EventSet /\ x.type \notin Loud /\ y \in EventSet /\ y.type \notin Loud
  BY DEF EventSet, Loud, Event
<1>2. Quietly(<<x>>) /\ Quietly(<<y>>) /\ Quietly(<<>>) /\ Quietly(<<Status(FALSE)>>)
  <2>1. FALSE \in BOOLEAN
    OBVIOUS
  <2> QED
    BY <1>1, <2>1, QuietLists, Zenon
<1>3. Quietly(r)
  BY <1>2, Zenon
<1>4. Quietly(<<x>> \o r)
  BY <1>2, <1>3, QuietLists, Zenon
<1>5. Quietly((<<x>> \o r) \o <<Status(FALSE)>>)
  BY <1>2, <1>4, QuietLists, Zenon
<1>6. Feedback(b, m, n) = (<<x>> \o r) \o <<Status(FALSE)>>
  BY Zenon DEF Feedback
<1> QED
  BY <1>5, <1>6, Zenon

-------------------------------------------------------------------------------
(* The commands the engine runs.                                           *)

\* A step that runs a command, or the sweep after an analysis.
LEMMA RanBase ==
  ASSUME Base, pc \in {"run", "sweep"}, pc' \in {"idle", "sweep"},
         UNCHANGED <<worldVars, events, sessionVars>>, EngineShape', outbox' \in Seq(EventSet),
         queue' \in Queues, QueueInv(queue'), queue'.pending = queue.pending,
         queue'.disconnected = queue.disconnected,
         queue'.generation = queue.generation \/ queue'.generation = queue.generation + 1,
         queue'.sweep # <<>> => sweptFor' = queue'.generation
  PROVE  Base' /\ ~ Beginning'
<1>1. /\ UNCHANGED <<disk, buildFile, saves, unreported, events, session>>
      /\ UNCHANGED <<doc, analysis, generation, store, symbols, classes, parked>>
  BY Zenon DEF worldVars, sessionVars, resultVars
<1>2. BeginInv' /\ QueueInv(queue)' /\ SweepInv' /\ ~ Beginning'
  BY <1>1, RunBase, Zenon
<1>3. WorldShape' /\ LineShape' /\ SessionShape' /\ ResultShape'
  BY <1>1, Zenon DEF Base, Shape, WorldShape, LineShape, SessionShape, ResultShape
<1> QED
  BY <1>2, <1>3, Zenon DEF Base, Shape

\* The engine is idle again.
LEMMA FinishShape ==
  ASSUME NEW o, Finish(o), model' \in Nat, sweptFor' \in Nat,
         inventory' = NotScanned \/ inventory' \subseteq Uris
  PROVE  EngineShape' /\ pc' = "idle" /\ job' = None /\ outbox' = o
<1>1. pc' = "idle" /\ job' = None /\ outbox' = o
  BY Zenon DEF Finish
<1>2. "idle" # "sweep"
  OBVIOUS
<1> QED
  BY <1>1, <1>2, Zenon DEF EngineShape, Jobs

\* A command that runs is not the root unless it is called so.
LEMMA RunningNow ==
  ASSUME Base, (pc = "run" /\ job.kind # "root") \/ pc = "sweep"
  PROVE  ~ Beginning
<1>1. pc # "idle" /\ (pc = "run" => job.kind # "root")
  OBVIOUS
<1> QED
  BY <1>1, Zenon DEF Base, BeginInv, Beginning, RootRuns

\* What is unchanged while the queues, or the model and the sweep, are.
LEMMA EngineFields ==
  ASSUME Base
  PROVE  /\ queue \in Queues /\ QueueInv(queue) /\ queue.generation \in Nat
         /\ queue.pending \in Seq(Commands) /\ queue.disconnected \in BOOLEAN
         /\ model \in Nat /\ sweptFor \in Nat
         /\ buildFile \in Nat /\ (inventory = NotScanned \/ inventory \subseteq Uris)
         /\ queue.sweep # <<>> => sweptFor = queue.generation
         /\ disk \in [Uris -> Nat] /\ outbox \in Seq(EventSet) /\ events \in Seq(EventSet)
         /\ EngineShape /\ LineShape
<1>1. queue \in Queues /\ QueueInv(queue) /\ EngineShape /\ LineShape
  BY Zenon DEF Base, Shape
<1>2. /\ queue.generation \in Nat /\ queue.pending \in Seq(Commands)
      /\ queue.disconnected \in BOOLEAN
  BY <1>1, QueueFields, Zenon
<1> QED
  BY <1>1, <1>2, Zenon DEF Base, Shape, EngineShape, LineShape, WorldShape, SweepInv

\* The root is configured: the session is told of the model's generation.
LEMMA RootBase ==
  ASSUME Base, RunRoot
  PROVE  /\ Base' /\ Beginning /\ ~ Beginning' /\ queue' = queue /\ events' = events
         /\ outbox = <<>> /\ pc' = "idle" /\ job' = None /\ sweptFor' = 0
         /\ Raises(outbox', [type |-> "reset", generation |-> queue.generation])
         /\ UNCHANGED <<worldVars, sessionVars>>
<1> DEFINE r == [type |-> "reset", generation |-> queue.generation]
           f == Feedback(model' # model, model, model')
<1>1. /\ Running("root") /\ sweptFor' = 0 /\ Finish(<<r, Event("globs")>> \o f)
      /\ (Configured \/ NotConfigured)
      /\ UNCHANGED <<queue, worldVars, events, sessionVars>>
  BY Zenon DEF RunRoot
<1>2. /\ queue \in Queues /\ QueueInv(queue) /\ queue.generation \in Nat /\ model \in Nat
      /\ buildFile \in Nat /\ (inventory = NotScanned \/ inventory \subseteq Uris)
  BY EngineFields, Zenon
<1>3. pc = "run" /\ outbox = <<>> /\ job.kind = "root"
  BY <1>1, Zenon DEF Running
<1>4. Beginning
  BY <1>3, Zenon DEF Beginning, RootRuns
<1>5. model' \in Nat /\ (inventory' = NotScanned \/ inventory' \subseteq Uris) /\ sweptFor' \in Nat
  <2>1. 0 \in Nat
    OBVIOUS
  <2> QED
    BY <1>1, <1>2, <2>1 DEF Configured, NotConfigured
<1>6. EngineShape' /\ pc' = "idle" /\ job' = None /\ outbox' = <<r, Event("globs")>> \o f
  BY <1>1, <1>5, FinishShape, Zenon
<1>7. Raises(<<r, Event("globs")>> \o f, r)
  <2>1. r \in EventSet
    BY <1>2 DEF EventSet
  <2>2. Quietly(<<Event("globs")>>)
    <3>1. Event("globs") \in EventSet /\ Event("globs").type \notin Loud
      BY DEF Event, EventSet, Loud
    <3> QED
      BY <3>1, QuietLists, Zenon
  <2>3. Quietly(f)
    BY FeedbackQuiet
  <2> HIDE DEF r, f
  <2> QED
    BY <2>1, <2>2, <2>3, RaisedLists, Zenon
<1> HIDE DEF r, f
<1>8. Raises(outbox', r)
  BY <1>6, <1>7, Zenon
<1>9. outbox' \in Seq(EventSet)
  BY <1>8, RaisedList, Zenon
<1>10. queue.sweep = <<>>
  BY <1>4, Zenon DEF Base, BeginInv, NothingYet
<1>11. Base' /\ ~ Beginning'
  <2>1. pc \in {"run", "sweep"} /\ pc' \in {"idle", "sweep"}
    BY <1>3, <1>6
  <2> QED
    BY <1>1, <1>2, <1>6, <1>9, <1>10, <2>1, RanBase, Zenon
<1> QED
  BY <1>1, <1>3, <1>4, <1>6, <1>8, <1>11, Zenon DEF r

\* Commands that leave the model, and say nothing the invariants are about.
Hushed ==
  /\ ~ Beginning /\ ~ Beginning' /\ outbox = <<>> /\ Quietly(outbox') /\ events' = events
  /\ pc' = "idle" /\ (pc = "sweep" \/ (pc = "run" /\ job.kind \in {"refresh", "request", "change"}))
  /\ SameFront(queue, queue') /\ UNCHANGED <<worldVars, sessionVars, model, sweptFor>>

\* A step of the engine that ends its job without a result and without
\* another model keeps the shape of the system.
LEMMA HushedBase ==
  ASSUME Base, (pc = "run" /\ job.kind \in {"refresh", "request", "change"}) \/ pc = "sweep",
         outbox = <<>>, NEW o, Quietly(o), Finish(o),
         UNCHANGED <<worldVars, events, sessionVars, model, sweptFor>>,
         inventory' = NotScanned \/ inventory' \subseteq Uris,
         queue' \in Queues, QueueInv(queue'), SameFront(queue, queue'), queue'.sweep = queue.sweep
  PROVE  Base' /\ Hushed
<1>1. /\ queue \in Queues /\ QueueInv(queue) /\ model \in Nat /\ sweptFor \in Nat
      /\ queue.sweep # <<>> => sweptFor = queue.generation
  BY EngineFields, Zenon
<1>2. /\ model' = model /\ sweptFor' = sweptFor /\ events' = events
      /\ UNCHANGED <<worldVars, events, sessionVars>>
  BY Zenon
<1>3. EngineShape' /\ pc' = "idle" /\ job' = None /\ outbox' = o
  BY <1>1, <1>2, FinishShape, Zenon
<1>4. pc \in {"run", "sweep"} /\ pc' \in {"idle", "sweep"}
  BY <1>3
<1>5. outbox' \in Seq(EventSet)
  BY <1>3, Zenon DEF Quietly
<1>6. /\ queue'.pending = queue.pending /\ queue'.disconnected = queue.disconnected
      /\ queue'.generation = queue.generation
      /\ queue'.sweep # <<>> => sweptFor' = queue'.generation
  BY <1>1, <1>2, Zenon DEF SameFront
<1>7. Base' /\ ~ Beginning'
  BY <1>2, <1>3, <1>4, <1>5, <1>6, RanBase, Zenon
<1>8. ~ Beginning
  <2>1. (pc = "run" /\ job.kind # "root") \/ pc = "sweep"
    OBVIOUS
  <2> QED
    BY <2>1, RunningNow, Zenon
<1> QED
  BY <1>2, <1>3, <1>7, <1>8, Zenon DEF Hushed

\* A queue that is left as it is.
LEMMA SameQueue ==
  ASSUME NEW q
  PROVE  SameFront(q, q) /\ SameBackground(q, q)
BY Zenon DEF SameFront, SameBackground

\* A refresh that finds nothing new, a sweep put off, a request.
LEMMA CalmRunBase ==
  ASSUME Base, RefreshUnchanged \/ SkipSweep \/ RunRequest
  PROVE  Base' /\ Hushed
<1>1. /\ queue \in Queues /\ QueueInv(queue) /\ EngineShape
      /\ inventory = NotScanned \/ inventory \subseteq Uris
  BY EngineFields, Zenon
<1>2. SameFront(queue, queue)
  BY SameQueue, Zenon
<1>3. CASE RefreshUnchanged
  <2> DEFINE o == Feedback(FALSE, model, model)
  <2>1. /\ Running("refresh") /\ Finish(o)
        /\ UNCHANGED <<queue, worldVars, model, inventory, sweptFor, failures, events,
                       sessionVars>>
    BY <1>3, Zenon DEF RefreshUnchanged
  <2>2. Quietly(o)
    BY FeedbackQuiet
  <2>3. pc = "run" /\ outbox = <<>> /\ job.kind \in {"refresh", "request", "change"}
    BY <2>1 DEF Running
  <2> HIDE DEF o
  <2> QED
    BY <1>1, <1>2, <2>1, <2>2, <2>3, HushedBase, Zenon
<1>4. CASE SkipSweep
  <2>1. /\ pc = "sweep" /\ outbox = <<>> /\ Finish(<<>>)
        /\ UNCHANGED <<queue, worldVars, model, inventory, sweptFor, failures, events,
                       sessionVars>>
    BY <1>4, Zenon DEF SkipSweep
  <2>2. Quietly(<<>>)
    BY QuietLists, Zenon
  <2> QED
    BY <1>1, <1>2, <2>1, <2>2, HushedBase, Zenon
<1>5. CASE RunRequest
  <2> DEFINE e == [type |-> "answer", token |-> job.token]
             o == <<e>>
  <2>1. /\ Running("request") /\ Finish(o)
        /\ UNCHANGED <<queue, worldVars, model, inventory, sweptFor, failures, events,
                       sessionVars>>
    BY <1>5, Zenon DEF RunRequest
  <2>2. pc = "run" /\ outbox = <<>> /\ job.kind = "request"
    BY <2>1, Zenon DEF Running
  <2>3. job.token \in Nat
    BY <1>1, <2>2, JobFields, Zenon
  <2>4. e \in EventSet /\ e.type \notin Loud
    BY <2>3 DEF EventSet, Loud
  <2> HIDE DEF e
  <2>5. Quietly(o)
    BY <2>4, QuietLists, Zenon
  <2>6. job.kind \in {"refresh", "request", "change"}
    BY <2>2
  <2> HIDE DEF o
  <2> QED
    BY <1>1, <1>2, <2>1, <2>2, <2>5, <2>6, HushedBase, Zenon
<1> QED
  BY <1>3, <1>4, <1>5, Zenon

\* The engine queues files unless the client is gone.
LEMMA RaisedQueue ==
  ASSUME NEW q \in Queues, QueueInv(q), NEW r \in Queues, QueueInv(r), SameFront(q, r)
  PROVE  LET t == Raise(q, r)
         IN  /\ t \in Queues /\ QueueInv(t) /\ SameFront(q, t)
             /\ r.sweep = q.sweep => t.sweep = q.sweep
BY Zenon DEF Raise, SameFront

\* A project change: its files are queued, or a refresh is asked for.
LEMMA ChangeBase ==
  ASSUME Base, RunChange
  PROVE  Base' /\ Hushed
<1> DEFINE sources == IF model = 0 THEN {} ELSE job.uris \ {BuildFile}
           q0 == EnqueueSymbols(queue, sources)
           q1 == EnqueueIndex(q0, "neighborhood", sources)
           o == IF job.reanalyze \/ sources # {} THEN <<Event("reanalyze")>> ELSE <<>>
<1>1. /\ Running("change") /\ queue' = Raise(queue, q1) /\ Finish(o)
      /\ UNCHANGED <<worldVars, model, inventory, sweptFor, failures, events, sessionVars>>
  BY Zenon DEF RunChange
<1>2. /\ queue \in Queues /\ QueueInv(queue)
      /\ inventory = NotScanned \/ inventory \subseteq Uris
  BY EngineFields, Zenon
<1>3. pc = "run" /\ outbox = <<>> /\ job.kind = "change"
  BY <1>1, Zenon DEF Running
<1>4. Quietly(o)
  <2>1. Event("reanalyze") \in EventSet /\ Event("reanalyze").type \notin Loud
    BY DEF Event, EventSet, Loud
  <2>2. Quietly(<<Event("reanalyze")>>) /\ Quietly(<<>>)
    BY <2>1, QuietLists, Zenon
  <2> QED
    BY <2>2, Zenon
<1>5. q0 \in Queues /\ QueueInv(q0) /\ SameFront(queue, q0) /\ q0.sweep = queue.sweep
  BY <1>2, SymbolsQueued, Zenon
<1> HIDE DEF q0, o
<1>6. /\ q1 \in Queues /\ QueueInv(q1) /\ SameFront(q0, q1)
      /\ "neighborhood" = "neighborhood" => q1.sweep = q0.sweep
  <2>1. "neighborhood" \in Levels /\ "neighborhood" # "sweep"
    BY DEF Levels
  <2> QED
    BY <1>5, <2>1, IndexQueued, Zenon
<1> HIDE DEF q1
<1>7. SameFront(queue, q1) /\ q1.sweep = queue.sweep
  BY <1>5, <1>6, Zenon DEF SameFront
<1>8. /\ queue' \in Queues /\ QueueInv(queue') /\ SameFront(queue, queue')
      /\ queue'.sweep = queue.sweep
  BY <1>1, <1>2, <1>6, <1>7, RaisedQueue, Zenon
<1>9. job.kind \in {"refresh", "request", "change"}
  BY <1>3
<1> QED
  BY <1>1, <1>2, <1>3, <1>4, <1>8, <1>9, HushedBase, Zenon

\* The model is read again, and what was queued for the old one is dropped.
Remodeled ==
  /\ ~ Beginning /\ ~ Beginning' /\ outbox = <<>> /\ events' = events
  /\ pc = "run" /\ job.kind = "refresh" /\ pc' = "idle" /\ sweptFor' = 0
  /\ Raises(outbox', [type |-> "reset", generation |-> queue'.generation])
  /\ queue'.generation = queue.generation + 1 /\ queue'.pending = queue.pending
  /\ queue'.locations = <<>> /\ UNCHANGED <<worldVars, sessionVars>>

\* A refresh of the project model keeps the shape of the system: it either
\* reports nothing new or begins the next generation.
LEMMA ModelBase ==
  ASSUME Base, RefreshModel
  PROVE  Base' /\ (Hushed \/ Remodeled)
<1>1. /\ queue \in Queues /\ QueueInv(queue) /\ model \in Nat /\ buildFile \in Nat
      /\ inventory = NotScanned \/ inventory \subseteq Uris
  BY EngineFields, Zenon
<1>2. Running("refresh") /\ UNCHANGED <<worldVars, events, sessionVars>>
  BY Zenon DEF RefreshModel
<1>3. pc = "run" /\ outbox = <<>> /\ job.kind = "refresh"
  BY <1>2, Zenon DEF Running
<1>4. CASE /\ NotConfigured /\ Finish(Feedback(FALSE, model, model))
           /\ UNCHANGED <<queue, sweptFor>>
  <2> DEFINE o == Feedback(FALSE, model, model)
  <2>1. Quietly(o)
    BY FeedbackQuiet
  <2>2. model' = model /\ (inventory' = NotScanned \/ inventory' \subseteq Uris)
    BY <1>1, <1>4 DEF NotConfigured
  <2>3. SameFront(queue, queue)
    BY SameQueue, Zenon
  <2>4. job.kind \in {"refresh", "request", "change"}
    BY <1>3
  <2> HIDE DEF o
  <2>5. Finish(o)
    BY <1>4, Zenon DEF o
  <2>6. queue' = queue /\ UNCHANGED <<worldVars, events, sessionVars, model, sweptFor>>
    BY <1>2, <1>4, <2>2, Zenon
  <2> QED
    BY <1>1, <1>3, <2>1, <2>2, <2>3, <2>4, <2>5, <2>6, HushedBase, Zenon
<1>5. CASE /\ Configured /\ queue' = ReplaceGeneration(queue) /\ sweptFor' = 0
           /\ Finish(<<[type |-> "reset", generation |-> queue'.generation]>>
                      \o Feedback(TRUE, model, model'))
  <2> DEFINE r == [type |-> "reset", generation |-> queue'.generation]
             f == Feedback(TRUE, model, model')
  <2>1. /\ queue' \in Queues /\ QueueInv(queue')
        /\ queue'.pending = queue.pending /\ queue'.disconnected = queue.disconnected
        /\ queue'.generation = queue.generation + 1 /\ queue'.locations = <<>>
        /\ queue'.neighborhood = <<>> /\ queue'.sweep = <<>> /\ queue'.symbols = <<>>
    BY <1>1, <1>5, GenerationReplaced, Zenon
  <2>2. model' \in Nat /\ inventory' = NotScanned /\ sweptFor' \in Nat
    <3>1. 0 \in Nat
      OBVIOUS
    <3> QED
      BY <1>1, <1>5, <3>1, Zenon DEF Configured
  <2>3. r \in EventSet
    <3>1. queue'.generation \in Nat
      BY <2>1, QueueFields, Zenon
    <3> QED
      BY <3>1 DEF EventSet
  <2>4. Quietly(f)
    BY FeedbackQuiet
  <2> HIDE DEF r, f
  <2>5. Raises(<<r>> \o f, r)
    BY <2>3, <2>4, RaisedLists, Zenon
  <2>6. EngineShape' /\ pc' = "idle" /\ job' = None /\ outbox' = <<r>> \o f
    <3>1. Finish(<<r>> \o f)
      BY <1>5, Zenon DEF r, f
    <3> QED
      BY <2>2, <3>1, FinishShape, Zenon
  <2>7. outbox' \in Seq(EventSet)
    BY <2>5, <2>6, RaisedList, Zenon
  <2>8. pc \in {"run", "sweep"} /\ pc' \in {"idle", "sweep"} /\ job.kind # "root"
    BY <1>3, <2>6
  <2>9. Base' /\ ~ Beginning'
    BY <1>2, <2>1, <2>6, <2>7, <2>8, RanBase, Zenon
  <2>10. ~ Beginning
    BY <1>3, <2>8, RunningNow, Zenon
  <2> QED
    BY <1>2, <1>3, <1>5, <2>1, <2>5, <2>6, <2>9, <2>10, Zenon DEF Remodeled, r
<1> QED
  BY <1>4, <1>5, Zenon DEF RefreshModel

\* The document has been analyzed.
LEMMA AnalyzeBase ==
  ASSUME Base, RunAnalyze
  PROVE  /\ Base' /\ ~ Beginning /\ ~ Beginning' /\ outbox = <<>> /\ events' = events
         /\ pc = "run" /\ job.kind = "analyze" /\ pc' = "sweep" /\ queue' = queue
         /\ \E e \in Completes : Raises(outbox', e)
         /\ UNCHANGED <<worldVars, sessionVars, model, sweptFor>>
<1>1. PICK p \in BOOLEAN :
        outbox' = <<[type |-> "complete", version |-> job.version, pending |-> p], Status(FALSE)>>
  BY Zenon DEF RunAnalyze
<1>2. /\ Running("analyze") /\ pc' = "sweep"
      /\ UNCHANGED <<queue, worldVars, job, refresh, model, inventory, sweptFor, events,
                     sessionVars>>
  BY Zenon DEF RunAnalyze
<1> DEFINE e == [type |-> "complete", version |-> job.version, pending |-> p]
<1>3. /\ queue \in Queues /\ QueueInv(queue) /\ EngineShape
      /\ queue.sweep # <<>> => sweptFor = queue.generation
  BY EngineFields, Zenon
<1>4. pc = "run" /\ outbox = <<>> /\ job.kind = "analyze"
  BY <1>2, Zenon DEF Running
<1>5. e \in Completes
  <2>1. job.version \in Nat
    BY <1>3, <1>4, JobFields, Zenon
  <2> QED
    BY <2>1 DEF Completes, EventSet
<1> HIDE DEF e
<1>6. Raises(outbox', e)
  <2>1. Quietly(<<Status(FALSE)>>)
    BY QuietLists
  <2>2. e \in EventSet
    BY <1>5, Zenon DEF Completes
  <2>3. Raises(<<e, Status(FALSE)>>, e)
    BY <2>1, <2>2, RaisedLists, Zenon
  <2> QED
    BY <1>1, <2>3, Zenon DEF e
<1>7. outbox' \in Seq(EventSet)
  BY <1>6, RaisedList, Zenon
<1>8. pc' \in {"idle", "run", "sweep", "stopped"} /\ pc \in {"run", "sweep"}
      /\ pc' \in {"idle", "sweep"} /\ job.kind # "root"
  BY <1>2, <1>4
<1>9. EngineShape'
  BY <1>2, <1>3, <1>4, <1>8, Zenon DEF EngineShape
<1>10. UNCHANGED <<worldVars, events, sessionVars>> /\ queue' = queue /\ sweptFor' = sweptFor
  BY <1>2, Zenon
<1>11. Base' /\ ~ Beginning'
  BY <1>3, <1>7, <1>8, <1>9, <1>10, RanBase, Zenon
<1>12. ~ Beginning
  BY <1>4, <1>8, RunningNow, Zenon
<1> QED
  BY <1>2, <1>4, <1>5, <1>6, <1>11, <1>12, Zenon

\* Files are queued again, and the names published once in a generation.
LEMMA SweepBase ==
  ASSUME Base, RaiseSweep
  PROVE  /\ Base' /\ ~ Beginning /\ ~ Beginning' /\ outbox = <<>> /\ events' = events
         /\ pc = "sweep" /\ pc' = "idle" /\ SameFront(queue, queue')
         /\ sweptFor' = queue.generation
         /\ \/ Quietly(outbox')
            \/ /\ sweptFor # queue.generation
               /\ Raises(outbox', [type |-> "names", generation |-> queue.generation])
         /\ UNCHANGED <<worldVars, sessionVars, model>>
<1> DEFINE first == sweptFor # queue.generation
           files == IF inventory = NotScanned THEN {u \in Uris : disk[u] # Gone} ELSE inventory
           near  == IF job.version > 0 THEN files \intersect Neighbors ELSE {}
           qn    == EnqueueIndex(queue, "neighborhood", near)
           q1    == Raise(queue, qn)
           qs    == EnqueueSymbols(q1, files)
           q2    == EnqueueIndex(qs, "sweep", files)
           e     == [type |-> "names", generation |-> queue.generation]
           s     == IF inventory = NotScanned THEN <<Status(TRUE), Status(FALSE)>> ELSE <<>>
           n     == IF first /\ Classes # {} THEN <<e>> ELSE <<>>
<1>1. /\ pc = "sweep" /\ outbox = <<>> /\ inventory' = files /\ sweptFor' = queue.generation
      /\ queue' = (IF first THEN Raise(queue, q2) ELSE q1) /\ Finish(s \o n)
      /\ UNCHANGED <<worldVars, refresh, model, failures, events, sessionVars>>
  BY Zenon DEF RaiseSweep
<1>2. /\ queue \in Queues /\ QueueInv(queue) /\ queue.generation \in Nat /\ model \in Nat
      /\ inventory = NotScanned \/ inventory \subseteq Uris
      /\ queue.sweep # <<>> => sweptFor = queue.generation
  BY EngineFields, Zenon
<1>3. files \subseteq Uris
  BY <1>2
<1>4. "neighborhood" \in Levels /\ "sweep" \in Levels /\ "neighborhood" # "sweep"
  BY DEF Levels
<1>5. /\ qn \in Queues /\ QueueInv(qn) /\ SameFront(queue, qn)
      /\ "neighborhood" = "neighborhood" => qn.sweep = queue.sweep
  BY <1>2, <1>4, IndexQueued, Zenon
<1> HIDE DEF qn, files, e, s
<1>6. q1 \in Queues /\ QueueInv(q1) /\ SameFront(queue, q1) /\ q1.sweep = queue.sweep
  BY <1>2, <1>5, RaisedQueue, Zenon
<1> HIDE DEF q1
<1>7. qs \in Queues /\ QueueInv(qs) /\ SameFront(q1, qs) /\ qs.sweep = q1.sweep
  BY <1>6, SymbolsQueued, Zenon
<1> HIDE DEF qs
<1>8. first => q2 \in Queues /\ QueueInv(q2) /\ SameFront(qs, q2)
  <2>1. SUFFICES ASSUME first PROVE q2 \in Queues /\ QueueInv(q2) /\ SameFront(qs, q2)
    BY Zenon
  <2>2. qs.sweep = <<>>
    BY <1>2, <1>6, <1>7, <2>1, Zenon
  <2> QED
    BY <1>4, <1>7, <2>2, IndexQueued, Zenon
<1> HIDE DEF q2
<1>9. queue' \in Queues /\ QueueInv(queue') /\ SameFront(queue, queue')
  <2>1. CASE first
    <3>1. SameFront(queue, q2)
      BY <1>6, <1>7, <1>8, <2>1, Zenon DEF SameFront
    <3> QED
      BY <1>1, <1>2, <1>8, <2>1, <3>1, RaisedQueue, Zenon
  <2>2. CASE ~ first
    BY <1>1, <1>6, <2>2, Zenon
  <2> QED
    BY <2>1, <2>2, Zenon
<1>10. Quietly(s)
  <2>1. Quietly(<<Status(TRUE)>>) /\ Quietly(<<Status(FALSE)>>) /\ Quietly(<<>>)
    BY QuietLists
  <2>2. <<Status(TRUE), Status(FALSE)>> = <<Status(TRUE)>> \o <<Status(FALSE)>>
    <3>1. Status(TRUE) \in EventSet /\ Status(FALSE) \in EventSet
      BY DEF Status, EventSet
    <3> QED
      BY <3>1, EventPair, Zenon
  <2>3. Quietly(<<Status(TRUE), Status(FALSE)>>)
    BY <2>1, <2>2, QuietLists, Zenon
  <2> QED
    BY <2>1, <2>3, Zenon DEF s
<1>11. Quietly(s \o n) \/ (first /\ Raises(s \o n, e))
  <2>1. e \in EventSet
    BY <1>2 DEF e, EventSet
  <2>2. CASE first /\ Classes # {}
    BY <1>10, <2>1, <2>2, RaisedLists, Zenon
  <2>3. CASE ~ (first /\ Classes # {})
    <3>1. n = <<>> /\ Quietly(<<>>)
      BY <2>3, QuietLists, Zenon
    <3> QED
      BY <1>10, <3>1, QuietLists, Zenon
  <2> QED
    BY <2>2, <2>3, Zenon
<1>12. s \o n \in Seq(EventSet)
  BY <1>11, RaisedList, Zenon DEF Quietly
<1> HIDE DEF n
<1>13. EngineShape' /\ pc' = "idle" /\ job' = None /\ outbox' = s \o n
  <2>1. model' \in Nat /\ sweptFor' \in Nat /\ inventory' \subseteq Uris
    BY <1>1, <1>2, <1>3, Zenon
  <2> QED
    BY <1>1, <2>1, FinishShape, Zenon
<1>14. pc \in {"run", "sweep"} /\ pc' \in {"idle", "sweep"}
  BY <1>1, <1>13
<1>15. Base' /\ ~ Beginning'
  BY <1>1, <1>9, <1>12, <1>13, <1>14, RanBase, Zenon DEF SameFront
<1>16. ~ Beginning
  BY <1>1, RunningNow, Zenon
<1> QED
  BY <1>1, <1>9, <1>11, <1>13, <1>15, <1>16, Zenon DEF e

\* A result: what it holds of a file is the file's version, under the model.
Found(e) ==
  /\ e \in EventSet /\ IsResult(e) /\ e.generation = queue.generation
  /\ \A u \in Uris : e.found[u] # Unknown =>
       e.found[u] = [version |-> disk[u], model |-> model] /\ disk[u] # Gone
  /\ e.conclusive => \A u \in e.attempted : disk[u] # Gone => e.found[u] # Unknown

\* A result of a chunk says of each file of the chunk what the disk holds
\* under the model the engine has.
LEMMA ResultFound ==
  ASSUME Base, pc = "run", job.kind \in {"index", "symbols"}, NEW t \in {"index", "symbols"},
         NEW some \in SUBSET ToSet(job.uris), NEW b \in BOOLEAN, b => some = ToSet(job.uris)
  PROVE  Found(Result(t, ToSet(job.uris), some, b)) /\ Result(t, ToSet(job.uris), some, b).type = t
<1> DEFINE all == ToSet(job.uris)
           found == [u \in Uris |-> IF u \in some /\ disk[u] # Gone
                                    THEN [version |-> disk[u], model |-> model] ELSE Unknown]
           e == Result(t, all, some, b)
<1>1. EngineShape /\ model \in Nat /\ disk \in [Uris -> Nat] /\ queue.generation \in Nat
  BY EngineFields, Zenon
<1>2. job.uris \in Seq(Uris) /\ job.generation \in Nat
  BY <1>1, JobFields, Zenon
<1>3. all \in SUBSET Uris
  BY <1>2, Elements, Zenon
<1>4. job.generation = queue.generation
  BY Zenon DEF Base, SweepInv
<1> HIDE DEF all
<1>5. found \in [Uris -> Findings]
  BY <1>1 DEF Findings, Unknown, Gone
<1>6. e = [type |-> t, generation |-> job.generation, attempted |-> all, conclusive |-> b,
           found |-> found]
  BY Zenon DEF Result
<1> HIDE DEF found, e
<1>7. e \in EventSet
  <2>1. e \in [type : {"index", "symbols"}, generation : Nat, attempted : SUBSET Uris,
               conclusive : BOOLEAN, found : [Uris -> Findings]]
    BY <1>2, <1>3, <1>5, <1>6
  <2> QED
    BY <2>1, Zenon DEF EventSet
<1>8. e.type = t /\ e.generation = job.generation /\ e.attempted = all /\ e.found = found
  BY <1>6
<1>9. e.conclusive <=> b
  BY <1>6, Zenon
<1>10. \A u \in Uris : found[u] # Unknown =>
         found[u] = [version |-> disk[u], model |-> model] /\ disk[u] # Gone
  BY Zenon DEF found
<1>11. \A u \in Uris : u \in some /\ disk[u] # Gone => found[u] # Unknown
  <2>1. SUFFICES ASSUME NEW u \in Uris, u \in some, disk[u] # Gone PROVE found[u] # Unknown
    BY Zenon
  <2>2. found[u] = [version |-> disk[u], model |-> model]
    BY <2>1, Zenon DEF found
  <2> QED
    BY <2>1, <2>2 DEF Unknown
<1>12. IsResult(e)
  BY <1>8, Zenon DEF IsResult
<1>13. Found(e)
  <2>1. ASSUME e.conclusive, NEW u \in e.attempted, disk[u] # Gone PROVE e.found[u] # Unknown
    <3>1. u \in Uris /\ u \in some
      BY <1>3, <1>8, <1>9, <2>1 DEF all
    <3> QED
      BY <1>8, <1>11, <2>1, <3>1, Zenon
  <2> QED
    BY <1>4, <1>7, <1>8, <1>10, <1>12, <2>1, Zenon DEF Found
<1> QED
  BY <1>8, <1>13, Zenon DEF e, all

\* A chunk has been indexed.
LEMMA ResultBase ==
  ASSUME Base, RunIndex \/ RunSymbols
  PROVE  /\ Base' /\ ~ Beginning /\ ~ Beginning' /\ outbox = <<>> /\ events' = events
         /\ pc = "run" /\ job.kind \in {"index", "symbols"} /\ pc' = "idle" /\ queue' = queue
         /\ \E e : Raises(outbox', e) /\ Found(e)
         /\ UNCHANGED <<worldVars, sessionVars, model, sweptFor>>
<1> DEFINE all == ToSet(job.uris)
<1>1. /\ queue \in Queues /\ QueueInv(queue) /\ model \in Nat /\ sweptFor \in Nat
      /\ inventory = NotScanned \/ inventory \subseteq Uris
      /\ queue.sweep # <<>> => sweptFor = queue.generation
  BY EngineFields, Zenon
<1>2. /\ pc = "run" /\ outbox = <<>> /\ job.kind \in {"index", "symbols"}
      /\ UNCHANGED <<queue, worldVars, model, inventory, sweptFor, events, sessionVars>>
  BY DEF RunIndex, RunSymbols, Running
<1>3. \E o, e : Finish(o) /\ Raises(o, e) /\ Found(e)
  <2>1. ASSUME NEW e, Found(e), NEW b, Quietly(b) PROVE Raises(<<e>> \o b, e)
    BY <2>1, RaisedLists, Zenon DEF Found
  <2>2. CASE RunIndex
    <3> DEFINE last == IF Outstanding(queue) THEN <<>> ELSE <<Status(FALSE)>>
    <3>1. Quietly(last)
      <4>1. Quietly(<<>>) /\ Quietly(<<Status(FALSE)>>)
        BY QuietLists
      <4> QED
        BY <4>1, Zenon
    <3>2. PICK some \in SUBSET all, b \in BOOLEAN :
            (b => some = all) /\ Finish(<<Result("index", all, some, b)>> \o last)
      <4>1. \/ Finish(<<Result("index", all, all, TRUE)>> \o last)
            \/ \E some \in SUBSET all : Finish(<<Result("index", all, some, FALSE)>> \o last)
        BY <2>2, Zenon DEF RunIndex
      <4>2. all \in SUBSET all /\ TRUE \in BOOLEAN /\ FALSE \in BOOLEAN
        OBVIOUS
      <4> QED
        BY <4>1, <4>2, Zenon
    <3>3. "index" \in {"index", "symbols"}
      OBVIOUS
    <3>4. Found(Result("index", all, some, b))
      BY <1>2, <3>2, <3>3, ResultFound, Zenon
    <3> HIDE DEF last
    <3> QED
      BY <2>1, <3>1, <3>2, <3>4, Zenon
  <2>3. CASE RunSymbols
    <3>1. Finish(<<Result("symbols", all, all, TRUE)>>)
      BY <2>3, Zenon DEF RunSymbols
    <3>2. "symbols" \in {"index", "symbols"} /\ all \in SUBSET all /\ TRUE \in BOOLEAN
      OBVIOUS
    <3>3. Found(Result("symbols", all, all, TRUE))
      BY <1>2, <3>2, ResultFound, Zenon
    <3>4. \A x : <<x>> \o <<>> = <<x>>
      OBVIOUS
    <3>5. Raises(<<Result("symbols", all, all, TRUE)>> \o <<>>, Result("symbols", all, all, TRUE))
      BY <2>1, <3>3, QuietLists, Zenon
    <3> QED
      BY <3>1, <3>3, <3>4, <3>5, Zenon
  <2> QED
    BY <2>2, <2>3, Zenon
<1>4. PICK o, e : Finish(o) /\ Raises(o, e) /\ Found(e)
  BY <1>3, Zenon
<1>5. /\ queue' = queue /\ model' = model /\ inventory' = inventory /\ sweptFor' = sweptFor
      /\ UNCHANGED <<worldVars, events, sessionVars>>
  BY <1>2, Zenon
<1>6. EngineShape' /\ pc' = "idle" /\ job' = None /\ outbox' = o
  BY <1>1, <1>4, <1>5, FinishShape, Zenon
<1>7. outbox' \in Seq(EventSet)
  BY <1>4, <1>6, RaisedList, Zenon
<1>8. pc \in {"run", "sweep"} /\ pc' \in {"idle", "sweep"} /\ job.kind # "root"
  BY <1>2, <1>6
<1>9. Base' /\ ~ Beginning'
  BY <1>1, <1>5, <1>6, <1>7, <1>8, RanBase, Zenon
<1>10. ~ Beginning
  BY <1>2, <1>8, RunningNow, Zenon
<1> QED
  BY <1>2, <1>4, <1>5, <1>6, <1>9, <1>10, Zenon

\* Classes have been located, or are of an earlier generation.
LEMMA LocateBase ==
  ASSUME Base, RunLocate
  PROVE  /\ Base' /\ ~ Beginning /\ ~ Beginning' /\ outbox = <<>> /\ events' = events
         /\ pc = "run" /\ job.kind = "locate" /\ pc' = "idle" /\ queue' = queue
         /\ \/ job.generation # queue.generation /\ Quietly(outbox')
            \/ \E e \in EventSet :
                 /\ Raises(outbox', e) /\ e.type = "located" /\ e.generation = job.generation
                 /\ e.attempted = job.candidates
         /\ UNCHANGED <<worldVars, sessionVars, model, sweptFor>>
<1>1. /\ queue \in Queues /\ QueueInv(queue) /\ model \in Nat /\ sweptFor \in Nat
      /\ inventory = NotScanned \/ inventory \subseteq Uris
      /\ queue.sweep # <<>> => sweptFor = queue.generation
  BY EngineFields, Zenon
<1>2. /\ Running("locate")
      /\ UNCHANGED <<queue, worldVars, model, inventory, sweptFor, events, sessionVars>>
      /\ IF job.generation # queue.generation THEN Finish(<<>>)
         ELSE \E found \in SUBSET job.candidates :
                Finish(<<[type |-> "located", generation |-> job.generation,
                          attempted |-> job.candidates, found |-> found]>>)
  BY Zenon DEF RunLocate
<1>3. pc = "run" /\ outbox = <<>> /\ job.kind = "locate"
  BY <1>2, Zenon DEF Running
<1>4. job.candidates \in SUBSET Classes /\ job.generation \in Nat
  BY <1>3, EngineFields, JobFields, Zenon
<1> DEFINE Told(o) ==
      \/ job.generation # queue.generation /\ Quietly(o)
      \/ \E e \in EventSet :
           /\ Raises(o, e) /\ e.type = "located" /\ e.generation = job.generation
           /\ e.attempted = job.candidates
<1>5. PICK o : Finish(o) /\ Told(o)
  <2>1. CASE job.generation # queue.generation
    BY <1>2, <2>1, QuietLists, Zenon
  <2>2. CASE job.generation = queue.generation
    <3>1. PICK found \in SUBSET job.candidates :
            Finish(<<[type |-> "located", generation |-> job.generation,
                      attempted |-> job.candidates, found |-> found]>>)
      BY <1>2, <2>2, Zenon
    <3> DEFINE e == [type |-> "located", generation |-> job.generation,
                     attempted |-> job.candidates, found |-> found]
    <3>2. e \in EventSet
      BY <1>4 DEF EventSet
    <3>3. e.type = "located" /\ e.generation = job.generation /\ e.attempted = job.candidates
      OBVIOUS
    <3> HIDE DEF e
    <3>4. \A x : <<x>> \o <<>> = <<x>>
      OBVIOUS
    <3>5. Raises(<<e>> \o <<>>, e)
      BY <3>2, QuietLists, RaisedLists, Zenon
    <3>6. Raises(<<e>>, e) /\ Finish(<<e>>)
      BY <3>1, <3>4, <3>5, Zenon DEF e
    <3> QED
      BY <3>2, <3>3, <3>6, Zenon
  <2> QED
    BY <2>1, <2>2, Zenon
<1>6. /\ queue' = queue /\ model' = model /\ inventory' = inventory /\ sweptFor' = sweptFor
      /\ UNCHANGED <<worldVars, events, sessionVars>>
  BY <1>2, Zenon
<1>7. EngineShape' /\ pc' = "idle" /\ job' = None /\ outbox' = o
  BY <1>1, <1>5, <1>6, FinishShape, Zenon
<1>8. outbox' \in Seq(EventSet)
  BY <1>5, <1>7, RaisedList, Zenon DEF Quietly
<1>9. pc \in {"run", "sweep"} /\ pc' \in {"idle", "sweep"} /\ job.kind # "root"
  BY <1>3, <1>7
<1>10. Base' /\ ~ Beginning'
  BY <1>1, <1>6, <1>7, <1>8, <1>9, RanBase, Zenon
<1>11. ~ Beginning
  BY <1>3, <1>9, RunningNow, Zenon
<1> QED
  BY <1>3, <1>5, <1>6, <1>7, <1>10, <1>11, Zenon

-------------------------------------------------------------------------------
(* The queues agree.                                                       *)

\* The state the program starts in.
LEMMA InitBase == Init => Base
<1> SUFFICES ASSUME Init PROVE Base
  OBVIOUS
<1>1. /\ queue = EmptyQueue
      /\ disk = [u \in Uris |-> 1] /\ buildFile = 1 /\ saves = 0 /\ unreported = {}
      /\ pc = "idle" /\ job = None /\ outbox = <<>> /\ events = <<>>
      /\ refresh = "none" /\ model = 0 /\ inventory = NotScanned /\ sweptFor = 0
      /\ doc = [version |-> 0, analyzed |-> 0]
      /\ analysis = [dirty |-> FALSE, inFlight |-> FALSE, ready |-> FALSE, retry |-> FALSE]
      /\ generation = 0
      /\ store = [u \in Uris |-> Unknown] /\ symbols = [u \in Uris |-> Unknown]
      /\ classes = [names |-> {}, located |-> {}, requested |-> {}]
      /\ parked = [waiting |-> {}, asked |-> 0]
      /\ session = [state |-> "new", watching |-> FALSE, token |-> FALSE]
  BY Zenon DEF Init
<1>2. /\ queue \in Queues /\ QueueInv(queue) /\ queue.pending = <<>> /\ queue.generation = 0
      /\ queue.locations = <<>> /\ queue.neighborhood = <<>> /\ queue.sweep = <<>>
      /\ queue.symbols = <<>> /\ ~ queue.disconnected
  <2> DEFINE q == NewQueue(<<>>, FALSE, 0)
  <2>1. <<>> \in Seq(Commands) /\ 0 \in Nat /\ FALSE \in BOOLEAN
    OBVIOUS
  <2>2. /\ q \in Queues /\ QueueInv(q)
        /\ q.pending = <<>> /\ q.disconnected = FALSE /\ q.generation = 0
        /\ q.locations = <<>> /\ q.neighborhood = <<>> /\ q.sweep = <<>>
        /\ q.symbols = <<>>
    BY <2>1, EmptyAccounted, ZenonT(60)
  <2>3. q = EmptyQueue
    <3>1. /\ EmptyQueue.pending = <<>> /\ EmptyQueue.generation = 0
          /\ EmptyQueue = [f \in DOMAIN EmptyQueue |-> EmptyQueue[f]]
      BY DEF EmptyQueue
    <3>2. EmptyQueue.disconnected = FALSE
      BY Zenon DEF EmptyQueue
    <3>3. \A f \in DOMAIN EmptyQueue : q[f] = EmptyQueue[f]
      BY <3>1, <3>2, Zenon DEF NewQueue
    <3> QED
      BY <3>1, <3>3, Zenon DEF NewQueue
  <2> QED
    BY <1>1, <2>2, <2>3, Zenon
<1>3. WorldShape
  BY <1>1 DEF WorldShape
<1>4. EngineShape
  BY <1>1 DEF EngineShape, Jobs
<1>5. LineShape /\ Line = <<>> /\ InTransit = {}
  <2>1. <<>> \o <<>> = <<>>
    OBVIOUS
  <2> QED
    BY <1>1, <2>1, EventLists, Zenon DEF LineShape, Line, InTransit
<1>6. SessionShape
  <2>1. doc \in [version : Nat, analyzed : Nat] /\ parked \in [waiting : SUBSET Nat, asked : Nat]
    BY <1>1
  <2>2. analysis \in Markers
    BY <1>1 DEF Markers
  <2>3. session \in [state : {"new", "open", "closed"}, watching : BOOLEAN, token : BOOLEAN]
    BY <1>1
  <2> QED
    BY <2>1, <2>2, <2>3, Zenon DEF SessionShape
<1>7. [u \in Uris |-> Unknown] \in [Uris -> Findings]
  BY DEF Unknown, Findings, Gone
<1>8. ResultShape
  <2>1. classes \in [names : SUBSET Classes, located : SUBSET Classes, requested : SUBSET Classes]
    BY <1>1
  <2>2. generation \in Nat
    BY <1>1
  <2> QED
    BY <1>1, <1>7, <2>1, <2>2, Zenon DEF ResultShape
<1>9. session.state = "new" /\ session.state # "closed" /\ pc # "run"
  BY <1>1
<1>10. ~ analysis.ready /\ ~ analysis.inFlight
  BY <1>1, Zenon
<1>11. NothingYet
  <2>1. classes.names = {} /\ classes.requested = {}
    BY <1>1
  <2>2. \A u \in Uris : store[u] = Unknown /\ symbols[u] = Unknown
    BY <1>1, Zenon
  <2> QED
    BY <1>1, <1>2, <1>5, <1>10, <2>1, <2>2, Zenon DEF NothingYet
<1>12. ~ RootWaits
  <2>1. 1 .. Len(<<>>) = {}
    OBVIOUS
  <2> QED
    BY <1>2, <2>1, Zenon DEF RootWaits
<1>13. BeginInv
  BY <1>1, <1>2, <1>5, <1>9, <1>11, <1>12, Zenon DEF BeginInv
<1>14. SweepInv
  BY <1>2, <1>9, Zenon DEF SweepInv
<1> QED
  BY <1>2, <1>3, <1>4, <1>5, <1>6, <1>8, <1>13, <1>14, Zenon DEF Base, Shape

\* Nothing happens.
LEMMA StutterBase == Base /\ UNCHANGED vars => Base'
<1> SUFFICES ASSUME Base, UNCHANGED vars PROVE Base'
  OBVIOUS
<1>1. UNCHANGED <<queue, engineVars, events, sessionVars>> /\ UNCHANGED worldVars
  BY Zenon DEF vars
<1>2. WorldShape'
  BY <1>1, Zenon DEF Base, Shape, WorldShape, worldVars
<1> QED
  BY <1>1, <1>2, StillBase, Zenon

\* Every step keeps the queues in order.
LEMMA NextBase == Base /\ [Next]_vars => Base'
<1> SUFFICES ASSUME Base, [Next]_vars PROVE Base'
  OBVIOUS
<1>1. CASE World
  BY <1>1, WorldBase, Zenon
<1>2. CASE Client
  <2>1. CASE Initialize
    BY <2>1, InitializeBase, Zenon
  <2>2. CASE Edit \/ Reports \/ Request
    BY <2>2, MessageBase, Zenon DEF Message
  <2>3. CASE Exit
    BY <2>3, ExitBase, Zenon
  <2>4. ASSUME NEW S \in SUBSET Classes, Query(S) PROVE Base'
    BY <2>4, QueryBase, Zenon
  <2> QED
    BY <1>2, <2>1, <2>2, <2>3, <2>4, Zenon DEF Client
<1>3. CASE RetryDue
  BY <1>3, MessageBase, Zenon DEF Message
<1>4. CASE Events
  BY <1>4, HandleBase, QuietBase, Zenon DEF Events
<1>5. CASE Engine
  <2>1. CASE Recv
    BY <2>1, RecvBase, Zenon
  <2>2. CASE Timeout \/ Stop \/ Send
    BY <2>2, QuietBase, Zenon
  <2>3. CASE Run
    BY <2>3, RootBase, CalmRunBase, ModelBase, AnalyzeBase, SweepBase, ResultBase, LocateBase,
       ChangeBase, Zenon DEF Run
  <2> QED
    BY <1>5, <2>1, <2>2, <2>3, Zenon DEF Engine
<1>6. CASE Elapse
  BY <1>6, QuietBase, Zenon
<1>7. CASE Stopped \/ UNCHANGED vars
  BY <1>7, StutterBase, Zenon DEF Stopped
<1> QED
  BY <1>1, <1>2, <1>3, <1>4, <1>5, <1>6, <1>7, Zenon DEF Next

(* The queues agree in every state: the ownership map, the three deques    *)
(* and the two progress numbers.                                           *)
THEOREM QueuesAlwaysAgree == Spec => []QueuesAgree
<1>1. Base => QueuesAgree
  BY Accounted, Zenon DEF Base, Shape, QueuesAgree
<1> QED
  BY <1>1, InitBase, NextBase, PTL DEF Spec

-------------------------------------------------------------------------------
(* Steps that do not concern a group of the invariants.                    *)

\* No event of these types comes or goes, and the line is still one of events.
LEMMA CalmLine ==
  ASSUME LineShape, LineShape', NEW types, Calm(Line, Line', types)
  PROVE  /\ Line \in Seq(EventSet) /\ Line' \in Seq(EventSet)
         /\ InTransit \subseteq EventSet /\ InTransit' \subseteq EventSet
         /\ \A x : x \in InTransit <=> x \in ToSet(Line)
         /\ \A x : x \in InTransit' <=> x \in ToSet(Line')
         /\ \A x : x.type \in types => (x \in InTransit' <=> x \in InTransit)
         /\ \A S : (\A x \in S : x.type \in types) => Alike(Line, Line', S)
<1>1. /\ Line \in Seq(EventSet) /\ InTransit \subseteq EventSet
      /\ \A x : x \in InTransit <=> x \in ToSet(Line)
  BY LineNow, Zenon
<1>2. /\ Line' \in Seq(EventSet) /\ InTransit' \subseteq EventSet
      /\ \A x : x \in InTransit' <=> x \in ToSet(Line')
  BY LineNext, Zenon
<1>3. /\ \A x : x.type \in types => (x \in ToSet(Line') <=> x \in ToSet(Line))
      /\ \A S : (\A x \in S : x.type \in types) => Alike(Line, Line', S)
  BY <1>1, CalmAlike, Zenon
<1> QED
  BY <1>1, <1>2, <1>3, Zenon

\* A list is like itself.
LEMMA AlikeSelf ==
  ASSUME NEW s, NEW S
  PROVE  Alike(s, s, S)
BY Zenon DEF Alike

\* The account of the analysis in flight survives a step that neither sends,
\* runs nor completes an analysis.
LEMMA AnalyzeSame ==
  ASSUME LineShape, LineShape', AnalyzeInv, Calm(Line, Line', {"complete"}),
         Alike(queue.pending, queue'.pending, Analyses), AnalyzeRuns' <=> AnalyzeRuns,
         analysis'.inFlight <=> analysis.inFlight
  PROVE  AnalyzeInv'
<1>1. \A x \in Completes : x.type \in {"complete"}
  BY DEF Completes
<1>2. Alike(Line, Line', Completes)
  BY <1>1, CalmLine, Zenon
<1> QED
  BY <1>2, Zenon DEF AnalyzeInv, Exactly, Alike

\* The account of the requested classes survives a step that neither
\* requests, runs nor reports a location, and resets nothing.
LEMMA LocateSame ==
  ASSUME LineShape, LineShape', LocateInv, Calm(Line, Line', {"located", "reset"}),
         queue'.locations = queue.locations, generation' = generation,
         classes'.requested = classes.requested,
         \/ pc' = pc /\ job' = job
         \/ ~ (pc = "run" /\ job.kind = "locate") /\ ~ (pc' = "run" /\ job'.kind = "locate")
  PROVE  LocateInv'
<1>1. /\ \A x : x.type \in {"located", "reset"} => (x \in InTransit' <=> x \in InTransit)
      /\ \A S : (\A x \in S : x.type \in {"located", "reset"}) => Alike(Line, Line', S)
  BY CalmLine, Zenon
<1>2. /\ \A x : x.type = "located" => (x \in InTransit' <=> x \in InTransit)
      /\ \A x : x.type = "reset" => (x \in InTransit' <=> x \in InTransit)
  BY <1>1
<1>3. ResetComes' <=> ResetComes
  BY <1>2, Zenon DEF ResetComes
<1>4. ASSUME NEW c \in Classes
      PROVE  /\ Alike(Line, Line', LocatedOf(generation, c))
             /\ LocateRuns(generation, c)' <=> LocateRuns(generation, c)
  <2>1. \A x \in LocatedOf(generation, c) : x.type \in {"located", "reset"}
    BY DEF LocatedOf
  <2>2. Alike(Line, Line', LocatedOf(generation, c))
    BY <1>1, <2>1, Zenon
  <2>3. LocateRuns(generation, c)' <=> LocateRuns(generation, c)
    BY Zenon DEF LocateRuns
  <2> QED
    BY <2>2, <2>3, Zenon
<1>5. ASSUME NEW c \in Classes, ~ ResetComes'
      PROVE  Exactly(queue.locations, LocatesOf(generation, c), LocateRuns(generation, c),
                     Line, LocatedOf(generation, c), c \in classes.requested)'
  <2>1. Exactly(queue.locations, LocatesOf(generation, c), LocateRuns(generation, c),
                Line, LocatedOf(generation, c), c \in classes.requested)
    BY <1>3, <1>5, Zenon DEF LocateInv
  <2>2. /\ LocatesOf(generation, c)' = LocatesOf(generation, c)
        /\ LocatedOf(generation, c)' = LocatedOf(generation, c)
    BY Zenon DEF LocatesOf, LocatedOf
  <2> QED
    BY <1>4, <2>1, <2>2, Zenon DEF Exactly, Alike
<1> QED
  BY <1>2, <1>5, Zenon DEF LocateInv

\* The account of the class names survives a step that sends and handles no
\* list of names.
LEMMA NamesSame ==
  ASSUME LineShape, LineShape', NamesInv, Calm(Line, Line', {"names"}),
         generation' = generation, queue'.generation = queue.generation,
         classes'.names = classes.names, classes'.requested \subseteq classes'.names,
         sweptFor' = sweptFor \/ sweptFor' = queue.generation
  PROVE  NamesInv'
<1>1. /\ \A x : x.type \in {"names"} => (x \in InTransit' <=> x \in InTransit)
      /\ \A S : (\A x \in S : x.type \in {"names"}) => Alike(Line, Line', S)
  BY CalmLine, Zenon
<1>2. \A x : x.type = "names" => (x \in InTransit' <=> x \in InTransit)
  BY <1>1
<1>3. \A g \in Nat : Single(Line', NamesOf(g))
  <2>1. \A g \in Nat : \A x \in NamesOf(g) : x.type \in {"names"}
    BY DEF NamesOf
  <2>2. \A g \in Nat : Alike(Line, Line', NamesOf(g))
    BY <1>1, <2>1, Zenon
  <2> QED
    BY <2>2, Zenon DEF NamesInv, Alike
<1>4. classes'.requested \subseteq classes'.names
  BY Zenon
<1>5. \A e \in InTransit' : e.type = "names" =>
        /\ e.generation <= queue'.generation
        /\ e.generation = generation' => classes'.names = {}
        /\ e.generation = queue'.generation => sweptFor' = queue'.generation
  BY <1>2, Zenon DEF NamesInv
<1>6. (sweptFor' # queue'.generation /\ generation' = queue'.generation) => classes'.names = {}
  BY Zenon DEF NamesInv
<1> QED
  BY <1>3, <1>4, <1>5, <1>6, Zenon DEF NamesInv

\* The order of the resets survives a step that sends and handles none.
LEMMA ResetSame ==
  ASSUME LineShape, LineShape', ResetInv, Calm(Line, Line', {"reset"}),
         generation' = generation, queue'.generation = queue.generation, Beginning => Beginning'
  PROVE  ResetInv'
<1>1. /\ \A x : x.type \in {"reset"} => (x \in InTransit' <=> x \in InTransit)
      /\ Line \in Seq(EventSet)
  BY CalmLine, Zenon
<1>2. \A x : x.type = "reset" => (x \in InTransit' <=> x \in InTransit)
  BY <1>1
<1>3. Ordered(Line)
  BY Zenon DEF ResetInv, Ordered
<1>4. Ordered(Line')
  BY <1>1, <1>3, CalmOrder, Zenon
<1>5. \A i, j \in 1 .. Len(Line') :
        Line'[i].type = "reset" /\ Line'[j].type = "reset" /\ i < j =>
          Line'[i].generation < Line'[j].generation
  BY <1>4, Zenon DEF Ordered
<1> QED
  BY <1>2, <1>5, Zenon DEF ResetInv

\* No result and no reset enters or leaves, and what they are compared with stays.
LEMMA ResultSame ==
  ASSUME LineShape, LineShape', generation \in Nat, ResultInv,
         Calm(Line, Line', {"reset", "index", "symbols"}),
         queue'.generation = queue.generation, UNCHANGED <<generation, store, symbols, model>>
  PROVE  ResultInv'
<1>1. /\ \A x : x.type \in {"reset", "index", "symbols"} => (x \in InTransit' <=> x \in InTransit)
      /\ Line \in Seq(EventSet)
  BY CalmLine, Zenon
<1>2. \A x : IsResult(x) => (x \in InTransit' <=> x \in InTransit)
  BY <1>1 DEF IsResult
<1>3. Heralded(Line, generation)
  BY Zenon DEF ResultInv, Heralded
<1>4. Heralded(Line', generation)
  BY <1>1, <1>3, CalmOrder, Zenon
<1>5. \A i \in 1 .. Len(Line') : IsResult(Line'[i]) =>
        \/ Line'[i].generation <= generation'
        \/ \E j \in 1 .. i - 1 : /\ Line'[j].type = "reset"
                                 /\ Line'[j].generation = Line'[i].generation
  BY <1>4, Zenon DEF Heralded
<1>6. \A e \in InTransit' : IsResult(e) => e.generation <= queue'.generation
  BY <1>2, Zenon DEF ResultInv
<1>7. \A d, e \in InTransit' : \A u, w \in Uris :
        /\ IsResult(d) /\ IsResult(e) /\ d.generation = e.generation
        /\ d.found[u] # Unknown /\ e.found[w] # Unknown
        => d.found[u].model = e.found[w].model
  <2>1. ASSUME NEW d \in InTransit', NEW e \in InTransit', IsResult(d), IsResult(e)
        PROVE  d \in InTransit /\ e \in InTransit
    BY <1>2, <2>1, Zenon
  <2>2. \A d, e \in InTransit : \A u, w \in Uris :
          /\ IsResult(d) /\ IsResult(e) /\ d.generation = e.generation
          /\ d.found[u] # Unknown /\ e.found[w] # Unknown
          => d.found[u].model = e.found[w].model
    BY Zenon DEF ResultInv
  <2> QED
    BY <2>1, <2>2, Zenon
<1>8. \A e \in InTransit' : \A u \in Uris :
        IsResult(e) /\ e.generation = queue'.generation /\ e.found[u] # Unknown =>
          e.found[u].model = model'
  BY <1>2, ZenonT(60) DEF ResultInv
<1>9. \A e \in InTransit' : \A u, w \in Uris :
        IsResult(e) /\ e.generation = generation' /\ e.found[u] # Unknown =>
          /\ store'[w] # Unknown => store'[w].model = e.found[u].model
          /\ symbols'[w] # Unknown => symbols'[w].model = e.found[u].model
  <2>1. \A e \in InTransit : \A u, w \in Uris :
          IsResult(e) /\ e.generation = generation /\ e.found[u] # Unknown =>
            /\ store[w] # Unknown => store[w].model = e.found[u].model
            /\ symbols[w] # Unknown => symbols[w].model = e.found[u].model
    BY Zenon DEF ResultInv
  <2> QED
    BY <1>2, <2>1, Zenon
<1>10. generation' = queue'.generation =>
         \A u \in Uris : /\ store'[u] # Unknown => store'[u].model = model'
                         /\ symbols'[u] # Unknown => symbols'[u].model = model'
  BY Zenon DEF ResultInv
<1> QED
  BY <1>5, <1>6, <1>7, <1>8, <1>9, <1>10, Zenon DEF ResultInv

\* No result enters, and the versions stay.
LEMMA VersionSame ==
  ASSUME VersionInv, \A x \in InTransit' : IsResult(x) => x \in InTransit,
         UNCHANGED <<saves, disk, store, symbols>>
  PROVE  VersionInv'
<1>1. \A x \in InTransit' : x.type = "index" => x \in InTransit
  BY DEF IsResult
<1>2. \A e \in InTransit' : IsResult(e) => \A u \in Uris : Real(e.found[u])
  BY Zenon DEF VersionInv
<1>3. saves' = 0 => \A e \in InTransit' : e.type = "index" /\ e.conclusive =>
        \A u \in e.attempted : e.found[u] # Unknown
  BY <1>1, Zenon DEF VersionInv
<1> QED
  BY <1>2, <1>3, Zenon DEF VersionInv

\* What is kept stays.
LEMMA StoredSame ==
  ASSUME OneStored, UNCHANGED <<store, symbols>>
  PROVE  OneStored'
BY Zenon DEF OneStored

\* No result enters, and what is kept stays.
LEMMA StoreSame ==
  ASSUME Base, Base', Deep, UNCHANGED <<store, symbols, disk, saves>>,
         \/ Calm(Line, Line', {"index", "symbols"})
         \/ InTransit' \subseteq InTransit
  PROVE  VersionInv' /\ OneStored'
<1>1. LineShape /\ LineShape'
  BY Zenon DEF Base, Shape
<1>2. \A x \in InTransit' : IsResult(x) => x \in InTransit
  <2>1. CASE Calm(Line, Line', {"index", "symbols"})
    <3>1. \A x : x.type \in {"index", "symbols"} => (x \in InTransit' <=> x \in InTransit)
      BY <1>1, <2>1, CalmLine, Zenon
    <3> QED
      BY <3>1 DEF IsResult
  <2> QED
    BY <2>1, Zenon
<1>3. VersionInv'
  <2>1. UNCHANGED <<saves, disk, store, symbols>>
    BY Zenon
  <2> QED
    BY <1>2, <2>1, VersionSame, Zenon DEF Deep
<1>4. OneStored'
  BY StoredSame, Zenon DEF Deep
<1> QED
  BY <1>3, <1>4, Zenon

\* Every invariant but the one on the analyses and the one on the locations.
LEMMA RestSame ==
  ASSUME Base, Base', Deep, Open, Calm(Line, Line', {"names", "reset", "index", "symbols"}),
         queue'.generation = queue.generation, Beginning => Beginning',
         UNCHANGED <<resultVars, model, disk, saves>>,
         sweptFor' = sweptFor \/ sweptFor' = queue.generation
  PROVE  NamesInv' /\ ResetInv' /\ ResultInv' /\ VersionInv' /\ OneStored'
<1>1. /\ LineShape /\ LineShape' /\ generation \in Nat
  BY Zenon DEF Base, Shape, ResultShape
<1>2. /\ Calm(Line, Line', {"names"}) /\ Calm(Line, Line', {"reset"})
      /\ Calm(Line, Line', {"reset", "index", "symbols"})
      /\ Calm(Line, Line', {"index", "symbols"})
  <2>1. /\ {"names"} \subseteq {"names", "reset", "index", "symbols"}
        /\ {"reset"} \subseteq {"names", "reset", "index", "symbols"}
        /\ {"reset", "index", "symbols"} \subseteq {"names", "reset", "index", "symbols"}
        /\ {"index", "symbols"} \subseteq {"names", "reset", "index", "symbols"}
    OBVIOUS
  <2> QED
    BY <2>1, CalmLess, Zenon
<1>3. UNCHANGED <<generation, store, symbols, classes, model, disk, saves>>
  BY Zenon DEF resultVars
<1>4. NamesInv'
  <2>1. classes'.names = classes.names /\ classes'.requested \subseteq classes'.names
    BY <1>3, Zenon DEF Deep, NamesInv
  <2> QED
    BY <1>1, <1>2, <1>3, <2>1, NamesSame, Zenon DEF Deep
<1>5. ResetInv'
  BY <1>1, <1>2, <1>3, ResetSame, Zenon DEF Deep
<1>6. ResultInv'
  <2>1. UNCHANGED <<generation, store, symbols, model>>
    BY <1>3, Zenon
  <2> QED
    BY <1>1, <1>2, <2>1, ResultSame, Zenon DEF Deep
<1>7. VersionInv' /\ OneStored'
  <2>1. UNCHANGED <<store, symbols, disk, saves>>
    BY <1>3, Zenon
  <2> QED
    BY <1>2, <2>1, StoreSame, Zenon
<1> QED
  BY <1>4, <1>5, <1>6, <1>7, Zenon

\* A location neither starts nor ends.
NoLocate ==
  \/ pc' = pc /\ job' = job
  \/ ~ (pc = "run" /\ job.kind = "locate") /\ ~ (pc' = "run" /\ job'.kind = "locate")

\* Nothing that the invariants speak of changes.
LEMMA DeepSame ==
  ASSUME Base, Base', Deep, Open' <=> Open, Calm(Line, Line', Loud),
         queue'.generation = queue.generation, queue'.locations = queue.locations,
         Alike(queue.pending, queue'.pending, Analyses), AnalyzeRuns' <=> AnalyzeRuns,
         analysis'.inFlight <=> analysis.inFlight, NoLocate, Beginning => Beginning',
         UNCHANGED <<resultVars, model, disk, saves>>,
         sweptFor' = sweptFor \/ sweptFor' = queue.generation
  PROVE  Deep'
<1>1. LineShape /\ LineShape'
  BY Zenon DEF Base, Shape
<1>2. /\ Calm(Line, Line', {"names", "reset", "index", "symbols"})
      /\ Calm(Line, Line', {"complete"}) /\ Calm(Line, Line', {"located", "reset"})
      /\ Calm(Line, Line', {"index", "symbols"})
  <2>1. /\ {"names", "reset", "index", "symbols"} \subseteq Loud
        /\ {"complete"} \subseteq Loud /\ {"located", "reset"} \subseteq Loud
        /\ {"index", "symbols"} \subseteq Loud
    BY DEF Loud
  <2> QED
    BY <2>1, CalmLess, Zenon
<1>3. UNCHANGED <<generation, store, symbols, classes, model, disk, saves>>
  BY Zenon DEF resultVars
<1>4. ASSUME Open
      PROVE  AnalyzeInv' /\ LocateInv' /\ NamesInv' /\ ResetInv' /\ ResultInv'
  <2>1. AnalyzeInv'
    BY <1>1, <1>2, <1>4, AnalyzeSame, Zenon DEF Deep
  <2>2. LocateInv'
    BY <1>1, <1>2, <1>3, <1>4, LocateSame, Zenon DEF Deep, NoLocate
  <2>3. NamesInv' /\ ResetInv' /\ ResultInv'
    BY <1>2, <1>4, RestSame, Zenon
  <2> QED
    BY <2>1, <2>2, <2>3, Zenon
<1>5. VersionInv' /\ OneStored'
  <2>1. UNCHANGED <<store, symbols, disk, saves>>
    BY <1>3, Zenon
  <2> QED
    BY <1>2, <2>1, StoreSame, Zenon
<1> QED
  BY <1>4, <1>5, Zenon DEF Deep

\* What the engine sends that no invariant speaks of.
LEMMA QuietLine ==
  ASSUME LineShape, outbox = <<>>, events' = events, Quietly(outbox')
  PROVE  Calm(Line, Line', Loud)
<1>1. outbox' \in Seq(EventSet) /\ \A x \in ToSet(outbox') : x.type \notin Loud
  BY Zenon DEF Quietly
<1>2. Line' = Line \o outbox'
  BY <1>1, LineStep, Zenon
<1> QED
  BY <1>1, <1>2, Zenon DEF Calm

\* Steps without effect on the invariants.
LEMMA HushedDeep ==
  ASSUME Base, Base', Deep, Hushed
  PROVE  Deep'
<1>1. /\ outbox = <<>> /\ Quietly(outbox') /\ events' = events /\ ~ Beginning
      /\ pc' = "idle" /\ (pc = "sweep" \/ (pc = "run" /\ job.kind \in {"refresh", "request", "change"}))
      /\ queue'.pending = queue.pending /\ queue'.locations = queue.locations
      /\ queue'.generation = queue.generation /\ model' = model /\ sweptFor' = sweptFor
      /\ UNCHANGED <<worldVars, sessionVars>>
  BY Zenon DEF Hushed, SameFront
<1>2. UNCHANGED <<session, analysis, resultVars, disk, saves>>
  BY <1>1, Zenon DEF worldVars, sessionVars
<1>3. Calm(Line, Line', Loud)
  BY <1>1, QuietLine, Zenon DEF Base, Shape
<1>4. ~ AnalyzeRuns /\ ~ AnalyzeRuns' /\ NoLocate
  <2>1. ~ (pc = "run" /\ job.kind = "analyze") /\ ~ (pc = "run" /\ job.kind = "locate")
    BY <1>1
  <2>2. pc' # "run"
    BY <1>1
  <2> QED
    BY <2>1, <2>2, Zenon DEF AnalyzeRuns, NoLocate
<1>5. Alike(queue.pending, queue'.pending, Analyses)
  BY <1>1, AlikeSelf, Zenon
<1>6. /\ Open' <=> Open
      /\ analysis'.inFlight <=> analysis.inFlight
      /\ UNCHANGED <<resultVars, model, disk, saves>>
  BY <1>1, <1>2, Zenon DEF Open
<1> QED
  BY <1>1, <1>3, <1>4, <1>5, <1>6, DeepSame, Zenon

\* A queue with other commands added holds the same analyses.
LEMMA ExtendedAlike ==
  ASSUME NEW p \in Seq(Commands), NEW r \in Seq(Commands), Extended(p, r)
  PROVE  Alike(p, r, Analyses)
<1>1. /\ Len(p) \in Nat /\ Len(r) \in Nat /\ Len(p) <= Len(r)
      /\ \A i \in 1 .. Len(p) : p[i] \in Commands
      /\ \A i \in 1 .. Len(r) : r[i] \in Commands
  BY DEF Extended
<1>2. \A i \in 1 .. Len(p) : i \in 1 .. Len(r) /\ (r[i] \in Analyses <=> p[i] \in Analyses)
  BY <1>1 DEF Extended, Analyses
<1>3. \A i \in 1 .. Len(r) : r[i] \in Analyses => i \in 1 .. Len(p)
  BY <1>1 DEF Extended, Analyses
<1> QED
  BY <1>2, <1>3, Zenon DEF Alike, Free, Single

\* After submit_pending_analysis the mark is exact, if it was without the submission.
LEMMA FedAnalyze ==
  ASSUME queue \in Queues, NEW a, Fed(a), AnalyzeRuns' <=> AnalyzeRuns,
         Exactly(queue.pending, Analyses, AnalyzeRuns, Line', Completes, a.inFlight)
  PROVE  AnalyzeInv'
<1>1. PICK q \in Queues : Extended(queue.pending, q.pending) /\ Submitted(q, a)
  BY Zenon DEF Fed
<1>2. queue.pending \in Seq(Commands) /\ q.pending \in Seq(Commands)
  BY QueueFields, Zenon
<1>3. Alike(queue.pending, q.pending, Analyses)
  BY <1>1, <1>2, ExtendedAlike, Zenon
<1>4. Exactly(q.pending, Analyses, AnalyzeRuns, Line', Completes, a.inFlight)
  BY <1>3, Zenon DEF Exactly, Alike
<1>5. CASE queue' = q /\ (analysis'.inFlight <=> a.inFlight)
  BY <1>4, <1>5, Zenon DEF AnalyzeInv, Exactly
<1>6. CASE /\ a.ready /\ ~ a.inFlight /\ analysis'.inFlight
           /\ \E v \in Nat, x \in Seq(Commands) :
                /\ queue'.pending = Append(x, [kind |-> "analyze", version |-> v])
                /\ \A i \in 1 .. Len(x) : x[i].kind # "analyze"
  <2>1. PICK v \in Nat, x \in Seq(Commands) :
             /\ queue'.pending = Append(x, [kind |-> "analyze", version |-> v])
             /\ \A i \in 1 .. Len(x) : x[i].kind # "analyze"
    BY <1>6, Zenon
  <2>2. Free(x, Analyses) /\ Single(x, Analyses)
    <3>1. Free(x, Analyses)
      BY <2>1 DEF Free, Analyses
    <3> QED
      BY <3>1, FreeSingle, Zenon
  <2> DEFINE c == [kind |-> "analyze", version |-> v]
  <2>3. c \in Analyses /\ c \in Commands
    BY DEF Analyses, Commands
  <2> HIDE DEF c
  <2>4. ~ Free(Append(x, c), Analyses) /\ Single(Append(x, c), Analyses)
    <3>1. /\ Free(Append(x, c), Analyses) <=> Free(x, Analyses) /\ c \notin Analyses
          /\ Single(Append(x, c), Analyses)
               <=> Single(x, Analyses) /\ (Free(x, Analyses) \/ c \notin Analyses)
      BY <2>3, ListAppend, Zenon
    <3> QED
      BY <3>1, <2>2, <2>3, Zenon
  <2>5. queue'.pending = Append(x, c)
    BY <2>1, Zenon DEF c
  <2>6. ~ AnalyzeRuns /\ Free(Line', Completes) /\ Single(Line', Completes)
    BY <1>4, <1>6, Zenon DEF Exactly
  <2> QED
    BY <2>4, <2>5, <2>6, <1>6, Zenon DEF AnalyzeInv, Exactly
<1> QED
  BY <1>1, <1>5, <1>6, Zenon DEF Submitted

\* A message of the client, or a retry.
LEMMA MessageDeep ==
  ASSUME Base, Base', Deep, Message
  PROVE  Deep'
<1>1. PICK a \in Markers : SameMarks(analysis, a) /\ Fed(a)
  BY MessageEffect, Zenon
<1>2. /\ session.state = "open" /\ session' = session
      /\ UNCHANGED <<engineVars, events, resultVars, disk, buildFile, saves>>
      /\ (Beginning' <=> Beginning)
  BY MessageEffect, MessageBase, Zenon
<1>3. /\ UNCHANGED <<pc, job, outbox, model, sweptFor>> /\ Open /\ Open'
      /\ generation' = generation /\ classes' = classes
      /\ UNCHANGED <<resultVars, model, disk, saves>>
  BY <1>2, Zenon DEF engineVars, Open, resultVars
<1>4. /\ queue'.locations = queue.locations /\ queue'.generation = queue.generation
      /\ queue \in Queues
  BY <1>1, FedKinds, Zenon DEF Base, Shape, SameBackground
<1>5. LineShape /\ LineShape' /\ Line' = Line
  <2>1. LineShape /\ LineShape'
    BY Zenon DEF Base, Shape
  <2>2. UNCHANGED <<events, outbox>>
    BY <1>2, <1>3, Zenon
  <2> QED
    BY <2>1, <2>2, LineStep, Zenon
<1>6. \A types : Calm(Line, Line', types)
  BY <1>5, LineNow, CalmStill, Zenon
<1>7. AnalyzeInv'
  <2>1. Exactly(queue.pending, Analyses, AnalyzeRuns, Line', Completes, a.inFlight)
    BY <1>1, <1>3, <1>5, Zenon DEF Deep, AnalyzeInv, Exactly, SameMarks
  <2>2. AnalyzeRuns' <=> AnalyzeRuns
    BY <1>3, Zenon DEF AnalyzeRuns
  <2> QED
    BY <1>1, <1>4, <2>1, <2>2, FedAnalyze, Zenon
<1>8. LocateInv'
  BY <1>3, <1>4, <1>5, <1>6, LocateSame, Zenon DEF Deep
<1>9. NamesInv' /\ ResetInv' /\ ResultInv' /\ VersionInv' /\ OneStored'
  BY <1>2, <1>3, <1>4, <1>6, RestSame, Zenon
<1> QED
  BY <1>7, <1>8, <1>9, Zenon DEF Deep

\* A file or the build file is written.
LEMMA WorldDeep ==
  ASSUME Base, Base', Deep, World
  PROVE  Deep'
<1>1. UNCHANGED <<queue, engineVars, events, sessionVars>>
  BY WorldBase, Zenon
<1>2. /\ UNCHANGED <<pc, job, outbox, events, model, sweptFor, queue>>
      /\ UNCHANGED <<generation, store, symbols, classes, session, analysis>>
      /\ UNCHANGED <<generation, store, symbols, model>>
  BY <1>1, Zenon DEF engineVars, sessionVars, resultVars
<1>3. LineShape /\ LineShape' /\ Line' = Line /\ InTransit' = InTransit /\ generation \in Nat
  <2>1. LineShape /\ LineShape' /\ generation \in Nat
    BY Zenon DEF Base, Shape, ResultShape
  <2>2. UNCHANGED <<events, outbox>>
    BY <1>2, Zenon
  <2> QED
    BY <2>1, <2>2, LineStep, Zenon DEF InTransit
<1>4. \A types : Calm(Line, Line', types)
  BY <1>3, LineNow, CalmStill, Zenon
<1>5. ASSUME Open
      PROVE  AnalyzeInv' /\ LocateInv' /\ NamesInv' /\ ResetInv' /\ ResultInv'
  <2>1. AnalyzeInv'
    BY <1>2, <1>3, <1>4, <1>5, AlikeSelf, AnalyzeSame, Zenon DEF Deep, AnalyzeRuns
  <2>2. LocateInv'
    BY <1>2, <1>3, <1>4, <1>5, LocateSame, Zenon DEF Deep
  <2>3. NamesInv'
    <3>1. classes'.names = classes.names /\ classes'.requested \subseteq classes'.names
      BY <1>2, <1>5, Zenon DEF Deep, NamesInv
    <3> QED
      BY <1>2, <1>3, <1>4, <1>5, <3>1, NamesSame, Zenon DEF Deep
  <2>4. ResetInv'
    <3>1. Beginning => Beginning'
      BY <1>2, Zenon DEF Beginning, RootWaits, RootRuns
    <3> QED
      BY <1>2, <1>3, <1>4, <1>5, <3>1, ResetSame, Zenon DEF Deep
  <2>5. ResultInv'
    BY <1>2, <1>3, <1>4, <1>5, ResultSame, Zenon DEF Deep
  <2> QED
    BY <2>1, <2>2, <2>3, <2>4, <2>5, Zenon
<1>6. OneStored'
  BY <1>2, StoredSame, Zenon DEF Deep
<1>7. VersionInv'
  <2>1. CASE EditBuildFile
    <3>1. UNCHANGED <<saves, disk, store, symbols>>
      BY <1>2, <2>1, Zenon DEF EditBuildFile
    <3> QED
      BY <1>3, <3>1, VersionSame, Zenon DEF Deep
  <2>2. ASSUME NEW w \in Uris, Save(w) PROVE VersionInv'
    <3>1. PICK v \in {saves + 2, Gone} : disk' = [disk EXCEPT ![w] = v]
      BY <2>2, Zenon DEF Save
    <3>2. /\ saves' = saves + 1 /\ saves < MaxSaves /\ saves \in Nat /\ MaxSaves \in Nat
          /\ disk \in [Uris -> Nat]
      BY <2>2, EngineAssumption, Zenon DEF Save, Base, Shape, WorldShape
    <3>3. \A u \in Uris : disk[u] <= saves + 1
      BY Zenon DEF Deep, VersionInv
    <3>4. \A u \in Uris : disk'[u] <= saves' + 1
      BY <3>1, <3>2, <3>3 DEF Gone
    <3>5. saves' <= MaxSaves /\ saves' # 0
      BY <3>2
    <3>6. \A u \in Uris : Real(store[u]) /\ Real(symbols[u])
      BY Zenon DEF Deep, VersionInv
    <3>7. \A e \in InTransit' : IsResult(e) => \A u \in Uris : Real(e.found[u])
      BY <1>3, Zenon DEF Deep, VersionInv
    <3> QED
      BY <1>2, <3>4, <3>5, <3>6, <3>7, Zenon DEF VersionInv
  <2> QED
    BY <2>1, <2>2, Zenon DEF World
<1>8. Open' <=> Open
  BY <1>2, Zenon DEF Open
<1> QED
  BY <1>5, <1>6, <1>7, <1>8, Zenon DEF Deep

\* A send, a timer, the end of the input and of the engine.
LEMMA QuietDeep ==
  ASSUME Base, Base', Deep, Exit \/ DrainEvent \/ Send \/ Elapse \/ Timeout \/ Stop
  PROVE  Deep'
<1>1. CASE Exit \/ DrainEvent
  <2>1. /\ UNCHANGED <<store, symbols, disk, saves>> /\ ~ Open' /\ outbox' = outbox
        /\ events' = events \/ (events # <<>> /\ events' = Tail(events))
    <3>1. CASE Exit
      <4>1. session'.state = "closed"
        BY <3>1, ExitBase, Zenon
      <4>2. "closed" # "open"
        OBVIOUS
      <4> QED
        BY <3>1, <4>1, <4>2, Zenon DEF Exit, Open, worldVars, engineVars, resultVars
    <3>2. CASE DrainEvent
      <4>1. "closed" # "open"
        OBVIOUS
      <4> QED
        BY <3>2, <4>1, Zenon DEF DrainEvent, Open, worldVars, engineVars, resultVars, sessionVars
    <3> QED
      BY <1>1, <3>1, <3>2, Zenon
  <2>2. InTransit' \subseteq InTransit
    <3>1. events \in Seq(EventSet)
      BY Zenon DEF Base, Shape, LineShape
    <3>2. \A x : x \in ToSet(events') => x \in ToSet(events)
      BY <2>1, <3>1, ElementsTail, Zenon
    <3> QED
      BY <2>1, <3>2, Zenon DEF InTransit
  <2> QED
    BY <2>1, <2>2, StoreSame, Zenon DEF Deep
<1>2. CASE Send \/ Elapse \/ Timeout \/ Stop
  <2>1. /\ queue' = queue /\ (Beginning' <=> Beginning) /\ LineShape
    BY <1>2, QuietBase, Zenon DEF Base, Shape
  <2>2. /\ UNCHANGED <<worldVars, sessionVars, model, sweptFor>> /\ NoLocate
        /\ AnalyzeRuns' <=> AnalyzeRuns
    <3>1. CASE Send \/ Elapse
      BY <3>1, Zenon DEF Send, Elapse, NoLocate, AnalyzeRuns
    <3>2. CASE Stop
      <4>1. pc = "idle" /\ pc' = "stopped" /\ "idle" # "run" /\ "stopped" # "run"
        BY <3>2 DEF Stop
      <4> QED
        BY <3>2, <4>1, Zenon DEF Stop, NoLocate, AnalyzeRuns
    <3>3. CASE Timeout
      <4>1. pc # "run" /\ job'.kind # "analyze" /\ job'.kind # "locate"
        BY <3>3 DEF Timeout
      <4> QED
        BY <3>3, <4>1, Zenon DEF Timeout, NoLocate, AnalyzeRuns
    <3> QED
      BY <1>2, <3>1, <3>2, <3>3, Zenon
  <2>3. Calm(Line, Line', Loud)
    <3>1. CASE Send \/ Elapse \/ Stop
      <4>1. Line' = Line
        BY <3>1, <2>1, LineStep, Zenon DEF Elapse, Stop
      <4> QED
        BY <4>1, <2>1, LineNow, CalmStill, Zenon
    <3>2. CASE Timeout
      <4>1. outbox = <<>> /\ outbox' = <<Status(TRUE)>> /\ events' = events
        BY <3>2, Zenon DEF Timeout
      <4>2. Quietly(<<Status(TRUE)>>)
        BY QuietLists, Zenon
      <4> QED
        BY <4>1, <4>2, <2>1, QuietLine, Zenon
    <3> QED
      BY <1>2, <3>1, <3>2, Zenon
  <2>4. UNCHANGED <<resultVars, model, disk, saves>> /\ session' = session /\ analysis' = analysis
    BY <2>2, Zenon DEF worldVars, sessionVars
  <2>5. Open' <=> Open
    BY <2>4, Zenon DEF Open
  <2>6. Alike(queue.pending, queue'.pending, Analyses)
    BY <2>1, AlikeSelf, Zenon
  <2> QED
    BY <2>1, <2>2, <2>3, <2>4, <2>5, <2>6, DeepSame, Zenon
<1> QED
  BY <1>1, <1>2, Zenon

\* What the line becomes when the engine sends one event that the invariants speak of.
LEMMA RaiseLine ==
  ASSUME LineShape, LineShape', outbox = <<>>, events' = events, NEW e, Raises(outbox', e)
  PROVE  /\ Line \in Seq(EventSet) /\ outbox' \in Seq(EventSet) /\ Line' = Line \o outbox'
         /\ e \in EventSet /\ e \in InTransit'
         /\ \A types \in SUBSET Loud : e.type \notin types => Calm(Line, Line', types)
         /\ \A x : x.type \in Loud => (x \in InTransit' <=> x \in InTransit \/ x = e)
         /\ \A x : x \in InTransit => x \in InTransit'
         /\ \A x \in ToSet(outbox') : x = e \/ x.type \notin Loud
         /\ \A S : (\A x \in S : x.type \in Loud) =>
              /\ Free(Line', S) <=> Free(Line, S) /\ e \notin S
              /\ Single(Line', S) <=> Single(Line, S) /\ (Free(Line, S) \/ e \notin S)
<1> DEFINE o == outbox'
<1>1. /\ o \in Seq(EventSet) /\ e \in ToSet(o) /\ e \in EventSet
      /\ \A x \in ToSet(o) : x = e \/ x.type \notin Loud
      /\ \A S : (\A x \in S : x.type \in Loud) => (Free(o, S) <=> e \notin S) /\ Single(o, S)
  BY RaisedList, Zenon DEF Raises
<1>2. Line \in Seq(EventSet) /\ Line' = Line \o o
  BY <1>1, LineNow, LineStep, Zenon
<1>3. /\ \A x : x \in InTransit <=> x \in ToSet(Line)
      /\ \A x : x \in InTransit' <=> x \in ToSet(Line')
  BY LineNow, LineNext, Zenon
<1> HIDE DEF o
<1>4. \A x : x \in ToSet(Line') <=> x \in ToSet(Line) \/ x \in ToSet(o)
  BY <1>1, <1>2, ElementsJoin, Zenon
<1>5. \A types \in SUBSET Loud : e.type \notin types => Calm(Line, Line', types)
  <2>1. SUFFICES ASSUME NEW types \in SUBSET Loud, e.type \notin types
                 PROVE  \A x \in ToSet(o) : x.type \notin types
    BY <1>1, <1>2, Zenon DEF Calm
  <2> QED
    BY <2>1, <1>1, Zenon
<1>6. ASSUME NEW S, \A x \in S : x.type \in Loud
      PROVE  /\ Free(Line', S) <=> Free(Line, S) /\ e \notin S
             /\ Single(Line', S) <=> Single(Line, S) /\ (Free(Line, S) \/ e \notin S)
  <2>1. (Free(o, S) <=> e \notin S) /\ Single(o, S)
    BY <1>1, <1>6, Zenon
  <2>2. /\ Free(Line \o o, S) <=> Free(Line, S) /\ Free(o, S)
        /\ Single(Line \o o, S) <=>
             Single(Line, S) /\ Single(o, S) /\ (Free(Line, S) \/ Free(o, S))
    BY <1>1, <1>2, ListJoin, Zenon
  <2> QED
    BY <2>1, <2>2, <1>2, Zenon
<1>7. /\ \A x : x.type \in Loud => (x \in InTransit' <=> x \in InTransit \/ x = e)
      /\ \A x : x \in InTransit => x \in InTransit'
      /\ e \in InTransit'
  BY <1>1, <1>3, <1>4, Zenon
<1> QED
  BY <1>1, <1>2, <1>5, <1>6, <1>7, Zenon DEF o

\* An analysis ends.
LEMMA AnalyzeDeep ==
  ASSUME Base, Base', Deep, RunAnalyze
  PROVE  Deep'
<1>1. /\ ~ Beginning /\ outbox = <<>> /\ events' = events
      /\ pc = "run" /\ job.kind = "analyze" /\ pc' = "sweep" /\ queue' = queue
      /\ \E e \in Completes : Raises(outbox', e)
      /\ UNCHANGED <<worldVars, sessionVars, model, sweptFor>>
  BY AnalyzeBase, Zenon
<1>2. PICK e \in Completes : Raises(outbox', e)
  BY <1>1, Zenon
<1>3. /\ UNCHANGED <<resultVars, model, disk, saves, sweptFor>> /\ session' = session
      /\ analysis' = analysis /\ generation' = generation /\ classes' = classes
      /\ UNCHANGED <<store, symbols, disk, saves>>
      /\ UNCHANGED <<resultVars, model, disk, saves>>
  BY <1>1, Zenon DEF worldVars, sessionVars, resultVars
<1>4. LineShape /\ LineShape'
  BY Zenon DEF Base, Shape
<1>5. /\ {"names", "reset", "index", "symbols"} \in SUBSET Loud /\ {"located", "reset"} \in SUBSET Loud
      /\ {"index", "symbols"} \in SUBSET Loud
      /\ e.type \notin {"names", "reset", "index", "symbols"} /\ e.type \notin {"located", "reset"}
      /\ e.type \notin {"index", "symbols"}
  BY DEF Loud, Completes
<1>6. /\ Calm(Line, Line', {"names", "reset", "index", "symbols"})
      /\ Calm(Line, Line', {"located", "reset"}) /\ Calm(Line, Line', {"index", "symbols"})
  BY <1>1, <1>2, <1>4, <1>5, RaiseLine, Zenon
<1>7. ASSUME Open
      PROVE  AnalyzeInv' /\ LocateInv' /\ NamesInv' /\ ResetInv' /\ ResultInv'
  <2>1. AnalyzeInv'
    <3>1. \A x \in Completes : x.type \in Loud
      BY DEF Completes, Loud
    <3>2. /\ Free(Line', Completes) <=> Free(Line, Completes) /\ e \notin Completes
          /\ Single(Line', Completes)
               <=> Single(Line, Completes) /\ (Free(Line, Completes) \/ e \notin Completes)
      BY <1>1, <1>2, <1>4, <3>1, RaiseLine, Zenon
    <3>3. AnalyzeRuns /\ ~ AnalyzeRuns'
      <4>1. pc' # "run"
        BY <1>1
      <4> QED
        BY <1>1, <4>1, Zenon DEF AnalyzeRuns
    <3>4. Exactly(queue.pending, Analyses, AnalyzeRuns, Line, Completes, analysis.inFlight)
      BY <1>7, Zenon DEF Deep, AnalyzeInv
    <3> QED
      BY <1>1, <1>3, <3>2, <3>3, <3>4, Zenon DEF AnalyzeInv, Exactly
  <2>2. LocateInv'
    <3>1. ~ (pc = "run" /\ job.kind = "locate") /\ ~ (pc' = "run" /\ job'.kind = "locate")
      BY <1>1
    <3> QED
      BY <1>1, <1>3, <1>4, <1>6, <1>7, <3>1, LocateSame, Zenon DEF Deep
  <2>3. NamesInv' /\ ResetInv' /\ ResultInv'
    BY <1>1, <1>3, <1>6, <1>7, RestSame, Zenon
  <2> QED
    BY <2>1, <2>2, <2>3, Zenon
<1>8. VersionInv' /\ OneStored'
  BY <1>3, <1>6, StoreSame, Zenon
<1>9. Open' <=> Open
  BY <1>3, Zenon DEF Open
<1> QED
  BY <1>7, <1>8, <1>9, Zenon DEF Deep

\* The neighborhood is queued again, and perhaps the whole workspace.
LEMMA SweepDeep ==
  ASSUME Base, Base', Deep, RaiseSweep
  PROVE  Deep'
<1>1. /\ ~ Beginning /\ outbox = <<>> /\ events' = events
      /\ pc = "sweep" /\ pc' = "idle" /\ SameFront(queue, queue')
      /\ sweptFor' = queue.generation
      /\ UNCHANGED <<worldVars, sessionVars, model>>
  BY SweepBase, Zenon
<1>2. /\ UNCHANGED <<resultVars, model, disk, saves>> /\ session' = session
      /\ analysis' = analysis /\ generation' = generation /\ classes' = classes
      /\ UNCHANGED <<store, symbols, disk, saves>>
      /\ UNCHANGED <<generation, store, symbols, model>>
  BY <1>1, Zenon DEF worldVars, sessionVars, resultVars
<1>3. /\ LineShape /\ LineShape' /\ generation \in Nat /\ queue.generation \in Nat
      /\ queue'.pending = queue.pending /\ queue'.locations = queue.locations
      /\ queue'.generation = queue.generation
  BY <1>1, EngineFields, Zenon DEF Base, Shape, SameFront, ResultShape
<1>4. ~ AnalyzeRuns /\ ~ AnalyzeRuns' /\ NoLocate
  <2>1. pc # "run" /\ pc' # "run"
    BY <1>1
  <2> QED
    BY <2>1, Zenon DEF AnalyzeRuns, NoLocate
<1>5. /\ Alike(queue.pending, queue'.pending, Analyses) /\ (Open' <=> Open)
      /\ analysis'.inFlight <=> analysis.inFlight
  BY <1>2, <1>3, AlikeSelf, Zenon DEF Open
<1>6. CASE Quietly(outbox')
  <2>1. Calm(Line, Line', Loud)
    BY <1>1, <1>3, <1>6, QuietLine, Zenon
  <2> QED
    BY <1>1, <1>2, <1>3, <1>4, <1>5, <2>1, DeepSame, Zenon
<1>7. CASE /\ sweptFor # queue.generation
           /\ Raises(outbox', [type |-> "names", generation |-> queue.generation])
  <2> DEFINE e == [type |-> "names", generation |-> queue.generation]
  <2>1. e.type = "names" /\ e.generation = queue.generation
    OBVIOUS
  <2>2. Raises(outbox', e)
    BY <1>7, Zenon
  <2> HIDE DEF e
  <2>3. /\ {"complete"} \in SUBSET Loud /\ {"located", "reset"} \in SUBSET Loud
        /\ {"reset"} \in SUBSET Loud /\ {"reset", "index", "symbols"} \in SUBSET Loud
        /\ {"index", "symbols"} \in SUBSET Loud
        /\ e.type \notin {"complete"} /\ e.type \notin {"located", "reset"}
        /\ e.type \notin {"reset"} /\ e.type \notin {"reset", "index", "symbols"}
        /\ e.type \notin {"index", "symbols"}
    BY <2>1 DEF Loud
  <2>4. /\ Calm(Line, Line', {"complete"}) /\ Calm(Line, Line', {"located", "reset"})
        /\ Calm(Line, Line', {"reset"}) /\ Calm(Line, Line', {"reset", "index", "symbols"})
        /\ Calm(Line, Line', {"index", "symbols"})
    BY <1>1, <1>3, <2>2, <2>3, RaiseLine, Zenon
  <2>5. ASSUME Open
        PROVE  AnalyzeInv' /\ LocateInv' /\ ResetInv' /\ ResultInv'
    <3>1. AnalyzeInv'
      BY <1>3, <1>4, <1>5, <2>4, <2>5, AnalyzeSame, Zenon DEF Deep
    <3>2. LocateInv'
      BY <1>2, <1>3, <1>4, <2>4, <2>5, LocateSame, Zenon DEF Deep, NoLocate
    <3>3. ResetInv'
      BY <1>1, <1>2, <1>3, <2>4, <2>5, ResetSame, Zenon DEF Deep
    <3>4. ResultInv'
      BY <1>2, <1>3, <2>4, <2>5, ResultSame, Zenon DEF Deep
    <3> QED
      BY <3>1, <3>2, <3>3, <3>4, Zenon
  <2>6. ASSUME Open PROVE NamesInv'
    <3>1. /\ classes.requested \subseteq classes.names
          /\ \A g \in Nat : Single(Line, NamesOf(g))
          /\ \A x \in InTransit : x.type = "names" =>
               /\ x.generation <= queue.generation
               /\ x.generation = generation => classes.names = {}
               /\ x.generation = queue.generation => sweptFor = queue.generation
          /\ (sweptFor # queue.generation /\ generation = queue.generation) => classes.names = {}
      BY <2>6, Zenon DEF Deep, NamesInv
    <3>2. \A x : x.type = "names" => (x \in InTransit' <=> x \in InTransit \/ x = e)
      <4>1. \A x : x.type \in Loud => (x \in InTransit' <=> x \in InTransit \/ x = e)
        BY <1>1, <1>3, <2>2, RaiseLine, Zenon
      <4> QED
        BY <4>1 DEF Loud
    <3>3. \A g \in Nat : Single(Line', NamesOf(g))
      <4>1. SUFFICES ASSUME NEW g \in Nat PROVE Single(Line', NamesOf(g))
        BY Zenon
      <4>2. \A x \in NamesOf(g) : x.type \in Loud
        BY DEF NamesOf, Loud
      <4>3. Single(Line', NamesOf(g))
              <=> Single(Line, NamesOf(g)) /\ (Free(Line, NamesOf(g)) \/ e \notin NamesOf(g))
        BY <1>1, <1>3, <2>2, <4>2, RaiseLine, Zenon
      <4>4. e \in NamesOf(g) => Free(Line, NamesOf(g))
        <5>1. SUFFICES ASSUME e \in NamesOf(g), NEW i \in 1 .. Len(Line), Line[i] \in NamesOf(g)
                       PROVE  FALSE
          BY Zenon DEF Free
        <5>2. Line[i].type = "names" /\ Line[i].generation = queue.generation
          BY <5>1, <2>1, Zenon DEF NamesOf
        <5>3. Line[i] \in InTransit
          BY <1>3, LineNow, Elements, Zenon
        <5> QED
          BY <5>2, <5>3, <3>1, <1>7, Zenon
      <4> QED
        BY <4>3, <4>4, <3>1, Zenon
    <3>4. \A x \in InTransit' : x.type = "names" =>
            /\ x.generation <= queue'.generation
            /\ x.generation = generation' => classes'.names = {}
            /\ x.generation = queue'.generation => sweptFor' = queue'.generation
      <4>1. SUFFICES ASSUME NEW x \in InTransit', x.type = "names"
                     PROVE  /\ x.generation <= queue.generation
                            /\ x.generation = generation => classes.names = {}
        BY <1>1, <1>2, <1>3, Zenon
      <4>2. CASE x \in InTransit
        BY <4>1, <4>2, <3>1, Zenon
      <4>3. CASE x = e
        <5>1. queue.generation <= queue.generation
          BY <1>3
        <5> QED
          BY <4>3, <5>1, <2>1, <3>1, <1>7, Zenon
      <4> QED
        BY <4>1, <4>2, <4>3, <3>2, Zenon
    <3> QED
      BY <1>1, <1>2, <1>3, <3>1, <3>3, <3>4, Zenon DEF NamesInv
  <2>7. VersionInv' /\ OneStored'
    BY <1>2, <2>4, StoreSame, Zenon
  <2> QED
    BY <1>5, <2>5, <2>6, <2>7, Zenon DEF Deep
<1> QED
  BY <1>6, <1>7, SweepBase, Zenon

\* One more element of a list.
LEMMA ElementsAppend ==
  ASSUME NEW T, NEW s \in Seq(T), NEW y \in T
  PROVE  \A x : x \in ToSet(Append(s, y)) <=> x \in ToSet(s) \/ x = y
<1>1. Append(s, y) = s \o <<y>> /\ <<y>> \in Seq(T) /\ Len(<<y>>) = 1 /\ <<y>>[1] = y
  OBVIOUS
<1>2. 1 .. 1 = {1}
  OBVIOUS
<1> DEFINE t == <<y>>
<1>3. t \in Seq(T) /\ Append(s, y) = s \o t /\ Len(t) = 1 /\ t[1] = y
  BY <1>1, Zenon
<1> HIDE DEF t
<1>4. \A x : x \in ToSet(t) <=> \E j \in 1 .. Len(t) : t[j] = x
  BY <1>3, Elements, Zenon
<1>5. \A x : x \in ToSet(t) <=> x = y
  BY <1>2, <1>3, <1>4, Zenon
<1>6. \A x : x \in ToSet(s \o t) <=> x \in ToSet(s) \/ x \in ToSet(t)
  BY <1>3, ElementsJoin, Zenon
<1> QED
  BY <1>3, <1>5, <1>6, Zenon

\* A query asks for the classes S.
LEMMA QueryDeep ==
  ASSUME Base, Base', Deep, NEW S \in SUBSET Classes, Query(S)
  PROVE  Deep'
<1> DEFINE l == [kind |-> "locate", generation |-> generation, candidates |-> S]
<1>1. /\ ~ Beginning /\ queue'.locations = Append(queue.locations, l) /\ l \in Locates
      /\ queue'.pending = queue.pending /\ queue'.generation = queue.generation
  BY QueryBase, Zenon
<1>2. l.generation = generation /\ l.candidates = S
  OBVIOUS
<1> HIDE DEF l
<1>3. /\ Open /\ S \subseteq classes.names \ (classes.located \union classes.requested)
      /\ classes' = MarkRequested(S)
      /\ UNCHANGED <<worldVars, engineVars, events, doc, analysis, generation, store, symbols,
                     parked, session>>
  BY Zenon DEF Query
<1>4. /\ UNCHANGED <<pc, job, outbox, events, model, sweptFor>>
      /\ UNCHANGED <<generation, store, symbols, model>>
      /\ UNCHANGED <<store, symbols, disk, saves>>
      /\ analysis' = analysis /\ session' = session /\ generation' = generation
  BY <1>3, Zenon DEF engineVars, worldVars
<1>5. /\ classes'.names = classes.names /\ classes'.requested = classes.requested \union S
  <2>1. classes \in [names : SUBSET Classes, located : SUBSET Classes, requested : SUBSET Classes]
    BY Zenon DEF Base, Shape, ResultShape
  <2> QED
    BY <1>3, <2>1 DEF MarkRequested
<1>6. /\ LineShape /\ LineShape' /\ Line' = Line /\ InTransit' = InTransit /\ generation \in Nat
      /\ queue.locations \in Seq(Locates)
  <2>1. LineShape /\ LineShape' /\ generation \in Nat /\ queue \in Queues
    BY Zenon DEF Base, Shape, ResultShape
  <2>2. UNCHANGED <<events, outbox>>
    BY <1>4, Zenon
  <2> QED
    BY <2>1, <2>2, LineStep, QueueFields, Zenon DEF InTransit
<1>7. \A types : Calm(Line, Line', types)
  BY <1>6, LineNow, CalmStill, Zenon
<1>8. AnalyzeInv'
  BY <1>1, <1>3, <1>4, <1>6, <1>7, AlikeSelf, AnalyzeSame, Zenon DEF Deep, AnalyzeRuns
<1>9. NamesInv'
  <2>1. classes'.requested \subseteq classes'.names
    BY <1>3, <1>5, Zenon DEF Deep, NamesInv
  <2> QED
    BY <1>1, <1>3, <1>4, <1>5, <1>6, <1>7, <2>1, NamesSame, Zenon DEF Deep
<1>10. ResetInv'
  BY <1>1, <1>3, <1>4, <1>6, <1>7, ResetSame, Zenon DEF Deep
<1>11. ResultInv'
  BY <1>1, <1>3, <1>4, <1>6, <1>7, ResultSame, Zenon DEF Deep
<1>12. VersionInv' /\ OneStored'
  BY <1>4, <1>7, StoreSame, Zenon
<1>13. LocateInv'
  <2>1. /\ \A x \in ToSet(queue.locations) : x.generation <= generation
        /\ (pc = "run" /\ job.kind = "locate") => job.generation <= generation
        /\ \A e \in InTransit : e.type = "located" => e.generation <= generation
        /\ ~ ResetComes => \A c \in Classes :
             Exactly(queue.locations, LocatesOf(generation, c), LocateRuns(generation, c),
                     Line, LocatedOf(generation, c), c \in classes.requested)
    BY <1>3, Zenon DEF Deep, LocateInv
  <2>2. \A x \in ToSet(queue'.locations) : x.generation <= generation'
    <3>1. \A x : x \in ToSet(queue'.locations) <=> x \in ToSet(queue.locations) \/ x = l
      BY <1>1, <1>6, ElementsAppend, Zenon
    <3>2. generation <= generation
      BY <1>6
    <3> QED
      BY <3>1, <3>2, <2>1, <1>2, <1>4, Zenon
  <2>3. ResetComes' <=> ResetComes
    BY <1>6, Zenon DEF ResetComes
  <2>4. ASSUME ~ ResetComes, NEW c \in Classes
        PROVE  Exactly(queue'.locations, LocatesOf(generation, c), LocateRuns(generation, c),
                       Line, LocatedOf(generation, c), c \in classes'.requested)
    <3> DEFINE L == LocatesOf(generation, c)
    <3> HIDE DEF L
    <3>1. /\ Free(Append(queue.locations, l), L) <=> Free(queue.locations, L) /\ l \notin L
          /\ Single(Append(queue.locations, l), L)
               <=> Single(queue.locations, L) /\ (Free(queue.locations, L) \/ l \notin L)
      <4>1. queue.locations \in Seq(Locates) /\ l \in Locates
        BY <1>1, <1>6, Zenon
      <4> QED
        BY <4>1, ListAppend, Zenon
    <3>2. l \in L <=> c \in S
      BY <1>1, <1>2, Zenon DEF L, LocatesOf
    <3>3. Exactly(queue.locations, L, LocateRuns(generation, c),
                  Line, LocatedOf(generation, c), c \in classes.requested)
      BY <2>1, <2>4, Zenon DEF L
    <3>4. c \in S => c \notin classes.requested
      BY <1>3, Zenon
    <3>5. c \in classes'.requested <=> c \in classes.requested \/ c \in S
      BY <1>5, Zenon
    <3> QED
      BY <1>1, <3>1, <3>2, <3>3, <3>4, <3>5, Zenon DEF Exactly, L
  <2>5. \A c \in Classes :
          /\ LocatesOf(generation, c)' = LocatesOf(generation, c)
          /\ LocatedOf(generation, c)' = LocatedOf(generation, c)
          /\ LocateRuns(generation, c)' <=> LocateRuns(generation, c)
    BY <1>4, Zenon DEF LocatesOf, LocatedOf, LocateRuns
  <2>6. ~ ResetComes' => \A c \in Classes :
          Exactly(queue.locations, LocatesOf(generation, c), LocateRuns(generation, c),
                  Line, LocatedOf(generation, c), c \in classes.requested)'
    BY <1>6, <2>3, <2>4, <2>5, Zenon DEF Exactly
  <2> QED
    BY <1>4, <1>6, <2>1, <2>2, <2>6, Zenon DEF LocateInv
<1> QED
  BY <1>8, <1>9, <1>10, <1>11, <1>12, <1>13, Zenon DEF Deep

\* The engine takes a command.
LEMMA RecvDeep ==
  ASSUME Base, Base', Deep, Recv
  PROVE  Deep'
<1>1. /\ pc = "idle" /\ outbox = <<>> /\ pc' = "run" /\ events' = events
      /\ outbox' = <<>> \/ outbox' = <<Status(TRUE)>>
      /\ UNCHANGED <<worldVars, refresh, model, inventory, sweptFor, failures, sessionVars>>
      /\ queue'.generation = queue.generation
      /\ \/ /\ queue.pending # <<>> /\ job' = Head(queue.pending)
            /\ queue'.pending = Tail(queue.pending) /\ queue'.locations = queue.locations
         \/ /\ queue.locations # <<>> /\ job' = Head(queue.locations)
            /\ queue'.locations = Tail(queue.locations) /\ queue'.pending = queue.pending
         \/ /\ \/ job' \in IndexChunks("neighborhood") \/ job' \in IndexChunks("sweep")
               \/ job' \in SymbolChunks
            /\ queue'.pending = queue.pending /\ queue'.locations = queue.locations
  BY RecvEffect, Zenon DEF Base, Shape
<1>2. (Beginning' <=> Beginning) /\ LineShape /\ LineShape' /\ queue \in Queues
  BY RecvBase, Zenon DEF Base, Shape
<1>3. Calm(Line, Line', Loud)
  <2>1. Quietly(outbox')
    BY <1>1, QuietLists, Zenon
  <2> QED
    BY <1>1, <1>2, <2>1, QuietLine, Zenon
<1>4. /\ Calm(Line, Line', {"names", "reset", "index", "symbols"})
      /\ Calm(Line, Line', {"complete"}) /\ Calm(Line, Line', {"located", "reset"})
      /\ Calm(Line, Line', {"index", "symbols"})
  <2>1. /\ {"names", "reset", "index", "symbols"} \subseteq Loud
        /\ {"complete"} \subseteq Loud /\ {"located", "reset"} \subseteq Loud
        /\ {"index", "symbols"} \subseteq Loud
    BY DEF Loud
  <2> QED
    BY <1>3, <2>1, CalmLess, Zenon
<1>5. /\ UNCHANGED <<resultVars, model, disk, saves>> /\ session' = session /\ sweptFor' = sweptFor
      /\ analysis' = analysis /\ generation' = generation /\ classes' = classes
      /\ UNCHANGED <<store, symbols, disk, saves>>
  BY <1>1, Zenon DEF worldVars, sessionVars, resultVars
<1>6. pc # "run" /\ ~ AnalyzeRuns
  <2>1. pc # "run"
    BY <1>1
  <2> QED
    BY <2>1, Zenon DEF AnalyzeRuns
<1>7. queue.pending \in Seq(Commands) /\ queue.locations \in Seq(Locates)
  BY <1>2, QueueFields, Zenon
<1>8. ASSUME Open PROVE NamesInv' /\ ResetInv' /\ ResultInv'
  BY <1>2, <1>4, <1>5, <1>1, <1>8, RestSame, Zenon
<1>9. VersionInv' /\ OneStored'
  BY <1>4, <1>5, StoreSame, Zenon
<1>10. CASE /\ queue.pending # <<>> /\ job' = Head(queue.pending)
            /\ queue'.pending = Tail(queue.pending) /\ queue'.locations = queue.locations
  <2>1. job' \in Commands
    BY <1>7, <1>10, TailOf, Zenon
  <2>2. job'.kind # "locate" /\ (job' \in Analyses <=> job'.kind = "analyze")
    BY <2>1 DEF Commands, Analyses
  <2>3. ASSUME Open PROVE LocateInv'
    BY <1>2, <1>4, <1>5, <1>6, <1>10, <2>2, <2>3, LocateSame, Zenon DEF Deep
  <2>4. ASSUME Open PROVE AnalyzeInv'
    <3>1. Alike(Line, Line', Completes)
      <4>1. \A x \in Completes : x.type \in {"complete"}
        BY DEF Completes
      <4> QED
        BY <1>2, <1>4, <4>1, CalmLine, Zenon
    <3>2. Exactly(queue.pending, Analyses, AnalyzeRuns, Line, Completes, analysis.inFlight)
      BY <2>4, Zenon DEF Deep, AnalyzeInv
    <3>3. /\ Free(queue.pending, Analyses) <=>
               Head(queue.pending) \notin Analyses /\ Free(Tail(queue.pending), Analyses)
          /\ Single(queue.pending, Analyses) =>
               /\ Single(Tail(queue.pending), Analyses)
               /\ Head(queue.pending) \in Analyses => Free(Tail(queue.pending), Analyses)
      BY <1>7, <1>10, ListTail, Zenon
    <3>4. AnalyzeRuns' <=> Head(queue.pending) \in Analyses
      BY <1>1, <1>10, <2>2, Zenon DEF AnalyzeRuns
    <3>5. analysis'.inFlight <=> analysis.inFlight
      BY <1>5, Zenon
    <3> QED
      BY <1>6, <1>10, <3>1, <3>2, <3>3, <3>4, <3>5, Zenon DEF AnalyzeInv, Exactly, Alike
  <2> QED
    BY <1>5, <1>8, <1>9, <2>3, <2>4, Zenon DEF Deep, Open
<1>11. CASE /\ queue.locations # <<>> /\ job' = Head(queue.locations)
            /\ queue'.locations = Tail(queue.locations) /\ queue'.pending = queue.pending
  <2>1. job' \in Locates /\ Head(queue.locations) \in ToSet(queue.locations)
    <3>1. job' \in Locates
      BY <1>7, <1>11, TailOf, Zenon
    <3> QED
      BY <3>1, <1>7, <1>11, ElementsTail, Zenon
  <2>2. job'.kind = "locate" /\ ~ AnalyzeRuns'
    <3>1. job'.kind = "locate" /\ job'.kind # "analyze"
      BY <2>1 DEF Locates
    <3> QED
      BY <3>1, Zenon DEF AnalyzeRuns
  <2>3. ASSUME Open PROVE AnalyzeInv'
    BY <1>2, <1>4, <1>5, <1>6, <1>11, <2>2, <2>3, AlikeSelf, AnalyzeSame, Zenon DEF Deep
  <2>4. ASSUME Open PROVE LocateInv'
    <3>1. /\ \A x \in ToSet(queue.locations) : x.generation <= generation
          /\ \A e \in InTransit : e.type = "located" => e.generation <= generation
          /\ ~ ResetComes => \A c \in Classes :
               Exactly(queue.locations, LocatesOf(generation, c), LocateRuns(generation, c),
                       Line, LocatedOf(generation, c), c \in classes.requested)
      BY <2>4, Zenon DEF Deep, LocateInv
    <3>2. /\ \A x : x.type \in {"located", "reset"} => (x \in InTransit' <=> x \in InTransit)
          /\ \A S : (\A x \in S : x.type \in {"located", "reset"}) => Alike(Line, Line', S)
      BY <1>2, <1>4, CalmLine, Zenon
    <3>3. /\ \A x : x.type = "located" => (x \in InTransit' <=> x \in InTransit)
          /\ \A x : x.type = "reset" => (x \in InTransit' <=> x \in InTransit)
      BY <3>2
    <3>4. ResetComes' <=> ResetComes
      BY <3>3, Zenon DEF ResetComes
    <3>5. ASSUME ~ ResetComes, NEW c \in Classes
          PROVE  Exactly(queue.locations, LocatesOf(generation, c), LocateRuns(generation, c),
                         Line, LocatedOf(generation, c), c \in classes.requested)'
      <4> DEFINE L == LocatesOf(generation, c)
                 E == LocatedOf(generation, c)
      <4>1. \A x \in E : x.type \in {"located", "reset"}
        BY DEF LocatedOf
      <4>2. Alike(Line, Line', E)
        BY <3>2, <4>1, Zenon
      <4>3. LocateRuns(generation, c)' <=> Head(queue.locations) \in L
        BY <1>1, <1>5, <1>11, <2>1, <2>2, Zenon DEF LocateRuns, LocatesOf
      <4>4. ~ LocateRuns(generation, c)
        BY <1>6, Zenon DEF LocateRuns
      <4>5. L' = L /\ E' = E
        BY <1>5, Zenon DEF LocatesOf, LocatedOf
      <4>6. Exactly(queue.locations, L, LocateRuns(generation, c), Line, E, c \in classes.requested)
        BY <3>1, <3>5, Zenon
      <4> HIDE DEF L, E
      <4>7. /\ Free(queue.locations, L) <=>
                 Head(queue.locations) \notin L /\ Free(Tail(queue.locations), L)
            /\ Single(queue.locations, L) =>
                 /\ Single(Tail(queue.locations), L)
                 /\ Head(queue.locations) \in L => Free(Tail(queue.locations), L)
        BY <1>7, <1>11, ListTail, Zenon
      <4>8. Exactly(queue'.locations, L, LocateRuns(generation, c)', Line', E, c \in classes'.requested)
        BY <1>5, <1>11, <4>2, <4>3, <4>4, <4>6, <4>7, Zenon DEF Exactly, Alike
      <4> QED
        BY <4>5, <4>8, Zenon DEF L, E
    <3>6. \A x \in ToSet(queue'.locations) : x.generation <= generation'
      BY <1>5, <1>7, <1>11, <3>1, ElementsTail, Zenon
    <3>7. job'.generation <= generation'
      BY <1>5, <1>11, <2>1, <3>1, Zenon
    <3>8. \A e \in InTransit' : e.type = "located" => e.generation <= generation'
      BY <1>5, <3>1, <3>3, Zenon
    <3>9. ~ ResetComes' => \A c \in Classes :
            Exactly(queue.locations, LocatesOf(generation, c), LocateRuns(generation, c),
                    Line, LocatedOf(generation, c), c \in classes.requested)'
      BY <3>4, <3>5, Zenon
    <3> QED
      BY <3>6, <3>7, <3>8, <3>9, Zenon DEF LocateInv
  <2> QED
    BY <1>5, <1>8, <1>9, <2>3, <2>4, Zenon DEF Deep, Open
<1>12. CASE /\ \/ job' \in IndexChunks("neighborhood") \/ job' \in IndexChunks("sweep")
               \/ job' \in SymbolChunks
            /\ queue'.pending = queue.pending /\ queue'.locations = queue.locations
  <2>1. job'.kind # "analyze" /\ job'.kind # "locate"
    BY <1>12 DEF IndexChunks, SymbolChunks
  <2>2. ~ AnalyzeRuns' /\ NoLocate
    BY <1>6, <2>1, Zenon DEF AnalyzeRuns, NoLocate
  <2>3. ASSUME Open PROVE AnalyzeInv' /\ LocateInv'
    <3>1. AnalyzeInv'
      BY <1>2, <1>4, <1>5, <1>6, <1>12, <2>2, <2>3, AlikeSelf, AnalyzeSame, Zenon DEF Deep
    <3>2. LocateInv'
      BY <1>2, <1>4, <1>5, <1>12, <2>2, <2>3, LocateSame, Zenon DEF Deep, NoLocate
    <3> QED
      BY <3>1, <3>2, Zenon
  <2> QED
    BY <1>5, <1>8, <1>9, <2>3, Zenon DEF Deep, Open
<1> QED
  BY <1>1, <1>10, <1>11, <1>12, Zenon

\* A location ends, or is dropped because it is of an earlier generation.
LEMMA LocateDeep ==
  ASSUME Base, Base', Deep, RunLocate
  PROVE  Deep'
<1>1. /\ ~ Beginning /\ outbox = <<>> /\ events' = events
      /\ pc = "run" /\ job.kind = "locate" /\ pc' = "idle" /\ queue' = queue
      /\ UNCHANGED <<worldVars, sessionVars, model, sweptFor>>
  BY LocateBase, Zenon
<1>2. /\ UNCHANGED <<resultVars, model, disk, saves>> /\ session' = session
      /\ analysis' = analysis /\ generation' = generation /\ classes' = classes
      /\ sweptFor' = sweptFor /\ UNCHANGED <<store, symbols, disk, saves>>
  BY <1>1, Zenon DEF worldVars, sessionVars, resultVars
<1>3. /\ LineShape /\ LineShape'
  BY Zenon DEF Base, Shape
<1>4. pc' # "run" /\ ~ AnalyzeRuns /\ ~ AnalyzeRuns'
  <2>1. pc' # "run" /\ job.kind # "analyze"
    BY <1>1
  <2> QED
    BY <2>1, Zenon DEF AnalyzeRuns
<1>5. ASSUME Calm(Line, Line', {"names", "reset", "index", "symbols"}),
             Calm(Line, Line', {"complete"}), Calm(Line, Line', {"index", "symbols"}),
             Open => LocateInv'
      PROVE  Deep'
  <2>1. ASSUME Open PROVE AnalyzeInv' /\ NamesInv' /\ ResetInv' /\ ResultInv'
    <3>1. AnalyzeInv'
      BY <1>1, <1>2, <1>3, <1>4, <1>5, <2>1, AlikeSelf, AnalyzeSame, Zenon DEF Deep
    <3>2. NamesInv' /\ ResetInv' /\ ResultInv'
      BY <1>1, <1>2, <1>5, <2>1, RestSame, Zenon
    <3> QED
      BY <3>1, <3>2, Zenon
  <2>2. VersionInv' /\ OneStored'
    BY <1>2, <1>5, StoreSame, Zenon
  <2> QED
    BY <1>2, <1>5, <2>1, <2>2, Zenon DEF Deep, Open
<1>6. ASSUME Open
      PROVE  /\ \A x \in ToSet(queue'.locations) : x.generation <= generation'
             /\ job.generation <= generation
             /\ \A e \in InTransit : e.type = "located" => e.generation <= generation
             /\ ~ ResetComes => \A c \in Classes :
                  Exactly(queue.locations, LocatesOf(generation, c), LocateRuns(generation, c),
                          Line, LocatedOf(generation, c), c \in classes.requested)
  BY <1>1, <1>2, <1>6, Zenon DEF Deep, LocateInv
<1>7. \A c \in Classes : /\ LocatesOf(generation, c)' = LocatesOf(generation, c)
                         /\ LocatedOf(generation, c)' = LocatedOf(generation, c)
                         /\ ~ LocateRuns(generation, c)'
  BY <1>2, <1>4, Zenon DEF LocatesOf, LocatedOf, LocateRuns
<1>8. CASE job.generation # queue.generation /\ Quietly(outbox')
  <2>1. Calm(Line, Line', Loud)
    BY <1>1, <1>3, <1>8, QuietLine, Zenon
  <2>2. /\ Calm(Line, Line', {"names", "reset", "index", "symbols"})
        /\ Calm(Line, Line', {"complete"}) /\ Calm(Line, Line', {"located", "reset"})
        /\ Calm(Line, Line', {"index", "symbols"})
    <3>1. /\ {"names", "reset", "index", "symbols"} \subseteq Loud
          /\ {"complete"} \subseteq Loud /\ {"located", "reset"} \subseteq Loud
          /\ {"index", "symbols"} \subseteq Loud
      BY DEF Loud
    <3> QED
      BY <2>1, <3>1, CalmLess, Zenon
  <2>3. ASSUME Open PROVE LocateInv'
    <3>1. /\ \A x : x.type \in {"located", "reset"} => (x \in InTransit' <=> x \in InTransit)
          /\ \A S : (\A x \in S : x.type \in {"located", "reset"}) => Alike(Line, Line', S)
      BY <1>3, <2>2, CalmLine, Zenon
    <3>2. /\ \A x : x.type = "located" => (x \in InTransit' <=> x \in InTransit)
          /\ \A x : x.type = "reset" => (x \in InTransit' <=> x \in InTransit)
      BY <3>1
    <3>3. ResetComes' <=> ResetComes
      BY <3>2, Zenon DEF ResetComes
    <3>4. ASSUME ~ ResetComes, NEW c \in Classes
          PROVE  Exactly(queue.locations, LocatesOf(generation, c), LocateRuns(generation, c),
                         Line, LocatedOf(generation, c), c \in classes.requested)'
      <4>1. generation = queue.generation
        BY <1>1, <2>3, <3>4, Zenon DEF Deep, ResetInv, ResetComes
      <4>2. ~ LocateRuns(generation, c)
        BY <4>1, <1>8, Zenon DEF LocateRuns
      <4>3. \A x \in LocatedOf(generation, c) : x.type \in {"located", "reset"}
        BY DEF LocatedOf
      <4>4. Alike(Line, Line', LocatedOf(generation, c))
        BY <3>1, <4>3, Zenon
      <4>5. Exactly(queue.locations, LocatesOf(generation, c), LocateRuns(generation, c),
                    Line, LocatedOf(generation, c), c \in classes.requested)
        BY <1>6, <2>3, <3>4, Zenon
      <4> QED
        BY <1>1, <1>2, <1>7, <4>2, <4>4, <4>5, Zenon DEF Exactly, Alike
    <3>5. \A e \in InTransit' : e.type = "located" => e.generation <= generation'
      BY <1>2, <1>6, <2>3, <3>2, Zenon
    <3> QED
      BY <1>4, <1>6, <2>3, <3>3, <3>4, <3>5, Zenon DEF LocateInv
  <2> QED
    BY <1>5, <2>2, <2>3, Zenon
<1>9. ASSUME NEW e \in EventSet, Raises(outbox', e), e.type = "located",
             e.generation = job.generation, e.attempted = job.candidates
      PROVE  Deep'
  <2>1. /\ {"names", "reset", "index", "symbols"} \in SUBSET Loud /\ {"complete"} \in SUBSET Loud
        /\ {"index", "symbols"} \in SUBSET Loud /\ {"reset"} \in SUBSET Loud
        /\ e.type \notin {"names", "reset", "index", "symbols"} /\ e.type \notin {"complete"}
        /\ e.type \notin {"index", "symbols"} /\ e.type \notin {"reset"}
    BY <1>9 DEF Loud
  <2>2. /\ Calm(Line, Line', {"names", "reset", "index", "symbols"})
        /\ Calm(Line, Line', {"complete"}) /\ Calm(Line, Line', {"index", "symbols"})
        /\ Calm(Line, Line', {"reset"})
    BY <1>1, <1>3, <1>9, <2>1, RaiseLine, Zenon
  <2>3. ASSUME Open PROVE LocateInv'
    <3>1. /\ \A x : x.type \in Loud => (x \in InTransit' <=> x \in InTransit \/ x = e)
          /\ \A S : (\A x \in S : x.type \in Loud) =>
               /\ Free(Line', S) <=> Free(Line, S) /\ e \notin S
               /\ Single(Line', S) <=> Single(Line, S) /\ (Free(Line, S) \/ e \notin S)
      BY <1>1, <1>3, <1>9, RaiseLine, Zenon
    <3>2. /\ \A x : x.type = "located" => (x \in InTransit' <=> x \in InTransit \/ x = e)
          /\ \A x : x.type = "reset" => (x \in InTransit' <=> x \in InTransit)
      BY <1>9, <3>1 DEF Loud
    <3>3. ResetComes' <=> ResetComes
      BY <3>2, Zenon DEF ResetComes
    <3>4. ASSUME ~ ResetComes, NEW c \in Classes
          PROVE  Exactly(queue.locations, LocatesOf(generation, c), LocateRuns(generation, c),
                         Line, LocatedOf(generation, c), c \in classes.requested)'
      <4> DEFINE E == LocatedOf(generation, c)
      <4>1. \A x \in E : x.type \in Loud
        BY DEF LocatedOf, Loud
      <4>2. e \in E <=> LocateRuns(generation, c)
        BY <1>1, <1>9, Zenon DEF LocateRuns, LocatedOf
      <4>3. Exactly(queue.locations, LocatesOf(generation, c), LocateRuns(generation, c),
                    Line, E, c \in classes.requested)
        BY <1>6, <2>3, <3>4, Zenon
      <4> HIDE DEF E
      <4>4. /\ Free(Line', E) <=> Free(Line, E) /\ e \notin E
            /\ Single(Line', E) <=> Single(Line, E) /\ (Free(Line, E) \/ e \notin E)
        BY <3>1, <4>1, Zenon
      <4>5. Exactly(queue.locations, LocatesOf(generation, c), LocateRuns(generation, c)',
                    Line', E, c \in classes.requested)
        BY <1>7, <4>2, <4>3, <4>4, Zenon DEF Exactly
      <4> QED
        BY <1>1, <1>2, <1>7, <4>5, Zenon DEF E
    <3>5. \A x \in InTransit' : x.type = "located" => x.generation <= generation'
      BY <1>2, <1>6, <1>9, <2>3, <3>2, Zenon
    <3> QED
      BY <1>4, <1>6, <2>3, <3>3, <3>4, <3>5, Zenon DEF LocateInv
  <2> QED
    BY <1>5, <2>2, <2>3, Zenon
<1> QED
  BY <1>8, <1>9, LocateBase, Zenon

\* A chunk ends.
LEMMA ResultDeep ==
  ASSUME Base, Base', Deep, RunIndex \/ RunSymbols
  PROVE  Deep'
<1>1. /\ ~ Beginning /\ outbox = <<>> /\ events' = events
      /\ pc = "run" /\ job.kind \in {"index", "symbols"} /\ pc' = "idle" /\ queue' = queue
      /\ \E e : Raises(outbox', e) /\ Found(e)
      /\ UNCHANGED <<worldVars, sessionVars, model, sweptFor>>
  BY ResultBase, Zenon
<1>2. PICK e : Raises(outbox', e) /\ Found(e)
  BY <1>1, Zenon
<1>3. /\ UNCHANGED <<disk, saves>> /\ session' = session /\ model' = model
      /\ analysis' = analysis /\ generation' = generation /\ classes' = classes
      /\ sweptFor' = sweptFor /\ store' = store /\ symbols' = symbols
  BY <1>1, Zenon DEF worldVars, sessionVars, resultVars
<1>4. /\ LineShape /\ LineShape' /\ generation \in Nat /\ queue.generation \in Nat
      /\ disk \in [Uris -> Nat] /\ saves \in Nat /\ MaxSaves \in Nat
  BY EngineFields, EngineAssumption, Zenon DEF Base, Shape, ResultShape, WorldShape
<1>5. /\ e \in EventSet /\ IsResult(e) /\ e.generation = queue.generation
      /\ \A u \in Uris : e.found[u] # Unknown =>
           e.found[u] = [version |-> disk[u], model |-> model] /\ disk[u] # Gone
      /\ e.conclusive => \A u \in e.attempted : disk[u] # Gone => e.found[u] # Unknown
  BY <1>2, Zenon DEF Found
<1>6. \A u \in Uris : e.found[u] # Unknown =>
        e.found[u].version = disk[u] /\ e.found[u].model = model /\ disk[u] # 0
  <2>1. SUFFICES ASSUME NEW u \in Uris, e.found[u] # Unknown
                 PROVE  e.found[u].version = disk[u] /\ e.found[u].model = model /\ disk[u] # 0
    BY Zenon
  <2>2. e.found[u] = [version |-> disk[u], model |-> model] /\ disk[u] # 0
    BY <1>5, <2>1, Zenon DEF Gone
  <2> QED
    BY <2>2
<1>7. /\ Line \in Seq(EventSet) /\ outbox' \in Seq(EventSet) /\ Line' = Line \o outbox'
      /\ \A types \in SUBSET Loud : e.type \notin types => Calm(Line, Line', types)
      /\ \A x : x.type \in Loud => (x \in InTransit' <=> x \in InTransit \/ x = e)
      /\ \A x \in ToSet(outbox') : x = e \/ x.type \notin Loud
  BY <1>1, <1>2, <1>4, RaiseLine, Zenon
<1>8. \A x : IsResult(x) => (x \in InTransit' <=> x \in InTransit \/ x = e)
  BY <1>7 DEF IsResult, Loud
<1>9. pc' # "run" /\ ~ AnalyzeRuns /\ ~ AnalyzeRuns' /\ NoLocate
  <2>1. pc' # "run" /\ job.kind # "analyze" /\ job.kind # "locate"
    BY <1>1
  <2> QED
    BY <2>1, Zenon DEF AnalyzeRuns, NoLocate
<1>10. /\ Calm(Line, Line', {"complete"}) /\ Calm(Line, Line', {"located", "reset"})
       /\ Calm(Line, Line', {"names"}) /\ Calm(Line, Line', {"reset"})
  <2>1. /\ {"complete"} \in SUBSET Loud /\ {"located", "reset"} \in SUBSET Loud
        /\ {"names"} \in SUBSET Loud /\ {"reset"} \in SUBSET Loud
        /\ e.type \notin {"complete"} /\ e.type \notin {"located", "reset"}
        /\ e.type \notin {"names"} /\ e.type \notin {"reset"}
    BY <1>5 DEF Loud, IsResult
  <2> QED
    BY <1>7, <2>1, Zenon
<1>11. VersionInv'
  <2>1. /\ saves <= MaxSaves
        /\ \A u \in Uris : disk[u] <= saves + 1 /\ Real(store[u]) /\ Real(symbols[u])
        /\ \A x \in InTransit : IsResult(x) => \A u \in Uris : Real(x.found[u])
        /\ saves = 0 => \A u \in Uris : disk[u] = 1
        /\ saves = 0 => \A x \in InTransit : x.type = "index" /\ x.conclusive =>
             \A u \in x.attempted : x.found[u] # Unknown
    BY Zenon DEF Deep, VersionInv
  <2>2. \A u \in Uris : Real(e.found[u])
    <3>1. \A u \in Uris : disk[u] # 0 => disk[u] \in 1 .. MaxSaves + 1
      BY <1>4, <2>1
    <3> QED
      BY <1>6, <3>1, Zenon DEF Real
  <2>3. \A x \in InTransit' : IsResult(x) => \A u \in Uris : Real(x.found[u])
    BY <1>8, <2>1, <2>2, Zenon
  <2>4. saves = 0 /\ e.conclusive => \A u \in e.attempted : e.found[u] # Unknown
    <3>1. e.attempted \in SUBSET Uris
      BY <1>5, EventTypes, Zenon
    <3>2. saves = 0 => \A u \in Uris : disk[u] # Gone
      BY <2>1 DEF Gone
    <3> QED
      BY <1>5, <3>1, <3>2, Zenon
  <2>5. \A x \in InTransit' : x.type = "index" => x \in InTransit \/ x = e
    BY <1>8 DEF IsResult
  <2>6. saves' = 0 => \A x \in InTransit' : x.type = "index" /\ x.conclusive =>
          \A u \in x.attempted : x.found[u] # Unknown
    BY <1>3, <2>1, <2>4, <2>5, Zenon
  <2>7. \A u \in Uris : disk'[u] <= saves' + 1 /\ Real(store'[u]) /\ Real(symbols'[u])
    BY <1>3, <2>1, Zenon
  <2>8. saves' <= MaxSaves /\ (saves' = 0 => \A u \in Uris : disk'[u] = 1)
    BY <1>3, <2>1, Zenon
  <2> QED
    BY <2>3, <2>6, <2>7, <2>8, Zenon DEF VersionInv
<1>12. OneStored'
  BY <1>3, StoredSame, Zenon DEF Deep
<1>13. ASSUME Open PROVE AnalyzeInv' /\ LocateInv' /\ NamesInv' /\ ResetInv'
  <2>1. AnalyzeInv'
    BY <1>1, <1>3, <1>4, <1>9, <1>10, <1>13, AlikeSelf, AnalyzeSame, Zenon DEF Deep
  <2>2. LocateInv'
    BY <1>1, <1>3, <1>4, <1>9, <1>10, <1>13, LocateSame, Zenon DEF Deep, NoLocate
  <2>3. NamesInv'
    <3>1. classes'.names = classes.names /\ classes'.requested \subseteq classes'.names
      BY <1>3, <1>13, Zenon DEF Deep, NamesInv
    <3> QED
      BY <1>1, <1>3, <1>4, <1>10, <1>13, <3>1, NamesSame, Zenon DEF Deep
  <2>4. ResetInv'
    BY <1>1, <1>3, <1>4, <1>10, <1>13, ResetSame, Zenon DEF Deep
  <2> QED
    BY <2>1, <2>2, <2>3, <2>4, Zenon
<1>14. ASSUME Open PROVE ResultInv'
  <2>1. Heralded(Line, generation)
    BY <1>14, Zenon DEF Deep, ResultInv, Heralded
  <2>2. /\ \A x \in InTransit : IsResult(x) => x.generation <= queue.generation
        /\ \A x \in InTransit : \A u \in Uris :
             IsResult(x) /\ x.generation = queue.generation /\ x.found[u] # Unknown =>
               x.found[u].model = model
        /\ generation = queue.generation =>
             \A u \in Uris : /\ store[u] # Unknown => store[u].model = model
                             /\ symbols[u] # Unknown => symbols[u].model = model
    BY <1>14, Zenon DEF Deep, ResultInv
  <2>3. \A d, x \in InTransit : \A u, w \in Uris :
          /\ IsResult(d) /\ IsResult(x) /\ d.generation = x.generation
          /\ d.found[u] # Unknown /\ x.found[w] # Unknown
          => d.found[u].model = x.found[w].model
    BY <1>14, Zenon DEF Deep, ResultInv
  <2>4. \A x \in InTransit : \A u, w \in Uris :
          IsResult(x) /\ x.generation = generation /\ x.found[u] # Unknown =>
            /\ store[w] # Unknown => store[w].model = x.found[u].model
            /\ symbols[w] # Unknown => symbols[w].model = x.found[u].model
    BY <1>14, Zenon DEF Deep, ResultInv
  <2>5. Heralded(Line \o outbox', generation)
    <3>1. \/ e.generation <= generation
          \/ \E y \in ToSet(Line) : y.type = "reset" /\ y.generation = e.generation
      <4>1. \/ generation = queue.generation
            \/ \E y \in InTransit : y.type = "reset" /\ y.generation = queue.generation
        BY <1>1, <1>14, Zenon DEF Deep, ResetInv
      <4>2. generation <= generation
        BY <1>4
      <4>3. \A x : x \in InTransit <=> x \in ToSet(Line)
        BY <1>4, LineNow, Zenon
      <4> QED
        BY <1>5, <4>1, <4>2, <4>3, Zenon
    <3>2. \A x : IsResult(x) => x.type \in Loud
      BY DEF IsResult, Loud
    <3>3. \A x \in ToSet(outbox') : IsResult(x) =>
            x.generation <= generation
              \/ \E y \in ToSet(Line) : y.type = "reset" /\ y.generation = x.generation
      BY <1>7, <3>1, <3>2, Zenon
    <3> DEFINE o == outbox'
    <3>4. o \in Seq(EventSet) /\ \A x \in ToSet(o) : IsResult(x) =>
            x.generation <= generation
              \/ \E y \in ToSet(Line) : y.type = "reset" /\ y.generation = x.generation
      BY <1>7, <3>3, Zenon
    <3> HIDE DEF o
    <3>5. Heralded(Line \o o, generation)
      BY <1>7, <2>1, <3>4, HeraldedJoin, Zenon
    <3> QED
      BY <3>5, Zenon DEF o
  <2>6. \A i \in 1 .. Len(Line') : IsResult(Line'[i]) =>
          \/ Line'[i].generation <= generation'
          \/ \E j \in 1 .. i - 1 : /\ Line'[j].type = "reset"
                                   /\ Line'[j].generation = Line'[i].generation
    BY <1>3, <1>7, <2>5, Zenon DEF Heralded
  <2>7. \A x \in InTransit' : IsResult(x) => x.generation <= queue'.generation
    <3>1. queue.generation <= queue.generation
      BY <1>4
    <3> QED
      BY <1>1, <1>5, <1>8, <2>2, <3>1, Zenon
  <2>8. \A x \in InTransit' : \A u \in Uris :
          IsResult(x) /\ x.generation = queue'.generation /\ x.found[u] # Unknown =>
            x.found[u].model = model'
    BY <1>1, <1>3, <1>6, <1>8, <2>2, Zenon
  <2>9. \A d, x \in InTransit' : \A u, w \in Uris :
          /\ IsResult(d) /\ IsResult(x) /\ d.generation = x.generation
          /\ d.found[u] # Unknown /\ x.found[w] # Unknown
          => d.found[u].model = x.found[w].model
    <3>1. SUFFICES ASSUME NEW d \in InTransit', NEW x \in InTransit', NEW u \in Uris, NEW w \in Uris,
                          IsResult(d), IsResult(x), d.generation = x.generation,
                          d.found[u] # Unknown, x.found[w] # Unknown
                   PROVE  d.found[u].model = x.found[w].model
      OBVIOUS
    <3>2. CASE d \in InTransit /\ x \in InTransit
      BY <3>1, <3>2, <2>3, Zenon
    <3>3. CASE d = e \/ x = e
      BY <3>1, <3>3, <1>1, <1>3, <1>5, <2>8, Zenon
    <3> QED
      BY <3>1, <3>2, <3>3, <1>8, Zenon
  <2>10. \A x \in InTransit' : \A u, w \in Uris :
           IsResult(x) /\ x.generation = generation' /\ x.found[u] # Unknown =>
             /\ store'[w] # Unknown => store'[w].model = x.found[u].model
             /\ symbols'[w] # Unknown => symbols'[w].model = x.found[u].model
    <3>1. SUFFICES ASSUME NEW x \in InTransit', NEW u \in Uris, NEW w \in Uris,
                          IsResult(x), x.generation = generation, x.found[u] # Unknown
                   PROVE  /\ store[w] # Unknown => store[w].model = x.found[u].model
                          /\ symbols[w] # Unknown => symbols[w].model = x.found[u].model
      BY <1>3, Zenon
    <3>2. CASE x \in InTransit
      BY <3>1, <3>2, <2>4, Zenon
    <3>3. CASE x = e
      BY <3>1, <3>3, <1>5, <1>6, <2>2, Zenon
    <3> QED
      BY <3>1, <3>2, <3>3, <1>8, Zenon
  <2>11. generation' = queue'.generation =>
           \A u \in Uris : /\ store'[u] # Unknown => store'[u].model = model'
                           /\ symbols'[u] # Unknown => symbols'[u].model = model'
    BY <1>1, <1>3, <2>2, Zenon
  <2> QED
    BY <2>6, <2>7, <2>8, <2>9, <2>10, <2>11, Zenon DEF ResultInv
<1> QED
  BY <1>3, <1>11, <1>12, <1>13, <1>14, Zenon DEF Deep, Open

\* The reset of a new generation is the last on the line.
LEMMA ResetRaised ==
  ASSUME LineShape, LineShape', outbox = <<>>, events' = events, NEW g \in Nat, NEW e,
         e.type = "reset", e.generation = g, Raises(outbox', e),
         generation \in Nat, generation' = generation, queue'.generation = g, generation < g,
         Ordered(Line),
         \A x \in InTransit : x.type = "reset" => generation < x.generation /\ x.generation < g
  PROVE  ResetInv' /\ ResetComes'
<1>1. /\ Line \in Seq(EventSet) /\ outbox' \in Seq(EventSet) /\ Line' = Line \o outbox'
      /\ e \in EventSet /\ e \in InTransit'
      /\ \A x : x.type \in Loud => (x \in InTransit' <=> x \in InTransit \/ x = e)
      /\ \A x \in ToSet(outbox') : x = e \/ x.type \notin Loud
  BY RaiseLine, Zenon
<1>2. "reset" \in Loud
  BY DEF Loud
<1>3. \A x \in InTransit' : x.type = "reset" => x \in InTransit \/ x = e
  BY <1>1, <1>2, Zenon
<1>4. generation <= g /\ g <= g /\ \A x \in EventSet : x.type = "reset" => x.generation \in Nat
  <2>1. \A x \in EventSet : x.type = "reset" => x.generation \in Nat
    BY EventTypes
  <2> QED
    BY <2>1
<1>5. \A x \in InTransit' : x.type = "reset" =>
        generation' < x.generation /\ x.generation <= queue'.generation
  <2>1. InTransit \subseteq EventSet
    BY LineNow, Zenon
  <2>2. ASSUME NEW x \in InTransit, x.type = "reset"
        PROVE  generation < x.generation /\ x.generation <= g
    <3>1. x.generation \in Nat /\ x.generation < g /\ generation < x.generation
      BY <1>4, <2>1, <2>2, Zenon
    <3> QED
      BY <3>1
  <2> QED
    BY <1>3, <1>4, <2>2, Zenon
<1> DEFINE o == outbox'
<1>6. o \in Seq(EventSet) /\ (\A x \in ToSet(o) : x = e \/ x.type \notin Loud) /\ Line' = Line \o o
  BY <1>1, Zenon
<1>7. Raises(o, e)
  BY Zenon
<1> HIDE DEF o
<1>8. Ordered(o)
  <2>1. \A x \in Resets : x.type \in Loud
    BY DEF Resets, Loud
  <2>2. Single(o, Resets)
    BY <1>7, <2>1, RaisedList, Zenon
  <2>3. \A i \in 1 .. Len(o) : o[i] \in EventSet
    BY <1>6
  <2>4. \A i, j \in 1 .. Len(o) : o[i].type = "reset" /\ o[j].type = "reset" => i = j
    BY <2>2, <2>3, Zenon DEF Single, Resets
  <2>5. \A i, j \in 1 .. Len(o) : i < j => i # j
    OBVIOUS
  <2> QED
    BY <2>4, <2>5, Zenon DEF Ordered
<1>9. Ordered(Line \o o)
  <2>1. \A x : x \in InTransit <=> x \in ToSet(Line)
    BY LineNow, Zenon
  <2>2. \A x \in ToSet(Line), y \in ToSet(o) :
          x.type = "reset" /\ y.type = "reset" => x.generation < y.generation
    BY <1>2, <1>6, <2>1, Zenon
  <2> QED
    BY <1>1, <1>6, <1>8, <2>2, OrderedJoin, Zenon
<1>10. \A i, j \in 1 .. Len(Line') :
         Line'[i].type = "reset" /\ Line'[j].type = "reset" /\ i < j =>
           Line'[i].generation < Line'[j].generation
  BY <1>6, <1>9, Zenon DEF Ordered
<1>11. \E x \in InTransit' : x.type = "reset" /\ x.generation = queue'.generation
  BY <1>1, Zenon
<1>12. generation' <= queue'.generation
  BY <1>4, Zenon
<1>13. ResetComes'
  BY <1>11, Zenon DEF ResetComes
<1> QED
  BY <1>5, <1>10, <1>11, <1>12, <1>13, Zenon DEF ResetInv

\* A list without results has no result to announce.
LEMMA NoneHeralded ==
  ASSUME NEW s, NEW T, s \in Seq(T), \A x \in ToSet(s) : ~ IsResult(x), NEW g
  PROVE  Heralded(s, g)
<1>1. \A i \in 1 .. Len(s) : s[i] \in ToSet(s)
  BY Elements, Zenon
<1> QED
  BY <1>1, Zenon DEF Heralded

\* The root has been configured.
LEMMA RootDeep ==
  ASSUME Base, Base', Deep, RunRoot
  PROVE  Deep'
<1> DEFINE e == [type |-> "reset", generation |-> queue.generation]
<1>1. /\ Beginning /\ queue' = queue /\ events' = events
      /\ outbox = <<>> /\ pc' = "idle" /\ job' = None /\ sweptFor' = 0
      /\ Raises(outbox', e) /\ UNCHANGED <<worldVars, sessionVars>>
  BY RootBase, Zenon
<1>2. e.type = "reset" /\ e.generation = queue.generation
  OBVIOUS
<1> HIDE DEF e
<1>3. NothingYet /\ pc = "run" /\ job.kind = "root"
  BY <1>1, Zenon DEF Base, BeginInv, RunRoot, Running
<1>4. /\ generation = 0 /\ sweptFor = 0 /\ queue.locations = <<>>
      /\ \A x \in InTransit : x.type = "status"
      /\ \A u \in Uris : store[u] = Unknown /\ symbols[u] = Unknown
      /\ classes.names = {} /\ classes.requested = {}
  BY <1>3, Zenon DEF NothingYet
<1>5. /\ UNCHANGED <<disk, saves>> /\ session' = session
      /\ analysis' = analysis /\ generation' = generation /\ classes' = classes
      /\ store' = store /\ symbols' = symbols
  BY <1>1, Zenon DEF worldVars, sessionVars, resultVars
<1>6. /\ LineShape /\ LineShape' /\ generation \in Nat /\ queue.generation \in Nat
  BY EngineFields, Zenon DEF Base, Shape, ResultShape
<1>7. /\ Line \in Seq(EventSet) /\ e \in InTransit'
      /\ \A types \in SUBSET Loud : e.type \notin types => Calm(Line, Line', types)
      /\ \A x : x.type \in Loud => (x \in InTransit' <=> x \in InTransit \/ x = e)
  BY <1>1, <1>6, RaiseLine, Zenon
<1>8. \A x \in InTransit' : x.type \in Loud => x = e
  <2>1. "status" \notin Loud
    BY DEF Loud
  <2> QED
    BY <1>4, <1>7, <2>1, Zenon
<1>9. \A x \in InTransit' : ~ IsResult(x) /\ x.type # "located"
  <2>1. \A x : IsResult(x) \/ x.type = "located" => x.type \in Loud
    BY DEF IsResult, Loud
  <2>2. ~ IsResult(e) /\ e.type # "located"
    BY <1>2 DEF IsResult
  <2> QED
    BY <1>8, <2>1, <2>2, Zenon
<1>10. pc' # "run" /\ ~ AnalyzeRuns /\ ~ AnalyzeRuns'
  <2>1. pc' # "run" /\ job.kind # "analyze"
    BY <1>1, <1>3
  <2> QED
    BY <2>1, Zenon DEF AnalyzeRuns
<1>11. /\ Calm(Line, Line', {"complete"}) /\ Calm(Line, Line', {"names"})
  <2>1. /\ {"complete"} \in SUBSET Loud /\ {"names"} \in SUBSET Loud
        /\ e.type \notin {"complete"} /\ e.type \notin {"names"}
    BY <1>2 DEF Loud
  <2> QED
    BY <1>7, <2>1, Zenon
<1>12. VersionInv' /\ OneStored'
  <2>1. VersionInv'
    <3>1. UNCHANGED <<saves, disk, store, symbols>>
      BY <1>5, Zenon
    <3> QED
      BY <1>9, <3>1, VersionSame, Zenon DEF Deep
  <2>2. OneStored'
    BY <1>5, StoredSame, Zenon DEF Deep
  <2> QED
    BY <2>1, <2>2, Zenon
<1>13. ASSUME Open PROVE AnalyzeInv' /\ NamesInv'
  <2>1. AnalyzeInv'
    BY <1>1, <1>5, <1>6, <1>10, <1>11, <1>13, AlikeSelf, AnalyzeSame, Zenon DEF Deep
  <2>2. NamesInv'
    <3>1. classes'.names = classes.names /\ classes'.requested \subseteq classes'.names
      BY <1>4, <1>5, Zenon
    <3> QED
      BY <1>1, <1>4, <1>5, <1>6, <1>11, <1>13, <3>1, NamesSame, Zenon DEF Deep
  <2> QED
    BY <2>1, <2>2, Zenon
<1>14. ASSUME Open PROVE ResetInv' /\ ResetComes'
  <2>1. queue.generation > 0
    <3>1. session.state # "new"
      BY <1>14 DEF Open
    <3> QED
      BY <3>1, Zenon DEF Base, BeginInv
  <2>2. generation < queue.generation
    BY <1>4, <1>6, <2>1
  <2>3. Ordered(Line)
    BY <1>14, Zenon DEF Deep, ResetInv, Ordered
  <2>4. \A x \in InTransit : x.type # "reset"
    <3>1. "status" # "reset"
      OBVIOUS
    <3> QED
      BY <1>4, <3>1, Zenon
  <2>5. queue'.generation = queue.generation
    BY <1>1, Zenon
  <2> QED
    BY <1>1, <1>2, <1>5, <1>6, <2>2, <2>3, <2>4, <2>5, ResetRaised, Zenon
<1>15. ASSUME Open PROVE LocateInv'
  <2>1. ToSet(queue'.locations) = {}
    BY <1>1, <1>4, EventLists, Zenon
  <2> QED
    BY <1>9, <1>10, <1>14, <1>15, <2>1, Zenon DEF LocateInv
<1>16. ResultInv'
  <2>1. Line' \in Seq(EventSet) /\ \A x \in ToSet(Line') : ~ IsResult(x)
    BY <1>6, <1>9, LineNext, Zenon
  <2>2. Heralded(Line', generation')
    BY <2>1, NoneHeralded, Zenon
  <2>3. \A i \in 1 .. Len(Line') : IsResult(Line'[i]) =>
          \/ Line'[i].generation <= generation'
          \/ \E j \in 1 .. i - 1 : /\ Line'[j].type = "reset"
                                   /\ Line'[j].generation = Line'[i].generation
    BY <2>2, Zenon DEF Heralded
  <2> QED
    BY <1>4, <1>5, <1>9, <2>3, Zenon DEF ResultInv
<1> QED
  BY <1>5, <1>12, <1>13, <1>14, <1>15, <1>16, Zenon DEF Deep, Open

\* A new model.
LEMMA RemodeledDeep ==
  ASSUME Base, Base', Deep, Remodeled
  PROVE  Deep'
<1> DEFINE g == queue.generation
           h == queue'.generation
           e == [type |-> "reset", generation |-> h]
<1>1. /\ ~ Beginning /\ outbox = <<>> /\ events' = events
      /\ pc = "run" /\ job.kind = "refresh" /\ pc' = "idle" /\ sweptFor' = 0
      /\ Raises(outbox', e) /\ h = g + 1 /\ queue'.pending = queue.pending
      /\ queue'.locations = <<>> /\ UNCHANGED <<worldVars, sessionVars>>
  BY Zenon DEF Remodeled
<1>2. e.type = "reset" /\ e.generation = h
  OBVIOUS
<1> HIDE DEF e
<1>3. /\ LineShape /\ LineShape' /\ generation \in Nat /\ g \in Nat
  BY EngineFields, Zenon DEF Base, Shape, ResultShape
<1>4. /\ h \in Nat /\ \A n \in Nat : n <= g => n < h /\ n <= h /\ n # h
  BY <1>1, <1>3
<1>5. /\ UNCHANGED <<disk, saves>> /\ session' = session
      /\ analysis' = analysis /\ generation' = generation /\ classes' = classes
      /\ store' = store /\ symbols' = symbols
  BY <1>1, Zenon DEF worldVars, sessionVars, resultVars
<1>6. /\ Line \in Seq(EventSet) /\ e \in InTransit' /\ outbox' \in Seq(EventSet)
      /\ Line' = Line \o outbox'
      /\ \A types \in SUBSET Loud : e.type \notin types => Calm(Line, Line', types)
      /\ \A x \in ToSet(outbox') : x = e \/ x.type \notin Loud
  BY <1>1, <1>3, RaiseLine, Zenon
<1>7. pc' # "run" /\ ~ AnalyzeRuns /\ ~ AnalyzeRuns'
  <2>1. pc' # "run" /\ job.kind # "analyze"
    BY <1>1
  <2> QED
    BY <2>1, Zenon DEF AnalyzeRuns
<1>8. /\ Calm(Line, Line', {"complete"}) /\ Calm(Line, Line', {"names"})
      /\ Calm(Line, Line', {"located"}) /\ Calm(Line, Line', {"index", "symbols"})
  <2>1. /\ {"complete"} \in SUBSET Loud /\ {"names"} \in SUBSET Loud
        /\ {"located"} \in SUBSET Loud /\ {"index", "symbols"} \in SUBSET Loud
        /\ e.type \notin {"complete"} /\ e.type \notin {"names"}
        /\ e.type \notin {"located"} /\ e.type \notin {"index", "symbols"}
    BY <1>2 DEF Loud
  <2> QED
    BY <1>6, <2>1, Zenon
<1>9. /\ InTransit \subseteq EventSet
      /\ \A x : x.type \in {"names"} => (x \in InTransit' <=> x \in InTransit)
      /\ \A x : x.type \in {"located"} => (x \in InTransit' <=> x \in InTransit)
      /\ \A x : x.type \in {"index", "symbols"} => (x \in InTransit' <=> x \in InTransit)
      /\ \A S : (\A x \in S : x.type \in {"names"}) => Alike(Line, Line', S)
  BY <1>3, <1>8, CalmLine, Zenon
<1>10. /\ \A x : x.type = "names" => (x \in InTransit' <=> x \in InTransit)
       /\ \A x : x.type = "located" => (x \in InTransit' <=> x \in InTransit)
       /\ \A x : IsResult(x) => (x \in InTransit' <=> x \in InTransit)
  BY <1>9 DEF IsResult
<1>11. VersionInv' /\ OneStored'
  <2>1. UNCHANGED <<store, symbols, disk, saves>>
    BY <1>5, Zenon
  <2> QED
    BY <1>8, <2>1, StoreSame, Zenon
<1>12. ASSUME Open PROVE AnalyzeInv'
  BY <1>1, <1>3, <1>5, <1>7, <1>8, <1>12, AlikeSelf, AnalyzeSame, Zenon DEF Deep
<1>13. ASSUME Open PROVE generation < h /\ generation # h /\ generation <= g
  BY <1>3, <1>4, <1>13, Zenon DEF Deep, ResetInv
<1>14. ASSUME Open PROVE ResetInv' /\ ResetComes'
  <2>1. \A x \in InTransit : x.type = "reset" => generation < x.generation /\ x.generation <= g
    BY <1>14, Zenon DEF Deep, ResetInv
  <2>2. \A x \in EventSet : x.type = "reset" => x.generation \in Nat
    BY EventTypes
  <2>3. \A x \in InTransit : x.type = "reset" => generation < x.generation /\ x.generation < h
    BY <1>4, <1>9, <2>1, <2>2, Zenon
  <2>4. Ordered(Line)
    BY <1>14, Zenon DEF Deep, ResetInv, Ordered
  <2> QED
    BY <1>1, <1>2, <1>3, <1>4, <1>5, <1>13, <1>14, <2>3, <2>4, ResetRaised, Zenon
<1>15. ASSUME Open PROVE LocateInv'
  <2>1. ToSet(queue'.locations) = {}
    BY <1>1, EventLists, Zenon
  <2>2. \A x \in InTransit' : x.type = "located" => x.generation <= generation'
    BY <1>5, <1>10, <1>15, Zenon DEF Deep, LocateInv
  <2> QED
    BY <1>7, <1>14, <1>15, <2>1, <2>2, Zenon DEF LocateInv
<1>16. ASSUME Open PROVE NamesInv'
  <2>1. /\ classes.requested \subseteq classes.names
        /\ \A k \in Nat : Single(Line, NamesOf(k))
        /\ \A x \in InTransit : x.type = "names" =>
             x.generation <= g /\ (x.generation = generation => classes.names = {})
    BY <1>16, Zenon DEF Deep, NamesInv
  <2>2. \A k \in Nat : Single(Line', NamesOf(k))
    <3>1. \A k \in Nat : \A x \in NamesOf(k) : x.type \in {"names"}
      BY DEF NamesOf
    <3>2. \A k \in Nat : Alike(Line, Line', NamesOf(k))
      BY <1>9, <3>1, Zenon
    <3> QED
      BY <2>1, <3>2, Zenon DEF Alike
  <2>3. \A x \in EventSet : x.type = "names" => x.generation \in Nat
    BY EventTypes
  <2>4. \A x \in InTransit' : x.type = "names" =>
          /\ x.generation <= queue'.generation
          /\ x.generation = generation' => classes'.names = {}
          /\ x.generation = queue'.generation => sweptFor' = queue'.generation
    BY <1>4, <1>5, <1>9, <1>10, <2>1, <2>3, Zenon
  <2> QED
    BY <1>5, <1>13, <1>16, <2>1, <2>2, <2>4, Zenon DEF NamesInv
<1>17. ASSUME Open PROVE ResultInv'
  <2>1. Heralded(Line, generation)
    BY <1>17, Zenon DEF Deep, ResultInv, Heralded
  <2>2. Heralded(Line', generation)
    <3> DEFINE o == outbox'
    <3>1. \A x \in ToSet(o) : ~ IsResult(x)
      <4>1. ~ IsResult(e) /\ \A x : IsResult(x) => x.type \in Loud
        BY <1>2 DEF IsResult, Loud
      <4> QED
        BY <4>1, <1>6, Zenon
    <3>2. o \in Seq(EventSet) /\ Line' = Line \o o
      BY <1>6, Zenon
    <3> HIDE DEF o
    <3>3. Heralded(Line \o o, generation)
      BY <1>6, <2>1, <3>1, <3>2, HeraldedJoin, Zenon
    <3> QED
      BY <3>2, <3>3, Zenon
  <2>3. \A i \in 1 .. Len(Line') : IsResult(Line'[i]) =>
          \/ Line'[i].generation <= generation'
          \/ \E j \in 1 .. i - 1 : /\ Line'[j].type = "reset"
                                   /\ Line'[j].generation = Line'[i].generation
    BY <1>5, <2>2, Zenon DEF Heralded
  <2>4. \A x \in InTransit' : IsResult(x) => x.generation < h /\ x.generation <= h /\ x.generation # h
    <3>1. \A x \in EventSet : IsResult(x) => x.generation \in Nat
      BY EventTypes, Zenon
    <3>2. \A x \in InTransit : IsResult(x) => x.generation <= g
      BY <1>17, Zenon DEF Deep, ResultInv
    <3> QED
      BY <1>4, <1>9, <1>10, <3>1, <3>2, Zenon
  <2>5. \A d, x \in InTransit' : \A u, w \in Uris :
          /\ IsResult(d) /\ IsResult(x) /\ d.generation = x.generation
          /\ d.found[u] # Unknown /\ x.found[w] # Unknown
          => d.found[u].model = x.found[w].model
    <3>1. ASSUME NEW d \in InTransit', NEW x \in InTransit', IsResult(d), IsResult(x)
          PROVE  d \in InTransit /\ x \in InTransit
      BY <1>10, <3>1, Zenon
    <3>2. \A d, x \in InTransit : \A u, w \in Uris :
            /\ IsResult(d) /\ IsResult(x) /\ d.generation = x.generation
            /\ d.found[u] # Unknown /\ x.found[w] # Unknown
            => d.found[u].model = x.found[w].model
      BY <1>17, Zenon DEF Deep, ResultInv
    <3> QED
      BY <3>1, <3>2, Zenon
  <2>6. \A x \in InTransit' : \A u, w \in Uris :
          IsResult(x) /\ x.generation = generation' /\ x.found[u] # Unknown =>
            /\ store'[w] # Unknown => store'[w].model = x.found[u].model
            /\ symbols'[w] # Unknown => symbols'[w].model = x.found[u].model
    <3>1. \A x \in InTransit : \A u, w \in Uris :
            IsResult(x) /\ x.generation = generation /\ x.found[u] # Unknown =>
              /\ store[w] # Unknown => store[w].model = x.found[u].model
              /\ symbols[w] # Unknown => symbols[w].model = x.found[u].model
      BY <1>17, Zenon DEF Deep, ResultInv
    <3> QED
      BY <1>5, <1>10, <3>1, Zenon
  <2> QED
    BY <1>5, <1>13, <1>17, <2>3, <2>4, <2>5, <2>6, Zenon DEF ResultInv
<1> QED
  BY <1>5, <1>11, <1>12, <1>14, <1>15, <1>16, <1>17, Zenon DEF Deep, Open

\* initialize.
LEMMA InitializeDeep ==
  ASSUME Base, Base', Deep, Initialize
  PROVE  Deep'
<1>1. /\ Beginning' /\ Line' = <<>> /\ queue'.locations = <<>> /\ pc' = "idle"
      /\ queue'.pending = <<[kind |-> "root"]>>
  BY InitializeBase, Zenon
<1>2. NothingYet'
  BY <1>1, Zenon DEF Base, BeginInv
<1>3. /\ generation' = 0 /\ \A u \in Uris : store'[u] = Unknown /\ symbols'[u] = Unknown
      /\ classes'.names = {} /\ classes'.requested = {} /\ ~ analysis'.inFlight
  BY <1>2, Zenon DEF NothingYet
<1>4. InTransit' = {} /\ LineShape' /\ ToSet(queue'.locations) = {} /\ queue'.generation \in Nat
  <2>1. LineShape' /\ queue' \in Queues
    BY Zenon DEF Base, Shape
  <2>2. ToSet(<<>>) = {}
    BY EventLists, Zenon
  <2>3. \A x : x \in InTransit' <=> x \in ToSet(Line')
    BY <2>1, LineNext, Zenon
  <2>4. queue'.generation \in Nat
    BY <2>1, QueueFields, Zenon
  <2> QED
    BY <1>1, <2>1, <2>2, <2>3, <2>4, Zenon
<1>5. pc' # "run"
  BY <1>1
<1>6. \A S : Free(Line', S) /\ Single(Line', S)
  BY <1>1, FreeEmpty, Zenon
<1>7. AnalyzeInv'
  <2> DEFINE p == <<[kind |-> "root"]>>
  <2>1. \A i \in 1 .. Len(p) : p[i].kind = "root"
    OBVIOUS
  <2>2. Free(p, Analyses)
    <3>1. \A x \in Analyses : x.kind # "root"
      BY DEF Analyses
    <3> HIDE DEF p
    <3> QED
      BY <2>1, <3>1, Zenon DEF Free
  <2>3. queue'.pending = p
    BY <1>1, Zenon
  <2> HIDE DEF p
  <2>4. Single(p, Analyses)
    BY <2>2, FreeSingle, Zenon
  <2>5. ~ AnalyzeRuns'
    BY <1>5, Zenon DEF AnalyzeRuns
  <2> QED
    BY <1>3, <1>6, <2>2, <2>3, <2>4, <2>5, Zenon DEF AnalyzeInv, Exactly
<1>8. LocateInv'
  <2>1. \A S : Free(queue'.locations, S) /\ Single(queue'.locations, S)
    BY <1>1, FreeEmpty, Zenon
  <2>2. \A c \in Classes : ~ LocateRuns(generation, c)'
    BY <1>5, Zenon DEF LocateRuns
  <2>3. \A c \in Classes :
          Exactly(queue.locations, LocatesOf(generation, c), LocateRuns(generation, c),
                  Line, LocatedOf(generation, c), c \in classes.requested)'
    BY <1>3, <1>6, <2>1, <2>2, Zenon DEF Exactly
  <2> QED
    BY <1>4, <1>5, <2>3, Zenon DEF LocateInv
<1>9. NamesInv'
  BY <1>3, <1>4, <1>6, Zenon DEF NamesInv
<1>10. ResetInv'
  <2>1. 1 .. Len(Line') = {}
    BY <1>1
  <2>2. generation' <= queue'.generation
    BY <1>3, <1>4
  <2> QED
    BY <1>1, <1>4, <2>1, <2>2, Zenon DEF ResetInv
<1>11. ResultInv'
  <2>1. 1 .. Len(Line') = {}
    BY <1>1
  <2> QED
    BY <1>3, <1>4, <2>1, Zenon DEF ResultInv
<1>12. VersionInv' /\ OneStored'
  <2>1. UNCHANGED <<store, symbols, disk, saves>>
    BY Zenon DEF Initialize, worldVars, resultVars
  <2> QED
    BY <1>4, <2>1, StoreSame, Zenon
<1> QED
  BY <1>7, <1>8, <1>9, <1>10, <1>11, <1>12, Zenon DEF Deep

\* The session handles the first event of the line.
Handled(e) ==
  /\ LineShape /\ LineShape' /\ e = Head(Line) /\ e \in EventSet /\ Line # <<>>
  /\ Line' = Tail(Line) /\ e \in InTransit /\ InTransit' \subseteq InTransit
  /\ generation \in Nat /\ queue.generation \in Nat
  /\ queue'.generation = queue.generation /\ queue'.locations = queue.locations
  /\ (Beginning' <=> Beginning) /\ Open /\ Open'
  /\ UNCHANGED <<pc, job, model, sweptFor, disk, saves>>

\* What every event does to the session, and what to the line.
LEMMA HandledNow ==
  ASSUME Base, Base', HandleEvent
  PROVE  /\ Handled(Head(events))
         /\ \E a \in Markers :
              Fed(a) /\ (a.inFlight <=> (analysis.inFlight /\ Head(events).type # "complete"))
<1>1. /\ Head(events) \in EventSet /\ session'.state = session.state
      /\ \E a \in Markers :
           Fed(a) /\ (a.inFlight <=> (analysis.inFlight /\ Head(events).type # "complete"))
  BY HandledEvent, Zenon DEF Base
<1>2. /\ events # <<>> /\ events' = Tail(events) /\ Open
      /\ UNCHANGED <<worldVars, engineVars>>
  BY Zenon DEF HandleEvent
<1>3. UNCHANGED <<pc, job, outbox, model, sweptFor, disk, saves>>
  BY <1>2, Zenon DEF worldVars, engineVars
<1>4. /\ LineShape /\ LineShape' /\ queue \in Queues /\ generation \in Nat
      /\ queue.generation \in Nat
  BY EngineFields, Zenon DEF Base, Shape, ResultShape
<1>5. Line # <<>> /\ Head(Line) = Head(events) /\ Line' = Tail(Line)
  BY <1>2, <1>3, <1>4, LineStep, Zenon
<1>6. queue'.generation = queue.generation /\ queue'.locations = queue.locations
  BY <1>1, <1>4, FedKinds, Zenon DEF SameBackground
<1>7. Head(events) \in InTransit /\ InTransit' \subseteq InTransit
  <2>1. events \in Seq(EventSet)
    BY <1>4, Zenon DEF LineShape
  <2>2. \A x : x \in ToSet(events) <=> x = Head(events) \/ x \in ToSet(Tail(events))
    BY <1>2, <2>1, ElementsTail, Zenon
  <2> QED
    BY <1>2, <1>3, <2>2, Zenon DEF InTransit
<1>8. Beginning' <=> Beginning
  BY HandleBase, Zenon
<1>9. Open'
  BY <1>1, <1>2, Zenon DEF Open
<1> QED
  BY <1>1, <1>2, <1>3, <1>4, <1>5, <1>6, <1>7, <1>8, <1>9, Zenon DEF Handled

\* The line without its first event.
LEMMA HandledLine ==
  ASSUME NEW e, Handled(e)
  PROVE  /\ Line \in Seq(EventSet) /\ InTransit \subseteq EventSet
         /\ \A x : x \in InTransit' <=> x \in ToSet(Line')
         /\ \A types : e.type \notin types => Calm(Line, Line', types)
         /\ \A S : /\ Free(Line, S) <=> e \notin S /\ Free(Line', S)
                   /\ Single(Line, S) => Single(Line', S) /\ (e \in S => Free(Line', S))
<1>1. /\ LineShape /\ LineShape' /\ e = Head(Line) /\ Line # <<>> /\ Line' = Tail(Line)
  BY Zenon DEF Handled
<1>2. Line \in Seq(EventSet) /\ InTransit \subseteq EventSet
  BY <1>1, LineNow, Zenon
<1>3. \A x : x \in InTransit' <=> x \in ToSet(Line')
  BY <1>1, LineNext, Zenon
<1>4. \A types : e.type \notin types => Calm(Line, Line', types)
  BY <1>1, Zenon DEF Calm
<1>5. ASSUME NEW S
      PROVE  /\ Free(Line, S) <=> e \notin S /\ Free(Line', S)
             /\ Single(Line, S) => Single(Line', S) /\ (e \in S => Free(Line', S))
  <2>1. /\ Free(Line, S) <=> Head(Line) \notin S /\ Free(Tail(Line), S)
        /\ Single(Line, S) =>
             Single(Tail(Line), S) /\ (Head(Line) \in S => Free(Tail(Line), S))
    BY <1>1, <1>2, ListTail, Zenon
  <2> QED
    BY <1>1, <2>1, Zenon
<1> QED
  BY <1>2, <1>3, <1>4, <1>5, Zenon

\* The mark of the document: an analysis that comes back clears it.
LEMMA HandledAnalyze ==
  ASSUME Base, Base', Deep, HandleEvent
  PROVE  AnalyzeInv'
<1> DEFINE e == Head(events)
<1>1. PICK a \in Markers : Fed(a) /\ (a.inFlight <=> (analysis.inFlight /\ e.type # "complete"))
  BY HandledNow, Zenon
<1>2. Handled(e)
  BY HandledNow, Zenon
<1> HIDE DEF e
<1>3. Exactly(queue.pending, Analyses, AnalyzeRuns, Line, Completes, analysis.inFlight)
  BY <1>2, Zenon DEF Deep, AnalyzeInv, Handled
<1>4. /\ Free(Line, Completes) <=> e \notin Completes /\ Free(Line', Completes)
      /\ Single(Line, Completes) =>
           Single(Line', Completes) /\ (e \in Completes => Free(Line', Completes))
  BY <1>2, HandledLine, Zenon
<1>5. e \in Completes <=> e.type = "complete"
  BY <1>2, Zenon DEF Handled, Completes
<1>6. Exactly(queue.pending, Analyses, AnalyzeRuns, Line', Completes, a.inFlight)
  BY <1>1, <1>3, <1>4, <1>5, Zenon DEF Exactly
<1>7. AnalyzeRuns' <=> AnalyzeRuns
  BY <1>2, Zenon DEF Handled, AnalyzeRuns
<1>8. queue \in Queues
  BY Zenon DEF Base, Shape
<1> QED
  BY <1>1, <1>6, <1>7, <1>8, FedAnalyze, Zenon

\* An event that brings no results.
LEMMA PlainDeep ==
  ASSUME Base, Base', Deep, NEW e, Handled(e), AnalyzeInv', UNCHANGED resultVars,
         e.type \notin {"index", "symbols", "reset", "names", "located"}
  PROVE  Deep'
<1>1. /\ e.type \notin {"located", "reset"} /\ e.type \notin {"names", "reset", "index", "symbols"}
  OBVIOUS
<1>2. /\ Calm(Line, Line', {"located", "reset"})
      /\ Calm(Line, Line', {"names", "reset", "index", "symbols"})
  BY <1>1, HandledLine, Zenon
<1>3. /\ LineShape /\ LineShape' /\ Open /\ Open' /\ (Beginning' <=> Beginning)
      /\ queue'.generation = queue.generation /\ queue'.locations = queue.locations
      /\ pc' = pc /\ job' = job /\ sweptFor' = sweptFor
      /\ UNCHANGED <<resultVars, model, disk, saves>>
      /\ generation' = generation /\ classes' = classes
  BY Zenon DEF Handled, resultVars
<1>4. LocateInv'
  BY <1>2, <1>3, LocateSame, Zenon DEF Deep
<1>5. NamesInv' /\ ResetInv' /\ ResultInv' /\ VersionInv' /\ OneStored'
  BY <1>2, <1>3, RestSame, Zenon
<1> QED
  BY <1>4, <1>5, Zenon DEF Deep

\* The names of the dependencies.
LEMMA NamesDeep ==
  ASSUME Base, Base', Deep, NEW e, Handled(e), AnalyzeInv', e.type = "names",
         generation' = generation, store' = store, symbols' = symbols,
         classes' = IF e.generation = generation THEN [ResetClasses EXCEPT !.names = Classes]
                                                 ELSE classes
  PROVE  Deep'
<1>1. /\ LineShape /\ LineShape' /\ Open /\ Open' /\ (Beginning' <=> Beginning)
      /\ queue'.generation = queue.generation /\ queue'.locations = queue.locations
      /\ pc' = pc /\ job' = job /\ sweptFor' = sweptFor /\ generation \in Nat
      /\ e \in EventSet /\ e \in InTransit /\ InTransit' \subseteq InTransit
      /\ UNCHANGED <<generation, store, symbols, model>>
      /\ UNCHANGED <<store, symbols, disk, saves>>
  BY Zenon DEF Handled
<1>2. /\ e.type \notin {"located", "reset"} /\ e.type \notin {"reset"}
      /\ e.type \notin {"reset", "index", "symbols"}
  OBVIOUS
<1>3. /\ Calm(Line, Line', {"located", "reset"}) /\ Calm(Line, Line', {"reset"})
      /\ Calm(Line, Line', {"reset", "index", "symbols"})
  BY <1>2, HandledLine, Zenon
<1>4. /\ classes.requested \subseteq classes.names
      /\ \A g \in Nat : Single(Line, NamesOf(g))
      /\ \A x \in InTransit : x.type = "names" =>
           /\ x.generation <= queue.generation
           /\ x.generation = generation => classes.names = {}
           /\ x.generation = queue.generation => sweptFor = queue.generation
      /\ (sweptFor # queue.generation /\ generation = queue.generation) => classes.names = {}
  BY <1>1, Zenon DEF Deep, NamesInv
<1>5. e.generation = generation =>
        /\ classes.names = {} /\ classes.requested = {} /\ classes'.requested = {}
  <2>1. [ResetClasses EXCEPT !.names = Classes].requested = {}
    BY DEF ResetClasses
  <2> QED
    BY <1>1, <1>4, <2>1, Zenon
<1>6. classes'.requested = classes.requested
  BY <1>5, Zenon
<1>7. LocateInv'
  BY <1>1, <1>3, <1>6, LocateSame, Zenon DEF Deep
<1>8. ResetInv'
  BY <1>1, <1>3, ResetSame, Zenon DEF Deep
<1>9. ResultInv'
  BY <1>1, <1>3, ResultSame, Zenon DEF Deep
<1>10. VersionInv' /\ OneStored'
  BY <1>1, StoreSame, Zenon
<1>11. NamesInv'
  <2>1. classes'.requested \subseteq classes'.names
    BY <1>4, <1>5, Zenon
  <2>2. \A g \in Nat : Single(Line', NamesOf(g))
    BY <1>4, HandledLine, Zenon
  <2>3. ASSUME NEW x \in InTransit', x.type = "names", x.generation = generation
        PROVE  classes'.names = {}
    <3>1. CASE e.generation = generation
      <4>1. x \in EventSet /\ x \in ToSet(Line')
        BY <1>1, HandledLine, Zenon
      <4>2. x \in NamesOf(generation) /\ e \in NamesOf(generation)
        BY <1>1, <2>3, <3>1, <4>1, Zenon DEF NamesOf
      <4>3. Free(Line', NamesOf(generation))
        BY <1>1, <1>4, <4>2, HandledLine, Zenon
      <4>4. Line' \in Seq(EventSet)
        BY <1>1, LineNext, Zenon
      <4>5. PICK i \in 1 .. Len(Line') : Line'[i] = x
        <5> DEFINE t == Line'
        <5>1. t \in Seq(EventSet) /\ x \in ToSet(t)
          BY <4>1, <4>4, Zenon
        <5> HIDE DEF t
        <5>2. \E i \in 1 .. Len(t) : t[i] = x
          BY <5>1, Elements, Zenon
        <5> QED
          BY <5>2, Zenon DEF t
      <4> QED
        BY <4>2, <4>3, <4>5, Zenon DEF Free
    <3>2. CASE e.generation # generation
      BY <1>1, <1>4, <2>3, <3>2, Zenon
    <3> QED
      BY <3>1, <3>2, Zenon
  <2>4. \A x \in InTransit' : x.type = "names" =>
          /\ x.generation <= queue'.generation
          /\ x.generation = generation' => classes'.names = {}
          /\ x.generation = queue'.generation => sweptFor' = queue'.generation
    BY <1>1, <1>4, <2>3, Zenon
  <2>5. (sweptFor' # queue'.generation /\ generation' = queue'.generation) => classes'.names = {}
    BY <1>1, <1>4, Zenon
  <2> QED
    BY <2>1, <2>2, <2>4, <2>5, Zenon DEF NamesInv
<1> QED
  BY <1>7, <1>8, <1>9, <1>10, <1>11, Zenon DEF Deep

\* A location comes back.
LEMMA LocatedDeep ==
  ASSUME Base, Base', Deep, NEW e, Handled(e), AnalyzeInv', e.type = "located",
         generation' = generation, store' = store, symbols' = symbols,
         IF e.generation = generation
         THEN /\ classes'.requested = classes.requested \ e.attempted
              /\ classes'.names = classes.names
         ELSE classes' = classes
  PROVE  Deep'
<1>1. /\ LineShape /\ LineShape' /\ Open /\ Open' /\ (Beginning' <=> Beginning)
      /\ queue'.generation = queue.generation /\ queue'.locations = queue.locations
      /\ pc' = pc /\ job' = job /\ sweptFor' = sweptFor /\ generation \in Nat
      /\ e \in EventSet /\ e \in InTransit /\ InTransit' \subseteq InTransit
      /\ UNCHANGED <<generation, store, symbols, model>>
      /\ UNCHANGED <<store, symbols, disk, saves>>
  BY Zenon DEF Handled
<1>2. /\ e.type \notin {"names"} /\ e.type \notin {"reset"}
      /\ e.type \notin {"reset", "index", "symbols"}
  OBVIOUS
<1>3. /\ Calm(Line, Line', {"names"}) /\ Calm(Line, Line', {"reset"})
      /\ Calm(Line, Line', {"reset", "index", "symbols"})
  BY <1>2, HandledLine, Zenon
<1>4. NamesInv'
  <2>1. classes'.names = classes.names /\ classes'.requested \subseteq classes'.names
    BY <1>1, Zenon DEF Deep, NamesInv
  <2> QED
    BY <1>1, <1>3, <2>1, NamesSame, Zenon DEF Deep
<1>5. ResetInv'
  BY <1>1, <1>3, ResetSame, Zenon DEF Deep
<1>6. ResultInv'
  BY <1>1, <1>3, ResultSame, Zenon DEF Deep
<1>7. VersionInv' /\ OneStored'
  BY <1>1, StoreSame, Zenon
<1>8. LocateInv'
  <2>1. /\ \A x \in ToSet(queue.locations) : x.generation <= generation
        /\ (pc = "run" /\ job.kind = "locate") => job.generation <= generation
        /\ \A x \in InTransit : x.type = "located" => x.generation <= generation
        /\ ~ ResetComes => \A c \in Classes :
             Exactly(queue.locations, LocatesOf(generation, c), LocateRuns(generation, c),
                     Line, LocatedOf(generation, c), c \in classes.requested)
    BY <1>1, Zenon DEF Deep, LocateInv
  <2>2. ResetComes' <=> ResetComes
    <3>1. \A x : x.type \in {"reset"} => (x \in InTransit' <=> x \in InTransit)
      BY <1>1, <1>3, CalmLine, Zenon
    <3>2. \A x : x.type = "reset" => (x \in InTransit' <=> x \in InTransit)
      BY <3>1
    <3> QED
      BY <3>2, Zenon DEF ResetComes
  <2>3. ASSUME ~ ResetComes, NEW c \in Classes
        PROVE  Exactly(queue.locations, LocatesOf(generation, c), LocateRuns(generation, c),
                       Line, LocatedOf(generation, c), c \in classes.requested)'
    <3> DEFINE E == LocatedOf(generation, c)
    <3>1. Exactly(queue.locations, LocatesOf(generation, c), LocateRuns(generation, c),
                  Line, E, c \in classes.requested)
      BY <2>1, <2>3, Zenon
    <3>2. e \in E <=> e.generation = generation /\ c \in e.attempted
      BY <1>1, Zenon DEF LocatedOf
    <3>3. /\ LocatesOf(generation, c)' = LocatesOf(generation, c) /\ E' = E
          /\ LocateRuns(generation, c)' <=> LocateRuns(generation, c)
      BY <1>1, Zenon DEF LocatesOf, LocatedOf, LocateRuns
    <3> HIDE DEF E
    <3>4. /\ Free(Line, E) <=> e \notin E /\ Free(Line', E)
          /\ Single(Line, E) => Single(Line', E) /\ (e \in E => Free(Line', E))
      BY HandledLine, Zenon
    <3>5. c \in classes'.requested <=> c \in classes.requested /\ e \notin E
      BY <3>2, Zenon
    <3>6. Exactly(queue.locations, LocatesOf(generation, c), LocateRuns(generation, c),
                  Line', E, c \in classes'.requested)
      BY <3>1, <3>4, <3>5, Zenon DEF Exactly
    <3> QED
      BY <1>1, <3>3, <3>6, Zenon DEF E, Exactly
  <2>4. \A x \in InTransit' : x.type = "located" => x.generation <= generation'
    BY <1>1, <2>1, Zenon
  <2>5. \A x \in ToSet(queue'.locations) : x.generation <= generation'
    BY <1>1, <2>1, Zenon
  <2>6. (pc' = "run" /\ job'.kind = "locate") => job'.generation <= generation'
    BY <1>1, <2>1, Zenon
  <2>7. ~ ResetComes' => \A c \in Classes :
          Exactly(queue.locations, LocatesOf(generation, c), LocateRuns(generation, c),
                  Line, LocatedOf(generation, c), c \in classes.requested)'
    BY <2>2, <2>3, Zenon
  <2> QED
    BY <2>4, <2>5, <2>6, <2>7, Zenon DEF LocateInv
<1> QED
  BY <1>4, <1>5, <1>6, <1>7, <1>8, Zenon DEF Deep

\* What is kept of a file is what was, or what the result e found.
Taking(old, new, e) ==
  \A u \in Uris : new[u] = old[u] \/ (e.generation = generation /\ new[u] = e.found[u])

\* A result is merged, if it is not of an earlier generation.
LEMMA MergeTakes ==
  ASSUME NEW old, NEW e, e.generation \in Nat, generation \in Nat, e.generation <= generation
  PROVE  Taking(old, Merge(old, e), e) /\ Taking(old, old, e)
<1>1. CASE e.generation < generation
  BY <1>1, Zenon DEF Merge, Taking
<1>2. CASE ~ (e.generation < generation)
  <2>1. e.generation = generation
    BY <1>2
  <2>2. \A u \in Uris : Merge(old, e)[u] = old[u] \/ Merge(old, e)[u] = e.found[u]
    <3>1. Merge(old, e) = [u \in Uris |-> IF e.found[u] # Unknown \/ (u \in e.attempted /\ e.conclusive)
                                          THEN e.found[u] ELSE old[u]]
      BY <1>2, Zenon DEF Merge
    <3> QED
      BY <3>1, Zenon
  <2> QED
    BY <2>1, <2>2, Zenon DEF Taking
<1> QED
  BY <1>1, <1>2, Zenon

\* A result comes back.
LEMMA TakenDeep ==
  ASSUME Base, Base', Deep, NEW e, Handled(e), AnalyzeInv', IsResult(e),
         generation' = generation, classes' = classes,
         e.generation <= generation => Taking(store, store', e) /\ Taking(symbols, symbols', e)
  PROVE  Deep'
<1>1. /\ LineShape /\ LineShape' /\ Open /\ Open' /\ (Beginning' <=> Beginning)
      /\ queue'.generation = queue.generation /\ queue'.locations = queue.locations
      /\ pc' = pc /\ job' = job /\ sweptFor' = sweptFor /\ generation \in Nat
      /\ e \in EventSet /\ e \in InTransit /\ InTransit' \subseteq InTransit
      /\ e = Head(Line) /\ Line # <<>> /\ Line' = Tail(Line) /\ queue.generation \in Nat
      /\ model' = model /\ disk' = disk /\ saves' = saves
  BY Zenon DEF Handled
<1>2. /\ e.type \notin {"names"} /\ e.type \notin {"reset"} /\ e.type \notin {"located", "reset"}
      /\ e.type # "reset"
  BY DEF IsResult
<1>3. /\ Calm(Line, Line', {"names"}) /\ Calm(Line, Line', {"reset"})
      /\ Calm(Line, Line', {"located", "reset"}) /\ Line \in Seq(EventSet)
  BY <1>2, HandledLine, Zenon
<1>4. LocateInv'
  BY <1>1, <1>3, LocateSame, Zenon DEF Deep
<1>5. NamesInv'
  <2>1. classes'.names = classes.names /\ classes'.requested \subseteq classes'.names
    BY <1>1, Zenon DEF Deep, NamesInv
  <2> QED
    BY <1>1, <1>3, <2>1, NamesSame, Zenon DEF Deep
<1>6. ResetInv'
  BY <1>1, <1>3, ResetSame, Zenon DEF Deep
<1>7. Heralded(Line, generation)
  BY <1>1, Zenon DEF Deep, ResultInv, Heralded
<1>8. e.generation <= generation
  <2>1. 1 \in 1 .. Len(Line) /\ Line[1] = e /\ 1 .. 1 - 1 = {}
    BY <1>1, <1>3
  <2> QED
    BY <1>7, <2>1, Zenon DEF Heralded
<1>9. Taking(store, store', e) /\ Taking(symbols, symbols', e)
  BY <1>8, Zenon
<1>10. Heralded(Line', generation)
  <2>1. generation <= generation
    BY <1>1
  <2> QED
    BY <1>1, <1>2, <1>3, <1>7, <2>1, HeraldedTail, Zenon
<1>11. /\ \A x \in InTransit : IsResult(x) => x.generation <= queue.generation
       /\ \A x \in InTransit : \A u \in Uris :
            IsResult(x) /\ x.generation = queue.generation /\ x.found[u] # Unknown =>
              x.found[u].model = model
       /\ generation = queue.generation =>
            \A u \in Uris : /\ store[u] # Unknown => store[u].model = model
                            /\ symbols[u] # Unknown => symbols[u].model = model
  BY <1>1, Zenon DEF Deep, ResultInv
<1>12. \A d, x \in InTransit : \A u, w \in Uris :
         /\ IsResult(d) /\ IsResult(x) /\ d.generation = x.generation
         /\ d.found[u] # Unknown /\ x.found[w] # Unknown
         => d.found[u].model = x.found[w].model
  BY <1>1, Zenon DEF Deep, ResultInv
<1>13. \A x \in InTransit : \A u, w \in Uris :
         IsResult(x) /\ x.generation = generation /\ x.found[u] # Unknown =>
           /\ store[w] # Unknown => store[w].model = x.found[u].model
           /\ symbols[w] # Unknown => symbols[w].model = x.found[u].model
  BY <1>1, Zenon DEF Deep, ResultInv
<1>14. ASSUME NEW x \in InTransit, NEW u \in Uris, NEW w \in Uris,
              IsResult(x), x.generation = generation, x.found[u] # Unknown
       PROVE  /\ store'[w] # Unknown => store'[w].model = x.found[u].model
              /\ symbols'[w] # Unknown => symbols'[w].model = x.found[u].model
  <2>1. (e.generation = generation /\ e.found[w] # Unknown) => e.found[w].model = x.found[u].model
    BY <1>1, <1>12, <1>14, Zenon
  <2>2. /\ store[w] # Unknown => store[w].model = x.found[u].model
        /\ symbols[w] # Unknown => symbols[w].model = x.found[u].model
    BY <1>13, <1>14, Zenon
  <2> QED
    BY <1>9, <2>1, <2>2, Zenon DEF Taking
<1>15. ASSUME NEW u \in Uris, generation = queue.generation
       PROVE  /\ store'[u] # Unknown => store'[u].model = model
              /\ symbols'[u] # Unknown => symbols'[u].model = model
  <2>1. (e.generation = generation /\ e.found[u] # Unknown) => e.found[u].model = model
    BY <1>1, <1>11, <1>15, Zenon
  <2> QED
    BY <1>9, <1>11, <1>15, <2>1, Zenon DEF Taking
<1>16. ResultInv'
  <2>1. \A i \in 1 .. Len(Line') : IsResult(Line'[i]) =>
          \/ Line'[i].generation <= generation'
          \/ \E j \in 1 .. i - 1 : /\ Line'[j].type = "reset"
                                   /\ Line'[j].generation = Line'[i].generation
    BY <1>10, Zenon DEF Heralded
  <2>2. \A x \in InTransit' : IsResult(x) => x.generation <= queue'.generation
    BY <1>1, <1>11, Zenon
  <2>3. \A d, x \in InTransit' : \A u, w \in Uris :
          /\ IsResult(d) /\ IsResult(x) /\ d.generation = x.generation
          /\ d.found[u] # Unknown /\ x.found[w] # Unknown
          => d.found[u].model = x.found[w].model
    BY <1>1, <1>12, Zenon
  <2>4. \A x \in InTransit' : \A u \in Uris :
          IsResult(x) /\ x.generation = queue'.generation /\ x.found[u] # Unknown =>
            x.found[u].model = model'
    BY <1>1, <1>11, Zenon
  <2>5. \A x \in InTransit' : \A u, w \in Uris :
          IsResult(x) /\ x.generation = generation' /\ x.found[u] # Unknown =>
            /\ store'[w] # Unknown => store'[w].model = x.found[u].model
            /\ symbols'[w] # Unknown => symbols'[w].model = x.found[u].model
    BY <1>1, <1>14, Zenon
  <2>6. generation' = queue'.generation =>
          \A u \in Uris : /\ store'[u] # Unknown => store'[u].model = model'
                          /\ symbols'[u] # Unknown => symbols'[u].model = model'
    BY <1>1, <1>15, Zenon
  <2> QED
    BY <2>1, <2>2, <2>3, <2>4, <2>5, <2>6, Zenon DEF ResultInv
<1>17. VersionInv'
  <2>1. /\ saves <= MaxSaves
        /\ \A u \in Uris : disk[u] <= saves + 1 /\ Real(store[u]) /\ Real(symbols[u])
        /\ \A x \in InTransit : IsResult(x) => \A u \in Uris : Real(x.found[u])
        /\ saves = 0 => \A u \in Uris : disk[u] = 1
        /\ saves = 0 => \A x \in InTransit : x.type = "index" /\ x.conclusive =>
             \A u \in x.attempted : x.found[u] # Unknown
    BY Zenon DEF Deep, VersionInv
  <2>2. \A u \in Uris : Real(store'[u]) /\ Real(symbols'[u])
    <3>1. \A u \in Uris : Real(e.found[u])
      BY <1>1, <2>1, Zenon
    <3>2. ASSUME NEW u \in Uris PROVE Real(store'[u]) /\ Real(symbols'[u])
      <4>1. /\ store'[u] = store[u] \/ store'[u] = e.found[u]
            /\ symbols'[u] = symbols[u] \/ symbols'[u] = e.found[u]
        BY <1>9, Zenon DEF Taking
      <4>2. Real(store[u]) /\ Real(symbols[u]) /\ Real(e.found[u])
        BY <2>1, <3>1, Zenon
      <4> QED
        BY <4>1, <4>2, Zenon
    <3> QED
      BY <3>2, Zenon
  <2>3. \A x \in InTransit' : IsResult(x) => \A u \in Uris : Real(x.found[u])
    BY <1>1, <2>1, Zenon
  <2>4. saves' = 0 => \A x \in InTransit' : x.type = "index" /\ x.conclusive =>
          \A u \in x.attempted : x.found[u] # Unknown
    BY <1>1, <2>1, Zenon
  <2>5. \A u \in Uris : disk'[u] <= saves' + 1
    BY <1>1, <2>1, Zenon
  <2>6. saves' <= MaxSaves /\ (saves' = 0 => \A u \in Uris : disk'[u] = 1)
    BY <1>1, <2>1, Zenon
  <2> QED
    BY <2>2, <2>3, <2>4, <2>5, <2>6, Zenon DEF VersionInv
<1>18. OneStored'
  <2>1. ASSUME NEW u \in Uris, NEW w \in Uris
        PROVE  /\ (store'[u] # Unknown /\ symbols'[w] # Unknown)
                    => store'[u].model = symbols'[w].model
               /\ (store'[u] # Unknown /\ store'[w] # Unknown) => store'[u].model = store'[w].model
               /\ (symbols'[u] # Unknown /\ symbols'[w] # Unknown)
                    => symbols'[u].model = symbols'[w].model
    <3>1. CASE store'[u] = store[u] /\ store'[w] = store[w]
               /\ symbols'[u] = symbols[u] /\ symbols'[w] = symbols[w]
      <4>1. /\ (store[u] # Unknown /\ symbols[w] # Unknown) => store[u].model = symbols[w].model
            /\ (store[u] # Unknown /\ store[w] # Unknown) => store[u].model = store[w].model
            /\ (symbols[u] # Unknown /\ symbols[w] # Unknown)
                 => symbols[u].model = symbols[w].model
        BY Zenon DEF Deep, OneStored
      <4> QED
        BY <3>1, <4>1, Zenon
    <3>2. CASE e.generation = generation
      <4>1. CASE e.found[u] # Unknown
        <5>1. /\ store'[u] # Unknown => store'[u].model = e.found[u].model
              /\ symbols'[u] # Unknown => symbols'[u].model = e.found[u].model
              /\ store'[w] # Unknown => store'[w].model = e.found[u].model
              /\ symbols'[w] # Unknown => symbols'[w].model = e.found[u].model
          BY <1>1, <1>14, <3>2, <4>1, Zenon
        <5> QED
          BY <5>1, Zenon
      <4>2. CASE e.found[w] # Unknown
        <5>1. /\ store'[u] # Unknown => store'[u].model = e.found[w].model
              /\ symbols'[u] # Unknown => symbols'[u].model = e.found[w].model
              /\ store'[w] # Unknown => store'[w].model = e.found[w].model
              /\ symbols'[w] # Unknown => symbols'[w].model = e.found[w].model
          BY <1>1, <1>14, <3>2, <4>2, Zenon
        <5> QED
          BY <5>1, Zenon
      <4>3. CASE e.found[u] = Unknown /\ e.found[w] = Unknown
        <5>1. /\ store'[u] = store[u] \/ store'[u] = Unknown
              /\ store'[w] = store[w] \/ store'[w] = Unknown
              /\ symbols'[u] = symbols[u] \/ symbols'[u] = Unknown
              /\ symbols'[w] = symbols[w] \/ symbols'[w] = Unknown
          BY <1>9, <4>3, Zenon DEF Taking
        <5>2. /\ (store[u] # Unknown /\ symbols[w] # Unknown) => store[u].model = symbols[w].model
              /\ (store[u] # Unknown /\ store[w] # Unknown) => store[u].model = store[w].model
              /\ (symbols[u] # Unknown /\ symbols[w] # Unknown)
                   => symbols[u].model = symbols[w].model
          BY Zenon DEF Deep, OneStored
        <5> QED
          BY <5>1, <5>2, Zenon
      <4> QED
        BY <4>1, <4>2, <4>3, Zenon
    <3> QED
      BY <1>9, <3>1, <3>2, Zenon DEF Taking
  <2> QED
    BY <2>1, Zenon DEF OneStored
<1> QED
  BY <1>4, <1>5, <1>6, <1>16, <1>17, <1>18, Zenon DEF Deep

\* The reset of a new generation.
LEMMA ResetDeep ==
  ASSUME Base, Base', Deep, NEW e, Handled(e), AnalyzeInv', e.type = "reset",
         generation' = e.generation, classes' = ResetClasses,
         store' = [u \in Uris |-> Unknown], symbols' = [u \in Uris |-> Unknown]
  PROVE  Deep'
<1>1. /\ LineShape /\ LineShape' /\ Open /\ Open' /\ (Beginning' <=> Beginning)
      /\ queue'.generation = queue.generation /\ queue'.locations = queue.locations
      /\ pc' = pc /\ job' = job /\ sweptFor' = sweptFor /\ generation \in Nat
      /\ e \in EventSet /\ e \in InTransit /\ InTransit' \subseteq InTransit
      /\ e = Head(Line) /\ Line # <<>> /\ Line' = Tail(Line) /\ queue.generation \in Nat
      /\ model' = model /\ disk' = disk /\ saves' = saves
  BY Zenon DEF Handled
<1> DEFINE g == generation
           h == e.generation
<1>2. /\ \A u \in Uris : store'[u] = Unknown /\ symbols'[u] = Unknown
      /\ classes'.names = {} /\ classes'.requested = {}
  BY DEF ResetClasses
<1>3. h \in Nat
  <2>1. e.type \in {"reset", "names", "index", "symbols", "located"}
    OBVIOUS
  <2> QED
    BY <1>1, <2>1, EventTypes, Zenon
<1>4. /\ g <= queue.generation
      /\ \A x \in InTransit : x.type = "reset" => g < x.generation /\ x.generation <= queue.generation
      /\ Ordered(Line)
      /\ \/ Beginning \/ g = queue.generation
         \/ \E x \in InTransit : x.type = "reset" /\ x.generation = queue.generation
  BY <1>1, Zenon DEF Deep, ResetInv, Ordered
<1>5. g < h /\ h <= queue.generation /\ g <= h /\ g # queue.generation
  <2>1. g < h /\ h <= queue.generation
    BY <1>1, <1>4, Zenon
  <2> QED
    BY <2>1, <1>1, <1>3
<1>6. \A n \in Nat : n <= g => n <= h /\ n # h
  BY <1>1, <1>3, <1>5
<1>7. Line \in Seq(EventSet) /\ InTransit \subseteq EventSet
      /\ \A x : x \in InTransit' <=> x \in ToSet(Line')
  BY HandledLine, Zenon
<1>8. /\ Ordered(Line') /\ \A x \in InTransit' : x.type = "reset" => h < x.generation
  BY <1>1, <1>4, <1>7, OrderedTail, Zenon
<1>9. Heralded(Line', h)
  <2>1. Heralded(Line, g)
    BY <1>1, Zenon DEF Deep, ResultInv, Heralded
  <2> QED
    BY <1>1, <1>3, <1>5, <1>7, <2>1, HeraldedTail, Zenon
<1>10. ~ Beginning
  <2>1. Beginning => e.type = "status"
    BY <1>1, Zenon DEF Base, BeginInv, NothingYet
  <2>2. e.type # "status"
    OBVIOUS
  <2> QED
    BY <2>1, <2>2, Zenon
<1>11. ResetInv'
  <2>1. \A i, j \in 1 .. Len(Line') :
          Line'[i].type = "reset" /\ Line'[j].type = "reset" /\ i < j =>
            Line'[i].generation < Line'[j].generation
    BY <1>8, Zenon DEF Ordered
  <2>2. \A x \in InTransit' : x.type = "reset" =>
          generation' < x.generation /\ x.generation <= queue'.generation
    BY <1>1, <1>4, <1>8, Zenon
  <2>3. \/ generation' = queue'.generation
        \/ \E x \in InTransit' : x.type = "reset" /\ x.generation = queue'.generation
    <3>1. PICK x \in InTransit : x.type = "reset" /\ x.generation = queue.generation
      BY <1>4, <1>5, <1>10, Zenon
    <3>2. x = e \/ x \in InTransit'
      <4>1. x \in ToSet(Line)
        BY <1>1, LineNow, Zenon
      <4>2. x = Head(Line) \/ x \in ToSet(Tail(Line))
        BY <1>1, <1>7, <4>1, ElementsTail, Zenon
      <4> QED
        BY <1>1, <1>7, <4>2, Zenon
    <3> QED
      BY <1>1, <3>1, <3>2, Zenon
  <2> QED
    BY <1>1, <1>5, <2>1, <2>2, <2>3, Zenon DEF ResetInv
<1>12. LocateInv'
  <2>1. /\ \A x \in ToSet(queue.locations) : x.generation <= g
        /\ (pc = "run" /\ job.kind = "locate") => job.generation <= g
        /\ \A x \in InTransit : x.type = "located" => x.generation <= g
    BY <1>1, Zenon DEF Deep, LocateInv
  <2>2. queue.locations \in Seq(Locates)
    BY QueueFields, Zenon DEF Base, Shape
  <2>3. \A x \in ToSet(queue.locations) : x.generation <= h /\ x.generation # h
    <3>1. \A x \in ToSet(queue.locations) : x \in Locates
      BY <2>2, Elements
    <3>2. \A x \in Locates : x.generation \in Nat
      BY DEF Locates
    <3> QED
      BY <1>6, <2>1, <3>1, <3>2, Zenon
  <2>4. (pc = "run" /\ job.kind = "locate") => job.generation <= h /\ job.generation # h
    <3>1. job.kind = "locate" => job.generation \in Nat
      BY JobFields, Zenon DEF Base, Shape
    <3> QED
      BY <1>6, <2>1, <3>1, Zenon
  <2>5. \A x \in InTransit : x.type = "located" => x.generation <= h /\ x.generation # h
    <3>1. \A x \in EventSet : x.type = "located" => x.generation \in Nat
      BY EventTypes
    <3> QED
      BY <1>6, <1>7, <2>1, <3>1, Zenon
  <2>6. ASSUME NEW c \in Classes
        PROVE  Exactly(queue.locations, LocatesOf(h, c), LocateRuns(h, c)', Line', LocatedOf(h, c),
                       c \in classes'.requested)
    <3>1. Free(queue.locations, LocatesOf(h, c))
      <4>1. \A i \in 1 .. Len(queue.locations) : queue.locations[i] \in ToSet(queue.locations)
        BY <2>2, Elements, Zenon
      <4> QED
        BY <2>3, <4>1, Zenon DEF Free, LocatesOf
    <3>2. Free(Line', LocatedOf(h, c))
      <4>1. \A i \in 1 .. Len(Line') : Line'[i] \in ToSet(Line')
        <5> DEFINE t == Line'
        <5>1. t \in Seq(EventSet)
          BY <1>1, LineNext, Zenon
        <5> HIDE DEF t
        <5>2. \A i \in 1 .. Len(t) : t[i] \in ToSet(t)
          BY <5>1, Elements, Zenon
        <5> QED
          BY <5>2, Zenon DEF t
      <4> QED
        BY <1>1, <1>7, <2>5, <4>1, Zenon DEF Free, LocatedOf
    <3>3. ~ LocateRuns(h, c)'
      BY <1>1, <2>4, Zenon DEF LocateRuns
    <3>4. Single(queue.locations, LocatesOf(h, c)) /\ Single(Line', LocatedOf(h, c))
      BY <3>1, <3>2, FreeSingle, Zenon
    <3> QED
      BY <1>2, <3>1, <3>2, <3>3, <3>4, Zenon DEF Exactly
  <2>7. \A c \in Classes :
          Exactly(queue.locations, LocatesOf(generation, c), LocateRuns(generation, c),
                  Line, LocatedOf(generation, c), c \in classes.requested)'
    BY <1>1, <2>6, Zenon DEF LocateRuns, LocatesOf, LocatedOf
  <2>8. \A x \in ToSet(queue'.locations) : x.generation <= generation'
    BY <1>1, <2>3, Zenon
  <2>9. (pc' = "run" /\ job'.kind = "locate") => job'.generation <= generation'
    BY <1>1, <2>4, Zenon
  <2>10. \A x \in InTransit' : x.type = "located" => x.generation <= generation'
    BY <1>1, <2>5, Zenon
  <2> QED
    BY <2>7, <2>8, <2>9, <2>10, Zenon DEF LocateInv
<1>13. NamesInv'
  <2>1. /\ \A k \in Nat : Single(Line, NamesOf(k))
        /\ \A x \in InTransit : x.type = "names" =>
             /\ x.generation <= queue.generation
             /\ x.generation = queue.generation => sweptFor = queue.generation
    BY <1>1, Zenon DEF Deep, NamesInv
  <2>2. \A k \in Nat : Single(Line', NamesOf(k))
    BY <2>1, HandledLine, Zenon
  <2>3. \A x \in InTransit' : x.type = "names" =>
          /\ x.generation <= queue'.generation
          /\ x.generation = generation' => classes'.names = {}
          /\ x.generation = queue'.generation => sweptFor' = queue'.generation
    BY <1>1, <1>2, <2>1, Zenon
  <2> QED
    BY <1>2, <2>2, <2>3, Zenon DEF NamesInv
<1>14. ResultInv'
  <2>1. \A i \in 1 .. Len(Line') : IsResult(Line'[i]) =>
          \/ Line'[i].generation <= generation'
          \/ \E j \in 1 .. i - 1 : /\ Line'[j].type = "reset"
                                   /\ Line'[j].generation = Line'[i].generation
    BY <1>9, Zenon DEF Heralded
  <2>2. /\ \A x \in InTransit : IsResult(x) => x.generation <= queue.generation
        /\ \A x \in InTransit : \A u \in Uris :
             IsResult(x) /\ x.generation = queue.generation /\ x.found[u] # Unknown =>
               x.found[u].model = model
    BY <1>1, Zenon DEF Deep, ResultInv
  <2>3. \A d, x \in InTransit : \A u, w \in Uris :
          /\ IsResult(d) /\ IsResult(x) /\ d.generation = x.generation
          /\ d.found[u] # Unknown /\ x.found[w] # Unknown
          => d.found[u].model = x.found[w].model
    BY <1>1, Zenon DEF Deep, ResultInv
  <2>4. \A d, x \in InTransit' : \A u, w \in Uris :
          /\ IsResult(d) /\ IsResult(x) /\ d.generation = x.generation
          /\ d.found[u] # Unknown /\ x.found[w] # Unknown
          => d.found[u].model = x.found[w].model
    BY <1>1, <2>3, Zenon
  <2>5. \A x \in InTransit' : IsResult(x) => x.generation <= queue'.generation
    BY <1>1, <2>2, Zenon
  <2>6. \A x \in InTransit' : \A u \in Uris :
          IsResult(x) /\ x.generation = queue'.generation /\ x.found[u] # Unknown =>
            x.found[u].model = model'
    BY <1>1, <2>2, Zenon
  <2> QED
    BY <1>2, <2>1, <2>4, <2>5, <2>6, Zenon DEF ResultInv
<1>15. VersionInv'
  <2>1. /\ saves <= MaxSaves
        /\ \A u \in Uris : disk[u] <= saves + 1
        /\ \A x \in InTransit : IsResult(x) => \A u \in Uris : Real(x.found[u])
        /\ saves = 0 => \A u \in Uris : disk[u] = 1
        /\ saves = 0 => \A x \in InTransit : x.type = "index" /\ x.conclusive =>
             \A u \in x.attempted : x.found[u] # Unknown
    BY Zenon DEF Deep, VersionInv
  <2>2. \A u \in Uris : Real(store'[u]) /\ Real(symbols'[u])
    BY <1>2, Zenon DEF Real
  <2>3. \A x \in InTransit' : IsResult(x) => \A u \in Uris : Real(x.found[u])
    BY <1>1, <2>1, Zenon
  <2>4. saves' = 0 => \A x \in InTransit' : x.type = "index" /\ x.conclusive =>
          \A u \in x.attempted : x.found[u] # Unknown
    BY <1>1, <2>1, Zenon
  <2>5. \A u \in Uris : disk'[u] <= saves' + 1
    BY <1>1, <2>1, Zenon
  <2>6. saves' <= MaxSaves /\ (saves' = 0 => \A u \in Uris : disk'[u] = 1)
    BY <1>1, <2>1, Zenon
  <2> QED
    BY <2>2, <2>3, <2>4, <2>5, <2>6, Zenon DEF VersionInv
<1>16. OneStored'
  BY <1>2, Zenon DEF OneStored
<1> QED
  BY <1>11, <1>12, <1>13, <1>14, <1>15, <1>16, Zenon DEF Deep

\* The session handles an event.
LEMMA HandleDeep ==
  ASSUME Base, Base', Deep, HandleEvent
  PROVE  Deep'
<1> DEFINE e == Head(events)
<1>1. Handled(e) /\ AnalyzeInv'
  BY HandledNow, HandledAnalyze, Zenon
<1>2. e \in EventSet /\ Handle(e) /\ ResultShape /\ generation \in Nat
  BY HandledEvent, Zenon DEF HandleEvent, Base, Shape, ResultShape
<1>3. e.type \notin {"index", "symbols", "reset", "names", "located"} => UNCHANGED resultVars
  BY HandledEvent, Zenon DEF Base
<1> HIDE DEF e
<1>4. CASE e.type \notin {"index", "symbols", "reset", "names", "located"}
  BY <1>1, <1>3, <1>4, PlainDeep, Zenon
<1>5. CASE e.type \in {"index", "symbols", "reset", "names", "located"}
  <2>1. /\ generation' = (IF e.type = "reset" THEN e.generation ELSE generation)
        /\ e.type = "reset" => /\ store' = [u \in Uris |-> Unknown]
                               /\ symbols' = [u \in Uris |-> Unknown]
                               /\ classes' = ResetClasses
        /\ store' = (IF e.type = "reset" THEN [u \in Uris |-> Unknown]
                     ELSE IF e.type = "index" THEN Merge(store, e) ELSE store)
        /\ symbols' = (IF e.type = "reset" THEN [u \in Uris |-> Unknown]
                       ELSE IF e.type = "symbols" THEN Merge(symbols, e) ELSE symbols)
        /\ e.type = "names" =>
             classes' = IF e.generation = generation THEN [ResetClasses EXCEPT !.names = Classes]
                                                     ELSE classes
        /\ e.type = "located" =>
             IF e.generation = generation
             THEN /\ classes'.requested = classes.requested \ e.attempted
                  /\ classes'.names = classes.names
             ELSE classes' = classes
        /\ e.type \in {"index", "symbols"} => classes' = classes
    BY <1>2, <1>5, HandledResults, Zenon
  <2>2. CASE e.type = "reset"
    BY <1>1, <2>1, <2>2, ResetDeep, Zenon
  <2>3. CASE e.type = "names"
    <3>1. e.type # "reset" /\ e.type # "index" /\ e.type # "symbols"
      BY <2>3
    <3> QED
      BY <1>1, <2>1, <2>3, <3>1, NamesDeep, Zenon
  <2>4. CASE e.type = "located"
    <3>1. e.type # "reset" /\ e.type # "index" /\ e.type # "symbols"
      BY <2>4
    <3> QED
      BY <1>1, <2>1, <2>4, <3>1, LocatedDeep, Zenon
  <2>5. CASE e.type \in {"index", "symbols"}
    <3>1. e.type # "reset" /\ (e.type = "index" => e.type # "symbols")
      BY <2>5
    <3>2. IsResult(e) /\ generation' = generation /\ classes' = classes
      BY <2>1, <2>5, <3>1, Zenon DEF IsResult
    <3>3. e.generation \in Nat
      BY <1>2, <3>2, EventTypes, Zenon
    <3>4. ASSUME e.generation <= generation
          PROVE  Taking(store, store', e) /\ Taking(symbols, symbols', e)
      <4>1. /\ Taking(store, Merge(store, e), e) /\ Taking(store, store, e)
            /\ Taking(symbols, Merge(symbols, e), e) /\ Taking(symbols, symbols, e)
        BY <1>2, <3>3, <3>4, MergeTakes, Zenon
      <4>2. /\ store' = Merge(store, e) \/ store' = store
            /\ symbols' = Merge(symbols, e) \/ symbols' = symbols
        BY <2>1, <3>1, Zenon
      <4> QED
        BY <4>1, <4>2, Zenon
    <3> QED
      BY <1>1, <3>2, <3>4, TakenDeep, Zenon
  <2> QED
    BY <1>5, <2>2, <2>3, <2>4, <2>5
<1> QED
  BY <1>4, <1>5, Zenon

\* The first state: nothing has been read, sent or kept.
LEMMA InitDeep == Init => Deep
<1> SUFFICES ASSUME Init PROVE Deep
  OBVIOUS
<1>1. /\ disk = [u \in Uris |-> 1] /\ saves = 0 /\ outbox = <<>> /\ events = <<>>
      /\ store = [u \in Uris |-> Unknown] /\ symbols = [u \in Uris |-> Unknown]
      /\ session = [state |-> "new", watching |-> FALSE, token |-> FALSE]
  BY Zenon DEF Init
<1>2. \A u \in Uris : store[u] = Unknown /\ symbols[u] = Unknown
  BY <1>1, Zenon
<1>3. InTransit = {}
  BY <1>1, EventLists, Zenon DEF InTransit
<1>4. saves <= MaxSaves /\ \A u \in Uris : disk[u] = 1 /\ disk[u] <= saves + 1
  <2>1. MaxSaves \in Nat
    BY EngineAssumption
  <2> QED
    BY <1>1, <2>1
<1>5. VersionInv
  BY <1>2, <1>3, <1>4, Zenon DEF VersionInv, Real
<1>6. OneStored
  BY <1>2, Zenon DEF OneStored
<1>7. ~ Open
  BY <1>1 DEF Open
<1> QED
  BY <1>5, <1>6, <1>7, Zenon DEF Deep

\* Nothing happens.
LEMMA StutterDeep ==
  ASSUME Base, Base', Deep, UNCHANGED vars
  PROVE  Deep'
<1>1. UNCHANGED <<queue, worldVars, engineVars, events, sessionVars>>
  BY Zenon DEF vars
<1>2. /\ UNCHANGED <<queue, pc, job, outbox, events, session, analysis, sweptFor>>
      /\ UNCHANGED <<resultVars, model, disk, saves>>
  BY <1>1, Zenon DEF worldVars, engineVars, sessionVars
<1>3. Calm(Line, Line', Loud)
  <2>1. LineShape
    BY Zenon DEF Base, Shape
  <2>2. UNCHANGED <<events, outbox>>
    BY <1>2, Zenon
  <2> QED
    BY <2>1, <2>2, LineNow, LineStep, CalmStill, Zenon
<1>4. /\ Alike(queue.pending, queue'.pending, Analyses) /\ NoLocate
      /\ (AnalyzeRuns' <=> AnalyzeRuns) /\ (Open' <=> Open) /\ (Beginning => Beginning')
      /\ analysis'.inFlight <=> analysis.inFlight
  BY <1>2, AlikeSelf, Zenon DEF NoLocate, AnalyzeRuns, Open, Beginning, RootWaits, RootRuns
<1> QED
  BY <1>2, <1>3, <1>4, DeepSame, Zenon

\* Every step keeps the invariants.
LEMMA NextDeep == Base /\ Deep /\ [Next]_vars => Deep'
<1> SUFFICES ASSUME Base, Deep, [Next]_vars PROVE Deep'
  OBVIOUS
<1>0. Base'
  BY NextBase, Zenon
<1>1. CASE World
  BY <1>0, <1>1, WorldDeep, Zenon
<1>2. CASE Client
  <2>1. CASE Initialize
    BY <1>0, <2>1, InitializeDeep, Zenon
  <2>2. CASE Edit \/ Reports \/ Request
    BY <1>0, <2>2, MessageDeep, Zenon DEF Message
  <2>3. CASE Exit
    BY <1>0, <2>3, QuietDeep, Zenon
  <2>4. ASSUME NEW S \in SUBSET Classes, Query(S) PROVE Deep'
    BY <1>0, <2>4, QueryDeep, Zenon
  <2> QED
    BY <1>2, <2>1, <2>2, <2>3, <2>4, Zenon DEF Client
<1>3. CASE RetryDue
  BY <1>0, <1>3, MessageDeep, Zenon DEF Message
<1>4. CASE Events
  BY <1>0, <1>4, HandleDeep, QuietDeep, Zenon DEF Events
<1>5. CASE Engine
  <2>1. CASE Recv
    BY <1>0, <2>1, RecvDeep, Zenon
  <2>2. CASE Timeout \/ Stop \/ Send
    BY <1>0, <2>2, QuietDeep, Zenon
  <2>3. CASE Run
    <3>1. CASE RefreshUnchanged \/ SkipSweep \/ RunRequest \/ RunChange
      BY <1>0, <3>1, CalmRunBase, ChangeBase, HushedDeep, Zenon
    <3>2. CASE RefreshModel
      BY <1>0, <3>2, ModelBase, HushedDeep, RemodeledDeep, Zenon
    <3>3. CASE RunRoot
      BY <1>0, <3>3, RootDeep, Zenon
    <3>4. CASE RunAnalyze
      BY <1>0, <3>4, AnalyzeDeep, Zenon
    <3>5. CASE RaiseSweep
      BY <1>0, <3>5, SweepDeep, Zenon
    <3>6. CASE RunIndex \/ RunSymbols
      BY <1>0, <3>6, ResultDeep, Zenon
    <3>7. CASE RunLocate
      BY <1>0, <3>7, LocateDeep, Zenon
    <3> QED
      BY <2>3, <3>1, <3>2, <3>3, <3>4, <3>5, <3>6, <3>7, Zenon DEF Run
  <2> QED
    BY <1>5, <2>1, <2>2, <2>3, Zenon DEF Engine
<1>6. CASE Elapse
  BY <1>0, <1>6, QuietDeep, Zenon
<1>7. CASE Stopped \/ UNCHANGED vars
  BY <1>0, <1>7, StutterDeep, Zenon DEF Stopped
<1> QED
  BY <1>1, <1>2, <1>3, <1>4, <1>5, <1>6, <1>7, Zenon DEF Next

\* What a finding is made of.
LEMMA FindingOf ==
  ASSUME NEW r \in Findings
  PROVE  r = [version |-> r.version, model |-> r.model]
BY DEF Findings

(* What the session keeps was all found under one model, the engine's,     *)
(* unless the reset of a newer one is on its way; and a chunk that runs is *)
(* of the model it runs with.                                              *)
THEOREM OneModelKept == Spec => []OneModel
<1>1. Base /\ Deep => OneModel
  <2> SUFFICES ASSUME Base, Deep PROVE OneModel
    OBVIOUS
  <2>1. (pc = "run" /\ job.kind \in {"index", "symbols"}) => job.generation = queue.generation
    BY Zenon DEF Base, SweepInv
  <2>2. \A u, w \in Uris : LET a == store[u]  b == symbols[w]
                           IN  (a # Unknown /\ b # Unknown) => a.model = b.model
    BY Zenon DEF Deep, OneStored
  <2>3. ASSUME Open, generation > 0, \A e \in InTransit : e.type # "reset", NEW u \in Uris,
               NEW r \in {store[u], symbols[u]}, r # Unknown
        PROVE  r \in {[version |-> v, model |-> model] : v \in 1 .. MaxSaves + 1}
    <3>1. ~ Beginning
      <4>1. Beginning => generation = 0
        BY Zenon DEF Base, BeginInv, NothingYet
      <4> QED
        BY <2>3, <4>1
    <3>2. generation = queue.generation
      BY <2>3, <3>1, Zenon DEF Deep, ResetInv
    <3>3. r.model = model
      BY <2>3, <3>2, Zenon DEF Deep, ResultInv
    <3>4. r.version \in 1 .. MaxSaves + 1
      BY <2>3, Zenon DEF Deep, VersionInv, Real
    <3>5. r \in Findings
      <4>1. store[u] \in Findings /\ symbols[u] \in Findings
        BY DEF Base, Shape, ResultShape
      <4> QED
        BY <2>3, <4>1, Zenon
    <3>6. r = [version |-> r.version, model |-> model]
      BY <3>3, <3>5, FindingOf, Zenon
    <3> QED
      BY <3>4, <3>6, Zenon
  <2>4. (Open /\ generation > 0 /\ \A e \in InTransit : e.type # "reset")
          => \A u \in Uris : {store[u], symbols[u]} \subseteq
               {Unknown} \union {[version |-> v, model |-> model] : v \in 1 .. MaxSaves + 1}
    BY <2>3, Zenon
  <2> QED
    BY <2>1, <2>2, <2>4, Zenon DEF OneModel
<1> QED
  BY <1>1, InitBase, InitDeep, NextBase, NextDeep, PTL DEF Spec

\* How many elements of a list count, and in how many places.
LEMMA SingleCount ==
  ASSUME NEW T, NEW s \in Seq(T), NEW S, Single(s, S)
  PROVE  /\ Cardinality({i \in DOMAIN s : s[i] \in S}) = IF Free(s, S) THEN 0 ELSE 1
         /\ Cardinality({x \in ToSet(s) : x \in S}) = IF Free(s, S) THEN 0 ELSE 1
<1>1. /\ DOMAIN s = 1 .. Len(s) /\ \A u : u \in ToSet(s) <=> \E j \in 1 .. Len(s) : s[j] = u
  BY Elements
<1>2. Cardinality({}) = 0
  BY FS_EmptySet
<1>3. \A x : Cardinality({x}) = 1
  BY FS_Singleton, Zenon
<1>4. CASE Free(s, S)
  <2>1. {i \in DOMAIN s : s[i] \in S} = {} /\ {x \in ToSet(s) : x \in S} = {}
    BY <1>1, <1>4, Zenon DEF Free
  <2> QED
    BY <1>2, <1>4, <2>1, Zenon
<1>5. CASE ~ Free(s, S)
  <2>1. PICK k \in 1 .. Len(s) : s[k] \in S
    BY <1>5, Zenon DEF Free
  <2>2. {i \in DOMAIN s : s[i] \in S} = {k}
    BY <1>1, <2>1, Zenon DEF Single
  <2>3. {x \in ToSet(s) : x \in S} = {s[k]}
    BY <1>1, <2>1, Zenon DEF Single
  <2> QED
    BY <1>3, <1>5, <2>2, <2>3, Zenon
<1> QED
  BY <1>4, <1>5, Zenon

One(b) == IF b THEN 1 ELSE 0
Count(s, S, r, t, E) ==
  Cardinality({i \in DOMAIN s : s[i] \in S}) + (IF r THEN 1 ELSE 0)
    + Cardinality({x \in ToSet(t) : x \in E})

\* There is one of what counts, or none.
LEMMA ExactlyCount ==
  ASSUME NEW T, NEW s \in Seq(T), NEW S, NEW U, NEW t \in Seq(U), NEW E,
         NEW r \in BOOLEAN, NEW m \in BOOLEAN, Exactly(s, S, r, t, E, m)
  PROVE  Count(s, S, r, t, E) = One(m)
<1> DEFINE a == Cardinality({i \in DOMAIN s : s[i] \in S})
           b == Cardinality({x \in ToSet(t) : x \in E})
<1>1. Single(s, S) /\ Single(t, E)
  BY Zenon DEF Exactly
<1>2. a = IF Free(s, S) THEN 0 ELSE 1
  BY <1>1, SingleCount, Zenon
<1>3. b = IF Free(t, E) THEN 0 ELSE 1
  BY <1>1, SingleCount, Zenon
<1> HIDE DEF a, b
<1>4. /\ Free(s, S) \/ (~ r /\ Free(t, E))
      /\ r => Free(t, E)
      /\ m <=> (~ Free(s, S) \/ r \/ ~ Free(t, E))
  BY Zenon DEF Exactly
<1>5. CASE m
  <2>1. \/ a = 1 /\ ~ r /\ b = 0
        \/ a = 0 /\ r /\ b = 0
        \/ a = 0 /\ ~ r /\ b = 1
    BY <1>2, <1>3, <1>4, <1>5, Zenon
  <2>2. a + (IF r THEN 1 ELSE 0) + b = 1
    BY <2>1
  <2> QED
    BY <1>5, <2>2, Zenon DEF a, b, Count, One
<1>6. CASE ~ m
  <2>1. a = 0 /\ ~ r /\ b = 0
    BY <1>2, <1>3, <1>4, <1>6, Zenon
  <2>2. a + (IF r THEN 1 ELSE 0) + b = 0
    BY <2>1
  <2> QED
    BY <1>6, <2>2, Zenon DEF a, b, Count, One
<1> QED
  BY <1>5, <1>6, Zenon

(* The session's markers stand for exactly what is under way: one analysis *)
(* of the document, and one location of each class marked.                 *)
THEOREM MarkersAlwaysExact == Spec => []MarkersExact
<1>1. Base /\ Deep => MarkersExact
  <2> SUFFICES ASSUME Base, Deep PROVE MarkersExact
    OBVIOUS
  <2>1. /\ queue.pending \in Seq(Commands) /\ queue.locations \in Seq(Locates)
        /\ Line \in Seq(EventSet) /\ \A x : x \in InTransit <=> x \in ToSet(Line)
        /\ InTransit \subseteq EventSet /\ generation \in Nat /\ job \in Jobs
        /\ analysis.inFlight \in BOOLEAN
    <3>1. queue \in Queues /\ LineShape /\ generation \in Nat /\ job \in Jobs
      BY Zenon DEF Base, Shape, ResultShape, EngineShape
    <3>2. analysis.inFlight \in BOOLEAN
      <4>1. analysis \in Markers
        BY Zenon DEF Base, Shape, SessionShape
      <4> QED
        BY <4>1, Zenon DEF Markers
    <3> QED
      BY <3>1, <3>2, QueueFields, LineNow, Zenon
  <2>2. ASSUME Open, \A e \in InTransit : e.type # "reset", NEW c \in Classes
        PROVE  Locating(c) = IF c \in classes.requested THEN 1 ELSE 0
    <3> DEFINE L == LocatesOf(generation, c)
               E == LocatedOf(generation, c)
               r == LocateRuns(generation, c)
               m == c \in classes.requested
    <3>1. Exactly(queue.locations, L, r, Line, E, m)
      BY <2>2, Zenon DEF Deep, LocateInv, ResetComes
    <3>2. r \in BOOLEAN /\ m \in BOOLEAN
      BY DEF LocateRuns
    <3>3. {i \in DOMAIN queue.locations :
             queue.locations[i].generation = generation /\ c \in queue.locations[i].candidates}
          = {i \in DOMAIN queue.locations : queue.locations[i] \in L}
      <4>1. \A i \in DOMAIN queue.locations : queue.locations[i] \in Locates
        BY <2>1
      <4> QED
        BY <4>1, Zenon DEF LocatesOf
    <3>4. {e \in InTransit : e.type = "located" /\ e.generation = generation /\ c \in e.attempted}
          = {x \in ToSet(Line) : x \in E}
      BY <2>1, Zenon DEF LocatedOf
    <3>5. r <=> /\ pc = "run" /\ job.kind = "locate" /\ job.generation = generation
                /\ c \in job.candidates
      BY Zenon DEF LocateRuns
    <3> HIDE DEF L, E, r, m
    <3>6. Count(queue.locations, L, r, Line, E) = One(m)
      <4>1. queue.locations \in Seq(Locates) /\ Line \in Seq(EventSet)
        BY <2>1, Zenon
      <4> QED
        BY <4>1, <3>1, <3>2, ExactlyCount, Zenon
    <3> QED
      BY <3>3, <3>4, <3>5, <3>6, Zenon DEF Locating, m, Count, One
  <2>3. ASSUME Open
        PROVE  Analyzing = IF analysis.inFlight THEN 1 ELSE 0
    <3> DEFINE r == AnalyzeRuns
               m == analysis.inFlight
    <3>1. Exactly(queue.pending, Analyses, r, Line, Completes, m)
      BY <2>3, Zenon DEF Deep, AnalyzeInv
    <3>2. r \in BOOLEAN /\ m \in BOOLEAN
      BY <2>1, Zenon DEF AnalyzeRuns
    <3>3. {i \in DOMAIN queue.pending : IsAnalyze(queue.pending[i])}
          = {i \in DOMAIN queue.pending : queue.pending[i] \in Analyses}
      <4>1. \A i \in DOMAIN queue.pending : queue.pending[i] \in Commands
        BY <2>1
      <4> QED
        BY <4>1, Zenon DEF Analyses, IsAnalyze
    <3>4. {e \in InTransit : e.type = "complete"} = {x \in ToSet(Line) : x \in Completes}
      BY <2>1, Zenon DEF Completes
    <3>5. r <=> pc = "run" /\ IsAnalyze(job)
      BY Zenon DEF AnalyzeRuns, IsAnalyze
    <3> HIDE DEF r, m
    <3>6. Count(queue.pending, Analyses, r, Line, Completes) = One(m)
      <4>1. queue.pending \in Seq(Commands) /\ Line \in Seq(EventSet)
        BY <2>1, Zenon
      <4> QED
        BY <4>1, <3>1, <3>2, ExactlyCount, Zenon
    <3> QED
      BY <3>3, <3>4, <3>5, <3>6, Zenon DEF Analyzing, m, Count, One
  <2> QED
    BY <2>2, <2>3, Zenon DEF MarkersExact
<1> QED
  BY <1>1, InitBase, InitDeep, NextBase, NextDeep, PTL DEF Spec

\* Only the session changes what it keeps, and only for an event.
LEMMA StoreKept ==
  ASSUME [Next]_vars, ~ HandleEvent
  PROVE  store' = store
<1>1. CASE World
  BY <1>1, Zenon DEF World, EditBuildFile, Save, sessionVars, resultVars
<1>2. CASE Client \/ RetryDue
  BY <1>2, Zenon DEF Client, RetryDue, Initialize, Edit, Reports, WatchedFilesChanged, Request,
                     Exit, Query, resultVars
<1>3. CASE Events
  BY <1>3, Zenon DEF Events, DrainEvent, sessionVars, resultVars
<1>4. CASE Recv \/ Timeout \/ Stop \/ Send \/ Elapse
  BY <1>4, Zenon DEF Recv, Timeout, Stop, Send, Elapse, sessionVars, resultVars
<1>5. CASE Run
  BY <1>5, Zenon DEF Run, RunRoot, RefreshUnchanged, RefreshModel, RunAnalyze, SkipSweep,
                     RaiseSweep, RunRequest, RunIndex, RunSymbols, RunLocate, RunChange,
                     sessionVars, resultVars
<1>6. CASE Stopped \/ UNCHANGED vars
  BY <1>6, Zenon DEF Stopped, vars, sessionVars, resultVars
<1> QED
  BY <1>1, <1>2, <1>3, <1>4, <1>5, <1>6, Zenon DEF Next, Engine

(* While no file has been written or deleted, what is kept of a file is    *)
(* lost only to a new model, whatever the worker failed on.                *)
THEOREM ResultsKept == Spec => KeepsResults
<1>1. ASSUME Base, Deep, [Next]_vars, saves = 0, generation' = generation, NEW u \in Uris,
             store[u] # Unknown
      PROVE  store'[u] # Unknown
  <2>1. CASE ~ HandleEvent
    BY <1>1, <2>1, StoreKept, Zenon
  <2>2. CASE HandleEvent
    <3> DEFINE e == Head(events)
    <3>1. /\ e \in EventSet /\ Handle(e) /\ ResultShape /\ Handled(e)
          /\ e.type \notin {"index", "symbols", "reset", "names", "located"} => UNCHANGED resultVars
      <4>1. Base'
        BY <1>1, NextBase, Zenon
      <4> QED
        BY <1>1, <2>2, <4>1, HandledEvent, HandledNow, Zenon DEF HandleEvent, Base, Shape
    <3> HIDE DEF e
    <3>2. CASE e.type \notin {"index", "symbols", "reset", "names", "located"}
      BY <1>1, <3>1, <3>2, Zenon DEF resultVars
    <3>3. CASE e.type \in {"index", "symbols", "reset", "names", "located"}
      <4>1. /\ generation' = (IF e.type = "reset" THEN e.generation ELSE generation)
            /\ store' = (IF e.type = "reset" THEN [w \in Uris |-> Unknown]
                         ELSE IF e.type = "index" THEN Merge(store, e) ELSE store)
        BY <3>1, <3>3, HandledResults, Zenon
      <4>2. e.type # "reset"
        <5>1. SUFFICES ASSUME e.type = "reset" PROVE FALSE
          BY Zenon
        <5>2. generation < e.generation /\ generation \in Nat
          BY <1>1, <3>1, <5>1, Zenon DEF Handled, Deep, ResetInv
        <5>3. e.generation = generation
          BY <1>1, <4>1, <5>1, Zenon
        <5> QED
          BY <5>2, <5>3
      <4>3. CASE e.type = "index"
        <5>1. store' = Merge(store, e)
          BY <4>1, <4>2, <4>3, Zenon
        <5>2. \A w \in e.attempted : e.conclusive => e.found[w] # Unknown
          BY <1>1, <3>1, <4>3, Zenon DEF Handled, Deep, VersionInv
        <5>3. CASE e.generation < generation
          BY <1>1, <5>1, <5>3, Zenon DEF Merge
        <5>4. CASE ~ (e.generation < generation)
          <6>1. store' = [w \in Uris |->
                            IF e.found[w] # Unknown \/ (w \in e.attempted /\ e.conclusive)
                            THEN e.found[w] ELSE store[w]]
            BY <5>1, <5>4, Zenon DEF Merge
          <6> QED
            BY <1>1, <5>2, <6>1, Zenon
        <5> QED
          BY <5>3, <5>4, Zenon
      <4>4. CASE e.type # "index"
        BY <1>1, <4>1, <4>2, <4>4, Zenon
      <4> QED
        BY <4>3, <4>4, Zenon
    <3> QED
      BY <3>2, <3>3, Zenon
  <2> QED
    BY <2>1, <2>2, Zenon
<1>2. Base /\ Deep /\ [Next]_vars =>
        [(saves = 0 /\ generation' = generation) =>
           \A u \in Uris : store[u] # Unknown => store'[u] # Unknown]_vars
  BY <1>1, Zenon
<1> QED
  BY <1>2, InitBase, InitDeep, NextBase, NextDeep, PTL DEF Spec, KeepsResults
=============================================================================
