------------------------ MODULE ResponseDeliveryProofs ------------------------
(***************************************************************************)
(* Proofs about modules OutputQueue and ResponseDelivery, for any channel, *)
(* budget, frame sizes and buffers and any number of frames, events and    *)
(* pages: what the queue promises, by itself and in the session that       *)
(* writes to it, and what the session's loop promises of the events it     *)
(* keeps and of the streams it delivers.                                   *)
(***************************************************************************)
EXTENDS ResponseDelivery, SequenceTheorems, FiniteSetTheorems, WellFoundedInduction, TLAPS

-------------------------------------------------------------------------------
(* Every nonempty set of natural numbers has a least element.  The proofs  *)
(* use it in place of induction: to show something of every number, take   *)
(* the least one it fails for.                                             *)
LEMMA LeastNat ==
  ASSUME NEW T, T \subseteq Nat, T # {}
  PROVE  \E n \in T : \A m \in T : n <= m
<1>1. PICK R : IsWellFoundedOn(R, Nat) /\ \A x, y \in Nat : y < x => <<y, x>> \in R
  <2>1. \A x, y \in Nat : y < x => <<y, x>> \in OpToRel(<, Nat)
    BY DEF OpToRel
  <2> QED
    BY <2>1, NatLessThanWellFounded, Zenon
<1>2. PICK n \in T : \A y \in T : ~ (<<y, n>> \in R)
  BY <1>1, WFMin, Zenon
<1>3. \A m \in T : ~ (m < n)
  BY <1>1, <1>2, Zenon
<1> QED
  BY <1>3

-------------------------------------------------------------------------------
(* Facts about sequences.                                                  *)

\* A sequence is its head and its tail.
LEMMA HeadAndTail ==
  ASSUME NEW S, NEW s \in Seq(S), s # <<>>
  PROVE  /\ Head(s) \in S /\ Tail(s) \in Seq(S)
         /\ <<Head(s)>> \o Tail(s) = s
<1>1. Head(s) \in S /\ Tail(s) \in Seq(S) /\ <<Head(s)>> \in Seq(S)
  BY HeadTailProperties
<1>2. Len(s) \in Nat \ {0} /\ Head(s) = s[1]
  BY EmptySeq
<1>3. Len(<<Head(s)>> \o Tail(s)) = Len(s)
  BY <1>1, <1>2, ConcatProperties, HeadTailProperties
<1>4. \A i \in 1 .. Len(s) : (<<Head(s)>> \o Tail(s))[i] = s[i]
  BY <1>1, <1>2, ConcatProperties, HeadTailProperties
<1> QED
  BY <1>1, <1>3, <1>4, SeqEqual, ConcatProperties

\* An element put after one sequence comes after both.
LEMMA AppendAfterConcat ==
  ASSUME NEW S, NEW s \in Seq(S), NEW t \in Seq(S), NEW e \in S
  PROVE  s \o Append(t, e) = Append(s \o t, e)
<1>1. /\ Append(t, e) = t \o <<e>> /\ Append(s \o t, e) = (s \o t) \o <<e>>
      /\ <<e>> \in Seq(S)
  BY AppendIsConcat, ConcatProperties
<1> QED
  BY <1>1, ConcatAssociative

\* The head of the second sequence moved to the end of the first.
LEMMA MoveHead ==
  ASSUME NEW S, NEW s \in Seq(S), NEW t \in Seq(S), t # <<>>
  PROVE  Append(s, Head(t)) \o Tail(t) = s \o t
<1>1. /\ Head(t) \in S /\ Tail(t) \in Seq(S) /\ <<Head(t)>> \in Seq(S)
      /\ <<Head(t)>> \o Tail(t) = t
  BY HeadAndTail
<1>2. Append(s, Head(t)) = s \o <<Head(t)>>
  BY <1>1, AppendIsConcat
<1> QED
  BY <1>1, <1>2, ConcatAssociative

\* What is first of a concatenation that begins with e.
LEMMA FirstOfConcat ==
  ASSUME NEW S, NEW e \in S, NEW s \in Seq(S)
  PROVE  <<e>> \o s # <<>> /\ Head(<<e>> \o s) = e /\ Tail(<<e>> \o s) = s
<1>1. <<e>> \in Seq(S) /\ Len(<<e>>) = 1 /\ <<e>>[1] = e
  OBVIOUS
<1>2. /\ <<e>> \o s \in Seq(S) /\ Len(<<e>> \o s) = 1 + Len(s) /\ Len(s) \in Nat
      /\ \A i \in 1 .. 1 + Len(s) : (<<e>> \o s)[i] = IF i <= 1 THEN <<e>>[i] ELSE s[i - 1]
  BY <1>1, ConcatProperties, LenProperties
<1>3. <<e>> \o s # <<>> /\ Head(<<e>> \o s) = e
  BY <1>1, <1>2, EmptySeq
<1>4. Tail(<<e>> \o s) \in Seq(S) /\ Len(Tail(<<e>> \o s)) = Len(s)
  BY <1>2, <1>3, HeadTailProperties
<1>5. \A i \in 1 .. Len(s) : Tail(<<e>> \o s)[i] = s[i]
  BY <1>2, <1>3, <1>4, HeadTailProperties
<1> QED
  BY <1>3, <1>4, <1>5, SeqEqual

-------------------------------------------------------------------------------
(* The bytes of a sequence of frames.  Bytes adds them up by recursion on  *)
(* the length; a function with all the prefix sums is what it computes.    *)

\* g holds the sums of the prefixes of fs.
Sums(fs, g) ==
  /\ g \in [0 .. Len(fs) -> Nat] /\ g[0] = 0
  /\ \A i \in 1 .. Len(fs) : g[i] = g[i - 1] + fs[i].size

Sized == [id : Nat, size : Nat]

\* The length and the sizes are numbers.
LEMMA SizesAreNumbers ==
  ASSUME NEW fs \in Seq(Sized)
  PROVE  Len(fs) \in Nat /\ \A i \in 1 .. Len(fs) : fs[i].size \in Nat
<1>1. ASSUME NEW i \in 1 .. Len(fs) PROVE fs[i].size \in Nat
  <2>1. fs[i] \in Sized
    BY ElementOfSeq
  <2> QED
    BY <2>1 DEF Sized
<1> QED
  BY <1>1, LenProperties

\* Every sequence of frames has prefix sums.
LEMMA SumsExist == ASSUME NEW fs \in Seq(Sized) PROVE \E g : Sums(fs, g)
<1> DEFINE Upto(n, g) == g \in [0 .. n -> Nat] /\ g[0] = 0
                         /\ \A i \in 1 .. n : g[i] = g[i - 1] + fs[i].size
           Without == {n \in 0 .. Len(fs) : ~(\E g : Upto(n, g))}
<1>1. Len(fs) \in Nat /\ \A i \in 1 .. Len(fs) : fs[i].size \in Nat
  BY SizesAreNumbers
<1>2. Without = {}
  <2> SUFFICES ASSUME Without # {} PROVE FALSE
    OBVIOUS
  <2>0. Without \subseteq Nat
    BY <1>1
  <2>1. PICK n \in Without : \A m \in Without : n <= m
    <3> HIDE DEF Without
    <3> QED
      BY <2>0, LeastNat, Zenon
  <2>2. CASE n = 0
    <3>1. Upto(0, [i \in 0 .. 0 |-> 0])
      OBVIOUS
    <3> QED
      BY <2>1, <2>2, <3>1
  <2>3. CASE n # 0
    <3>1. n - 1 \in 0 .. Len(fs) /\ n \in 1 .. Len(fs) /\ n - 1 \notin Without
      BY <1>1, <2>1, <2>3
    <3>2. PICK g : Upto(n - 1, g)
      BY <3>1
    <3> DEFINE h == [i \in 0 .. n |-> IF i = n THEN g[n - 1] + fs[n].size ELSE g[i]]
    <3>3. g[n - 1] + fs[n].size \in Nat /\ \A i \in 0 .. n : i # n => g[i] \in Nat
      BY <1>1, <3>1, <3>2
    <3>4. h \in [0 .. n -> Nat] /\ h[0] = 0
      BY <3>1, <3>2, <3>3
    <3>5. ASSUME NEW i \in 1 .. n PROVE h[i] = h[i - 1] + fs[i].size
      <4>1. CASE i = n
        BY <3>1, <4>1
      <4>2. CASE i # n
        BY <3>1, <3>2, <4>2
      <4> QED
        BY <4>1, <4>2
    <3>6. Upto(n, h)
      BY <3>4, <3>5
    <3> QED
      BY <2>1, <3>6
  <2> QED
    BY <2>2, <2>3
<1>3. \E g : Upto(Len(fs), g)
  BY <1>1, <1>2
<1> QED
  BY <1>3 DEF Sums

\* Bytes is the last of them.
LEMMA BytesIsSum ==
  ASSUME NEW fs \in Seq(Sized), NEW g, Sums(fs, g)
  PROVE  Bytes(fs) = g[Len(fs)]
<1> DEFINE Fix(h) == h = [i \in 0 .. Len(fs) |-> IF i = 0 THEN 0 ELSE h[i - 1] + fs[i].size]
           sum == CHOOSE h : Fix(h)
<1>1. Len(fs) \in Nat
  BY LenProperties
<1>2. Fix(g)
  BY <1>1 DEF Sums
<1>3. Fix(sum)
  BY <1>2
<1>4. Bytes(fs) = sum[Len(fs)]
  BY DEF Bytes
<1> DEFINE T == {i \in 0 .. Len(fs) : sum[i] # g[i]}
<1> HIDE DEF sum
<1>5. T = {}
  <2> SUFFICES ASSUME T # {} PROVE FALSE
    OBVIOUS
  <2>0. T \subseteq Nat
    BY <1>1
  <2>1. PICK n \in T : \A m \in T : n <= m
    <3> HIDE DEF T
    <3> QED
      BY <2>0, LeastNat, Zenon
  <2>2. CASE n = 0
    BY <1>1, <1>3, <2>1, <2>2 DEF Sums
  <2>3. CASE n # 0
    <3>1. n - 1 \in 0 .. Len(fs) /\ n \in 1 .. Len(fs) /\ n - 1 \notin T
      BY <1>1, <2>1, <2>3
    <3>2. sum[n] = sum[n - 1] + fs[n].size
      BY <1>3, <3>1
    <3>3. g[n] = g[n - 1] + fs[n].size /\ sum[n - 1] = g[n - 1]
      BY <3>1 DEF Sums
    <3> QED
      BY <2>1, <3>2, <3>3
  <2> QED
    BY <2>2, <2>3
<1> QED
  BY <1>1, <1>4, <1>5

\* The bytes of two sequences one after the other.
LEMMA BytesOfConcat ==
  ASSUME NEW s \in Seq(Sized), NEW t \in Seq(Sized)
  PROVE  /\ Bytes(s \o t) = Bytes(s) + Bytes(t)
         /\ Bytes(s) \in Nat /\ Bytes(t) \in Nat
<1>1. PICK g : Sums(s, g)
  BY SumsExist
<1>2. PICK h : Sums(t, h)
  BY SumsExist
<1>3. /\ s \o t \in Seq(Sized) /\ Len(s \o t) = Len(s) + Len(t)
      /\ Len(s) \in Nat /\ Len(t) \in Nat
      /\ \A i \in 1 .. Len(s) + Len(t) :
           (s \o t)[i] = IF i <= Len(s) THEN s[i] ELSE t[i - Len(s)]
  BY ConcatProperties, LenProperties
<1> DEFINE k == [i \in 0 .. Len(s) + Len(t) |->
                   IF i <= Len(s) THEN g[i] ELSE g[Len(s)] + h[i - Len(s)]]
<1>4. k \in [0 .. Len(s \o t) -> Nat] /\ k[0] = 0
  <2>1. ASSUME NEW i \in 0 .. Len(s) + Len(t) PROVE k[i] \in Nat
    <3>1. g[Len(s)] \in Nat
      BY <1>1, <1>3 DEF Sums
    <3>2. CASE i <= Len(s)
      BY <1>1, <1>3, <3>2 DEF Sums
    <3>3. CASE i > Len(s)
      <4>1. i - Len(s) \in 0 .. Len(t)
        BY <1>3, <3>3
      <4>2. h[i - Len(s)] \in Nat
        BY <1>2, <4>1 DEF Sums
      <4>3. k[i] = g[Len(s)] + h[i - Len(s)]
        BY <1>3, <3>3
      <4> QED
        BY <3>1, <4>2, <4>3
    <3> QED
      BY <1>3, <3>2, <3>3
  <2>2. k[0] = 0
    BY <1>1, <1>3 DEF Sums
  <2> QED
    BY <1>3, <2>1, <2>2
<1>5. ASSUME NEW i \in 1 .. Len(s \o t) PROVE k[i] = k[i - 1] + (s \o t)[i].size
  <2>1. CASE i <= Len(s)
    BY <1>1, <1>3, <2>1 DEF Sums
  <2>2. CASE i = Len(s) + 1
    <3>1. (s \o t)[i] = t[1] /\ k[i] = g[Len(s)] + h[1] /\ k[i - 1] = g[Len(s)] /\ 1 \in 1 .. Len(t)
      BY <1>3, <2>2
    <3>2. h[1] = h[0] + t[1].size /\ h[0] = 0 /\ h[1] \in Nat
      BY <1>2, <1>3, <3>1 DEF Sums
    <3>3. t[1].size \in Nat /\ g[Len(s)] \in Nat
      BY <1>1, <1>3, <3>1, SizesAreNumbers DEF Sums
    <3> QED
      BY <3>1, <3>2, <3>3
  <2>3. CASE i > Len(s) + 1
    <3>1. /\ (s \o t)[i] = t[i - Len(s)] /\ k[i] = g[Len(s)] + h[i - Len(s)]
          /\ k[i - 1] = g[Len(s)] + h[i - Len(s) - 1] /\ i - Len(s) \in 1 .. Len(t)
      BY <1>3, <2>3
    <3>2. h[i - Len(s)] = h[i - Len(s) - 1] + t[i - Len(s)].size
      BY <1>2, <3>1 DEF Sums
    <3>3. t[i - Len(s)].size \in Nat
      BY <3>1, SizesAreNumbers
    <3>4. g[Len(s)] \in Nat
      BY <1>1, <1>3 DEF Sums
    <3>5. i - Len(s) - 1 \in 0 .. Len(t)
      BY <1>3, <3>1
    <3>6. h[i - Len(s) - 1] \in Nat
      BY <1>2, <3>5 DEF Sums
    <3> QED
      BY <3>1, <3>2, <3>3, <3>4, <3>6
  <2> QED
    BY <1>3, <2>1, <2>2, <2>3
<1>6. Sums(s \o t, k)
  BY <1>3, <1>4, <1>5 DEF Sums
<1>7. /\ Bytes(s \o t) = k[Len(s \o t)] /\ Bytes(s) = g[Len(s)] /\ Bytes(t) = h[Len(t)]
  BY <1>1, <1>2, <1>3, <1>6, BytesIsSum
<1>8. g[Len(s)] \in Nat /\ h[Len(t)] \in Nat /\ h[0] = 0
  BY <1>1, <1>2, <1>3, SMTT(30) DEF Sums
<1>9. k[Len(s) + Len(t)] = g[Len(s)] + h[Len(t)]
  BY <1>3, <1>8, SMTT(30)
<1> QED
  BY <1>3, <1>7, <1>8, <1>9

\* The bytes of no frame and of one.
LEMMA BytesOfOne == Bytes(<<>>) = 0 /\ \A f \in Sized : Bytes(<<f>>) = f.size
<1>1. Bytes(<<>>) = 0
  <2>1. <<>> \in Seq(Sized) /\ Len(<<>>) = 0
    OBVIOUS
  <2>2. Sums(<<>>, [i \in 0 .. 0 |-> 0])
    BY <2>1 DEF Sums
  <2> QED
    BY <2>1, <2>2, BytesIsSum
<1>2. ASSUME NEW f \in Sized PROVE Bytes(<<f>>) = f.size
  <2>1. <<f>> \in Seq(Sized) /\ Len(<<f>>) = 1 /\ <<f>>[1] = f /\ f.size \in Nat
    BY DEF Sized
  <2>2. Sums(<<f>>, [i \in 0 .. 1 |-> IF i = 0 THEN 0 ELSE f.size])
    BY <2>1 DEF Sums
  <2> QED
    BY <2>1, <2>2, BytesIsSum
<1> QED
  BY <1>1, <1>2

-------------------------------------------------------------------------------
(* The invariant of the queue.  A frame that was made has a number and is  *)
(* therefore not NoFrame, so that the writer's hands are empty exactly     *)
(* when it holds NoFrame; a writer that waits for the channel holds none.  *)

Made == [id : 1 .. MaxFrames, size : Sizes]

QueueInv ==
  /\ frames \in Nat
  /\ current \in Made \union {NoFrame}
  /\ pending \in Seq(Made) /\ channel \in Seq(Made)
  /\ writer \in {"recv", "write", "release", "exit", "done"}
  /\ writer = "recv" => taken = NoFrame
  /\ writer # "recv" => taken \in Made \union {NoFrame}
  /\ writer \in {"write", "exit"} => taken \in Made

\* A frame that was made is a frame, and not NoFrame.
LEMMA MadeIsFrame == Made \subseteq Frame /\ NoFrame \notin Made /\ NoFrame.id = 0
<1>1. 1 .. MaxFrames \subseteq 0 .. MaxFrames
  BY OutputAssumption DEF OutputAssumption
<1> QED
  BY <1>1, OutputAssumption DEF OutputAssumption, Made, Frame, NoFrame

\* The empty queue satisfies it.
LEMMA QueueInit == Init => QueueInv
BY EmptySeq DEF Init, QueueInv

\* Every step of either thread keeps the invariant.
LEMMA QueueStep == QueueInv /\ [Next]_vars => QueueInv'
<1> SUFFICES ASSUME QueueInv, [Next]_vars PROVE QueueInv'
  OBVIOUS
<1> USE DEF QueueInv, vars, mainVars, writerVars
<1>1. CASE Take
  <2>1. Head(channel) \in Made /\ Tail(channel) \in Seq(Made)
    BY <1>1, HeadAndTail DEF Take
  <2> QED
    BY <1>1, <2>1 DEF Take
<1>2. CASE Write
  BY <1>2 DEF Write
<1>3. CASE Release
  BY <1>3 DEF Release
<1>4. CASE WriteFails
  BY <1>4 DEF WriteFails
<1>5. CASE WriterExits
  BY <1>5 DEF WriterExits
<1>6. CASE WriteFrame(Sizes)
  <2>1. CASE Bad
    BY <1>6, <2>1 DEF WriteFrame
  <2>2. CASE ~Bad
    <3>1. frames + 1 \in 1 .. MaxFrames /\ frames' = frames + 1
      BY <1>6, <2>2, OutputAssumption DEF WriteFrame, OutputAssumption
    <3>2. current' \in Made
      BY <1>6, <2>2, <3>1 DEF WriteFrame, Made
    <3> QED
      BY <1>6, <3>1, <3>2 DEF WriteFrame
  <2> QED
    BY <2>1, <2>2
<1>7. CASE AskIdle
  BY <1>7 DEF AskIdle
<1>8. CASE Finish
  BY <1>8 DEF Finish
<1>9. CASE Poll
  BY <1>9 DEF Poll
<1>10. CASE PumpOne
  <2>1. Head(pending) \in Made /\ Tail(pending) \in Seq(Made)
    BY <1>10, HeadAndTail DEF PumpOne
  <2>2. Append(channel, Head(pending)) \in Seq(Made)
    BY <2>1, AppendProperties
  <2> QED
    BY <1>10, <2>1, <2>2 DEF PumpOne
<1>11. CASE PumpEnds
  BY <1>11 DEF PumpEnds
<1>12. CASE PumpFails
  BY <1>12 DEF PumpFails
<1>13. CASE Accept
  <2>1. current # NoFrame => Append(pending, current) \in Seq(Made)
    BY AppendProperties
  <2>2. pending' \in Seq(Made) /\ current' = NoFrame
    BY <1>13, <2>1 DEF Accept
  <2> QED
    BY <1>13, <2>2 DEF Accept
<1>14. CASE Poll2
  BY <1>14 DEF Poll2
<1>15. CASE DrainMore
  BY <1>15 DEF DrainMore
<1>16. CASE Close
  BY <1>16 DEF Close
<1>17. CASE Joined
  BY <1>17 DEF Joined
<1>18. CASE Parked
  BY <1>18 DEF Parked
<1>19. CASE Expire
  BY <1>19 DEF Expire
<1>20. CASE UNCHANGED vars
  BY <1>20
<1> QED
  BY <1>1, <1>2, <1>3, <1>4, <1>5, <1>6, <1>7, <1>8, <1>9, <1>10, <1>11, <1>12, <1>13,
     <1>14, <1>15, <1>16, <1>17, <1>18, <1>19, <1>20
  DEF Next, Main, Writer, Proceed, Finished

-------------------------------------------------------------------------------
(* The refinement.  What waits is in the writer's hand, in the channel and *)
(* in pending, in this order; a hand-over from one to the next is a step   *)
(* the FIFO does not see.                                                  *)

\* An accepted frame is put at the end of the FIFO.
LEMMA AcceptIsPut ==
  ASSUME QueueInv, Accept
  PROVE  (\E f \in Frame : Fifo!Put(f)) \/ UNCHANGED <<Waiting, written>>
<1>1. InHand' = InHand /\ channel' = channel /\ written' = written
  BY DEF Accept, InHand, writerVars
<1>2. CASE pending' = pending
  BY <1>1, <1>2 DEF Waiting
<1>3. CASE pending' # pending
  <2>1. current \in Made /\ current \in Frame /\ pending' = Append(pending, current)
    BY <1>3, MadeIsFrame DEF Accept, QueueInv
  <2>2. InHand \in Seq(Made)
    BY MadeIsFrame DEF InHand, QueueInv
  <2>3. InHand \o channel \in Seq(Made)
    BY <2>2, ConcatProperties DEF QueueInv
  <2>4. Waiting' = Append(Waiting, current)
    BY <1>1, <2>1, <2>3, AppendAfterConcat DEF Waiting, QueueInv
  <2> QED
    BY <1>1, <2>1, <2>4 DEF Fifo!Put
<1> QED
  BY <1>2, <1>3

\* A frame the client has read left the FIFO at its front.
LEMMA WriteIsDeliver == ASSUME QueueInv, Write PROVE Fifo!Deliver
<1>1. InHand = <<taken>> /\ InHand' = <<>> /\ taken \in Made
  BY MadeIsFrame DEF Write, InHand, QueueInv
<1>2. channel' = channel /\ pending' = pending /\ written' = Append(written, taken)
  BY DEF Write, mainVars
<1>3. channel \o pending \in Seq(Made) /\ <<taken>> \in Seq(Made)
  BY <1>1, ConcatProperties DEF QueueInv
<1>4. Waiting = <<taken>> \o (channel \o pending)
  BY <1>1, <1>3, ConcatAssociative DEF Waiting, QueueInv
<1>5. Waiting' = channel \o pending
  BY <1>1, <1>2, <1>3, ConcatEmptySeq DEF Waiting, QueueInv
<1>6. Waiting # <<>> /\ Head(Waiting) = taken /\ Tail(Waiting) = channel \o pending
  BY <1>1, <1>3, <1>4, FirstOfConcat
<1> QED
  BY <1>2, <1>5, <1>6 DEF Fifo!Deliver

\* The writer takes the frame that is first in the channel.
LEMMA TakeStutters == ASSUME QueueInv, Take PROVE Waiting' = Waiting
<1>1. /\ Head(channel) \in Made /\ Tail(channel) \in Seq(Made)
      /\ <<Head(channel)>> \o Tail(channel) = channel
  BY HeadAndTail DEF Take, QueueInv
<1>2. InHand = <<>> /\ InHand' = <<Head(channel)>>
  BY <1>1, MadeIsFrame DEF Take, InHand
<1>3. channel' = Tail(channel) /\ pending' = pending
  BY DEF Take, mainVars
<1>4. <<>> \o channel = channel
  BY ConcatEmptySeq DEF QueueInv
<1> QED
  BY <1>1, <1>2, <1>3, <1>4 DEF Waiting

\* A frame is handed on from pending to the channel.
LEMMA PumpStutters == ASSUME QueueInv, PumpOne PROVE Waiting' = Waiting
<1>1. /\ Head(pending) \in Made /\ Tail(pending) \in Seq(Made)
  BY HeadAndTail DEF PumpOne, QueueInv
<1>2. /\ channel' = Append(channel, Head(pending)) /\ pending' = Tail(pending)
      /\ InHand' = InHand
  BY DEF PumpOne, InHand, writerVars
<1>3. InHand \in Seq(Made)
  BY MadeIsFrame DEF InHand, QueueInv
<1>4. Append(InHand \o channel, Head(pending)) \o Tail(pending) = (InHand \o channel) \o pending
  BY <1>3, ConcatProperties, MoveHead DEF PumpOne, QueueInv
<1>5. InHand \o Append(channel, Head(pending)) = Append(InHand \o channel, Head(pending))
  BY <1>1, <1>3, AppendAfterConcat DEF QueueInv
<1> QED
  BY <1>2, <1>4, <1>5 DEF Waiting

\* A step of the queue is a step of the FIFO or changes nothing of it.
LEMMA StepRefines == QueueInv /\ [Next]_vars => [Fifo!Next]_(Fifo!fifoVars)
<1> SUFFICES ASSUME QueueInv, [Next]_vars PROVE Fifo!Next \/ UNCHANGED <<Waiting, written>>
  BY DEF Fifo!fifoVars
<1>1. CASE Accept
  BY <1>1, AcceptIsPut DEF Fifo!Next
<1>2. CASE Write
  BY <1>2, WriteIsDeliver DEF Fifo!Next
<1>3. CASE Take
  BY <1>3, TakeStutters DEF Take
<1>4. CASE PumpOne
  BY <1>4, PumpStutters DEF PumpOne, writerVars
<1>5. CASE Release \/ WriteFails \/ WriterExits
  BY <1>5, MadeIsFrame
  DEF Release, WriteFails, WriterExits, mainVars, Waiting, InHand, QueueInv
<1>6. CASE \/ WriteFrame(Sizes) \/ AskIdle \/ Finish \/ Poll \/ PumpEnds \/ PumpFails
           \/ Poll2 \/ DrainMore \/ Close \/ Joined \/ Parked \/ Expire \/ UNCHANGED vars
  <2>1. UNCHANGED <<pending, channel, writer, taken, written>>
    BY <1>6
    DEF WriteFrame, AskIdle, Finish, Poll, PumpEnds, PumpFails, Poll2, DrainMore, Close, Joined,
        Parked, Expire, vars, mainVars, writerVars
  <2> QED
    BY <2>1 DEF Waiting, InHand
<1> QED
  BY <1>1, <1>2, <1>3, <1>4, <1>5, <1>6 DEF Next, Main, Writer, Proceed, Finished

(* The stdout queue (output_queue.rs) implements the FIFO it promises:     *)
(* whatever the sizes, the budget and the channel's length, through failed *)
(* writes and shutdown, the client gets the accepted frames in order, none *)
(* skipped and none twice.                                                 *)
THEOREM QueueImplementsFifo == Spec => ImplementsFifo
<1>1. Init => Fifo!Init
  <2>1. <<>> \o <<>> = <<>>
    BY EmptySeq, ConcatEmptySeq
  <2> QED
    BY <2>1 DEF Init, Fifo!Init, Waiting, InHand
<1> QED
  BY <1>1, QueueInit, QueueStep, StepRefines, PTL DEF Spec, ImplementsFifo, Fifo!Spec

-------------------------------------------------------------------------------
(* The bytes of frames that were made.                                     *)

\* A frame that was made has some bytes.
LEMMA MadeIsSized ==
  /\ Made \subseteq Sized /\ NoFrame \in Sized /\ NoFrame.size = 0
  /\ \A f \in Made : f.size \in Nat \ {0}
  /\ \A s \in Seq(Made) : s \in Seq(Sized)
<1>1. ASSUME NEW f \in Made PROVE f \in Sized /\ f.size \in Nat \ {0}
  <2>1. f.size \in Sizes /\ f.id \in Nat /\ f = [id |-> f.id, size |-> f.size]
    BY OutputAssumption DEF OutputAssumption, Made
  <2>2. f.size \in Nat \ {0}
    BY <2>1, OutputAssumption DEF OutputAssumption
  <2> QED
    BY <2>1, <2>2 DEF Sized
<1>2. ASSUME NEW s \in Seq(Made) PROVE s \in Seq(Sized)
  <2>1. Len(s) \in Nat /\ s \in [1 .. Len(s) -> Made]
    BY LenProperties
  <2>2. s \in [1 .. Len(s) -> Sized]
    BY <1>1, <2>1
  <2> QED
    BY <2>1, <2>2, SeqDef
<1> QED
  BY <1>1, <1>2 DEF NoFrame, Sized

\* The bytes of a sequence with a frame put at its end.
LEMMA BytesOfAppend ==
  ASSUME NEW s \in Seq(Made), NEW f \in Made
  PROVE  Bytes(Append(s, f)) = Bytes(s) + f.size /\ Bytes(s) \in Nat /\ f.size \in Nat \ {0}
<1>1. f \in Sized /\ s \in Seq(Sized) /\ f.size \in Nat \ {0}
  BY MadeIsSized
<1>2. <<f>> \in Seq(Sized) /\ Append(s, f) = s \o <<f>>
  BY <1>1, AppendIsConcat
<1>3. Bytes(<<f>>) = f.size
  BY <1>1, BytesOfOne
<1> QED
  BY <1>1, <1>2, <1>3, BytesOfConcat

\* The same for the frame at its front.
LEMMA BytesOfTail ==
  ASSUME NEW s \in Seq(Made), s # <<>>
  PROVE  /\ Bytes(s) = Head(s).size + Bytes(Tail(s))
         /\ Bytes(Tail(s)) \in Nat /\ Head(s).size \in Nat \ {0}
<1>1. Head(s) \in Made /\ Tail(s) \in Seq(Made) /\ <<Head(s)>> \o Tail(s) = s
  BY HeadAndTail
<1>2. Head(s) \in Sized /\ Tail(s) \in Seq(Sized) /\ Head(s).size \in Nat \ {0}
  BY <1>1, MadeIsSized
<1>3. <<Head(s)>> \in Seq(Sized) /\ Bytes(<<Head(s)>>) = Head(s).size
  BY <1>2, BytesOfOne
<1> QED
  BY <1>1, <1>2, <1>3, BytesOfConcat

-------------------------------------------------------------------------------
(* The count of held bytes, which the session adds to and the writer       *)
(* subtracts from.  It is exact until the transport fails; what is held is *)
(* within the budget even then.                                            *)

HeldInv ==
  /\ held \in Int
  /\ ~Bad => held = Bytes(pending) + Bytes(channel) + taken.size
  /\ Bytes(pending) + Bytes(channel) + taken.size <= Budget

\* It holds at the start.
LEMMA HeldInit == Init => HeldInv
BY OutputAssumption, BytesOfOne DEF OutputAssumption, Init, HeldInv, NoFrame

\* A failure is never forgotten.
LEMMA BadStays == [Next]_vars => (Bad => Bad')
<1> SUFFICES ASSUME [Next]_vars, Bad PROVE Bad'
  OBVIOUS
<1> USE DEF Bad, vars, mainVars, writerVars
<1>1. CASE Take \/ Write \/ Release \/ WriterExits \/ AskIdle \/ Finish \/ PumpOne \/ PumpEnds
           \/ DrainMore \/ Close \/ Parked \/ Expire \/ UNCHANGED vars
  <2>1. UNCHANGED <<failed, writerError>>
    BY <1>1
    DEF Take, Write, Release, WriterExits, AskIdle, Finish, PumpOne, PumpEnds, DrainMore, Close,
        Parked, Expire
  <2> QED
    BY <2>1
<1>2. CASE WriteFails \/ PumpFails
  BY <1>2 DEF WriteFails, PumpFails
<1>3. CASE WriteFrame(Sizes)
  BY <1>3 DEF WriteFrame
<1>4. CASE Accept
  BY <1>4 DEF Accept
<1>5. CASE Poll \/ Poll2 \/ Joined
  BY <1>5, Zenon DEF Poll, Poll2, Joined
<1> QED
  BY <1>1, <1>2, <1>3, <1>4, <1>5 DEF Next, Main, Writer, Proceed, Finished

\* Every step of either thread keeps the count.
LEMMA HeldStep == QueueInv /\ HeldInv /\ [Next]_vars => HeldInv'
<1> SUFFICES ASSUME QueueInv, HeldInv, [Next]_vars PROVE HeldInv'
  OBVIOUS
<1>0. Bad => Bad'
  BY BadStays
<1>a. /\ Budget \in Nat /\ taken.size \in Nat /\ Bytes(pending) \in Nat /\ Bytes(channel) \in Nat
  <2>1. pending \in Seq(Sized) /\ channel \in Seq(Sized) /\ taken.size \in Nat
    BY MadeIsSized DEF QueueInv
  <2> QED
    BY <2>1, BytesOfConcat, OutputAssumption DEF OutputAssumption
<1>b. ASSUME UNCHANGED <<pending, channel, taken, held>> PROVE HeldInv'
  BY <1>0, <1>b DEF HeldInv
<1>1. CASE Take
  <2>1. Bytes(channel) = Head(channel).size + Bytes(Tail(channel)) /\ Bytes(Tail(channel)) \in Nat
        /\ Head(channel).size \in Nat
    BY <1>1, BytesOfTail DEF Take, QueueInv
  <2>2. taken.size = 0
    BY <1>1 DEF Take, QueueInv, NoFrame
  <2>3. taken' = Head(channel) /\ channel' = Tail(channel) /\ held' = held /\ pending' = pending
    BY <1>1 DEF Take, mainVars
  <2> QED
    BY <1>0, <1>a, <2>1, <2>2, <2>3 DEF HeldInv
<1>2. CASE Release
  <2>1. taken'.size = 0 /\ held' = held - taken.size /\ UNCHANGED <<channel, pending>>
    BY <1>2 DEF Release, mainVars, NoFrame
  <2> QED
    BY <1>0, <1>a, <2>1 DEF HeldInv
<1>3. CASE PumpOne
  <2>1. /\ Bytes(pending) = Head(pending).size + Bytes(Tail(pending))
        /\ Bytes(Tail(pending)) \in Nat /\ Head(pending).size \in Nat
    BY <1>3, BytesOfTail DEF PumpOne, QueueInv
  <2>2. Head(pending) \in Made
    BY <1>3, HeadAndTail DEF PumpOne, QueueInv
  <2>3. Bytes(Append(channel, Head(pending))) = Bytes(channel) + Head(pending).size
    BY <2>2, BytesOfAppend DEF QueueInv
  <2>4. /\ channel' = Append(channel, Head(pending)) /\ pending' = Tail(pending)
        /\ UNCHANGED <<held, taken>>
    BY <1>3 DEF PumpOne, writerVars
  <2> QED
    BY <1>0, <1>a, <2>1, <2>3, <2>4 DEF HeldInv
<1>4. CASE PumpFails
  <2>1. Bad' /\ UNCHANGED <<pending, channel, taken>> /\ held' = held - Head(pending).size
    BY <1>4 DEF PumpFails, writerVars, Bad
  <2>2. Head(pending).size \in Nat
    BY <1>4, BytesOfTail DEF PumpFails, QueueInv
  <2> QED
    BY <1>a, <2>1, <2>2 DEF HeldInv
<1>5. CASE Accept
  <2>1. CASE current = NoFrame \/ Bad \/ ~Fits
    BY <1>b, <1>5, <2>1 DEF Accept, writerVars
  <2>2. CASE ~(current = NoFrame \/ Bad \/ ~Fits)
    <3>1. /\ current \in Made /\ held + current.size <= Budget
          /\ held' = held + current.size /\ pending' = Append(pending, current)
          /\ UNCHANGED <<channel, taken>>
      BY <1>5, <2>2 DEF Accept, writerVars, Fits, QueueInv
    <3>2. Bytes(pending') = Bytes(pending) + current.size /\ current.size \in Nat
      BY <3>1, BytesOfAppend DEF QueueInv
    <3>3. held = Bytes(pending) + Bytes(channel) + taken.size
      BY <2>2 DEF HeldInv
    <3>4. /\ held' = Bytes(pending') + Bytes(channel') + taken'.size
          /\ held' <= Budget /\ held' \in Int
      BY <1>a, <3>1, <3>2, <3>3
    <3> QED
      BY <3>4 DEF HeldInv
  <2> QED
    BY <2>1, <2>2
<1>6. CASE \/ Write \/ WriteFails \/ WriterExits \/ WriteFrame(Sizes) \/ AskIdle \/ Finish \/ Poll
           \/ PumpEnds \/ Poll2 \/ DrainMore \/ Close \/ Joined \/ Parked \/ Expire
           \/ UNCHANGED vars
  <2>1. UNCHANGED <<pending, channel, taken, held>>
    BY <1>6 DEF Write, WriteFails, WriterExits, WriteFrame, AskIdle, Finish, Poll, PumpEnds, Poll2,
       DrainMore, Close, Joined, Parked, Expire, vars, mainVars, writerVars
  <2> QED
    BY <1>b, <2>1
<1> QED
  BY <1>1, <1>2, <1>3, <1>4, <1>5, <1>6 DEF Next, Main, Writer, Proceed, Finished

\* The bytes of what is unsent, place by place.
LEMMA UnsentBytes ==
  ASSUME QueueInv
  PROVE  /\ Bytes(Unsent) = Bytes(pending) + Bytes(channel) + taken.size
         /\ Bytes(pending) \in Nat /\ Bytes(channel) \in Nat /\ taken.size \in Nat
<1>1. pending \in Seq(Sized) /\ channel \in Seq(Sized) /\ taken \in Sized /\ taken.size \in Nat
  BY MadeIsSized DEF QueueInv
<1>2. <<taken>> \in Seq(Sized) /\ Bytes(<<taken>>) = taken.size
  BY <1>1, BytesOfOne
<1>3. pending \o channel \in Seq(Sized)
  BY <1>1, ConcatProperties
<1> QED
  BY <1>1, <1>2, <1>3, BytesOfConcat DEF Unsent

(* The count of held bytes of the queue (held_bytes) is what the unsent    *)
(* frames add up to until the transport fails, and they never exceed the   *)
(* budget: no interleaving of accept and release loses an update.          *)
THEOREM ThmHeldExact == Spec => []HeldExact
<1>1. QueueInv /\ HeldInv => HeldExact
  BY UnsentBytes DEF HeldInv, HeldExact
<1> QED
  BY <1>1, QueueInit, QueueStep, HeldInit, HeldStep, PTL DEF Spec

-------------------------------------------------------------------------------
(* Shutdown.  The channel is closed only when nothing waits, or something  *)
(* failed, or the grace is over; a writer that ended without an error      *)
(* found the channel closed and empty.                                     *)

EndInv ==
  /\ ~open <=> main \in {"await", "finished"}
  /\ writer = "exit" => writerError
  /\ (writer = "done" /\ ~writerError) => (~open /\ channel = <<>> /\ taken = NoFrame)
  /\ (~open /\ outcome = "ok" /\ ~expired) => pending = <<>>
  /\ result # "none" => main = "finished"
  /\ result = "ok" => (writer = "done" /\ ~writerError /\ outcome = "ok")

\* It holds at the start.
LEMMA EndInit == Init => EndInv
BY DEF Init, EndInv

\* Every step of either thread keeps it.
LEMMA EndStep == QueueInv /\ EndInv /\ [Next]_vars => EndInv'
<1> SUFFICES ASSUME QueueInv, EndInv, [Next]_vars PROVE EndInv'
  OBVIOUS
<1> USE DEF EndInv, vars, mainVars, writerVars
<1>1. CASE Take
  BY <1>1 DEF Take
<1>2. CASE Write
  BY <1>2 DEF Write
<1>3. CASE Release
  BY <1>3 DEF Release
<1>4. CASE WriteFails
  BY <1>4 DEF WriteFails
<1>5. CASE WriterExits
  BY <1>5 DEF WriterExits, QueueInv
<1>6. CASE WriteFrame(Sizes)
  BY <1>6 DEF WriteFrame, Ready
<1>7. CASE AskIdle \/ Finish
  BY <1>7 DEF AskIdle, Finish, Ready
<1>9. CASE Poll
  BY <1>9 DEF Poll, Return
<1>10. CASE PumpOne
  BY <1>10 DEF PumpOne, Pumping
<1>11. CASE PumpEnds
  BY <1>11 DEF PumpEnds, AfterPump, Return, Pumping
<1>12. CASE PumpFails
  BY <1>12 DEF PumpFails, AfterPump, Return, Pumping
<1>13. CASE Accept
  BY <1>13 DEF Accept
<1>14. CASE Poll2
  BY <1>14 DEF Poll2, Return
<1>15. CASE DrainMore
  BY <1>15 DEF DrainMore
<1>16. CASE Close
  BY <1>16 DEF Close, Draining
<1>17. CASE Joined
  BY <1>17 DEF Joined, Bad
<1>18. CASE Parked
  BY <1>18 DEF Parked
<1>19. CASE Expire
  BY <1>19 DEF Expire
<1>20. CASE UNCHANGED vars
  BY <1>20
<1> QED
  BY <1>1, <1>2, <1>3, <1>4, <1>5, <1>6, <1>7, <1>9, <1>10, <1>11, <1>12, <1>13,
     <1>14, <1>15, <1>16, <1>17, <1>18, <1>19, <1>20
  DEF Next, Main, Writer, Proceed, Finished

(* A shutdown (OutputQueue::shutdown) that reports success before its      *)
(* grace was over has delivered every frame it accepted, whatever the      *)
(* writer thread was doing when the channel was closed.                    *)
THEOREM ThmOkIsDelivered == Spec => []OkIsDelivered
<1>1. QueueInv /\ EndInv => OkIsDelivered
  <2> SUFFICES ASSUME EndInv, result = "ok", ~expired PROVE Waiting = <<>>
    BY DEF OkIsDelivered
  <2>1. channel = <<>> /\ pending = <<>> /\ InHand = <<>>
    BY DEF EndInv, InHand
  <2> QED
    BY <2>1, EmptySeq, ConcatEmptySeq DEF Waiting
<1> QED
  BY <1>1, QueueInit, QueueStep, EndInit, EndStep, PTL DEF Spec

-------------------------------------------------------------------------------
(* The session with its queue.                                             *)

\* A step of the session is a step of the queue or leaves the queue alone.
LEMMA SessionStep == [DeliveryNext]_deliveryVars => [Next]_vars
<1> SUFFICES ASSUME [DeliveryNext]_deliveryVars PROVE Next \/ UNCHANGED vars
  OBVIOUS
<1>1. ASSUME NEW k \in Kinds, Arrive(k) PROVE UNCHANGED vars
  BY <1>1 DEF Arrive
<1>2. CASE \/ TakeEvent \/ Coalesce \/ CoalesceStops \/ CoalesceEnds \/ Dispatch \/ DispatchPull
           \/ Advance \/ Observe \/ ObserveEnds \/ EndStream \/ NotIdle
  BY <1>2
  DEF TakeEvent, Coalesce, CoalesceStops, CoalesceEnds, Dispatch, DispatchPull, Advance, Observe,
      ObserveEnds, EndStream, NotIdle
<1>3. CASE Reply \/ LastMessage
  BY <1>3 DEF Reply, LastMessage, Next, Main
<1>4. CASE Leave
  BY <1>4 DEF Leave, Next, Main
<1>5. CASE Ask
  BY <1>5 DEF Ask, Next, Main
<1>6. CASE NextMessage
  <2>1. WriteFrame(PageSizes)
    BY <1>6 DEF NextMessage
  <2>2. WriteFrame(Sizes)
    BY <2>1, DeliveryAssumption DEF DeliveryAssumption, WriteFrame
  <2> QED
    BY <2>2 DEF Next, Main
<1>7. CASE Queue
  BY <1>7 DEF Queue, Next, Main
<1>8. CASE Waits \/ UNCHANGED deliveryVars
  BY <1>8 DEF Waits, deliveryVars
<1> QED
  BY <1>1, <1>2, <1>3, <1>4, <1>5, <1>6, <1>7, <1>8 DEF DeliveryNext, Loop

\* The session uses the queue as the queue expects to be used.
LEMMA SessionUsesQueue == DeliverySpec => Spec
BY SessionStep, PTL DEF DeliverySpec, DeliveryInit, Spec

(* The session's loop (run_async_loop) uses the queue as the queue expects *)
(* to be used, so that the whole implements the FIFO too: pages, replies   *)
(* and the last message of a session reach the client in the order they    *)
(* were written.                                                           *)
THEOREM SessionImplementsFifo == DeliverySpec => ImplementsFifo
BY SessionUsesQueue, QueueImplementsFifo

(* What holds of the queue holds of the queue in the session: its count is *)
(* exact, and a shutdown that reports success in time delivered all.       *)
THEOREM SessionKeepsQueue == DeliverySpec => [](HeldExact /\ OkIsDelivered)
BY SessionUsesQueue, ThmHeldExact, ThmOkIsDelivered, PTL

-------------------------------------------------------------------------------
(* Sequences of events, and the numbers of the events in them.             *)

Event == [n : Nat \ {0}, kind : {"pull", "cancel", "edit", "full", "other", "eof"}, of : Nat]

Nums(s) == {s[i].n : i \in DOMAIN s}
Before(s, t) == \A a \in Nums(s), b \in Nums(t) : a < b

\* The first event and those after it.
LEMMA FirstEvent ==
  ASSUME NEW s \in Seq(Event), s # <<>>
  PROVE  /\ Head(s) \in Event /\ Tail(s) \in Seq(Event) /\ Len(Tail(s)) = Len(s) - 1
         /\ Len(s) \in Nat \ {0}
         /\ Nums(s) = Nums(Tail(s)) \union {Head(s).n}
         /\ Increasing(s) => Increasing(Tail(s)) /\ \A b \in Nums(Tail(s)) : Head(s).n < b
<1>1. /\ Head(s) \in Event /\ Tail(s) \in Seq(Event) /\ Len(Tail(s)) = Len(s) - 1
      /\ Len(s) \in Nat \ {0} /\ Head(s) = s[1]
      /\ \A i \in 1 .. Len(s) - 1 : Tail(s)[i] = s[i + 1]
  BY HeadTailProperties, EmptySeq
<1>2. DOMAIN s = 1 .. Len(s) /\ DOMAIN Tail(s) = 1 .. Len(s) - 1
  BY <1>1
<1>3. Nums(s) = Nums(Tail(s)) \union {Head(s).n}
  <2>1. ASSUME NEW i \in 1 .. Len(s) PROVE s[i].n \in Nums(Tail(s)) \union {Head(s).n}
    <3>1. CASE i = 1
      BY <1>1, <3>1
    <3>2. CASE i # 1
      <4>1. i - 1 \in 1 .. Len(s) - 1 /\ Tail(s)[i - 1] = s[i]
        BY <1>1, <3>2
      <4> QED
        BY <1>2, <4>1 DEF Nums
    <3> QED
      BY <3>1, <3>2
  <2>2. ASSUME NEW i \in 1 .. Len(s) - 1 PROVE Tail(s)[i].n \in Nums(s)
    <3>1. i + 1 \in 1 .. Len(s) /\ Tail(s)[i] = s[i + 1]
      BY <1>1
    <3> QED
      BY <1>2, <3>1 DEF Nums
  <2>3. Head(s).n \in Nums(s)
    BY <1>1, <1>2 DEF Nums
  <2> QED
    BY <1>2, <2>1, <2>2, <2>3 DEF Nums
<1>4. ASSUME Increasing(s) PROVE Increasing(Tail(s)) /\ \A b \in Nums(Tail(s)) : Head(s).n < b
  <2>1. \A i, j \in 1 .. Len(s) : i < j => s[i].n < s[j].n
    BY <1>2, <1>4 DEF Increasing
  <2>2. ASSUME NEW i \in 1 .. Len(s) - 1, NEW j \in 1 .. Len(s) - 1, i < j
        PROVE Tail(s)[i].n < Tail(s)[j].n
    <3>1. i + 1 \in 1 .. Len(s) /\ j + 1 \in 1 .. Len(s) /\ i + 1 < j + 1
      BY <1>1, <2>2
    <3> QED
      BY <1>1, <2>1, <3>1
  <2>3. ASSUME NEW i \in 1 .. Len(s) - 1 PROVE Head(s).n < Tail(s)[i].n
    <3>1. i + 1 \in 1 .. Len(s) /\ 1 \in 1 .. Len(s) /\ 1 < i + 1
      BY <1>1
    <3> QED
      BY <1>1, <2>1, <3>1
  <2> QED
    BY <1>2, <2>2, <2>3 DEF Increasing, Nums
<1> QED
  BY <1>1, <1>3, <1>4

\* An event put after others.
LEMMA EventAdded ==
  ASSUME NEW s \in Seq(Event), NEW e \in Event
  PROVE  /\ Append(s, e) \in Seq(Event) /\ Len(Append(s, e)) = Len(s) + 1 /\ Len(s) \in Nat
         /\ Append(s, e) # <<>>
         /\ Nums(Append(s, e)) = Nums(s) \union {e.n}
         /\ (Increasing(s) /\ \A a \in Nums(s) : a < e.n) => Increasing(Append(s, e))
<1>1. /\ Append(s, e) \in Seq(Event) /\ Len(Append(s, e)) = Len(s) + 1 /\ Len(s) \in Nat
      /\ \A i \in 1 .. Len(s) : Append(s, e)[i] = s[i]
      /\ Append(s, e)[Len(s) + 1] = e
  BY AppendProperties, LenProperties
<1>2. DOMAIN s = 1 .. Len(s) /\ DOMAIN Append(s, e) = 1 .. Len(s) + 1
  BY <1>1
<1>3. \A i \in 1 .. Len(s) + 1 : i \in 1 .. Len(s) \/ i = Len(s) + 1
  BY <1>1
<1>4. 1 .. Len(s) \subseteq 1 .. Len(s) + 1 /\ Len(s) + 1 \in 1 .. Len(s) + 1
  BY <1>1
<1>5. Nums(Append(s, e)) = Nums(s) \union {e.n}
  BY <1>1, <1>2, <1>3, <1>4 DEF Nums
<1>6. ASSUME Increasing(s), \A a \in Nums(s) : a < e.n PROVE Increasing(Append(s, e))
  <2>1. \A i, j \in 1 .. Len(s) : i < j => s[i].n < s[j].n
    BY <1>2, <1>6 DEF Increasing
  <2>2. \A i \in 1 .. Len(s) : s[i].n < e.n
    BY <1>2, <1>6 DEF Nums
  <2>3. ASSUME NEW i \in 1 .. Len(s) + 1, NEW j \in 1 .. Len(s) + 1, i < j
        PROVE Append(s, e)[i].n < Append(s, e)[j].n
    <3>1. i \in 1 .. Len(s)
      BY <1>1, <2>3
    <3> QED
      BY <1>1, <1>3, <2>1, <2>2, <2>3, <3>1
  <2> QED
    BY <1>2, <2>3 DEF Increasing
<1>7. Append(s, e) # <<>>
  BY <1>1, EmptySeq
<1> QED
  BY <1>1, <1>5, <1>6, <1>7

\* Two sequences of events, one after the other.
LEMMA EventsJoined ==
  ASSUME NEW s \in Seq(Event), NEW t \in Seq(Event)
  PROVE  /\ s \o t \in Seq(Event) /\ Len(s \o t) = Len(s) + Len(t)
         /\ Len(s) \in Nat /\ Len(t) \in Nat
         /\ Nums(s \o t) = Nums(s) \union Nums(t)
         /\ (Increasing(s) /\ Increasing(t) /\ Before(s, t)) => Increasing(s \o t)
<1>1. /\ s \o t \in Seq(Event) /\ Len(s \o t) = Len(s) + Len(t)
      /\ Len(s) \in Nat /\ Len(t) \in Nat
      /\ \A i \in 1 .. Len(s) + Len(t) :
           (s \o t)[i] = IF i <= Len(s) THEN s[i] ELSE t[i - Len(s)]
  BY ConcatProperties, LenProperties
<1>2. DOMAIN s = 1 .. Len(s) /\ DOMAIN t = 1 .. Len(t) /\ DOMAIN (s \o t) = 1 .. Len(s) + Len(t)
  BY <1>1
<1>3. ASSUME NEW i \in 1 .. Len(s) + Len(t)
      PROVE  \/ i \in 1 .. Len(s) /\ (s \o t)[i] = s[i]
             \/ i - Len(s) \in 1 .. Len(t) /\ i > Len(s) /\ (s \o t)[i] = t[i - Len(s)]
  BY <1>1
<1>4. ASSUME NEW i \in 1 .. Len(s) PROVE i \in 1 .. Len(s) + Len(t) /\ (s \o t)[i] = s[i]
  BY <1>1
<1>5. ASSUME NEW j \in 1 .. Len(t)
      PROVE  j + Len(s) \in 1 .. Len(s) + Len(t) /\ (s \o t)[j + Len(s)] = t[j]
  <2>1. j + Len(s) \in 1 .. Len(s) + Len(t) /\ ~(j + Len(s) <= Len(s)) /\ j + Len(s) - Len(s) = j
    BY <1>1
  <2> QED
    BY <1>1, <2>1
<1>6. Nums(s \o t) = Nums(s) \union Nums(t)
  <2>1. Nums(s \o t) \subseteq Nums(s) \union Nums(t)
    BY <1>2, <1>3 DEF Nums
  <2>2. Nums(s) \subseteq Nums(s \o t) 
    BY <1>2, <1>4 DEF Nums
  <2>3. Nums(t) \subseteq Nums(s \o t)
    BY <1>2, <1>5 DEF Nums
  <2> QED
    BY <2>1, <2>2, <2>3
<1>7. ASSUME Increasing(s), Increasing(t), Before(s, t) PROVE Increasing(s \o t)
  <2>1. \A i, j \in 1 .. Len(s) : i < j => s[i].n < s[j].n
    BY <1>2, <1>7 DEF Increasing
  <2>2. \A i, j \in 1 .. Len(t) : i < j => t[i].n < t[j].n
    BY <1>2, <1>7 DEF Increasing
  <2>3. \A i \in 1 .. Len(s), j \in 1 .. Len(t) : s[i].n < t[j].n
    BY <1>2, <1>7 DEF Before, Nums
  <2>4. ASSUME NEW i \in 1 .. Len(s) + Len(t), NEW j \in 1 .. Len(s) + Len(t), i < j
        PROVE (s \o t)[i].n < (s \o t)[j].n
    <3>1. CASE i \in 1 .. Len(s) /\ j \in 1 .. Len(s)
      BY <1>4, <2>1, <2>4, <3>1
    <3>2. CASE i \in 1 .. Len(s) /\ j \notin 1 .. Len(s)
      BY <1>3, <1>4, <2>3, <3>2
    <3>3. CASE i \notin 1 .. Len(s)
      <4>1. j \notin 1 .. Len(s)
        BY <1>1, <2>4, <3>3
      <4>2. i - Len(s) \in 1 .. Len(t) /\ j - Len(s) \in 1 .. Len(t) /\ i - Len(s) < j - Len(s)
        BY <1>1, <2>4, <3>3, <4>1
      <4>3. (s \o t)[i] = t[i - Len(s)] /\ (s \o t)[j] = t[j - Len(s)]
        BY <1>3, <3>3, <4>1
      <4> QED
        BY <2>2, <4>2, <4>3
    <3> QED
      BY <3>1, <3>2, <3>3
  <2> QED
    BY <1>2, <2>4 DEF Increasing
<1> QED
  BY <1>1, <1>6, <1>7

\* The last event and those before it.
LEMMA LastEvent ==
  ASSUME NEW s \in Seq(Event), s # <<>>
  PROVE  /\ Front(s) \in Seq(Event) /\ Last(s) \in Event /\ Len(Front(s)) = Len(s) - 1
         /\ Len(s) \in Nat \ {0}
         /\ \A i \in DOMAIN Front(s) : i \in DOMAIN s /\ Front(s)[i] = s[i]
         /\ Len(s) \in DOMAIN s /\ Last(s) = s[Len(s)]
         /\ Nums(s) = Nums(Front(s)) \union {Last(s).n}
         /\ Increasing(s) => Increasing(Front(s)) /\ \A a \in Nums(Front(s)) : a < Last(s).n
<1>1. Len(s) \in Nat \ {0} /\ \A i \in 1 .. Len(s) : s[i] \in Event
  BY EmptySeq, LenProperties, ElementOfSeq
<1>2. \A i \in 1 .. Len(s) - 1 : s[i] \in Event
  BY <1>1
<1>3. /\ Front(s) \in Seq(Event)
      /\ Len(Front(s)) = IF 1 <= Len(s) - 1 THEN Len(s) - 1 - 1 + 1 ELSE 0
      /\ \A i \in 1 .. Len(s) - 1 - 1 + 1 : Front(s)[i] = s[1 + i - 1]
  <2>1. 1 \in Int /\ Len(s) - 1 \in Int
    BY <1>1
  <2> QED
    BY <1>2, <2>1, SubSeqProperties DEF Front
<1>4. Len(Front(s)) = Len(s) - 1 /\ \A i \in 1 .. Len(s) - 1 : Front(s)[i] = s[i]
  <2>0. PICK m \in Nat \ {0} : m = Len(s)
    BY <1>1
  <2>1. Len(Front(s)) = Len(s) - 1 /\ Len(s) - 1 - 1 + 1 = Len(s) - 1
    <3>1. (IF 1 <= m - 1 THEN m - 1 - 1 + 1 ELSE 0) = m - 1 /\ m - 1 - 1 + 1 = m - 1
      OBVIOUS
    <3> QED
      BY <1>3, <2>0, <3>1
  <2>2. ASSUME NEW i \in 1 .. Len(s) - 1 PROVE Front(s)[i] = s[i]
    <3>1. 1 + i - 1 = i
      BY <1>1
    <3> QED
      BY <1>3, <2>1, <3>1
  <2> QED
    BY <2>1, <2>2
<1>5. DOMAIN s = 1 .. Len(s) /\ DOMAIN Front(s) = 1 .. Len(s) - 1
  BY <1>3, <1>4
<1>6. Last(s) \in Event /\ Last(s) = s[Len(s)] /\ Len(s) \in 1 .. Len(s)
  BY <1>1 DEF Last
<1>7. \A i \in 1 .. Len(s) : i \in 1 .. Len(s) - 1 \/ i = Len(s)
  BY <1>1
<1>8. \A i \in 1 .. Len(s) - 1 : i \in 1 .. Len(s) /\ i < Len(s)
  BY <1>1
<1>9. Nums(s) = Nums(Front(s)) \union {Last(s).n}
  BY <1>4, <1>5, <1>6, <1>7, <1>8 DEF Nums
<1>10. ASSUME Increasing(s) PROVE Increasing(Front(s)) /\ \A a \in Nums(Front(s)) : a < Last(s).n
  BY <1>4, <1>5, <1>6, <1>8, <1>10 DEF Nums, Increasing
<1> QED
  BY <1>1, <1>3, <1>4, <1>5, <1>6, <1>8, <1>9, <1>10

\* One event taken out of those in order.
LEMMA EventRemoved ==
  ASSUME NEW s \in Seq(Event), NEW i \in DOMAIN s, Increasing(s)
  PROVE  /\ RemoveAt(s, i) \in Seq(Event) /\ Len(RemoveAt(s, i)) = Len(s) - 1 /\ Len(s) \in Nat \ {0}
         /\ s[i] \in Event /\ ToSet(s) \ ToSet(RemoveAt(s, i)) = {s[i]}
         /\ Nums(RemoveAt(s, i)) = Nums(s) \ {s[i].n}
         /\ Increasing(RemoveAt(s, i))
<1> DEFINE r == RemoveAt(s, i)
           u == SubSeq(s, 1, i - 1)
           v == SubSeq(s, i + 1, Len(s))
<1>1. /\ Len(s) \in Nat \ {0} /\ i \in 1 .. Len(s) /\ DOMAIN s = 1 .. Len(s)
      /\ \A j \in 1 .. Len(s) : s[j] \in Event
  BY LenProperties, ElementOfSeq
<1>2. u \in Seq(Event) /\ Len(u) = i - 1 /\ \A j \in 1 .. i - 1 : u[j] = s[j]
  <2>1. 1 \in Int /\ i - 1 \in Int /\ \A j \in 1 .. i - 1 : s[j] \in Event
    BY <1>1
  <2>2. /\ u \in Seq(Event) /\ Len(u) = IF 1 <= i - 1 THEN i - 1 - 1 + 1 ELSE 0
        /\ \A j \in 1 .. i - 1 - 1 + 1 : u[j] = s[1 + j - 1]
    BY <2>1, SubSeqProperties
  <2> QED
    BY <1>1, <2>2
<1>3. v \in Seq(Event) /\ Len(v) = Len(s) - i /\ \A j \in 1 .. Len(s) - i : v[j] = s[i + j]
  <2>1. i + 1 \in Int /\ Len(s) \in Int /\ \A j \in i + 1 .. Len(s) : s[j] \in Event
    BY <1>1
  <2>2. /\ v \in Seq(Event) /\ Len(v) = IF i + 1 <= Len(s) THEN Len(s) - (i + 1) + 1 ELSE 0
        /\ \A j \in 1 .. Len(s) - (i + 1) + 1 : v[j] = s[i + 1 + j - 1]
    BY <2>1, SubSeqProperties
  <2> QED
    BY <1>1, <2>2
<1>4. r = u \o v
  BY DEF RemoveAt
<1> HIDE DEF u, v, r
<1>5. /\ r \in Seq(Event) /\ Len(r) = Len(s) - 1 /\ DOMAIN r = 1 .. Len(s) - 1
      /\ \A j \in 1 .. Len(s) - 1 : r[j] = IF j <= i - 1 THEN u[j] ELSE v[j - (i - 1)]
  <2>1. Len(u) + Len(v) = Len(s) - 1
    BY <1>1, <1>2, <1>3
  <2>2. /\ r \in Seq(Event) /\ Len(r) = Len(u) + Len(v)
        /\ \A j \in 1 .. Len(u) + Len(v) : r[j] = IF j <= Len(u) THEN u[j] ELSE v[j - Len(u)]
    BY <1>2, <1>3, <1>4, ConcatProperties
  <2>3. DOMAIN r = 1 .. Len(r)
    BY <2>2
  <2> QED
    BY <1>2, <2>1, <2>2, <2>3
<1>6. ASSUME NEW j \in 1 .. Len(s) - 1 PROVE r[j] = IF j < i THEN s[j] ELSE s[j + 1]
  <2>1. CASE j < i
    BY <1>1, <1>2, <1>5, <2>1
  <2>2. CASE j >= i
    <3>1. j - (i - 1) \in 1 .. Len(s) - i /\ i + (j - (i - 1)) = j + 1 /\ ~(j <= i - 1)
      BY <1>1, <2>2
    <3>2. v[j - (i - 1)] = s[i + (j - (i - 1))]
      BY <1>3, <3>1
    <3> QED
      BY <1>1, <1>5, <2>2, <3>1, <3>2
  <2> QED
    BY <1>1, <2>1, <2>2
<1>7. \A j, k \in 1 .. Len(s) : j < k => s[j].n < s[k].n
  BY <1>1 DEF Increasing
<1>8. \A j \in 1 .. Len(s) : s[j].n \in Nat
  BY <1>1 DEF Event
<1>9. ASSUME NEW j \in 1 .. Len(s) - 1
      PROVE \E k \in 1 .. Len(s) : k # i /\ r[j] = s[k]
  <2>1. CASE j < i
    BY <1>1, <1>6, <2>1
  <2>2. CASE j >= i
    <3>1. j + 1 \in 1 .. Len(s) /\ j + 1 # i
      BY <1>1, <2>2
    <3> QED
      BY <1>1, <1>6, <2>2, <3>1
  <2> QED
    BY <1>1, <2>1, <2>2
<1>10. ASSUME NEW k \in 1 .. Len(s), k # i
       PROVE \E j \in 1 .. Len(s) - 1 : r[j] = s[k]
  <2>1. CASE k < i
    <3>1. k \in 1 .. Len(s) - 1
      BY <1>1, <2>1
    <3> QED
      BY <1>6, <2>1, <3>1
  <2>2. CASE k > i
    <3>1. k - 1 \in 1 .. Len(s) - 1 /\ ~(k - 1 < i) /\ k - 1 + 1 = k
      BY <1>1, <2>2
    <3> QED
      BY <1>6, <3>1
  <2> QED
    BY <1>1, <1>10, <2>1, <2>2
<1>11. \A k \in 1 .. Len(s) : k # i => s[k].n # s[i].n
  BY <1>1, <1>7, <1>8
<1>12. Nums(r) = Nums(s) \ {s[i].n}
  <2>1. ASSUME NEW j \in 1 .. Len(s) - 1 PROVE r[j].n \in Nums(s) \ {s[i].n}
    BY <1>1, <1>9, <1>11 DEF Nums
  <2>2. ASSUME NEW k \in 1 .. Len(s), s[k].n # s[i].n PROVE s[k].n \in Nums(r)
    BY <1>5, <1>10, <2>2 DEF Nums
  <2> QED
    BY <1>1, <1>5, <2>1, <2>2, SMTT(30) DEF Nums
<1>13. ToSet(s) \ ToSet(r) = {s[i]}
  <2>1. s[i] \in ToSet(s) /\ s[i] \notin ToSet(r)
    BY <1>1, <1>5, <1>9, <1>11, SMTT(30) DEF ToSet
  <2>2. ASSUME NEW k \in 1 .. Len(s), k # i PROVE s[k] \in ToSet(r)
    BY <1>5, <1>10, <2>2 DEF ToSet
  <2> QED
    BY <1>1, <2>1, <2>2 DEF ToSet
<1>14. ASSUME NEW j \in 1 .. Len(s) - 1, NEW k \in 1 .. Len(s) - 1, j < k PROVE r[j].n < r[k].n
  <2>1. j \in 1 .. Len(s) /\ j + 1 \in 1 .. Len(s) /\ k \in 1 .. Len(s) /\ k + 1 \in 1 .. Len(s)
    BY <1>1
  <2>2. CASE k < i
    BY <1>1, <1>6, <1>7, <1>14, <2>1, <2>2
  <2>3. CASE ~(k < i) /\ j < i
    <3>1. j < k + 1
      BY <1>1, <1>14
    <3>2. r[j] = s[j] /\ r[k] = s[k + 1]
      BY <1>6, <2>3
    <3> QED
      BY <1>7, <2>1, <3>1, <3>2
  <2>4. CASE ~(j < i)
    <3>1. j + 1 < k + 1 /\ ~(k < i)
      BY <1>1, <1>14, <2>4
    <3>2. r[j] = s[j + 1] /\ r[k] = s[k + 1]
      BY <1>6, <2>4, <3>1
    <3> QED
      BY <1>7, <2>1, <3>1, <3>2
  <2> QED
    BY <1>1, <1>14, <2>2, <2>3, <2>4
<1>15. Increasing(r)
  BY <1>5, <1>14 DEF Increasing
<1> QED
  BY <1>1, <1>5, <1>12, <1>13, <1>15 DEF r

\* One event by itself.
LEMMA OneEvent ==
  ASSUME NEW e \in Event
  PROVE  /\ <<e>> \in Seq(Event) /\ <<e>> # <<>> /\ DOMAIN <<e>> = {1} /\ <<e>>[1] = e
         /\ Len(<<e>>) = 1 /\ Nums(<<e>>) = {e.n} /\ Increasing(<<e>>)
<1>1. /\ <<e>> \in Seq(Event) /\ <<e>> # <<>> /\ DOMAIN <<e>> = {1} /\ <<e>>[1] = e
      /\ Len(<<e>>) = 1
  OBVIOUS
<1>2. Nums(<<e>>) = {e.n} /\ Increasing(<<e>>)
  BY <1>1 DEF Nums, Increasing
<1> QED
  BY <1>1, <1>2

\* No event; and the numbers of events.
LEMMA NoEvents ==
  /\ Nums(<<>>) = {} /\ Increasing(<<>>) /\ Len(<<>>) = 0
  /\ \A s \in Seq(Event) : Nums(s) \subseteq Nat \ {0} /\ Len(s) \in Nat
<1>1. Nums(<<>>) = {} /\ Increasing(<<>>) /\ Len(<<>>) = 0
  BY DEF Nums, Increasing
<1>2. ASSUME NEW s \in Seq(Event) PROVE Nums(s) \subseteq Nat \ {0} /\ Len(s) \in Nat
  <2>1. ASSUME NEW i \in 1 .. Len(s) PROVE s[i].n \in Nat \ {0}
    <3>1. s[i] \in Event
      BY ElementOfSeq
    <3> QED
      BY <3>1 DEF Event
  <2>2. DOMAIN s = 1 .. Len(s) /\ Len(s) \in Nat
    BY LenProperties
  <2> QED
    BY <2>1, <2>2 DEF Nums
<1> QED
  BY <1>1, <1>2

\* The number of an event of a sequence is one of its numbers.
LEMMA FirstNumber ==
  ASSUME NEW s \in Seq(Event), s # <<>>
  PROVE  s[1] \in Event /\ s[1].n \in Nums(s)
<1>1. 1 \in 1 .. Len(s)
  BY EmptySeq, LenProperties
<1>2. s[1] \in Event
  BY <1>1, ElementOfSeq
<1> QED
  BY <1>1, <1>2 DEF Nums

-------------------------------------------------------------------------------
(* The session's loop: the types of its state, and what holds where it is. *)

Ends == {"Result", "Cancelled", "DeliveryBacklog"}
Answer == [id : Nat \ {0}, message : Ends \union {"page"}]
Streams == [id : Nat \ {0}, pages : Nat, terminal : Ends \union {"Emitted"}]

SessionTypes ==
  /\ loop \in {"top", "coalesce", "dispatch", "leave", "observe", "ask", "asked", "over"}
  /\ incoming \in Seq(Event) /\ inputs \in Seq(Event) /\ deferred \in Seq(Event)
  /\ batch \in Seq(Event) /\ dispatched \in Seq(Event) /\ answers \in Seq(Answer)
  /\ stream \in Streams \union {NoStream}
  /\ dropped \subseteq Event /\ IsFiniteSet(dropped)
  /\ arrived \in Nat /\ lastPull \in Nat /\ unwritten \in Nat

(* Where a stream may be on its way, where a batch is filled, and where    *)
(* messages of a dispatch are left.                                        *)
Phases ==
  /\ loop \in {"coalesce", "dispatch", "leave"} => ~Active
  /\ loop \in {"observe", "ask", "asked"} => Active
  /\ ~Active => deferred = <<>>
  /\ Active => unwritten = 0
  /\ loop \in {"coalesce", "dispatch"} => unwritten = 0 /\ batch # <<>>
  /\ loop = "coalesce" => \A i \in DOMAIN batch : IsChange(batch[i])
  /\ loop \in {"top", "observe", "ask", "asked"} => batch = <<>>

\* A stream whose end is decided early, or sent, has no page left.
NoPageLeft == stream.terminal # "Result" => stream.pages = 0

(* What is kept is bounded, with room for one event more where one may     *)
(* still be added.                                                         *)
Bounded ==
  /\ Len(inputs) + Len(deferred) <= MaxRetained
  /\ loop \in {"coalesce", "observe"} => Len(inputs) + Len(deferred) < MaxRetained

DropsOnly == \A e \in dropped : (e.kind = "cancel" /\ e.of # 0) \/ IsChange(e)

LoopInv == SessionTypes /\ Phases /\ NoPageLeft /\ Bounded /\ DropsOnly

(* The events.  The kept ones are in order, except that a batch may run    *)
(* ahead of the events kept before it; none has a number that was dropped, *)
(* answered or given to the stream; and all that arrived are accounted     *)
(* for.                                                                    *)
DroppedNums == {e.n : e \in dropped}
Used == DroppedNums \union {answers[i].id : i \in DOMAIN answers}
        \union (IF Active THEN {stream.id} ELSE {})

\* Each queue is in the order of arrival, and so are the queues among each other.
InOrder ==
  /\ Increasing(batch) /\ Increasing(inputs) /\ Increasing(deferred) /\ Increasing(incoming)
  /\ Before(inputs, deferred) /\ Before(inputs, incoming) /\ Before(deferred, incoming)
  /\ Before(batch, incoming) /\ Nums(batch) \intersect (Nums(inputs) \union Nums(deferred)) = {}

KeptNums == Nums(batch) \union Nums(inputs) \union Nums(deferred) \union Nums(incoming)

\* A number that was used up is not among the kept ones.
Fresh ==
  /\ KeptNums \union Used \subseteq 1 .. arrived
  /\ KeptNums \intersect Used = {}

Total == Len(dispatched) + Len(batch) + Len(inputs) + Len(deferred) + Len(incoming)
         + Cardinality(dropped)

\* Every number so far is somewhere, and once: there are as many events as numbers.
Accounted ==
  /\ Nums(dispatched) \union KeptNums \union DroppedNums = 1 .. Total
  /\ arrived < MaxEvents => Total = arrived

EventInv == InOrder /\ Fresh /\ Accounted

\* It holds at the start.
LEMMA LoopInit == DeliveryInit => LoopInv
<1> SUFFICES ASSUME DeliveryInit PROVE LoopInv
  OBVIOUS
<1>1. SessionTypes
  BY FS_EmptySet DEF DeliveryInit, SessionTypes
<1>2. Phases /\ NoPageLeft /\ Bounded /\ DropsOnly
  BY DeliveryAssumption
  DEF DeliveryInit, Phases, NoPageLeft, Bounded, DropsOnly, Active, NoStream, MaxRetained,
      DeliveryAssumption
<1> QED
  BY <1>1, <1>2 DEF LoopInv

\* The stream that is on its way is a stream.
LEMMA StreamIsActive ==
  ASSUME SessionTypes PROVE Active <=> stream \in Streams
BY DEF SessionTypes, Active, Streams, NoStream

\* The least index of a set of them is one of them.
LEMMA MinInside == ASSUME NEW T, T \subseteq Nat, T # {} PROVE Min(T) \in T
<1>1. \E x \in T : \A y \in T : x <= y
  BY LeastNat, Zenon
<1> QED
  BY <1>1 DEF Min

\* The bounds of what is kept.
LEMMA Room ==
  /\ Buffered \in Nat \ {0} /\ InputCapacity \in Nat \ {0}
  /\ MaxRetained = Buffered + InputCapacity
BY DeliveryAssumption DEF DeliveryAssumption, MaxRetained

\* What a stream may become while input is observed.
Onward(s, t) ==
  /\ t \in Streams /\ t.id = s.id
  /\ t.terminal # "Result" => t.pages = 0
  /\ t.terminal = "Emitted" <=> s.terminal = "Emitted"
  /\ t.pages \in {0, s.pages}

\* A stream that is ended early is such a stream, without pages.
LEMMA EndedByGoesOn ==
  ASSUME NEW s \in Streams, NEW t \in {"Cancelled", "DeliveryBacklog"},
         s.terminal # "Result" => s.pages = 0
  PROVE  Onward(s, EndedBy(s, t)) /\ EndedBy(s, t).pages = 0
BY DEF Onward, EndedBy, Streams, Ends

\* What the look for the cancellation among the kept events does.
LEMMA AdvanceEffect ==
  ASSUME LoopInv, Increasing(inputs), Advance
  PROVE  /\ stream \in Streams /\ Onward(stream, stream')
         /\ \/ UNCHANGED <<inputs, dropped>>
            \/ \E i \in DOMAIN inputs :
                 /\ inputs' = RemoveAt(inputs, i) /\ dropped' = dropped \union {inputs[i]}
                 /\ Matches(inputs[i]) /\ stream'.pages = 0
         /\ loop' \in {"ask", "observe"}
         /\ loop' = "observe" => ~(Len(inputs') + Len(deferred) >= MaxRetained)
         /\ batch = <<>> /\ unwritten = 0
         /\ UNCHANGED <<vars, inputVars, deferred, batch, unwritten, dispatched, answers>>
<1> DEFINE found == {i \in DOMAIN inputs : Matches(inputs[i])}
           ins == IF found = {} THEN inputs ELSE RemoveAt(inputs, Min(found))
           s == IF found = {} THEN stream ELSE EndedBy(stream, "Cancelled")
<1>1. /\ inputs' = ins /\ dropped' = dropped \union (ToSet(inputs) \ ToSet(ins))
      /\ Full(ins, deferred) => stream' = EndedBy(s, "DeliveryBacklog") /\ loop' = "ask"
      /\ ~Full(ins, deferred) => stream' = s /\ loop' = "observe"
  BY DEF Advance
<1>2. stream \in Streams /\ (stream.terminal # "Result" => stream.pages = 0)
  BY StreamIsActive DEF LoopInv, Advance, NoPageLeft
<1>3. Onward(stream, stream)
  BY <1>2 DEF Onward
<1>4. Onward(stream, s) /\ (found # {} => s.pages = 0)
  BY <1>2, <1>3, EndedByGoesOn
<1>5. s \in Streams /\ (s.terminal # "Result" => s.pages = 0)
  BY <1>4 DEF Onward
<1> HIDE DEF s
<1>6. Onward(s, EndedBy(s, "DeliveryBacklog")) /\ EndedBy(s, "DeliveryBacklog").pages = 0
  BY <1>5, EndedByGoesOn
<1>7. Onward(stream, stream') /\ (found # {} => stream'.pages = 0)
  BY <1>1, <1>4, <1>6 DEF Onward
<1>8. \/ UNCHANGED <<inputs, dropped>>
      \/ \E i \in DOMAIN inputs :
           /\ inputs' = RemoveAt(inputs, i) /\ dropped' = dropped \union {inputs[i]}
           /\ Matches(inputs[i]) /\ stream'.pages = 0
  <2>1. CASE found = {}
    BY <1>1, <2>1
  <2>2. CASE found # {}
    <3>1. found \subseteq Nat
      BY DEF LoopInv, SessionTypes
    <3>2. Min(found) \in found
      <4> HIDE DEF found
      <4> QED
        BY <2>2, <3>1, MinInside
    <3>3. Min(found) \in DOMAIN inputs /\ Matches(inputs[Min(found)])
      BY <3>2
    <3>4. ToSet(inputs) \ ToSet(RemoveAt(inputs, Min(found))) = {inputs[Min(found)]}
      BY <3>3, EventRemoved DEF LoopInv, SessionTypes
    <3>5. inputs' = RemoveAt(inputs, Min(found)) /\ dropped' = dropped \union {inputs[Min(found)]}
      BY <1>1, <2>2, <3>4
    <3> QED
      BY <1>7, <2>2, <3>3, <3>5
  <2> QED
    BY <2>1, <2>2
<1>9. /\ loop' \in {"ask", "observe"}
      /\ loop' = "observe" => ~(Len(inputs') + Len(deferred) >= MaxRetained)
  BY <1>1 DEF Full
<1> QED
  BY <1>2, <1>7, <1>8, <1>9 DEF Advance, AtTop, LoopInv, Phases

\* What taking an event in while a stream is on its way does.
LEMMA ObserveEffect ==
  ASSUME LoopInv, Observe \/ NotIdle
  PROVE  /\ stream \in Streams /\ Onward(stream, stream')
         /\ \/ UNCHANGED <<incoming, inputs, deferred, dropped, stream>>
            \/ /\ incoming # <<>> /\ incoming' = Tail(incoming)
               /\ Matches(Head(incoming)) /\ stream'.pages = 0
               /\ dropped' = dropped \union {Head(incoming)} /\ UNCHANGED <<inputs, deferred>>
            \/ /\ incoming # <<>> /\ incoming' = Tail(incoming) /\ deferred = <<>>
               /\ inputs' = Append(inputs, Head(incoming)) /\ UNCHANGED <<deferred, dropped>>
               /\ Len(inputs) + Len(deferred) < MaxRetained
            \/ /\ incoming # <<>> /\ incoming' = Tail(incoming)
               /\ deferred' = Append(deferred, Head(incoming)) /\ UNCHANGED <<inputs, dropped>>
               /\ Len(inputs) + Len(deferred) < MaxRetained
         /\ loop' \in {"observe", "ask", "top"}
         /\ loop' = "observe" => ~(Len(inputs') + Len(deferred') >= MaxRetained)
         /\ batch = <<>> /\ unwritten = 0
         /\ UNCHANGED <<vars, arrived, lastPull, batch, unwritten, dispatched, answers>>
<1>1. stream \in Streams /\ (stream.terminal # "Result" => stream.pages = 0)
  BY StreamIsActive DEF LoopInv, Phases, Observe, NotIdle, NoPageLeft
<1>2. Onward(stream, stream)
  BY <1>1 DEF Onward
<1>3. /\ Onward(stream, EndedBy(stream, "Cancelled")) /\ EndedBy(stream, "Cancelled").pages = 0
      /\ Onward(stream, EndedBy(stream, "DeliveryBacklog"))
  BY <1>1, EndedByGoesOn
<1>4. /\ batch = <<>> /\ unwritten = 0
      /\ UNCHANGED <<vars, arrived, lastPull, batch, unwritten, dispatched, answers>>
  BY DEF LoopInv, Phases, Observe, NotIdle
<1>5. Len(inputs) \in Nat /\ Len(deferred) \in Nat
  BY LenProperties DEF LoopInv, SessionTypes
<1>6. CASE Observe
  <2> DEFINE first == deferred = <<>> /\ Len(inputs) < Buffered
             ins == IF first THEN Append(inputs, Head(incoming)) ELSE inputs
             defs == IF first THEN deferred ELSE Append(deferred, Head(incoming))
  <2>1. /\ incoming # <<>> /\ incoming' = Tail(incoming)
        /\ Matches(Head(incoming)) =>
             /\ stream' = EndedBy(stream, "Cancelled")
             /\ dropped' = dropped \union {Head(incoming)} /\ loop' = "ask"
             /\ UNCHANGED <<inputs, deferred>>
        /\ ~Matches(Head(incoming)) =>
             /\ inputs' = ins /\ deferred' = defs /\ UNCHANGED dropped
             /\ Full(ins, defs) => stream' = EndedBy(stream, "DeliveryBacklog") /\ loop' = "ask"
             /\ ~Full(ins, defs) => UNCHANGED <<stream, loop>>
    BY <1>6 DEF Observe
  <2>2. Len(inputs) + Len(deferred) < MaxRetained /\ loop = "observe"
    BY <1>6 DEF LoopInv, Bounded, Observe
  <2>3. CASE Matches(Head(incoming))
    BY <1>1, <1>3, <1>4, <2>1, <2>3
  <2>4. CASE ~Matches(Head(incoming))
    <3>1. Onward(stream, stream') /\ loop' \in {"observe", "ask", "top"}
      BY <1>2, <1>3, <2>1, <2>2, <2>4
    <3>2. loop' = "observe" => ~(Len(inputs') + Len(deferred') >= MaxRetained)
      BY <2>1, <2>4 DEF Full
    <3>3. \/ /\ deferred = <<>> /\ inputs' = Append(inputs, Head(incoming))
             /\ UNCHANGED <<deferred, dropped>>
          \/ /\ deferred' = Append(deferred, Head(incoming)) /\ UNCHANGED <<inputs, dropped>>
      BY <2>1, <2>4
    <3> QED
      BY <1>1, <1>4, <2>1, <2>2, <3>1, <3>2, <3>3
  <2> QED
    BY <2>3, <2>4
<1>7. CASE NotIdle
  <2>1. loop' = "top" /\ UNCHANGED deferred
    BY <1>7 DEF NotIdle
  <2>2. CASE UNCHANGED <<incoming, inputs, stream, dropped>>
    BY <1>1, <1>2, <1>4, <2>1, <2>2
  <2>3. CASE /\ Len(inputs) < Buffered /\ deferred = <<>> /\ incoming # <<>>
             /\ incoming' = Tail(incoming) /\ Matches(Head(incoming))
             /\ stream' = EndedBy(stream, "Cancelled")
             /\ dropped' = dropped \union {Head(incoming)} /\ UNCHANGED inputs
    BY <1>1, <1>3, <1>4, <2>1, <2>3
  <2>4. CASE /\ Len(inputs) < Buffered /\ deferred = <<>> /\ incoming # <<>>
             /\ incoming' = Tail(incoming)
             /\ inputs' = Append(inputs, Head(incoming)) /\ UNCHANGED <<stream, dropped>>
    <3>1. Len(inputs) + Len(deferred) < MaxRetained
      BY <1>5, <2>4, Room
    <3> QED
      BY <1>1, <1>2, <1>4, <2>1, <2>4, <3>1
  <2> QED
    BY <1>7, <2>2, <2>3, <2>4 DEF NotIdle
<1> QED
  BY <1>6, <1>7

\* What the next message of a stream does: a page, or the end.
LEMMA NextMessageEffect ==
  ASSUME LoopInv, NextMessage
  PROVE  /\ Active /\ stream \in Streams /\ stream.terminal # "Emitted"
         /\ Active' /\ stream' \in Streams /\ stream'.id = stream.id
         /\ \E a \in Answer :
              /\ a.id = stream.id /\ answers' = Append(answers, a)
              /\ \/ /\ a.message = "page" /\ stream.pages # 0
                    /\ stream'.terminal = "Result" /\ stream.terminal = "Result"
                 \/ /\ a.message # "page" /\ stream'.terminal = "Emitted"
                    /\ stream.pages = 0 /\ stream'.pages = 0
         /\ batch = <<>> /\ loop' = "top"
         /\ UNCHANGED <<incoming, arrived, lastPull, inputs, deferred, batch, unwritten, dispatched,
                        dropped>>
<1>1. Active /\ stream \in Streams /\ batch = <<>> /\ stream.terminal # "Emitted"
  BY StreamIsActive DEF NextMessage, LoopInv, Phases
<1>2. \A t \in Streams : t # NoStream
  BY DEF Streams, NoStream
<1>3. /\ loop' = "top"
      /\ UNCHANGED <<incoming, arrived, lastPull, inputs, deferred, batch, unwritten, dispatched,
                     dropped>>
  BY DEF NextMessage, inputVars
<1>4. CASE stream.pages > 0
  <2>1. /\ stream' = [stream EXCEPT !.pages = stream.pages - 1]
        /\ answers' = Append(answers, [id |-> stream.id, message |-> "page"])
    BY <1>4 DEF NextMessage
  <2>2. /\ stream' \in Streams /\ stream'.id = stream.id /\ stream.pages # 0
        /\ stream'.terminal = "Result" /\ stream.terminal = "Result"
    BY <1>1, <1>4, <2>1 DEF Streams, LoopInv, NoPageLeft
  <2>3. [id |-> stream.id, message |-> "page"] \in Answer
    BY <1>1 DEF Answer, Streams
  <2> QED
    BY <1>1, <1>2, <1>3, <2>1, <2>2, <2>3 DEF Active
<1>5. CASE ~(stream.pages > 0)
  <2>1. /\ stream' = [stream EXCEPT !.terminal = "Emitted"]
        /\ answers' = Append(answers, [id |-> stream.id, message |-> stream.terminal])
    BY <1>5 DEF NextMessage
  <2>2. /\ stream' \in Streams /\ stream'.id = stream.id /\ stream.pages = 0 /\ stream'.pages = 0
        /\ stream'.terminal = "Emitted"
    BY <1>1, <1>5, <2>1 DEF Streams
  <2>3. [id |-> stream.id, message |-> stream.terminal] \in Answer /\ stream.terminal # "page"
    BY <1>1 DEF Answer, Streams, Ends
  <2> QED
    BY <1>1, <1>2, <1>3, <2>1, <2>2, <2>3 DEF Active
<1> QED
  BY <1>4, <1>5

\* Every step of the session keeps it.
LEMMA LoopStep == LoopInv /\ InOrder /\ [DeliveryNext]_deliveryVars => LoopInv'
<1> SUFFICES ASSUME LoopInv, InOrder, [DeliveryNext]_deliveryVars PROVE LoopInv'
  OBVIOUS
<1> USE DEF LoopInv
<1>a. /\ Buffered \in Nat \ {0} /\ InputCapacity \in Nat \ {0}
      /\ Len(inputs) \in Nat /\ Len(deferred) \in Nat
  BY Room, LenProperties DEF SessionTypes
<1>s. /\ Active <=> stream \in Streams
      /\ Active <=> stream # NoStream
  BY StreamIsActive DEF Active
<1>1. ASSUME NEW k \in Kinds, Arrive(k) PROVE LoopInv'
  <2> DEFINE e == [n |-> arrived + 1, kind |-> k, of |-> IF k = "cancel" THEN lastPull ELSE 0]
  <2>1. e \in Event
    BY DeliveryAssumption, SMTT(30) DEF DeliveryAssumption, Event, SessionTypes
  <2>2. incoming' = Append(incoming, e) /\ UNCHANGED loopVars
    BY <1>1 DEF Arrive
  <2>3. incoming' \in Seq(Event)
    BY <2>1, <2>2, AppendProperties DEF SessionTypes
  <2>4. arrived' \in Nat /\ lastPull' \in Nat
    BY <1>1, DeliveryAssumption DEF Arrive, DeliveryAssumption, SessionTypes
  <2> QED
    BY <2>2, <2>3, <2>4 DEF SessionTypes, Phases, NoPageLeft, Bounded, DropsOnly, loopVars, Active
<1>2. CASE TakeEvent
  <2>1. CASE inputs # <<>> /\ batch' = <<Head(inputs)>> /\ inputs' = Tail(inputs)
             /\ UNCHANGED incoming
    <3>1. Head(inputs) \in Event /\ Tail(inputs) \in Seq(Event) /\ Len(Tail(inputs)) = Len(inputs) - 1
      BY <2>1, FirstEvent DEF SessionTypes
    <3>2. batch' \in Seq(Event) /\ batch' # <<>> /\ DOMAIN batch' = {1}
      BY <2>1, <3>1, OneEvent, SMTT(30)
    <3>3. SessionTypes'
      BY <1>2, <2>1, <3>1, <3>2 DEF TakeEvent, SessionTypes
    <3>4. Phases'
      BY <1>2, <2>1, <3>2 DEF TakeEvent, AtTop, Phases, Active
    <3>5. NoPageLeft' /\ DropsOnly'
      BY <1>2, SMTT(30) DEF TakeEvent, NoPageLeft, DropsOnly
    <3>6. Len(inputs') = Len(inputs) - 1 /\ deferred' = deferred
      BY <1>2, <2>1, <3>1 DEF TakeEvent
    <3>7. Bounded'
      BY <1>a, <3>6 DEF Bounded, MaxRetained
    <3> QED
      BY <3>3, <3>4, <3>5, <3>7
  <2>2. CASE inputs = <<>> /\ incoming # <<>> /\ batch' = <<Head(incoming)>>
             /\ incoming' = Tail(incoming) /\ UNCHANGED inputs
    <3>1. Head(incoming) \in Event /\ Tail(incoming) \in Seq(Event)
      BY <2>2, FirstEvent DEF SessionTypes
    <3>2. batch' \in Seq(Event) /\ batch' # <<>> /\ DOMAIN batch' = {1}
      BY <2>2, <3>1, OneEvent
    <3>3. SessionTypes'
      BY <1>2, <2>2, <3>1, <3>2 DEF TakeEvent, SessionTypes
    <3>4. Phases'
      BY <1>2, <2>2, <3>2 DEF TakeEvent, AtTop, Phases, Active
    <3>5. NoPageLeft' /\ DropsOnly'
      BY <1>2 DEF TakeEvent, NoPageLeft, DropsOnly
    <3>6. Len(inputs) = 0 /\ Len(deferred) = 0
      BY <1>2, <2>2 DEF TakeEvent, Phases
    <3>7. Bounded'
      BY <1>a, <1>2, <2>2, <3>6 DEF TakeEvent, Bounded, MaxRetained
    <3> QED
      BY <3>3, <3>4, <3>5, <3>7
  <2> QED
    BY <1>2, <2>1, <2>2 DEF TakeEvent
<1>3. CASE Coalesce
  <2>1. batch # <<>> /\ incoming # <<>> /\ incoming' = Tail(incoming)
    BY <1>3 DEF Coalesce, Phases
  <2>2. Head(incoming) \in Event /\ Tail(incoming) \in Seq(Event) /\ IsChange(Head(incoming))
    BY <1>3, <2>1, FirstEvent DEF Coalesce, SessionTypes
  <2>3. PICK b \in Seq(Event) : /\ batch' = Append(b, Head(incoming))
                                /\ \A i \in DOMAIN b : IsChange(b[i])
    <3>1. CASE batch' = Append(batch, Head(incoming))
      BY <1>3, <3>1 DEF Coalesce, Phases, SessionTypes
    <3>2. CASE batch' = Append(Front(batch), Head(incoming))
      <4>1. Front(batch) \in Seq(Event) /\ \A i \in DOMAIN Front(batch) : IsChange(Front(batch)[i])
        BY <1>3, <2>1, LastEvent DEF Coalesce, Phases, SessionTypes
      <4> QED
        BY <3>2, <4>1
    <3> QED
      BY <1>3, <3>1, <3>2 DEF Coalesce
  <2>4. /\ batch' \in Seq(Event) /\ batch' # <<>>
        /\ \A i \in DOMAIN batch' : IsChange(batch'[i])
    <3>1. /\ Append(b, Head(incoming)) \in Seq(Event) /\ Append(b, Head(incoming)) # <<>>
          /\ DOMAIN b = 1 .. Len(b) /\ DOMAIN Append(b, Head(incoming)) = 1 .. Len(b) + 1
          /\ Len(b) \in Nat
          /\ \A i \in 1 .. Len(b) : Append(b, Head(incoming))[i] = b[i]
          /\ Append(b, Head(incoming))[Len(b) + 1] = Head(incoming)
      BY <2>2, AppendProperties, LenProperties
    <3>2. ASSUME NEW i \in 1 .. Len(b) + 1 PROVE IsChange(Append(b, Head(incoming))[i])
      <4>1. i \in 1 .. Len(b) \/ i = Len(b) + 1
        BY <3>1
      <4> QED
        BY <2>2, <2>3, <3>1, <4>1
    <3> QED
      BY <2>3, <3>1, <3>2
  <2>5. PICK d \in Event : (dropped' = dropped \/ dropped' = dropped \union {d}) /\ IsChange(d)
    <3>1. Last(batch) \in Event /\ IsChange(Last(batch))
      BY <1>3, <2>1, LastEvent DEF Coalesce, Phases, SessionTypes
    <3> QED
      BY <1>3, <3>1 DEF Coalesce
  <2>6. dropped' \subseteq Event /\ IsFiniteSet(dropped')
    <3>1. dropped \subseteq Event /\ IsFiniteSet(dropped)
      BY DEF SessionTypes
    <3>2. IsFiniteSet(dropped \union {d})
      BY <3>1, FS_AddElement
    <3> QED
      BY <2>5, <3>1, <3>2
  <2>7. SessionTypes'
    BY <1>3, <2>1, <2>2, <2>4, <2>6 DEF Coalesce, SessionTypes
  <2>8. Phases'
    BY <1>3, <2>4 DEF Coalesce, Phases, Active
  <2>9. NoPageLeft' /\ Bounded'
    BY <1>3 DEF Coalesce, NoPageLeft, Bounded
  <2>10. DropsOnly'
    BY <2>5 DEF DropsOnly
  <2> QED
    BY <2>7, <2>8, <2>9, <2>10
<1>4. CASE CoalesceStops
  <2>1. Head(incoming) \in Event /\ Tail(incoming) \in Seq(Event)
    BY <1>4, FirstEvent DEF CoalesceStops, SessionTypes
  <2>2. inputs' \in Seq(Event) /\ Len(inputs') = Len(inputs) + 1
    BY <1>4, <2>1, AppendProperties DEF CoalesceStops, SessionTypes
  <2>3. SessionTypes'
    BY <1>4, <2>1, <2>2 DEF CoalesceStops, SessionTypes
  <2>4. Phases' /\ NoPageLeft' /\ DropsOnly'
    BY <1>4 DEF CoalesceStops, Phases, Active, NoPageLeft, DropsOnly
  <2>5. Bounded'
    BY <1>a, <1>4, <2>2 DEF CoalesceStops, Bounded, MaxRetained
  <2> QED
    BY <2>3, <2>4, <2>5
<1>5. CASE CoalesceEnds
  BY <1>5
  DEF CoalesceEnds, inputVars, SessionTypes, Phases, Active, NoPageLeft, DropsOnly, Bounded
<1>6. CASE Dispatch
  <2>1. dispatched' \in Seq(Event) /\ batch' \in Seq(Event) /\ batch' = <<>>
    BY <1>6, ConcatProperties DEF Dispatch, SessionTypes
  <2>2. unwritten' \in Nat
    BY <1>6, DeliveryAssumption DEF Dispatch, DeliveryAssumption
  <2>3. SessionTypes'
    BY <1>6, <2>1, <2>2 DEF Dispatch, inputVars, SessionTypes
  <2>4. Phases' /\ NoPageLeft' /\ DropsOnly' /\ Bounded'
    BY <1>6 DEF Dispatch, Phases, Active, NoPageLeft, DropsOnly, Bounded
  <2> QED
    BY <2>3, <2>4
<1>7. CASE DispatchPull
  <2>1. dispatched' \in Seq(Event) /\ batch' \in Seq(Event) /\ batch' = <<>> /\ loop' = "top"
    BY <1>7, ConcatProperties DEF DispatchPull, SessionTypes
  <2>2. batch[1] \in Event /\ batch[1].n \in Nat \ {0}
    <3>1. 1 \in 1 .. Len(batch)
      BY <1>7, EmptySeq, LenProperties DEF DispatchPull, Phases, SessionTypes
    <3>2. batch[1] \in Event
      BY <3>1, ElementOfSeq DEF SessionTypes
    <3> QED
      BY <3>2 DEF Event
  <2>3. ~Active /\ unwritten = 0 /\ deferred = <<>>
    BY <1>7 DEF DispatchPull, Phases
  <2>4. CASE /\ unwritten' = 1
             /\ answers' = Append(answers, [id |-> batch[1].n, message |-> "Result"])
             /\ UNCHANGED stream
    <3>1. answers' \in Seq(Answer)
      <4>1. [id |-> batch[1].n, message |-> "Result"] \in Answer
        BY <2>2 DEF Answer, Ends
      <4> QED
        BY <2>4, <4>1, AppendProperties DEF SessionTypes
    <3>2. SessionTypes'
      BY <1>7, <2>1, <2>4, <3>1 DEF DispatchPull, inputVars, SessionTypes
    <3> QED
      BY <1>7, <2>1, <2>3, <2>4, <3>2
      DEF DispatchPull, Phases, Active, NoPageLeft, DropsOnly, Bounded
  <2>5. CASE /\ \E p \in 1 .. MaxPages :
                  stream' = [id |-> batch[1].n, pages |-> p, terminal |-> "Result"]
             /\ UNCHANGED <<unwritten, answers>>
    <3>1. stream' \in Streams /\ stream'.terminal = "Result"
      BY <2>2, <2>5, DeliveryAssumption DEF DeliveryAssumption, Streams, Ends
    <3>2. SessionTypes'
      BY <1>7, <2>1, <2>5, <3>1 DEF DispatchPull, inputVars, SessionTypes
    <3> QED
      BY <1>7, <2>1, <2>3, <2>5, <3>1, <3>2
      DEF DispatchPull, Phases, Active, NoPageLeft, DropsOnly, Bounded
  <2> QED
    BY <1>7, <2>4, <2>5 DEF DispatchPull
<1>8. CASE Reply
  <2>1. unwritten' \in Nat /\ unwritten # 0
    BY <1>8 DEF Reply, SessionTypes
  <2> QED
    BY <1>8, <2>1 DEF Reply, inputVars, SessionTypes, Phases, Active, NoPageLeft, DropsOnly, Bounded
<1>9. CASE LastMessage \/ Leave \/ ObserveEnds \/ Ask
  <2>1. /\ loop' \in {"leave", "over", "ask", "asked"}
        /\ loop' = "leave" => ~Active
        /\ loop' \in {"ask", "asked"} => Active /\ batch = <<>>
        /\ UNCHANGED <<inputVars, inputs, deferred, stream, batch, unwritten, dispatched, dropped,
                       answers>>
    BY <1>9 DEF LastMessage, Leave, ObserveEnds, Ask, Phases
  <2> QED
    BY <2>1 DEF inputVars, SessionTypes, Phases, Active, NoPageLeft, DropsOnly, Bounded
<1>10. CASE Advance
  <2>1. /\ stream \in Streams /\ Onward(stream, stream')
        /\ \/ UNCHANGED <<inputs, dropped>>
           \/ \E i \in DOMAIN inputs :
                /\ inputs' = RemoveAt(inputs, i) /\ dropped' = dropped \union {inputs[i]}
                /\ Matches(inputs[i])
        /\ loop' \in {"ask", "observe"}
        /\ loop' = "observe" => ~(Len(inputs') + Len(deferred) >= MaxRetained)
        /\ batch = <<>> /\ unwritten = 0
        /\ UNCHANGED <<inputVars, deferred, batch, unwritten, dispatched, answers>>
    BY <1>10, AdvanceEffect DEF InOrder
  <2>2. /\ stream' \in Streams /\ stream' # NoStream
        /\ stream'.terminal # "Result" => stream'.pages = 0
    BY <2>1 DEF Onward, Streams, NoStream
  <2>3. /\ inputs' \in Seq(Event) /\ Len(inputs') \in Nat /\ Len(inputs') <= Len(inputs)
        /\ dropped' \subseteq Event /\ IsFiniteSet(dropped') /\ DropsOnly'
    <3>1. CASE UNCHANGED <<inputs, dropped>>
      BY <1>a, <3>1 DEF SessionTypes, DropsOnly
    <3>2. ASSUME NEW i \in DOMAIN inputs, Matches(inputs[i]), inputs' = RemoveAt(inputs, i),
                 dropped' = dropped \union {inputs[i]}
          PROVE  /\ inputs' \in Seq(Event) /\ Len(inputs') \in Nat /\ Len(inputs') <= Len(inputs)
                 /\ dropped' \subseteq Event /\ IsFiniteSet(dropped') /\ DropsOnly'
      <4>1. /\ RemoveAt(inputs, i) \in Seq(Event) /\ Len(RemoveAt(inputs, i)) = Len(inputs) - 1
            /\ Len(inputs) \in Nat \ {0} /\ inputs[i] \in Event
        BY EventRemoved DEF SessionTypes, InOrder
      <4>2. dropped' \subseteq Event /\ IsFiniteSet(dropped')
        BY <3>2, <4>1, FS_AddElement DEF SessionTypes
      <4>3. inputs[i].kind = "cancel" /\ inputs[i].of # 0
        BY <2>1, <3>2 DEF Matches, Streams
      <4>4. DropsOnly'
        BY <3>2, <4>3 DEF DropsOnly
      <4> QED
        BY <3>2, <4>1, <4>2, <4>4
    <3> QED
      BY <2>1, <3>1, <3>2
  <2>4. SessionTypes'
    BY <2>1, <2>2, <2>3 DEF SessionTypes, inputVars
  <2>5. Phases' /\ NoPageLeft'
    BY <2>1, <2>2 DEF Phases, Active, NoPageLeft
  <2>6. Bounded'
    BY <1>a, <2>1, <2>3 DEF Bounded, MaxRetained
  <2> QED
    BY <2>3, <2>4, <2>5, <2>6
<1>11. CASE Observe \/ NotIdle
  <2>1. /\ stream \in Streams /\ Onward(stream, stream')
        /\ loop' \in {"observe", "ask", "top"}
        /\ loop' = "observe" => ~(Len(inputs') + Len(deferred') >= MaxRetained)
        /\ batch = <<>> /\ unwritten = 0
        /\ UNCHANGED <<arrived, lastPull, batch, unwritten, dispatched, answers>>
    BY <1>11, ObserveEffect
  <2>2. /\ stream' \in Streams /\ stream' # NoStream
        /\ stream'.terminal # "Result" => stream'.pages = 0
    BY <2>1 DEF Onward, Streams, NoStream
  <2> DEFINE Goal == /\ incoming' \in Seq(Event) /\ inputs' \in Seq(Event) /\ deferred' \in Seq(Event)
                     /\ Len(inputs') \in Nat /\ Len(deferred') \in Nat
                     /\ Len(inputs') + Len(deferred') <= MaxRetained
                     /\ dropped' \subseteq Event /\ IsFiniteSet(dropped') /\ DropsOnly'
  <2>3. ASSUME UNCHANGED <<incoming, inputs, deferred, dropped, stream>> PROVE Goal
    BY <1>a, <2>3 DEF SessionTypes, DropsOnly, Bounded
  <2>4. ASSUME incoming # <<>> PROVE Head(incoming) \in Event /\ Tail(incoming) \in Seq(Event)
    BY <2>4, FirstEvent DEF SessionTypes
  <2>5. ASSUME incoming # <<>>, incoming' = Tail(incoming),
               Matches(Head(incoming)), stream'.pages = 0,
               dropped' = dropped \union {Head(incoming)}, UNCHANGED <<inputs, deferred>>
        PROVE  Goal
    <3>1. dropped' \subseteq Event /\ IsFiniteSet(dropped')
      BY <2>4, <2>5, FS_AddElement DEF SessionTypes
    <3>2. Head(incoming).kind = "cancel" /\ Head(incoming).of # 0
      BY <2>1, <2>5 DEF Matches, Streams
    <3>3. DropsOnly'
      BY <2>5, <3>2 DEF DropsOnly
    <3> QED
      BY <1>a, <2>4, <2>5, <3>1, <3>3 DEF SessionTypes, Bounded
  <2>6. ASSUME incoming # <<>>, incoming' = Tail(incoming), deferred = <<>>,
               inputs' = Append(inputs, Head(incoming)), UNCHANGED <<deferred, dropped>>,
               Len(inputs) + Len(deferred) < MaxRetained
        PROVE  Goal
    <3>1. inputs' \in Seq(Event) /\ Len(inputs') = Len(inputs) + 1
      BY <2>4, <2>6, AppendProperties DEF SessionTypes
    <3> QED
      BY <1>a, Room, <2>4, <2>6, <3>1 DEF SessionTypes, DropsOnly
  <2>7. ASSUME incoming # <<>>, incoming' = Tail(incoming),
               deferred' = Append(deferred, Head(incoming)), UNCHANGED <<inputs, dropped>>,
               Len(inputs) + Len(deferred) < MaxRetained
        PROVE  Goal
    <3>1. deferred' \in Seq(Event) /\ Len(deferred') = Len(deferred) + 1
      BY <2>4, <2>7, AppendProperties DEF SessionTypes
    <3> QED
      BY <1>a, Room, <2>4, <2>7, <3>1 DEF SessionTypes, DropsOnly
  <2>8. Goal
    <3> HIDE DEF Goal
    <3> QED
      BY <1>11, <2>3, <2>5, <2>6, <2>7, ObserveEffect
  <2>9. SessionTypes'
    BY <2>1, <2>2, <2>8 DEF SessionTypes
  <2>10. Phases' /\ NoPageLeft'
    BY <2>1, <2>2 DEF Phases, Active, NoPageLeft
  <2>11. Bounded'
    BY <1>a, <2>1, <2>8 DEF Bounded, MaxRetained
  <2> QED
    BY <2>8, <2>9, <2>10, <2>11
<1>12. CASE NextMessage
  <2>1. /\ Active /\ Active' /\ stream' \in Streams
        /\ stream'.terminal # "Result" => stream'.pages = 0
        /\ \E a \in Answer : answers' = Append(answers, a)
        /\ batch = <<>> /\ loop' = "top"
        /\ UNCHANGED <<incoming, arrived, lastPull, inputs, deferred, batch, unwritten, dispatched,
                       dropped>>
    BY <1>12, NextMessageEffect
  <2>2. answers' \in Seq(Answer)
    BY <2>1, AppendProperties DEF SessionTypes
  <2>3. SessionTypes'
    BY <2>1, <2>2 DEF SessionTypes
  <2>4. Phases' /\ NoPageLeft' /\ DropsOnly' /\ Bounded'
    BY <2>1 DEF Phases, NoPageLeft, DropsOnly, Bounded
  <2> QED
    BY <2>3, <2>4
<1>13. CASE EndStream
  <2>1. /\ inputs' = inputs \o deferred /\ deferred' = <<>> /\ loop' = "top" /\ stream' = NoStream
        /\ UNCHANGED <<incoming, arrived, lastPull, batch, unwritten, dispatched, dropped, answers>>
    BY <1>13 DEF EndStream, inputVars
  <2>2. inputs \o deferred \in Seq(Event) /\ Len(inputs \o deferred) = Len(inputs) + Len(deferred)
    BY ConcatProperties DEF SessionTypes
  <2>3. <<>> \in Seq(Event) /\ Len(<<>>) = 0
    OBVIOUS
  <2>4. SessionTypes'
    BY <2>1, <2>2, <2>3 DEF SessionTypes
  <2>5. Phases' /\ NoPageLeft' /\ DropsOnly'
    <3>1. batch = <<>>
      BY <1>13 DEF EndStream, Phases
    <3>2. Phases'
      BY <2>1, <3>1 DEF Phases, Active
    <3> QED
      BY <2>1, <3>2 DEF NoPageLeft, NoStream, DropsOnly
  <2>6. Bounded'
    BY <1>a, <2>1, <2>2, <2>3 DEF Bounded, MaxRetained
  <2> QED
    BY <2>4, <2>5, <2>6
<1>15. CASE Queue \/ Waits \/ UNCHANGED deliveryVars
  <2>1. UNCHANGED <<inputVars, loopVars>>
    BY <1>15 DEF Queue, Waits, deliveryVars
  <2> QED
    BY <2>1 DEF inputVars, loopVars, SessionTypes, Phases, Active, NoPageLeft, DropsOnly, Bounded
<1> QED
  BY <1>1, <1>2, <1>3, <1>4, <1>5, <1>6, <1>7, <1>8, <1>9, <1>10, <1>11, <1>12, <1>13, <1>15
  DEF DeliveryNext, Loop

-------------------------------------------------------------------------------
(* The events, step by step.                                               *)

\* An answer put after others.
LEMMA AnswerAdded ==
  ASSUME NEW s \in Seq(Answer), NEW a \in Answer
  PROVE  /\ DOMAIN s = 1 .. Len(s) /\ Len(s) \in Nat
         /\ DOMAIN Append(s, a) = DOMAIN s \union {Len(s) + 1}
         /\ \A i \in DOMAIN s : Append(s, a)[i] = s[i] /\ i < Len(s) + 1
         /\ Append(s, a)[Len(s) + 1] = a
         /\ {Append(s, a)[i].id : i \in DOMAIN Append(s, a)} = {s[i].id : i \in DOMAIN s} \union {a.id}
<1>1. /\ DOMAIN s = 1 .. Len(s) /\ Len(s) \in Nat /\ DOMAIN Append(s, a) = 1 .. Len(s) + 1
      /\ \A i \in 1 .. Len(s) : Append(s, a)[i] = s[i]
      /\ Append(s, a)[Len(s) + 1] = a
  BY AppendProperties, LenProperties
<1>2. 1 .. Len(s) + 1 = 1 .. Len(s) \union {Len(s) + 1} /\ \A i \in 1 .. Len(s) : i < Len(s) + 1
  BY <1>1
<1>3. {Append(s, a)[i].id : i \in DOMAIN Append(s, a)} = {s[i].id : i \in DOMAIN s} \union {a.id}
  BY <1>1, <1>2
<1> QED
  BY <1>1, <1>2, <1>3

\* It holds at the start.
LEMMA EventsInit == DeliveryInit => EventInv
<1> SUFFICES ASSUME DeliveryInit PROVE EventInv
  OBVIOUS
<1> USE DEF DeliveryInit
<1>1. /\ Nums(batch) = {} /\ Nums(inputs) = {} /\ Nums(deferred) = {} /\ Nums(incoming) = {}
      /\ Nums(dispatched) = {} /\ KeptNums = {} /\ DroppedNums = {} /\ Used = {}
  BY NoEvents DEF KeptNums, DroppedNums, Used, Active
<1>2. Total = 0
  BY NoEvents, FS_EmptySet DEF Total
<1>3. InOrder
  BY <1>1, NoEvents DEF InOrder, Before
<1> QED
  BY <1>1, <1>2, <1>3 DEF EventInv, Fresh, Accounted

\* Every step of the session keeps it.
LEMMA EventsStep == LoopInv /\ EventInv /\ [DeliveryNext]_deliveryVars => EventInv'
<1> SUFFICES ASSUME LoopInv, EventInv, [DeliveryNext]_deliveryVars PROVE EventInv'
  OBVIOUS
<1>t. /\ incoming \in Seq(Event) /\ inputs \in Seq(Event) /\ deferred \in Seq(Event)
      /\ batch \in Seq(Event) /\ dispatched \in Seq(Event) /\ answers \in Seq(Answer)
      /\ IsFiniteSet(dropped) /\ arrived \in Nat
  BY DEF LoopInv, SessionTypes
<1>n. /\ Nums(incoming) \subseteq Nat /\ Nums(inputs) \subseteq Nat /\ Nums(deferred) \subseteq Nat
      /\ Nums(batch) \subseteq Nat /\ Nums(dispatched) \subseteq Nat
      /\ Len(incoming) \in Nat /\ Len(inputs) \in Nat /\ Len(deferred) \in Nat
      /\ Len(batch) \in Nat /\ Len(dispatched) \in Nat /\ Cardinality(dropped) \in Nat
  BY <1>t, NoEvents, FS_CardinalityType
<1>e. InOrder /\ Fresh /\ Accounted
  BY DEF EventInv
<1>k. ASSUME Nums(dispatched') \union KeptNums' \union DroppedNums'
               = Nums(dispatched) \union KeptNums \union DroppedNums,
             Total' = Total, arrived' = arrived
      PROVE  Accounted'
  BY <1>e, <1>k DEF Accounted
<1>f. ASSUME KeptNums' \union Used' \subseteq KeptNums \union Used, arrived' = arrived,
             KeptNums' \intersect Used' = {}
      PROVE  Fresh'
  BY <1>e, <1>f DEF Fresh
<1>u. ASSUME UNCHANGED answers, stream' = stream \/ (Active /\ Active' /\ stream'.id = stream.id),
             NEW e \in Event, e.n \in KeptNums, dropped' = dropped \union {e}
      PROVE  /\ DroppedNums' = DroppedNums \union {e.n} /\ Used' = Used \union {e.n}
             /\ Cardinality(dropped') = Cardinality(dropped) + 1
  <2>1. DroppedNums' = DroppedNums \union {e.n}
    BY <1>u DEF DroppedNums
  <2>2. Used' = Used \union {e.n}
    BY <1>u, <2>1 DEF Used, Active
  <2>3. e \notin dropped
    BY <1>e, <1>u DEF Fresh, Used, DroppedNums
  <2>4. Cardinality(dropped') = Cardinality(dropped) + 1
    BY <1>t, <1>u, <2>3, FS_AddElement
  <2> QED
    BY <2>1, <2>2, <2>4
<1>v. ASSUME UNCHANGED <<answers, dropped>>,
             stream' = stream \/ (Active /\ Active' /\ stream'.id = stream.id)
      PROVE  DroppedNums' = DroppedNums /\ Used' = Used /\ Cardinality(dropped') = Cardinality(dropped)
  BY <1>v DEF DroppedNums, Used, Active
<1>w. ASSUME incoming # <<>>, incoming' = Tail(incoming), deferred = <<>>,
             inputs' = Append(inputs, Head(incoming)), UNCHANGED <<deferred, batch, dispatched, dropped>>
      PROVE  InOrder' /\ KeptNums' = KeptNums /\ Total' = Total
  <2>1. /\ Head(incoming) \in Event /\ Nums(incoming) = Nums(incoming') \union {Head(incoming).n}
        /\ Len(incoming') = Len(incoming) - 1
        /\ Increasing(incoming') /\ \A b \in Nums(incoming') : Head(incoming).n < b
    BY <1>e, <1>t, <1>w, FirstEvent DEF InOrder
  <2>2. Nums(deferred) = {} /\ Head(incoming).n \in Nat
    BY <1>w, <2>1, NoEvents DEF Event
  <2>3. \A b \in Nums(inputs) \union Nums(batch) : b < Head(incoming).n
    BY <1>e, <2>1 DEF InOrder, Before
  <2>4. /\ Nums(inputs') = Nums(inputs) \union {Head(incoming).n}
        /\ Len(inputs') = Len(inputs) + 1 /\ Increasing(inputs')
    BY <1>e, <1>t, <1>w, <2>1, <2>3, EventAdded DEF InOrder
  <2>5. /\ Before(inputs', deferred') /\ Before(inputs', incoming') /\ Before(deferred', incoming')
        /\ Before(batch', incoming')
    BY <1>e, <1>w, <2>1, <2>2, <2>4 DEF InOrder, Before
  <2>6. Nums(batch') \intersect (Nums(inputs') \union Nums(deferred')) = {}
    <3>1. Head(incoming).n \notin Nums(batch)
      BY <2>2, <2>3
    <3> QED
      BY <1>e, <1>w, <2>2, <2>4, <3>1 DEF InOrder
  <2>7. InOrder'
    BY <1>e, <1>w, <2>1, <2>4, <2>5, <2>6 DEF InOrder
  <2>8. KeptNums' = KeptNums
    BY <1>w, <2>1, <2>4 DEF KeptNums
  <2>9. Total' = Total
    BY <1>n, <1>w, <2>1, <2>4 DEF Total
  <2> QED
    BY <2>7, <2>8, <2>9
<1>x. ASSUME dispatched' = dispatched \o batch, batch' = <<>>,
             UNCHANGED <<incoming, arrived, inputs, deferred, dropped>>
      PROVE  /\ InOrder' /\ Accounted' /\ KeptNums' \subseteq KeptNums
             /\ KeptNums' \intersect Nums(batch) = {}
  <2>1. /\ Nums(dispatched') = Nums(dispatched) \union Nums(batch)
        /\ Len(dispatched') = Len(dispatched) + Len(batch)
    BY <1>t, <1>x, EventsJoined
  <2>2. Nums(batch') = {} /\ Len(batch') = 0 /\ Increasing(batch')
    BY <1>x, NoEvents
  <2>3. InOrder'
    BY <1>e, <1>x, <2>2 DEF InOrder, Before
  <2>4. KeptNums' = Nums(inputs) \union Nums(deferred) \union Nums(incoming)
    BY <1>x, <2>2 DEF KeptNums
  <2>5. DroppedNums' = DroppedNums
    BY <1>x DEF DroppedNums
  <2>6. Total' = Total
    BY <1>n, <1>x, <2>1, <2>2 DEF Total
  <2>7. Accounted'
    BY <1>k, <1>x, <2>1, <2>4, <2>5, <2>6 DEF KeptNums
  <2>8. Nums(incoming) \intersect Nums(batch) = {}
    BY <1>e, <1>n DEF InOrder, Before
  <2> QED
    BY <1>e, <2>3, <2>4, <2>7, <2>8 DEF InOrder, KeptNums
<1>1. ASSUME NEW k \in Kinds, Arrive(k) PROVE EventInv'
  <2> DEFINE e == [n |-> arrived + 1, kind |-> k, of |-> IF k = "cancel" THEN lastPull ELSE 0]
  <2>1. e \in Event /\ e.n = arrived + 1
    BY <1>t, DeliveryAssumption DEF DeliveryAssumption, Event, LoopInv, SessionTypes
  <2>2. incoming' = Append(incoming, e) /\ UNCHANGED loopVars
    BY <1>1 DEF Arrive
  <2> HIDE DEF e
  <2>3. /\ arrived' \in Nat /\ arrived' >= arrived + 1 /\ arrived < MaxEvents
        /\ arrived' < MaxEvents => arrived' = arrived + 1
    BY <1>t, <1>1, DeliveryAssumption, SMTT(30) DEF Arrive, DeliveryAssumption
  <2>4. /\ UNCHANGED <<batch, inputs, deferred, dispatched, answers, stream, dropped>>
        /\ DroppedNums' = DroppedNums /\ Used' = Used
    BY <1>v, <2>2 DEF loopVars
  <2>5. /\ Nums(incoming') = Nums(incoming) \union {arrived + 1} /\ Len(incoming') = Len(incoming) + 1
        /\ (Increasing(incoming) /\ \A a \in Nums(incoming) : a < arrived + 1) => Increasing(incoming')
    BY <1>t, <2>1, <2>2, EventAdded
  <2>6. KeptNums' = KeptNums \union {arrived + 1}
    BY <2>4, <2>5 DEF KeptNums
  <2>7. KeptNums \subseteq 1 .. arrived /\ Used \subseteq 1 .. arrived /\ KeptNums \intersect Used = {}
    BY <1>e DEF Fresh
  <2>8. \A a \in KeptNums : a \in Nat /\ a < arrived + 1
    BY <1>t, <2>7
  <2>9. InOrder'
    BY <1>e, <2>4, <2>5, <2>8 DEF InOrder, Before, KeptNums
  <2>10. Fresh'
    <3>1. 1 .. arrived \subseteq 1 .. arrived' /\ arrived + 1 \in 1 .. arrived'
          /\ arrived + 1 \notin 1 .. arrived
      BY <1>t, <2>3
    <3> QED
      BY <2>4, <2>6, <2>7, <3>1 DEF Fresh
  <2>11. Accounted'
    <3>1. Total = arrived /\ Total' = arrived + 1
      BY <1>e, <1>n, <1>t, <2>3, <2>4, <2>5 DEF Accounted, Total
    <3>2. 1 .. arrived + 1 = 1 .. arrived \union {arrived + 1}
      BY <1>t
    <3>3. Nums(dispatched) \union KeptNums \union DroppedNums = 1 .. arrived
      BY <1>e, <3>1 DEF Accounted
    <3> QED
      BY <2>3, <2>4, <2>6, <3>1, <3>2, <3>3 DEF Accounted
  <2> QED
    BY <2>9, <2>10, <2>11 DEF EventInv
<1>2. CASE TakeEvent
  <2>1. /\ batch = <<>> /\ deferred = <<>>
        /\ UNCHANGED <<arrived, deferred, stream, dispatched, dropped, answers>>
    BY <1>2 DEF TakeEvent, AtTop, LoopInv, Phases
  <2>2. /\ Nums(batch) = {} /\ Nums(deferred) = {} /\ Len(batch) = 0 /\ Len(deferred) = 0
        /\ DroppedNums' = DroppedNums /\ Used' = Used /\ Cardinality(dropped') = Cardinality(dropped)
    BY <1>v, <2>1, NoEvents
  <2>3. CASE inputs # <<>> /\ batch' = <<Head(inputs)>> /\ inputs' = Tail(inputs)
             /\ UNCHANGED incoming
    <3>1. /\ Head(inputs) \in Event
          /\ Nums(inputs) = Nums(inputs') \union {Head(inputs).n} /\ Len(inputs') = Len(inputs) - 1
          /\ Increasing(inputs') /\ \A b \in Nums(inputs') : Head(inputs).n < b
      BY <1>e, <1>t, <2>3, FirstEvent DEF InOrder
    <3>2. Nums(batch') = {Head(inputs).n} /\ Len(batch') = 1 /\ Increasing(batch')
      BY <2>3, <3>1, OneEvent
    <3>3. Head(inputs).n \in Nat
      BY <3>1 DEF Event
    <3>4. InOrder'
      <4>1. /\ Before(inputs, deferred) /\ Before(inputs, incoming) /\ Before(deferred, incoming)
            /\ Increasing(deferred) /\ Increasing(incoming)
        BY <1>e DEF InOrder
      <4>2. /\ Before(inputs', deferred') /\ Before(inputs', incoming')
            /\ Before(deferred', incoming')
        BY <2>1, <2>3, <3>1, <4>1 DEF Before
      <4>3. Before(batch', incoming')
        BY <2>3, <3>1, <3>2, <4>1 DEF Before
      <4>4. Nums(batch') \intersect (Nums(inputs') \union Nums(deferred')) = {}
        BY <1>n, <2>1, <2>2, <3>1, <3>2, <3>3
      <4> QED
        BY <2>1, <2>3, <3>1, <3>2, <4>1, <4>2, <4>3, <4>4 DEF InOrder
    <3>5. KeptNums' = KeptNums /\ Total' = Total
      <4>1. KeptNums' = KeptNums
        BY <2>1, <2>2, <2>3, <3>1, <3>2 DEF KeptNums
      <4> QED
        BY <1>n, <2>1, <2>2, <2>3, <3>1, <3>2, <4>1 DEF Total
    <3>6. Fresh' /\ Accounted'
      BY <1>e, <1>f, <1>k, <2>1, <2>2, <3>5 DEF Fresh
    <3> QED
      BY <3>4, <3>6 DEF EventInv
  <2>4. CASE inputs = <<>> /\ incoming # <<>> /\ batch' = <<Head(incoming)>>
             /\ incoming' = Tail(incoming) /\ UNCHANGED inputs
    <3>1. /\ Head(incoming) \in Event
          /\ Nums(incoming) = Nums(incoming') \union {Head(incoming).n}
          /\ Len(incoming') = Len(incoming) - 1
          /\ Increasing(incoming') /\ \A b \in Nums(incoming') : Head(incoming).n < b
      BY <1>e, <1>t, <2>4, FirstEvent DEF InOrder
    <3>2. Nums(batch') = {Head(incoming).n} /\ Len(batch') = 1 /\ Increasing(batch')
      BY <2>4, <3>1, OneEvent
    <3>3. Head(incoming).n \in Nat /\ Nums(inputs) = {} /\ Len(inputs) = 0
      BY <2>4, <3>1, NoEvents DEF Event
    <3>4. InOrder'
      BY <1>e, <1>n, <2>1, <2>2, <2>4, <3>1, <3>2, <3>3 DEF InOrder, Before
    <3>5. KeptNums' = KeptNums /\ Total' = Total
      <4>1. KeptNums' = KeptNums
        BY <2>1, <2>2, <2>4, <3>1, <3>2, <3>3 DEF KeptNums
      <4> QED
        BY <1>n, <2>1, <2>2, <2>4, <3>1, <3>2, <3>3, <4>1 DEF Total
    <3>6. Fresh' /\ Accounted'
      BY <1>e, <1>f, <1>k, <2>1, <2>2, <3>5 DEF Fresh
    <3> QED
      BY <3>4, <3>6 DEF EventInv
  <2> QED
    BY <1>2, <2>3, <2>4 DEF TakeEvent
<1>3. CASE Coalesce
  <2>1. /\ batch # <<>> /\ deferred = <<>> /\ incoming # <<>> /\ incoming' = Tail(incoming)
        /\ UNCHANGED <<arrived, inputs, deferred, stream, dispatched, answers>>
    BY <1>3 DEF Coalesce, LoopInv, Phases
  <2>2. Nums(deferred) = {}
    BY <2>1, NoEvents
  <2>3. /\ Head(incoming) \in Event
        /\ Nums(incoming) = Nums(incoming') \union {Head(incoming).n}
        /\ Len(incoming') = Len(incoming) - 1
        /\ Increasing(incoming') /\ \A b \in Nums(incoming') : Head(incoming).n < b
    BY <1>e, <1>t, <2>1, FirstEvent DEF InOrder
  <2>4. Head(incoming).n \in Nat
    BY <2>3 DEF Event
  <2>o. /\ Before(batch, incoming) /\ Increasing(batch) /\ Increasing(inputs) /\ Increasing(deferred)
        /\ Before(inputs, deferred) /\ Before(inputs, incoming)
        /\ Nums(batch) \intersect (Nums(inputs) \union Nums(deferred)) = {}
    BY <1>e DEF InOrder
  <2>p. /\ Before(inputs', deferred') /\ Before(inputs', incoming') /\ Before(deferred', incoming')
        /\ Head(incoming).n \notin Nums(inputs)
    <3>1. \A a \in Nums(inputs) : a < Head(incoming).n
      BY <2>3, <2>o DEF Before
    <3>2. Head(incoming).n \notin Nums(inputs)
      BY <2>4, <3>1
    <3> QED
      BY <2>1, <2>2, <2>3, <2>o, <3>2 DEF Before
  <2>5. CASE batch' = Append(batch, Head(incoming)) /\ UNCHANGED dropped
    <3>1. /\ Nums(batch') = Nums(batch) \union {Head(incoming).n} /\ Len(batch') = Len(batch) + 1
          /\ (Increasing(batch) /\ \A a \in Nums(batch) : a < Head(incoming).n) => Increasing(batch')
      BY <1>t, <2>3, <2>5, EventAdded
    <3>2. InOrder'
      <4>1. \A a \in Nums(batch) : a < Head(incoming).n
        BY <2>3, <2>o DEF Before
      <4>2. Before(batch', incoming')
        BY <2>3, <2>o, <3>1 DEF Before
      <4>3. Nums(batch') \intersect (Nums(inputs') \union Nums(deferred')) = {}
        BY <2>1, <2>2, <2>p, <2>o, <3>1
      <4> QED
        BY <2>1, <2>3, <2>p, <2>o, <3>1, <4>1, <4>2, <4>3 DEF InOrder
    <3>3. DroppedNums' = DroppedNums /\ Used' = Used /\ Cardinality(dropped') = Cardinality(dropped)
      BY <1>v, <2>1, <2>5
    <3>4. KeptNums' = KeptNums
      BY <2>1, <2>3, <3>1 DEF KeptNums
    <3>5. Total' = Total
      BY <1>n, <2>1, <2>3, <3>1, <3>3 DEF Total
    <3>6. Fresh' /\ Accounted'
      BY <1>e, <1>f, <1>k, <2>1, <3>3, <3>4, <3>5 DEF Fresh
    <3> QED
      BY <3>2, <3>6 DEF EventInv
  <2>6. CASE batch' = Append(Front(batch), Head(incoming)) /\ dropped' = dropped \union {Last(batch)}
    <3>1. /\ Front(batch) \in Seq(Event) /\ Last(batch) \in Event /\ Len(Front(batch)) = Len(batch) - 1
          /\ Nums(batch) = Nums(Front(batch)) \union {Last(batch).n}
          /\ Increasing(Front(batch)) /\ \A a \in Nums(Front(batch)) : a < Last(batch).n
      BY <1>e, <1>t, <2>1, LastEvent DEF InOrder
    <3>2. /\ Nums(batch') = Nums(Front(batch)) \union {Head(incoming).n}
          /\ Len(batch') = Len(Front(batch)) + 1
          /\ (Increasing(Front(batch)) /\ \A a \in Nums(Front(batch)) : a < Head(incoming).n)
               => Increasing(batch')
      BY <2>3, <2>6, <3>1, EventAdded
    <3>3. InOrder'
      <4>1. \A a \in Nums(batch) : a < Head(incoming).n
        BY <2>3, <2>o DEF Before
      <4>2. Before(batch', incoming')
        BY <2>3, <2>o, <3>1, <3>2 DEF Before
      <4>3. Nums(batch') \intersect (Nums(inputs') \union Nums(deferred')) = {}
        BY <2>1, <2>2, <2>p, <2>o, <3>1, <3>2
      <4> QED
        BY <2>1, <2>3, <2>p, <2>o, <3>1, <3>2, <4>1, <4>2, <4>3 DEF InOrder
    <3>4. /\ DroppedNums' = DroppedNums \union {Last(batch).n} /\ Used' = Used \union {Last(batch).n}
          /\ Cardinality(dropped') = Cardinality(dropped) + 1
      <4>1. Last(batch).n \in KeptNums
        BY <3>1 DEF KeptNums
      <4> QED
        BY <1>u, <2>1, <2>6, <3>1, <4>1
    <3>5. Last(batch).n \in Nat /\ Last(batch).n < Head(incoming).n
      BY <1>e, <2>3, <3>1 DEF InOrder, Before, Event
    <3>6. KeptNums' = (KeptNums \ {Last(batch).n})
      <4>1. Last(batch).n \notin Nums(Front(batch)) /\ Last(batch).n \notin Nums(inputs)
            /\ Last(batch).n \notin Nums(deferred)
        BY <1>e, <1>n, <2>2, <3>1, <3>5 DEF InOrder
      <4>2. Last(batch).n \notin Nums(incoming)
        <5>1. \A b \in Nums(incoming) : Last(batch).n < b
          BY <2>o, <3>1 DEF Before
        <5> QED
          BY <3>5, <5>1
      <4> QED
        BY <2>1, <2>3, <3>1, <3>2, <3>5, <4>1, <4>2 DEF KeptNums
    <3>7. Total' = Total
      BY <1>n, <2>1, <2>3, <3>1, <3>2, <3>4 DEF Total
    <3>8. Last(batch).n \in KeptNums
      BY <3>1 DEF KeptNums
    <3>9. Fresh' /\ Accounted'
      BY <1>e, <1>f, <1>k, <2>1, <3>4, <3>6, <3>7, <3>8 DEF Fresh
    <3> QED
      BY <3>3, <3>9 DEF EventInv
  <2> QED
    BY <1>3, <2>5, <2>6 DEF Coalesce
<1>4. CASE CoalesceStops
  <2>1. /\ incoming # <<>> /\ incoming' = Tail(incoming) /\ deferred = <<>>
        /\ inputs' = Append(inputs, Head(incoming))
        /\ UNCHANGED <<arrived, deferred, stream, batch, dispatched, dropped, answers>>
    BY <1>4 DEF CoalesceStops, LoopInv, Phases
  <2>2. InOrder' /\ KeptNums' = KeptNums /\ Total' = Total /\ DroppedNums' = DroppedNums /\ Used' = Used
    BY <1>v, <1>w, <2>1
  <2>3. Fresh' /\ Accounted'
    BY <1>e, <1>f, <1>k, <2>1, <2>2 DEF Fresh
  <2> QED
    BY <2>2, <2>3 DEF EventInv
<1>5. CASE CoalesceEnds \/ Reply \/ LastMessage \/ Leave \/ ObserveEnds \/ Ask
  <2>1. UNCHANGED <<inputVars, inputs, deferred, stream, batch, dispatched, dropped, answers>>
    BY <1>5 DEF CoalesceEnds, Reply, LastMessage, Leave, ObserveEnds, Ask
  <2> QED
    BY <2>1 DEF inputVars, EventInv, InOrder, Before, Fresh, Accounted, KeptNums, Used, Total,
                DroppedNums, Active
<1>6. CASE Dispatch
  <2>1. /\ dispatched' = dispatched \o batch /\ batch' = <<>>
        /\ UNCHANGED <<incoming, arrived, inputs, deferred, stream, dropped, answers>>
    BY <1>6 DEF Dispatch, inputVars
  <2>2. DroppedNums' = DroppedNums /\ Used' = Used
    BY <1>v, <2>1
  <2>3. InOrder' /\ Accounted' /\ KeptNums' \subseteq KeptNums
    BY <1>x, <2>1
  <2>4. Fresh'
    BY <1>e, <1>f, <2>1, <2>2, <2>3 DEF Fresh
  <2> QED
    BY <2>3, <2>4 DEF EventInv
<1>7. CASE DispatchPull
  <2>1. /\ dispatched' = dispatched \o batch /\ batch' = <<>>
        /\ UNCHANGED <<incoming, arrived, inputs, deferred, dropped>>
    BY <1>7 DEF DispatchPull, inputVars
  <2>2. InOrder' /\ Accounted' /\ KeptNums' \subseteq KeptNums /\ KeptNums' \intersect Nums(batch) = {}
    BY <1>x, <2>1
  <2>3. ~Active /\ batch # <<>>
    BY <1>7 DEF DispatchPull, LoopInv, Phases
  <2>4. batch[1] \in Event /\ batch[1].n \in Nums(batch) /\ batch[1].n \in KeptNums
    BY <1>t, <2>3, FirstNumber DEF KeptNums
  <2>5. Used' = Used \union {batch[1].n}
    <3>1. CASE /\ answers' = Append(answers, [id |-> batch[1].n, message |-> "Result"])
               /\ UNCHANGED stream
      <4>1. {answers'[i].id : i \in DOMAIN answers'}
              = {answers[i].id : i \in DOMAIN answers} \union {batch[1].n}
        <5>1. [id |-> batch[1].n, message |-> "Result"] \in Answer
          BY <2>4 DEF Answer, Ends, Event
        <5> QED
          BY <1>t, <3>1, <5>1, AnswerAdded
      <4> QED
        BY <2>1, <3>1, <4>1 DEF Used, DroppedNums, Active
    <3>2. CASE /\ \E p \in 1 .. MaxPages :
                    stream' = [id |-> batch[1].n, pages |-> p, terminal |-> "Result"]
               /\ UNCHANGED answers
      <4>1. stream'.id = batch[1].n /\ stream' # NoStream
        BY <2>4, <3>2 DEF NoStream
      <4> QED
        BY <2>1, <2>3, <3>2, <4>1 DEF Used, DroppedNums, Active
    <3> QED
      BY <1>7, <3>1, <3>2 DEF DispatchPull
  <2>6. Fresh'
    BY <1>e, <1>f, <2>1, <2>2, <2>4, <2>5 DEF Fresh
  <2> QED
    BY <2>2, <2>6 DEF EventInv
<1>10. CASE Advance
  <2>1. /\ stream \in Streams /\ Onward(stream, stream')
        /\ \/ UNCHANGED <<inputs, dropped>>
           \/ \E i \in DOMAIN inputs :
                /\ inputs' = RemoveAt(inputs, i) /\ dropped' = dropped \union {inputs[i]}
        /\ batch = <<>>
        /\ UNCHANGED <<incoming, arrived, deferred, batch, dispatched, answers>>
    BY <1>10, <1>e, AdvanceEffect DEF InOrder, inputVars
  <2>2. Active /\ Active' /\ stream'.id = stream.id /\ Nums(batch) = {}
    BY <2>1, NoEvents DEF Active, Onward, Streams, NoStream
  <2>3. CASE UNCHANGED <<inputs, dropped>>
    <3>1. DroppedNums' = DroppedNums /\ Used' = Used /\ Cardinality(dropped') = Cardinality(dropped)
      BY <1>v, <2>1, <2>2, <2>3
    <3>2. InOrder' /\ KeptNums' = KeptNums /\ Total' = Total
      BY <1>e, <2>1, <2>3, <3>1 DEF InOrder, Before, KeptNums, Total
    <3> QED
      BY <1>e, <1>f, <1>k, <2>1, <3>1, <3>2 DEF EventInv, Fresh
  <2>4. ASSUME NEW i \in DOMAIN inputs, inputs' = RemoveAt(inputs, i),
               dropped' = dropped \union {inputs[i]}
        PROVE  EventInv'
    <3>1. /\ inputs[i] \in Event /\ Len(inputs') = Len(inputs) - 1
          /\ Nums(inputs') = Nums(inputs) \ {inputs[i].n} /\ Increasing(inputs')
      BY <1>e, <1>t, <2>4, EventRemoved DEF InOrder
    <3>2. inputs[i].n \in Nums(inputs) /\ inputs[i].n \in KeptNums /\ inputs[i].n \in Nat
      BY <3>1 DEF Nums, KeptNums, Event
    <3>3. /\ DroppedNums' = DroppedNums \union {inputs[i].n} /\ Used' = Used \union {inputs[i].n}
          /\ Cardinality(dropped') = Cardinality(dropped) + 1
      BY <1>u, <2>1, <2>2, <2>4, <3>1, <3>2
    <3>4. InOrder'
      BY <1>e, <2>1, <2>2, <3>1 DEF InOrder, Before
    <3>5. inputs[i].n \notin Nums(deferred) /\ inputs[i].n \notin Nums(incoming)
      <4>1. \A b \in Nums(deferred) \union Nums(incoming) : inputs[i].n < b
        BY <1>e, <3>2 DEF InOrder, Before
      <4> QED
        BY <3>2, <4>1
    <3>6. KeptNums' = KeptNums \ {inputs[i].n}
      BY <2>1, <2>2, <3>1, <3>5 DEF KeptNums
    <3>7. Total' = Total
      BY <1>n, <2>1, <3>1, <3>3 DEF Total
    <3>8. Fresh' /\ Accounted'
      BY <1>e, <1>f, <1>k, <2>1, <3>2, <3>3, <3>6, <3>7 DEF Fresh
    <3> QED
      BY <3>4, <3>8 DEF EventInv
  <2> QED
    BY <2>1, <2>3, <2>4
<1>11. CASE Observe \/ NotIdle
  <2>1. /\ stream \in Streams /\ Onward(stream, stream') /\ batch = <<>>
        /\ UNCHANGED <<arrived, batch, dispatched, answers>>
    BY <1>11, ObserveEffect
  <2>2. Active /\ Active' /\ stream'.id = stream.id /\ Nums(batch) = {}
    BY <2>1, NoEvents DEF Active, Onward, Streams, NoStream
  <2>3. ASSUME UNCHANGED <<incoming, inputs, deferred, dropped>> PROVE EventInv'
    <3>1. DroppedNums' = DroppedNums /\ Used' = Used /\ Cardinality(dropped') = Cardinality(dropped)
      BY <1>v, <2>1, <2>2, <2>3
    <3>2. InOrder' /\ KeptNums' = KeptNums /\ Total' = Total
      BY <1>e, <2>1, <2>3, <3>1 DEF InOrder, Before, KeptNums, Total
    <3> QED
      BY <1>e, <1>f, <1>k, <2>1, <3>1, <3>2 DEF EventInv, Fresh
  <2>4. ASSUME incoming # <<>>, incoming' = Tail(incoming),
               dropped' = dropped \union {Head(incoming)}, UNCHANGED <<inputs, deferred>>
        PROVE  EventInv'
    <3>1. /\ Head(incoming) \in Event /\ Nums(incoming) = Nums(incoming') \union {Head(incoming).n}
          /\ Len(incoming') = Len(incoming) - 1
          /\ Increasing(incoming') /\ \A b \in Nums(incoming') : Head(incoming).n < b
      BY <1>e, <1>t, <2>4, FirstEvent DEF InOrder
    <3>2. Head(incoming).n \in KeptNums /\ Head(incoming).n \in Nat
      BY <3>1 DEF KeptNums, Event
    <3>3. /\ DroppedNums' = DroppedNums \union {Head(incoming).n}
          /\ Used' = Used \union {Head(incoming).n}
          /\ Cardinality(dropped') = Cardinality(dropped) + 1
      BY <1>u, <2>1, <2>2, <2>4, <3>1, <3>2
    <3>4. InOrder'
      BY <1>e, <2>1, <2>2, <2>4, <3>1 DEF InOrder, Before
    <3>5. /\ Head(incoming).n \notin Nums(deferred) /\ Head(incoming).n \notin Nums(inputs)
          /\ Head(incoming).n \notin Nums(incoming')
      <4>1. \A b \in Nums(deferred) \union Nums(inputs) : b < Head(incoming).n
        BY <1>e, <3>1 DEF InOrder, Before
      <4> QED
        BY <3>1, <3>2, <4>1
    <3>6. KeptNums' = KeptNums \ {Head(incoming).n}
      BY <2>1, <2>2, <2>4, <3>1, <3>5 DEF KeptNums
    <3>7. Total' = Total
      BY <1>n, <2>1, <2>4, <3>1, <3>3 DEF Total
    <3>8. Fresh' /\ Accounted'
      BY <1>e, <1>f, <1>k, <2>1, <3>2, <3>3, <3>6, <3>7 DEF Fresh
    <3> QED
      BY <3>4, <3>8 DEF EventInv
  <2>5. ASSUME incoming # <<>>, incoming' = Tail(incoming), deferred = <<>>,
               inputs' = Append(inputs, Head(incoming)), UNCHANGED <<deferred, dropped>>
        PROVE  EventInv'
    <3>1. /\ InOrder' /\ KeptNums' = KeptNums /\ Total' = Total /\ DroppedNums' = DroppedNums
          /\ Used' = Used
      BY <1>v, <1>w, <2>1, <2>2, <2>5
    <3> QED
      BY <1>e, <1>f, <1>k, <2>1, <3>1 DEF EventInv, Fresh
  <2>6. ASSUME incoming # <<>>, incoming' = Tail(incoming),
               deferred' = Append(deferred, Head(incoming)), UNCHANGED <<inputs, dropped>>
        PROVE  EventInv'
    <3>1. /\ Head(incoming) \in Event /\ Nums(incoming) = Nums(incoming') \union {Head(incoming).n}
          /\ Len(incoming') = Len(incoming) - 1
          /\ Increasing(incoming') /\ \A b \in Nums(incoming') : Head(incoming).n < b
      BY <1>e, <1>t, <2>6, FirstEvent DEF InOrder
    <3>2. \A b \in Nums(deferred) \union Nums(inputs) : b < Head(incoming).n
      BY <1>e, <3>1 DEF InOrder, Before
    <3>3. /\ Nums(deferred') = Nums(deferred) \union {Head(incoming).n}
          /\ Len(deferred') = Len(deferred) + 1 /\ Increasing(deferred')
      BY <1>e, <1>t, <2>6, <3>1, <3>2, EventAdded DEF InOrder
    <3>4. /\ Before(inputs', deferred') /\ Before(inputs', incoming') /\ Before(deferred', incoming')
          /\ Before(batch', incoming')
      BY <1>e, <2>1, <2>2, <2>6, <3>1, <3>2, <3>3 DEF InOrder, Before
    <3>5. InOrder'
      BY <1>e, <2>1, <2>2, <2>6, <3>1, <3>3, <3>4 DEF InOrder
    <3>6. DroppedNums' = DroppedNums /\ Used' = Used /\ Cardinality(dropped') = Cardinality(dropped)
      BY <1>v, <2>1, <2>2, <2>6
    <3>7. KeptNums' = KeptNums
      BY <2>1, <2>6, <3>1, <3>3 DEF KeptNums
    <3>8. Total' = Total
      BY <1>n, <2>1, <2>6, <3>1, <3>3, <3>6 DEF Total
    <3> QED
      BY <1>e, <1>f, <1>k, <2>1, <3>5, <3>6, <3>7, <3>8 DEF EventInv, Fresh
  <2> QED
    BY <1>11, <2>3, <2>4, <2>5, <2>6, ObserveEffect
<1>12. CASE NextMessage
  <2>1. /\ Active /\ Active' /\ stream'.id = stream.id
        /\ \E a \in Answer : a.id = stream.id /\ answers' = Append(answers, a)
        /\ UNCHANGED <<incoming, arrived, inputs, deferred, batch, dispatched, dropped>>
    BY <1>12, NextMessageEffect
  <2>2. {answers'[i].id : i \in DOMAIN answers'}
          = {answers[i].id : i \in DOMAIN answers} \union {stream.id}
    BY <1>t, <2>1, AnswerAdded
  <2>3. Used' = Used /\ DroppedNums' = DroppedNums
    BY <2>1, <2>2 DEF Used, DroppedNums
  <2> QED
    BY <1>e, <2>1, <2>3 DEF EventInv, InOrder, Before, Fresh, Accounted, KeptNums, Total
<1>13. CASE EndStream
  <2>1. /\ inputs' = inputs \o deferred /\ deferred' = <<>> /\ stream' = NoStream
        /\ UNCHANGED <<incoming, arrived, batch, dispatched, dropped, answers>> /\ batch = <<>>
    BY <1>13 DEF EndStream, inputVars, LoopInv, Phases
  <2>2. /\ Nums(inputs') = Nums(inputs) \union Nums(deferred) /\ Increasing(inputs')
        /\ Len(inputs') = Len(inputs) + Len(deferred)
    BY <1>e, <1>t, <2>1, EventsJoined DEF InOrder
  <2>3. Nums(deferred') = {} /\ Len(deferred') = 0 /\ Increasing(deferred') /\ Nums(batch) = {}
    BY <2>1, NoEvents
  <2>4. InOrder'
    BY <1>e, <2>1, <2>2, <2>3 DEF InOrder, Before
  <2>5. Used' \subseteq Used /\ DroppedNums' = DroppedNums
    BY <2>1 DEF Used, DroppedNums, Active
  <2>6. KeptNums' = KeptNums
    BY <2>1, <2>2, <2>3 DEF KeptNums
  <2>7. Total' = Total
    BY <1>n, <2>1, <2>2, <2>3 DEF Total
  <2>8. Fresh' /\ Accounted'
    BY <1>e, <1>f, <1>k, <2>1, <2>5, <2>6, <2>7 DEF Fresh
  <2> QED
    BY <2>4, <2>8 DEF EventInv
<1>15. CASE Queue \/ Waits \/ UNCHANGED deliveryVars
  <2>1. UNCHANGED <<inputVars, loopVars>>
    BY <1>15 DEF Queue, Waits, deliveryVars
  <2> QED
    BY <2>1 DEF inputVars, loopVars, EventInv, InOrder, Before, Fresh, Accounted, KeptNums, Used, Total,
                DroppedNums, Active
<1> QED
  BY <1>1, <1>2, <1>3, <1>4, <1>5, <1>6, <1>7, <1>10, <1>11, <1>12, <1>13, <1>15
  DEF DeliveryNext, Loop

\* The two invariants of the session's loop together.
LEMMA SessionInvariant == DeliverySpec => [](LoopInv /\ EventInv)
<1>1. EventInv => InOrder
  BY DEF EventInv
<1> QED
  BY <1>1, LoopInit, LoopStep, EventsInit, EventsStep, PTL DEF DeliverySpec

(* While pages are delivered no event that arrived (AsyncResponseDelivery) *)
(* is lost, doubled or reordered in the queues that keep it, and no more   *)
(* is kept than one buffer and one channel.                                *)
THEOREM ThmEventsKept == DeliverySpec => []EventsKept
<1>1. LoopInv /\ EventInv => EventsKept
  <2> SUFFICES ASSUME LoopInv, EventInv PROVE EventsKept
    OBVIOUS
  <2> DEFINE tail == inputs \o deferred \o incoming
             seen == dispatched \o Kept
  <2>1. /\ incoming \in Seq(Event) /\ inputs \in Seq(Event) /\ deferred \in Seq(Event)
        /\ batch \in Seq(Event) /\ dispatched \in Seq(Event)
    BY DEF LoopInv, SessionTypes
  <2>2. InOrder /\ Accounted
    BY DEF EventInv
  <2>3. /\ inputs \o deferred \in Seq(Event) /\ Increasing(inputs \o deferred)
        /\ Nums(inputs \o deferred) = Nums(inputs) \union Nums(deferred)
        /\ Len(inputs \o deferred) = Len(inputs) + Len(deferred)
    BY <2>1, <2>2, EventsJoined DEF InOrder
  <2>4. Before(inputs \o deferred, incoming)
    BY <2>2, <2>3 DEF InOrder, Before
  <2>5. Increasing(tail)
    BY <2>1, <2>2, <2>3, <2>4, EventsJoined DEF InOrder
  <2>6. /\ batch \o inputs \in Seq(Event) /\ Nums(batch \o inputs) = Nums(batch) \union Nums(inputs)
        /\ Len(batch \o inputs) = Len(batch) + Len(inputs)
    BY <2>1, EventsJoined
  <2>7. /\ batch \o inputs \o deferred \in Seq(Event)
        /\ Nums(batch \o inputs \o deferred) = Nums(batch) \union Nums(inputs) \union Nums(deferred)
        /\ Len(batch \o inputs \o deferred) = Len(batch) + Len(inputs) + Len(deferred)
    BY <2>1, <2>6, EventsJoined
  <2>8. /\ Kept \in Seq(Event) /\ Nums(Kept) = KeptNums
        /\ Len(Kept) = Len(batch) + Len(inputs) + Len(deferred) + Len(incoming)
    BY <2>1, <2>7, EventsJoined DEF Kept, KeptNums
  <2>9. /\ Nums(seen) = Nums(dispatched) \union KeptNums
        /\ Len(seen) = Len(dispatched) + Len(Kept)
    BY <2>1, <2>8, EventsJoined
  <2> HIDE DEF seen
  <2>10. /\ Len(dispatched) \in Nat /\ Len(batch) \in Nat /\ Len(inputs) \in Nat
         /\ Len(deferred) \in Nat /\ Len(incoming) \in Nat /\ Cardinality(dropped) \in Nat
    BY <2>1, NoEvents, FS_CardinalityType DEF LoopInv, SessionTypes
  <2>11. Len(seen) + Cardinality(dropped) = Total
    BY <2>8, <2>9, <2>10 DEF Total
  <2>12. {e.n : e \in ToSet(seen) \union dropped} = Nums(seen) \union DroppedNums
    BY DEF ToSet, Nums, DroppedNums
  <2>13. {e.n : e \in ToSet(seen) \union dropped} = 1 .. Len(seen) + Cardinality(dropped)
    BY <2>2, <2>9, <2>11, <2>12 DEF Accounted
  <2>14. Len(inputs) + Len(deferred) <= MaxRetained
    BY DEF LoopInv, Bounded
  <2>15. \A e \in dropped : e.kind = "cancel" \/ IsChange(e)
    BY DEF LoopInv, DropsOnly
  <2> QED
    BY <2>5, <2>13, <2>14, <2>15 DEF EventsKept, seen
<1> QED
  BY <1>1, SessionInvariant, PTL

-------------------------------------------------------------------------------
(* The answers to a pull.  OneEnd is inductive, because a number kept is   *)
(* not one that was answered; here it is stated of given answers, stream   *)
(* and dropped events.                                                     *)

EndIn(as, p) == \E i \in DOMAIN as : as[i].id = p /\ as[i].message # "page"

OneEndOf(as, s, ds) ==
  /\ \A i, j \in DOMAIN as : (i < j /\ as[i].id = as[j].id) => as[i].message = "page"
  /\ \A i \in DOMAIN as : as[i].id = s.id \/ EndIn(as, as[i].id)
  /\ s # NoStream => (s.terminal = "Emitted" <=> EndIn(as, s.id))
  /\ \A e \in ds : e.kind = "cancel" => (s.id = e.of /\ s.pages = 0) \/ EndIn(as, e.of)

\* Every step of the session keeps it.
LEMMA OneEndStep == LoopInv /\ EventInv /\ OneEnd /\ [DeliveryNext]_deliveryVars => OneEnd'
<1> SUFFICES ASSUME LoopInv, EventInv, OneEnd, [DeliveryNext]_deliveryVars
             PROVE  OneEndOf(answers', stream', dropped')
  BY DEF OneEnd, OneEndOf, EndSent, EndIn, Active
<1>0. OneEndOf(answers, stream, dropped)
  BY DEF OneEnd, OneEndOf, EndSent, EndIn, Active
<1>t. answers \in Seq(Answer)
  BY DEF LoopInv, SessionTypes
<1>d. ASSUME UNCHANGED <<answers, stream>>, NEW e \in Event, IsChange(e),
             dropped' = dropped \/ dropped' = dropped \union {e}
      PROVE  OneEndOf(answers', stream', dropped')
  BY <1>0, <1>d DEF OneEndOf, EndIn, Active, IsChange
<1>o. ASSUME UNCHANGED answers, stream \in Streams, Onward(stream, stream'),
             NEW e, dropped' = dropped \/ (dropped' = dropped \union {e} /\ Matches(e) /\ stream'.pages = 0)
      PROVE  OneEndOf(answers', stream', dropped')
  <2>1. /\ stream'.id = stream.id /\ stream'.pages \in {0, stream.pages}
        /\ stream'.terminal = "Emitted" <=> stream.terminal = "Emitted"
        /\ Active
    BY <1>o DEF Onward, Active, Streams, NoStream
  <2>2. \A p : EndIn(answers', p) <=> EndIn(answers, p)
    BY <1>o DEF EndIn
  <2>3. ASSUME NEW d \in dropped', d.kind = "cancel"
        PROVE  (stream'.id = d.of /\ stream'.pages = 0) \/ EndIn(answers', d.of)
    <3>1. CASE d \in dropped
      <4>1. (stream.id = d.of /\ stream.pages = 0) \/ EndIn(answers, d.of)
        BY <1>0, <2>3, <3>1 DEF OneEndOf
      <4> QED
        BY <2>1, <2>2, <4>1
    <3>2. CASE d \notin dropped
      BY <1>o, <2>1, <3>2 DEF Matches
    <3> QED
      BY <3>1, <3>2
  <2>4. ASSUME NEW i \in DOMAIN answers' PROVE answers'[i].id = stream'.id \/ EndIn(answers', answers'[i].id)
    BY <1>0, <1>o, <2>1, <2>2, <2>4 DEF OneEndOf
  <2>5. Active' => (stream'.terminal = "Emitted" <=> EndIn(answers', stream'.id))
    BY <1>0, <2>1, <2>2 DEF OneEndOf, Active
  <2> QED
    BY <1>0, <1>o, <2>3, <2>4, <2>5 DEF OneEndOf, Active
<1>a. ASSUME NEW a \in Answer, answers' = Append(answers, a)
      PROVE  /\ DOMAIN answers' = DOMAIN answers \union {Len(answers) + 1}
             /\ DOMAIN answers = 1 .. Len(answers) /\ Len(answers) \in Nat
             /\ \A i \in DOMAIN answers : answers'[i] = answers[i] /\ i < Len(answers) + 1
             /\ answers'[Len(answers) + 1] = a
             /\ \A p : EndIn(answers', p) <=> (EndIn(answers, p) \/ (p = a.id /\ a.message # "page"))
  <2>1. /\ DOMAIN answers' = DOMAIN answers \union {Len(answers) + 1}
        /\ DOMAIN answers = 1 .. Len(answers) /\ Len(answers) \in Nat
        /\ \A i \in DOMAIN answers : answers'[i] = answers[i] /\ i < Len(answers) + 1
        /\ answers'[Len(answers) + 1] = a
    BY <1>a, <1>t, AnswerAdded
  <2>2. \A p : EndIn(answers', p) <=> (EndIn(answers, p) \/ (p = a.id /\ a.message # "page"))
    BY <2>1 DEF EndIn
  <2> QED
    BY <2>1, <2>2
<1>b. ASSUME NEW a \in Answer, answers' = Append(answers, a),
             \A i \in DOMAIN answers : answers[i].id = a.id => answers[i].message = "page"
      PROVE  \A i, j \in DOMAIN answers' :
               (i < j /\ answers'[i].id = answers'[j].id) => answers'[i].message = "page"
  <2>1. /\ DOMAIN answers' = DOMAIN answers \union {Len(answers) + 1}
        /\ DOMAIN answers = 1 .. Len(answers) /\ Len(answers) \in Nat
        /\ \A i \in DOMAIN answers : answers'[i] = answers[i] /\ i < Len(answers) + 1
        /\ answers'[Len(answers) + 1] = a
    BY <1>a, <1>b
  <2>2. ASSUME NEW i \in DOMAIN answers', NEW j \in DOMAIN answers', i < j,
               answers'[i].id = answers'[j].id
        PROVE  answers'[i].message = "page"
    <3>1. i \in DOMAIN answers
      BY <2>1, <2>2
    <3>2. CASE j \in DOMAIN answers
      BY <1>0, <2>1, <2>2, <3>1, <3>2 DEF OneEndOf
    <3>3. CASE j = Len(answers) + 1
      BY <1>b, <2>1, <2>2, <3>1, <3>3
    <3> QED
      BY <2>1, <3>2, <3>3
  <2> QED
    BY <2>2
<1>1. CASE Coalesce
  <2>1. batch # <<>> /\ batch \in Seq(Event) /\ \A i \in DOMAIN batch : IsChange(batch[i])
    BY <1>1 DEF Coalesce, LoopInv, Phases, SessionTypes
  <2>2. Last(batch) \in Event /\ IsChange(Last(batch))
    BY <2>1, LastEvent
  <2>3. UNCHANGED <<answers, stream>> /\ (dropped' = dropped \/ dropped' = dropped \union {Last(batch)})
    BY <1>1 DEF Coalesce
  <2> QED
    BY <1>d, <2>2, <2>3
<1>2. CASE DispatchPull
  <2>1. ~Active /\ batch # <<>> /\ dropped' = dropped /\ batch \in Seq(Event)
    BY <1>2 DEF DispatchPull, LoopInv, Phases, SessionTypes
  <2>2. batch[1] \in Event /\ batch[1].n \in KeptNums
    BY <2>1, FirstNumber DEF KeptNums
  <2>3. \A i \in DOMAIN answers : answers[i].id # batch[1].n
    BY <2>2 DEF EventInv, Fresh, Used
  <2>4. stream.id = 0 /\ batch[1].n # 0 /\ \A i \in DOMAIN answers : EndIn(answers, answers[i].id)
    <3>1. stream.id = 0 /\ batch[1].n # 0
      BY <2>1, <2>2 DEF Active, NoStream, Event
    <3>2. ASSUME NEW i \in DOMAIN answers PROVE EndIn(answers, answers[i].id)
      <4>1. i \in 1 .. Len(answers)
        BY <1>t
      <4>2. answers[i] \in Answer
        BY <1>t, <4>1, ElementOfSeq
      <4>3. answers[i].id # 0
        BY <4>2 DEF Answer
      <4> QED
        BY <1>0, <3>1, <4>3 DEF OneEndOf
    <3> QED
      BY <3>1, <3>2
  <2>5. \A e \in dropped : e.kind = "cancel" => EndIn(answers, e.of)
    BY <1>0, <2>4 DEF OneEndOf, LoopInv, DropsOnly, IsChange
  <2>6. CASE /\ answers' = Append(answers, [id |-> batch[1].n, message |-> "Result"])
             /\ UNCHANGED stream
    <3> DEFINE a == [id |-> batch[1].n, message |-> "Result"]
    <3>1. a \in Answer /\ a.id = batch[1].n /\ a.message # "page"
      BY <2>2 DEF Answer, Ends, Event
    <3> HIDE DEF a
    <3>2. answers' = Append(answers, a)
      BY <2>6 DEF a
    <3>3. /\ \A p : EndIn(answers', p) <=> (EndIn(answers, p) \/ p = batch[1].n)
          /\ DOMAIN answers' = DOMAIN answers \union {Len(answers) + 1}
          /\ \A i \in DOMAIN answers : answers'[i] = answers[i]
          /\ answers'[Len(answers) + 1] = a
      BY <1>a, <3>1, <3>2
    <3>4. \A i, j \in DOMAIN answers' :
            (i < j /\ answers'[i].id = answers'[j].id) => answers'[i].message = "page"
      BY <1>b, <2>3, <3>1, <3>2
    <3>5. \A i \in DOMAIN answers' : EndIn(answers', answers'[i].id)
      BY <2>4, <3>1, <3>3
    <3>6. ~Active'
      BY <2>1, <2>6 DEF Active
    <3> QED
      BY <1>0, <2>1, <2>5, <3>3, <3>4, <3>5, <3>6 DEF OneEndOf, Active
  <2>7. CASE /\ \E p \in 1 .. MaxPages :
                  stream' = [id |-> batch[1].n, pages |-> p, terminal |-> "Result"]
             /\ UNCHANGED answers
    <3>1. stream'.id = batch[1].n /\ stream'.terminal = "Result"
      BY <2>7
    <3>2. \A p : EndIn(answers', p) <=> EndIn(answers, p)
      BY <2>7 DEF EndIn
    <3>3. ~EndIn(answers', stream'.id)
      BY <2>3, <2>7, <3>1 DEF EndIn
    <3>4. \A i \in DOMAIN answers' : EndIn(answers', answers'[i].id)
      BY <2>4, <2>7, <3>2
    <3> QED
      BY <1>0, <2>1, <2>5, <2>7, <3>1, <3>2, <3>3, <3>4 DEF OneEndOf
  <2> QED
    BY <1>2, <2>6, <2>7 DEF DispatchPull
<1>3. CASE Advance
  <2>1. /\ stream \in Streams /\ Onward(stream, stream') /\ UNCHANGED answers
        /\ \/ dropped' = dropped
           \/ \E e : dropped' = dropped \union {e} /\ Matches(e) /\ stream'.pages = 0
    BY <1>3, AdvanceEffect DEF EventInv, InOrder
  <2> QED
    BY <1>o, <2>1
<1>4. CASE Observe \/ NotIdle
  <2>1. /\ stream \in Streams /\ Onward(stream, stream') /\ UNCHANGED answers
        /\ \/ dropped' = dropped
           \/ \E e : dropped' = dropped \union {e} /\ Matches(e) /\ stream'.pages = 0
    BY <1>4, ObserveEffect
  <2> QED
    BY <1>o, <2>1
<1>5. CASE NextMessage
  <2>1. /\ Active /\ Active' /\ stream'.id = stream.id /\ dropped' = dropped
        /\ stream.terminal # "Emitted"
    BY <1>5, NextMessageEffect
  <2>2. PICK a \in Answer :
              /\ a.id = stream.id /\ answers' = Append(answers, a)
              /\ \/ /\ a.message = "page" /\ stream.pages # 0
                    /\ stream'.terminal = "Result" /\ stream.terminal = "Result"
                 \/ /\ a.message # "page" /\ stream'.terminal = "Emitted"
                    /\ stream.pages = 0 /\ stream'.pages = 0
    BY <1>5, NextMessageEffect
  <2>3. ~EndIn(answers, stream.id)
    BY <1>0, <2>1 DEF OneEndOf, Active
  <2>4. \A i, j \in DOMAIN answers' :
          (i < j /\ answers'[i].id = answers'[j].id) => answers'[i].message = "page"
    BY <1>b, <2>2, <2>3 DEF EndIn
  <2>5. /\ \A p : EndIn(answers', p) <=> (EndIn(answers, p) \/ (p = stream.id /\ a.message # "page"))
        /\ DOMAIN answers' = DOMAIN answers \union {Len(answers) + 1}
        /\ \A i \in DOMAIN answers : answers'[i] = answers[i]
        /\ answers'[Len(answers) + 1] = a
    BY <1>a, <2>2
  <2>6. ASSUME NEW i \in DOMAIN answers' PROVE answers'[i].id = stream'.id \/ EndIn(answers', answers'[i].id)
    BY <1>0, <2>1, <2>2, <2>5 DEF OneEndOf
  <2>7. stream'.terminal = "Emitted" <=> EndIn(answers', stream'.id)
    BY <2>1, <2>2, <2>3, <2>5
  <2>8. ASSUME NEW e \in dropped', e.kind = "cancel"
        PROVE (stream'.id = e.of /\ stream'.pages = 0) \/ EndIn(answers', e.of)
    <3>1. (stream.id = e.of /\ stream.pages = 0) \/ EndIn(answers, e.of)
      BY <1>0, <2>1, <2>8 DEF OneEndOf
    <3> QED
      BY <2>1, <2>2, <2>5, <3>1
  <2> QED
    BY <1>0, <2>4, <2>6, <2>7, <2>8 DEF OneEndOf
<1>6. CASE EndStream
  <2>1. /\ stream.terminal = "Emitted" /\ stream' = NoStream /\ UNCHANGED <<answers, dropped>>
        /\ Active
    BY <1>6 DEF EndStream, LoopInv, Phases
  <2>2. EndIn(answers, stream.id)
    BY <1>0, <2>1 DEF OneEndOf, Active
  <2>3. \A p : EndIn(answers', p) <=> EndIn(answers, p)
    BY <2>1 DEF EndIn
  <2>4. ~Active'
    BY <2>1 DEF Active
  <2>5. \A i \in DOMAIN answers' : EndIn(answers', answers'[i].id)
    BY <1>0, <2>1, <2>2, <2>3 DEF OneEndOf
  <2>6. \A e \in dropped : e.kind = "cancel" => EndIn(answers, e.of)
    BY <1>0, <2>2 DEF OneEndOf
  <2> QED
    BY <1>0, <2>1, <2>3, <2>4, <2>5, <2>6 DEF OneEndOf
<1>7. CASE \/ (\E k \in Kinds : Arrive(k)) \/ TakeEvent \/ CoalesceStops \/ CoalesceEnds \/ Dispatch
           \/ Reply \/ LastMessage \/ Leave \/ ObserveEnds \/ Ask \/ Queue \/ Waits
           \/ UNCHANGED deliveryVars
  <2>1. UNCHANGED <<answers, stream, dropped>>
    BY <1>7 DEF Arrive, TakeEvent, CoalesceStops, CoalesceEnds, Dispatch, Reply, LastMessage, Leave,
       ObserveEnds, Ask, Queue, Waits, deliveryVars, loopVars
  <2> QED
    BY <1>0, <2>1 DEF OneEndOf, EndIn, Active
<1> QED
  BY <1>1, <1>2, <1>3, <1>4, <1>5, <1>6, <1>7 DEF DeliveryNext, Loop

\* It holds at the start.
LEMMA OneEndInit == DeliveryInit => OneEnd
BY DEF DeliveryInit, OneEnd, Active, EndSent, NoStream

(* Every pull gets its pages and then one end (DiagnosticPageStream), and  *)
(* a stream that was cancelled or given up sends no further page, however  *)
(* the cancellation meets the pages.                                       *)
THEOREM ThmOneEnd == DeliverySpec => []OneEnd
BY SessionInvariant, OneEndInit, OneEndStep, PTL DEF DeliverySpec

-------------------------------------------------------------------------------
(* The pressure of the client.  The load is what waits in the queue and    *)
(* the frame not flushed yet; it falls with every step of the queue, and   *)
(* the idle test says yes only when it is zero.                            *)

Load == Len(Waiting) + (IF current = NoFrame THEN 0 ELSE 1)
PressureInv ==
  /\ main = "is idle" => Load = 0
  /\ (Active /\ Answered(stream.id)) => Load <= 1

\* What waits is a sequence of frames.
LEMMA WaitingType == QueueInv => Waiting \in Seq(Made) /\ Len(Waiting) \in Nat /\ Load \in Nat
<1> SUFFICES ASSUME QueueInv PROVE Waiting \in Seq(Made) /\ Len(Waiting) \in Nat /\ Load \in Nat
  OBVIOUS
<1>1. InHand \in Seq(Made)
  BY MadeIsFrame DEF InHand, QueueInv
<1>2. InHand \o channel \in Seq(Made)
  BY <1>1, ConcatProperties DEF QueueInv
<1>3. Waiting \in Seq(Made)
  BY <1>2, ConcatProperties DEF QueueInv, Waiting
<1> QED
  BY <1>3, LenProperties DEF Load

\* No step of the queue adds to the load.
LEMMA LoadFalls ==
  ASSUME QueueInv, Proceed \/ Writer \/ Expire
  PROVE  Load' <= Load
<1>0. Waiting \in Seq(Made) /\ Len(Waiting) \in Nat /\ Load \in Nat
  BY WaitingType
<1>1. CASE Accept
  <2>1. InHand' = InHand /\ channel' = channel /\ current' = NoFrame
    BY <1>1 DEF Accept, InHand, writerVars
  <2>2. CASE pending' = pending
    BY <1>0, <2>1, <2>2 DEF Waiting, Load
  <2>3. CASE pending' # pending
    <3>1. current \in Made /\ current # NoFrame /\ pending' = Append(pending, current)
      BY <1>1, <2>3, MadeIsFrame DEF Accept, QueueInv
    <3>2. InHand \in Seq(Made)
      BY MadeIsFrame DEF InHand, QueueInv
    <3>3. InHand \o channel \in Seq(Made)
      BY <3>2, ConcatProperties DEF QueueInv
    <3>4. Waiting' = Append(Waiting, current)
      BY <2>1, <3>1, <3>3, AppendAfterConcat DEF Waiting, QueueInv
    <3>5. Len(Waiting') = Len(Waiting) + 1
      BY <1>0, <3>1, <3>4, AppendProperties
    <3> QED
      BY <1>0, <2>1, <3>1, <3>5 DEF Load
  <2> QED
    BY <2>2, <2>3
<1>2. CASE Write
  <2>1. Waiting # <<>> /\ Waiting' = Tail(Waiting)
    BY <1>2, WriteIsDeliver DEF Fifo!Deliver
  <2>2. Len(Waiting') = Len(Waiting) - 1
    BY <1>0, <2>1, HeadTailProperties
  <2>3. current' = current
    BY <1>2 DEF Write, mainVars
  <2> QED
    BY <1>0, <2>2, <2>3 DEF Load
<1>3. ASSUME Waiting' = Waiting, current' = current PROVE Load' <= Load
  BY <1>0, <1>3 DEF Load
<1>4. CASE Take
  BY <1>3, <1>4, TakeStutters DEF Take, mainVars
<1>5. CASE PumpOne
  BY <1>3, <1>5, PumpStutters DEF PumpOne
<1>6. CASE Release \/ WriteFails \/ WriterExits
  <2>1. Waiting' = Waiting /\ current' = current
    BY <1>6, MadeIsFrame
    DEF Release, WriteFails, WriterExits, mainVars, Waiting, InHand, QueueInv
  <2> QED
    BY <1>3, <2>1
<1>7. CASE Poll \/ PumpEnds \/ PumpFails \/ Poll2 \/ DrainMore \/ Close \/ Joined \/ Parked \/ Expire
  <2>1. UNCHANGED <<pending, channel, writer, taken, current>>
    BY <1>7
    DEF Poll, PumpEnds, PumpFails, Poll2, DrainMore, Close, Joined, Parked, Expire, mainVars,
        writerVars
  <2>2. Waiting' = Waiting
    BY <2>1 DEF Waiting, InHand
  <2> QED
    BY <1>3, <2>1, <2>2
<1> QED
  BY <1>1, <1>2, <1>4, <1>5, <1>6, <1>7 DEF Writer, Proceed

\* A queue that is idle, with an exact count, holds nothing.
LEMMA IdleIsEmpty ==
  ASSUME QueueInv, HeldInv, IsIdle, ~Bad
  PROVE  Load = 0
<1>1. /\ Bytes(pending) \in Nat /\ Bytes(channel) \in Nat /\ taken.size \in Nat
  BY UnsentBytes
<1>2. current = NoFrame /\ pending = <<>> /\ Bytes(channel) = 0 /\ taken.size = 0
  BY <1>1 DEF HeldInv, IsIdle
<1>3. channel = <<>>
  <2> SUFFICES ASSUME channel # <<>> PROVE FALSE
    OBVIOUS
  <2> QED
    BY <1>2, BytesOfTail DEF QueueInv
<1>4. taken = NoFrame
  BY <1>2, MadeIsSized DEF QueueInv
<1>5. InHand = <<>>
  BY <1>4 DEF InHand
<1>6. Waiting = <<>>
  BY <1>2, <1>3, <1>5, EmptySeq, ConcatEmptySeq DEF Waiting
<1> QED
  BY <1>2, <1>6 DEF Load

\* Only the idle test leads to the state after it.
LEMMA IdleOnlyByTest ==
  ASSUME Proceed \/ Writer \/ Expire, main' = "is idle"
  PROVE  main = "is idle" \/ (IsIdle /\ ~Bad /\ Poll2)
<1>1. CASE Writer \/ Expire
  BY <1>1 DEF Writer, Take, Write, Release, WriteFails, WriterExits, Expire, mainVars
<1>2. CASE Poll2
  BY <1>2 DEF Poll2, Return
<1>3. CASE Poll \/ PumpEnds \/ PumpFails
  BY <1>3 DEF Poll, PumpEnds, PumpFails, AfterPump, Return, Pumping
<1>4. CASE PumpOne \/ Accept \/ DrainMore \/ Close \/ Joined \/ Parked
  BY <1>4 DEF PumpOne, Accept, DrainMore, Close, Joined, Parked
<1> QED
  BY <1>1, <1>2, <1>3, <1>4 DEF Proceed

\* It holds at the start.
LEMMA PressureInit == DeliveryInit => PressureInv
BY DEF DeliveryInit, Init, PressureInv, Active

\* Every step of the session keeps it.
LEMMA PressureStep ==
  /\ QueueInv /\ HeldInv /\ LoopInv /\ EventInv /\ PressureInv
  /\ [DeliveryNext]_deliveryVars
  => PressureInv'
<1> SUFFICES ASSUME QueueInv, HeldInv, LoopInv, EventInv, PressureInv, [DeliveryNext]_deliveryVars
             PROVE  PressureInv'
  OBVIOUS
<1>0. Waiting \in Seq(Made) /\ Len(Waiting) \in Nat /\ Load \in Nat
  BY WaitingType
<1>q. (QueueInv)'
  BY QueueStep, SessionStep
<1>l. Load' \in Nat
  <2>1. InHand' \in Seq(Made) /\ channel' \in Seq(Made) /\ pending' \in Seq(Made)
    BY <1>q, MadeIsFrame DEF InHand, QueueInv
  <2>2. InHand' \o channel' \in Seq(Made)
    BY <2>1, ConcatProperties
  <2>3. Waiting' \in Seq(Made)
    BY <2>1, <2>2, ConcatProperties DEF Waiting
  <2>4. Len(Waiting') \in Nat
    BY <2>3, LenProperties
  <2> QED
    BY <2>4 DEF Load
<1>v. ASSUME UNCHANGED vars, ~Active' \/ (Active /\ stream'.id = stream.id /\ UNCHANGED answers)
      PROVE  PressureInv'
  <2>1. Load' = Load /\ main' = main
    BY <1>v DEF vars, mainVars, writerVars, Load, Waiting, InHand
  <2>2. Active' /\ Answered(stream.id)' => Active /\ Answered(stream.id)
    BY <1>v DEF Answered
  <2> QED
    BY <2>1, <2>2 DEF PressureInv
<1>w. ASSUME NEW S, WriteFrame(S) PROVE Load' <= Len(Waiting) + 1 /\ main' # "is idle"
  <2>1. UNCHANGED <<pending, writerVars, channel>> /\ main' \in {"broken", "poll"}
    BY <1>w DEF WriteFrame
  <2>2. Waiting' = Waiting
    BY <2>1 DEF Waiting, InHand, writerVars
  <2>3. Load' <= Len(Waiting) + 1
    BY <1>0, <2>2 DEF Load
  <2> QED
    BY <2>1, <2>3
<1>1. CASE Queue
  <2>1. (Proceed \/ Writer \/ Expire) /\ UNCHANGED <<stream, answers>>
    BY <1>1 DEF Queue, loopVars
  <2>2. Load' <= Load
    BY <2>1, LoadFalls
  <2>3. (Active' /\ Answered(stream.id)') <=> (Active /\ Answered(stream.id))
    BY <2>1 DEF Active, Answered
  <2>4. ASSUME main' = "is idle" PROVE Load' = 0
    <3>1. CASE main = "is idle"
      <4>1. Load = 0
        BY <3>1 DEF PressureInv
      <4> QED
        BY <1>l, <2>2, <4>1
    <3>2. CASE IsIdle /\ ~Bad
      <4>1. Load = 0
        BY <3>2, IdleIsEmpty
      <4> QED
        BY <1>l, <2>2, <4>1
    <3> QED
      BY <2>1, <2>4, <3>1, <3>2, IdleOnlyByTest
  <2>5. Active' /\ Answered(stream.id)' => Load' <= 1
    <3>1. Active /\ Answered(stream.id) => Load <= 1
      BY DEF PressureInv
    <3>2. Load <= 1 => Load' <= 1
      BY <1>0, <1>l, <2>2
    <3> QED
      BY <2>3, <3>1, <3>2
  <2> QED
    BY <2>4, <2>5 DEF PressureInv
<1>2. CASE NextMessage
  <2>1. main = "is idle" /\ WriteFrame(PageSizes)
    BY <1>2 DEF NextMessage
  <2>2. Load = 0 /\ Len(Waiting) = 0
    <3>1. Load = 0
      BY <2>1 DEF PressureInv
    <3> QED
      BY <1>0, <3>1 DEF Load
  <2>3. Load' <= 1 /\ main' # "is idle"
    <3>1. Load' <= Len(Waiting) + 1 /\ main' # "is idle"
      BY <1>w, <2>1
    <3>2. PICK n \in Nat : n = Len(Waiting)
      BY <1>0
    <3>3. Load' <= n + 1 /\ n = 0
      BY <2>2, <3>1, <3>2
    <3>4. Load' <= 1
      BY <1>l, <3>3
    <3> QED
      BY <3>1, <3>4
  <2> QED
    BY <2>3 DEF PressureInv
<1>3. CASE Reply \/ LastMessage
  <2>1. WriteFrame(Sizes) /\ ~Active /\ UNCHANGED stream
    BY <1>3 DEF Reply, LastMessage, LoopInv, Phases
  <2>2. ~Active' /\ main' # "is idle"
    BY <1>w, <2>1 DEF Active
  <2> QED
    BY <2>2 DEF PressureInv
<1>4. CASE Leave \/ Ask
  <2>1. UNCHANGED <<stream, answers, current, pending, writerVars, channel>> /\ main' = "poll"
    BY <1>4 DEF Leave, Ask, Finish, AskIdle
  <2>2. Load' = Load
    BY <2>1 DEF Load, Waiting, InHand, writerVars
  <2>3. (Active' /\ Answered(stream.id)') <=> (Active /\ Answered(stream.id))
    BY <2>1 DEF Active, Answered
  <2> QED
    BY <2>1, <2>2, <2>3 DEF PressureInv
<1>5. CASE DispatchPull
  <2>1. UNCHANGED vars /\ ~Active /\ batch # <<>> /\ batch \in Seq(Event)
    BY <1>5 DEF DispatchPull, LoopInv, Phases, SessionTypes
  <2>2. Load' = Load /\ main' = main
    BY <2>1 DEF vars, mainVars, writerVars, Load, Waiting, InHand
  <2>3. batch[1].n \in KeptNums
    BY <2>1, FirstNumber DEF KeptNums
  <2>4. \A i \in DOMAIN answers : answers[i].id # batch[1].n
    BY <2>3 DEF EventInv, Fresh, Used
  <2>5. ~Active' \/ (stream'.id = batch[1].n /\ UNCHANGED answers)
    BY <1>5, <2>1 DEF DispatchPull, Active
  <2>6. ~(Active' /\ Answered(stream.id)')
    BY <2>4, <2>5 DEF Answered
  <2> QED
    BY <2>2, <2>6 DEF PressureInv
<1>6. CASE Advance
  <2>1. stream \in Streams /\ Onward(stream, stream') /\ UNCHANGED <<vars, answers>>
    BY <1>6, AdvanceEffect DEF EventInv, InOrder
  <2>2. Active /\ stream'.id = stream.id
    BY <2>1 DEF Onward, Active, Streams, NoStream
  <2> QED
    BY <1>v, <2>1, <2>2
<1>7. CASE Observe \/ NotIdle
  <2>1. stream \in Streams /\ Onward(stream, stream') /\ UNCHANGED <<vars, answers>>
    BY <1>7, ObserveEffect
  <2>2. Active /\ stream'.id = stream.id
    BY <2>1 DEF Onward, Active, Streams, NoStream
  <2> QED
    BY <1>v, <2>1, <2>2
<1>8. CASE EndStream
  <2>1. UNCHANGED vars /\ ~Active'
    BY <1>8 DEF EndStream, Active
  <2> QED
    BY <1>v, <2>1
<1>9. CASE \/ (\E k \in Kinds : Arrive(k)) \/ TakeEvent \/ Coalesce \/ CoalesceStops \/ CoalesceEnds
           \/ Dispatch \/ ObserveEnds \/ Waits \/ UNCHANGED deliveryVars
  <2>1. UNCHANGED <<vars, stream, answers>>
    BY <1>9 DEF Arrive, TakeEvent, Coalesce, CoalesceStops, CoalesceEnds, Dispatch, ObserveEnds, Waits,
       deliveryVars, loopVars
  <2>2. ~Active' \/ Active
    BY <2>1 DEF Active
  <2> QED
    BY <1>v, <2>1, <2>2
<1> QED
  BY <1>1, <1>2, <1>3, <1>4, <1>5, <1>6, <1>7, <1>8, <1>9 DEF DeliveryNext, Loop

(* A page is made only when the client has everything before it (is_idle   *)
(* before next_message): at most one message of a stream is in the queue.  *)
THEOREM ThmBackPressure == DeliverySpec => []BackPressure
<1>1. DeliverySpec => [](QueueInv /\ HeldInv)
  BY SessionUsesQueue, QueueInit, QueueStep, HeldInit, HeldStep, PTL DEF Spec
<1>2. QueueInv /\ PressureInv => BackPressure
  <2>1. ASSUME QueueInv, Load <= 1 PROVE Len(Waiting) <= 1
    BY <2>1, WaitingType DEF Load
  <2> QED
    BY <2>1 DEF PressureInv, BackPressure
<1> QED
  BY <1>1, <1>2, SessionInvariant, PressureInit, PressureStep, PTL DEF DeliverySpec
=============================================================================
