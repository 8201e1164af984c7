-------------------------- MODULE Correlation_proofs --------------------------
(***************************************************************************)
(* Proofs about Correlation, for every window, limit and bound.            *)
(*                                                                         *)
(* The inductive invariant adds two facts to the types.  EdgesOrdered: the *)
(* edges of the history, the one the PPS reader still holds and the one    *)
(* matched last are in the order in which they fired.  Overdue bounds how  *)
(* long the receiver can have been silent at each place of the main loop   *)
(* without the alarm: input that arrived in a pass is taken by the next,   *)
(* and no input is left for a third.                                       *)
(***************************************************************************)
EXTENDS Correlation, SequenceTheorems, WellFoundedInduction, TLAPS

\* a fired before b, as far as the capped ages can tell.
Before(a, b) == a > b \/ (a = EdgeAgeMax /\ b <= EdgeAgeMax)

EdgesOrdered ==
    /\ \A i, j \in 1 .. Len(ppsHist) : i < j => Before(ppsHist[i], ppsHist[j])
    /\ \A r \in 1 .. Len(reading) :
          /\ reading[r] <= EdgeAgeMax
          /\ \A i \in 1 .. Len(ppsHist) : Before(ppsHist[i], reading[r])
    /\ used < EdgeAgeMax =>
          /\ \A i \in 1 .. Len(ppsHist) : ppsHist[i] < used
          /\ \A r \in 1 .. Len(reading) : reading[r] < used

\* The longest silence at which the idle time can start to count.
Backlog == 3 * StallMax

Overdue ==
    /\ idleAlarm => cls = "holdover" /\ pc # "epoch"
    /\ pc = "wait" /\ obsQueue # <<>> => spent <= StallMax /\ silent <= StallMax + spent
    /\ pc # "wait" => spent <= StallMax /\ silent <= 2 * StallMax + spent
    /\ pc # "wait" /\ obsQueue # <<>> => silent <= spent
    /\ LoopIdle /\ ~idleAlarm =>
         IF idle < IdleLimit THEN silent <= Backlog + idle
         ELSE silent <= Backlog + IdleLimit - 1 + Capped(spent, GetTimeout)

IInv == TypeOK /\ EdgesOrdered /\ Overdue

\* The bounds as numbers.
LEMMA Bounds ==
    /\ WinMax \in Nat /\ WinMax > 0
    /\ PpsCap \in Nat /\ PpsCap > 0
    /\ QueueCap \in Nat /\ HistCap \in Nat
    /\ AgeMax \in Nat /\ AgeMax > 0
    /\ StallMax \in Nat /\ StallMax > 0
    /\ GetTimeout \in Nat /\ GetTimeout > 0
    /\ IdleLimit \in Nat /\ IdleLimit > 0
    /\ MaxLag \in Nat /\ ReadMax \in Nat
    /\ EdgeAgeMax \in Nat /\ EdgeAgeMax > AgeMax
    /\ SilentLimit \in Nat /\ SilentLimit = 3 * StallMax + IdleLimit + GetTimeout
  BY ConstantsAssumption DEF EdgeAgeMax, SilentLimit

-----------------------------------------------------------------------------
(* Sequences *)

\* The first index that qualifies.
LEMMA LeastOf ==
    ASSUME NEW T, T \subseteq Nat, T # {}
    PROVE  \E x \in T : \A y \in T : x <= y
<1> DEFINE less == OpToRel(<, Nat)
<1>1. IsWellFoundedOn(less, Nat)
  BY NatLessThanWellFounded
<1>2. \A x, y \in Nat : <<y, x>> \in less <=> y < x
  BY DEF OpToRel
<1> HIDE DEF less
<1>3. PICK x \in T : \A y \in T : ~(<<y, x>> \in less)
  BY <1>1, WFMin
<1>4. \A y \in T : ~(y < x)
  BY <1>2, <1>3
<1>5. QED
  BY <1>4

\* What is left of a sequence from its m-th element on.
LEMMA SuffixOf ==
    ASSUME NEW S, NEW s \in Seq(S), NEW m \in 1 .. Len(s) + 1
    PROVE  /\ SubSeq(s, m, Len(s)) \in Seq(S)
           /\ Len(SubSeq(s, m, Len(s))) = Len(s) + 1 - m
           /\ \A i \in 1 .. Len(s) + 1 - m :
                 /\ SubSeq(s, m, Len(s))[i] = s[m + i - 1]
                 /\ m + i - 1 \in 1 .. Len(s)
<1>1. Len(s) \in Nat /\ m \in Nat /\ m >= 1 /\ m <= Len(s) + 1
  BY LenProperties
<1>2. \A i \in m .. Len(s) : s[i] \in S
  BY <1>1, ElementOfSeq
<1>3. /\ SubSeq(s, m, Len(s)) \in Seq(S)
      /\ Len(SubSeq(s, m, Len(s))) = IF m <= Len(s) THEN Len(s) - m + 1 ELSE 0
      /\ \A i \in 1 .. Len(s) - m + 1 : SubSeq(s, m, Len(s))[i] = s[m + i - 1]
  BY <1>1, <1>2, SubSeqProperties
<1>4. \A i \in 1 .. Len(s) + 1 - m : m + i - 1 \in 1 .. Len(s)
  BY <1>1
<1>5. QED
  BY <1>1, <1>3, <1>4

\* Ageing keeps observations in range and adds none.
LEMMA OlderType ==
    ASSUME NEW s \in Seq(Obs)
    PROVE  Older(s) \in Seq(Obs) /\ Len(Older(s)) <= Len(s) /\ Len(Older(s)) \in Nat
<1> DEFINE young == {i \in 1 .. Len(s) + 1 : i = Len(s) + 1 \/ s[i].age < AgeMax}
           first == CHOOSE i \in young : \A j \in young : i <= j
           aged(i) == [s[first + i - 1] EXCEPT !.age = Capped(@ + 1, AgeMax)]
           n == Len(s) + 1 - first
<1>1. Len(s) \in Nat
  BY LenProperties
<1>2. young \subseteq Nat /\ Len(s) + 1 \in young
  BY <1>1
<1>3. first \in young
  BY <1>2, LeastOf
<1>4. first \in 1 .. Len(s) + 1
  BY <1>3
<1> HIDE DEF young, first
<1>5. n \in Nat /\ n <= Len(s)
  BY <1>1, <1>4
<1>6. \A i \in 1 .. n : aged(i) \in Obs
  <2> TAKE i \in 1 .. n
  <2>1. first + i - 1 \in 1 .. Len(s)
    BY <1>1, <1>4
  <2>2. s[first + i - 1] \in Obs
    BY <2>1, ElementOfSeq
  <2>3. Capped(s[first + i - 1].age + 1, AgeMax) \in 0 .. AgeMax
    BY <2>2, Bounds DEF Obs, Capped
  <2>4. QED
    BY <2>2, <2>3 DEF Obs
<1>7. [i \in 1 .. n |-> aged(i)] \in [1 .. n -> Obs]
  BY <1>6
<1>8. Older(s) = [i \in 1 .. n |-> aged(i)]
  BY DEF Older, young, first
<1>9. Older(s) \in Seq(Obs) /\ Len(Older(s)) = n
  <2>1. Older(s) \in [1 .. n -> Obs]
    BY <1>7, <1>8
  <2>2. Older(s) \in Seq(Obs)
    BY <1>5, <2>1, SeqDef
  <2>3. QED
    BY <1>5, <2>1, <2>2, LenProperties
<1>10. QED
  BY <1>5, <1>9

-----------------------------------------------------------------------------
(* The history of edges *)

Edges == Seq(0 .. EdgeAgeMax)

\* The sequence h is s from its (m+1)-th element on.
Cut(h, s, m) ==
    /\ h \in Edges /\ m \in 0 .. Len(s) /\ Len(h) = Len(s) - m
    /\ \A i \in 1 .. Len(h) : m + i \in 1 .. Len(s) /\ h[i] = s[m + i]

LEMMA CutBySubSeq ==
    ASSUME NEW s \in Edges, NEW m \in 0 .. Len(s)
    PROVE  Cut(SubSeq(s, m + 1, Len(s)), s, m)
<1>1. Len(s) \in Nat /\ m \in Nat /\ m + 1 \in 1 .. Len(s) + 1
  BY LenProperties DEF Edges
<1>2. /\ SubSeq(s, m + 1, Len(s)) \in Edges
      /\ Len(SubSeq(s, m + 1, Len(s))) = Len(s) + 1 - (m + 1)
      /\ \A i \in 1 .. Len(s) + 1 - (m + 1) :
            /\ SubSeq(s, m + 1, Len(s))[i] = s[m + 1 + i - 1]
            /\ m + 1 + i - 1 \in 1 .. Len(s)
  BY <1>1, SuffixOf DEF Edges
<1>3. Len(s) + 1 - (m + 1) = Len(s) - m
  BY <1>1
<1>4. \A i \in 1 .. Len(s) - m : m + 1 + i - 1 = m + i
  BY <1>1
<1>5. QED
  BY <1>2, <1>3, <1>4 DEF Cut

\* The gate leaves out the edges that are too old for the observation, and
\* keeps one whatever its age.
LEMMA PrunedIsCut ==
    ASSUME ppsHist \in Edges, NEW o \in Obs
    PROVE  \E m \in 0 .. Len(ppsHist) :
              /\ Cut(Pruned(o), ppsHist, m)
              /\ \A i \in 1 .. m : Dt(o, ppsHist[i]) > WinMax
              /\ ppsHist # <<>> =>
                   /\ Pruned(o) # <<>> /\ Len(Pruned(o)) >= 1
                   /\ Dt(o, Pruned(o)[1]) <= WinMax \/ Len(Pruned(o)) = 1
                   /\ Last(Pruned(o)) = Last(ppsHist)
<1> DEFINE n == Len(ppsHist)
           kept == {i \in DOMAIN ppsHist : Dt(o, ppsHist[i]) <= WinMax \/ i = Len(ppsHist)}
           first == CHOOSE i \in kept : \A j \in kept : i <= j
<1>1. n \in Nat /\ DOMAIN ppsHist = 1 .. n /\ \A i \in 1 .. n : ppsHist[i] \in 0 .. EdgeAgeMax
  BY LenProperties, ElementOfSeq DEF Edges
<1>2. CASE ppsHist = <<>>
  <2>1. Pruned(o) = <<>> /\ n = 0
    BY <1>2 DEF Pruned
  <2>2. Cut(Pruned(o), ppsHist, 0)
    BY <1>1, <1>2, <2>1 DEF Cut
  <2>3. QED
    BY <1>1, <1>2, <2>2
<1>3. CASE ppsHist # <<>>
  <2>1. n >= 1
    BY <1>1, <1>3, EmptySeq DEF Edges
  <2>2. n \in kept /\ kept \subseteq Nat
    BY <1>1, <2>1
  <2>3. first \in kept /\ \A j \in kept : first <= j
    BY <2>2, LeastOf
  <2>4. Pruned(o) = SubSeq(ppsHist, first, n)
    BY <1>3 DEF Pruned
  <2>5. \E f \in 1 .. n :
           /\ Pruned(o) = SubSeq(ppsHist, f, n)
           /\ Dt(o, ppsHist[f]) <= WinMax \/ f = n
           /\ \A i \in 1 .. n : i < f => ~(Dt(o, ppsHist[i]) <= WinMax)
    <3>1. /\ first \in 1 .. n /\ (Dt(o, ppsHist[first]) <= WinMax \/ first = n)
          /\ \A i \in 1 .. n : i < first => ~(Dt(o, ppsHist[i]) <= WinMax)
      BY <1>1, <2>3
    <3> HIDE DEF kept, first
    <3>2. QED
      BY <2>4, <3>1
  <2> HIDE DEF kept, first
  <2>6. PICK f \in 1 .. n :
           /\ Pruned(o) = SubSeq(ppsHist, f, n)
           /\ Dt(o, ppsHist[f]) <= WinMax \/ f = n
           /\ \A i \in 1 .. n : i < f => ~(Dt(o, ppsHist[i]) <= WinMax)
    BY <2>5
  <2>7. f - 1 \in 0 .. n /\ (f - 1) + 1 = f
    BY <1>1
  <2>8. Cut(Pruned(o), ppsHist, f - 1)
    BY <2>6, <2>7, CutBySubSeq
  <2>9. Len(Pruned(o)) = n - (f - 1) /\ Len(Pruned(o)) >= 1
    BY <1>1, <2>8 DEF Cut
  <2>10. Pruned(o)[1] = ppsHist[f]
    <3>1. 1 \in 1 .. Len(Pruned(o))
      BY <1>1, <2>9
    <3>2. QED
      BY <2>7, <2>8, <3>1 DEF Cut
  <2>11. Last(Pruned(o)) = Last(ppsHist)
    <3>1. Len(Pruned(o)) \in 1 .. Len(Pruned(o)) /\ (f - 1) + Len(Pruned(o)) = n
      BY <1>1, <2>9
    <3>2. QED
      BY <2>8, <3>1 DEF Cut, Last
  <2>12. ASSUME f = n PROVE Len(Pruned(o)) = 1
    BY <1>1, <2>9, <2>12
  <2>13. \A i \in 1 .. f - 1 : Dt(o, ppsHist[i]) > WinMax
    <3> TAKE i \in 1 .. f - 1
    <3>1. i \in 1 .. n /\ i < f
      BY <1>1
    <3>2. Dt(o, ppsHist[i]) \in Int
      BY <1>1, <3>1, Bounds DEF Dt, Obs
    <3>3. QED
      BY <2>6, <3>1, <3>2, Bounds
  <2>14. Pruned(o) # <<>>
    <3>1. Len(<<>>) = 0
      BY EmptySeq
    <3>2. Len(Pruned(o)) # 0
      BY <2>9
    <3> HIDE DEF n
    <3>3. QED
      BY <3>1, <3>2
  <2>15. QED
    BY <2>6, <2>7, <2>8, <2>9, <2>10, <2>11, <2>12, <2>13, <2>14
<1>4. QED
  BY <1>2, <1>3

\* Whatever is cut off the old end, the rest stays in order.
LEMMA CutKeepsOrder ==
    ASSUME EdgesOrdered, ppsHist \in Edges, NEW m, Cut(ppsHist', ppsHist, m),
           reading' = reading, used' = used
    PROVE  EdgesOrdered'
<1>1. Len(ppsHist) \in Nat /\ m \in Nat
  BY LenProperties DEF Edges, Cut
<1>2. \A i, j \in 1 .. Len(ppsHist') : i < j => Before(ppsHist'[i], ppsHist'[j])
  BY <1>1 DEF EdgesOrdered, Cut
<1>3. QED
  BY <1>1, <1>2 DEF EdgesOrdered, Cut, Before

\* The edges are as the other steps left them.
LEMMA OrderKept ==
    ASSUME EdgesOrdered, UNCHANGED <<ppsHist, reading, used>>
    PROVE  EdgesOrdered'
BY DEF EdgesOrdered, Before

LEMMA PurgeKeepsOrder ==
    ASSUME EdgesOrdered, TypeOK, ppsHist' = <<>>, UNCHANGED <<reading, used>>
    PROVE  EdgesOrdered'
<1>1. Len(ppsHist') = 0
  BY EmptySeq
<1>2. QED
  BY <1>1 DEF EdgesOrdered, TypeOK

\* Time passes for all edges alike; a new one is younger than each of them.
LEMMA TickKeepsOrder ==
    ASSUME EdgesOrdered, TypeOK, Tick
    PROVE  EdgesOrdered' /\ ppsHist' \in Edges /\ Len(ppsHist') = Len(ppsHist)
<1> DEFINE aged(e) == Capped(e + 1, EdgeAgeMax)
<1>1. EdgeAgeMax \in Nat /\ EdgeAgeMax > 0
  BY Bounds
<1>2. ppsHist \in Edges /\ reading \in Seq(0 .. ReadMax) /\ used \in 0 .. EdgeAgeMax
  BY DEF TypeOK, Edges
<1>3. /\ DOMAIN ppsHist = 1 .. Len(ppsHist) /\ Len(ppsHist) \in Nat
      /\ \A i \in 1 .. Len(ppsHist) : ppsHist[i] \in 0 .. EdgeAgeMax
      /\ DOMAIN reading = 1 .. Len(reading) /\ Len(reading) \in Nat
      /\ \A r \in 1 .. Len(reading) : reading[r] \in Nat
  BY <1>2, LenProperties, ElementOfSeq, Bounds DEF Edges
<1>4. \A e \in Nat : aged(e) \in 0 .. EdgeAgeMax /\ aged(e) > 0
  BY <1>1 DEF Capped
<1>5. ppsHist' = [i \in 1 .. Len(ppsHist) |-> aged(ppsHist[i])] /\ used' = aged(used)
  BY <1>3 DEF Tick, OlderEdges
<1>6. ppsHist' \in Edges /\ Len(ppsHist') = Len(ppsHist)
  <2>1. \A i \in 1 .. Len(ppsHist) : aged(ppsHist[i]) \in 0 .. EdgeAgeMax
    BY <1>3, <1>4
  <2> HIDE DEF aged
  <2>2. ppsHist' \in [1 .. Len(ppsHist) -> 0 .. EdgeAgeMax]
    BY <1>5, <2>1
  <2>3. ppsHist' \in Edges
    BY <1>3, <2>2, SeqDef DEF Edges
  <2>4. QED
    BY <1>3, <2>2, <2>3, LenProperties DEF Edges
<1>7. \A i \in 1 .. Len(ppsHist) : ppsHist'[i] = aged(ppsHist[i])
  BY <1>5
<1>8. \A a, b \in Nat : b <= EdgeAgeMax /\ Before(a, b) => Before(aged(a), aged(b))
  BY <1>1 DEF Before, Capped
<1>9. \A i, j \in 1 .. Len(ppsHist) : i < j => Before(ppsHist'[i], ppsHist'[j])
  BY <1>3, <1>7, <1>8 DEF EdgesOrdered
<1>10. used' < EdgeAgeMax => used < EdgeAgeMax /\ used' = used + 1
  BY <1>1, <1>2, <1>5 DEF Capped
<1>11. \A e \in Nat : used' < EdgeAgeMax /\ e < used => aged(e) < used'
  BY <1>1, <1>2, <1>10 DEF Capped
<1>12. CASE reading' = OlderEdges(reading)
  <2>1. reading' = [r \in 1 .. Len(reading) |-> aged(reading[r])]
    BY <1>3, <1>12 DEF OlderEdges
  <2>2. Len(reading') = Len(reading)
    <3>1. \A r \in 1 .. Len(reading) : aged(reading[r]) \in 0 .. EdgeAgeMax
      BY <1>3, <1>4
    <3> HIDE DEF aged
    <3>2. reading' \in [1 .. Len(reading) -> 0 .. EdgeAgeMax]
      BY <2>1, <3>1
    <3>3. reading' \in Edges
      BY <1>3, <3>2, SeqDef DEF Edges
    <3>4. QED
      BY <1>3, <3>2, <3>3, LenProperties DEF Edges
  <2>3. \A r \in 1 .. Len(reading) : reading'[r] = aged(reading[r])
    BY <2>1
  <2>4. \A r \in 1 .. Len(reading) :
           /\ reading'[r] <= EdgeAgeMax
           /\ \A i \in 1 .. Len(ppsHist) : Before(ppsHist'[i], reading'[r])
    BY <1>1, <1>3, <1>4, <1>7, <1>8, <2>3 DEF EdgesOrdered
  <2>5. used' < EdgeAgeMax =>
           /\ \A i \in 1 .. Len(ppsHist) : ppsHist'[i] < used'
           /\ \A r \in 1 .. Len(reading) : reading'[r] < used'
    BY <1>3, <1>7, <1>10, <1>11, <2>3 DEF EdgesOrdered
  <2>6. QED
    BY <1>6, <1>9, <2>2, <2>4, <2>5 DEF EdgesOrdered
<1>13. CASE reading' = <<0>>
  <2>1. Len(reading') = 1 /\ reading'[1] = 0
    BY <1>13
  <2>2. used' > 0 /\ \A i \in 1 .. Len(ppsHist) : ppsHist'[i] > 0
    BY <1>2, <1>3, <1>4, <1>5, <1>7
  <2>3. used' < EdgeAgeMax => \A i \in 1 .. Len(ppsHist) : ppsHist'[i] < used'
    BY <1>3, <1>7, <1>10, <1>11 DEF EdgesOrdered
  <2>4. QED
    BY <1>1, <1>6, <1>9, <2>1, <2>2, <2>3 DEF EdgesOrdered, Before
<1>14. QED
  BY <1>6, <1>12, <1>13 DEF Tick

\* The recorded edge is younger than those of the history, the oldest of
\* which may have to go.
LEMMA RecordKeepsOrder ==
    ASSUME EdgesOrdered, TypeOK, Record
    PROVE  EdgesOrdered' /\ ppsHist' \in Edges /\ Len(ppsHist') <= PpsCap
<1> DEFINE room == IF Len(ppsHist) < PpsCap THEN ppsHist ELSE Tail(ppsHist)
<1>1. ppsHist \in Edges /\ Len(ppsHist) \in Nat /\ Len(ppsHist) <= PpsCap
  BY LenProperties DEF TypeOK, Edges
<1>2. reading \in Edges /\ Len(reading) = 1
  <2>1. reading \in Seq(0 .. ReadMax) /\ Len(reading) <= 1 /\ reading # <<>>
    BY DEF TypeOK, Record
  <2>2. Len(reading) = 1
    <3>1. Len(reading) \in Nat
      BY <2>1, LenProperties
    <3>2. Len(reading) = 0 => reading = <<>>
      BY <2>1, EmptySeq
    <3>3. Len(reading) # 0
      BY <2>1, <3>2
    <3>4. Len(reading) <= 1
      BY DEF TypeOK
    <3>5. \A n \in Nat : n # 0 /\ n <= 1 => n = 1
      OBVIOUS
    <3>6. QED
      BY <3>1, <3>3, <3>4, <3>5, Zenon
  <2>3. reading[1] \in Nat
    <3>1. 1 \in 1 .. Len(reading)
      BY <2>2
    <3>2. reading[1] \in 0 .. ReadMax
      BY <2>1, <3>1, ElementOfSeq
    <3>3. QED
      BY <3>2, Bounds
  <2>4. reading \in [1 .. Len(reading) -> 0 .. EdgeAgeMax]
    BY <2>1, <2>2, <2>3, LenProperties, Bounds DEF EdgesOrdered
  <2>5. QED
    BY <2>2, <2>4, SeqDef DEF Edges
<1>3. \E m \in 0 .. 1 : Cut(room, ppsHist, m) /\ Len(room) + 1 <= PpsCap
  <2>1. CASE Len(ppsHist) < PpsCap
    <3>1. Cut(ppsHist, ppsHist, 0)
      BY <1>1 DEF Cut
    <3>2. Len(room) + 1 <= PpsCap
      BY <1>1, <2>1, Bounds
    <3>3. QED
      BY <2>1, <3>1, <3>2
  <2>2. CASE ~(Len(ppsHist) < PpsCap)
    <3>1. Len(ppsHist) = PpsCap
      BY <1>1, <2>2, Bounds
    <3>2. ppsHist # <<>>
      BY <1>1, <3>1, EmptySeq, Bounds
    <3>3. /\ Tail(ppsHist) \in Edges /\ Len(Tail(ppsHist)) = Len(ppsHist) - 1
          /\ \A i \in 1 .. Len(Tail(ppsHist)) : Tail(ppsHist)[i] = ppsHist[i + 1]
      BY <1>1, <3>2, HeadTailProperties DEF Edges
    <3>4. Cut(Tail(ppsHist), ppsHist, 1)
      BY <1>1, <3>1, <3>3, Bounds DEF Cut
    <3>5. QED
      BY <1>1, <2>2, <3>1, <3>3, <3>4, Bounds
  <2>3. QED
    BY <2>1, <2>2
<1> HIDE DEF room
<1>4. PICK m \in 0 .. 1 : Cut(room, ppsHist, m) /\ Len(room) + 1 <= PpsCap
  BY <1>3
<1>5. room \in Edges /\ Len(room) \in Nat
  BY <1>4, LenProperties DEF Cut, Edges
<1>6. ppsHist' = room \o reading /\ reading' = <<>> /\ used' = used
  BY DEF Record, Remembered, room
<1>7. /\ ppsHist' \in Edges /\ Len(ppsHist') = Len(room) + 1
      /\ \A i \in 1 .. Len(room) + 1 :
            ppsHist'[i] = IF i <= Len(room) THEN room[i] ELSE reading[i - Len(room)]
  <2>1. /\ room \o reading \in Edges
        /\ Len(room \o reading) = Len(room) + Len(reading)
        /\ \A i \in 1 .. Len(room) + Len(reading) : (room \o reading)[i] =
                 IF i <= Len(room) THEN room[i] ELSE reading[i - Len(room)]
    BY <1>2, <1>5, ConcatProperties DEF Edges
  <2>2. QED
    BY <1>2, <1>6, <2>1
<1>8. /\ Len(room) = Len(ppsHist) - m
       /\ \A i \in 1 .. Len(room) :
             m + i \in 1 .. Len(ppsHist) /\ ppsHist'[i] = ppsHist[m + i]
  <2>1. \A i \in 1 .. Len(room) : ppsHist'[i] = room[i]
    BY <1>5, <1>7
  <2>2. QED
    BY <1>4, <2>1 DEF Cut
<1>9. \A i \in 1 .. Len(room) : \E k \in 1 .. Len(ppsHist) : ppsHist'[i] = ppsHist[k]
  BY <1>8
<1>10. ppsHist'[Len(room) + 1] = reading[1]
  BY <1>5, <1>7
<1>11. \A i, j \in 1 .. Len(room) : i < j => Before(ppsHist'[i], ppsHist'[j])
  <2> TAKE i, j \in 1 .. Len(room)
  <2> HAVE i < j
  <2>1. m + i \in 1 .. Len(ppsHist) /\ m + j \in 1 .. Len(ppsHist) /\ m + i < m + j
    BY <1>5, <1>8
  <2>2. QED
    BY <1>8, <2>1 DEF EdgesOrdered
<1>12. \A i \in 1 .. Len(room) : Before(ppsHist'[i], reading[1])
  BY <1>2, <1>9 DEF EdgesOrdered
<1>13. \A i, j \in 1 .. Len(ppsHist') : i < j => Before(ppsHist'[i], ppsHist'[j])
  <2> TAKE i, j \in 1 .. Len(ppsHist')
  <2> HAVE i < j
  <2>1. i \in 1 .. Len(room) /\ (j \in 1 .. Len(room) \/ j = Len(room) + 1)
    BY <1>5, <1>7
  <2>2. QED
    BY <1>10, <1>11, <1>12, <2>1
<1>14. used' < EdgeAgeMax => \A i \in 1 .. Len(ppsHist') : ppsHist'[i] < used'
  <2>1. SUFFICES ASSUME used < EdgeAgeMax, NEW i \in 1 .. Len(ppsHist')
                 PROVE  ppsHist'[i] < used
    BY <1>6
  <2>2. i \in 1 .. Len(room) \/ i = Len(room) + 1
    BY <1>5, <1>7
  <2>3. QED
    BY <1>2, <1>9, <1>10, <2>1, <2>2 DEF EdgesOrdered
<1>15. Len(reading') = 0
  BY <1>6, EmptySeq
<1>16. QED
  BY <1>4, <1>7, <1>13, <1>14, <1>15 DEF EdgesOrdered

\* A cut of a cut is a cut.
LEMMA CutOfCut ==
    ASSUME NEW a, NEW b, NEW c, NEW k, NEW m, c \in Edges, Cut(a, b, k), Cut(b, c, m)
    PROVE  Cut(a, c, m + k)
<1>1. Len(c) \in Nat /\ Len(b) \in Nat /\ Len(a) \in Nat
  BY LenProperties DEF Cut, Edges
<1>2. m \in 0 .. Len(c) /\ k \in 0 .. Len(b) /\ Len(b) = Len(c) - m /\ Len(a) = Len(b) - k
  BY DEF Cut
<1>3. m + k \in 0 .. Len(c) /\ Len(a) = Len(c) - (m + k)
  BY <1>1, <1>2
<1>4. ASSUME NEW i \in 1 .. Len(a)
      PROVE  (m + k) + i \in 1 .. Len(c) /\ a[i] = c[(m + k) + i]
  <2>1. k + i \in 1 .. Len(b) /\ a[i] = b[k + i]
    BY DEF Cut
  <2>2. m + (k + i) \in 1 .. Len(c) /\ b[k + i] = c[m + (k + i)]
    BY <2>1 DEF Cut
  <2>3. m + (k + i) = (m + k) + i
    BY <1>1, <1>2
  <2>4. QED
    BY <2>1, <2>2, <2>3
<1>5. a \in Edges
  BY DEF Cut
<1>6. QED
  BY <1>3, <1>4, <1>5 DEF Cut

\* The best candidate is one: of the distances from the expected second there
\* is a least.
LEMMA BestIsCandidate ==
    ASSUME NEW o \in Obs, NEW h \in Edges, Candidates(o, h) # {}
    PROVE  BestOf(o, h) \in 1 .. Len(h) /\ BestOf(o, h) \in Candidates(o, h)
<1> DEFINE rank(i) == Closeness(Dt(o, h[i]))
<1>1. \A i \in Candidates(o, h) : i \in 1 .. Len(h) /\ rank(i) \in Nat
  <2> TAKE i \in Candidates(o, h)
  <2>1. i \in 1 .. Len(h)
    BY LenProperties DEF Candidates, Edges
  <2>2. h[i] \in 0 .. EdgeAgeMax
    BY <2>1, ElementOfSeq DEF Edges
  <2>3. Dt(o, h[i]) \in Int
    BY <2>2, Bounds DEF Dt, Obs
  <2>4. \A d \in Int : Closeness(d) \in Nat
    BY DEF Closeness, Expected
  <2>5. QED
    BY <2>1, <2>3, <2>4
<1> HIDE DEF rank
<1>2. PICK r \in {rank(i) : i \in Candidates(o, h)} :
         \A y \in {rank(i) : i \in Candidates(o, h)} : r <= y
  <2>1. {rank(i) : i \in Candidates(o, h)} \subseteq Nat
    BY <1>1
  <2>2. {rank(i) : i \in Candidates(o, h)} # {}
    OBVIOUS
  <2>3. QED
    BY <2>1, <2>2, LeastOf
<1>3. \E i \in Candidates(o, h) : \A j \in Candidates(o, h) : rank(i) <= rank(j)
  BY <1>2
<1>4. BestOf(o, h) = CHOOSE i \in Candidates(o, h) :
                        \A j \in Candidates(o, h) : rank(i) <= rank(j)
  BY DEF BestOf, rank
<1>5. BestOf(o, h) \in Candidates(o, h)
  BY <1>3, <1>4
<1>6. QED
  BY <1>1, <1>5

\* A match takes the edge and all older ones: what is left is younger than it.
LEMMA MatchKeepsOrder ==
    ASSUME EdgesOrdered, TypeOK, Match
    PROVE  /\ EdgesOrdered' /\ ppsHist' \in Edges /\ Len(ppsHist') <= Len(ppsHist)
           /\ used' \in 0 .. EdgeAgeMax
           /\ used < EdgeAgeMax => used' < used
<1> DEFINE o == Head(obsHist)
           h == Pruned(o)
           i == BestOf(o, h)
<1>1. o \in Obs
  BY HeadTailProperties DEF TypeOK, Match, AtHead
<1>2. ppsHist \in Edges /\ Len(ppsHist) \in Nat
  BY LenProperties DEF TypeOK, Edges
<1>3. /\ Candidates(o, h) # {} /\ ppsHist' = AfterMatch(h, i) /\ used' = h[i]
      /\ reading' = reading
  BY DEF Match
<1> HIDE DEF o
<1>4. PICK m \in 0 .. Len(ppsHist) : Cut(h, ppsHist, m)
  BY <1>1, <1>2, PrunedIsCut
<1> HIDE DEF h
<1>5. h \in Edges /\ Len(h) \in Nat
  BY <1>4, LenProperties DEF Cut, Edges
<1>6. i \in 1 .. Len(h)
  BY <1>1, <1>3, <1>5, BestIsCandidate
<1> HIDE DEF i
<1>7. Cut(ppsHist', h, i)
  <2>1. i \in 0 .. Len(h)
    BY <1>5, <1>6
  <2>2. QED
    BY <1>3, <1>5, <2>1, CutBySubSeq DEF AfterMatch
<1>8. Cut(ppsHist', ppsHist, m + i)
  BY <1>2, <1>4, <1>7, CutOfCut
<1>9. m + i \in 1 .. Len(ppsHist) /\ used' = ppsHist[m + i]
  BY <1>3, <1>4, <1>6 DEF Cut
<1>10. ppsHist[m + i] \in 0 .. EdgeAgeMax
  BY <1>2, <1>9, ElementOfSeq DEF Edges
<1>11. ppsHist' \in Edges /\ Len(ppsHist') = Len(ppsHist) - (m + i)
  BY <1>8 DEF Cut
<1>12. Len(ppsHist') \in Nat /\ m + i \in Nat /\ Len(ppsHist') <= Len(ppsHist)
  BY <1>2, <1>9, <1>11, LenProperties DEF Edges
<1>13. \A j \in 1 .. Len(ppsHist') : /\ (m + i) + j \in 1 .. Len(ppsHist)
                                     /\ ppsHist'[j] = ppsHist[(m + i) + j]
                                     /\ m + i < (m + i) + j
  BY <1>8, <1>12 DEF Cut
<1>14. \A a, b \in 1 .. Len(ppsHist') : a < b => Before(ppsHist'[a], ppsHist'[b])
  <2> TAKE a, b \in 1 .. Len(ppsHist')
  <2> HAVE a < b
  <2>1. (m + i) + a < (m + i) + b
    BY <1>12
  <2>2. QED
    BY <1>13, <2>1 DEF EdgesOrdered
<1>15. \A r \in 1 .. Len(reading) :
          /\ reading[r] <= EdgeAgeMax
          /\ \A j \in 1 .. Len(ppsHist') : Before(ppsHist'[j], reading[r])
  BY <1>13 DEF EdgesOrdered
<1>16. ASSUME used' < EdgeAgeMax
       PROVE  /\ \A j \in 1 .. Len(ppsHist') : ppsHist'[j] < used'
              /\ \A r \in 1 .. Len(reading) : reading[r] < used'
  <2>1. ppsHist[m + i] # EdgeAgeMax /\ ppsHist[m + i] \in Int
    BY <1>9, <1>10, <1>16, Bounds
  <2>2. ASSUME NEW j \in 1 .. Len(ppsHist') PROVE ppsHist'[j] < used'
    <3>1. Before(ppsHist[m + i], ppsHist'[j])
      BY <1>9, <1>13 DEF EdgesOrdered
    <3>2. ppsHist'[j] \in 0 .. EdgeAgeMax
      BY <1>11, ElementOfSeq DEF Edges
    <3>3. ppsHist'[j] \in Int
      BY <3>2, Bounds
    <3>4. QED
      BY <1>9, <2>1, <3>1, <3>3 DEF Before
  <2>3. ASSUME NEW r \in 1 .. Len(reading) PROVE reading[r] < used'
    <3>1. Before(ppsHist[m + i], reading[r])
      BY <1>9 DEF EdgesOrdered
    <3>2. reading[r] \in Int
      BY ElementOfSeq, Bounds DEF TypeOK
    <3>3. QED
      BY <1>9, <2>1, <3>1, <3>2 DEF Before
  <2>4. QED
    BY <2>2, <2>3
<1>17. used < EdgeAgeMax => used' < used
  BY <1>9 DEF EdgesOrdered
<1>18. QED
  BY <1>3, <1>9, <1>10, <1>11, <1>12, <1>14, <1>15, <1>16, <1>17 DEF EdgesOrdered

\* Without a match the gate only leaves out edges.
LEMMA PruneKeepsOrder ==
    ASSUME EdgesOrdered, TypeOK, AtHead, ppsHist' = Pruned(Head(obsHist)),
           UNCHANGED <<reading, used>>
    PROVE  EdgesOrdered' /\ ppsHist' \in Edges /\ Len(ppsHist') <= Len(ppsHist)
<1>1. Head(obsHist) \in Obs
  BY HeadTailProperties DEF TypeOK, AtHead
<1>2. ppsHist \in Edges /\ Len(ppsHist) \in Nat
  BY LenProperties DEF TypeOK, Edges
<1>3. PICK m \in 0 .. Len(ppsHist) : Cut(ppsHist', ppsHist, m)
  BY <1>1, <1>2, PrunedIsCut
<1>4. EdgesOrdered'
  BY <1>2, <1>3, CutKeepsOrder
<1>5. Len(ppsHist') = Len(ppsHist) - m /\ ppsHist' \in Edges
  BY <1>3 DEF Cut
<1>6. QED
  BY <1>2, <1>4, <1>5

\* Every step keeps the edges in order; it lets their number grow only where
\* one is recorded.
LEMMA StepKeepsOrder ==
    ASSUME EdgesOrdered, TypeOK, Next
    PROVE  EdgesOrdered' /\ ppsHist' \in Edges /\ Len(ppsHist') <= PpsCap
<1>1. ppsHist \in Edges /\ Len(ppsHist) \in Nat /\ Len(ppsHist) <= PpsCap
  BY LenProperties DEF TypeOK, Edges
<1>2. ASSUME UNCHANGED <<ppsHist, reading, used>>
      PROVE  EdgesOrdered' /\ ppsHist' \in Edges /\ Len(ppsHist') <= PpsCap
  <2>1. EdgesOrdered'
    BY <1>2, OrderKept
  <2>2. QED
    BY <1>1, <1>2, <2>1
<1>3. ASSUME ppsHist' = <<>>, UNCHANGED <<reading, used>>
      PROVE  EdgesOrdered' /\ ppsHist' \in Edges /\ Len(ppsHist') <= PpsCap
  <2>1. EdgesOrdered'
    BY <1>3, PurgeKeepsOrder
  <2>2. <<>> \in Edges /\ Len(<<>>) = 0
    BY EmptySeq DEF Edges
  <2>3. QED
    BY <1>3, <2>1, <2>2, Bounds
<1>4. ASSUME Len(ppsHist') <= Len(ppsHist), ppsHist' \in Edges
      PROVE  Len(ppsHist') <= PpsCap
  <2>1. Len(ppsHist') \in Nat
    BY <1>4, LenProperties DEF Edges
  <2>2. QED
    BY <1>1, <1>4, <2>1, Bounds
<1>5. CASE Tick
  <2>1. EdgesOrdered' /\ ppsHist' \in Edges /\ Len(ppsHist') = Len(ppsHist)
    BY <1>5, TickKeepsOrder
  <2>2. QED
    BY <1>1, <2>1
<1>6. CASE Record
  BY <1>6, RecordKeepsOrder
<1>7. CASE Deliver \/ NoObservation \/ Collect \/ DropQueued \/ Drained
  BY <1>2, <1>7 DEF Deliver, NoObservation, Collect, DropQueued, Drained
<1>8. CASE InputTimeout
  BY <1>2, <1>3, <1>8 DEF InputTimeout
<1>9. CASE Match
  BY <1>4, <1>9, MatchKeepsOrder
<1>10. CASE DropUnmatched
  BY <1>4, <1>10, PruneKeepsOrder DEF DropUnmatched
<1>11. CASE Defer
  BY <1>2, <1>4, <1>11, PruneKeepsOrder DEF Defer
<1>12. CASE Epoch
  BY <1>2, <1>3, <1>12 DEF Epoch
<1>13. QED
  BY <1>5, <1>6, <1>7, <1>8, <1>9, <1>10, <1>11, <1>12 DEF Next, MainLoop, Gate

-----------------------------------------------------------------------------
(* The silence *)

\* Time passes: whichever limit holds the loop up is not yet reached.
LEMMA TickKeepsOverdue ==
    ASSUME TypeOK, Overdue, Tick
    PROVE  Overdue'
<1>1. /\ spent \in Nat /\ spent' = spent + 1
      /\ idle \in Nat /\ idle <= IdleLimit /\ idle' = Capped(idle + 1, IdleLimit)
      /\ silent \in Nat /\ silent' = Capped(silent + 1, SilentLimit)
  BY Bounds DEF TypeOK, Tick
<1>2. pc' = pc /\ idleAlarm' = idleAlarm /\ cls' = cls
  BY DEF Tick
<1>3. silent' \in Nat /\ silent' <= silent + 1
  BY <1>1, Bounds DEF Capped
<1>4. obsQueue = <<>> => obsQueue' = <<>>
  <2>1. obsQueue' = Older(obsQueue) /\ obsQueue \in Seq(Obs)
    BY DEF Tick, TypeOK
  <2>2. /\ Older(obsQueue) \in Seq(Obs)
        /\ Len(Older(obsQueue)) <= Len(obsQueue) /\ Len(Older(obsQueue)) \in Nat
    BY <2>1, OlderType
  <2>3. Len(Older(obsQueue)) = 0 => Older(obsQueue) = <<>>
    BY <2>2, EmptySeq
  <2>4. Len(obsQueue) \in Nat /\ (obsQueue = <<>> => Len(obsQueue) = 0)
    BY <2>1, EmptySeq, LenProperties
  <2>5. obsQueue = <<>> => Len(Older(obsQueue)) = 0
    BY <2>2, <2>4
  <2>6. QED
    BY <2>1, <2>3, <2>5
<1>5. LoopIdle => spent < GetTimeout
  BY DEF Tick
<1>6. ~LoopIdle => spent < StallMax
  BY DEF Tick
<1>7. Backlog \in Nat /\ Backlog = 3 * StallMax
  BY Bounds DEF Backlog
<1>8. (idleAlarm => cls = "holdover" /\ pc # "epoch")'
  BY <1>2 DEF Overdue
<1>9. (pc = "wait" /\ obsQueue # <<>> => spent <= StallMax /\ silent <= StallMax + spent)'
  <2>1. SUFFICES ASSUME pc = "wait", obsQueue # <<>>
                 PROVE  spent + 1 <= StallMax /\ silent' <= StallMax + (spent + 1)
    BY <1>1, <1>2, <1>4
  <2>2. spent < StallMax /\ silent <= StallMax + spent
    BY <1>6, <2>1 DEF LoopIdle, Overdue
  <2>3. QED
    BY <1>1, <1>3, <2>2, Bounds
<1>10. (pc # "wait" => spent <= StallMax /\ silent <= 2 * StallMax + spent)'
  <2>1. SUFFICES ASSUME pc # "wait"
                 PROVE  spent + 1 <= StallMax /\ silent' <= 2 * StallMax + (spent + 1)
    BY <1>1, <1>2
  <2>2. spent < StallMax /\ silent <= 2 * StallMax + spent
    BY <1>6, <2>1 DEF LoopIdle, Overdue
  <2>3. QED
    BY <1>1, <1>3, <2>2, Bounds
<1>11. (pc # "wait" /\ obsQueue # <<>> => silent <= spent)'
  <2>1. SUFFICES ASSUME pc # "wait", obsQueue # <<>>
                 PROVE  silent' <= spent + 1
    BY <1>1, <1>2, <1>4
  <2>2. silent <= spent
    BY <2>1 DEF Overdue
  <2>3. QED
    BY <1>1, <1>3, <2>2
<1>12. (LoopIdle /\ ~idleAlarm =>
         IF idle < IdleLimit THEN silent <= Backlog + idle
         ELSE silent <= Backlog + IdleLimit - 1 + Capped(spent, GetTimeout))'
  <2>1. SUFFICES ASSUME pc = "wait", ~idleAlarm
                 PROVE  IF idle' < IdleLimit THEN silent' <= Backlog + idle'
                        ELSE silent' <= Backlog + IdleLimit - 1 + Capped(spent', GetTimeout)
    BY <1>2 DEF LoopIdle, Backlog, Capped
  <2>2. CASE obsQueue # <<>>
    <3>1. spent < StallMax /\ silent <= StallMax + spent
      BY <1>6, <2>1, <2>2 DEF LoopIdle, Overdue
    <3>2. silent' <= Backlog
      BY <1>1, <1>3, <1>7, <3>1, Bounds
    <3>3. QED
      BY <1>1, <1>3, <1>7, <3>2, Bounds DEF Capped
  <2>3. CASE obsQueue = <<>>
    <3>1. /\ spent < GetTimeout
          /\ IF idle < IdleLimit THEN silent <= Backlog + idle
             ELSE silent <= Backlog + IdleLimit - 1 + Capped(spent, GetTimeout)
      BY <1>5, <2>1, <2>3 DEF LoopIdle, Overdue
    <3>2. QED
      BY <1>1, <1>3, <1>7, <3>1, Bounds DEF Capped
  <2>4. QED
    BY <2>2, <2>3
<1>13. QED
  BY <1>8, <1>9, <1>10, <1>11, <1>12 DEF Overdue

\* The counts as numbers, for the steps that take no time.
LEMMA Counts ==
    ASSUME TypeOK
    PROVE  /\ spent \in Nat /\ silent \in Nat /\ silent <= SilentLimit
           /\ idle \in Nat /\ idle <= IdleLimit
           /\ Backlog \in Nat /\ Backlog = 3 * StallMax
           /\ \A n \in Nat : Capped(n, GetTimeout) \in Nat /\ Capped(n, GetTimeout) <= GetTimeout
BY Bounds DEF TypeOK, Backlog, Capped

\* A step within the pass, or the match that makes it an epoch.
LEMMA PassKeepsOverdue ==
    ASSUME TypeOK, Overdue, pc # "wait", pc' # "wait",
           UNCHANGED <<obsQueue, spent, silent, cls>>,
           idleAlarm' => idleAlarm /\ pc' # "epoch"
    PROVE  Overdue'
BY DEF Overdue, LoopIdle

\* The pass ends: what arrived in it is at most as old as the pass, and if
\* nothing did the silence is not longer than a stretch and two passes.
LEMMA PassEndKeepsOverdue ==
    ASSUME TypeOK, Overdue, pc # "wait", pc' = "wait", spent' = 0,
           UNCHANGED <<obsQueue, idle, silent, idleAlarm>>,
           idleAlarm => cls' = "holdover"
    PROVE  Overdue'
<1>1. spent <= StallMax /\ silent <= 2 * StallMax + spent
  BY DEF Overdue
<1>2. obsQueue # <<>> => silent <= spent
  BY DEF Overdue
<1>3. silent <= Backlog
  BY <1>1, Counts, Bounds
<1>4. obsQueue # <<>> => silent <= StallMax + 0
  BY <1>1, <1>2, Counts, Bounds
<1>5. IF idle < IdleLimit THEN silent <= Backlog + idle
      ELSE silent <= Backlog + IdleLimit - 1 + Capped(0, GetTimeout)
  BY <1>3, Counts, Bounds
<1>6. /\ obsQueue' = obsQueue /\ idle' = idle /\ silent' = silent /\ idleAlarm' = idleAlarm
      /\ 0 <= StallMax
  BY Bounds
<1>7. (idleAlarm => cls = "holdover" /\ pc # "epoch")'
  BY <1>6
<1>8. (pc = "wait" /\ obsQueue # <<>> => spent <= StallMax /\ silent <= StallMax + spent)'
  BY <1>4, <1>6
<1>9. (LoopIdle /\ ~idleAlarm =>
         IF idle < IdleLimit THEN silent <= Backlog + idle
         ELSE silent <= Backlog + IdleLimit - 1 + Capped(spent, GetTimeout))'
  <2>1. (IF idle < IdleLimit THEN silent <= Backlog + idle
         ELSE silent <= Backlog + IdleLimit - 1 + Capped(spent, GetTimeout))'
    BY <1>5, <1>6 DEF Backlog, Capped
  <2>2. QED
    BY <2>1
<1>10. QED
  BY <1>7, <1>8, <1>9 DEF Overdue

LEMMA DeliverKeepsOverdue ==
    ASSUME TypeOK, Overdue, Deliver
    PROVE  Overdue'
<1>1. silent' = 0 /\ UNCHANGED <<pc, cls, idleAlarm>>
  BY DEF Deliver
<1>2. obsQueue' # <<>>
  <2>1. PICK queued \in BOOLEAN :
           obsQueue' = Append(obsQueue, [age |-> 0, lag |-> due, queued |-> queued])
    BY DEF Deliver
  <2>2. obsQueue \in Seq(Obs) /\ due \in 0 .. MaxLag
    BY Bounds DEF TypeOK, Deliver
  <2>3. [age |-> 0, lag |-> due, queued |-> queued] \in Obs
    BY <2>2, Bounds DEF Obs
  <2>4. QED
    BY <2>1, <2>2, <2>3, AppendProperties
<1>3. spent' \in Nat /\ spent' <= StallMax
  <2>1. CASE LoopIdle
    BY <2>1, Bounds DEF Deliver
  <2>2. CASE ~LoopIdle
    <3>1. spent' = spent
      BY <2>2 DEF Deliver
    <3>2. spent <= StallMax
      BY <2>2 DEF LoopIdle, Overdue
    <3>3. QED
      BY <3>1, <3>2, Counts
  <2>3. QED
    BY <2>1, <2>2
<1>4. 0 <= StallMax + spent' /\ 0 <= 2 * StallMax + spent' /\ 0 <= spent'
  <2>1. StallMax \in Nat
    BY Bounds
  <2>2. \A a, b \in Nat : 0 <= a + b /\ 0 <= 2 * a + b /\ 0 <= b
    OBVIOUS
  <2>3. QED
    BY <1>3, <2>1, <2>2
<1>5. (idleAlarm => cls = "holdover" /\ pc # "epoch")'
  BY <1>1 DEF Overdue
<1>6. QED
  BY <1>1, <1>2, <1>3, <1>4, <1>5 DEF Overdue, LoopIdle

LEMMA CollectKeepsOverdue ==
    ASSUME TypeOK, Overdue, Collect
    PROVE  Overdue'
<1>1. spent <= StallMax /\ silent <= StallMax + spent
  BY DEF Collect, Overdue
<1>2. /\ spent' = 0 /\ silent' = silent /\ pc' = "drain" /\ obsQueue' = <<>>
      /\ UNCHANGED <<cls, idleAlarm>>
  BY DEF Collect
<1>3. 0 <= StallMax /\ silent <= 2 * StallMax + 0
  BY <1>1, Counts, Bounds
<1>4. QED
  BY <1>2, <1>3 DEF Overdue, LoopIdle

\* The wait is over.  If the alarm is not raised, the idle limit is not up.
LEMMA TimeoutKeepsOverdue ==
    ASSUME TypeOK, Overdue, InputTimeout
    PROVE  Overdue'
<1>1. /\ pc = "wait" /\ obsQueue = <<>> /\ spent' = 0
      /\ UNCHANGED <<obsQueue, pc, idle, silent>>
  BY DEF InputTimeout, LoopIdle
<1>2. CASE idle >= IdleLimit /\ ~idleAlarm
  <2>1. idleAlarm' = TRUE /\ cls' = "holdover"
    BY <1>2 DEF InputTimeout
  <2>2. QED
    BY <1>1, <2>1 DEF Overdue, LoopIdle
<1>3. CASE ~(idle >= IdleLimit /\ ~idleAlarm)
  <2>1. UNCHANGED <<idleAlarm, cls>>
    BY <1>3 DEF InputTimeout
  <2>2. (idleAlarm => cls = "holdover" /\ pc # "epoch")'
    BY <1>1, <2>1 DEF Overdue
  <2>3. ASSUME ~idleAlarm PROVE idle < IdleLimit /\ silent <= Backlog + idle
    <3>1. idle < IdleLimit
      BY <1>3, <2>3, Counts, Bounds
    <3>2. QED
      BY <1>1, <2>3, <3>1 DEF Overdue, LoopIdle
  <2>4. (LoopIdle /\ ~idleAlarm =>
           IF idle < IdleLimit THEN silent <= Backlog + idle
           ELSE silent <= Backlog + IdleLimit - 1 + Capped(spent, GetTimeout))'
    BY <1>1, <2>1, <2>3 DEF Backlog
  <2>5. QED
    BY <1>1, <2>2, <2>4 DEF Overdue
<1>4. QED
  BY <1>2, <1>3

LEMMA StepKeepsOverdue ==
    ASSUME TypeOK, Overdue, Next
    PROVE  Overdue'
<1>1. CASE Tick
  BY <1>1, TickKeepsOverdue
<1>2. CASE Record \/ NoObservation
  BY <1>2 DEF Record, NoObservation, loopVars, Overdue, LoopIdle, Backlog, Capped
<1>3. CASE Deliver
  BY <1>3, DeliverKeepsOverdue
<1>4. CASE Collect
  BY <1>4, CollectKeepsOverdue
<1>5. CASE InputTimeout
  BY <1>5, TimeoutKeepsOverdue
<1>6. CASE DropQueued \/ Drained \/ DropUnmatched
  <2>1. /\ pc # "wait" /\ pc' # "wait" /\ UNCHANGED <<obsQueue, spent, silent, cls>>
        /\ idleAlarm' => idleAlarm /\ pc' # "epoch"
    BY <1>6 DEF DropQueued, Drained, DropUnmatched, AtHead, loopVars
  <2>2. QED
    BY <2>1, PassKeepsOverdue
<1>7. CASE Match
  <2>1. /\ pc # "wait" /\ pc' # "wait" /\ UNCHANGED <<obsQueue, spent, silent, cls>>
        /\ idleAlarm' => idleAlarm /\ pc' # "epoch"
    BY <1>7 DEF Match, AtHead, AlarmAfterUse
  <2>2. QED
    BY <2>1, PassKeepsOverdue
<1>8. CASE Defer
  <2>1. /\ pc # "wait" /\ pc' = "wait" /\ spent' = 0
        /\ UNCHANGED <<obsQueue, idle, silent, idleAlarm, cls>>
    BY <1>8 DEF Defer
  <2>2. idleAlarm => cls' = "holdover"
    BY <2>1 DEF Overdue
  <2>3. QED
    BY <2>1, <2>2, PassEndKeepsOverdue
<1>9. CASE Epoch
  <2>1. /\ pc = "epoch" /\ pc' = "wait" /\ spent' = 0
        /\ UNCHANGED <<obsQueue, idle, silent, idleAlarm>>
    BY <1>9 DEF Epoch
  <2>2. ~idleAlarm
    BY <2>1 DEF Overdue
  <2>3. pc # "wait"
    BY <2>1
  <2>4. QED
    BY <2>1, <2>2, <2>3, PassEndKeepsOverdue
<1>10. QED
  BY <1>1, <1>2, <1>3, <1>4, <1>5, <1>6, <1>7, <1>8, <1>9 DEF Next, MainLoop, Gate

-----------------------------------------------------------------------------
(* The types *)

\* The queues between the reader thread and the gate, and what is due.
QueuesTyped ==
    /\ due \in -2 .. MaxLag
    /\ obsQueue \in Seq(Obs) /\ Len(obsQueue) <= QueueCap
    /\ obsHist \in Seq(Obs) /\ Len(obsQueue) + Len(obsHist) <= HistCap

\* The edge on its way into the history.
ReadingTyped == reading \in Seq(0 .. ReadMax) /\ Len(reading) <= 1

\* Everything else but the history of edges.
LoopTyped ==
    /\ anchored \in BOOLEAN /\ idleAlarm \in BOOLEAN
    /\ pc \in {"wait", "drain", "gate", "epoch"}
    /\ spent \in Nat /\ idle \in 0 .. IdleLimit
    /\ cls \in {"initialized", "locked", "holdover"}
    /\ silent \in 0 .. SilentLimit
    /\ used \in 0 .. EdgeAgeMax

LEMMA TypeParts ==
    TypeOK <=> /\ QueuesTyped /\ ReadingTyped /\ LoopTyped
               /\ ppsHist \in Edges /\ Len(ppsHist) <= PpsCap
BY DEF TypeOK, QueuesTyped, ReadingTyped, LoopTyped, Edges

\* An observation leaves at the head of what the main loop has taken.
LEMMA HeadLeaves ==
    ASSUME QueuesTyped, obsHist # <<>>, obsHist' = Tail(obsHist),
           UNCHANGED <<due, obsQueue>>
    PROVE  QueuesTyped'
<1>1. /\ obsHist' \in Seq(Obs) /\ Len(obsHist') = Len(obsHist) - 1
  BY HeadTailProperties DEF QueuesTyped
<1>2. Len(obsQueue) \in Nat /\ Len(obsHist) \in Nat /\ Len(obsQueue) + Len(obsHist) <= HistCap
  BY LenProperties DEF QueuesTyped
<1>3. Len(obsQueue) + Len(obsHist') <= HistCap
  BY <1>1, <1>2, Bounds
<1>4. QED
  BY <1>1, <1>3 DEF QueuesTyped

LEMMA StepKeepsQueues ==
    ASSUME QueuesTyped, Next
    PROVE  QueuesTyped'
<1>1. /\ obsQueue \in Seq(Obs) /\ Len(obsQueue) \in Nat
      /\ obsHist \in Seq(Obs) /\ Len(obsHist) \in Nat
  BY LenProperties DEF QueuesTyped
<1>2. /\ due \in Int /\ due >= -2 /\ due <= MaxLag
      /\ Len(obsQueue) <= QueueCap /\ Len(obsQueue) + Len(obsHist) <= HistCap
  BY Bounds DEF QueuesTyped
<1>3. CASE Tick
  <2>1. due' \in -2 .. MaxLag
    <3>1. due < MaxLag /\ due' = due + 1
      BY <1>3 DEF Tick
    <3>2. QED
      BY <1>2, <3>1, Bounds
  <2>2. obsQueue' = Older(obsQueue) /\ obsHist' = Older(obsHist)
    BY <1>3 DEF Tick
  <2>3. /\ obsQueue' \in Seq(Obs) /\ Len(obsQueue') \in Nat /\ Len(obsQueue') <= Len(obsQueue)
        /\ obsHist' \in Seq(Obs) /\ Len(obsHist') \in Nat /\ Len(obsHist') <= Len(obsHist)
    BY <1>1, <2>2, OlderType
  <2>4. Len(obsQueue') <= QueueCap /\ Len(obsQueue') + Len(obsHist') <= HistCap
    BY <1>1, <1>2, <2>3, Bounds
  <2>5. QED
    BY <2>1, <2>3, <2>4 DEF QueuesTyped
<1>4. CASE Deliver
  <2>1. /\ due >= 0 /\ due' = due - 2 /\ obsHist' = obsHist
        /\ Len(obsQueue) < QueueCap /\ Len(obsQueue) + Len(obsHist) < HistCap
    BY <1>4 DEF Deliver
  <2>2. PICK queued \in BOOLEAN :
           obsQueue' = Append(obsQueue, [age |-> 0, lag |-> due, queued |-> queued])
    BY <1>4 DEF Deliver
  <2>3. [age |-> 0, lag |-> due, queued |-> queued] \in Obs
    BY <1>2, <2>1, Bounds DEF Obs
  <2>4. obsQueue' \in Seq(Obs) /\ Len(obsQueue') = Len(obsQueue) + 1
    BY <1>1, <2>2, <2>3, AppendProperties
  <2>5. Len(obsQueue') <= QueueCap /\ Len(obsQueue') + Len(obsHist) <= HistCap
    BY <1>1, <2>1, <2>4, Bounds
  <2>6. due' \in -2 .. MaxLag
    BY <1>2, <2>1, Bounds
  <2>7. QED
    BY <1>1, <2>1, <2>4, <2>5, <2>6 DEF QueuesTyped
<1>5. CASE NoObservation
  <2>1. due >= 0 /\ due' = due - 2 /\ UNCHANGED <<obsQueue, obsHist>>
    BY <1>5 DEF NoObservation
  <2>2. due' \in -2 .. MaxLag
    BY <1>2, <2>1, Bounds
  <2>3. QED
    BY <2>1, <2>2 DEF QueuesTyped
<1>6. CASE Collect
  <2>1. obsHist' = obsHist \o obsQueue /\ obsQueue' = <<>> /\ due' = due
    BY <1>6 DEF Collect
  <2>2. obsHist' \in Seq(Obs) /\ Len(obsHist') = Len(obsHist) + Len(obsQueue)
    BY <1>1, <2>1, ConcatProperties
  <2>3. obsQueue' \in Seq(Obs) /\ Len(obsQueue') = 0
    BY <2>1, EmptySeq
  <2>4. Len(obsQueue') <= QueueCap /\ Len(obsQueue') + Len(obsHist') <= HistCap
    BY <1>1, <1>2, <2>2, <2>3, Bounds
  <2>5. QED
    BY <2>1, <2>2, <2>3, <2>4 DEF QueuesTyped
<1>7. CASE DropQueued
  <2>1. obsHist # <<>>
    <3>1. ToDrain
      BY <1>7 DEF DropQueued
    <3>2. Len(obsHist) > 1
      BY <3>1 DEF ToDrain
    <3>3. obsHist = <<>> => Len(obsHist) = 0
      BY EmptySeq
    <3>4. QED
      BY <3>2, <3>3
  <2>2. QED
    BY <1>7, <2>1, HeadLeaves DEF DropQueued
<1>8. CASE Match \/ DropUnmatched
  BY <1>8, HeadLeaves DEF Match, DropUnmatched, AtHead
<1>9. CASE Record \/ InputTimeout \/ Drained \/ Defer \/ Epoch
  <2>1. UNCHANGED <<due, obsQueue, obsHist>>
    BY <1>9 DEF Record, InputTimeout, Drained, Defer, Epoch
  <2>2. QED
    BY <2>1 DEF QueuesTyped
<1>10. QED
  BY <1>3, <1>4, <1>5, <1>6, <1>7, <1>8, <1>9 DEF Next, MainLoop, Gate

LEMMA StepKeepsReading ==
    ASSUME ReadingTyped, Next
    PROVE  ReadingTyped'
<1>1. CASE Tick
  <2>1. CASE reading' = <<0>>
    BY <2>1, Bounds DEF ReadingTyped
  <2>2. CASE ~(reading' = <<0>>)
    <3>1. /\ \A i \in DOMAIN reading : reading[i] < ReadMax
          /\ reading' = OlderEdges(reading)
      BY <1>1, <2>2 DEF Tick
    <3>2. /\ reading \in Seq(0 .. ReadMax) /\ Len(reading) \in Nat /\ Len(reading) <= 1
          /\ DOMAIN reading = 1 .. Len(reading)
          /\ \A i \in 1 .. Len(reading) : reading[i] \in 0 .. ReadMax
      BY LenProperties, ElementOfSeq DEF ReadingTyped
    <3>3. \A i \in 1 .. Len(reading) : Capped(reading[i] + 1, EdgeAgeMax) \in 0 .. ReadMax
      <4> TAKE i \in 1 .. Len(reading)
      <4>1. reading[i] \in Nat /\ reading[i] < ReadMax
        BY <3>1, <3>2, Bounds
      <4>2. \A e, cap \in Nat : e < ReadMax => (IF e + 1 < cap THEN e + 1 ELSE cap) \in 0 .. ReadMax
        BY Bounds
      <4>3. QED
        BY <4>1, <4>2, Bounds DEF Capped
    <3>4. reading' \in [1 .. Len(reading) -> 0 .. ReadMax]
      BY <3>1, <3>2, <3>3 DEF OlderEdges
    <3>5. reading' \in Seq(0 .. ReadMax)
      BY <3>2, <3>4, SeqDef
    <3>6. Len(reading') = Len(reading)
      BY <3>2, <3>4, <3>5, LenProperties
    <3>7. QED
      BY <3>2, <3>5, <3>6 DEF ReadingTyped
  <2>3. QED
    BY <2>1, <2>2
<1>2. CASE Record
  <2>1. reading' = <<>>
    BY <1>2 DEF Record
  <2>2. reading' \in Seq(0 .. ReadMax) /\ Len(reading') = 0
    BY <2>1, EmptySeq
  <2>3. QED
    BY <2>2 DEF ReadingTyped
<1>3. CASE ~Tick /\ ~Record
  <2>1. reading' = reading
    BY <1>3 DEF Next, MainLoop, Gate, Deliver, NoObservation, Collect, InputTimeout,
                DropQueued, Drained, Match, DropUnmatched, Defer, Epoch
  <2>2. QED
    BY <2>1 DEF ReadingTyped
<1>4. QED
  BY <1>1, <1>2, <1>3

LEMMA StepKeepsLoop ==
    ASSUME TypeOK, EdgesOrdered, Next
    PROVE  LoopTyped'
<1>1. LoopTyped
  BY TypeParts
<1>2. \A n, cap \in Nat : Capped(n + 1, cap) \in 0 .. cap
  BY DEF Capped
<1>3. CASE Tick
  <2>1. /\ spent' = spent + 1 /\ idle' = Capped(idle + 1, IdleLimit)
        /\ silent' = Capped(silent + 1, SilentLimit) /\ used' = Capped(used + 1, EdgeAgeMax)
        /\ UNCHANGED <<anchored, pc, idleAlarm, cls>>
    BY <1>3 DEF Tick
  <2>2. spent \in Nat /\ idle \in Nat /\ silent \in Nat /\ used \in Nat
    BY <1>1, Bounds DEF LoopTyped
  <2>3. spent' \in Nat
    BY <2>1, <2>2
  <2>4. idle' \in 0 .. IdleLimit /\ silent' \in 0 .. SilentLimit /\ used' \in 0 .. EdgeAgeMax
    BY <1>2, <2>1, <2>2, Bounds
  <2>5. QED
    BY <1>1, <2>1, <2>3, <2>4 DEF LoopTyped
<1>4. CASE Deliver
  <2>1. /\ silent' = 0 /\ spent' \in {0, spent}
        /\ UNCHANGED <<anchored, pc, idle, idleAlarm, cls, used>>
    BY <1>4 DEF Deliver
  <2>2. silent' \in 0 .. SilentLimit
    BY <2>1, Bounds
  <2>3. QED
    BY <1>1, <2>1, <2>2 DEF LoopTyped
<1>5. CASE Match
  <2>1. used' \in 0 .. EdgeAgeMax
    BY <1>5, MatchKeepsOrder
  <2>2. UNCHANGED <<spent, cls, silent>>
    BY <1>5 DEF Match
  <2>3. \/ anchored' = TRUE /\ pc' = "epoch" /\ idle' = 0 /\ idleAlarm' = FALSE
        \/ UNCHANGED <<anchored, pc, idle, idleAlarm>>
    BY <1>5 DEF Match, AlarmAfterUse
  <2>4. 0 \in 0 .. IdleLimit
    BY Bounds
  <2>5. QED
    BY <1>1, <2>1, <2>2, <2>3, <2>4 DEF LoopTyped
<1>6. CASE Collect \/ DropQueued \/ Drained \/ DropUnmatched \/ Defer
  <2>1. /\ UNCHANGED <<anchored, idle, idleAlarm, cls, silent, used>>
        /\ spent' \in {0, spent}
        /\ pc' \in {pc, "wait", "drain", "gate"}
    BY <1>6 DEF Collect, DropQueued, Drained, DropUnmatched, Defer, loopVars
  <2>2. QED
    BY <1>1, <2>1 DEF LoopTyped
<1>7. CASE InputTimeout \/ Epoch
  <2>1. /\ UNCHANGED <<anchored, idle, silent, used>> /\ spent' = 0
        /\ idleAlarm' \in {TRUE, idleAlarm} /\ pc' \in {pc, "wait"}
        /\ cls' \in {cls, "initialized", "locked", "holdover"}
    BY <1>7 DEF InputTimeout, Epoch
  <2>2. QED
    BY <1>1, <2>1 DEF LoopTyped
<1>8. CASE Record \/ NoObservation
  <2>1. UNCHANGED <<anchored, loopVars, silent, used>>
    BY <1>8 DEF Record, NoObservation
  <2>2. QED
    BY <1>1, <2>1 DEF LoopTyped, loopVars
<1>9. QED
  BY <1>3, <1>4, <1>5, <1>6, <1>7, <1>8 DEF Next, MainLoop, Gate

-----------------------------------------------------------------------------
(* The invariant *)

LEMMA InitIInv == Init => IInv
<1> SUFFICES ASSUME Init PROVE IInv
  OBVIOUS
<1>1. /\ <<>> \in Seq(Obs) /\ <<>> \in Edges /\ <<>> \in Seq(0 .. ReadMax) /\ Len(<<>>) = 0
  BY EmptySeq DEF Edges
<1>2. QueuesTyped
  BY <1>1, Bounds DEF Init, QueuesTyped
<1>3. ReadingTyped
  BY <1>1 DEF Init, ReadingTyped
<1>4. LoopTyped
  <2>1. 0 \in 0 .. IdleLimit /\ 0 \in 0 .. SilentLimit /\ EdgeAgeMax \in 0 .. EdgeAgeMax
    BY Bounds
  <2>2. FALSE \in BOOLEAN /\ 0 \in Nat
    OBVIOUS
  <2>3. QED
    BY <2>1, <2>2 DEF Init, LoopTyped
<1>5. TypeOK
  BY <1>1, <1>2, <1>3, <1>4, TypeParts, Bounds DEF Init
<1>6. EdgesOrdered
  BY <1>1 DEF Init, EdgesOrdered
<1>7. Overdue
  <2>1. silent = 0 /\ idle = 0 /\ Backlog \in Nat /\ 0 <= Backlog + 0 /\ 0 < IdleLimit
    BY <1>5, Counts, Bounds DEF Init
  <2>2. QED
    BY <2>1 DEF Init, Overdue, LoopIdle
<1>8. QED
  BY <1>5, <1>6, <1>7 DEF IInv

LEMMA StepIInv == IInv /\ [Next]_vars => IInv'
<1> SUFFICES ASSUME IInv, [Next]_vars PROVE IInv'
  OBVIOUS
<1>1. CASE Next
  <2>1. QueuesTyped' /\ ReadingTyped'
    BY <1>1, TypeParts, StepKeepsQueues, StepKeepsReading DEF IInv
  <2>2. LoopTyped'
    BY <1>1, StepKeepsLoop DEF IInv
  <2>3. EdgesOrdered' /\ ppsHist' \in Edges /\ Len(ppsHist') <= PpsCap
    BY <1>1, StepKeepsOrder DEF IInv
  <2>4. TypeOK'
    BY <2>1, <2>2, <2>3 DEF TypeOK, QueuesTyped, ReadingTyped, LoopTyped, Edges
  <2>5. Overdue'
    BY <1>1, StepKeepsOverdue DEF IInv
  <2>6. QED
    BY <2>3, <2>4, <2>5 DEF IInv
<1>2. CASE UNCHANGED vars
  BY <1>2 DEF IInv, vars, loopVars, TypeOK, EdgesOrdered, Overdue, LoopIdle, Before, Backlog,
              Capped
<1>3. QED
  BY <1>1, <1>2

LEMMA Invariance == Spec => []IInv
BY InitIInv, StepIInv, PTL DEF Spec

\* The queues, the histories and the loop's counts stay in their ranges: the
\* deque of edges never outgrows its length, nor the queue its size.
THEOREM TypeCorrect == Spec => []TypeOK
<1>1. IInv => TypeOK
  BY DEF IInv
<1>2. QED
  BY <1>1, Invariance, PTL

\* A receiver silent for SilentLimit has the clock in holdover: wherever the
\* main loop then is, without the alarm the silence would be shorter.
THEOREM SilenceHeldOver == Spec => []SilenceIsHoldover
<1>1. IInv => SilenceIsHoldover
  <2> SUFFICES ASSUME IInv, silent = SilentLimit
               PROVE  cls = "holdover"
    BY DEF SilenceIsHoldover
  <2>1. TypeOK /\ Overdue
    BY DEF IInv
  <2>2. /\ spent \in Nat /\ idle \in Nat /\ idle <= IdleLimit
        /\ Backlog \in Nat /\ Backlog = 3 * StallMax
        /\ Capped(spent, GetTimeout) \in Nat /\ Capped(spent, GetTimeout) <= GetTimeout
    BY <2>1, Counts
  <2>3. pc = "wait"
    <3>1. SUFFICES ASSUME pc # "wait" PROVE FALSE
      OBVIOUS
    <3>2. spent <= StallMax /\ silent <= 2 * StallMax + spent
      BY <2>1, <3>1 DEF Overdue
    <3>3. QED
      BY <2>2, <3>2, Bounds
  <2>4. obsQueue = <<>>
    <3>1. SUFFICES ASSUME obsQueue # <<>> PROVE FALSE
      OBVIOUS
    <3>2. spent <= StallMax /\ silent <= StallMax + spent
      BY <2>1, <2>3, <3>1 DEF Overdue
    <3>3. QED
      BY <2>2, <3>2, Bounds
  <2>5. idleAlarm
    <3>1. SUFFICES ASSUME ~idleAlarm PROVE FALSE
      OBVIOUS
    <3>2. IF idle < IdleLimit THEN silent <= Backlog + idle
          ELSE silent <= Backlog + IdleLimit - 1 + Capped(spent, GetTimeout)
      BY <2>1, <2>3, <2>4, <3>1 DEF Overdue, LoopIdle
    <3>3. QED
      BY <2>2, <3>2, Bounds
  <2>6. QED
    BY <2>1, <2>5 DEF Overdue
<1>2. QED
  BY <1>1, Invariance, PTL

\* Of two matches the later uses the later edge.
THEOREM LaterEdges == Spec => EdgesAdvance
<1>1. IInv /\ [Next]_vars => [Match /\ used < EdgeAgeMax => used' < used]_vars
  BY MatchKeepsOrder DEF IInv
<1>2. QED
  BY <1>1, Invariance, PTL DEF Spec, EdgesAdvance

\* The edge the PPS reader still holds came after all that are recorded.
LEMMA ReadingAfterLast ==
    ASSUME EdgesOrdered, TypeOK, ppsHist # <<>>, NEW r \in 1 .. Len(reading)
    PROVE  /\ Last(ppsHist) \in 0 .. EdgeAgeMax /\ reading[r] \in Nat
           /\ Last(ppsHist) < EdgeAgeMax => reading[r] < Last(ppsHist)
<1>1. ppsHist \in Seq(0 .. EdgeAgeMax) /\ reading \in Seq(0 .. ReadMax)
  BY DEF TypeOK
<1>2. Len(ppsHist) \in 1 .. Len(ppsHist)
  BY <1>1, EmptySeq
<1>3. Last(ppsHist) = ppsHist[Len(ppsHist)]
  BY DEF Last
<1>4. Last(ppsHist) \in 0 .. EdgeAgeMax
  BY <1>1, <1>2, <1>3, ElementOfSeq
<1>5. reading[r] \in 0 .. ReadMax
  BY <1>1, ElementOfSeq
<1>6. Before(Last(ppsHist), reading[r])
  BY <1>2, <1>3 DEF EdgesOrdered
<1>7. reading[r] \in Nat /\ Last(ppsHist) \in Nat
  BY <1>4, <1>5, Bounds
<1>8. QED
  BY <1>4, <1>6, <1>7, Bounds DEF Before

\* An edge in two sequences, one after the other, is at some place of either.
LEMMA EdgeOfEither ==
    ASSUME NEW h \in Edges, NEW t \in Seq(0 .. ReadMax), NEW edge \in ToSet(h \o t)
    PROVE  \/ \E i \in 1 .. Len(h) : edge = h[i]
           \/ \E r \in 1 .. Len(t) : edge = t[r]
<1>1. Len(h) \in Nat /\ Len(t) \in Nat
  BY LenProperties DEF Edges
<1>2. t \in Seq(Nat) /\ h \in Seq(Nat)
  <2>1. \A r \in 1 .. Len(t) : t[r] \in Nat
    BY ElementOfSeq, Bounds
  <2>2. \A i \in 1 .. Len(h) : h[i] \in Nat
    BY ElementOfSeq, Bounds DEF Edges
  <2>3. t \in [1 .. Len(t) -> Nat] /\ h \in [1 .. Len(h) -> Nat]
    BY <2>1, <2>2, LenProperties DEF Edges
  <2>4. QED
    BY <1>1, <2>3, SeqDef
<1>3. /\ DOMAIN (h \o t) = 1 .. Len(h) + Len(t)
      /\ \A i \in 1 .. Len(h) + Len(t) :
            (h \o t)[i] = IF i <= Len(h) THEN h[i] ELSE t[i - Len(h)]
  BY <1>2, ConcatProperties, LenProperties
<1>4. PICK i \in 1 .. Len(h) + Len(t) : edge = (h \o t)[i]
  BY <1>3 DEF ToSet
<1>5. CASE i <= Len(h)
  BY <1>1, <1>3, <1>4, <1>5
<1>6. CASE ~(i <= Len(h))
  <2>1. i - Len(h) \in 1 .. Len(t)
    BY <1>1, <1>6
  <2>2. QED
    BY <1>3, <1>4, <1>6, <2>1
<1>7. QED
  BY <1>5, <1>6

\* What is dropped without a match can match nothing any more.  The edges left
\* out were too old for it, those of the history are no candidates, and an edge
\* still to be recorded came after the newest of them, which came after the
\* observation.
LEMMA UnmatchedHasNoEdge ==
    ASSUME IInv, DropUnmatched
    PROVE  NoEdgeFor(Head(obsHist), ppsHist \o reading)
<1> DEFINE o == Head(obsHist)
           h == Pruned(o)
<1>1. TypeOK /\ EdgesOrdered /\ ppsHist \in Edges /\ reading \in Seq(0 .. ReadMax)
  BY DEF IInv, TypeOK, Edges
<1>2. o \in Obs
  BY <1>1, HeadTailProperties DEF TypeOK, DropUnmatched, AtHead
<1>3. Candidates(o, h) = {} /\ h # <<>> /\ Hopeless(o, h)
  BY DEF DropUnmatched
<1>4. o.age \in Nat /\ o.age < EdgeAgeMax
  BY <1>2, Bounds DEF Obs
<1> HIDE DEF o
<1>5. ppsHist # <<>>
  BY <1>3 DEF Pruned
<1>6. PICK m \in 0 .. Len(ppsHist) :
         /\ Cut(h, ppsHist, m)
         /\ \A i \in 1 .. m : Dt(o, ppsHist[i]) > WinMax
         /\ Last(h) = Last(ppsHist)
  BY <1>1, <1>2, <1>5, PrunedIsCut
<1> HIDE DEF h
<1>7. Len(ppsHist) \in Nat /\ Len(reading) \in Nat
  BY <1>1, LenProperties DEF Edges
<1>8. ASSUME NEW i \in 1 .. Len(ppsHist)
      PROVE  Dt(o, ppsHist[i]) \notin WinMin .. WinMax
  <2>1. CASE i <= m
    <3>1. i \in 1 .. m
      BY <1>7, <2>1
    <3>2. ppsHist[i] \in 0 .. EdgeAgeMax
      BY <1>1, ElementOfSeq DEF Edges
    <3>3. Dt(o, ppsHist[i]) \in Int
      BY <1>4, <3>2, Bounds DEF Dt
    <3>4. QED
      BY <1>6, <3>1, <3>3, Bounds
  <2>2. CASE ~(i <= m)
    <3>1. i - m \in 1 .. Len(h) /\ m + (i - m) = i
      BY <1>6, <1>7, <2>2 DEF Cut
    <3>2. h[i - m] = ppsHist[i]
      BY <1>6, <3>1 DEF Cut
    <3>3. i - m \in DOMAIN h
      BY <1>6, <3>1, LenProperties DEF Cut, Edges
    <3>4. QED
      BY <1>3, <3>2, <3>3 DEF Candidates
  <2>3. QED
    BY <2>1, <2>2
<1>9. ASSUME NEW r \in 1 .. Len(reading)
      PROVE  Dt(o, reading[r]) \notin WinMin .. WinMax
  <2>1. /\ Last(ppsHist) \in Nat /\ reading[r] \in Nat
        /\ Last(ppsHist) < EdgeAgeMax => reading[r] < Last(ppsHist)
    BY <1>1, <1>5, ReadingAfterLast, Bounds
  <2>2. o.age > Last(ppsHist)
    BY <1>3, <1>4, <1>6, <2>1, Bounds DEF Hopeless
  <2>3. reading[r] - o.age < 0
    BY <1>4, <2>1, <2>2, Bounds
  <2>4. QED
    BY <1>4, <2>1, <2>3, Bounds DEF Dt, WinMin
<1>10. QED
  BY <1>1, <1>8, <1>9, EdgeOfEither DEF NoEdgeFor, o

\* What is dropped with its match takes an edge of its window along, and all
\* that is left or on its way came after that edge.
LEMMA SpentWithEdge ==
    ASSUME IInv, Match
    PROVE  /\ Dt(Head(obsHist), used') \in WinMin .. WinMax
           /\ \A edge \in ToSet(ppsHist' \o reading') : edge < used'
<1> DEFINE o == Head(obsHist)
           h == Pruned(o)
           i == BestOf(o, h)
<1>1. TypeOK /\ EdgesOrdered /\ ppsHist \in Edges /\ reading \in Seq(0 .. ReadMax)
  BY DEF IInv, TypeOK, Edges
<1>2. o \in Obs
  BY <1>1, HeadTailProperties DEF TypeOK, Match, AtHead
<1>3. Candidates(o, h) # {} /\ used' = h[i] /\ reading' = reading
  BY DEF Match
<1>4. h \in Edges
  BY <1>1, <1>2, PrunedIsCut DEF Cut
<1>5. i \in Candidates(o, h)
  BY <1>2, <1>3, <1>4, BestIsCandidate
<1>6. Dt(o, used') \in WinMin .. WinMax
  BY <1>3, <1>5 DEF Candidates
<1>7. used' \in 0 .. EdgeAgeMax /\ EdgesOrdered' /\ ppsHist' \in Edges
  BY <1>1, MatchKeepsOrder
<1>8. used' < EdgeAgeMax
  <2>1. o.age \in 0 .. AgeMax
    BY <1>2 DEF Obs
  <2>2. QED
    BY <1>6, <1>7, <2>1, Bounds DEF Dt, EdgeAgeMax, WinMin
<1>9. /\ \A j \in 1 .. Len(ppsHist') : ppsHist'[j] < used'
      /\ \A r \in 1 .. Len(reading') : reading'[r] < used'
  BY <1>7, <1>8 DEF EdgesOrdered
<1>10. ASSUME NEW edge \in ToSet(ppsHist' \o reading')
       PROVE  edge < used'
  <2>1. \/ \E j \in 1 .. Len(ppsHist') : edge = ppsHist'[j]
        \/ \E r \in 1 .. Len(reading') : edge = reading'[r]
    BY <1>1, <1>3, <1>7, EdgeOfEither
  <2>2. QED
    BY <1>9, <2>1
<1>11. QED
  BY <1>6, <1>10

\* Of more than one observation, all but the first remain.
LEMMA DrainLeavesOne ==
    ASSUME IInv, DropQueued
    PROVE  ~anchored /\ obsHist' # <<>>
<1>1. obsHist \in Seq(Obs) /\ ~anchored /\ Len(obsHist) > 1 /\ obsHist' = Tail(obsHist)
  BY DEF IInv, TypeOK, DropQueued, ToDrain
<1>2. Len(obsHist) \in Nat /\ obsHist # <<>>
  BY <1>1, LenProperties, EmptySeq
<1>3. Len(obsHist') = Len(obsHist) - 1
  BY <1>1, <1>2, HeadTailProperties
<1>4. Len(obsHist') > 0
  BY <1>1, <1>2, <1>3
<1>5. QED
  BY <1>1, <1>4, EmptySeq

\* Every way an observation goes unused has its reason: without a match it can
\* have none any more, with a match its edge goes with it, and to make way
\* only before the first match and never the last one there is.
THEOREM DropsJustified == Spec => DropsAreJustified
<1>1. IInv /\ [Next]_vars =>
         [/\ DropUnmatched => NoEdgeFor(Head(obsHist), ppsHist \o reading)
          /\ Match /\ pc' # "epoch" =>
               /\ Dt(Head(obsHist), used') \in WinMin .. WinMax
               /\ \A edge \in ToSet(ppsHist' \o reading') : edge < used'
          /\ DropQueued => ~anchored /\ obsHist' # <<>>]_vars
  BY UnmatchedHasNoEdge, SpentWithEdge, DrainLeavesOne
<1>2. QED
  BY <1>1, Invariance, PTL DEF Spec, DropsAreJustified

\* An observation left waiting is not older than the newest edge.  Were it
\* older and not hopeless, some edge would be too early for it; the oldest of
\* those left in the history, earlier still, would have been left out.
THEOREM HeadDecided == Spec => HeadNotBlocking
<1> DEFINE o == Head(obsHist)
           h == Pruned(o)
<1>1. ASSUME IInv, Defer, obsHist # <<>>, ppsHist' # <<>>
      PROVE  o.age <= Last(ppsHist')
  <2>1. TypeOK /\ EdgesOrdered /\ ppsHist \in Edges
    BY <1>1 DEF IInv, TypeOK, Edges
  <2>2. o \in Obs
    BY <1>1, <2>1, HeadTailProperties DEF TypeOK
  <2>3. Candidates(o, h) = {} /\ ppsHist' = h /\ ~Hopeless(o, h)
    BY <1>1 DEF Defer
  <2>4. o.age \in Nat
    BY <2>2 DEF Obs
  <2> HIDE DEF o
  <2>5. ppsHist # <<>>
    BY <1>1, <2>3 DEF Pruned
  <2>6. PICK m \in 0 .. Len(ppsHist) :
           /\ Cut(h, ppsHist, m)
           /\ Len(h) >= 1
           /\ Dt(o, h[1]) <= WinMax \/ Len(h) = 1
    BY <2>1, <2>2, <2>5, PrunedIsCut
  <2> HIDE DEF h
  <2>7. /\ Len(ppsHist) \in Nat /\ Len(h) \in Nat
        /\ DOMAIN h = 1 .. Len(h) /\ 1 \in 1 .. Len(h) /\ Len(h) \in 1 .. Len(h)
    BY <2>1, <2>6, LenProperties DEF Edges, Cut
  <2>8. \A i \in 1 .. Len(h) : h[i] \in Nat
    BY <2>6, ElementOfSeq, Bounds DEF Cut, Edges
  <2>9. Last(h) = h[Len(h)]
    BY DEF Last
  <2>10. SUFFICES ASSUME o.age > h[Len(h)] PROVE FALSE
    BY <2>3, <2>4, <2>7, <2>8, <2>9
  <2>11. PICK i \in 1 .. Len(h) : ~(Dt(o, h[i]) < WinMin)
    BY <2>3, <2>7, <2>9, <2>10 DEF Hopeless
  <2>12. h[i] \in Nat /\ h[1] \in Nat /\ h[Len(h)] \in Nat
    BY <2>7, <2>8
  <2>13. h[i] - o.age > WinMax
    <3>1. Dt(o, h[i]) \notin WinMin .. WinMax
      BY <2>3, <2>7 DEF Candidates
    <3>2. QED
      BY <2>4, <2>11, <2>12, <3>1, Bounds DEF Dt, WinMin
  <2>14. i # Len(h)
    BY <2>4, <2>10, <2>12, <2>13, Bounds
  <2>15. h[1] - o.age <= WinMax
    <3>1. Len(h) # 1
      BY <2>14
    <3>2. Dt(o, h[1]) <= WinMax
      BY <2>6, <3>1
    <3>3. QED
      BY <3>2 DEF Dt
  <2>16. i # 1 /\ 1 < i
    BY <2>7, <2>13, <2>15, <2>4, <2>12, Bounds
  <2>17. h[i] <= h[1]
    <3>1. /\ m + 1 \in 1 .. Len(ppsHist) /\ m + i \in 1 .. Len(ppsHist) /\ m + 1 < m + i
          /\ h[1] = ppsHist[m + 1] /\ h[i] = ppsHist[m + i]
      BY <2>6, <2>7, <2>16 DEF Cut
    <3>2. Before(h[1], h[i])
      BY <2>1, <3>1 DEF EdgesOrdered
    <3>3. QED
      BY <2>12, <3>2, Bounds DEF Before
  <2>18. QED
    BY <2>4, <2>12, <2>13, <2>15, <2>17, Bounds
<1>2. IInv /\ [Next]_vars =>
         [Defer /\ obsHist # <<>> /\ ppsHist' # <<>>
            => Head(obsHist).age <= Last(ppsHist')]_vars
  BY <1>1
<1>3. QED
  BY <1>2, Invariance, PTL DEF Spec, HeadNotBlocking
=============================================================================
