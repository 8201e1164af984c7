----------------------------- MODULE Feed_proofs -----------------------------
(***************************************************************************)
(* Proofs about Feed, for every period, week, lag and age limit.           *)
(*                                                                         *)
(* IInv adds to the types that no two ephemerides in the store have the    *)
(* same time of clock, what the steps of storing a third one leave behind  *)
(* (Stored), how far the analysis centre is behind the satellite           *)
(* (Following) and how old the correction of an issue that is off the air  *)
(* must be (Recent).  What is proved of the store's choice of ephemerides  *)
(* needs times of clock that do not start again: it is stated for runs     *)
(* within a week, and half a week where times are compared across its end. *)
(***************************************************************************)
EXTENDS Feed, SequenceTheorems, TLAPS

\* Time since the issue on the air went on it.
Phase == now % Period

\* No two entries of the ephemeris store have the same time of clock.
TocsDiffer == \A i, j \in 1 .. Len(ephs) : Toc(ephs[i]) = Toc(ephs[j]) => i = j

\* The centre is at the issue on the air, or a short while behind.
Following ==
    /\ centre \in {OnAir - 1, OnAir}
    /\ centre # OnAir => Phase <= SwitchLag

\* A fresh orbit correction is for the issue on the air or was sent while the
\* centre still followed the one before.
Recent ==
    orbit # None =>
        /\ orbit.issue <= centre
        /\ orbit.age <= OrbitMax /\ orbit.issue # OnAir =>
              orbit.issue = OnAir - 1 /\ Phase <= SwitchLag + orbit.age

\* While a third ephemeris is being stored there are three, in the end sorted.
Stored ==
    /\ storing # "none" => Len(ephs) = 3
    /\ storing = "sorted" =>
         \A i, j \in 1 .. Len(ephs) : i < j => Toc(ephs[i]) < Toc(ephs[j])

IInv == TypeOK /\ TocsDiffer /\ Stored /\ Following /\ Recent

-----------------------------------------------------------------------------
(* Division *)

\* Multiples of P are P apart.
LEMMA Times ==
    ASSUME NEW P \in Nat, NEW a \in Nat, NEW b \in Nat, a < b
    PROVE  P * a + P <= P * b
<1>1. PICK d \in Nat : b = a + 1 + d
  <2>1. b - a - 1 \in Nat /\ b = a + 1 + (b - a - 1)
    OBVIOUS
  <2>2. QED
    BY <2>1
<1>2. P * b = P * a + P + P * d
  BY <1>1
<1>3. P * d \in Nat
  OBVIOUS
<1>4. QED
  BY <1>2, <1>3

LEMMA Multiples ==
    ASSUME NEW P \in Nat, NEW a \in Nat, NEW b \in Nat, a <= b
    PROVE  P * a <= P * b /\ P * a \in Nat /\ P * b \in Nat
<1>1. P * a \in Nat /\ P * b \in Nat
  OBVIOUS
<1>2. CASE a = b
  BY <1>1, <1>2
<1>3. CASE a < b
  <2>1. P * a + P <= P * b
    BY <1>3, Times
  <2>2. QED
    BY <1>1, <2>1
<1>4. QED
  BY <1>2, <1>3

LEMMA DivMod ==
    ASSUME NEW P \in Nat, P > 0, NEW n \in Nat
    PROVE  /\ n \div P \in Nat /\ n % P \in Nat /\ n % P < P
           /\ n = P * (n \div P) + (n % P)
OBVIOUS

\* A number has one quotient and one remainder.
LEMMA Quotient ==
    ASSUME NEW P \in Nat, P > 0, NEW q \in Nat, NEW r \in Nat, r < P
    PROVE  (P * q + r) \div P = q /\ (P * q + r) % P = r
<1> DEFINE n == P * q + r
<1>1. n \in Nat /\ P * q \in Nat
  OBVIOUS
<1>2. /\ n \div P \in Nat /\ n % P \in Nat /\ n % P < P
      /\ n = P * (n \div P) + (n % P)
  BY <1>1, DivMod
<1>3. ~(n \div P < q)
  <2>1. SUFFICES ASSUME n \div P < q PROVE FALSE
    OBVIOUS
  <2>2. P * (n \div P) + P <= P * q
    BY <1>2, <2>1, Times
  <2>3. QED
    BY <1>1, <1>2, <2>2
<1>4. ~(q < n \div P)
  <2>1. SUFFICES ASSUME q < n \div P PROVE FALSE
    OBVIOUS
  <2>2. P * q + P <= P * (n \div P)
    BY <1>2, <2>1, Times
  <2>3. QED
    BY <1>1, <1>2, <2>2
<1>5. n \div P = q
  BY <1>2, <1>3, <1>4
<1>6. n % P = r
  BY <1>1, <1>2, <1>5
<1>7. QED
  BY <1>5, <1>6

\* A tick is in the same issue's time, or begins the next one's.
LEMMA NextTick ==
    ASSUME NEW P \in Nat, P > 0, NEW n \in Nat
    PROVE  \/ /\ (n % P) + 1 < P
              /\ (n + 1) \div P = n \div P /\ (n + 1) % P = (n % P) + 1
           \/ /\ (n % P) + 1 = P
              /\ (n + 1) \div P = (n \div P) + 1 /\ (n + 1) % P = 0
<1> DEFINE q == n \div P
           r == n % P
<1>1. q \in Nat /\ r \in Nat /\ r < P /\ n = P * q + r
  BY DivMod
<1> HIDE DEF q, r
<1>2. CASE r + 1 < P
  <2>1. n + 1 = P * q + (r + 1) /\ r + 1 \in Nat
    BY <1>1
  <2>2. (n + 1) \div P = q /\ (n + 1) % P = r + 1
    BY <1>1, <1>2, <2>1, Quotient
  <2>3. QED
    BY <1>2, <2>2 DEF q, r
<1>3. CASE ~(r + 1 < P)
  <2>1. r + 1 = P
    BY <1>1, <1>3
  <2>2. n + 1 = P * q + P /\ P * (q + 1) = P * q + P /\ q + 1 \in Nat
    BY <1>1, <2>1
  <2>3. n + 1 = P * (q + 1) + 0
    BY <1>1, <2>2
  <2>4. (n + 1) \div P = q + 1 /\ (n + 1) % P = 0
    BY <2>2, <2>3, Quotient
  <2>5. QED
    BY <2>1, <2>4 DEF q, r
<1>4. QED
  BY <1>2, <1>3

\* Later times are in later issues.
LEMMA DivMonotone ==
    ASSUME NEW P \in Nat, P > 0, NEW m \in Nat, NEW n \in Nat, m <= n
    PROVE  m \div P <= n \div P
<1>1. /\ m \div P \in Nat /\ m % P \in Nat /\ m % P < P /\ m = P * (m \div P) + (m % P)
      /\ n \div P \in Nat /\ n % P \in Nat /\ n % P < P /\ n = P * (n \div P) + (n % P)
  BY DivMod
<1>2. SUFFICES ASSUME n \div P < m \div P PROVE FALSE
  BY <1>1
<1>3. P * (n \div P) + P <= P * (m \div P)
  BY <1>1, <1>2, Times
<1>4. P * (n \div P) \in Nat /\ P * (m \div P) \in Nat
  BY <1>1
<1>5. QED
  BY <1>1, <1>3, <1>4

-----------------------------------------------------------------------------
(* Constants and time *)

LastIssue == MaxNow \div Period + 1

LEMMA Numbers ==
    /\ Period \in Nat /\ Period > 0 /\ Week \in Nat /\ Week > 0 /\ Iods \in Nat /\ Iods > 0
    /\ MaxNow \in Nat /\ SwitchLag \in Nat /\ OrbitMax \in Nat /\ ClockMax \in Nat
    /\ SwitchLag + OrbitMax < Period
    /\ LastIssue \in Nat /\ LastIssue >= 1 /\ Issues = 1 .. LastIssue
<1>1. /\ Period \in Nat /\ Period > 0 /\ Week \in Nat /\ Week > 0 /\ Iods \in Nat /\ Iods > 0
      /\ MaxNow \in Nat /\ SwitchLag \in Nat /\ OrbitMax \in Nat /\ ClockMax \in Nat
      /\ SwitchLag + OrbitMax < Period
  BY ConstantsAssumption
<1>2. MaxNow \div Period \in Nat
  BY <1>1, DivMod
<1>3. QED
  BY <1>1, <1>2 DEF LastIssue, Issues

LEMMA AirTimes ==
    ASSUME now \in 0 .. MaxNow
    PROVE  OnAir \in Nat /\ OnAir \in Issues /\ Phase \in Nat /\ Phase < Period
<1>1. now \in Nat /\ now <= MaxNow
  BY Numbers
<1>2. now \div Period \in Nat /\ Phase \in Nat /\ Phase < Period
  BY <1>1, Numbers, DivMod DEF Phase
<1>3. now \div Period <= MaxNow \div Period /\ MaxNow \div Period \in Nat
  BY <1>1, Numbers, DivMonotone, DivMod
<1>4. QED
  BY <1>2, <1>3, Numbers DEF OnAir, LastIssue

LEMMA TocType == \A k \in Issues : Toc(k) \in Nat /\ Toc(k) < Week
<1> TAKE k \in Issues
<1>1. k * Period \in Nat
  BY Numbers
<1>2. QED
  BY <1>1, Numbers, DivMod DEF Toc

-----------------------------------------------------------------------------
(* The ephemeris store *)

\* Three sets with different times of clock can be put in order, and then are
\* the same three.
LEMMA OrderOfThree ==
    ASSUME NEW s \in Seq(Issues), Len(s) = 3,
           \A i, j \in 1 .. Len(s) : Toc(s[i]) = Toc(s[j]) => i = j
    PROVE  /\ Ordered(s) \in Seq(Issues) /\ Len(Ordered(s)) = 3
           /\ \A i, j \in 1 .. 3 : i < j => Toc(Ordered(s)[i]) < Toc(Ordered(s)[j])
           /\ {Ordered(s)[i] : i \in 1 .. 3} = {s[i] : i \in 1 .. 3}
<1> DEFINE P(t) == \A i, j \in 1 .. Len(s) : i < j => Toc(t[i]) < Toc(t[j])
           Orders == [1 .. Len(s) -> ToSet(s)]
           best == CHOOSE t \in Orders : P(t)
<1>1. DOMAIN s = 1 .. 3 /\ s[1] \in Issues /\ s[2] \in Issues /\ s[3] \in Issues
  <2>1. DOMAIN s = 1 .. 3
    BY LenProperties
  <2>2. 1 \in 1 .. Len(s) /\ 2 \in 1 .. Len(s) /\ 3 \in 1 .. Len(s)
    OBVIOUS
  <2>3. QED
    BY <2>1, <2>2, ElementOfSeq
<1>2. ToSet(s) = {s[1], s[2], s[3]} /\ {s[i] : i \in 1 .. 3} = {s[1], s[2], s[3]}
  BY <1>1 DEF ToSet
<1>3. /\ Toc(s[1]) # Toc(s[2]) /\ Toc(s[1]) # Toc(s[3]) /\ Toc(s[2]) # Toc(s[3])
  OBVIOUS
<1>4. Toc(s[1]) \in Nat /\ Toc(s[2]) \in Nat /\ Toc(s[3]) \in Nat
  BY <1>1, TocType
<1>5. PICK a, b, c \in ToSet(s) : Toc(a) < Toc(b) /\ Toc(b) < Toc(c) /\ Toc(a) < Toc(c)
  BY <1>2, <1>3, <1>4
<1>6. \E t \in Orders : P(t)
  <2> DEFINE t == [i \in 1 .. Len(s) |-> IF i = 1 THEN a ELSE IF i = 2 THEN b ELSE c]
  <2>1. t \in Orders
    OBVIOUS
  <2>2. t[1] = a /\ t[2] = b /\ t[3] = c
    OBVIOUS
  <2> HIDE DEF t
  <2>3. P(t)
    <3>1. 1 .. Len(s) = {1, 2, 3}
      OBVIOUS
    <3>2. QED
      BY <1>5, <2>2, <3>1
  <2>4. QED
    BY <2>1, <2>3
<1>7. best \in Orders /\ P(best)
  <2> HIDE DEF P, Orders
  <2>1. QED
    BY <1>6
<1>8. Ordered(s) = best
  BY DEF Ordered
<1> HIDE DEF best
<1>9. /\ best[1] \in {s[1], s[2], s[3]} /\ best[2] \in {s[1], s[2], s[3]}
      /\ best[3] \in {s[1], s[2], s[3]}
  BY <1>2, <1>7
<1>10. Toc(best[1]) < Toc(best[2]) /\ Toc(best[2]) < Toc(best[3]) /\ Toc(best[1]) < Toc(best[3])
  BY <1>7
<1>11. best[1] # best[2] /\ best[2] # best[3] /\ best[1] # best[3]
  <2>1. Toc(best[1]) \in Nat /\ Toc(best[2]) \in Nat /\ Toc(best[3]) \in Nat
    BY <1>4, <1>9
  <2>2. QED
    BY <1>10, <2>1
<1>12. {best[i] : i \in 1 .. 3} = {best[1], best[2], best[3]}
  OBVIOUS
<1>13. {best[1], best[2], best[3]} = {s[1], s[2], s[3]}
  BY <1>9, <1>11
<1>14. best \in [1 .. 3 -> Issues]
  BY <1>1, <1>2, <1>7
<1>15. best \in Seq(Issues) /\ Len(best) = 3
  <2>1. best \in Seq(Issues)
    <3>1. Seq(Issues) = UNION {[1 .. n -> Issues] : n \in Nat}
      BY SeqDef
    <3>2. [1 .. 3 -> Issues] \in {[1 .. n -> Issues] : n \in Nat}
      OBVIOUS
    <3>3. QED
      BY <1>14, <3>1, <3>2
  <2>2. QED
    BY <1>14, <2>1, LenProperties
<1>16. QED
  BY <1>2, <1>7, <1>8, <1>12, <1>13, <1>15

\* What an ephemeris does to the store: it takes the place of one with the
\* same time of clock, or is added.
LEMMA StoreEffect ==
    ASSUME TypeOK, TocsDiffer, NEW k \in Issues, EphMessage(k)
    PROVE  /\ ephs' \in Seq(Issues) /\ Len(ephs') \in Nat
           /\ Len(ephs') <= 3 /\ Len(ephs) <= Len(ephs')
           /\ TocsDiffer'
           /\ \A i \in 1 .. Len(ephs') :
                 ephs'[i] = k \/ \E j \in 1 .. Len(ephs) : ephs'[i] = ephs[j]
           /\ \A x \in Issues :
                 x = k \/ (\E j \in 1 .. Len(ephs) : x = ephs[j])
                 => \/ \E i \in 1 .. Len(ephs') : ephs'[i] = x
                    \/ Toc(x) = Toc(k) /\ \E i \in 1 .. Len(ephs') : ephs'[i] = k
<1>1. /\ ephs \in Seq(Issues) /\ Len(ephs) \in Nat /\ Len(ephs) <= 2
      /\ DOMAIN ephs = 1 .. Len(ephs) /\ \A i \in 1 .. Len(ephs) : ephs[i] \in Issues
  BY LenProperties, ElementOfSeq DEF TypeOK, EphMessage, Reading
<1>2. CASE \E i \in DOMAIN ephs : Toc(ephs[i]) = Toc(k)
  <2>1. ephs' = [i \in 1 .. Len(ephs) |-> IF Toc(ephs[i]) = Toc(k) THEN k ELSE ephs[i]]
    BY <1>1, <1>2 DEF EphMessage
  <2>2. ephs' \in [1 .. Len(ephs) -> Issues]
    BY <1>1, <2>1
  <2>3. ephs' \in Seq(Issues)
    BY <1>1, <2>2, SeqDef
  <2>4. Len(ephs') = Len(ephs)
    BY <1>1, <2>2, <2>3, LenProperties
  <2>5. \A i \in 1 .. Len(ephs) :
           /\ ephs'[i] = IF Toc(ephs[i]) = Toc(k) THEN k ELSE ephs[i]
           /\ Toc(ephs'[i]) = Toc(ephs[i])
    BY <2>1
  <2>6. TocsDiffer'
    BY <2>4, <2>5 DEF TocsDiffer
  <2>7. \E i \in 1 .. Len(ephs') : ephs'[i] = k
    BY <1>1, <1>2, <2>4, <2>5
  <2>8. \A i \in 1 .. Len(ephs') :
           ephs'[i] = k \/ \E j \in 1 .. Len(ephs) : ephs'[i] = ephs[j]
    BY <2>4, <2>5
  <2>9. ASSUME NEW x \in Issues, x = k \/ (\E j \in 1 .. Len(ephs) : x = ephs[j])
        PROVE  (\E i \in 1 .. Len(ephs') : ephs'[i] = x) \/ Toc(x) = Toc(k)
    BY <2>4, <2>5, <2>7, <2>9
  <2>10. Len(ephs') \in Nat /\ Len(ephs') <= 3 /\ Len(ephs) <= Len(ephs')
    BY <1>1, <2>4
  <2>11. QED
    BY <2>3, <2>6, <2>7, <2>8, <2>9, <2>10
<1>3. CASE ~\E i \in DOMAIN ephs : Toc(ephs[i]) = Toc(k)
  <2> DEFINE s == Append(ephs, k)
  <2>1. ephs' = s
    BY <1>3 DEF EphMessage
  <2>2. /\ s \in Seq(Issues) /\ Len(s) = Len(ephs) + 1 /\ s[Len(s)] = k
        /\ \A i \in 1 .. Len(ephs) : s[i] = ephs[i]
    BY <1>1, AppendProperties
  <2>3. \A i, j \in 1 .. Len(s) : Toc(s[i]) = Toc(s[j]) => i = j
    <3> TAKE i, j \in 1 .. Len(s)
    <3> HAVE Toc(s[i]) = Toc(s[j])
    <3>1. (i \in 1 .. Len(ephs) \/ i = Len(s)) /\ (j \in 1 .. Len(ephs) \/ j = Len(s))
      BY <1>1, <2>2
    <3> HIDE DEF s
    <3>2. CASE i \in 1 .. Len(ephs) /\ j \in 1 .. Len(ephs)
      BY <2>2, <3>2 DEF TocsDiffer
    <3>3. CASE ~(i \in 1 .. Len(ephs) /\ j \in 1 .. Len(ephs))
      BY <1>1, <1>3, <2>2, <3>1, <3>3
    <3>4. QED
      BY <3>2, <3>3
  <2> HIDE DEF s
  <2>4. /\ DOMAIN s = 1 .. Len(s)
        /\ \A i \in 1 .. Len(s) : s[i] = k \/ \E j \in 1 .. Len(ephs) : s[i] = ephs[j]
    <3>1. \A i \in 1 .. Len(s) : i \in 1 .. Len(ephs) \/ i = Len(s)
      BY <1>1, <2>2
    <3>2. QED
      BY <2>2, <3>1, LenProperties
  <2>5. \A x : x = k \/ (\E j \in 1 .. Len(ephs) : x = ephs[j])
               => \E i \in 1 .. Len(s) : s[i] = x
    <3>1. Len(s) \in 1 .. Len(s) /\ \A j \in 1 .. Len(ephs) : j \in 1 .. Len(s)
      BY <1>1, <2>2
    <3>2. QED
      BY <2>2, <3>1
  <2>6. Len(s) \in Nat /\ Len(s) <= 3 /\ Len(ephs) <= Len(s)
    BY <1>1, <2>2
  <2>7. TocsDiffer'
    BY <2>1, <2>3 DEF TocsDiffer
  <2>8. QED
    BY <2>1, <2>2, <2>4, <2>5, <2>6, <2>7
<1>4. QED
  BY <1>2, <1>3

\* What the steps after it do: the store has the same sets in order, or without
\* the earliest of three.
LEMMA StepOfStore ==
    ASSUME TypeOK, TocsDiffer, Stored, Store
    PROVE  /\ ephs' \in Seq(Issues) /\ Len(ephs') \in 2 .. 3
           /\ Len(ephs') <= IF storing' = "none" THEN 2 ELSE 3
           /\ TocsDiffer' /\ Stored'
           /\ \A i \in 1 .. Len(ephs') : \E j \in 1 .. Len(ephs) : ephs'[i] = ephs[j]
           /\ \A j \in 1 .. Len(ephs) :
                 \/ \E i \in 1 .. Len(ephs') : ephs'[i] = ephs[j]
                 \/ \A i \in 1 .. Len(ephs') : Toc(ephs[j]) < Toc(ephs'[i])
<1>1. ephs \in Seq(Issues) /\ Len(ephs) = 3 /\ \A i \in 1 .. 3 : ephs[i] \in Issues
  <2>1. storing # "none"
    BY DEF Store, SortBegins, SortEnds, KeepTwo
  <2>2. QED
    BY <2>1, ElementOfSeq DEF TypeOK, Stored
<1>2. CASE SortBegins
  <2>1. ephs' = ephs /\ storing' = "sorting"
    BY <1>2 DEF SortBegins
  <2>2. TocsDiffer' /\ Stored'
    BY <1>1, <2>1 DEF TocsDiffer, Stored
  <2>3. Len(ephs') = 3 /\ storing' # "none"
    BY <1>1, <2>1
  <2>4. \A j \in 1 .. Len(ephs) : \E i \in 1 .. Len(ephs') : ephs'[i] = ephs[j]
    BY <2>1
  <2>5. \A i \in 1 .. Len(ephs') : \E j \in 1 .. Len(ephs) : ephs'[i] = ephs[j]
    BY <2>1
  <2>6. ephs' \in Seq(Issues)
    BY <1>1, <2>1
  <2>7. Len(ephs') \in 2 .. 3 /\ Len(ephs') <= IF storing' = "none" THEN 2 ELSE 3
    BY <2>3
  <2>8. QED
    BY <2>2, <2>4, <2>5, <2>6, <2>7
<1>3. CASE SortEnds
  <2>1. ephs' = Ordered(ephs) /\ storing' = "sorted"
    BY <1>3 DEF SortEnds
  <2>2. /\ ephs' \in Seq(Issues) /\ Len(ephs') = 3
        /\ \A i, j \in 1 .. 3 : i < j => Toc(ephs'[i]) < Toc(ephs'[j])
        /\ {ephs'[i] : i \in 1 .. 3} = {ephs[i] : i \in 1 .. 3}
    BY <1>1, <2>1, OrderOfThree DEF TocsDiffer
  <2>3. \A i \in 1 .. 3 : ephs'[i] \in Issues /\ Toc(ephs'[i]) \in Nat
    BY <2>2, ElementOfSeq, TocType
  <2>4. TocsDiffer'
    <3>1. SUFFICES ASSUME NEW i \in 1 .. 3, NEW j \in 1 .. 3, Toc(ephs'[i]) = Toc(ephs'[j])
                   PROVE  i = j
      BY <2>2 DEF TocsDiffer
    <3>2. i < j \/ j < i \/ i = j
      OBVIOUS
    <3>3. QED
      BY <2>2, <2>3, <3>1, <3>2
  <2>5. Stored'
    BY <2>1, <2>2 DEF Stored
  <2>6. /\ \A i \in 1 .. 3 : \E j \in 1 .. 3 : ephs'[i] = ephs[j]
        /\ \A j \in 1 .. 3 : \E i \in 1 .. 3 : ephs'[i] = ephs[j]
    BY <2>2
  <2>7. QED
    BY <1>1, <2>1, <2>2, <2>4, <2>5, <2>6
<1>4. CASE KeepTwo
  <2>1. ephs' = Tail(ephs) /\ storing' = "none"
    BY <1>4 DEF KeepTwo
  <2>2. /\ ephs' \in Seq(Issues) /\ Len(ephs') = 2
        /\ ephs'[1] = ephs[2] /\ ephs'[2] = ephs[3]
    <3>1. ephs # <<>>
      BY <1>1, EmptySeq
    <3>2. /\ ephs' \in Seq(Issues) /\ Len(ephs') = Len(ephs) - 1
          /\ \A i \in 1 .. Len(ephs) - 1 : ephs'[i] = ephs[i + 1]
      BY <1>1, <2>1, <3>1, HeadTailProperties
    <3>3. 1 \in 1 .. Len(ephs) - 1 /\ 2 \in 1 .. Len(ephs) - 1
      BY <1>1
    <3>4. QED
      BY <1>1, <3>2, <3>3
  <2>3. 1 .. Len(ephs') = {1, 2} /\ 1 .. Len(ephs) = {1, 2, 3}
    BY <1>1, <2>2
  <2>4. Toc(ephs[1]) < Toc(ephs[2]) /\ Toc(ephs[1]) < Toc(ephs[3])
    BY <1>1, <1>4 DEF KeepTwo, Stored
  <2>5. TocsDiffer'
    BY <2>2, <2>3 DEF TocsDiffer
  <2>6. Stored'
    BY <2>1 DEF Stored
  <2>7. QED
    BY <2>1, <2>2, <2>3, <2>4, <2>5, <2>6
<1>5. QED
  BY <1>2, <1>3, <1>4 DEF Store

-----------------------------------------------------------------------------
(* The choice of an ephemeris *)

LEMMA DistanceType ==
    ASSUME NEW k \in Issues, NEW t \in Nat
    PROVE  Distance(k, t) \in Nat
<1>1. t % Week \in Nat /\ Toc(k) \in Nat /\ Week \div 2 \in Nat /\ Week \in Nat
  BY Numbers, TocType, DivMod
<1> DEFINE dt == Crossover((t % Week) - Toc(k))
<1>2. dt \in Int
  BY <1>1 DEF Crossover
<1> HIDE DEF dt
<1>3. (IF dt < 0 THEN -dt ELSE dt) \in Nat
  BY <1>2
<1>4. QED
  BY <1>3 DEF Distance, dt

\* A set is chosen, and none is closer.
LEMMA ClosestIsClosest ==
    ASSUME NEW s \in Seq(Issues), s # <<>>, Len(s) <= 3, NEW t \in Nat
    PROVE  \E i \in 1 .. Len(s) :
              /\ Closest(s, t) = s[i]
              /\ \A j \in 1 .. Len(s) : Distance(s[i], t) <= Distance(s[j], t)
<1> DEFINE P(i) == \A j \in DOMAIN s : \/ Distance(s[i], t) < Distance(s[j], t)
                                       \/ Distance(s[i], t) = Distance(s[j], t) /\ i <= j
           first == CHOOSE i \in DOMAIN s : P(i)
<1>1. DOMAIN s = 1 .. Len(s) /\ Len(s) \in Nat /\ Len(s) # 0
  BY LenProperties, EmptySeq
<1>2. \A i \in DOMAIN s : Distance(s[i], t) \in Nat
  BY <1>1, ElementOfSeq, DistanceType
<1>3. Closest(s, t) = s[first]
  BY DEF Closest
<1>4. \E i \in DOMAIN s : P(i)
  <2>1. CASE Len(s) = 1
    <3>1. DOMAIN s = {1}
      BY <1>1, <2>1
    <3>2. QED
      BY <1>2, <3>1
  <2>2. CASE Len(s) = 2
    <3>1. DOMAIN s = {1, 2}
      BY <1>1, <2>2
    <3>2. Distance(s[1], t) \in Nat /\ Distance(s[2], t) \in Nat
      BY <1>2, <3>1
    <3>3. CASE Distance(s[1], t) <= Distance(s[2], t)
      <4>1. P(1)
        BY <3>1, <3>2, <3>3
      <4>2. QED
        BY <3>1, <4>1
    <3>4. CASE ~(Distance(s[1], t) <= Distance(s[2], t))
      <4>1. P(2)
        BY <3>1, <3>2, <3>4
      <4>2. QED
        BY <3>1, <4>1
    <3>5. QED
      BY <3>3, <3>4
  <2>3. CASE Len(s) = 3
    <3> DEFINE d(i) == Distance(s[i], t)
    <3>1. DOMAIN s = {1, 2, 3}
      BY <1>1, <2>3
    <3>2. d(1) \in Nat /\ d(2) \in Nat /\ d(3) \in Nat
      BY <1>2, <3>1
    <3>3. CASE d(1) <= d(2) /\ d(1) <= d(3)
      <4>1. P(1)
        BY <3>1, <3>2, <3>3
      <4>2. QED
        BY <3>1, <4>1
    <3>4. CASE d(2) < d(1) /\ d(2) <= d(3)
      <4>1. P(2)
        BY <3>1, <3>2, <3>4
      <4>2. QED
        BY <3>1, <4>1
    <3>5. CASE d(3) < d(1) /\ d(3) < d(2)
      <4>1. P(3)
        BY <3>1, <3>2, <3>5
      <4>2. QED
        BY <3>1, <4>1
    <3>6. QED
      BY <3>2, <3>3, <3>4, <3>5
  <2>4. Len(s) = 1 \/ Len(s) = 2 \/ Len(s) = 3
    BY <1>1
  <2> HIDE DEF P
  <2>5. QED
    BY <2>1, <2>2, <2>3, <2>4
<1>5. first \in DOMAIN s /\ P(first)
  <2> HIDE DEF P
  <2>1. QED
    BY <1>4
<1> HIDE DEF first
<1>6. \A j \in DOMAIN s : Distance(s[first], t) <= Distance(s[j], t)
  BY <1>2, <1>5
<1>7. QED
  BY <1>1, <1>3, <1>5, <1>6

-----------------------------------------------------------------------------
(* Each step preserves the invariant *)

LEMMA StoreType ==
    ASSUME NEW s \in Seq(Issues),
           \A i, j \in 1 .. Len(s) : Toc(s[i]) = Toc(s[j]) => i = j
    PROVE  IsInjective(s)
BY LenProperties DEF IsInjective

LEMMA OlderType ==
    ASSUME NEW max \in Nat, NEW c \in Corrections(max)
    PROVE  Older(c, max) \in Corrections(max)
<1>1. CASE c = None \/ c.age > max
  BY <1>1 DEF Older
<1>2. CASE ~(c = None \/ c.age > max)
  <2>1. c \in [issue : Issues, age : 0 .. max + 1]
    BY <1>2 DEF Corrections
  <2>2. c.age + 1 \in 0 .. max + 1
    BY <1>2, <2>1
  <2>3. [c EXCEPT !.age = @ + 1] \in [issue : Issues, age : 0 .. max + 1]
    BY <2>1, <2>2
  <2>4. QED
    BY <1>2, <2>3 DEF Older, Corrections
<1>3. QED
  BY <1>1, <1>2

LEMMA FreshType ==
    ASSUME NEW max \in Nat, NEW c \in Corrections(max)
    PROVE  Fresh(c, max) \in Issues \union {None}
BY DEF Fresh, Corrections

LEMMA TypeStep ==
    ASSUME TypeOK, TocsDiffer, Stored, Following, [Next]_vars
    PROVE  TypeOK' /\ TocsDiffer' /\ Stored'
<1> USE DEF airVars, linkVars, ephVars, ssrVars, readVars
<1>0. OnAir \in Nat /\ OnAir \in Issues
  BY AirTimes DEF TypeOK
<1>1. CASE Tick
  <2>1. now' \in 0 .. MaxNow
    BY <1>1, Numbers DEF Tick, TypeOK
  <2>2. orbit' \in Corrections(OrbitMax) /\ clock' \in Corrections(ClockMax)
    BY <1>1, Numbers, OlderType DEF Tick, TypeOK
  <2>3. UNCHANGED <<centre, announced, barred, link, delay, ephs, storing, received, pc, use>>
    BY <1>1 DEF Tick
  <2>4. QED
    BY <2>1, <2>2, <2>3 DEF TypeOK, TocsDiffer, Stored
<1>2. CASE Switch
  <2>1. centre' \in Issues /\ announced' \in BOOLEAN
    <3>1. centre' = centre + 1 /\ centre < OnAir /\ announced' = FALSE
      BY <1>2 DEF Switch
    <3>2. centre' \in Issues
      BY <1>0, <3>1, Numbers DEF TypeOK
    <3>3. QED
      BY <3>1, <3>2
  <2>2. UNCHANGED <<now, barred, link, delay, ephs, storing, received, orbit, clock, pc, use>>
    BY <1>2 DEF Switch
  <2>3. QED
    BY <2>1, <2>2 DEF TypeOK, TocsDiffer, Stored
<1>3. ASSUME NEW st \in Streams, Connect(st) \/ ConnectFails(st) \/ Lost(st) \/ ReaderFails(st)
      PROVE  TypeOK' /\ TocsDiffer' /\ Stored'
  <2>1. link' \in [Streams -> {"down", "up", "ended"}]
    BY <1>3 DEF Connect, ConnectFails, Lost, ReaderFails, TypeOK
  <2>2. delay' \in [Streams -> 1 .. MaxDelay]
    <3>1. \A d \in 1 .. MaxDelay : Grown(d) \in 1 .. MaxDelay
      BY DEF Grown, MaxDelay
    <3>2. 1 \in 1 .. MaxDelay
      BY DEF MaxDelay
    <3>3. delay[st] \in 1 .. MaxDelay
      BY DEF TypeOK
    <3>4. \/ delay' = delay
          \/ delay' = [delay EXCEPT ![st] = 1]
          \/ delay' = [delay EXCEPT ![st] = Grown(delay[st])]
      BY <1>3 DEF Connect, ConnectFails, Lost, ReaderFails
    <3>5. QED
      BY <3>1, <3>2, <3>3, <3>4 DEF TypeOK
  <2>3. UNCHANGED <<now, centre, announced, barred, ephs, storing, received, orbit, clock, pc, use>>
    BY <1>3 DEF Connect, ConnectFails, Lost, ReaderFails
  <2>4. QED
    BY <2>1, <2>2, <2>3 DEF TypeOK, TocsDiffer, Stored
<1>4. ASSUME NEW k \in Issues, EphMessage(k) PROVE TypeOK' /\ TocsDiffer' /\ Stored'
  <2>1. ephs' \in Seq(Issues) /\ Len(ephs') \in Nat /\ Len(ephs') <= 3 /\ TocsDiffer'
    BY <1>4, StoreEffect
  <2>2. IsInjective(ephs')
    BY <2>1, StoreType DEF TocsDiffer
  <2>3. received' \subseteq Issues
    BY <1>4 DEF EphMessage, TypeOK
  <2>4. storing' = IF Len(ephs') > 2 THEN "added" ELSE "none"
    BY <1>4 DEF EphMessage
  <2>5. UNCHANGED <<now, centre, announced, barred, link, delay, orbit, clock, pc, use>>
    BY <1>4 DEF EphMessage
  <2>6. Stored' /\ Len(ephs') <= IF storing' = "none" THEN 2 ELSE 3
    <3>1. CASE Len(ephs') > 2
      <4>1. \A n \in Nat : n <= 3 /\ n > 2 => n = 3
        OBVIOUS
      <4>2. Len(ephs') = 3
        BY <2>1, <3>1, <4>1
      <4>3. storing' = "added"
        BY <2>4, <3>1
      <4>4. QED
        BY <4>2, <4>3 DEF Stored
    <3>2. CASE ~(Len(ephs') > 2)
      <4>1. storing' = "none" /\ Len(ephs') <= 2
        BY <2>1, <2>4, <3>2
      <4>2. QED
        BY <4>1 DEF Stored
    <3>3. QED
      BY <3>1, <3>2
  <2>7. storing' \in {"none", "added", "sorting", "sorted"}
    BY <2>4
  <2>8. QED
    BY <2>1, <2>2, <2>3, <2>5, <2>6, <2>7 DEF TypeOK
<1>a. CASE Store
  <2>1. /\ ephs' \in Seq(Issues) /\ TocsDiffer' /\ Stored'
        /\ Len(ephs') <= IF storing' = "none" THEN 2 ELSE 3
    BY <1>a, StepOfStore
  <2>2. IsInjective(ephs')
    BY <2>1, StoreType DEF TocsDiffer
  <2>3. storing' \in {"none", "added", "sorting", "sorted"}
    BY <1>a DEF Store, SortBegins, SortEnds, KeepTwo
  <2>4. UNCHANGED <<now, centre, announced, barred, link, delay, received, orbit, clock, pc, use>>
    BY <1>a DEF Store, SortBegins, SortEnds, KeepTwo
  <2>5. QED
    BY <2>1, <2>2, <2>3, <2>4 DEF TypeOK
<1>5. CASE OrbitMessage
  <2>1. [issue |-> centre, age |-> 0] \in Corrections(OrbitMax)
    BY Numbers DEF Corrections, TypeOK
  <2>2. orbit' \in Corrections(OrbitMax) /\ announced' \in BOOLEAN
    BY <1>5, <2>1 DEF OrbitMessage, TypeOK
  <2>3. UNCHANGED <<now, centre, barred, link, delay, ephs, storing, received, clock, pc, use>>
    BY <1>5 DEF OrbitMessage
  <2>4. QED
    BY <2>2, <2>3 DEF TypeOK, TocsDiffer, Stored
<1>6. CASE ClockMessage
  <2>1. [issue |-> centre, age |-> 0] \in Corrections(ClockMax)
    BY Numbers DEF Corrections, TypeOK
  <2>2. clock' \in Corrections(ClockMax)
    BY <1>6, <2>1 DEF ClockMessage
  <2>3. UNCHANGED <<now, centre, announced, barred, link, delay, ephs, storing, received, orbit, pc, use>>
    BY <1>6 DEF ClockMessage
  <2>4. QED
    BY <2>2, <2>3 DEF TypeOK, TocsDiffer, Stored
<1>7. CASE SatPosition
  <2> DEFINE Reads == [set : Issues \union {None}, stored : Issues \union {None},
                       orbit : Issues \union {None}, clock : Issues \union {None}]
  <2>1. pc' \in {"position", "orbit", "iod", "velocity", "clock", "done"}
    BY <1>7 DEF SatPosition, ReadPosition, ReadOrbit, ReadIod, IodRaises, ReadVelocity,
                ReadClock, NextEpoch
  <2>2. NoUse \in Reads /\ use \in Reads
    BY DEF NoUse, TypeOK
  <2>3. ASSUME ReadPosition PROVE use' \in Reads
    <3>1. /\ Seen = ephs /\ ephs # <<>> /\ ephs \in Seq(Issues) /\ Len(ephs) <= 3
          /\ now \in Nat
      BY <2>3, Numbers DEF ReadPosition, Seen, TypeOK
    <3>2. PICK i \in 1 .. Len(ephs) : Closest(ephs, now) = ephs[i]
      BY <3>1, ClosestIsClosest
    <3>3. Closest(ephs, now) \in Issues
      BY <3>1, <3>2, ElementOfSeq
    <3>4. use' = [NoUse EXCEPT !.set = Closest(ephs, now)]
      BY <2>3, <3>1 DEF ReadPosition
    <3>5. QED
      BY <2>2, <3>3, <3>4
  <2>4. ASSUME ReadOrbit PROVE use' \in Reads
    <3>1. Fresh(orbit, OrbitMax) \in Issues \union {None}
      BY FreshType, Numbers DEF TypeOK
    <3>2. use' = [use EXCEPT !.stored = Fresh(orbit, OrbitMax)]
      BY <2>4 DEF ReadOrbit
    <3>3. QED
      BY <2>2, <3>1, <3>2
  <2>5. ASSUME ReadIod \/ IodRaises \/ ReadVelocity PROVE use' \in Reads
    <3>1. use' = use \/ use' = NoUse \/ use' = [use EXCEPT !.orbit = use.stored]
      BY <2>5 DEF ReadIod, IodRaises, ReadVelocity
    <3>2. QED
      BY <2>2, <3>1
  <2>6. ASSUME ReadClock PROVE use' \in Reads
    <3>1. Fresh(clock, ClockMax) \in Issues \union {None}
      BY FreshType, Numbers DEF TypeOK
    <3>2. use' = [use EXCEPT !.clock = Fresh(clock, ClockMax)]
      BY <2>6 DEF ReadClock
    <3>3. QED
      BY <2>2, <3>1, <3>2
  <2>7. ASSUME NextEpoch PROVE use' \in Reads
    BY <2>2, <2>7 DEF NextEpoch
  <2>8. use' \in Reads
    BY <1>7, <2>3, <2>4, <2>5, <2>6, <2>7 DEF SatPosition
  <2>9. UNCHANGED <<now, centre, announced, barred, link, delay, ephs, storing, received, orbit, clock>>
    BY <1>7 DEF SatPosition, ReadPosition, ReadOrbit, ReadIod, IodRaises, ReadVelocity,
                ReadClock, NextEpoch
  <2>10. QED
    BY <2>1, <2>8, <2>9 DEF TypeOK, TocsDiffer, Stored
<1>8. CASE UNCHANGED vars
  BY <1>8 DEF vars, TypeOK, TocsDiffer, Stored
<1>9. QED
  BY <1>1, <1>2, <1>3, <1>4, <1>5, <1>6, <1>7, <1>8, <1>a DEF Next, Readers

LEMMA FollowingStep ==
    ASSUME TypeOK, Following, [Next]_vars
    PROVE  Following'
<1> USE DEF airVars
<1>0. /\ OnAir \in Nat /\ centre \in Nat /\ Phase \in Nat /\ now \in Nat
      /\ centre \in {OnAir - 1, OnAir} /\ (centre # OnAir => Phase <= SwitchLag)
  BY AirTimes, Numbers DEF TypeOK, Following
<1>1. CASE Tick
  <2>1. now' = now + 1 /\ centre' = centre /\ (centre = OnAir \/ Phase < SwitchLag)
    BY <1>1 DEF Tick, Phase
  <2>2. \/ Phase + 1 < Period /\ OnAir' = OnAir /\ Phase' = Phase + 1
        \/ Phase + 1 = Period /\ OnAir' = OnAir + 1 /\ Phase' = 0
    <3>1. now \div Period \in Nat
      BY <1>0, Numbers, DivMod
    <3>2. QED
      BY <1>0, <2>1, <3>1, Numbers, NextTick DEF OnAir, Phase
  <2>3. CASE Phase + 1 < Period /\ OnAir' = OnAir /\ Phase' = Phase + 1
    BY <1>0, <2>1, <2>3, Numbers DEF Following
  <2>4. CASE Phase + 1 = Period /\ OnAir' = OnAir + 1 /\ Phase' = 0
    <3>1. centre = OnAir
      BY <1>0, <2>1, <2>4, Numbers
    <3>2. QED
      BY <1>0, <2>1, <2>4, <3>1, Numbers DEF Following
  <2>5. QED
    BY <2>2, <2>3, <2>4
<1>2. CASE Switch
  <2>1. centre < OnAir /\ centre' = centre + 1 /\ now' = now
    BY <1>2 DEF Switch
  <2>2. OnAir' = OnAir
    BY <2>1 DEF OnAir
  <2>3. QED
    BY <1>0, <2>1, <2>2 DEF Following
<1>3. CASE UNCHANGED <<now, centre>>
  BY <1>3 DEF Following, OnAir, Phase
<1>4. Tick \/ Switch \/ UNCHANGED <<now, centre>>
  BY DEF Next, vars, Readers, SatPosition, Connect, ConnectFails, Lost, ReaderFails,
         EphMessage, Store, SortBegins, SortEnds, KeepTwo, OrbitMessage, ClockMessage,
         ReadPosition, ReadOrbit, ReadIod, IodRaises, ReadVelocity, ReadClock, NextEpoch
<1>5. QED
  BY <1>1, <1>2, <1>3, <1>4

\* When an issue goes off the air the corrections for the one before it are
\* already too old: SwitchLag + OrbitMax < Period.
LEMMA RecentStep ==
    ASSUME TypeOK, Following, Recent, [Next]_vars
    PROVE  Recent'
<1> USE DEF airVars, ssrVars
<1>0. /\ OnAir \in Nat /\ centre \in Nat /\ Phase \in Nat /\ now \in Nat
      /\ centre \in {OnAir - 1, OnAir} /\ (centre # OnAir => Phase <= SwitchLag)
  BY AirTimes, Numbers DEF TypeOK, Following
<1>a. orbit # None =>
        /\ orbit.issue \in Nat /\ orbit.age \in Nat /\ orbit.issue <= centre
        /\ orbit.age <= OrbitMax /\ orbit.issue # OnAir =>
              orbit.issue = OnAir - 1 /\ Phase <= SwitchLag + orbit.age
  BY Numbers DEF TypeOK, Recent, Corrections
<1>1. CASE Tick
  <2> SUFFICES ASSUME orbit' # None
               PROVE  /\ orbit'.issue <= centre'
                      /\ orbit'.age <= OrbitMax /\ orbit'.issue # OnAir' =>
                            orbit'.issue = OnAir' - 1 /\ Phase' <= SwitchLag + orbit'.age
    BY DEF Recent
  <2>1. now' = now + 1 /\ centre' = centre /\ (centre = OnAir \/ Phase < SwitchLag)
    BY <1>1 DEF Tick, Phase
  <2>2. orbit' = Older(orbit, OrbitMax)
    BY <1>1 DEF Tick
  <2>3. orbit # None
    BY <2>2 DEF Older
  <2>4. orbit \in [issue : Issues, age : 0 .. OrbitMax + 1]
    BY <2>3 DEF TypeOK, Corrections
  <2>5. \/ orbit' = orbit /\ orbit.age > OrbitMax
        \/ orbit'.issue = orbit.issue /\ orbit'.age = orbit.age + 1 /\ orbit.age <= OrbitMax
    BY <1>a, <2>2, <2>3, <2>4, Numbers DEF Older
  <2>6. \/ Phase + 1 < Period /\ OnAir' = OnAir /\ Phase' = Phase + 1
        \/ Phase + 1 = Period /\ OnAir' = OnAir + 1 /\ Phase' = 0
    <3>1. now \div Period \in Nat
      BY <1>0, Numbers, DivMod
    <3>2. QED
      BY <1>0, <2>1, <3>1, Numbers, NextTick DEF OnAir, Phase
  <2>7. CASE orbit' = orbit /\ orbit.age > OrbitMax
    BY <1>a, <2>1, <2>3, <2>7, Numbers
  <2>8. CASE orbit'.issue = orbit.issue /\ orbit'.age = orbit.age + 1 /\ orbit.age <= OrbitMax
    <3>1. CASE Phase + 1 < Period /\ OnAir' = OnAir /\ Phase' = Phase + 1
      BY <1>0, <1>a, <2>1, <2>3, <2>8, <3>1, Numbers
    <3>2. CASE Phase + 1 = Period /\ OnAir' = OnAir + 1 /\ Phase' = 0
      <4>1. centre = OnAir
        BY <1>0, <2>1, <3>2, Numbers
      <4>2. orbit.issue # OnAir => orbit.age = OrbitMax
        BY <1>0, <1>a, <2>3, <2>8, <3>2, Numbers
      <4>3. QED
        BY <1>0, <1>a, <2>1, <2>3, <2>8, <3>2, <4>1, <4>2, Numbers
    <3>3. QED
      BY <2>6, <3>1, <3>2
  <2>9. QED
    BY <2>5, <2>7, <2>8
<1>2. CASE Switch
  <2>1. centre < OnAir /\ centre' = centre + 1 /\ now' = now /\ orbit' = orbit
    BY <1>2 DEF Switch
  <2>2. OnAir' = OnAir /\ Phase' = Phase
    BY <2>1 DEF OnAir, Phase
  <2>3. QED
    BY <1>0, <1>a, <2>1, <2>2 DEF Recent
<1>3. CASE OrbitMessage
  <2>1. now' = now /\ centre' = centre
    BY <1>3 DEF OrbitMessage
  <2>2. OnAir' = OnAir /\ Phase' = Phase
    BY <2>1 DEF OnAir, Phase
  <2>3. orbit' = orbit \/ orbit' = [issue |-> centre, age |-> 0]
    BY <1>3 DEF OrbitMessage
  <2>4. CASE orbit' = orbit
    BY <2>1, <2>2, <2>4 DEF Recent
  <2>5. CASE orbit' = [issue |-> centre, age |-> 0]
    <3>1. orbit'.issue = centre /\ orbit'.age = 0
      BY <2>5
    <3>2. QED
      BY <1>0, <2>1, <2>2, <3>1, Numbers DEF Recent
  <2>6. QED
    BY <2>3, <2>4, <2>5
<1>4. CASE UNCHANGED <<now, centre, orbit>>
  BY <1>4 DEF Recent, OnAir, Phase
<1>5. Tick \/ Switch \/ OrbitMessage \/ UNCHANGED <<now, centre, orbit>>
  BY DEF Next, vars, Readers, SatPosition, Connect, ConnectFails, Lost, ReaderFails,
         EphMessage, Store, SortBegins, SortEnds, KeepTwo, ClockMessage, ReadPosition,
         ReadOrbit, ReadIod, IodRaises, ReadVelocity, ReadClock, NextEpoch
<1>6. QED
  BY <1>1, <1>2, <1>3, <1>4, <1>5

LEMMA InitIInv == Init => IInv
<1> SUFFICES ASSUME Init PROVE IInv
  OBVIOUS
<1>1. now = 0 /\ centre = 1 /\ ephs = <<>> /\ storing = "none" /\ orbit = None
  BY DEF Init
<1>2. 0 \div Period = 0 /\ 0 % Period = 0
  <2>1. Period * 0 + 0 = 0
    BY Numbers
  <2>2. QED
    BY <2>1, Numbers, Quotient
<1>3. OnAir = 1 /\ Phase = 0
  BY <1>1, <1>2 DEF OnAir, Phase
<1>4. ephs \in Seq(Issues) /\ Len(ephs) = 0
  BY <1>1, EmptySeq
<1>5. TocsDiffer
  BY <1>4 DEF TocsDiffer
<1>6. IsInjective(ephs)
  BY <1>4, <1>5, StoreType DEF TocsDiffer
<1>7. link \in [Streams -> {"down", "up", "ended"}] /\ delay \in [Streams -> 1 .. MaxDelay]
  BY DEF Init, MaxDelay
<1>8. /\ use \in [set : Issues \union {None}, stored : Issues \union {None},
                  orbit : Issues \union {None}, clock : Issues \union {None}]
      /\ orbit \in Corrections(OrbitMax) /\ clock \in Corrections(ClockMax)
  BY DEF Init, NoUse, Corrections
<1>9. now \in 0 .. MaxNow /\ centre \in Issues /\ Len(ephs) <= 2 /\ Stored
  BY <1>1, <1>4, Numbers DEF Stored
<1>10. announced \in BOOLEAN /\ barred \subseteq Streams /\ received \subseteq Issues
       /\ pc \in {"position", "orbit", "iod", "velocity", "clock", "done"}
       /\ storing \in {"none", "added", "sorting", "sorted"}
  BY DEF Init
<1>11. TypeOK
  BY <1>1, <1>4, <1>6, <1>7, <1>8, <1>9, <1>10 DEF TypeOK
<1>12. Following /\ Recent
  BY <1>1, <1>3 DEF Following, Recent
<1>13. QED
  BY <1>5, <1>9, <1>11, <1>12 DEF IInv

LEMMA StepIInv == IInv /\ [Next]_vars => IInv'
BY TypeStep, FollowingStep, RecentStep DEF IInv

LEMMA Invariance == Spec => []IInv
BY InitIInv, StepIInv, PTL DEF Spec

-----------------------------------------------------------------------------
(* What follows from it *)

\* Every variable has its type: the store never holds more than two
\* ephemerides, three while one is being stored, and never two that are the same.
THEOREM TypeCorrect == Spec => []TypeOK
<1>1. IInv => TypeOK
  BY DEF IInv
<1>2. QED
  BY <1>1, Invariance, PTL

\* A fresh orbit correction that is not for the issue the centre refers to is
\* for the one just before it, and has at most MAX_ORBIT_AGE left.
THEOREM StaleGoesSoon == Spec => []StaleIsSoonGone
<1>1. IInv => StaleIsSoonGone
  <2> SUFFICES ASSUME IInv PROVE StaleIsSoonGone
    OBVIOUS
  <2>0. /\ OnAir \in Nat /\ centre \in Nat /\ Phase \in Nat
        /\ centre \in {OnAir - 1, OnAir} /\ (centre # OnAir => Phase <= SwitchLag)
    BY AirTimes, Numbers DEF IInv, TypeOK, Following
  <2> DEFINE k == Fresh(orbit, OrbitMax)
  <2>1. SUFFICES ASSUME k \notin {None, centre}
                 PROVE  k = centre - 1 /\ centre = OnAir /\ Phase <= SwitchLag + OrbitMax
    BY DEF StaleIsSoonGone, Phase
  <2>2. orbit # None /\ ~(orbit.age > OrbitMax) /\ k = orbit.issue
    BY <2>1 DEF Fresh
  <2>3. /\ orbit.issue \in Nat /\ orbit.age \in Nat /\ orbit.issue <= centre
        /\ orbit.age <= OrbitMax /\ orbit.issue # OnAir =>
              orbit.issue = OnAir - 1 /\ Phase <= SwitchLag + orbit.age
    BY <2>2, Numbers DEF IInv, TypeOK, Recent, Corrections
  <2>4. orbit.issue # centre
    BY <2>1, <2>2
  <2>5. orbit.issue = centre - 1 /\ centre = OnAir
    BY <2>0, <2>2, <2>3, <2>4, Numbers
  <2>6. QED
    BY <2>0, <2>2, <2>3, <2>5, Numbers
<1>2. QED
  BY <1>1, Invariance, PTL

-----------------------------------------------------------------------------
(* Times of clock that do not start again, issues of data not used twice    *)

WithinWeek == Period * LastIssue < Week
HalfWeek == 2 * (Period * LastIssue) <= Week
NoReuse == LastIssue <= Iods

LEMMA TocGrows ==
    ASSUME WithinWeek
    PROVE  /\ \A k \in Issues : Toc(k) = Period * k
           /\ \A j, k \in Issues : Toc(j) < Toc(k) <=> j < k
           /\ \A j, k \in Issues : Toc(j) = Toc(k) <=> j = k
<1>1. \A j, k \in Issues : j < k => Period * j < Period * k
  <2> TAKE j, k \in Issues
  <2> HAVE j < k
  <2>1. j \in Nat /\ k \in Nat /\ Period * j \in Nat /\ Period * k \in Nat
    BY Numbers
  <2>2. Period * j + Period <= Period * k
    BY <2>1, Numbers, Times
  <2>3. QED
    BY <2>1, <2>2, Numbers
<1>2. ASSUME NEW k \in Issues PROVE Toc(k) = Period * k /\ Period * k \in Nat
  <2>1. k \in Nat /\ k <= LastIssue /\ Period * k \in Nat /\ Period * LastIssue \in Nat
    BY Numbers
  <2>2. k = LastIssue \/ Period * k < Period * LastIssue
    <3>1. LastIssue \in Issues
      BY Numbers
    <3>2. QED
      BY <1>1, <2>1, <3>1
  <2>3. Period * k < Week
    BY <2>1, <2>2, Numbers DEF WithinWeek
  <2>4. Week * 0 + Period * k = Period * k /\ k * Period = Period * k
    BY <2>1, Numbers
  <2>5. (Period * k) % Week = Period * k
    <3>1. (Week * 0 + Period * k) % Week = Period * k
      BY <2>1, <2>3, Numbers, Quotient
    <3>2. QED
      BY <2>4, <3>1
  <2>6. QED
    BY <2>1, <2>4, <2>5 DEF Toc
<1>3. \A j, k \in Issues : j < k \/ j = k \/ k < j
  BY Numbers
<1>4. QED
  <2> SUFFICES ASSUME NEW j \in Issues, NEW k \in Issues
               PROVE  (Toc(j) < Toc(k) <=> j < k) /\ (Toc(j) = Toc(k) <=> j = k)
    BY <1>2
  <2>1. /\ Toc(j) = Period * j /\ Toc(k) = Period * k
        /\ Period * j \in Nat /\ Period * k \in Nat /\ j \in Nat /\ k \in Nat
    BY <1>2, Numbers
  <2>2. (j < k => Period * j < Period * k) /\ (k < j => Period * k < Period * j)
    BY <1>1
  <2>3. QED
    BY <2>1, <2>2

LEMMA IodDiffers ==
    ASSUME NoReuse, NEW j \in Issues, NEW k \in Issues, Iod(j) = Iod(k)
    PROVE  j = k
<1>1. ASSUME NEW i \in Issues
      PROVE  /\ i < Iods => Iod(i) = i
             /\ i = Iods => Iod(i) = 0
             /\ i \in Nat /\ i > 0 /\ i <= Iods
  <2>1. i \in Nat /\ i > 0 /\ i <= Iods
    BY Numbers DEF NoReuse
  <2>2. ASSUME i < Iods PROVE Iod(i) = i
    <3>1. (Iods * 0 + i) % Iods = i
      BY <2>1, <2>2, Numbers, Quotient
    <3>2. Iods * 0 + i = i
      BY <2>1, Numbers
    <3>3. QED
      BY <3>1, <3>2 DEF Iod
  <2>3. ASSUME i = Iods PROVE Iod(i) = 0
    <3>1. (Iods * 1 + 0) % Iods = 0
      BY Numbers, Quotient
    <3>2. Iods * 1 + 0 = i
      BY <2>1, <2>3, Numbers
    <3>3. QED
      BY <3>1, <3>2 DEF Iod
  <2>4. QED
    BY <2>1, <2>2, <2>3
<1>2. QED
  BY <1>1, Numbers

-----------------------------------------------------------------------------
(* The orbit correction and the ephemeris it was applied to *)

\* The store s has an ephemeris no older than k.
Reached(s, k) == \E i \in 1 .. Len(s) : s[i] >= k

\* What the consumer has read has since been overtaken at most: the store has
\* an ephemeris as late as the one read, and the correction that is applied, or
\* will be if there is a velocity, refers to one no earlier than that and no
\* later than what is stored.
Ahead ==
    /\ pc = "position" => use = NoUse
    /\ pc \in {"iod", "velocity"} => use.stored \in Issues
    /\ pc \in {"orbit", "iod", "velocity"} => use.set \in Issues
    /\ use.set # None => Reached(ephs, use.set)
    /\ pc = "velocity" => use.set <= use.stored /\ Reached(ephs, use.stored)
    /\ use.orbit # None =>
          use.set \in Issues /\ use.set <= use.orbit /\ Reached(ephs, use.orbit)

\* Within the week the store only moves forward.
LEMMA ReachedStays ==
    ASSUME WithinWeek, TypeOK, TocsDiffer, Stored, [Next]_vars,
           NEW k \in Issues, Reached(ephs, k)
    PROVE  Reached(ephs', k)
<1>1. CASE UNCHANGED ephs
  BY <1>1 DEF Reached
<1> PICK i \in 1 .. Len(ephs) : ephs[i] >= k
  BY DEF Reached
<1> DEFINE x == ephs[i]
<1>2. x \in Issues /\ x \in Nat /\ k \in Nat /\ x >= k
  BY ElementOfSeq, Numbers DEF TypeOK
<1>3. ASSUME NEW new \in Issues, EphMessage(new) PROVE Reached(ephs', k)
  <2>1. \/ \E j \in 1 .. Len(ephs') : ephs'[j] = x
        \/ Toc(x) = Toc(new) /\ \E j \in 1 .. Len(ephs') : ephs'[j] = new
    BY <1>2, <1>3, StoreEffect
  <2> HIDE DEF x
  <2>2. CASE \E j \in 1 .. Len(ephs') : ephs'[j] = x
    BY <1>2, <2>2 DEF Reached
  <2>3. CASE Toc(x) = Toc(new) /\ \E j \in 1 .. Len(ephs') : ephs'[j] = new
    <3>1. x = new
      BY <1>2, <2>3, TocGrows
    <3>2. QED
      BY <1>2, <2>3, <3>1 DEF Reached
  <2>4. QED
    BY <2>1, <2>2, <2>3
<1>4. CASE Store
  <2>1. /\ ephs' \in Seq(Issues) /\ Len(ephs') \in 2 .. 3
        /\ \/ \E j \in 1 .. Len(ephs') : ephs'[j] = x
           \/ \A j \in 1 .. Len(ephs') : Toc(x) < Toc(ephs'[j])
    BY <1>4, StepOfStore
  <2> HIDE DEF x
  <2>2. CASE \E j \in 1 .. Len(ephs') : ephs'[j] = x
    BY <1>2, <2>2 DEF Reached
  <2>3. CASE \A j \in 1 .. Len(ephs') : Toc(x) < Toc(ephs'[j])
    <3>1. 1 \in 1 .. Len(ephs')
      BY <2>1
    <3>2. ephs'[1] \in Issues
      BY <2>1, <3>1, ElementOfSeq
    <3>3. x < ephs'[1]
      BY <1>2, <2>3, <3>1, <3>2, TocGrows
    <3>4. ephs'[1] >= k
      BY <1>2, <3>2, <3>3, Numbers
    <3>5. QED
      BY <3>1, <3>4 DEF Reached
  <2>4. QED
    BY <2>1, <2>2, <2>3
<1>5. UNCHANGED ephs \/ Store \/ \E new \in Issues : EphMessage(new)
  BY DEF Next, vars, ephVars, Readers, SatPosition, Tick, Switch, Connect, ConnectFails, Lost,
         ReaderFails, OrbitMessage, ClockMessage, ReadPosition, ReadOrbit, ReadIod, IodRaises,
         ReadVelocity, ReadClock, NextEpoch
<1>6. QED
  BY <1>1, <1>3, <1>4, <1>5

\* get_iod gives that of the latest set; an issue of data that matches it is
\* that set's.
LEMMA MatchIsLatest ==
    ASSUME WithinWeek, NoReuse, TypeOK, Seen # <<>>, NEW k \in Issues, Matches(k)
    PROVE  Reached(ephs, k) /\ \A i \in 1 .. Len(ephs) : ephs[i] <= k
<1> DEFINE P(x) == \A j \in ToSet(ephs) : Toc(j) <= Toc(x)
           latest == CHOOSE x \in ToSet(ephs) : P(x)
<1>0. Seen = ephs /\ ephs # <<>>
  BY DEF Seen
<1>1. /\ DOMAIN ephs = 1 .. Len(ephs) /\ Len(ephs) \in Nat /\ Len(ephs) # 0 /\ Len(ephs) <= 3
      /\ \A i \in 1 .. Len(ephs) : ephs[i] \in Issues
  BY <1>0, LenProperties, EmptySeq, ElementOfSeq DEF TypeOK
<1>2. ToSet(ephs) = {ephs[i] : i \in 1 .. Len(ephs)}
  BY <1>1 DEF ToSet
<1>3. \A x \in ToSet(ephs) : x \in Issues /\ Toc(x) \in Nat
  BY <1>1, <1>2, TocType
<1>4. \E x \in ToSet(ephs) : P(x)
  <2>1. CASE Len(ephs) = 1
    <3>1. ToSet(ephs) = {ephs[1]}
      BY <1>2, <2>1
    <3>2. QED
      BY <1>3, <3>1
  <2>2. CASE Len(ephs) = 2
    <3>1. ToSet(ephs) = {ephs[1], ephs[2]}
      BY <1>2, <2>2
    <3>2. QED
      BY <1>3, <3>1
  <2>3. CASE Len(ephs) = 3
    <3>1. ToSet(ephs) = {ephs[1], ephs[2], ephs[3]}
      BY <1>2, <2>3
    <3>2. QED
      BY <1>3, <3>1
  <2>4. QED
    BY <1>1, <2>1, <2>2, <2>3
<1>5. latest \in ToSet(ephs) /\ P(latest)
  <2> HIDE DEF P
  <2>1. QED
    BY <1>4
<1>6. StoredIod = IF Iod(latest) = 0 THEN None ELSE Iod(latest)
  BY <1>0 DEF StoredIod
<1> HIDE DEF latest
<1>7. Iod(k) \in Nat
  BY Numbers, DivMod DEF Iod
<1>8. Iod(latest) = Iod(k)
  BY <1>6, <1>7, NoneAssumption DEF Matches
<1>9. latest = k
  BY <1>3, <1>5, <1>8, IodDiffers
<1>10. PICK i \in 1 .. Len(ephs) : ephs[i] = k
  BY <1>2, <1>5, <1>9
<1>11. Reached(ephs, k)
  BY <1>10, Numbers DEF Reached
<1>12. ASSUME NEW j \in 1 .. Len(ephs) PROVE ephs[j] <= k
  <2>1. ephs[j] \in Issues /\ Toc(ephs[j]) <= Toc(k)
    BY <1>1, <1>2, <1>5, <1>9
  <2>2. ~(Toc(k) < Toc(ephs[j]))
    BY <2>1, TocType
  <2>3. ~(k < ephs[j])
    BY <2>1, <2>2, TocGrows
  <2>4. QED
    BY <2>1, <2>3, Numbers
<1>13. QED
  BY <1>11, <1>12

LEMMA AheadStep ==
    ASSUME WithinWeek, NoReuse, TypeOK, TocsDiffer, Stored, Ahead, [Next]_vars
    PROVE  Ahead'
<1> USE DEF linkVars, airVars, ephVars, ssrVars, readVars
<1>0. /\ use.set \in Issues \union {None} /\ use.stored \in Issues \union {None}
      /\ use.orbit \in Issues \union {None}
      /\ use = [set |-> use.set, stored |-> use.stored, orbit |-> use.orbit, clock |-> use.clock]
  BY DEF TypeOK
<1>n. /\ NoUse.set = None /\ NoUse.orbit = None /\ NoUse.set \notin Issues
  BY NoneAssumption, Numbers DEF NoUse
<1>1. CASE UNCHANGED <<pc, use>>
  <2>1. \A k \in Issues : Reached(ephs, k) => Reached(ephs', k)
    BY ReachedStays
  <2>2. (use.set # None => use.set \in Issues) /\ (use.orbit # None => use.orbit \in Issues)
    BY <1>0
  <2>3. use'.set # None => Reached(ephs', use'.set)
    BY <1>1, <2>1, <2>2 DEF Ahead
  <2>4. pc' = "velocity" => use'.set <= use'.stored /\ Reached(ephs', use'.stored)
    BY <1>1, <2>1 DEF Ahead
  <2>5. use'.orbit # None =>
           use'.set \in Issues /\ use'.set <= use'.orbit /\ Reached(ephs', use'.orbit)
    BY <1>1, <2>1, <2>2 DEF Ahead
  <2>6. /\ pc' = "position" => use' = NoUse
        /\ pc' \in {"iod", "velocity"} => use'.stored \in Issues
        /\ pc' \in {"orbit", "iod", "velocity"} => use'.set \in Issues
    BY <1>1 DEF Ahead
  <2>7. QED
    BY <2>3, <2>4, <2>5, <2>6 DEF Ahead, Reached
<1>2. CASE ReadPosition
  <2>1. /\ Seen = ephs /\ ephs # <<>> /\ ephs \in Seq(Issues) /\ Len(ephs) <= 3
        /\ now \in Nat
    BY <1>2, Numbers DEF ReadPosition, Seen, TypeOK
  <2>2. PICK i \in 1 .. Len(ephs) : Closest(ephs, now) = ephs[i]
    BY <2>1, ClosestIsClosest
  <2>3. ephs[i] \in Issues /\ ephs[i] \in Nat
    BY <2>1, ElementOfSeq, Numbers
  <2>4. /\ use' = [NoUse EXCEPT !.set = ephs[i]] /\ pc' = "orbit" /\ ephs' = ephs
    BY <1>2, <2>1, <2>2 DEF ReadPosition
  <2>5. use'.set = ephs[i] /\ use'.orbit = None
    BY <2>4 DEF NoUse
  <2>6. ephs[i] >= ephs[i]
    BY <2>3
  <2>7. Reached(ephs', use'.set)
    BY <2>4, <2>5, <2>6 DEF Reached
  <2>8. QED
    BY <2>3, <2>4, <2>5, <2>7 DEF Ahead, Reached
<1>3. CASE ReadOrbit
  <2>1. /\ use' = [use EXCEPT !.stored = Fresh(orbit, OrbitMax)] /\ ephs' = ephs
        /\ pc = "orbit" /\ pc' = IF use'.stored = None THEN "clock" ELSE "iod"
    BY <1>3 DEF ReadOrbit
  <2>2. Fresh(orbit, OrbitMax) \in Issues \union {None}
    BY FreshType, Numbers DEF TypeOK
  <2>3. /\ use'.set = use.set /\ use'.orbit = use.orbit
        /\ use'.stored = Fresh(orbit, OrbitMax)
    BY <1>0, <2>1
  <2>4. pc' = "iod" => use'.stored \in Issues /\ use'.set \in Issues
    BY <2>1, <2>2, <2>3 DEF Ahead
  <2>5. pc' \notin {"position", "orbit", "velocity"}
    BY <2>1
  <2>6. QED
    BY <2>1, <2>3, <2>4, <2>5 DEF Ahead, Reached
<1>4. CASE ReadIod
  <2>1. /\ use' = use /\ ephs' = ephs /\ pc = "iod" /\ Seen # <<>>
        /\ pc' \in {"velocity", "clock", "done"} /\ (pc' = "velocity" => Matches(use.stored))
    BY <1>4 DEF ReadIod
  <2>2. use.stored \in Issues /\ use.set \in Issues /\ Reached(ephs, use.set)
    BY <1>n, <2>1, NoneAssumption, Numbers DEF Ahead
  <2>3. ASSUME pc' = "velocity"
        PROVE  use.set <= use.stored /\ Reached(ephs, use.stored)
    <3>1. PICK i \in 1 .. Len(ephs) : ephs[i] >= use.set
      BY <2>2 DEF Reached
    <3>2. Reached(ephs, use.stored) /\ ephs[i] <= use.stored
      BY <2>1, <2>2, <2>3, MatchIsLatest
    <3>3. ephs[i] \in Nat /\ use.set \in Nat /\ use.stored \in Nat
      BY <2>2, ElementOfSeq, Numbers DEF TypeOK
    <3>4. use.set <= use.stored
      BY <3>1, <3>2, <3>3
    <3>5. QED
      BY <3>2, <3>4
  <2>4. pc' \notin {"position", "orbit", "iod"}
    BY <2>1
  <2>5. QED
    BY <2>1, <2>2, <2>3, <2>4 DEF Ahead, Reached
<1>5. CASE IodRaises \/ NextEpoch
  <2>1. use' = NoUse /\ pc' \in {"position", "done"}
    BY <1>5 DEF IodRaises, NextEpoch
  <2>2. QED
    BY <1>n, <2>1 DEF Ahead
<1>6. CASE ReadVelocity
  <2>1. /\ pc = "velocity" /\ pc' = "clock" /\ ephs' = ephs
        /\ use' = use \/ use' = [use EXCEPT !.orbit = use.stored]
    BY <1>6 DEF ReadVelocity
  <2>2. /\ use.set \in Issues /\ Reached(ephs, use.set)
        /\ use.set <= use.stored /\ Reached(ephs, use.stored)
    BY <1>n, <2>1, NoneAssumption, Numbers DEF Ahead
  <2>3. /\ use'.set = use.set /\ use'.orbit \in {use.orbit, use.stored}
    BY <1>0, <2>1
  <2>4. use'.orbit # None => use.set <= use'.orbit /\ Reached(ephs, use'.orbit)
    BY <2>2, <2>3 DEF Ahead
  <2>5. QED
    BY <2>1, <2>2, <2>3, <2>4 DEF Ahead, Reached
<1>7. CASE ReadClock
  <2>1. /\ use' = [use EXCEPT !.clock = Fresh(clock, ClockMax)] /\ ephs' = ephs
        /\ pc = "clock" /\ pc' = "done"
    BY <1>7 DEF ReadClock
  <2>2. use'.set = use.set /\ use'.orbit = use.orbit
    BY <1>0, <2>1
  <2>3. QED
    BY <2>1, <2>2 DEF Ahead, Reached
<1>8. SatPosition \/ UNCHANGED <<pc, use>>
  BY DEF Next, vars, Readers, Tick, Switch, Connect, ConnectFails, Lost, ReaderFails,
         EphMessage, Store, SortBegins, SortEnds, KeepTwo, OrbitMessage, ClockMessage
<1>9. QED
  BY <1>1, <1>2, <1>3, <1>4, <1>5, <1>6, <1>7, <1>8 DEF SatPosition

\* Within a week, and while no issue of data is used again, an orbit correction
\* is applied to the latest ephemeris only if it refers to that one, whatever
\* the readers store between the reads of sat_position.
THEOREM Paired ==
    ASSUME WithinWeek, NoReuse
    PROVE  Spec => []PairedOnLatest
<1>1. Init => Ahead
  BY DEF Init, Ahead, NoUse
<1>2. IInv /\ Ahead /\ [Next]_vars => Ahead'
  BY AheadStep DEF IInv
<1>3. IInv /\ Ahead => PairedOnLatest
  <2> SUFFICES ASSUME IInv, Ahead, pc = "done", use.set # None,
                      \A k \in ToSet(ephs) : k <= use.set, use.orbit # None
               PROVE  use.orbit = use.set
    BY DEF PairedOnLatest
  <2>1. use.set \in Nat /\ use.orbit \in Nat /\ use.set <= use.orbit /\ Reached(ephs, use.orbit)
    BY Numbers DEF IInv, TypeOK, Ahead
  <2>2. PICK i \in 1 .. Len(ephs) : ephs[i] >= use.orbit
    BY <2>1 DEF Reached
  <2>3. DOMAIN ephs = 1 .. Len(ephs) /\ ephs[i] \in Nat
    BY LenProperties, ElementOfSeq, Numbers DEF IInv, TypeOK
  <2>4. ephs[i] <= use.set
    BY <2>3 DEF ToSet
  <2>5. QED
    BY <2>1, <2>2, <2>3, <2>4
<1>4. QED
  BY <1>1, <1>2, <1>3, Invariance, PTL DEF Spec

-----------------------------------------------------------------------------
(* The closest ephemeris *)

\* What is not in the store is older than all that are, and those are two at least.
Newest ==
    /\ \A k \in received : k <= OnAir
    /\ \A i \in 1 .. Len(ephs) : ephs[i] \in received
    /\ \A k \in received : \/ \E i \in 1 .. Len(ephs) : ephs[i] = k
                           \/ Len(ephs) >= 2 /\ \A i \in 1 .. Len(ephs) : k < ephs[i]

LEMMA NewestStep ==
    ASSUME WithinWeek, TypeOK, TocsDiffer, Stored, Newest, [Next]_vars
    PROVE  Newest'
<1>0. now \in Nat /\ OnAir \in Nat /\ received \subseteq Issues
  BY AirTimes, Numbers DEF TypeOK
<1>1. OnAir <= OnAir' /\ OnAir' \in Nat
  <2>1. now' = now \/ now' = now + 1
    BY DEF Next, vars, airVars, Readers, SatPosition, Tick, Switch, Connect, ConnectFails, Lost,
           ReaderFails, EphMessage, Store, SortBegins, SortEnds, KeepTwo, OrbitMessage,
           ClockMessage, ReadPosition, ReadOrbit, ReadIod, IodRaises, ReadVelocity, ReadClock,
           NextEpoch
  <2>2. now' \in Nat /\ now <= now'
    BY <1>0, <2>1
  <2>3. now \div Period <= now' \div Period
    BY <1>0, <2>2, Numbers, DivMonotone
  <2>4. now \div Period \in Nat /\ now' \div Period \in Nat
    BY <1>0, <2>2, Numbers, DivMod
  <2>5. QED
    BY <2>3, <2>4 DEF OnAir
<1>3. CASE UNCHANGED <<ephs, received>>
  <2>1. \A k \in received : k \in Nat /\ k <= OnAir
    BY <1>0, Numbers DEF Newest
  <2>2. \A k \in received : k <= OnAir'
    BY <1>0, <1>1, <2>1
  <2>3. QED
    BY <1>3, <2>2 DEF Newest
<1>4. ASSUME NEW new \in Issues, EphMessage(new) PROVE Newest'
  <2>1. /\ new \in {OnAir, OnAir - 1} /\ received' = received \union {new}
        /\ now' = now /\ OnAir' = OnAir
    BY <1>4 DEF EphMessage, airVars, OnAir
  <2>2. /\ ephs \in Seq(Issues) /\ \A i \in 1 .. Len(ephs) : ephs[i] \in Issues
        /\ ephs' \in Seq(Issues) /\ \A i \in 1 .. Len(ephs') : ephs'[i] \in Issues
    BY <1>4, StoreEffect, ElementOfSeq DEF TypeOK
  <2>3. \A k \in received' : k <= OnAir'
    BY <1>0, <2>1 DEF Newest
  <2>4. \A i \in 1 .. Len(ephs') : ephs'[i] \in received'
    <3>1. \A i \in 1 .. Len(ephs') :
             ephs'[i] = new \/ \E j \in 1 .. Len(ephs) : ephs'[i] = ephs[j]
      BY <1>4, StoreEffect
    <3>2. QED
      BY <2>1, <3>1 DEF Newest
  <2>5. ASSUME NEW k \in received'
        PROVE  \/ \E i \in 1 .. Len(ephs') : ephs'[i] = k
               \/ Len(ephs') >= 2 /\ \A i \in 1 .. Len(ephs') : k < ephs'[i]
    <3>1. k \in Issues /\ k \in Nat
      BY <1>0, <2>1, Numbers
    <3>2. CASE k = new \/ \E j \in 1 .. Len(ephs) : k = ephs[j]
      <4>1. \/ \E i \in 1 .. Len(ephs') : ephs'[i] = k
            \/ Toc(k) = Toc(new) /\ \E i \in 1 .. Len(ephs') : ephs'[i] = new
        BY <1>4, <3>1, <3>2, StoreEffect
      <4>2. Toc(k) = Toc(new) => k = new
        BY <3>1, TocGrows
      <4>3. QED
        BY <4>1, <4>2
    <3>3. CASE ~(k = new \/ \E j \in 1 .. Len(ephs) : k = ephs[j])
      <4>1. k \in received /\ Len(ephs) >= 2 /\ \A i \in 1 .. Len(ephs) : k < ephs[i]
        BY <2>1, <3>3 DEF Newest
      <4>2. \A i \in 1 .. Len(ephs) : ephs[i] <= OnAir /\ ephs[i] \in Nat
        BY <2>2, Numbers DEF Newest
      <4>3. ephs[1] # ephs[2]
        <5>1. 1 \in 1 .. Len(ephs) /\ 2 \in 1 .. Len(ephs)
          BY <2>2, <4>1, LenProperties
        <5>2. QED
          BY <5>1 DEF TocsDiffer
      <4>4. k + 1 < OnAir
        <5>a. 1 \in 1 .. Len(ephs) /\ 2 \in 1 .. Len(ephs)
          BY <2>2, <4>1, LenProperties
        <5>1. /\ k < ephs[1] /\ k < ephs[2] /\ ephs[1] <= OnAir /\ ephs[2] <= OnAir
              /\ ephs[1] \in Nat /\ ephs[2] \in Nat
          BY <4>1, <4>2, <5>a
        <5>2. QED
          BY <1>0, <3>1, <4>3, <5>1
      <4>5. k < new
        BY <1>0, <2>1, <3>1, <4>4
      <4>6. Len(ephs') >= 2
        <5>1. Len(ephs') \in Nat /\ Len(ephs) \in Nat /\ Len(ephs) <= Len(ephs')
          BY <1>4, <2>2, StoreEffect, LenProperties
        <5>2. QED
          BY <4>1, <5>1
      <4>7. \A i \in 1 .. Len(ephs') : k < ephs'[i]
        <5>1. \A i \in 1 .. Len(ephs') :
                 ephs'[i] = new \/ \E j \in 1 .. Len(ephs) : ephs'[i] = ephs[j]
          BY <1>4, StoreEffect
        <5>2. QED
          BY <4>1, <4>5, <5>1
      <4>8. QED
        BY <4>6, <4>7
    <3>4. QED
      BY <3>2, <3>3
  <2>6. QED
    BY <2>3, <2>4, <2>5 DEF Newest
<1>5. CASE Store
  <2>1. received' = received /\ OnAir' = OnAir
    BY <1>5 DEF Store, SortBegins, SortEnds, KeepTwo, airVars, OnAir
  <2>2. /\ ephs \in Seq(Issues) /\ \A i \in 1 .. Len(ephs) : ephs[i] \in Issues
        /\ ephs' \in Seq(Issues) /\ \A i \in 1 .. Len(ephs') : ephs'[i] \in Issues
    BY <1>5, StepOfStore, ElementOfSeq DEF TypeOK
  <2>3. /\ Len(ephs') >= 2
        /\ \A i \in 1 .. Len(ephs') : \E j \in 1 .. Len(ephs) : ephs'[i] = ephs[j]
        /\ \A j \in 1 .. Len(ephs) :
              \/ \E i \in 1 .. Len(ephs') : ephs'[i] = ephs[j]
              \/ \A i \in 1 .. Len(ephs') : Toc(ephs[j]) < Toc(ephs'[i])
    <3>1. Len(ephs') \in 2 .. 3
      BY <1>5, StepOfStore
    <3>2. Len(ephs') >= 2
      BY <3>1
    <3> HIDE DEF Store
    <3>3. QED
      BY <1>5, <3>2, StepOfStore
  <2>4. ASSUME NEW k \in received
        PROVE  \/ \E i \in 1 .. Len(ephs') : ephs'[i] = k
               \/ \A i \in 1 .. Len(ephs') : k < ephs'[i]
    <3>1. k \in Issues
      BY <1>0
    <3>2. CASE \E j \in 1 .. Len(ephs) : ephs[j] = k
      <4>1. \/ \E i \in 1 .. Len(ephs') : ephs'[i] = k
            \/ \A i \in 1 .. Len(ephs') : Toc(k) < Toc(ephs'[i])
        BY <2>3, <3>2
      <4>2. \A i \in 1 .. Len(ephs') : Toc(k) < Toc(ephs'[i]) => k < ephs'[i]
        BY <2>2, <3>1, TocGrows
      <4>3. QED
        BY <4>1, <4>2
    <3>3. CASE \A j \in 1 .. Len(ephs) : k < ephs[j]
      BY <2>3, <3>3
    <3>4. QED
      BY <3>2, <3>3 DEF Newest
  <2>5. QED
    BY <2>1, <2>3, <2>4 DEF Newest
<1>6. UNCHANGED <<ephs, received>> \/ Store \/ \E new \in Issues : EphMessage(new)
  BY DEF Next, vars, ephVars, Readers, SatPosition, Tick, Switch, Connect, ConnectFails, Lost,
         ReaderFails, OrbitMessage, ClockMessage, ReadPosition, ReadOrbit, ReadIod, IodRaises,
         ReadVelocity, ReadClock, NextEpoch
<1>7. QED
  BY <1>3, <1>4, <1>5, <1>6

\* Times are compared as they are: half a week is not reached.
LEMMA DistanceIs ==
    ASSUME HalfWeek, NEW t \in 0 .. MaxNow, NEW k \in Issues
    PROVE  Distance(k, t) = IF t < Period * k THEN Period * k - t ELSE t - Period * k
<1>1. /\ t \in Nat /\ t <= MaxNow /\ k \in Nat /\ k <= LastIssue
      /\ Period * k \in Nat /\ Period * LastIssue \in Nat
  BY Numbers
<1>2. Toc(k) = Period * k
  <2>1. Period * LastIssue > 0
    BY Numbers
  <2>2. WithinWeek
    BY <1>1, <2>1, Numbers DEF HalfWeek, WithinWeek
  <2>3. QED
    BY <2>2, TocGrows
<1>3. Period * k <= Period * LastIssue
  <2>1. CASE k = LastIssue
    BY <1>1, <2>1
  <2>2. CASE k < LastIssue
    <3>1. Period * k + Period <= Period * LastIssue
      BY <1>1, <2>2, Numbers, Times
    <3>2. QED
      BY <1>1, <3>1, Numbers
  <2>3. QED
    BY <1>1, <2>1, <2>2, Numbers
<1>4. t < Period * LastIssue
  <2>1. /\ MaxNow \div Period \in Nat /\ MaxNow % Period \in Nat /\ MaxNow % Period < Period
        /\ MaxNow = Period * (MaxNow \div Period) + (MaxNow % Period)
    BY Numbers, DivMod
  <2>2. Period * LastIssue = Period * (MaxNow \div Period) + Period
    BY <2>1, Numbers DEF LastIssue
  <2>3. Period * (MaxNow \div Period) \in Nat
    BY <2>1, Numbers
  <2>4. MaxNow < Period * LastIssue
    BY <2>1, <2>2, <2>3, Numbers
  <2>5. QED
    BY <1>1, <2>4, Numbers
<1> DEFINE half == Week \div 2
           at == Period * k
<1>5. half \in Nat /\ Week = 2 * half
  <2>1. Week \div 2 \in Nat /\ Week = 2 * (Week \div 2) + (Week % 2)
    BY Numbers, DivMod
  <2>2. Week % 2 = 0
    BY ConstantsAssumption
  <2>3. QED
    BY <2>1, <2>2
<1> HIDE DEF half, at
<1>6. at \in Nat /\ at <= half /\ t < half /\ t < Week
  <2>1. 2 * (Period * LastIssue) <= 2 * half
    BY <1>5 DEF HalfWeek
  <2>2. Period * LastIssue <= half
    BY <1>1, <1>5, <2>1
  <2>3. QED
    BY <1>1, <1>3, <1>4, <1>5, <2>2 DEF at
<1>7. t % Week = t
  <2>1. (Week * 0 + t) % Week = t
    BY <1>1, <1>6, Numbers, Quotient
  <2>2. Week * 0 + t = t
    BY <1>1, Numbers
  <2>3. QED
    BY <2>1, <2>2
<1>8. Crossover(t - at) = t - at
  BY <1>1, <1>5, <1>6 DEF Crossover, half
<1>9. Distance(k, t) = IF t - at < 0 THEN -(t - at) ELSE t - at
  BY <1>2, <1>7, <1>8 DEF Distance, at
<1>10. QED
  BY <1>1, <1>6, <1>9 DEF at

\* While no two times are half a week apart, positions are computed from the
\* closest of all the ephemerides received: repeated, late and discarded ones
\* do not matter.
THEOREM ClosestKept ==
    ASSUME HalfWeek
    PROVE  Spec => []ClosestIsKept
<1>0. WithinWeek
  <2>1. Period * LastIssue \in Nat /\ Period * LastIssue > 0
    BY Numbers
  <2>2. QED
    BY <2>1, Numbers DEF HalfWeek, WithinWeek
<1>1. Init => Newest
  <2> SUFFICES ASSUME Init PROVE Newest
    OBVIOUS
  <2>1. received = {} /\ Len(ephs) = 0
    BY EmptySeq DEF Init
  <2>2. QED
    BY <2>1 DEF Newest
<1>2. IInv /\ Newest /\ [Next]_vars => Newest'
  BY <1>0, NewestStep DEF IInv
<1>3. IInv /\ Newest => ClosestIsKept
  <2> SUFFICES ASSUME IInv, Newest, Seen # <<>>, NEW k \in received
               PROVE  Distance(Closest(Seen, now), now) <= Distance(k, now)
    BY DEF ClosestIsKept
  <2>0. Seen = ephs /\ ephs # <<>> /\ ephs \in Seq(Issues) /\ Len(ephs) <= 3
    BY DEF Seen, IInv, TypeOK
  <2>1. /\ now \in Nat /\ now \in 0 .. MaxNow /\ OnAir \in Nat
        /\ k \in Issues /\ k \in Nat /\ k <= OnAir
    BY AirTimes, Numbers DEF IInv, TypeOK, Newest
  <2>2. PICK i \in 1 .. Len(ephs) :
           /\ Closest(ephs, now) = ephs[i]
           /\ \A j \in 1 .. Len(ephs) : Distance(ephs[i], now) <= Distance(ephs[j], now)
    BY <2>0, <2>1, ClosestIsClosest
  <2>3. \A j \in 1 .. Len(ephs) : ephs[j] \in Issues /\ ephs[j] \in Nat /\ ephs[j] <= OnAir
    <3>1. \A j \in 1 .. Len(ephs) : ephs[j] \in Issues
      BY ElementOfSeq DEF IInv, TypeOK
    <3>2. QED
      BY <3>1, Numbers DEF Newest
  <2>4. CASE \E j \in 1 .. Len(ephs) : ephs[j] = k
    BY <2>0, <2>2, <2>4
  <2>5. CASE Len(ephs) >= 2 /\ \A j \in 1 .. Len(ephs) : k < ephs[j]
    <3>1. 1 \in 1 .. Len(ephs) /\ 2 \in 1 .. Len(ephs)
      BY <2>0, <2>5, LenProperties
    <3>2. ephs[1] # ephs[2]
      BY <3>1 DEF IInv, TocsDiffer
    <3>3. PICK j \in 1 .. Len(ephs) : k < ephs[j] /\ ephs[j] < OnAir
      <4>1. /\ ephs[1] \in Nat /\ ephs[2] \in Nat /\ ephs[1] <= OnAir /\ ephs[2] <= OnAir
            /\ k < ephs[1] /\ k < ephs[2]
        BY <2>3, <2>5, <3>1
      <4>2. ephs[1] < OnAir \/ ephs[2] < OnAir
        BY <2>1, <3>2, <4>1
      <4>3. QED
        BY <3>1, <4>1, <4>2
    <3> DEFINE m == ephs[j]
    <3>4. m \in Issues /\ m \in Nat /\ k < m /\ m < OnAir
      BY <2>3, <3>3
    <3> HIDE DEF m
    <3>5. Period * m <= now
      <4>1. /\ now \div Period \in Nat /\ now % Period \in Nat
            /\ now = Period * (now \div Period) + (now % Period)
        BY <2>1, Numbers, DivMod
      <4>2. m <= now \div Period
        BY <3>4, <4>1 DEF OnAir
      <4>3. /\ Period * m <= Period * (now \div Period)
            /\ Period * m \in Nat /\ Period * (now \div Period) \in Nat
        <5>1. Period \in Nat
          BY Numbers
        <5>2. QED
          BY <3>4, <4>1, <4>2, <5>1, Multiples
      <4>4. \A a, b, r \in Nat : a <= b => a <= b + r
        OBVIOUS
      <4>5. QED
        BY <4>1, <4>3, <4>4
    <3>6. /\ Period * k + Period <= Period * m
          /\ Period * k \in Nat /\ Period * m \in Nat
      BY <2>1, <3>4, Numbers, Times
    <3>7. Distance(m, now) = now - Period * m /\ Distance(k, now) = now - Period * k
      <4>1. ~(now < Period * m) /\ ~(now < Period * k)
        BY <2>1, <3>5, <3>6, Numbers
      <4>2. QED
        BY <2>1, <3>4, <4>1, DistanceIs
    <3>8. Distance(ephs[i], now) <= Distance(m, now) /\ Distance(ephs[i], now) \in Nat
      BY <2>1, <2>2, <2>3, DistanceType DEF m
    <3>9. QED
      BY <2>0, <2>1, <2>2, <3>6, <3>7, <3>8, Numbers
  <2>6. QED
    BY <2>4, <2>5 DEF Newest
<1>4. QED
  BY <1>1, <1>2, <1>3, Invariance, PTL DEF Spec

=============================================================================
