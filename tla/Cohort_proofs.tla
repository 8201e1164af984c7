---------------------------- MODULE Cohort_proofs ----------------------------
(***************************************************************************)
(* Proofs about Cohort, for any finite set of peers and every threshold.   *)
(*                                                                         *)
(* A filter is at the antenna or off, so the k-th smallest vote is decided *)
(* by how many votes are at the antenna.  The median can be far from the   *)
(* host only if the middle vote, or one of the middle two, is elsewhere,   *)
(* and then half of the votes are.                                         *)
(*                                                                         *)
(* So the timer runs no further than the host has been outvoted, and not   *)
(* before the cooldown has passed (TimerTells): when it reaches Sustain,   *)
(* all that was needed has been seen.                                      *)
(***************************************************************************)
EXTENDS Cohort, FiniteSetTheorems, TLAPS

\* The thresholds as numbers.
LEMMA Thresholds ==
    /\ Drift \in Nat /\ Drift > 0
    /\ Threshold \in Nat /\ Threshold > 0
    /\ Sustain \in Nat /\ Sustain > 0
    /\ Cooldown \in Nat /\ Cooldown > 0
    /\ Between = Cooldown + Sustain - 1 /\ Between \in Nat
  BY ConstantsAssumption DEF Between

-----------------------------------------------------------------------------
(* Types *)

LEMMA InitType == Init => TypeOK
<1> SUFFICES ASSUME Init PROVE TypeOK
  OBVIOUS
<1>1. snap \in [Peers -> Snapshots]
  BY DEF Init, NoSnapshot, Snapshots, Stale
<1>2. pos \in [Hosts -> Places]
  BY DEF Init, Places
<1>3. cool \in 0 .. Cooldown - 1 /\ outvoted \in 0 .. Sustain /\ rest \in 0 .. Between
  BY Thresholds DEF Init
<1>4. QED
  BY <1>1, <1>2, <1>3 DEF Init, TypeOK

LEMMA LaterType ==
    ASSUME TypeOK
    PROVE  Later(since) \in 0 .. Sustain \union {None}
BY Thresholds DEF TypeOK, Later

LEMMA EvaluateType ==
    ASSUME TypeOK, Evaluate
    PROVE  /\ since' \in 0 .. Sustain \union {None}
           /\ cool' \in 0 .. Cooldown - 1
           /\ ev' \in Reasons \union {None}
           /\ outvoted' \in 0 .. Sustain
           /\ rest' \in 0 .. Between
<1>1. /\ since \in 0 .. Sustain \union {None} /\ cool \in 0 .. Cooldown - 1
      /\ outvoted \in 0 .. Sustain /\ rest \in 0 .. Between
  BY DEF TypeOK
<1>2. CASE cool > 0
  <2>1. cool' = cool - 1 /\ ev' = None /\ since' = since
    BY <1>2 DEF Evaluate
  <2>2. cool' \in 0 .. Cooldown - 1
    BY <1>1, <1>2, <2>1, Thresholds
  <2>3. QED
    BY <1>1, <2>1, <2>2, Thresholds DEF Evaluate, Remember
<1>3. CASE ~(cool > 0)
  <2>1. \/ since' = None /\ cool' = Cooldown - 1 /\ ev' \in {"pos_consensus", "other"}
        \/ since' \in {None, 0, Later(since)} /\ cool' = cool /\ ev' = None
    BY <1>3 DEF Evaluate, Trip, TripOtherwise, RecordTrip, Timer, Reset
  <2>2. since' \in 0 .. Sustain \union {None} /\ cool' \in 0 .. Cooldown - 1
    BY <1>1, <2>1, LaterType, Thresholds
  <2>3. outvoted' \in 0 .. Sustain /\ rest' \in 0 .. Between
    BY <1>1, Thresholds DEF Evaluate, Remember
  <2>4. QED
    BY <2>1, <2>2, <2>3 DEF Reasons
<1>4. QED
  BY <1>2, <1>3

LEMMA StepType == TypeOK /\ [Next]_vars => TypeOK'
<1> SUFFICES ASSUME TypeOK, [Next]_vars PROVE TypeOK'
  OBVIOUS
<1> USE DEF timerVars, histVars
<1>1. ASSUME NEW h \in Hosts, Moves(h)
      PROVE  TypeOK'
  <2>1. Drift - pos[h] \in Places
    BY <1>1, Thresholds DEF TypeOK, Places
  <2>2. QED
    BY <1>1, <2>1 DEF Moves, TypeOK
<1>2. ASSUME NEW p \in Peers, Heartbeat(p)
      PROVE  TypeOK'
  BY <1>2 DEF Heartbeat, TypeOK
<1>3. ASSUME NEW p \in Peers, Publish(p)
      PROVE  TypeOK'
  <2>1. ASSUME NEW kinds, Heard(p, kinds)
        PROVE  snap' \in [Peers -> Snapshots]
    <3>1. pos[p] \in Places /\ snap[p].pos \in Places \union {None}
      BY DEF TypeOK, Hosts, Snapshots
    <3>2. snap' = [snap EXCEPT ![p] = [pos |-> IF "position" \in kinds THEN pos[p]
                                               ELSE snap[p].pos, age |-> 0]]
      BY <2>1 DEF Heard, TypeOK
    <3>3. QED
      BY <3>1, <3>2 DEF TypeOK, Snapshots, Stale
  <2>2. QED
    BY <1>3, <2>1 DEF Publish, TypeOK
<1>4. CASE NextRound
  <2>1. \A p \in Peers : [snap[p] EXCEPT !.age = IF @ = Stale THEN @ ELSE @ + 1] \in Snapshots
    BY DEF TypeOK, Snapshots, Stale
  <2>2. QED
    BY <1>4, <2>1 DEF NextRound, TypeOK
<1>5. CASE Evaluate
  <2>1. UNCHANGED <<pos, ident, snap>> /\ waiting' \subseteq Hosts
    BY <1>5 DEF Evaluate, TypeOK
  <2>2. QED
    BY <1>5, <2>1, EvaluateType DEF TypeOK
<1>6. CASE UNCHANGED vars
  BY <1>6 DEF vars, TypeOK
<1>7. QED
  BY <1>1, <1>2, <1>3, <1>4, <1>5, <1>6 DEF Next

\* Positions, snapshots and timers keep their ranges.
THEOREM TypeCorrect == Spec => []TypeOK
<1>1. QED
  BY InitType, StepType, PTL DEF Spec

-----------------------------------------------------------------------------
(* The median *)

\* The k-th smallest of votes that are 0 or Drift is 0 as long as k of them
\* are.
LEMMA RankedOfPlaces ==
    ASSUME NEW D, IsFiniteSet(D), NEW votes \in [D -> Places],
           NEW k \in 1 .. Cardinality(D)
    PROVE  LET zeros == {h \in D : votes[h] = 0}
           IN  Ranked(votes, k) = IF Cardinality(zeros) >= k THEN 0 ELSE Drift
<1> DEFINE zeros == {h \in D : votes[h] = 0}
           Right(v) == /\ Cardinality({h \in DOMAIN votes : votes[h] < v}) < k
                       /\ Cardinality({h \in DOMAIN votes : votes[h] <= v}) >= k
           Values == {votes[h] : h \in DOMAIN votes}
<1>1. DOMAIN votes = D /\ Values \subseteq {0, Drift} /\ Drift # 0
  BY Thresholds DEF Places
<1>2. k \in Nat /\ k >= 1 /\ k <= Cardinality(D) /\ Cardinality(D) \in Nat
  BY FS_CardinalityType
<1>3. IsFiniteSet(zeros) /\ Cardinality(zeros) \in Nat
  BY FS_Subset, FS_CardinalityType
<1>4. {h \in D : votes[h] < 0} = {} /\ {h \in D : votes[h] <= 0} = zeros
  BY Thresholds DEF Places
<1>5. {h \in D : votes[h] < Drift} = zeros /\ {h \in D : votes[h] <= Drift} = D
  BY Thresholds DEF Places
<1>6. Right(0) <=> Cardinality(zeros) >= k
  BY <1>1, <1>2, <1>3, <1>4, FS_EmptySet
<1>7. Right(Drift) <=> ~(Cardinality(zeros) >= k)
  BY <1>1, <1>2, <1>3, <1>5
<1>8. Cardinality(zeros) >= k => 0 \in Values
  <2>1. Cardinality(zeros) >= k => zeros # {}
    BY <1>2, <1>3, FS_EmptySet
  <2>2. QED
    BY <1>1, <2>1
<1>9. ~(Cardinality(zeros) >= k) => Drift \in Values
  <2>1. ~(Cardinality(zeros) >= k) => zeros # D
    BY <1>2
  <2>2. QED
    BY <1>1, <2>1 DEF Places
<1>10. Ranked(votes, k) = CHOOSE v \in Values : Right(v)
  BY DEF Ranked
<1> HIDE DEF Right, Values
<1>11. CASE Cardinality(zeros) >= k
  <2>1. \A v \in Values : Right(v) <=> v = 0
    BY <1>1, <1>6, <1>7, <1>11
  <2>2. (CHOOSE v \in Values : Right(v)) = 0
    BY <1>8, <1>11, <2>1
  <2>3. QED
    BY <1>10, <1>11, <2>2
<1>12. CASE ~(Cardinality(zeros) >= k)
  <2>1. \A v \in Values : Right(v) <=> v = Drift
    BY <1>1, <1>6, <1>7, <1>12
  <2>2. (CHOOSE v \in Values : Right(v)) = Drift
    BY <1>9, <1>12, <2>1
  <2>3. QED
    BY <1>10, <1>12, <2>2
<1>13. QED
  BY <1>11, <1>12

\* A host that disagrees with the median has half of the votes elsewhere.
LEMMA DisagreementIsHalf ==
    ASSUME TypeOK, Disagrees
    PROVE  Outvoted
<1> DEFINE D == Live \union {Self}
           n == Cardinality(D)
           zeros == {h \in D : Votes[h] = 0}
           drifts == {h \in D : Votes[h] = Drift}
<1>1. Live \subseteq Peers /\ Self \notin Live /\ IsFiniteSet(Live)
  BY ConstantsAssumption, FS_Subset DEF Live, TypeOK
<1>2. IsFiniteSet(D) /\ n = Cardinality(Live) + 1 /\ Cardinality(Live) \in Nat /\ n \in Nat
  BY <1>1, FS_AddElement, FS_CardinalityType
<1>3. Votes \in [D -> Places] /\ pos[Self] \in Places /\ DOMAIN Votes = D
      /\ Votes[Self] = pos[Self]
      /\ \A p \in Live : Votes[p] = snap[p].pos
  BY <1>1, ConstantsAssumption DEF Votes, Live, TypeOK, Hosts, Snapshots
<1>4. IsFiniteSet(zeros) /\ IsFiniteSet(drifts)
      /\ Cardinality(zeros) \in Nat /\ Cardinality(drifts) \in Nat
  BY <1>2, FS_Subset, FS_CardinalityType
<1>5. Cardinality(zeros) + Cardinality(drifts) = n
  <2>1. zeros \union drifts = D /\ zeros \intersect drifts = {}
    BY <1>3, Thresholds DEF Places
  <2>2. Cardinality(zeros \union drifts)
          = Cardinality(zeros) + Cardinality(drifts) - Cardinality(zeros \intersect drifts)
    BY <1>4, FS_Union
  <2>3. Cardinality(zeros \intersect drifts) = 0
    BY <2>1, FS_EmptySet
  <2> HIDE DEF zeros, drifts, n
  <2>4. Cardinality(D) = Cardinality(zeros) + Cardinality(drifts)
    BY <1>4, <2>1, <2>2, <2>3
  <2>5. QED
    BY <2>4 DEF n
<1>6. (n + 1) \div 2 \in 1 .. n /\ n \div 2 + 1 \in 1 .. n
  BY <1>2
<1> DEFINE low == Ranked(Votes, (n + 1) \div 2)
           high == Ranked(Votes, n \div 2 + 1)
<1>7. /\ low = IF Cardinality(zeros) >= (n + 1) \div 2 THEN 0 ELSE Drift
      /\ high = IF Cardinality(zeros) >= n \div 2 + 1 THEN 0 ELSE Drift
  BY <1>2, <1>3, <1>6, RankedOfPlaces
<1>8. \/ 2 * pos[Self] - (low + high) > 2 * Threshold
      \/ -(2 * pos[Self] - (low + high)) > 2 * Threshold
  BY <1>3 DEF Disagrees, TwiceMedian
<1>9. CASE pos[Self] = 0
  <2>1. Against = drifts
    BY <1>1, <1>3, <1>9, Thresholds DEF Against, Places
  <2>2. high = Drift
    BY <1>2, <1>4, <1>7, <1>8, <1>9, Thresholds
  <2>3. Cardinality(zeros) <= n \div 2
    BY <1>2, <1>4, <1>7, <2>2, Thresholds
  <2>4. QED
    BY <1>2, <1>4, <1>5, <2>1, <2>3 DEF Outvoted
<1>10. CASE pos[Self] = Drift
  <2>1. Against = zeros
    BY <1>1, <1>3, <1>10, Thresholds DEF Against, Places
  <2>2. low = 0
    BY <1>2, <1>4, <1>7, <1>8, <1>10, Thresholds
  <2>3. Cardinality(zeros) >= (n + 1) \div 2
    BY <1>2, <1>4, <1>7, <2>2, Thresholds
  <2>4. QED
    BY <1>2, <1>4, <2>1, <2>3 DEF Outvoted
<1>11. QED
  BY <1>3, <1>9, <1>10 DEF Places

-----------------------------------------------------------------------------
(* The timer *)

\* What a timer that runs tells of the evaluations before.
TimerTells ==
    /\ rest + cool >= Cooldown - 1
    /\ since # None =>
          /\ cool = 0
          /\ outvoted > since \/ outvoted = Sustain
          /\ rest >= Cooldown + since \/ rest = Between

\* An evaluation after which the timer runs was outvoted, or alone after one
\* that was.
LEMMA TimerStep ==
    ASSUME TypeOK, TimerTells, [Next]_vars
    PROVE  TimerTells'
<1> USE DEF timerVars, histVars
<1>0. /\ since \in 0 .. Sustain \union {None} /\ cool \in 0 .. Cooldown - 1
      /\ outvoted \in 0 .. Sustain /\ rest \in 0 .. Between
  BY DEF TypeOK
<1>1. CASE UNCHANGED <<timerVars, histVars>>
  BY <1>1 DEF TimerTells
<1>2. CASE Evaluate /\ cool > 0
  <2>1. cool' = cool - 1 /\ since' = since /\ ev' = None
    BY <1>2 DEF Evaluate
  <2>2. since = None
    BY <1>0, <1>2, Thresholds DEF TimerTells
  <2>3. rest' = IF rest = Between THEN rest ELSE rest + 1
    BY <1>2, <2>1 DEF Evaluate, Remember
  <2>4. rest' + cool' >= Cooldown - 1
    BY <1>0, <1>2, <2>1, <2>3, Thresholds DEF TimerTells
  <2>5. QED
    BY <2>1, <2>2, <2>4 DEF TimerTells
<1>3. CASE Evaluate /\ ~(cool > 0) /\ (Trip \/ TripOtherwise)
  <2>1. since' = None /\ cool' = Cooldown - 1
    BY <1>3 DEF Trip, TripOtherwise, RecordTrip
  <2>2. rest' \in 0 .. Between
    BY <1>3, EvaluateType
  <2>3. rest' \in Nat
    BY <2>2, Thresholds
  <2>4. \A r \in Nat : r + (Cooldown - 1) >= Cooldown - 1
    BY Thresholds
  <2>5. rest' + cool' >= Cooldown - 1
    BY <2>1, <2>3, <2>4
  <2>6. QED
    BY <2>1, <2>5 DEF TimerTells
<1>4. CASE Evaluate /\ ~(cool > 0) /\ Timer
  <2>1. cool' = cool /\ cool = 0 /\ ev' = None
    BY <1>0, <1>4, Thresholds DEF Timer
  <2>2. rest' = (IF rest = Between THEN rest ELSE rest + 1) /\ rest >= Cooldown - 1
    BY <1>0, <1>4, <2>1, Thresholds DEF Evaluate, Remember, TimerTells
  <2>3. rest' + cool' >= Cooldown - 1
    BY <1>0, <2>1, <2>2, Thresholds
  <2>4. SUFFICES ASSUME since' # None
                 PROVE  /\ outvoted' > since' \/ outvoted' = Sustain
                        /\ rest' >= Cooldown + since' \/ rest' = Between
    BY <2>1, <2>3 DEF TimerTells
  <2>5. outvoted' = IF IF Live = {} THEN outvoted > 0 ELSE Outvoted
                      THEN IF outvoted = Sustain THEN outvoted ELSE outvoted + 1
                      ELSE 0
    BY <1>4, <2>1 DEF Evaluate, Remember
  <2>6. \/ since # None /\ since' = (IF since = Sustain THEN since ELSE since + 1)
        \/ since = None /\ since' = 0 /\ Live # {}
    BY <1>4, <2>4 DEF Timer, Later, Reset
  <2>7. Live # {} => Outvoted
    BY <1>4, <2>4, DisagreementIsHalf DEF Timer, Reset
  <2>8. CASE since # None /\ since' = (IF since = Sustain THEN since ELSE since + 1)
    <3>1. /\ since \in 0 .. Sustain
          /\ outvoted > since \/ outvoted = Sustain
          /\ rest >= Cooldown + since \/ rest = Between
      BY <1>0, <2>8 DEF TimerTells
    <3>2. outvoted > 0
      BY <1>0, <3>1, Thresholds
    <3>3. outvoted' = IF outvoted = Sustain THEN outvoted ELSE outvoted + 1
      BY <2>5, <2>7, <3>2
    <3>4. outvoted' > since' \/ outvoted' = Sustain
      BY <1>0, <2>8, <3>1, <3>3, Thresholds
    <3>5. rest' >= Cooldown + since' \/ rest' = Between
      BY <1>0, <2>2, <2>8, <3>1, Thresholds
    <3>6. QED
      BY <3>4, <3>5
  <2>9. CASE since = None /\ since' = 0 /\ Live # {}
    <3>1. outvoted' = IF outvoted = Sustain THEN outvoted ELSE outvoted + 1
      BY <2>5, <2>7, <2>9
    <3>2. outvoted' > 0
      BY <1>0, <3>1, Thresholds
    <3>3. rest' >= Cooldown
      BY <1>0, <2>2, Thresholds
    <3>4. QED
      BY <2>9, <3>2, <3>3, Thresholds
  <2>10. QED
    BY <2>6, <2>8, <2>9
<1>5. Evaluate \/ UNCHANGED <<timerVars, histVars>>
  BY DEF Next, vars, Moves, Heartbeat, Publish, NextRound
<1>6. QED
  BY <1>1, <1>2, <1>3, <1>4, <1>5 DEF Evaluate

\* Whatever is lost and whoever goes silent, the host's filter is re-initialised
\* over its position only after it was outvoted by half of its cohort in every
\* evaluation of the sustained time, all of it after the last cooldown.
THEOREM OutvotedOnly == Spec => OutvotedThroughout
<1>1. Init => TimerTells
  <2> SUFFICES ASSUME Init PROVE TimerTells
    OBVIOUS
  <2>1. since = None /\ rest = Between /\ cool = 0
    BY DEF Init
  <2>2. QED
    BY <2>1, Thresholds DEF TimerTells
<1>2. ASSUME TypeOK, TimerTells, Evaluate, ev' = "pos_consensus"
      PROVE  Outvoted /\ outvoted = Sustain /\ rest = Between
  <2>1. Trip
    <3>1. ev' # None
      BY <1>2, NoneAssumption DEF Reasons
    <3>2. QED
      BY <1>2, <3>1 DEF Evaluate, TripOtherwise, RecordTrip, Timer
  <2>2. Outvoted
    BY <1>2, <2>1, DisagreementIsHalf DEF Trip
  <2>3. since \in 0 .. Sustain /\ since + 1 >= Sustain
    <3>1. Later(since) = Sustain /\ since \in 0 .. Sustain \union {None}
      BY <1>2, <2>1 DEF Trip, TypeOK
    <3>2. since # None
      BY <3>1, NoneAssumption, Thresholds DEF Later
    <3>3. QED
      BY <3>1, <3>2, Thresholds DEF Later
  <2>4. /\ outvoted \in 0 .. Sustain /\ rest \in 0 .. Between
        /\ outvoted > since \/ outvoted = Sustain
        /\ rest >= Cooldown + since \/ rest = Between
    <3>1. since # None
      BY <2>3, NoneAssumption
    <3>2. QED
      BY <1>2, <3>1 DEF TypeOK, TimerTells
  <2>5. QED
    BY <2>2, <2>3, <2>4, Thresholds
<1>3. TypeOK /\ TimerTells /\ [Next]_vars =>
        [Evaluate /\ ev' = "pos_consensus" =>
            Outvoted /\ outvoted = Sustain /\ rest = Between]_vars
  BY <1>2
<1>4. TypeOK /\ TimerTells /\ [Next]_vars => TimerTells'
  BY TimerStep
<1>5. QED
  BY <1>1, <1>3, <1>4, TypeCorrect, PTL DEF Spec, OutvotedThroughout
=============================================================================
