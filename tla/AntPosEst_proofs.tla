-------------------------- MODULE AntPosEst_proofs --------------------------
(***************************************************************************)
(* Proofs about AntPosEst for every set of satellites and every value of   *)
(* the thresholds and cooldowns.                                           *)
(***************************************************************************)
EXTENDS AntPosEst, FiniteSetTheorems, TLAPS

-----------------------------------------------------------------------------
(* The tracker's operators *)

\* A move keeps the record table well typed.
LEMMA MovedType ==
    ASSUME NEW tt \in [SV -> SvStates], NEW S, NEW to \in SvStates
    PROVE  Moved(tt, S, to) \in [SV -> SvStates]
  BY DEF Moved

\* What a move does to one record.
LEMMA MovedAt ==
    ASSUME NEW tt, NEW S, NEW to, NEW sv \in SV
    PROVE  Moved(tt, S, to)[sv] =
              IF sv \in S /\ <<tt[sv], to>> \in LegalEdges THEN to ELSE tt[sv]
  BY DEF Moved

\* The squelch bookkeeping keeps timers natural numbers.
LEMMA SquelchedType ==
    ASSUME NEW s1, NEW s2, NEW q \in [SV -> Nat], NEW c \in Nat
    PROVE  Squelched(s1, s2, q, c) \in [SV -> Nat]
  BY DEF Squelched

\* Whatever records the tracker takes, its tables stay well typed.
LEMMA TrackType ==
    ASSUME TypeOK, NEW tt \in [SV -> SvStates], NEW c \in Nat, Track(tt, c)
    PROVE  st' \in [SV -> SvStates] /\ squelch' \in [SV -> Nat]
  BY SquelchedType DEF Track, TypeOK

LEMMA DecType == \A n \in Nat : Dec(n) \in Nat /\ Dec(n) <= n
  BY DEF Dec

LEMMA StatesExist ==
    /\ "TRACKING" \in SvStates /\ "FLOATING" \in SvStates
    /\ "CONVERGING" \in SvStates /\ "ANCHORING" \in SvStates
    /\ "ANCHORED" \in SvStates /\ "WAITING" \in SvStates
  BY DEF SvStates

\* Dropping integers empties the records that stood for them and moves no
\* other.
LEMMA UnfixedType ==
    ASSUME NEW tt \in [SV -> SvStates], NEW S
    PROVE  Unfixed(tt, S) \in [SV -> SvStates]
  BY MovedType, StatesExist DEF Unfixed

LEMMA UnfixedAt ==
    ASSUME NEW tt, NEW S, NEW sv \in SV
    PROVE  Unfixed(tt, S)[sv] =
              IF sv \in S /\ tt[sv] \in FixStates THEN "FLOATING" ELSE tt[sv]
  BY MovedAt DEF Unfixed, InStates, FixStates, LegalEdges, Processing

-----------------------------------------------------------------------------
(* Type correctness *)

LEMMA InitType == Init => TypeOK
  <1> SUFFICES ASSUME Init PROVE TypeOK
    OBVIOUS
  <1> USE ConstantsAssumption DEF ConstantsAssumption
  <1>1. mwFixed \subseteq SV /\ nlFixed \subseteq SV
    BY DEF Init
  <1>2. st \in [SV -> SvStates]
    BY StatesExist DEF Init
  <1>3. mwN \in [SV -> 0 .. MwMinEpochs] /\ unseen \in [SV -> 0 .. MaxUnseen]
    BY DEF Init, MaxUnseen
  <1>4. tick \in 0 .. (EvalEvery - 1)
    BY DEF Init
  <1>5. QED
    BY <1>1, <1>2, <1>3, <1>4 DEF Init, TypeOK, Stages, ApeStates

LEMMA SlipsType == TypeOK /\ Slips => TypeOK'
  <1> SUFFICES ASSUME TypeOK, Slips PROVE TypeOK'
    OBVIOUS
  <1> USE ConstantsAssumption
  <1> PICK O \in SUBSET SV, hi \in SUBSET SV, lo \in SUBSET SV :
        /\ Track(SlipMoves(hi, lo), SlipCooldown)
        /\ ResetMw(hi \union lo)
        /\ nlFixed' = nlFixed \ (hi \union lo)
        /\ amb' = O
        /\ unseen' = Unseen(O)
        /\ prevSeen' = (({sv \in prevSeen : Unseen(O)[sv] <= SlipStale} \union O)
                           \ (hi \union lo))
    BY DEF Slips
  <1>1. SlipMoves(hi, lo) \in [SV -> SvStates]
    BY MovedType, StatesExist DEF TypeOK, SlipMoves
  <1>2. st' \in [SV -> SvStates] /\ squelch' \in [SV -> Nat]
    BY <1>1, SquelchedType DEF Track, TypeOK
  <1>3. unseen' \in [SV -> 0 .. MaxUnseen]
    BY DEF Unseen, TypeOK, MaxUnseen
  <1>4. mwN' \in [SV -> 0 .. MwMinEpochs] /\ mwFixed' \subseteq SV
    BY DEF ResetMw, TypeOK
  <1>5. QED
    BY <1>2, <1>3, <1>4 DEF Slips, TypeOK, Stages, apeVars, tripVars

LEMMA WideLaneType == TypeOK /\ WideLane => TypeOK'
  <1> SUFFICES ASSUME TypeOK, WideLane PROVE TypeOK'
    OBVIOUS
  <1> USE ConstantsAssumption
  <1> PICK B \in SUBSET (held \intersect amb) :
        LET U == amb \ B
        IN \E F \in SUBSET Proposable(U) : \E G \in SUBSET F :
            /\ st' = WideMoves(U, F)
            /\ squelch' = [sv \in SV |-> Dec(squelch[sv])]
            /\ mwN' = [sv \in SV |-> IF sv \in U /\ mwN[sv] < MwMinEpochs
                                     THEN mwN[sv] + 1 ELSE mwN[sv]]
            /\ mwFixed' = mwFixed \union (F \ G)
            /\ held' = held \ (F \ G)
            /\ fresh' = F \ G
    BY DEF WideLane, Blockable
  <1> DEFINE U == amb \ B
  <1> PICK F \in SUBSET Proposable(U) : \E G \in SUBSET F :
            /\ st' = WideMoves(U, F)
            /\ squelch' = [sv \in SV |-> Dec(squelch[sv])]
            /\ mwN' = [sv \in SV |-> IF sv \in U /\ mwN[sv] < MwMinEpochs
                                     THEN mwN[sv] + 1 ELSE mwN[sv]]
            /\ mwFixed' = mwFixed \union (F \ G)
            /\ held' = held \ (F \ G)
            /\ fresh' = F \ G
    OBVIOUS
  <1>1. F \subseteq SV
    BY DEF Proposable, TypeOK
  <1>2. st' \in [SV -> SvStates]
    BY MovedType, StatesExist DEF WideMoves, TypeOK
  <1>3. squelch' \in [SV -> Nat]
    BY DecType DEF TypeOK
  <1>4. mwN' \in [SV -> 0 .. MwMinEpochs]
    BY DEF TypeOK
  <1>5. tick' \in 0 .. (EvalEvery - 1)
    BY DEF TypeOK, WideLane
  <1>6. navCool' \in Nat
    BY DecType DEF TypeOK, WideLane
  <1>7. QED
    BY <1>1, <1>2, <1>3, <1>4, <1>5, <1>6
    DEF TypeOK, Stages, WideLane, nlVars, skyVars, apeVars, tripVars

LEMMA GfStepType == TypeOK /\ GfStep => TypeOK'
  <1> SUFFICES ASSUME TypeOK, GfStep PROVE TypeOK'
    OBVIOUS
  <1> USE ConstantsAssumption
  <1> PICK E \in SUBSET GfSuspects : \E known \in SUBSET E :
         /\ Track(Moved(st, E \cap InStates(st, GfDemotable), "FLOATING"), 0)
         /\ ResetMw(E)
         /\ held' = (held \ E) \union known
    BY DEF GfStep
  <1>1. E \subseteq SV
    BY DEF GfSuspects, TypeOK
  <1>2. Moved(st, E \cap InStates(st, GfDemotable), "FLOATING") \in [SV -> SvStates]
    BY MovedType, StatesExist DEF TypeOK
  <1>3. st' \in [SV -> SvStates] /\ squelch' \in [SV -> Nat]
    BY <1>2, TrackType
  <1>4. mwN' \in [SV -> 0 .. MwMinEpochs] /\ mwFixed' \subseteq SV
    BY DEF ResetMw, TypeOK
  <1>5. QED
    BY <1>1, <1>3, <1>4 DEF GfStep, TypeOK, Stages, nlVars, skyVars, apeVars, tripVars

LEMMA NarrowLaneType == TypeOK /\ NarrowLane => TypeOK'
  <1> SUFFICES ASSUME TypeOK, NarrowLane PROVE TypeOK'
    OBVIOUS
  <1> USE ConstantsAssumption
  <1> PICK N \in SUBSET NlCandidates :
         /\ nlFixed' = nlFixed \union N
         /\ Track(IF wlOnly THEN st
                  ELSE Moved(st, N \cap InStates(st, {"CONVERGING"}), "ANCHORING"), 0)
         /\ fresh' = N
    BY DEF NarrowLane
  <1>1. N \subseteq SV
    BY DEF NlCandidates, TypeOK
  <1>2. st' \in [SV -> SvStates] /\ squelch' \in [SV -> Nat]
    BY MovedType, SquelchedType, StatesExist DEF Track, TypeOK
  <1>3. black' \in [SV -> Nat]
    BY DecType DEF NarrowLane, TypeOK
  <1>4. QED
    BY <1>1, <1>2, <1>3 DEF NarrowLane, TypeOK, Stages, mwVars, skyVars, apeVars, tripVars

LEMMA IfStepType == TypeOK /\ IfStep => TypeOK'
  <1> SUFFICES ASSUME TypeOK, IfStep PROVE TypeOK'
    OBVIOUS
  <1> USE ConstantsAssumption
  <1> PICK E \in SUBSET IfSuspects :
         /\ Track(Moved(st, E, "WAITING"), IfCooldown)
         /\ ResetMw(E)
         /\ nlFixed' = nlFixed \ E
         /\ black' = [sv \in SV |-> IF sv \in E THEN IfCooldown ELSE black[sv]]
    BY DEF IfStep
  <1>1. st' \in [SV -> SvStates] /\ squelch' \in [SV -> Nat]
    BY MovedType, SquelchedType, StatesExist DEF Track, TypeOK
  <1>2. mwN' \in [SV -> 0 .. MwMinEpochs] /\ mwFixed' \subseteq SV
    BY DEF ResetMw, TypeOK
  <1>3. black' \in [SV -> Nat]
    BY DEF TypeOK
  <1>4. QED
    BY <1>1, <1>2, <1>3 DEF IfStep, TypeOK, Stages, skyVars, apeVars, tripVars

LEMMA SettingDropType == TypeOK /\ SettingDrop => TypeOK'
  <1> SUFFICES ASSUME TypeOK, SettingDrop PROVE TypeOK'
    OBVIOUS
  <1> PICK D \in SUBSET FixSet :
         /\ Track(Moved(st, D, "FLOATING"), 0)
         /\ nlFixed' = nlFixed \ D
    BY DEF SettingDrop
  <1>1. st' \in [SV -> SvStates] /\ squelch' \in [SV -> Nat]
    BY MovedType, SquelchedType, StatesExist DEF Track, TypeOK
  <1>2. QED
    BY <1>1 DEF SettingDrop, TypeOK, Stages, mwVars, skyVars, apeVars, tripVars

\* What an integrity trip leaves of the filter state.
LEMMA RecordTripType ==
    ASSUME TypeOK, RecordTrip
    PROVE  /\ tripCool' \in Nat /\ collapse' \in Nat
           /\ ape' \in ApeStates
           /\ reachedAnchoring' \in BOOLEAN /\ reachedAnchored' \in BOOLEAN
  BY ConstantsAssumption
  DEF RecordTrip, TimerAfterTrip, FellBack, FixStates, ApeStates, TypeOK, ConstantsAssumption

\* Re-initialising and flushing the wide lanes move the tracker alike.
LEMMA FlushType ==
    ASSUME TypeOK, NEW mwSvs \in SUBSET SV,
           Track(Moved(Unfixed(st, nlFixed), mwSvs, "FLOATING"), 0),
           ResetMw(mwSvs)
    PROVE  /\ st' \in [SV -> SvStates] /\ squelch' \in [SV -> Nat]
           /\ mwN' \in [SV -> 0 .. MwMinEpochs] /\ mwFixed' \subseteq SV
  <1>1. Unfixed(st, nlFixed) \in [SV -> SvStates]
    BY UnfixedType DEF TypeOK
  <1>2. Moved(Unfixed(st, nlFixed), mwSvs, "FLOATING") \in [SV -> SvStates]
    BY <1>1, MovedType, StatesExist
  <1>3. st' \in [SV -> SvStates] /\ squelch' \in [SV -> Nat]
    BY <1>2, TrackType
  <1>4. mwN' \in [SV -> 0 .. MwMinEpochs] /\ mwFixed' \subseteq SV
    BY ConstantsAssumption DEF ResetMw, TypeOK, ConstantsAssumption
  <1>5. QED
    BY <1>3, <1>4

LEMMA IntegrityType == TypeOK /\ Integrity => TypeOK'
  <1> SUFFICES ASSUME TypeOK, Integrity PROVE TypeOK'
    OBVIOUS
  <1> DEFINE mwSvs == {sv \in SV : mwN[sv] > 0}
  <1> DEFINE Tables ==
        /\ st' \in [SV -> SvStates] /\ squelch' \in [SV -> Nat]
        /\ mwN' \in [SV -> 0 .. MwMinEpochs] /\ mwFixed' \subseteq SV
        /\ nlFixed' \subseteq SV /\ amb' \subseteq SV
        /\ tripCool' \in Nat /\ collapse' \in Nat /\ ztdTrips' \in Nat
        /\ ape' \in ApeStates
        /\ reachedAnchoring' \in BOOLEAN /\ reachedAnchored' \in BOOLEAN
  <1>1. Reinit => Tables
    <2> SUFFICES ASSUME Reinit PROVE Tables
      OBVIOUS
    <2>1. RecordTrip /\ nlFixed' = {} /\ amb' = {} /\ ztdTrips' = ztdTrips
      BY DEF Reinit
    <2>2. Track(Moved(Unfixed(st, nlFixed), mwSvs, "FLOATING"), 0) /\ ResetMw(mwSvs)
      BY DEF Reinit
    <2>3. QED
      BY <2>1, <2>2, FlushType, RecordTripType DEF TypeOK
  <1>2. WlFlush => Tables
    <2> SUFFICES ASSUME WlFlush PROVE Tables
      OBVIOUS
    <2>1. RecordTrip /\ nlFixed' = {} /\ amb' = amb /\ ztdTrips' = 0
      BY DEF WlFlush
    <2>2. Track(Moved(Unfixed(st, nlFixed), mwSvs, "FLOATING"), 0) /\ ResetMw(mwSvs)
      BY DEF WlFlush
    <2>3. QED
      BY <2>1, <2>2, FlushType, RecordTripType DEF TypeOK
  <1>3. NlRevert => Tables
    <2> SUFFICES ASSUME NlRevert PROVE Tables
      OBVIOUS
    <2>1. RecordTrip /\ nlFixed' = {} /\ ztdTrips' \in {ztdTrips} \union {1}
          /\ mwN' = mwN /\ mwFixed' = mwFixed /\ amb' = amb
      BY DEF NlRevert
    <2>2. st' \in [SV -> SvStates] /\ squelch' \in [SV -> Nat]
      BY UnfixedType, SquelchedType DEF NlRevert, Track, TypeOK
    <2>3. QED
      BY <2>1, <2>2, RecordTripType DEF TypeOK
  <1>4. NoTrip => Tables
    <2> SUFFICES ASSUME NoTrip PROVE Tables
      OBVIOUS
    <2>1. tripCool' \in Nat /\ collapse' \in Nat
      BY DecType DEF NoTrip, CollapseTimer, TypeOK
    <2>2. QED
      BY <2>1 DEF NoTrip, TypeOK, trackerVars, apeVars
  <1>5. Tables
    BY <1>1, <1>2, <1>3, <1>4 DEF Integrity
  <1>6. QED
    BY <1>5 DEF Integrity, TypeOK, Stages

LEMMA HousekeepingType == TypeOK /\ Housekeeping => TypeOK'
  <1> SUFFICES ASSUME TypeOK, Housekeeping PROVE TypeOK'
    OBVIOUS
  <1> DEFINE swept == Moved(st, Expired(st), "FLOATING")
  <1> PICK gone \in SUBSET Forgettable :
        \E P \in SUBSET (InStates(swept, {"ANCHORING"}) \ (gone \union fresh)) :
          Track([sv \in SV |-> IF sv \in gone THEN "TRACKING"
                               ELSE Moved(swept, P, "ANCHORED")[sv]], 0)
    BY DEF Housekeeping, Promotable
  <1> PICK P \in SUBSET (InStates(swept, {"ANCHORING"}) \ (gone \union fresh)) :
        Track([sv \in SV |-> IF sv \in gone THEN "TRACKING"
                             ELSE Moved(swept, P, "ANCHORED")[sv]], 0)
    OBVIOUS
  <1> DEFINE after == Moved(swept, P, "ANCHORED")
  <1>1. swept \in [SV -> SvStates]
    BY MovedType, StatesExist DEF TypeOK
  <1>2. after \in [SV -> SvStates]
    BY <1>1, MovedType, StatesExist
  <1> HIDE DEF swept, after
  <1> DEFINE tt == [sv \in SV |-> IF sv \in gone THEN "TRACKING" ELSE after[sv]]
  <1>3. tt \in [SV -> SvStates]
    BY <1>2, StatesExist
  <1>4. Track(tt, 0)
    BY DEF after
  <1> HIDE DEF tt
  <1>5. st' \in [SV -> SvStates] /\ squelch' \in [SV -> Nat]
    BY <1>3, <1>4, TrackType
  <1>6. QED
    BY <1>5 DEF Housekeeping, TypeOK, Stages, mwVars, nlVars, skyVars, apeVars, tripVars

LEMMA FilterStateType == TypeOK /\ FilterState => TypeOK'
  <1> SUFFICES ASSUME TypeOK, FilterState PROVE TypeOK'
    OBVIOUS
  <1>1. NextApe \in ApeStates
    BY DEF NextApe, ApeStates, TypeOK
  <1>2. /\ ape' \in ApeStates
        /\ reachedAnchoring' \in BOOLEAN /\ reachedAnchored' \in BOOLEAN
    BY <1>1 DEF FilterState, Enter, TypeOK
  <1>3. QED
    BY <1>2 DEF FilterState, TypeOK, Stages, trackerVars, mwVars, nlVars, skyVars, tripVars

LEMMA Nav2Type == TypeOK /\ EndEpoch /\ (PositionReset \/ Nav2Quiet) => TypeOK'
  <1> SUFFICES ASSUME TypeOK, EndEpoch, PositionReset \/ Nav2Quiet PROVE TypeOK'
    OBVIOUS
  <1> DEFINE Tables ==
        /\ st' \in [SV -> SvStates] /\ squelch' \in [SV -> Nat]
        /\ nlFixed' \subseteq SV /\ amb' \subseteq SV /\ navCool' \in Nat
        /\ ape' \in ApeStates
  <1>1. CASE PositionReset
    <2>1. st' \in [SV -> SvStates] /\ squelch' \in [SV -> Nat]
      BY <1>1, UnfixedType, SquelchedType DEF PositionReset, Track, TypeOK
    <2>2. navCool' \in Nat /\ ape' \in ApeStates
      BY <1>1, ConstantsAssumption
      DEF PositionReset, FellBack, FixStates, ApeStates, TypeOK, ConstantsAssumption
    <2>3. Tables
      BY <1>1, <2>1, <2>2 DEF PositionReset
    <2>4. QED
      BY <2>3 DEF EndEpoch, TypeOK, Stages, mwVars, tripVars
  <1>2. CASE Nav2Quiet
    BY <1>2 DEF Nav2Quiet, EndEpoch, TypeOK, Stages, trackerVars, mwVars, tripVars
  <1>3. QED
    BY <1>1, <1>2

\* A step that ends an epoch is one of the two resets or none.
LEMMA Nav2Cases ==
    AntennaMoved \/ SecondOpinion \/ NoReset
      => EndEpoch /\ (PositionReset \/ Nav2Quiet)
  BY DEF AntennaMoved, SecondOpinion, NoReset

LEMMA TypeStep == TypeOK /\ [Next]_vars => TypeOK'
  <1> SUFFICES ASSUME TypeOK, [Next]_vars PROVE TypeOK'
    OBVIOUS
  <1>1. CASE TooFewSvs
    BY <1>1 DEF TooFewSvs, TypeOK, Stages, trackerVars, mwVars, nlVars, skyVars,
                apeVars, tripVars
  <1>2. CASE UNCHANGED vars
    BY <1>2 DEF vars, TypeOK, trackerVars, mwVars, nlVars, skyVars, apeVars, tripVars
  <1>3. CASE AntennaMoved \/ SecondOpinion \/ NoReset
    BY <1>3, Nav2Cases, Nav2Type
  <1>4. QED
    BY <1>1, <1>2, <1>3, SlipsType, WideLaneType, GfStepType, NarrowLaneType,
       IfStepType, SettingDropType, IntegrityType, HousekeepingType, FilterStateType
    DEF Next

\* The four tables, the filter state and the timers stay well typed through
\* every stage of every epoch.
THEOREM TypeCorrect == Spec => []TypeOK
  <1>1. QED
    BY InitType, TypeStep, PTL DEF Spec

-----------------------------------------------------------------------------
(* The safety invariants together are inductive. *)

Safe ==
    /\ TrackedFixIsReal
    /\ SquelchOnlyWhileWaiting
    /\ RejectedStaysOut
    /\ WlOnlyStopsAtConverging
    /\ LatchesCoverState
    /\ CollapseNeedsAnchored

IInv == TypeOK /\ Safe

\* The fix set, spelled out per record.
LEMMA FixSetAt == \A sv \in SV : sv \in FixSet <=> st[sv] \in FixStates
  BY DEF FixSet, InStates

LEMMA FixSetAtPrime == \A sv \in SV : (sv \in FixSet)' <=> st'[sv] \in FixStates
  BY DEF FixSet, InStates

\* A record the tracker moves takes its timer along: whichever way it leaves
\* WAITING, the timer is cleared.
LEMMA TrackSquelch ==
    ASSUME TypeOK, SquelchOnlyWhileWaiting,
           NEW tt \in [SV -> SvStates], NEW c \in Nat, Track(tt, c)
    PROVE  SquelchOnlyWhileWaiting'
  <1> SUFFICES ASSUME NEW sv \in SV, squelch'[sv] > 0 PROVE st'[sv] = "WAITING"
    BY DEF SquelchOnlyWhileWaiting
  <1>1. squelch'[sv] = IF st[sv] = tt[sv] THEN squelch[sv]
                       ELSE IF tt[sv] = "WAITING" THEN c ELSE 0
    BY DEF Track, Squelched
  <1>2. QED
    BY <1>1 DEF Track, SquelchOnlyWhileWaiting

\* When no record enters the fix set and every integer a member loses takes
\* it out, the fix set stays backed.
LEMMA FixKept ==
    ASSUME TypeOK, TrackedFixIsReal,
           \A sv \in SV : st'[sv] \in FixStates =>
              /\ st[sv] \in FixStates \/ sv \in nlFixed' \intersect mwFixed'
              /\ sv \in nlFixed => sv \in nlFixed'
              /\ sv \in mwFixed => sv \in mwFixed'
    PROVE  TrackedFixIsReal'
  BY FixSetAt, FixSetAtPrime DEF TrackedFixIsReal, FixSet, InStates

LEMMA InitSafe == Init => Safe
  <1> SUFFICES ASSUME Init PROVE Safe
    OBVIOUS
  <1>1. TrackedFixIsReal
    BY DEF Init, TrackedFixIsReal, FixSet, InStates, FixStates
  <1>2. SquelchOnlyWhileWaiting /\ RejectedStaysOut
    BY DEF Init, SquelchOnlyWhileWaiting, RejectedStaysOut
  <1>3. WlOnlyStopsAtConverging
    BY DEF Init, WlOnlyStopsAtConverging, FixSet, InStates, FixStates
  <1>4. LatchesCoverState /\ CollapseNeedsAnchored
    BY DEF Init, LatchesCoverState, CollapseNeedsAnchored, FixStates
  <1>5. QED
    BY <1>1, <1>2, <1>3, <1>4 DEF Safe

\* Slips move members of the fix set out together with both integers.
LEMMA SlipsSafe == IInv /\ Slips => Safe'
  <1> SUFFICES ASSUME IInv, Slips PROVE Safe'
    OBVIOUS
  <1> USE DEF IInv, Safe
  <1> PICK O \in SUBSET SV, hi \in SUBSET SV, lo \in SUBSET SV :
        /\ hi \intersect lo = {}
        /\ Track(SlipMoves(hi, lo), SlipCooldown)
        /\ ResetMw(hi \union lo)
        /\ nlFixed' = nlFixed \ (hi \union lo)
    BY DEF Slips
  <1>1. SlipMoves(hi, lo) \in [SV -> SvStates]
    BY MovedType, StatesExist DEF TypeOK, SlipMoves
  <1>2. ASSUME NEW sv \in SV
        PROVE  st'[sv] = IF sv \in hi /\ <<st[sv], "WAITING">> \in LegalEdges THEN "WAITING"
                         ELSE IF sv \in lo /\ <<st[sv], "FLOATING">> \in LegalEdges
                         THEN "FLOATING" ELSE st[sv]
    BY DEF Moved, Track, SlipMoves, LegalEdges, Processing
  <1>3. ASSUME NEW sv \in SV
        PROVE  st'[sv] \in FixStates => st[sv] \in FixStates /\ sv \notin hi \union lo
    BY <1>2 DEF FixStates, LegalEdges, Processing
  <1>4. TrackedFixIsReal'
    BY <1>3, FixKept DEF ResetMw
  <1>5. SquelchOnlyWhileWaiting'
    BY <1>1, TrackSquelch, ConstantsAssumption DEF ConstantsAssumption
  <1>6. RejectedStaysOut'
    BY DEF Slips, RejectedStaysOut
  <1>7. WlOnlyStopsAtConverging'
    BY <1>3, FixSetAt, FixSetAtPrime
    DEF Slips, WlOnlyStopsAtConverging, apeVars, FixSet, InStates
  <1>8. LatchesCoverState' /\ CollapseNeedsAnchored'
    BY DEF Slips, apeVars, tripVars, LatchesCoverState, CollapseNeedsAnchored
  <1>9. QED
    BY <1>4, <1>5, <1>6, <1>7, <1>8

\* The wide lane only admits and converges records, and only adds integers.
LEMMA WideLaneSafe == IInv /\ WideLane => Safe'
  <1> SUFFICES ASSUME IInv, WideLane PROVE Safe'
    OBVIOUS
  <1> USE DEF IInv, Safe
  <1> PICK U \in SUBSET SV, F \in SUBSET SV :
        /\ st' = WideMoves(U, F)
        /\ squelch' = [sv \in SV |-> Dec(squelch[sv])]
        /\ mwFixed \subseteq mwFixed'
    BY DEF WideLane, Blockable, Proposable, TypeOK
  <1>1. ASSUME NEW sv \in SV
        PROVE  /\ st'[sv] \in FixStates => st'[sv] = st[sv]
               /\ st[sv] = "WAITING" => st'[sv] = "WAITING"
    <2> DEFINE admitted == Moved(st, U \cap InStates(st, {"TRACKING"}), "FLOATING")
    <2> DEFINE new == U \cap InStates(st, {"TRACKING"})
    <2>1. admitted[sv] = IF sv \in new /\ <<st[sv], "FLOATING">> \in LegalEdges
                         THEN "FLOATING" ELSE st[sv]
      BY DEF Moved
    <2>2. sv \in new => st[sv] = "TRACKING"
      BY DEF InStates
    <2> HIDE DEF new
    <2>3. \/ admitted[sv] = st[sv]
          \/ st[sv] = "TRACKING" /\ admitted[sv] = "FLOATING"
      BY <2>1, <2>2
    <2>4. st'[sv] = IF sv \in F /\ <<admitted[sv], "CONVERGING">> \in LegalEdges
                    THEN "CONVERGING" ELSE admitted[sv]
      BY MovedAt DEF WideMoves
    <2> HIDE DEF admitted
    <2>5. QED
      BY <2>3, <2>4 DEF FixStates, LegalEdges, Processing
  <1>2. nlFixed' = nlFixed /\ black' = black /\ ape' = ape /\ wlOnly' = wlOnly
    BY DEF WideLane, nlVars, apeVars
  <1>3. TrackedFixIsReal'
    BY <1>1, <1>2, FixKept
  <1>4. SquelchOnlyWhileWaiting'
    BY <1>1 DEF SquelchOnlyWhileWaiting, Dec, TypeOK
  <1>5. RejectedStaysOut'
    BY <1>2 DEF RejectedStaysOut
  <1>6. WlOnlyStopsAtConverging'
    BY <1>1, <1>2 DEF WlOnlyStopsAtConverging, FixSet, InStates
  <1>7. LatchesCoverState' /\ CollapseNeedsAnchored'
    BY DEF WideLane, apeVars, tripVars, LatchesCoverState, CollapseNeedsAnchored
  <1>8. QED
    BY <1>3, <1>4, <1>5, <1>6, <1>7

\* The GF step takes the wide lane of no member it leaves in the fix set.
LEMMA GfStepSafe == IInv /\ GfStep => Safe'
  <1> SUFFICES ASSUME IInv, GfStep PROVE Safe'
    OBVIOUS
  <1> USE DEF IInv, Safe
  <1> PICK E \in SUBSET SV :
        /\ Track(Moved(st, E \cap InStates(st, GfDemotable), "FLOATING"), 0)
        /\ mwFixed' = mwFixed \ E
    BY DEF GfStep, GfSuspects, ResetMw, TypeOK
  <1>1. Moved(st, E \cap InStates(st, GfDemotable), "FLOATING") \in [SV -> SvStates]
    BY MovedType, StatesExist DEF TypeOK
  <1>2. ASSUME NEW sv \in SV
        PROVE  st'[sv] \in FixStates => st[sv] \in FixStates /\ sv \notin E
    BY MovedAt DEF Track, InStates, GfDemotable, FixStates, LegalEdges, Processing
  <1>3. nlFixed' = nlFixed /\ black' = black /\ ape' = ape /\ wlOnly' = wlOnly
    BY DEF GfStep, nlVars, apeVars
  <1>4. TrackedFixIsReal'
    BY <1>2, <1>3, FixKept
  <1>5. SquelchOnlyWhileWaiting'
    BY <1>1, TrackSquelch
  <1>6. RejectedStaysOut'
    BY <1>3 DEF RejectedStaysOut
  <1>7. WlOnlyStopsAtConverging'
    BY <1>2, <1>3 DEF WlOnlyStopsAtConverging, FixSet, InStates
  <1>8. LatchesCoverState' /\ CollapseNeedsAnchored'
    BY DEF GfStep, apeVars, tripVars, LatchesCoverState, CollapseNeedsAnchored
  <1>9. QED
    BY <1>4, <1>5, <1>6, <1>7, <1>8

\* New members of the fix set have just been given their integer, on a wide
\* lane that is fixed and with the blacklist over.
LEMMA NarrowLaneSafe == IInv /\ NarrowLane => Safe'
  <1> SUFFICES ASSUME IInv, NarrowLane PROVE Safe'
    OBVIOUS
  <1> USE DEF IInv, Safe
  <1> DEFINE tt(N) == IF wlOnly THEN st
                      ELSE Moved(st, N \cap InStates(st, {"CONVERGING"}), "ANCHORING")
  <1> PICK N \in SUBSET NlCandidates :
         /\ N # {} => MayCommit
         /\ nlFixed' = nlFixed \union N
         /\ Track(tt(N), 0)
    BY DEF NarrowLane
  <1>1. tt(N) \in [SV -> SvStates]
    BY MovedType, StatesExist DEF TypeOK
  <1>2. ASSUME NEW sv \in SV
        PROVE  st'[sv] \in FixStates => st[sv] \in FixStates \/ sv \in N
    BY DEF Moved, Track, InStates
  <1>3. wlOnly => N = {} /\ st' = st /\ nlFixed' = nlFixed
    BY DEF MayCommit, Track
  <1>4. N \subseteq mwFixed /\ mwFixed' = mwFixed
    BY DEF NlCandidates, NarrowLane, mwVars
  <1>5. ape' = ape /\ wlOnly' = wlOnly
    BY DEF NarrowLane, apeVars
  <1>6. TrackedFixIsReal'
    BY <1>2, <1>4, FixKept
  <1>7. SquelchOnlyWhileWaiting'
    BY <1>1, TrackSquelch
  <1>8. RejectedStaysOut'
    BY DecType DEF NarrowLane, NlCandidates, RejectedStaysOut, TypeOK, Dec
  <1>9. WlOnlyStopsAtConverging'
    BY <1>3, <1>5 DEF WlOnlyStopsAtConverging, FixSet, InStates
  <1>10. LatchesCoverState' /\ CollapseNeedsAnchored'
    BY DEF NarrowLane, apeVars, tripVars, LatchesCoverState, CollapseNeedsAnchored
  <1>11. QED
    BY <1>6, <1>7, <1>8, <1>9, <1>10

\* A member the IF step rejects leaves the fix set and both its integers.
LEMMA IfStepSafe == IInv /\ IfStep => Safe'
  <1> SUFFICES ASSUME IInv, IfStep PROVE Safe'
    OBVIOUS
  <1> USE DEF IInv, Safe
  <1> PICK E \in SUBSET SV :
         /\ Track(Moved(st, E, "WAITING"), IfCooldown)
         /\ ResetMw(E)
         /\ nlFixed' = nlFixed \ E
         /\ black' = [sv \in SV |-> IF sv \in E THEN IfCooldown ELSE black[sv]]
    BY DEF IfStep, IfSuspects, FixSet, InStates
  <1>1. Moved(st, E, "WAITING") \in [SV -> SvStates]
    BY MovedType, StatesExist DEF TypeOK
  <1>2. ASSUME NEW sv \in SV
        PROVE  st'[sv] \in FixStates => st[sv] \in FixStates /\ sv \notin E
    BY MovedAt DEF Track, FixStates, LegalEdges, Processing
  <1>3. ape' = ape /\ wlOnly' = wlOnly
    BY DEF IfStep, apeVars
  <1>4. TrackedFixIsReal'
    BY <1>2, FixKept DEF ResetMw
  <1>5. SquelchOnlyWhileWaiting'
    BY <1>1, TrackSquelch, ConstantsAssumption DEF ConstantsAssumption
  <1>6. RejectedStaysOut'
    BY DEF RejectedStaysOut
  <1>7. WlOnlyStopsAtConverging'
    BY <1>2, <1>3 DEF WlOnlyStopsAtConverging, FixSet, InStates
  <1>8. LatchesCoverState' /\ CollapseNeedsAnchored'
    BY DEF IfStep, apeVars, tripVars, LatchesCoverState, CollapseNeedsAnchored
  <1>9. QED
    BY <1>4, <1>5, <1>6, <1>7, <1>8

\* A member that is dropped leaves the fix set with its narrow lane.
LEMMA SettingDropSafe == IInv /\ SettingDrop => Safe'
  <1> SUFFICES ASSUME IInv, SettingDrop PROVE Safe'
    OBVIOUS
  <1> USE DEF IInv, Safe
  <1> PICK D \in SUBSET SV :
         /\ Track(Moved(st, D, "FLOATING"), 0)
         /\ nlFixed' = nlFixed \ D
    BY DEF SettingDrop, FixSet, InStates
  <1>1. Moved(st, D, "FLOATING") \in [SV -> SvStates]
    BY MovedType, StatesExist DEF TypeOK
  <1>2. ASSUME NEW sv \in SV
        PROVE  st'[sv] \in FixStates => st[sv] \in FixStates /\ sv \notin D
    BY MovedAt DEF Track, FixStates, LegalEdges, Processing
  <1>3. black' = black /\ mwFixed' = mwFixed /\ ape' = ape /\ wlOnly' = wlOnly
    BY DEF SettingDrop, mwVars, apeVars
  <1>4. TrackedFixIsReal'
    BY <1>2, <1>3, FixKept
  <1>5. SquelchOnlyWhileWaiting'
    BY <1>1, TrackSquelch
  <1>6. RejectedStaysOut'
    BY <1>3 DEF RejectedStaysOut
  <1>7. WlOnlyStopsAtConverging'
    BY <1>2, <1>3 DEF WlOnlyStopsAtConverging, FixSet, InStates
  <1>8. LatchesCoverState' /\ CollapseNeedsAnchored'
    BY DEF SettingDrop, apeVars, tripVars, LatchesCoverState, CollapseNeedsAnchored
  <1>9. QED
    BY <1>4, <1>5, <1>6, <1>7, <1>8

\* Dropping every narrow lane empties the fix set, whatever else the tracker
\* demotes in the same call.
LEMMA DropAllEmpties ==
    ASSUME TypeOK, TrackedFixIsReal, NEW S, NEW tt,
           tt = Unfixed(st, nlFixed) \/ tt = Moved(Unfixed(st, nlFixed), S, "FLOATING"),
           NEW sv \in SV
    PROVE  tt[sv] \notin FixStates
  <1>1. st[sv] \in FixStates => sv \in nlFixed
    BY FixSetAt DEF TrackedFixIsReal
  <1>2. Unfixed(st, nlFixed)[sv] \notin FixStates
    BY <1>1, UnfixedAt DEF FixStates
  <1>3. QED
    BY <1>2 DEF Moved, FixStates

\* What RecordTrip leaves satisfies the invariants of the filter state.
LEMMA RecordTripSafe ==
    ASSUME RecordTrip
    PROVE  /\ ape' \notin FixStates
           /\ LatchesCoverState' /\ CollapseNeedsAnchored'
  BY DEF RecordTrip, TimerAfterTrip, FellBack, FixStates, LatchesCoverState,
         CollapseNeedsAnchored

\* The three trips: the fix set is empty, the timers of moved records are
\* gone, and the filter state has fallen back.
LEMMA TripSafe ==
    IInv /\ Integrity /\ (Reinit \/ WlFlush \/ NlRevert) => Safe'
  <1> SUFFICES ASSUME IInv, Integrity, Reinit \/ WlFlush \/ NlRevert PROVE Safe'
    OBVIOUS
  <1> USE DEF IInv, Safe
  <1> DEFINE mwSvs == {sv \in SV : mwN[sv] > 0}
             flushed == Moved(Unfixed(st, nlFixed), mwSvs, "FLOATING")
  <1> PICK tt \in {Unfixed(st, nlFixed), flushed} : Track(tt, 0)
    BY DEF Reinit, WlFlush, NlRevert
  <1>1. tt \in [SV -> SvStates]
    BY UnfixedType, MovedType, StatesExist DEF TypeOK
  <1>2. \A sv \in SV : st'[sv] \notin FixStates
    BY DropAllEmpties DEF Track
  <1>3. nlFixed' = {} /\ RecordTrip
    BY DEF Reinit, WlFlush, NlRevert
  <1>4. TrackedFixIsReal'
    BY <1>2, FixKept
  <1>5. SquelchOnlyWhileWaiting'
    BY <1>1, TrackSquelch
  <1>6. RejectedStaysOut'
    BY <1>3 DEF RejectedStaysOut
  <1>7. WlOnlyStopsAtConverging'
    BY <1>2, <1>3, RecordTripSafe DEF WlOnlyStopsAtConverging, FixSet, InStates
  <1>8. QED
    BY <1>3, <1>4, <1>5, <1>6, <1>7, RecordTripSafe

\* Without a trip only the two counters move, and the collapse timer stays
\* off until the filter has been anchored.
LEMMA NoTripSafe == IInv /\ Integrity /\ NoTrip => Safe'
  <1> SUFFICES ASSUME IInv, Integrity, NoTrip PROVE Safe'
    OBVIOUS
  <1> USE DEF IInv, Safe
  <1>1. /\ st' = st /\ squelch' = squelch /\ nlFixed' = nlFixed /\ mwFixed' = mwFixed
        /\ black' = black /\ ape' = ape /\ wlOnly' = wlOnly
        /\ reachedAnchoring' = reachedAnchoring /\ reachedAnchored' = reachedAnchored
    BY DEF NoTrip, Integrity, trackerVars, apeVars
  <1>2. CollapseNeedsAnchored'
    BY <1>1 DEF NoTrip, CollapseTimer, CollapseNeedsAnchored
  <1>3. QED
    BY <1>1, <1>2
    DEF TrackedFixIsReal, SquelchOnlyWhileWaiting, RejectedStaysOut,
        WlOnlyStopsAtConverging, LatchesCoverState, FixSet, InStates

LEMMA IntegritySafe == IInv /\ Integrity => Safe'
  BY TripSafe, NoTripSafe DEF Integrity

\* Housekeeping promotes members of the fix set and takes none in.
LEMMA HousekeepingSafe == IInv /\ Housekeeping => Safe'
  <1> SUFFICES ASSUME IInv, Housekeeping PROVE Safe'
    OBVIOUS
  <1> USE DEF IInv, Safe
  <1> DEFINE swept == Moved(st, Expired(st), "FLOATING")
             after(P) == Moved(swept, P, "ANCHORED")
             kept(gone, P) == [sv \in SV |-> IF sv \in gone THEN "TRACKING"
                                            ELSE after(P)[sv]]
  <1> PICK gone \in SUBSET Forgettable :
        \E P \in SUBSET (InStates(swept, {"ANCHORING"}) \ (gone \union fresh)) :
          Track(kept(gone, P), 0)
    BY DEF Housekeeping, Promotable
  <1> PICK P \in SUBSET (InStates(swept, {"ANCHORING"}) \ (gone \union fresh)) :
        Track(kept(gone, P), 0)
    OBVIOUS
  <1>1. swept \in [SV -> SvStates]
    BY MovedType, StatesExist DEF TypeOK
  <1>2. after(P) \in [SV -> SvStates]
    BY <1>1, MovedType, StatesExist
  <1>3. ASSUME NEW sv \in SV
        PROVE  /\ swept[sv] \in FixStates => st[sv] \in FixStates
               /\ after(P)[sv] \in FixStates => swept[sv] \in FixStates
    <2>1. swept[sv] \in FixStates => st[sv] \in FixStates
      BY DEF Moved, FixStates
    <2>2. sv \in P => swept[sv] \in FixStates
      BY DEF InStates, FixStates
    <2> HIDE DEF swept
    <2>3. QED
      BY <2>1, <2>2 DEF Moved
  <1> HIDE DEF after, swept
  <1>4. kept(gone, P) \in [SV -> SvStates]
    BY <1>2, StatesExist
  <1>5. ASSUME NEW sv \in SV
        PROVE  st'[sv] \in FixStates => st[sv] \in FixStates
    BY <1>3 DEF Track, FixStates
  <1> HIDE DEF kept
  <1>6. /\ nlFixed' = nlFixed /\ black' = black /\ mwFixed' = mwFixed
        /\ ape' = ape /\ wlOnly' = wlOnly
    BY DEF Housekeeping, nlVars, mwVars, apeVars
  <1>7. TrackedFixIsReal'
    BY <1>5, <1>6, FixKept
  <1>8. SquelchOnlyWhileWaiting'
    BY <1>4, TrackSquelch
  <1>9. RejectedStaysOut'
    BY <1>6 DEF RejectedStaysOut
  <1>10. WlOnlyStopsAtConverging'
    BY <1>5, <1>6 DEF WlOnlyStopsAtConverging, FixSet, InStates
  <1>11. LatchesCoverState' /\ CollapseNeedsAnchored'
    BY DEF Housekeeping, apeVars, tripVars, LatchesCoverState, CollapseNeedsAnchored
  <1>12. QED
    BY <1>7, <1>8, <1>9, <1>10, <1>11

\* The filter state moves under the clamp and its latches with it.
LEMMA FilterStateSafe == IInv /\ FilterState => Safe'
  <1> SUFFICES ASSUME IInv, FilterState PROVE Safe'
    OBVIOUS
  <1> USE DEF IInv, Safe
  <1>1. /\ st' = st /\ squelch' = squelch /\ nlFixed' = nlFixed /\ mwFixed' = mwFixed
        /\ black' = black /\ wlOnly' = wlOnly /\ collapse' = collapse
    BY DEF FilterState, trackerVars, mwVars, nlVars, tripVars
  <1>2. wlOnly => ape' \notin FixStates
    BY DEF FilterState, Enter, WlOnlyStopsAtConverging
  <1>3. LatchesCoverState' /\ CollapseNeedsAnchored'
    BY <1>1 DEF FilterState, Enter, LatchesCoverState, CollapseNeedsAnchored, FixStates
  <1>4. QED
    BY <1>1, <1>2, <1>3
    DEF TrackedFixIsReal, SquelchOnlyWhileWaiting, RejectedStaysOut,
        WlOnlyStopsAtConverging, FixSet, InStates

\* A position reset drops every narrow lane, like a trip, but leaves latches
\* and timer as they are.
LEMMA Nav2Safe == IInv /\ EndEpoch /\ (PositionReset \/ Nav2Quiet) => Safe'
  <1> SUFFICES ASSUME IInv, EndEpoch, PositionReset \/ Nav2Quiet PROVE Safe'
    OBVIOUS
  <1> USE DEF IInv, Safe
  <1>1. /\ black' = black /\ mwFixed' = mwFixed /\ wlOnly' = wlOnly
        /\ collapse' = collapse
        /\ reachedAnchoring' = reachedAnchoring /\ reachedAnchored' = reachedAnchored
    BY DEF EndEpoch, mwVars, tripVars
  <1>2. CASE PositionReset
    <2>1. st' = Unfixed(st, nlFixed) /\ nlFixed' = {} /\ ape' = FellBack
      BY <1>2 DEF PositionReset, Track
    <2>2. \A sv \in SV : st'[sv] \notin FixStates
      BY <2>1, DropAllEmpties
    <2>3. ape' \notin FixStates
      BY <2>1 DEF FellBack, FixStates
    <2>4. TrackedFixIsReal'
      BY <2>2, FixKept
    <2>5. SquelchOnlyWhileWaiting'
      BY <1>2, UnfixedType, TrackSquelch DEF PositionReset, TypeOK
    <2>6. RejectedStaysOut'
      BY <2>1 DEF RejectedStaysOut
    <2>7. WlOnlyStopsAtConverging'
      BY <2>1, <2>2, <2>3 DEF WlOnlyStopsAtConverging, FixSet, InStates
    <2>8. LatchesCoverState' /\ CollapseNeedsAnchored'
      BY <1>1, <2>3 DEF LatchesCoverState, CollapseNeedsAnchored, FixStates
    <2>9. QED
      BY <2>4, <2>5, <2>6, <2>7, <2>8
  <1>3. CASE Nav2Quiet
    BY <1>1, <1>3
    DEF Nav2Quiet, trackerVars, TrackedFixIsReal, SquelchOnlyWhileWaiting,
        RejectedStaysOut, WlOnlyStopsAtConverging, LatchesCoverState,
        CollapseNeedsAnchored, FixSet, InStates
  <1>4. QED
    BY <1>2, <1>3

\* Neither a skipped epoch nor a stutter touches what the invariants read.
LEMMA IdleSafe == IInv /\ (TooFewSvs \/ UNCHANGED vars) => Safe'
  <1> SUFFICES ASSUME IInv, TooFewSvs \/ UNCHANGED vars PROVE Safe'
    OBVIOUS
  <1>1. UNCHANGED <<wlOnly, trackerVars, mwVars, nlVars, apeVars, tripVars>>
    BY DEF TooFewSvs, vars
  <1>2. QED
    BY <1>1
    DEF IInv, Safe, trackerVars, mwVars, nlVars, apeVars, tripVars,
        TrackedFixIsReal, SquelchOnlyWhileWaiting, RejectedStaysOut,
        WlOnlyStopsAtConverging, LatchesCoverState, CollapseNeedsAnchored,
        FixSet, InStates

LEMMA IInvStep == IInv /\ [Next]_vars => IInv'
  <1> SUFFICES ASSUME IInv, [Next]_vars PROVE IInv'
    OBVIOUS
  <1>1. TypeOK'
    BY TypeStep DEF IInv
  <1>2. AntennaMoved \/ SecondOpinion \/ NoReset => Safe'
    BY Nav2Cases, Nav2Safe
  <1>3. Safe'
    BY <1>2, IdleSafe, SlipsSafe, WideLaneSafe, GfStepSafe, NarrowLaneSafe,
       IfStepSafe, SettingDropSafe, IntegritySafe, HousekeepingSafe,
       FilterStateSafe
    DEF Next
  <1>4. QED
    BY <1>1, <1>3 DEF IInv

LEMMA Invariance == Spec => []IInv
  <1>1. Init => IInv
    BY InitType, InitSafe DEF IInv
  <1>2. QED
    BY <1>1, IInvStep, PTL DEF Spec

\* Every member of the fix set stands for two integers that exist, at every
\* stage of every epoch, for any number of satellites.
THEOREM FixSetIsBacked == Spec => []TrackedFixIsReal
  <1>1. IInv => TrackedFixIsReal
    BY DEF IInv, Safe
  <1>2. QED
    BY <1>1, Invariance, PTL

\* A squelch timer never outlives the WAITING record it was set for.
THEOREM SquelchDies == Spec => []SquelchOnlyWhileWaiting
  <1>1. IInv => SquelchOnlyWhileWaiting
    BY DEF IInv, Safe
  <1>2. QED
    BY <1>1, Invariance, PTL

\* A rejected satellite gets no integer while its blacklist lasts.
THEOREM RejectionHolds == Spec => []RejectedStaysOut
  <1>1. IInv => RejectedStaysOut
    BY DEF IInv, Safe
  <1>2. QED
    BY <1>1, Invariance, PTL

\* --wl-only keeps the filter a wide-lane float.
THEOREM WlOnlyHolds == Spec => []WlOnlyStopsAtConverging
  <1>1. IInv => WlOnlyStopsAtConverging
    BY DEF IInv, Safe
  <1>2. QED
    BY <1>1, Invariance, PTL

\* The filter state never outranks its latches.
THEOREM LatchesHold == Spec => []LatchesCoverState
  <1>1. IInv => LatchesCoverState
    BY DEF IInv, Safe
  <1>2. QED
    BY <1>1, Invariance, PTL

\* The anchor-collapse timer runs only on a filter that has earned ANCHORED.
THEOREM CollapseIsEarned == Spec => []CollapseNeedsAnchored
  <1>1. IInv => CollapseNeedsAnchored
    BY DEF IInv, Safe
  <1>2. QED
    BY <1>1, Invariance, PTL

\* The latches are lowered by an integrity trip and by nothing else, and the
\* integers and the filter state fall with them.
THEOREM LatchesFallInTrips == Spec => LatchesFallOnlyInTrip
  <1>1. ASSUME [Next]_vars, reachedAnchoring, ~reachedAnchoring'
        PROVE  pc = "integrity" /\ nlFixed' = {} /\ ape' \notin FixStates
                  /\ ~reachedAnchored'
    <2>1. CASE Integrity
      <3>1. ~NoTrip
        BY <1>1 DEF NoTrip, apeVars
      <3>2. Reinit \/ NlRevert \/ WlFlush
        BY <2>1, <3>1 DEF Integrity
      <3>3. QED
        BY <2>1, <3>2, RecordTripSafe DEF Integrity, Reinit, NlRevert, WlFlush, RecordTrip
    <2>2. CASE FilterState
      BY <1>1, <2>2 DEF FilterState, Enter
    <2>3. CASE AntennaMoved \/ SecondOpinion \/ NoReset
      BY <1>1, <2>3, Nav2Cases DEF EndEpoch
    <2>4. CASE Slips \/ TooFewSvs \/ WideLane \/ GfStep \/ NarrowLane
      BY <1>1, <2>4 DEF Slips, TooFewSvs, WideLane, GfStep, NarrowLane, apeVars
    <2>5. CASE IfStep \/ SettingDrop \/ Housekeeping \/ UNCHANGED vars
      BY <1>1, <2>5 DEF IfStep, SettingDrop, Housekeeping, vars, apeVars
    <2>6. QED
      BY <1>1, <2>1, <2>2, <2>3, <2>4, <2>5 DEF Next
  <1>2. QED
    BY <1>1, PTL DEF Spec, LatchesFallOnlyInTrip

-----------------------------------------------------------------------------
(* The claim of ANCHORED at the end of an epoch *)

\* Between the count and the end of the epoch the claim stands on its count.
Counted == pc = "nav2" /\ ape = "ANCHORED" => NAnchored + 1 >= Threshold

LEMMA NextApeAnchored ==
    ASSUME TypeOK, NextApe = "ANCHORED" PROVE NAnchored + 1 >= Threshold
  <1>1. Anchors \subseteq SV /\ IsFiniteSet(Anchors)
    BY ConstantsAssumption, FS_Subset DEF Anchors, InStates, ConstantsAssumption
  <1>2. NAnchored \in Nat
    BY <1>1, FS_CardinalityType DEF NAnchored
  <1>3. Threshold \in Nat
    BY ConstantsAssumption DEF ConstantsAssumption
  <1>4. \/ ape = "ANCHORING" /\ NAnchored >= Threshold
        \/ ape = "ANCHORED" /\ KeepsAnchored
    BY DEF NextApe, TypeOK, ApeStates
  <1>5. QED
    BY <1>2, <1>3, <1>4 DEF KeepsAnchored

LEMMA CountedStep == IInv /\ Counted /\ [Next]_vars => Counted'
  <1> SUFFICES ASSUME IInv, Counted, [Next]_vars, pc' = "nav2", ape' = "ANCHORED"
               PROVE  (NAnchored + 1 >= Threshold)'
    BY DEF Counted
  <1>1. CASE FilterState
    <2>1. ~(wlOnly /\ NextApe \in FixStates)
      BY <1>1 DEF FilterState, Enter, IInv, Safe, WlOnlyStopsAtConverging, FixStates
    <2>2. NextApe = "ANCHORED" /\ st' = st
      BY <1>1, <2>1 DEF FilterState, Enter, trackerVars
    <2>3. QED
      BY <2>2, NextApeAnchored DEF IInv, NAnchored, Anchors, InStates
  <1>2. CASE UNCHANGED vars
    BY <1>2 DEF Counted, vars, trackerVars, apeVars, NAnchored, Anchors, InStates
  <1>3. CASE ~FilterState /\ ~UNCHANGED vars
    BY <1>3 DEF Next, Slips, TooFewSvs, WideLane, GfStep, NarrowLane, IfStep,
                SettingDrop, Integrity, Housekeeping, AntennaMoved, SecondOpinion,
                NoReset, EndEpoch
  <1>4. QED
    BY <1>1, <1>2, <1>3

\* An epoch never ends with the filter ANCHORED on fewer than Threshold - 1
\* anchors.
THEOREM AnchoredBacked == Spec => AnchoredIsBacked
  <1>1. Init => Counted
    BY DEF Init, Counted
  <1>2. Spec => []Counted
    BY <1>1, CountedStep, Invariance, PTL DEF Spec
  <1>3. ASSUME TypeOK, Counted, [Next]_vars
        PROVE  [pc = "nav2" /\ ape' = "ANCHORED" =>
                  Cardinality({sv \in SV : st'[sv] = "ANCHORED"}) + 1 >= Threshold]_vars
    <2> SUFFICES ASSUME pc = "nav2", ape' = "ANCHORED", ~UNCHANGED vars
                 PROVE  Cardinality({sv \in SV : st'[sv] = "ANCHORED"}) + 1 >= Threshold
      OBVIOUS
    <2>1. AntennaMoved \/ SecondOpinion \/ NoReset
      BY <1>3 DEF Next, Slips, TooFewSvs, WideLane, GfStep, NarrowLane, IfStep,
                  SettingDrop, Integrity, Housekeeping, FilterState
    <2>2. ~PositionReset
      BY DEF PositionReset, FellBack, FixStates
    <2>3. st' = st /\ ape' = ape
      BY <2>1, <2>2, Nav2Cases DEF Nav2Quiet, trackerVars
    <2>4. Anchors = {sv \in SV : st'[sv] = "ANCHORED"}
      BY <2>3 DEF Anchors, InStates
    <2>5. NAnchored + 1 >= Threshold
      BY <1>3, <2>3 DEF Counted
    <2>6. QED
      BY <2>4, <2>5 DEF NAnchored
  <1>4. QED
    BY <1>2, <1>3, TypeCorrect, PTL DEF Spec, AnchoredIsBacked

-----------------------------------------------------------------------------
(* The epoch implements the lifecycle diagram *)

MaxCooldown == IF SlipCooldown > IfCooldown THEN SlipCooldown ELSE IfCooldown

\* The diagram's moves, in the terms of this module.
LEMMA StepsAt ==
    ASSUME NEW s, NEW t, t \in SvStates
    PROVE  /\ t = s \/ t = "TRACKING" => t \in Lifecycle!Steps(s)
           /\ <<s, t>> \in LegalEdges => t \in Lifecycle!Steps(s)
           /\ s = "TRACKING" /\ t = "CONVERGING" => t \in Lifecycle!Steps(s)
  <1>1. Lifecycle!LegalEdges = LegalEdges /\ Lifecycle!SvStates = SvStates
    BY DEF Lifecycle!LegalEdges, LegalEdges, Lifecycle!Processing, Processing,
           Lifecycle!SvStates, SvStates
  <1>2. QED
    BY <1>1 DEF Lifecycle!Steps

\* One move of some records is a step of the diagram for each.
LEMMA MovedSteps ==
    ASSUME NEW tt \in [SV -> SvStates], NEW S, NEW to \in SvStates, NEW sv \in SV
    PROVE  Moved(tt, S, to)[sv] \in Lifecycle!Steps(tt[sv])
  <1>1. \/ Moved(tt, S, to)[sv] = tt[sv]
        \/ Moved(tt, S, to)[sv] = to /\ <<tt[sv], to>> \in LegalEdges
    BY DEF Moved
  <1>2. QED
    BY <1>1, StepsAt

\* The records and the timers follow the diagram, so the step does.
LEMMA FollowsDiagram ==
    ASSUME TypeOK', SquelchOnlyWhileWaiting',
           \A sv \in SV : st'[sv] \in Lifecycle!Steps(st[sv]),
           \A sv \in SV : st'[sv] = "WAITING" =>
              squelch'[sv] <= IF st[sv] = "WAITING" THEN squelch[sv] ELSE MaxCooldown
    PROVE  Lifecycle!Next
  <1>1. Lifecycle!SvStates = SvStates
    BY DEF Lifecycle!SvStates, SvStates
  <1>2. \A sv \in SV : st'[sv] # "WAITING" => squelch'[sv] = 0
    BY DEF TypeOK, SquelchOnlyWhileWaiting
  <1>3. \A sv \in SV : Lifecycle!SquelchFollows(sv)
    BY <1>2 DEF Lifecycle!SquelchFollows, MaxCooldown
  <1>4. QED
    BY <1>1, <1>3 DEF Lifecycle!Next, TypeOK

\* A tracker step by one of the cooldowns never prolongs a running squelch.
LEMMA TrackFollows ==
    ASSUME TypeOK, TypeOK', SquelchOnlyWhileWaiting',
           NEW tt \in [SV -> SvStates], NEW c \in Nat, c <= MaxCooldown, Track(tt, c),
           \A sv \in SV : tt[sv] \in Lifecycle!Steps(st[sv])
    PROVE  Lifecycle!Next
  <1>1. st' = tt
    BY DEF Track
  <1>2. ASSUME NEW sv \in SV, tt[sv] = "WAITING"
        PROVE  squelch'[sv] <= IF st[sv] = "WAITING" THEN squelch[sv] ELSE MaxCooldown
    BY <1>2 DEF Track, Squelched, TypeOK
  <1>3. QED
    BY <1>1, <1>2, FollowsDiagram

\* One move of some records by the tracker.
LEMMA MoveFollows ==
    ASSUME TypeOK, TypeOK', SquelchOnlyWhileWaiting', NEW S, NEW to \in SvStates,
           NEW c \in Nat, c <= MaxCooldown, Track(Moved(st, S, to), c)
    PROVE  Lifecycle!Next
  <1>1. Moved(st, S, to) \in [SV -> SvStates]
    BY MovedType DEF TypeOK
  <1>2. \A sv \in SV : Moved(st, S, to)[sv] \in Lifecycle!Steps(st[sv])
    BY MovedSteps DEF TypeOK
  <1>3. QED
    BY <1>1, <1>2, TrackFollows

LEMMA CooldownsFit ==
    /\ 0 \in Nat /\ 0 <= MaxCooldown
    /\ SlipCooldown \in Nat /\ SlipCooldown <= MaxCooldown
    /\ IfCooldown \in Nat /\ IfCooldown <= MaxCooldown
  BY ConstantsAssumption DEF ConstantsAssumption, MaxCooldown

LEMMA SlipsFollow ==
    ASSUME TypeOK, TypeOK', SquelchOnlyWhileWaiting', Slips PROVE Lifecycle!Next
  <1> PICK hi \in SUBSET SV, lo \in SUBSET SV :
        hi \intersect lo = {} /\ Track(SlipMoves(hi, lo), SlipCooldown)
    BY DEF Slips
  <1> DEFINE low == Moved(st, lo, "FLOATING")
  <1>1. low \in [SV -> SvStates] /\ SlipMoves(hi, lo) \in [SV -> SvStates]
    BY MovedType, StatesExist DEF TypeOK, SlipMoves
  <1>2. ASSUME NEW sv \in SV PROVE SlipMoves(hi, lo)[sv] \in Lifecycle!Steps(st[sv])
    <2>1. sv \in hi => low[sv] = st[sv]
      BY DEF Moved
    <2>2. sv \notin hi => SlipMoves(hi, lo)[sv] = low[sv]
      BY DEF Moved, SlipMoves
    <2>3. SlipMoves(hi, lo)[sv] \in Lifecycle!Steps(low[sv])
      BY <1>1, MovedSteps, StatesExist DEF SlipMoves
    <2>4. low[sv] \in Lifecycle!Steps(st[sv])
      BY MovedSteps, StatesExist DEF TypeOK
    <2>5. QED
      BY <2>1, <2>2, <2>3, <2>4
  <1>3. QED
    BY <1>1, <1>2, CooldownsFit, TrackFollows

\* Admission and convergence in one call are one step of the diagram, and the
\* timers have only run down.
LEMMA WideLaneFollows ==
    ASSUME TypeOK, TypeOK', SquelchOnlyWhileWaiting', WideLane PROVE Lifecycle!Next
  <1> PICK U \in SUBSET SV, F \in SUBSET SV :
        /\ st' = WideMoves(U, F)
        /\ squelch' = [sv \in SV |-> Dec(squelch[sv])]
    BY DEF WideLane, Blockable, Proposable, TypeOK
  <1> DEFINE new == U \cap InStates(st, {"TRACKING"})
             admitted == Moved(st, new, "FLOATING")
  <1>1. ASSUME NEW sv \in SV
        PROVE  /\ st'[sv] \in Lifecycle!Steps(st[sv])
               /\ st'[sv] = "WAITING" => st[sv] = "WAITING"
    <2>1. admitted[sv] = IF sv \in new /\ <<st[sv], "FLOATING">> \in LegalEdges
                         THEN "FLOATING" ELSE st[sv]
      BY DEF Moved
    <2>2. sv \in new => st[sv] = "TRACKING"
      BY DEF InStates
    <2>3. st'[sv] = IF sv \in F /\ <<admitted[sv], "CONVERGING">> \in LegalEdges
                    THEN "CONVERGING" ELSE admitted[sv]
      BY DEF Moved, WideMoves
    <2> HIDE DEF new, admitted
    <2>4. <<admitted[sv], "CONVERGING">> \in LegalEdges => admitted[sv] = "FLOATING"
      BY DEF LegalEdges, Processing
    <2>5. CASE st'[sv] = "CONVERGING" /\ admitted[sv] = "FLOATING"
      <3>1. st[sv] = "FLOATING" \/ st[sv] = "TRACKING"
        BY <2>1, <2>2, <2>5
      <3>2. <<"FLOATING", "CONVERGING">> \in LegalEdges
        BY DEF LegalEdges
      <3>3. QED
        BY <2>5, <3>1, <3>2, StepsAt, StatesExist
    <2>6. CASE st'[sv] = admitted[sv]
      <3>1. \/ st'[sv] = st[sv]
            \/ st'[sv] = "FLOATING" /\ <<st[sv], "FLOATING">> \in LegalEdges
        BY <2>1, <2>6
      <3>2. st[sv] \in SvStates
        BY DEF TypeOK
      <3>3. QED
        BY <3>1, <3>2, StepsAt, StatesExist
    <2>7. QED
      BY <2>3, <2>4, <2>5, <2>6
  <1>2. \A sv \in SV : squelch'[sv] <= squelch[sv]
    BY DecType DEF TypeOK
  <1>3. QED
    BY <1>1, <1>2, FollowsDiagram

\* A trip takes members of the fix set to FLOATING, and so does the flush of
\* the wide lanes with the rest: one legal edge for each record.
LEMMA IntegrityFollows ==
    ASSUME IInv, TypeOK', SquelchOnlyWhileWaiting', Integrity PROVE Lifecycle!Next
  <1> USE DEF IInv
  <1> DEFINE mwSvs == {sv \in SV : mwN[sv] > 0}
             dropped == Unfixed(st, nlFixed)
             flushed == Moved(dropped, mwSvs, "FLOATING")
  <1>1. CASE NoTrip
    <2>1. st' = st /\ squelch' = squelch
      BY <1>1 DEF NoTrip, trackerVars
    <2>2. \A sv \in SV : st'[sv] \in Lifecycle!Steps(st[sv])
      BY <2>1, StepsAt DEF TypeOK
    <2>3. QED
      BY <2>1, <2>2, FollowsDiagram DEF TypeOK
  <1>2. CASE NlRevert
    BY <1>2, MoveFollows, CooldownsFit, StatesExist DEF NlRevert, Unfixed
  <1>3. CASE Reinit \/ WlFlush
    <2>1. Track(flushed, 0)
      BY <1>3 DEF Reinit, WlFlush
    <2>2. dropped \in [SV -> SvStates] /\ flushed \in [SV -> SvStates]
      BY UnfixedType, MovedType, StatesExist DEF TypeOK
    <2>3. ASSUME NEW sv \in SV PROVE flushed[sv] \in Lifecycle!Steps(st[sv])
      <3>1. \/ dropped[sv] = st[sv]
            \/ dropped[sv] = "FLOATING" /\ <<st[sv], "FLOATING">> \in LegalEdges
        BY DEF Unfixed, Moved
      <3>2. \/ flushed[sv] = dropped[sv]
            \/ flushed[sv] = "FLOATING" /\ <<dropped[sv], "FLOATING">> \in LegalEdges
        BY DEF Moved
      <3> HIDE DEF dropped, flushed
      <3>3. <<"FLOATING", "FLOATING">> \notin LegalEdges
        BY DEF LegalEdges, Processing
      <3>4. \/ flushed[sv] = st[sv]
            \/ flushed[sv] = "FLOATING" /\ <<st[sv], "FLOATING">> \in LegalEdges
        BY <3>1, <3>2, <3>3
      <3>5. QED
        BY <3>4, <2>2, StepsAt
    <2>4. QED
      BY <2>1, <2>2, <2>3, CooldownsFit, TrackFollows
  <1>4. QED
    BY <1>1, <1>2, <1>3 DEF Integrity

\* A sweep, a promotion and forgetting touch different records.
LEMMA HousekeepingFollows ==
    ASSUME TypeOK, TypeOK', SquelchOnlyWhileWaiting', Housekeeping PROVE Lifecycle!Next
  <1> DEFINE swept == Moved(st, Expired(st), "FLOATING")
             after(P) == Moved(swept, P, "ANCHORED")
             kept(gone, P) == [sv \in SV |-> IF sv \in gone THEN "TRACKING"
                                            ELSE after(P)[sv]]
  <1> PICK gone \in SUBSET Forgettable :
        \E P \in SUBSET (InStates(swept, {"ANCHORING"}) \ (gone \union fresh)) :
          Track(kept(gone, P), 0)
    BY DEF Housekeeping, Promotable
  <1> PICK P \in SUBSET (InStates(swept, {"ANCHORING"}) \ (gone \union fresh)) :
        Track(kept(gone, P), 0)
    OBVIOUS
  <1>1. swept \in [SV -> SvStates]
    BY MovedType, StatesExist DEF TypeOK
  <1>2. after(P) \in [SV -> SvStates]
    BY <1>1, MovedType, StatesExist
  <1>3. ASSUME NEW sv \in SV PROVE after(P)[sv] \in Lifecycle!Steps(st[sv])
    <2>1. sv \in P => swept[sv] = "ANCHORING"
      BY DEF InStates
    <2>2. swept[sv] = "ANCHORING" => swept[sv] = st[sv]
      BY DEF Moved
    <2>3. swept[sv] \in Lifecycle!Steps(st[sv])
      BY MovedSteps, StatesExist DEF TypeOK
    <2>4. after(P)[sv] \in Lifecycle!Steps(swept[sv])
      BY <1>1, MovedSteps, StatesExist
    <2>5. sv \notin P => after(P)[sv] = swept[sv]
      BY DEF Moved
    <2>6. QED
      BY <2>1, <2>2, <2>3, <2>4, <2>5
  <1> HIDE DEF swept, after
  <1>4. kept(gone, P) \in [SV -> SvStates]
    BY <1>2, StatesExist
  <1>5. \A sv \in SV : kept(gone, P)[sv] \in Lifecycle!Steps(st[sv])
    BY <1>3, StepsAt, StatesExist
  <1> HIDE DEF kept
  <1>6. QED
    BY <1>4, <1>5, CooldownsFit, TrackFollows

\* The other stages make one move each, or none.
LEMMA OtherStagesFollow ==
    ASSUME IInv, TypeOK', SquelchOnlyWhileWaiting',
           GfStep \/ NarrowLane \/ IfStep \/ SettingDrop
             \/ AntennaMoved \/ SecondOpinion \/ NoReset
    PROVE  Lifecycle!Next \/ UNCHANGED <<st, squelch>>
  <1> USE CooldownsFit, StatesExist DEF IInv
  <1>1. CASE GfStep
    BY <1>1, MoveFollows DEF GfStep
  <1>2. CASE NarrowLane
    <2>1. CASE wlOnly
      BY <1>2, <2>1 DEF NarrowLane, Track, Squelched, TypeOK
    <2>2. CASE ~wlOnly
      BY <1>2, <2>2, MoveFollows DEF NarrowLane
    <2>3. QED
      BY <2>1, <2>2
  <1>3. CASE IfStep
    BY <1>3, MoveFollows DEF IfStep
  <1>4. CASE SettingDrop
    BY <1>4, MoveFollows DEF SettingDrop
  <1>5. CASE AntennaMoved \/ SecondOpinion \/ NoReset
    <2>1. CASE PositionReset
      BY <2>1, MoveFollows DEF PositionReset, Unfixed
    <2>2. CASE Nav2Quiet
      BY <2>2 DEF Nav2Quiet, trackerVars
    <2>3. QED
      BY <1>5, <2>1, <2>2, Nav2Cases
  <1>6. QED
    BY <1>1, <1>2, <1>3, <1>4, <1>5

\* Every epoch, whatever its stages do, implements the lifecycle diagram.
THEOREM Refinement == Spec => ImplementsLifecycle
  <1>1. Init => Lifecycle!Init
    <2> SUFFICES ASSUME Init PROVE Lifecycle!Init
      OBVIOUS
    <2>1. squelch = [sv \in SV |-> 0]
      BY DEF Init
    <2>2. st \in [SV -> {"TRACKING", "CONVERGING", "ANCHORING"}]
      BY DEF Init
    <2>3. QED
      BY <2>1, <2>2 DEF Lifecycle!Init
  <1>2. IInv /\ IInv' /\ [Next]_vars => [Lifecycle!Next]_(Lifecycle!vars)
    <2> SUFFICES ASSUME IInv, IInv', [Next]_vars
                 PROVE  Lifecycle!Next \/ UNCHANGED <<st, squelch>>
      BY DEF Lifecycle!vars
    <2>1. TypeOK /\ TypeOK' /\ SquelchOnlyWhileWaiting'
      BY DEF IInv, Safe
    <2>2. CASE TooFewSvs \/ FilterState \/ UNCHANGED vars
      BY <2>2 DEF TooFewSvs, FilterState, vars, trackerVars
    <2>3. QED
      BY <2>1, <2>2, SlipsFollow, WideLaneFollows, IntegrityFollows,
         HousekeepingFollows, OtherStagesFollow
      DEF Next
  <1>3. QED
    BY <1>1, <1>2, Invariance, PTL DEF Spec, ImplementsLifecycle, Lifecycle!Spec
=============================================================================
