-------------------------- MODULE Reputation_proofs --------------------------
(***************************************************************************)
(* Proofs about Reputation, for any integers and every threshold.          *)
(*                                                                         *)
(* The monitors learn of a lost fix or wide lane only when they next look, *)
(* so the inductive invariant says, for each of them, what keeps a new fix *)
(* from arriving before that: the step monitors look in every epoch, and   *)
(* the wide lane cannot be fixed in the one it was reset in; the setting   *)
(* drop and the promoter look every EvalEvery epochs, and the wide lane    *)
(* needs MwMinEpochs > EvalEvery samples.  So evidence left over from an   *)
(* earlier fix means that the wide lane is still the earlier one, or has   *)
(* fewer samples than epochs since the last evaluation.                    *)
(***************************************************************************)
EXTENDS Reputation, SequenceTheorems, TLAPS

\* A member of the fix set stands on a full wide lane.
Founded ==
    /\ InFixSet => mwFixed
    /\ mwFixed => mwN = MwMinEpochs

\* The GF step monitor forgets a wide lane before the next one is fixed.
GfOfThisLane ==
    /\ gf # None => gf < Consecutive
    /\ prevWl /\ ~mwFixed /\ pc # "gfstep" => mwN = 0
    /\ ~prevWl /\ pc # "gfstep" => gf = None
    /\ ~mwFixed /\ pc = "gfstep" => gf = None
    /\ mwFixed /\ gf # None => gf <= wlAge

\* The IF step monitor forgets a fix before the next one.
IfOfThisFix ==
    /\ ifs # None => ifs < Consecutive
    /\ ~prevNl => ifs = None
    /\ prevNl /\ ~InFixSet => st # "CONVERGING"
    /\ prevNl /\ ~InFixSet /\ pc \in {"slips", "wide", "drop", "trip", "house", "nav2"}
         => mwFixed \/ mwN = 0
    /\ pc = "ifstep" /\ seen /\ InFixSet => age >= 1
    /\ InFixSet /\ ifs # None => ifs <= age
    /\ pc = "ifstep" /\ seen /\ InFixSet /\ ifs # None => ifs < age

\* Epochs since a stage that is run every EvalEvery epochs was last reached:
\* tick is moved on by the wide lane, and the stage is not yet in `before`.
Since(before) == IF tick = 0 /\ pc \in before THEN EvalEvery ELSE tick

\* What an earlier fix left cannot meet a new one: the wide lane is still the
\* earlier one, or too young to be fixed.
Lingers(before) ==
    ~InFixSet => st # "CONVERGING" /\ (mwFixed \/ mwN <= Since(before))

BeforeDrop == {"gfstep", "narrow", "ingest", "ifstep", "drop"}
BeforePromoter == BeforeDrop \union {"trip", "house"}

WindowOfThisFix ==
    /\ window # None => Lingers(BeforeDrop)
    /\ InFixSet /\ window # None => window <= age

CandidateOfThisFix ==
    /\ cand # None => st # "ANCHORED"
    /\ cand # None => Lingers(BeforePromoter)
    /\ cand # None /\ ~cand.first => cand.acc = 0
    /\ st = "ANCHORING" /\ cand # None =>
         /\ cand.acc <= path
         /\ cand.first => cand.acc + cand.lag <= path \/ path = Travel

\* What the tiers remember was admitted, and promoted, since the last slip.
Remembers ==
    /\ Len(hist) <= admits
    /\ anchored => promoted

IInv ==
    /\ TypeOK
    /\ Founded
    /\ GfOfThisLane
    /\ IfOfThisFix
    /\ WindowOfThisFix
    /\ CandidateOfThisFix
    /\ Remembers

\* The thresholds as numbers.
LEMMA Thresholds ==
    /\ KLong \in Nat /\ KLong > 1
    /\ Consecutive \in Nat /\ Consecutive > 1
    /\ MwMinEpochs \in Nat /\ EvalEvery \in Nat /\ EvalEvery > 0 /\ MwMinEpochs > EvalEvery
    /\ MinSamples \in Nat /\ MinSamples > 0
    /\ Travel \in Nat /\ Travel > 0
    /\ CleanWindow \in Nat /\ CleanWindow > 0
    /\ SlipCooldown \in Nat /\ IfCooldown \in Nat
    /\ MostAge \in Nat /\ MostAge >= Consecutive /\ MostAge >= MinSamples
  BY ConstantsAssumption DEF MostAge

\* A demotion ends in its target or is illegal, and every member of the fix
\* set can be demoted.
LEMMA MoveOut ==
    ASSUME TypeOK, NEW to \in {"FLOATING", "WAITING"}, NEW cooldown \in Nat,
           Move(to, cooldown)
    PROVE  /\ st' = st \/ st' = to
           /\ InFixSet => st' = to
           /\ st' \in Tracker!SvStates /\ squelch' \in Nat
BY DEF TypeOK, Move, Edge, InFixSet, Tracker!SvStates, Tracker!LegalEdges,
       Tracker!FixStates, Tracker!Processing

\* What every stage but the wide lane, the narrow lane and housekeeping does
\* to the record and to the wide lane.
Falls ==
    /\ st' = st \/ st' \in {"FLOATING", "WAITING"}
    /\ UNCHANGED mwVars \/ (ResetMw /\ st' \notin Tracker!FixStates)
    /\ st' \in Tracker!SvStates /\ squelch' \in Nat

LEMMA UnfixFalls ==
    ASSUME TypeOK, Unfix
    PROVE  /\ st' = st \/ st' = "FLOATING"
           /\ st' \in Tracker!SvStates /\ squelch' \in Nat
           /\ st' \notin Tracker!FixStates
<1>1. CASE InFixSet
  BY <1>1, MoveOut DEF Unfix, Tracker!FixStates
<1>2. CASE ~InFixSet
  BY <1>2 DEF Unfix, InFixSet, trackerVars, TypeOK
<1>3. QED
  BY <1>1, <1>2

LEMMA FlushFalls ==
    ASSUME TypeOK, NEW confidence \in {"HIGH", "LOW"}, Flush(confidence)
    PROVE  Falls /\ ResetMw
<1> DEFINE to == IF confidence = "HIGH" THEN "WAITING" ELSE "FLOATING"
<1>1. Move(to, SlipCooldown) /\ ResetMw
  BY DEF Flush
<1>2. to \in {"FLOATING", "WAITING"} /\ to \notin Tracker!FixStates
  BY DEF Tracker!FixStates
<1> HIDE DEF to
<1>3. QED
  BY <1>1, <1>2, MoveOut, Thresholds DEF Falls, InFixSet

LEMMA GfTripFalls ==
    ASSUME TypeOK, GfTrip
    PROVE  Falls /\ ResetMw
<1>1. CASE st \in {"CONVERGING"} \union Tracker!FixStates
  <2>1. Move("FLOATING", 0)
    BY <1>1 DEF GfTrip
  <2>2. QED
    BY <1>1, <2>1, MoveOut DEF GfTrip, Falls, InFixSet, Tracker!FixStates
<1>2. CASE st \notin {"CONVERGING"} \union Tracker!FixStates
  BY <1>2 DEF GfTrip, Falls, trackerVars, TypeOK
<1>3. QED
  BY <1>1, <1>2

LEMMA IfTripFalls ==
    ASSUME TypeOK, IfTrip
    PROVE  Falls /\ ResetMw
<1>1. Move("WAITING", IfCooldown) /\ ResetMw
  BY DEF IfTrip
<1>2. QED
  BY <1>1, MoveOut, Thresholds DEF Falls, InFixSet, Tracker!FixStates

\* An integrity trip that resets the wide lane demotes every member of the
\* fix set, because such a member has samples.
LEMMA FlushTripFalls ==
    ASSUME TypeOK, Founded, FlushTrip
    PROVE  Falls /\ ResetMw
<1>1. CASE mwN > 0 \/ (fixed /\ InFixSet)
  <2>1. Move("FLOATING", 0) /\ ResetMw
    BY <1>1 DEF FlushTrip
  <2>2. QED
    BY <2>1, MoveOut DEF Falls, InFixSet, Tracker!FixStates
<1>2. CASE ~(mwN > 0 \/ (fixed /\ InFixSet))
  <2>1. ~InFixSet
    BY <1>2, Thresholds DEF Founded
  <2>2. QED
    BY <1>2, <2>1 DEF FlushTrip, Falls, InFixSet, trackerVars, TypeOK
<1>3. QED
  BY <1>1, <1>2

LEMMA StagesFall ==
    ASSUME TypeOK, Founded,
           \/ Slips \/ TooFewSvs \/ GfStep \/ Ingest \/ IfStep \/ SettingDrop
           \/ Trip \/ Nav2
    PROVE  Falls
<1>1. ASSUME UNCHANGED trackerVars, UNCHANGED mwVars
      PROVE  Falls
  BY <1>1 DEF Falls, trackerVars, TypeOK
<1>2. CASE Slips
  BY <1>1, <1>2, FlushFalls DEF Slips
<1>3. CASE TooFewSvs \/ Ingest
  BY <1>1, <1>3 DEF TooFewSvs, Ingest
<1>4. CASE GfStep
  BY <1>1, <1>4, GfTripFalls DEF GfStep, GfQuiet
<1>5. CASE IfStep
  BY <1>1, <1>5, IfTripFalls DEF IfStep, IfQuiet
<1>6. CASE SettingDrop
  <2>1. ASSUME Drop
        PROVE  Falls
    BY <1>6, <2>1, MoveOut DEF SettingDrop, Drop, Falls
  <2>2. QED
    BY <1>1, <1>6, <2>1 DEF SettingDrop
<1>7. CASE Trip
  <2>1. ASSUME RevertTrip
        PROVE  Falls
    BY <2>1, UnfixFalls DEF RevertTrip, Falls
  <2>2. QED
    BY <1>1, <1>7, <2>1, FlushTripFalls DEF Trip
<1>8. CASE Nav2
  <2>1. ASSUME Unfix
        PROVE  Falls
    BY <1>8, <2>1, UnfixFalls DEF Nav2, Falls
  <2>2. QED
    BY <1>1, <1>8, <2>1 DEF Nav2
<1>9. QED
  BY <1>2, <1>3, <1>4, <1>5, <1>6, <1>7, <1>8

\* The wide lane is fixed from a sample before, never for a member of the fix
\* set, and brings nobody into that set.
WideLaneMoves ==
    /\ st' \in Tracker!SvStates /\ squelch' \in Nat
    /\ st \in Tracker!FixStates \/ st' \in Tracker!FixStates => st' = st
    /\ mwN' \in 0 .. MwMinEpochs /\ mwN' <= mwN + 1 /\ mwFixed' \in BOOLEAN
    /\ mwFixed => mwFixed'
    /\ mwFixed' => mwN' = MwMinEpochs
    /\ (st' = "CONVERGING" /\ st # "CONVERGING") \/ (mwFixed' /\ ~mwFixed)
         => ~mwFixed /\ mwN > 0 /\ mwN + 1 >= MwMinEpochs

LEMMA WideLaneMovesSo ==
    ASSUME TypeOK, Founded, WideLane
    PROVE  WideLaneMoves
<1>1. PICK fix \in BOOLEAN, revert \in BOOLEAN :
         /\ fix => fed' /\ ~mwFixed /\ mwN > 0 /\ mwN + 1 >= MwMinEpochs
         /\ revert => fix
         /\ mwFixed' = (mwFixed \/ (fix /\ ~revert))
         /\ st' = IF fix /\ <<Admitted, "CONVERGING">> \in Tracker!LegalEdges
                  THEN "CONVERGING" ELSE Admitted
  BY DEF WideLane
<1>2. mwFixed \in BOOLEAN /\ mwN \in 0 .. MwMinEpochs /\ st \in Tracker!SvStates
      /\ squelch \in Nat
  BY DEF TypeOK
<1>3. /\ Admitted = st \/ (st = "TRACKING" /\ Admitted = "FLOATING")
      /\ Admitted \in Tracker!SvStates
  BY <1>2 DEF Admitted, Tracker!SvStates
<1>4. st' = Admitted \/ (st' = "CONVERGING" /\ fix)
  BY <1>1
<1>5. st' \in Tracker!SvStates /\ squelch' \in Nat
  <2>1. squelch' \in Nat
    BY <1>2 DEF WideLane, Dec
  <2>2. QED
    BY <1>3, <1>4, <2>1 DEF Tracker!SvStates
<1>6. st \in Tracker!FixStates \/ st' \in Tracker!FixStates => st' = st
  BY <1>1, <1>3, <1>4 DEF Founded, InFixSet, Tracker!FixStates
<1>7. mwN' \in 0 .. MwMinEpochs /\ mwN' <= mwN + 1
  BY <1>2, Thresholds DEF WideLane, UpTo
<1>8. mwFixed' => mwN' = MwMinEpochs
  <2>1. CASE fix
    BY <1>1, <1>2, <2>1, Thresholds DEF WideLane, UpTo
  <2>2. CASE mwFixed
    BY <1>2, <2>2, Thresholds DEF WideLane, UpTo, Founded
  <2>3. QED
    BY <1>1, <2>1, <2>2
<1>9. (st' = "CONVERGING" /\ st # "CONVERGING") \/ (mwFixed' /\ ~mwFixed) => fix
  BY <1>1, <1>3, <1>4
<1>10. QED
  BY <1>1, <1>5, <1>6, <1>7, <1>8, <1>9 DEF WideLaneMoves

\* The narrow lane fixes what converged, and starts the counts of the fix.
NarrowLaneMoves ==
    /\ squelch' \in Nat
    /\ \/ UNCHANGED <<st, age, path>>
       \/ /\ st = "CONVERGING" /\ mwFixed
          /\ st' = "ANCHORING" /\ age' = 0 /\ path' = 0

LEMMA NarrowLaneMovesSo ==
    ASSUME TypeOK, NarrowLane
    PROVE  NarrowLaneMoves
<1>1. CASE UNCHANGED <<fixed, hist, admits, trackerVars, age, path>>
  BY <1>1 DEF NarrowLaneMoves, trackerVars, TypeOK
<1>2. ASSUME mwFixed, NEW n \in Proposals, Commit(n)
      PROVE  NarrowLaneMoves
  <2>1. CASE st = "CONVERGING"
    <3>1. Move("ANCHORING", 0) /\ age' = 0 /\ path' = 0
      BY <1>2, <2>1 DEF Commit
    <3>2. Edge("ANCHORING")
      BY <2>1 DEF Edge, Tracker!LegalEdges
    <3>3. QED
      BY <1>2, <2>1, <3>1, <3>2 DEF Move, NarrowLaneMoves
  <2>2. CASE st # "CONVERGING"
    BY <1>2, <2>2 DEF Commit, NarrowLaneMoves, trackerVars, TypeOK
  <2>3. QED
    BY <2>1, <2>2
<1>3. QED
  BY <1>1, <1>2 DEF NarrowLane

\* Housekeeping promotes, forgets, or leaves the record where it is but for
\* the end of a squelch.
HousekeepingMoves ==
    /\ st' \in Tracker!SvStates /\ squelch' \in Nat
    /\ \/ Forgotten
       \/ Promoted /\ cand # None /\ st = "ANCHORING"
       \/ Kept /\ (st' = st \/ (st = "WAITING" /\ st' = "FLOATING"))

LEMMA HousekeepingMovesSo ==
    ASSUME TypeOK, Housekeeping
    PROVE  HousekeepingMoves
<1>1. CASE Forgotten
  BY <1>1 DEF HousekeepingMoves, Forgotten, Tracker!SvStates
<1>2. CASE Promoted /\ cand # None /\ st = "ANCHORING"
  BY <1>2 DEF HousekeepingMoves, Promoted, Tracker!SvStates
<1>3. CASE Kept
  BY <1>3 DEF HousekeepingMoves, Kept, Swept, Tracker!SvStates, TypeOK
<1>4. QED
  BY <1>1, <1>2, <1>3 DEF Housekeeping

\* What fell is not in the fix set unless nothing changed.
LEMMA FallsKeeps ==
    ASSUME Falls
    PROVE  /\ InFixSet' => InFixSet /\ st' = st /\ UNCHANGED mwVars
           /\ st' = "CONVERGING" => st = "CONVERGING"
           /\ st' = "ANCHORED" => st = "ANCHORED"
           /\ st' = "ANCHORING" => st = "ANCHORING"
           /\ mwFixed' => UNCHANGED mwVars
           /\ mwN' = mwN \/ mwN' = 0
BY DEF Falls, InFixSet, Tracker!FixStates, ResetMw, mwVars

LEMMA FoundedStep ==
    ASSUME IInv, [Next]_vars
    PROVE  Founded'
<1> USE DEF IInv
<1>1. CASE \/ Slips \/ TooFewSvs \/ GfStep \/ Ingest \/ IfStep \/ SettingDrop
           \/ Trip \/ Nav2
  BY <1>1, StagesFall, FallsKeeps DEF Founded, mwVars, InFixSet
<1>2. CASE WideLane
  BY <1>2, WideLaneMovesSo DEF Founded, WideLaneMoves, InFixSet
<1>3. CASE NarrowLane
  BY <1>3, NarrowLaneMovesSo DEF Founded, NarrowLaneMoves, NarrowLane, InFixSet, mwVars
<1>4. CASE Housekeeping
  BY <1>4, HousekeepingMovesSo
     DEF Founded, HousekeepingMoves, Housekeeping, Forgotten, Promoted, InFixSet, mwVars,
         Tracker!FixStates
<1>5. CASE UNCHANGED vars
  BY <1>5 DEF vars, Founded, InFixSet, mwVars, trackerVars
<1>6. QED
  BY <1>1, <1>2, <1>3, <1>4, <1>5 DEF Next

-----------------------------------------------------------------------------
(* The step monitors *)

LEMMA GfOfThisLaneStep ==
    ASSUME IInv, [Next]_vars
    PROVE  GfOfThisLane'
<1> USE DEF IInv
<1>1. ASSUME Falls, UNCHANGED gfVars, UNCHANGED wlAge,
             pc # "gfstep", pc' # "gfstep"
      PROVE  GfOfThisLane'
  BY <1>1 DEF Falls, GfOfThisLane, ResetMw, gfVars, mwVars
<1>2. CASE WideLane
  <2>1. /\ pc = "wide" /\ pc' = "gfstep" /\ prevWl' = prevWl
        /\ gf' = CASE mwFixed' /\ ~prevWl -> IF fed' THEN 0 ELSE None
                   [] prevWl /\ ~mwFixed' -> None
                   [] OTHER               -> gf
        /\ wlAge' = IF mwFixed' /\ mwFixed THEN wlAge ELSE 0
    BY <1>2 DEF WideLane
  <2>2. WideLaneMoves
    BY <1>2, WideLaneMovesSo
  <2>3. prevWl /\ mwFixed' => mwFixed
    BY <2>1, <2>2 DEF WideLaneMoves, GfOfThisLane
  <2>4. gf' = None \/ (mwFixed' /\ gf' = 0 /\ 0 <= wlAge') \/ (mwFixed /\ prevWl /\ gf' = gf /\ wlAge' = wlAge)
    BY <2>1, <2>2, <2>3 DEF GfOfThisLane, WideLaneMoves, TypeOK
  <2>5. gf' # None => gf' < Consecutive
    BY <2>4, Thresholds DEF GfOfThisLane
  <2>6. mwFixed' /\ gf' # None => gf' <= wlAge'
    BY <2>4 DEF GfOfThisLane
  <2>7. ~mwFixed' => gf' = None
    BY <2>2, <2>4 DEF WideLaneMoves
  <2>8. QED
    BY <2>1, <2>5, <2>6, <2>7 DEF GfOfThisLane
<1>3. CASE GfStep
  <2>1. pc' = "narrow" /\ (wlAge' = IF fed /\ mwFixed THEN UpTo(Consecutive, wlAge + 1) ELSE wlAge)
    BY <1>3 DEF GfStep
  <2>2. CASE GfTrip
    BY <2>1, <2>2 DEF GfTrip, ResetMw, GfOfThisLane
  <2>3. ASSUME NEW streak, GfQuiet(streak), streak = gf
        PROVE  GfOfThisLane'
    <3>1. gf' = gf /\ prevWl' = mwFixed /\ UNCHANGED mwVars
      BY <2>3 DEF GfQuiet
    <3>2. wlAge' >= wlAge
      BY <2>1, Thresholds DEF UpTo, TypeOK
    <3>3. wlAge \in Nat /\ wlAge' \in Nat /\ (gf # None => gf \in Nat)
      BY <2>1, Thresholds DEF UpTo, TypeOK
    <3>4. QED
      BY <1>3, <2>1, <3>1, <3>2, <3>3 DEF GfStep, GfOfThisLane, mwVars
  <2>4. ASSUME NEW enough \in BOOLEAN, NEW over \in BOOLEAN, fed, gf # None,
               Streak(gf, enough, over) < Consecutive,
               GfQuiet(Streak(gf, enough, over))
        PROVE  GfOfThisLane'
    <3>1. gf \in Nat /\ mwFixed /\ gf <= wlAge /\ wlAge \in 0 .. Consecutive
      BY <1>3, <2>4 DEF GfOfThisLane, GfStep, TypeOK
    <3>2. gf' \in Nat /\ gf' <= gf + 1 /\ gf' < Consecutive
      BY <2>4, <3>1 DEF GfQuiet, Streak
    <3>3. gf' <= wlAge'
      BY <2>1, <2>4, <3>1, <3>2, Thresholds DEF UpTo
    <3>4. prevWl' = mwFixed /\ UNCHANGED mwVars
      BY <2>4 DEF GfQuiet
    <3>5. QED
      BY <2>1, <3>1, <3>2, <3>3, <3>4 DEF GfOfThisLane, mwVars
  <2>5. Consecutive \in Nat /\ \A enough, over \in BOOLEAN :
            fed /\ gf # None => Streak(gf, enough, over) \in Nat
    BY Thresholds DEF Streak, TypeOK
  <2>6. QED
    BY <1>3, <2>2, <2>3, <2>4, <2>5 DEF GfStep
<1>4. CASE Slips \/ TooFewSvs \/ Ingest \/ IfStep \/ SettingDrop \/ Trip \/ Nav2
  <2>1. Falls
    BY <1>4, StagesFall
  <2>2. UNCHANGED gfVars /\ wlAge' = wlAge /\ pc # "gfstep" /\ pc' # "gfstep"
    BY <1>4 DEF Slips, TooFewSvs, Ingest, IfStep, SettingDrop, Trip, Nav2, fixVars
  <2>3. QED
    BY <1>1, <2>1, <2>2
<1>5. CASE NarrowLane
  BY <1>5 DEF NarrowLane, GfOfThisLane, gfVars, mwVars
<1>6. CASE Housekeeping
  BY <1>6 DEF Housekeeping, GfOfThisLane, gfVars, mwVars, fixVars
<1>7. CASE UNCHANGED vars
  BY <1>7 DEF vars, GfOfThisLane, gfVars, mwVars, fixVars
<1>8. QED
  BY <1>2, <1>3, <1>4, <1>5, <1>6, <1>7 DEF Next

\* A stage after which the IF step monitor still has to look.
LEMMA IfOfThisFixFalls ==
    ASSUME TypeOK, Founded, IfOfThisFix, Falls, UNCHANGED ifVars, UNCHANGED age,
           pc' # "ifstep",
           \/ pc \in {"slips", "wide", "drop", "trip", "house", "nav2"}
           \/ pc' \notin {"slips", "wide", "drop", "trip", "house", "nav2"}
    PROVE  IfOfThisFix'
<1>1. prevNl /\ ~InFixSet' => st' # "CONVERGING"
  BY FallsKeeps DEF IfOfThisFix, Falls, InFixSet, Tracker!FixStates
<1>2. prevNl /\ ~InFixSet' /\ pc' \in {"slips", "wide", "drop", "trip", "house", "nav2"}
        => mwFixed' \/ mwN' = 0
  BY DEF IfOfThisFix, Falls, Founded, ResetMw, mwVars
<1>3. QED
  BY <1>1, <1>2, FallsKeeps DEF IfOfThisFix, ifVars

LEMMA IfOfThisFixStep ==
    ASSUME IInv, [Next]_vars
    PROVE  IfOfThisFix'
<1> USE DEF IInv
<1>1. CASE Slips \/ TooFewSvs \/ GfStep \/ SettingDrop \/ Trip \/ Nav2
  <2>1. Falls
    BY <1>1, StagesFall
  <2>2. /\ UNCHANGED ifVars /\ age' = age /\ pc' # "ifstep"
        /\ \/ pc \in {"slips", "wide", "drop", "trip", "house", "nav2"}
           \/ pc' \notin {"slips", "wide", "drop", "trip", "house", "nav2"}
    BY <1>1 DEF Slips, TooFewSvs, GfStep, SettingDrop, Trip, Nav2, fixVars
  <2>3. QED
    BY <2>1, <2>2, IfOfThisFixFalls
<1>2. CASE WideLane
  <2>1. WideLaneMoves
    BY <1>2, WideLaneMovesSo
  <2>2. UNCHANGED ifVars /\ age' = age /\ pc = "wide" /\ pc' = "gfstep"
    BY <1>2 DEF WideLane
  <2>3. InFixSet' = InFixSet
    BY <2>1 DEF WideLaneMoves, InFixSet
  <2>4. prevNl /\ ~InFixSet => st' # "CONVERGING"
    BY <2>1, <2>2 DEF WideLaneMoves, IfOfThisFix
  <2>5. QED
    BY <2>2, <2>3, <2>4 DEF IfOfThisFix, ifVars
<1>3. CASE NarrowLane
  <2>1. NarrowLaneMoves
    BY <1>3, NarrowLaneMovesSo
  <2>2. UNCHANGED ifVars /\ pc = "narrow" /\ pc' = "ingest"
    BY <1>3 DEF NarrowLane
  <2>3. CASE UNCHANGED <<st, age, path>>
    BY <2>2, <2>3 DEF IfOfThisFix, ifVars, InFixSet
  <2>4. CASE st = "CONVERGING" /\ st' = "ANCHORING" /\ age' = 0
    <3>1. ~InFixSet /\ ~prevNl /\ ifs' = None /\ InFixSet'
      BY <2>2, <2>4 DEF IfOfThisFix, ifVars, InFixSet, Tracker!FixStates, TypeOK
    <3>2. QED
      BY <2>2, <2>4, <3>1 DEF IfOfThisFix, ifVars
  <2>5. QED
    BY <2>1, <2>3, <2>4 DEF NarrowLaneMoves
<1>4. CASE Ingest
  <2>1. /\ pc = "ingest" /\ pc' = "ifstep" /\ UNCHANGED ifVars /\ st' = st /\ seen' = seen
        /\ IF seen /\ InFixSet THEN age' = UpTo(MostAge, age + 1)
                               ELSE age' = IF InFixSet THEN age ELSE 0
    BY <1>4 DEF Ingest, trackerVars, epochVars
  <2>2. InFixSet' = InFixSet
    BY <2>1 DEF InFixSet
  <2>3. age \in 0 .. MostAge /\ (ifs # None => ifs \in Nat)
    BY DEF TypeOK
  <2>4. seen /\ InFixSet => age' >= 1 /\ (ifs # None => ifs < age') /\ age' \in Nat
    <3>1. CASE age = MostAge
      BY <2>1, <2>3, <3>1, Thresholds DEF UpTo, IfOfThisFix
    <3>2. CASE age < MostAge
      BY <2>1, <2>3, <3>2, Thresholds DEF UpTo, IfOfThisFix
    <3>3. QED
      BY <2>3, <3>1, <3>2, Thresholds
  <2>5. InFixSet /\ ifs # None => ifs <= age'
    BY <2>1, <2>3, <2>4 DEF IfOfThisFix
  <2>6. QED
    BY <2>1, <2>2, <2>4, <2>5 DEF IfOfThisFix, ifVars
<1>5. CASE IfStep
  <2>1. /\ pc = "ifstep" /\ pc' = "drop" /\ prevNl' = InFixSet
        /\ age' = age /\ prevNl \in BOOLEAN
    BY <1>5 DEF IfStep, fixVars, TypeOK
  <2>2. IfTracked = None \/ (InFixSet /\ (IfTracked = 0 \/ (prevNl /\ IfTracked = ifs)))
    BY DEF IfTracked, IfOfThisFix, TypeOK
  <2>3. CASE IfTrip
    <3>1. Falls /\ ResetMw
      BY <2>3, IfTripFalls
    <3>2. ifs' = None
      BY <2>3 DEF IfTrip
    <3>3. ~InFixSet' => st' # "CONVERGING" \/ ~InFixSet
      BY <3>1 DEF Falls, InFixSet, Tracker!FixStates
    <3>4. QED
      BY <2>1, <3>1, <3>2, <3>3 DEF IfOfThisFix, ResetMw
  <2>4. ASSUME NEW streak, IfQuiet(streak), streak = IfTracked,
               ~(seen /\ InFixSet /\ IfTracked # None)
        PROVE  IfOfThisFix'
    <3>1. ifs' = IfTracked /\ st' = st
      BY <2>4 DEF IfQuiet, trackerVars
    <3>2. InFixSet' = InFixSet
      BY <3>1 DEF InFixSet
    <3>3. ifs' # None => ifs' < Consecutive /\ InFixSet /\ ifs' <= age
      BY <2>2, <3>1, Thresholds DEF IfOfThisFix, TypeOK
    <3>4. QED
      BY <2>1, <3>2, <3>3 DEF IfOfThisFix
  <2>5. ASSUME NEW enough \in BOOLEAN, NEW over \in BOOLEAN,
               seen, InFixSet, IfTracked # None,
               Streak(IfTracked, enough, over) < Consecutive,
               IfQuiet(Streak(IfTracked, enough, over))
        PROVE  IfOfThisFix'
    <3>1. st' = st /\ ifs' = Streak(IfTracked, enough, over)
      BY <2>5 DEF IfQuiet, trackerVars
    <3>2. InFixSet' = InFixSet
      BY <3>1 DEF InFixSet
    <3>3. age \in Nat /\ age >= 1 /\ IfTracked \in Nat /\ IfTracked < age
      BY <2>1, <2>2, <2>5 DEF IfOfThisFix, TypeOK
    <3>4. ifs' \in Nat /\ ifs' <= age
      BY <3>1, <3>3 DEF Streak
    <3>5. QED
      BY <2>1, <2>5, <3>1, <3>2, <3>4 DEF IfOfThisFix
  <2>6. \A enough, over \in BOOLEAN : IfTracked # None =>
            Streak(IfTracked, enough, over) \in Nat
    BY <2>2 DEF Streak, TypeOK
  <2>7. QED
    BY <1>5, <2>3, <2>4, <2>5, <2>6, Thresholds DEF IfStep
<1>6. CASE Housekeeping
  <2>1. HousekeepingMoves
    BY <1>6, HousekeepingMovesSo
  <2>2. UNCHANGED <<ifVars, mwVars, fixVars>> /\ pc = "house" /\ pc' = "nav2"
    BY <1>6 DEF Housekeeping
  <2>3. InFixSet' => InFixSet
    BY <2>1 DEF HousekeepingMoves, InFixSet, Tracker!FixStates, Forgotten
  <2>4. prevNl /\ ~InFixSet' => st' # "CONVERGING"
    BY <2>1 DEF HousekeepingMoves, InFixSet, Tracker!FixStates, Forgotten, Promoted, IfOfThisFix
  <2>5. QED
    BY <2>2, <2>3, <2>4 DEF IfOfThisFix, Founded, ifVars, mwVars, fixVars
<1>7. CASE UNCHANGED vars
  BY <1>7 DEF vars, IfOfThisFix, ifVars, mwVars, fixVars, InFixSet, trackerVars, epochVars
<1>8. QED
  BY <1>1, <1>2, <1>3, <1>4, <1>5, <1>6, <1>7 DEF Next

-----------------------------------------------------------------------------
(* The setting drop and the promoter *)

\* The count of epochs, modulo their cadence.
LEMMA NextTick ==
    ASSUME NEW t \in 0 .. EvalEvery - 1
    PROVE  (t + 1) % EvalEvery = IF t + 1 = EvalEvery THEN 0 ELSE t + 1
<1>1. t \in Nat /\ EvalEvery \in Nat /\ EvalEvery > 0 /\ t + 1 <= EvalEvery
  BY Thresholds
<1>2. CASE t + 1 = EvalEvery
  BY <1>1, <1>2
<1>3. CASE t + 1 < EvalEvery
  BY <1>1, <1>3
<1>4. QED
  BY <1>1, <1>2, <1>3

LEMMA LingersFalls ==
    ASSUME TypeOK, Founded, NEW before, Lingers(before), Falls, tick' = tick,
           tick = 0 /\ pc \in before => pc' \in before
    PROVE  Lingers(before)'
<1>1. tick \in 0 .. EvalEvery - 1 /\ EvalEvery \in Nat /\ EvalEvery > 0 /\ mwN \in Nat
  BY Thresholds DEF TypeOK
<1>2. Since(before)' >= Since(before) /\ Since(before) \in Nat /\ Since(before)' \in Nat
  BY <1>1 DEF Since
<1>3. CASE UNCHANGED mwVars
  BY <1>1, <1>2, <1>3 DEF Falls, Lingers, Founded, InFixSet, Tracker!FixStates, mwVars
<1>4. CASE ResetMw
  BY <1>2, <1>4 DEF Falls, Lingers, InFixSet, Tracker!FixStates, ResetMw
<1>5. QED
  BY <1>3, <1>4 DEF Falls

\* The wide lane of a satellite that left the fix set is not fixed again
\* before its leftovers are found: it has too few samples.
LEMMA LingersWideLane ==
    ASSUME TypeOK, Founded, NEW before, Lingers(before), WideLane,
           "wide" \notin before, "gfstep" \in before
    PROVE  Lingers(before)'
<1>1. /\ tick \in 0 .. EvalEvery - 1 /\ EvalEvery \in Nat /\ EvalEvery > 0
      /\ mwN \in Nat /\ MwMinEpochs \in Nat /\ MwMinEpochs > EvalEvery
  BY Thresholds DEF TypeOK
<1>2. pc = "wide" /\ pc' = "gfstep" /\ tick' = (tick + 1) % EvalEvery
  BY DEF WideLane
<1>3. Since(before) = tick /\ Since(before)' = tick + 1
  BY <1>1, <1>2, NextTick DEF Since
<1>4. WideLaneMoves
  BY WideLaneMovesSo
<1>5. SUFFICES ASSUME ~InFixSet'
               PROVE  st' # "CONVERGING" /\ (mwFixed' \/ mwN' <= tick + 1)
  BY <1>3 DEF Lingers
<1>6. ~InFixSet
  BY <1>4, <1>5 DEF WideLaneMoves, InFixSet
<1>7. st # "CONVERGING" /\ (mwFixed \/ mwN <= tick)
  BY <1>3, <1>6 DEF Lingers
<1>8. CASE mwFixed
  BY <1>4, <1>7, <1>8 DEF WideLaneMoves
<1>9. CASE mwN <= tick /\ ~mwFixed
  <2>1. ~(mwN + 1 >= MwMinEpochs)
    BY <1>1, <1>9
  <2>2. mwN' \in Nat /\ mwN' <= tick + 1
    BY <1>1, <1>4, <1>9 DEF WideLaneMoves
  <2>3. QED
    BY <1>4, <1>7, <2>1, <2>2 DEF WideLaneMoves
<1>10. QED
  BY <1>7, <1>8, <1>9

\* While something lingers the narrow lane makes no fix.
LEMMA LingersNarrowLane ==
    ASSUME TypeOK, Founded, NEW before, Lingers(before), NarrowLane,
           "narrow" \in before => "ingest" \in before
    PROVE  Lingers(before)' /\ UNCHANGED <<st, age, path>>
<1>1. pc = "narrow" /\ pc' = "ingest" /\ tick' = tick /\ UNCHANGED mwVars
  BY DEF NarrowLane, epochVars
<1>2. UNCHANGED <<st, age, path>>
  BY NarrowLaneMovesSo DEF NarrowLaneMoves, Lingers, InFixSet, Tracker!FixStates
<1>3. Since(before)' >= Since(before) /\ Since(before) \in Nat /\ Since(before)' \in Nat
  BY <1>1, Thresholds DEF Since, TypeOK
<1>4. QED
  BY <1>1, <1>2, <1>3 DEF Lingers, InFixSet, mwVars, TypeOK

LEMMA WindowOfThisFixStep ==
    ASSUME IInv, [Next]_vars
    PROVE  WindowOfThisFix'
<1> USE DEF IInv
<1>1. CASE Slips \/ TooFewSvs \/ GfStep \/ IfStep \/ Trip \/ Nav2
  <2>1. Falls
    BY <1>1, StagesFall
  <2>2. /\ window' = window /\ age' = age /\ tick' = tick
        /\ pc \in BeforeDrop => pc' \in BeforeDrop
    BY <1>1 DEF Slips, TooFewSvs, GfStep, IfStep, Trip, Nav2, fixVars, epochVars, BeforeDrop
  <2>3. window # None => Lingers(BeforeDrop)'
    BY <2>1, <2>2, LingersFalls DEF WindowOfThisFix
  <2>4. QED
    BY <2>1, <2>2, <2>3, FallsKeeps DEF WindowOfThisFix
<1>2. CASE WideLane
  <2>1. window' = window /\ age' = age /\ "wide" \notin BeforeDrop /\ "gfstep" \in BeforeDrop
    BY <1>2 DEF WideLane, BeforeDrop
  <2>2. window # None => Lingers(BeforeDrop)'
    BY <1>2, <2>1, LingersWideLane DEF WindowOfThisFix
  <2>3. InFixSet' => InFixSet
    BY <1>2, WideLaneMovesSo DEF WideLaneMoves, InFixSet
  <2>4. QED
    BY <2>1, <2>2, <2>3 DEF WindowOfThisFix
<1>3. CASE NarrowLane
  <2>1. window' = window /\ "ingest" \in BeforeDrop
    BY <1>3 DEF NarrowLane, BeforeDrop
  <2>2. window # None => Lingers(BeforeDrop)' /\ UNCHANGED <<st, age, path>>
    BY <1>3, <2>1, LingersNarrowLane DEF WindowOfThisFix
  <2>3. QED
    BY <2>1, <2>2 DEF WindowOfThisFix, InFixSet
<1>4. CASE Ingest
  <2>1. /\ pc = "ingest" /\ pc' = "ifstep" /\ tick' = tick /\ st' = st /\ UNCHANGED mwVars
        /\ IF seen /\ InFixSet
           THEN /\ window' = UpTo(MinSamples, (IF window = None THEN 0 ELSE window) + 1)
                /\ age' = UpTo(MostAge, age + 1)
           ELSE /\ UNCHANGED window
                /\ age' = IF InFixSet THEN age ELSE 0
    BY <1>4 DEF Ingest, epochVars, trackerVars
  <2>2. InFixSet' = InFixSet
    BY <2>1 DEF InFixSet
  <2>3. window' # None => Lingers(BeforeDrop)'
    BY <2>1, <2>2 DEF WindowOfThisFix, Lingers, Since, BeforeDrop, mwVars
  <2>4. InFixSet /\ window' # None => window' <= age'
    <3>1. CASE seen
      <4>1. age \in 0 .. MostAge /\ (window # None => window \in 1 .. MinSamples)
        BY DEF TypeOK
      <4>2. CASE window = None
        BY <2>1, <3>1, <4>1, <4>2, Thresholds DEF UpTo
      <4>3. CASE window # None
        BY <2>1, <3>1, <4>1, <4>3, Thresholds DEF UpTo, WindowOfThisFix
      <4>4. QED
        BY <4>2, <4>3
    <3>2. CASE ~seen
      BY <2>1, <3>2 DEF WindowOfThisFix
    <3>3. QED
      BY <3>1, <3>2
  <2>5. QED
    BY <2>2, <2>3, <2>4 DEF WindowOfThisFix
<1>5. CASE SettingDrop
  <2>1. Falls
    BY <1>5, StagesFall
  <2>2. tick' = tick /\ age' = age /\ (window' = None \/ window' = window)
    BY <1>5 DEF SettingDrop, Drop, WindowOfLeaver, epochVars, fixVars
  <2>3. CASE tick # 0
    BY <2>1, <2>2, <2>3, LingersFalls, FallsKeeps DEF WindowOfThisFix
  <2>4. CASE tick = 0 /\ window' # None
    <3>1. window # None
      BY <2>2, <2>4
    <3>2. InFixSet /\ st' = st
      BY <1>5, <2>4, <3>1 DEF SettingDrop, Drop, WindowOfLeaver, trackerVars
    <3>3. InFixSet' /\ Lingers(BeforeDrop)'
      BY <3>2 DEF InFixSet, Lingers
    <3>4. QED
      BY <2>2, <2>4, <3>2, <3>3 DEF WindowOfThisFix
  <2>5. QED
    BY <2>3, <2>4 DEF WindowOfThisFix
<1>6. CASE Housekeeping
  <2>1. HousekeepingMoves
    BY <1>6, HousekeepingMovesSo
  <2>2. /\ UNCHANGED <<mwVars, fixVars>> /\ pc = "house" /\ pc' = "nav2"
        /\ UNCHANGED epochVars
    BY <1>6 DEF Housekeeping
  <2>3. CASE Forgotten
    BY <2>3 DEF Forgotten, WindowOfThisFix
  <2>4. CASE Promoted /\ st = "ANCHORING"
    BY <2>2, <2>4 DEF Promoted, WindowOfThisFix, Lingers, InFixSet, Tracker!FixStates, fixVars
  <2>5. CASE Kept /\ (st' = st \/ (st = "WAITING" /\ st' = "FLOATING"))
    <3>1. window' = window /\ InFixSet' = InFixSet /\ (st' = "CONVERGING" => st = "CONVERGING")
      BY <2>5 DEF Kept, InFixSet, Tracker!FixStates
    <3>2. Since(BeforeDrop)' = Since(BeforeDrop)
      BY <2>2 DEF Since, BeforeDrop, epochVars
    <3>3. QED
      BY <2>2, <3>1, <3>2 DEF WindowOfThisFix, Lingers, mwVars, fixVars
  <2>6. QED
    BY <2>1, <2>3, <2>4, <2>5 DEF HousekeepingMoves
<1>7. CASE UNCHANGED vars
  BY <1>7 DEF vars, WindowOfThisFix, Lingers, Since, InFixSet, trackerVars, mwVars, fixVars,
              epochVars
<1>8. QED
  BY <1>1, <1>2, <1>3, <1>4, <1>5, <1>6, <1>7 DEF Next

\* The promoter's total, unless a candidate's azimuth or its record moves up.
LEMMA CandidateKept ==
    ASSUME TypeOK, Founded, CandidateOfThisFix, Falls, tick' = tick, path' = path,
           tick = 0 /\ pc \in BeforePromoter => pc' \in BeforePromoter,
           cand' = cand \/ cand' = None
    PROVE  CandidateOfThisFix'
<1>1. cand # None => Lingers(BeforePromoter)'
  BY LingersFalls DEF CandidateOfThisFix
<1>2. QED
  BY <1>1, FallsKeeps DEF CandidateOfThisFix

\* Azimuth passes for the candidate and for its fix alike.
LEMMA SlipsMoveAzimuth ==
    ASSUME IInv, Slips
    PROVE  CandidateOfThisFix'
<1> USE DEF IInv
<1>1. PICK step \in {0, 1} :
         /\ path' = IF InFixSet THEN UpTo(Travel, path + step) ELSE 0
         /\ cand' = IF cand = None THEN None
                    ELSE [cand EXCEPT !.lag = UpTo(Travel, @ + step)]
  BY DEF Slips
<1>2. CASE cand = None
  BY <1>1, <1>2 DEF CandidateOfThisFix
<1>3. CASE cand # None
  <2>1. cand \in Candidates /\ path \in 0 .. Travel
    BY <1>3 DEF TypeOK
  <2>2. /\ cand'.first = cand.first /\ cand'.acc = cand.acc
        /\ cand'.lag = UpTo(Travel, cand.lag + step)
    BY <1>1, <1>3, <2>1 DEF Candidates
  <2>3. Falls
    BY StagesFall
  <2>4. Lingers(BeforePromoter)'
    BY <1>3, <2>3, LingersFalls DEF Slips, CandidateOfThisFix, BeforePromoter, BeforeDrop
  <2>5. st' # "ANCHORED"
    BY <1>3, <2>3, FallsKeeps DEF CandidateOfThisFix
  <2>6. ASSUME st' = "ANCHORING"
        PROVE  /\ cand.acc <= path'
               /\ cand.first => cand.acc + cand'.lag <= path' \/ path' = Travel
    <3>1. st = "ANCHORING" /\ InFixSet
      BY <2>3, <2>6, FallsKeeps DEF InFixSet, Tracker!FixStates
    <3>2. path' = UpTo(Travel, path + step)
      BY <1>1, <3>1
    <3>3. /\ cand.acc \in 0 .. Travel /\ cand.lag \in 0 .. Travel
          /\ cand.acc <= path
          /\ cand.first => cand.acc + cand.lag <= path \/ path = Travel
      BY <1>3, <2>1, <3>1 DEF Candidates, CandidateOfThisFix
    <3>4. CASE path + step > Travel
      BY <1>1, <2>1, <3>2, <3>3, <3>4, Thresholds DEF UpTo
    <3>5. CASE path + step <= Travel
      <4>1. path' = path + step /\ cand'.lag <= cand.lag + step /\ cand'.lag \in Nat
        BY <1>1, <2>1, <2>2, <3>2, <3>3, <3>5, Thresholds DEF UpTo
      <4>2. cand.acc <= path'
        BY <1>1, <2>1, <3>3, <4>1
      <4>3. ASSUME cand.first
            PROVE  cand.acc + cand'.lag <= path' \/ path' = Travel
        BY <1>1, <2>1, <3>3, <3>5, <4>1, <4>3, Thresholds
      <4>4. QED
        BY <4>2, <4>3
    <3>6. QED
      BY <1>1, <2>1, <3>4, <3>5, Thresholds
  <2>7. QED
    BY <1>3, <2>2, <2>4, <2>5, <2>6 DEF CandidateOfThisFix
<1>4. QED
  BY <1>2, <1>3

\* An observation counts no more azimuth than passed since the last one.
LEMMA IngestCountsAzimuth ==
    ASSUME IInv, Ingest
    PROVE  CandidateOfThisFix'
<1> USE DEF IInv
<1>1. /\ pc = "ingest" /\ pc' = "ifstep" /\ tick' = tick /\ st' = st /\ UNCHANGED mwVars
      /\ path' = path
  BY DEF Ingest, epochVars, trackerVars
<1>2. Since(BeforePromoter)' = Since(BeforePromoter) /\ InFixSet' = InFixSet
  BY <1>1 DEF Since, BeforePromoter, BeforeDrop, InFixSet
<1>3. CASE cand' = cand
  BY <1>1, <1>2, <1>3 DEF CandidateOfThisFix, Lingers, mwVars
<1>4. ASSUME seen, st = "ANCHORING",
             NEW d \in 0 .. (IF cand = None THEN 0 ELSE cand.lag), cand' = Ingested(d)
      PROVE  CandidateOfThisFix'
  <2>1. path \in 0 .. Travel /\ InFixSet
    BY <1>4 DEF TypeOK, InFixSet, Tracker!FixStates
  <2>2. CASE cand = None
    <3>1. cand' = NewCandidate
      BY <1>4, <2>2 DEF Ingested
    <3>2. cand'.acc = 0 /\ cand'.first = FALSE
      BY <3>1 DEF NewCandidate
    <3>3. QED
      BY <1>1, <1>2, <1>4, <2>1, <3>2 DEF CandidateOfThisFix, Lingers
  <2>3. CASE cand # None /\ ~cand.first
    <3>1. cand \in Candidates /\ cand' = [cand EXCEPT !.first = TRUE, !.lag = 0]
      BY <1>4, <2>3 DEF Ingested, TypeOK
    <3>2. cand'.acc = 0 /\ cand'.lag = 0
      BY <2>3, <3>1 DEF Candidates, CandidateOfThisFix
    <3>3. cand'.first = TRUE
      BY <3>1 DEF Candidates
    <3>4. QED
      BY <1>1, <1>2, <1>4, <2>1, <3>2, <3>3 DEF CandidateOfThisFix, Lingers
  <2>4. CASE cand # None /\ cand.first
    <3>1. /\ cand \in Candidates
          /\ cand' = [cand EXCEPT !.acc = UpTo(Travel, @ + d), !.lag = 0]
      BY <1>4, <2>4 DEF Ingested, TypeOK
    <3>2. /\ cand'.acc = UpTo(Travel, cand.acc + d) /\ cand'.lag = 0
          /\ cand'.first = cand.first
      BY <3>1 DEF Candidates
    <3>3. cand.acc \in 0 .. Travel /\ cand.lag \in 0 .. Travel /\ d \in 0 .. cand.lag
      BY <1>4, <2>4, <3>1 DEF Candidates
    <3>4. cand.acc + cand.lag <= path \/ path = Travel
      BY <1>4, <2>4 DEF CandidateOfThisFix
    <3>5. cand'.acc <= path /\ cand'.acc \in Nat
      BY <2>1, <3>2, <3>3, <3>4, Thresholds DEF UpTo
    <3>6. QED
      BY <1>1, <1>2, <1>4, <2>1, <2>4, <3>2, <3>5 DEF CandidateOfThisFix, Lingers
  <2>5. QED
    BY <2>2, <2>3, <2>4
<1>5. QED
  BY <1>3, <1>4 DEF Ingest

LEMMA CandidateOfThisFixStep ==
    ASSUME IInv, [Next]_vars
    PROVE  CandidateOfThisFix'
<1> USE DEF IInv
<1>1. CASE TooFewSvs \/ GfStep \/ IfStep \/ SettingDrop \/ Trip \/ Nav2
  <2>1. Falls
    BY <1>1, StagesFall
  <2>2. /\ cand' = cand \/ cand' = None
        /\ path' = path /\ tick' = tick
        /\ pc \in BeforePromoter => pc' \in BeforePromoter
    BY <1>1 DEF TooFewSvs, GfStep, IfStep, IfTrip, IfQuiet, SettingDrop, Trip, Nav2,
                fixVars, epochVars, promoterVars, BeforePromoter, BeforeDrop
  <2>3. QED
    BY <2>1, <2>2, CandidateKept
<1>2. CASE WideLane
  <2>1. /\ cand' = cand /\ path' = path
        /\ "wide" \notin BeforePromoter /\ "gfstep" \in BeforePromoter
    BY <1>2 DEF WideLane, BeforePromoter, BeforeDrop
  <2>2. cand # None => Lingers(BeforePromoter)'
    BY <1>2, <2>1, LingersWideLane DEF CandidateOfThisFix
  <2>3. st \in Tracker!FixStates \/ st' \in Tracker!FixStates => st' = st
    BY <1>2, WideLaneMovesSo DEF WideLaneMoves
  <2>4. QED
    BY <2>1, <2>2, <2>3 DEF CandidateOfThisFix, Tracker!FixStates
<1>3. CASE NarrowLane
  <2>1. cand' = cand /\ "ingest" \in BeforePromoter
    BY <1>3 DEF NarrowLane, BeforePromoter, BeforeDrop, promoterVars
  <2>2. cand # None => Lingers(BeforePromoter)' /\ UNCHANGED <<st, age, path>>
    BY <1>3, <2>1, LingersNarrowLane DEF CandidateOfThisFix
  <2>3. QED
    BY <2>1, <2>2 DEF CandidateOfThisFix
<1>4. CASE Housekeeping
  <2>1. HousekeepingMoves
    BY <1>4, HousekeepingMovesSo
  <2>2. UNCHANGED <<mwVars, fixVars, epochVars>> /\ pc = "house" /\ pc' = "nav2"
    BY <1>4 DEF Housekeeping
  <2>3. CASE Forgotten \/ Promoted
    BY <2>3 DEF Forgotten, Promoted, CandidateOfThisFix
  <2>4. CASE Kept /\ (st' = st \/ (st = "WAITING" /\ st' = "FLOATING")) /\ cand' # None
    <3>1. cand' = cand /\ (tick = 0 => st = "ANCHORING")
      BY <2>4 DEF Kept, CandidateOfLeaver
    <3>2. InFixSet' = InFixSet /\ (st' = "CONVERGING" => st = "CONVERGING")
      BY <2>4 DEF InFixSet, Tracker!FixStates
    <3>3. tick # 0 => Since(BeforePromoter)' = Since(BeforePromoter)
      BY <2>2 DEF Since, epochVars
    <3>4. Lingers(BeforePromoter)'
      <4>1. CASE tick = 0
        BY <3>1, <3>2, <4>1 DEF Lingers, InFixSet, Tracker!FixStates
      <4>2. CASE tick # 0
        BY <2>2, <2>4, <3>1, <3>2, <3>3, <4>2 DEF CandidateOfThisFix, Lingers, mwVars
      <4>3. QED
        BY <4>1, <4>2
    <3>5. QED
      BY <2>2, <2>4, <3>1, <3>4 DEF CandidateOfThisFix, fixVars
  <2>5. QED
    BY <2>1, <2>3, <2>4 DEF HousekeepingMoves, CandidateOfThisFix
<1>5. CASE UNCHANGED vars
  BY <1>5 DEF vars, CandidateOfThisFix, Lingers, Since, InFixSet, trackerVars, mwVars,
              fixVars, epochVars, promoterVars
<1>6. QED
  BY <1>1, <1>2, <1>3, <1>4, <1>5, SlipsMoveAzimuth, IngestCountsAzimuth DEF Next

-----------------------------------------------------------------------------
(* The tiers *)

\* A history is a sequence of at most KLong integers.
LEMMA HistoryIsSequence ==
    ASSUME NEW h \in Histories
    PROVE  h \in Seq(Proposals) /\ Len(h) \in Nat /\ Len(h) <= KLong
<1>1. PICK n \in 0 .. KLong : h \in [1 .. n -> Proposals]
  BY DEF Histories
<1>2. n \in Nat /\ n <= KLong
  BY <1>1, Thresholds
<1>3. h \in Seq(Proposals)
  BY <1>1, <1>2, SeqDef
<1>4. Len(h) = n
  BY <1>1, <1>2, <1>3, LenProperties
<1>5. QED
  BY <1>2, <1>3, <1>4

LEMMA ShortSequence ==
    ASSUME NEW h \in Seq(Proposals), Len(h) <= KLong
    PROVE  h \in Histories
<1>1. Len(h) \in 0 .. KLong /\ h \in [1 .. Len(h) -> Proposals]
  BY LenProperties, Thresholds
<1>2. QED
  BY <1>1 DEF Histories

\* The deque never holds more than KLong integers, nor more than were
\* admitted.
LEMMA RememberedIsShort ==
    ASSUME NEW n \in Proposals, hist \in Histories
    PROVE  /\ Remembered(n) \in Histories
           /\ Len(Remembered(n)) <= Len(hist) + 1
<1>1. hist \in Seq(Proposals) /\ Len(hist) \in Nat /\ Len(hist) <= KLong
  BY HistoryIsSequence
<1>2. KLong \in Nat /\ KLong > 1
  BY Thresholds
<1>3. CASE Len(hist) < KLong
  <2>1. Append(hist, n) \in Seq(Proposals) /\ Len(Append(hist, n)) = Len(hist) + 1
    BY <1>1, AppendProperties
  <2>2. Len(Append(hist, n)) <= KLong
    BY <1>1, <1>2, <1>3, <2>1
  <2>3. Append(hist, n) \in Histories
    BY <2>1, <2>2, ShortSequence
  <2>4. QED
    BY <1>1, <1>3, <2>1, <2>3 DEF Remembered
<1>4. CASE ~(Len(hist) < KLong)
  <2>1. Len(hist) > 0
    BY <1>1, <1>2, <1>4
  <2>2. hist # <<>>
    BY <2>1, EmptySeq
  <2>3. Tail(hist) \in Seq(Proposals) /\ Len(Tail(hist)) = Len(hist) - 1
    BY <1>1, <2>2, HeadTailProperties
  <2>4. /\ Append(Tail(hist), n) \in Seq(Proposals)
        /\ Len(Append(Tail(hist), n)) = Len(hist)
    BY <1>1, <2>3, AppendProperties
  <2>5. Append(Tail(hist), n) \in Histories
    BY <1>1, <2>4, ShortSequence
  <2>6. QED
    BY <1>1, <1>4, <2>4, <2>5 DEF Remembered
<1>5. QED
  BY <1>3, <1>4

\* Nothing is remembered after a slip.
LEMMA NoHistory == <<>> \in Histories /\ Len(<<>>) = 0
<1>1. <<>> \in Seq(Proposals) /\ Len(<<>>) = 0
  BY EmptySeq
<1>2. Len(<<>>) <= KLong
  BY <1>1, Thresholds
<1>3. QED
  BY <1>1, <1>2, ShortSequence

TierTypes ==
    /\ hist \in Histories /\ anchored \in BOOLEAN
    /\ admits \in 0 .. KLong /\ promoted \in BOOLEAN

LEMMA NoteSlipForgets ==
    ASSUME NoteSlip
    PROVE  TierTypes' /\ Remembers'
<1>1. hist' = <<>> /\ anchored' = FALSE /\ admits' = 0 /\ promoted' = FALSE
  BY DEF NoteSlip, ForgetHistory
<1>2. hist' \in Histories /\ Len(hist') = 0
  BY <1>1, NoHistory
<1>3. TierTypes'
  <2>1. admits' \in 0 .. KLong
    BY <1>1, Thresholds
  <2>2. anchored' \in BOOLEAN /\ promoted' \in BOOLEAN
    BY <1>1
  <2>3. QED
    BY <1>2, <2>1, <2>2 DEF TierTypes
<1>4. Remembers'
  BY <1>1, <1>2 DEF Remembers
<1>5. QED
  BY <1>3, <1>4

LEMMA TiersStep ==
    ASSUME IInv, [Next]_vars
    PROVE  TierTypes' /\ Remembers'
<1> USE DEF IInv
<1>1. ASSUME UNCHANGED tierVars
      PROVE  TierTypes' /\ Remembers'
  BY <1>1 DEF tierVars, TierTypes, Remembers, TypeOK
<1>2. CASE Slips
  BY <1>1, <1>2, NoteSlipForgets DEF Slips, Flush
<1>3. CASE GfStep
  BY <1>1, <1>3, NoteSlipForgets DEF GfStep, GfTrip, GfQuiet
<1>4. CASE IfStep
  BY <1>1, <1>4, NoteSlipForgets DEF IfStep, IfTrip, IfQuiet
<1>5. CASE NarrowLane
  <2>1. UNCHANGED <<anchored, promoted>>
    BY <1>5 DEF NarrowLane
  <2>2. ASSUME NEW n \in Proposals, Commit(n)
        PROVE  TierTypes' /\ Remembers'
    <3>1. hist' = Remembered(n) /\ admits' = UpTo(KLong, admits + 1)
      BY <2>2 DEF Commit
    <3>2. hist \in Histories /\ admits \in 0 .. KLong
      BY DEF TypeOK
    <3>3. hist' \in Histories /\ Len(hist') <= Len(hist) + 1
      BY <3>1, <3>2, RememberedIsShort
    <3>4. Len(hist) \in Nat /\ Len(hist') \in Nat /\ Len(hist') <= KLong
      BY <3>2, <3>3, HistoryIsSequence
    <3>5. admits' \in 0 .. KLong /\ Len(hist') <= admits'
      BY <3>1, <3>2, <3>3, <3>4, Thresholds DEF UpTo, Remembers
    <3>6. QED
      BY <2>1, <3>3, <3>5 DEF TierTypes, Remembers, TypeOK
  <2>3. QED
    BY <1>1, <1>5, <2>1, <2>2 DEF NarrowLane, tierVars
<1>6. CASE Housekeeping
  <2>1. CASE Promoted
    BY <2>1 DEF Promoted, TierTypes, Remembers, TypeOK
  <2>2. CASE Forgotten \/ Kept
    BY <1>1, <2>2 DEF Forgotten, Kept
  <2>3. QED
    BY <1>6, <2>1, <2>2 DEF Housekeeping
<1>7. CASE TooFewSvs \/ WideLane \/ Ingest \/ SettingDrop \/ Trip \/ Nav2
  BY <1>1, <1>7 DEF TooFewSvs, WideLane, Ingest, SettingDrop, Trip, Nav2
<1>8. CASE UNCHANGED vars
  BY <1>1, <1>8 DEF vars
<1>9. QED
  BY <1>2, <1>3, <1>4, <1>5, <1>6, <1>7, <1>8 DEF Next

-----------------------------------------------------------------------------
(* Types *)

RecordTypes ==
    /\ st \in Tracker!SvStates /\ squelch \in Nat
    /\ mwN \in 0 .. MwMinEpochs /\ mwFixed \in BOOLEAN

LEMMA RecordTypesStep ==
    ASSUME IInv, [Next]_vars
    PROVE  RecordTypes'
<1> USE DEF IInv
<1>1. mwN \in 0 .. MwMinEpochs /\ mwFixed \in BOOLEAN /\ 0 \in 0 .. MwMinEpochs
  BY Thresholds DEF TypeOK
<1>2. CASE \/ Slips \/ TooFewSvs \/ GfStep \/ Ingest \/ IfStep \/ SettingDrop
           \/ Trip \/ Nav2
  BY <1>1, <1>2, StagesFall DEF Falls, RecordTypes, ResetMw, mwVars
<1>3. CASE WideLane
  BY <1>3, WideLaneMovesSo DEF WideLaneMoves, RecordTypes
<1>4. CASE NarrowLane
  <2>1. st' \in Tracker!SvStates /\ squelch' \in Nat
    BY <1>4, NarrowLaneMovesSo DEF NarrowLaneMoves, TypeOK, Tracker!SvStates
  <2>2. QED
    BY <1>1, <1>4, <2>1 DEF NarrowLane, RecordTypes, mwVars
<1>5. CASE Housekeeping
  BY <1>1, <1>5, HousekeepingMovesSo DEF HousekeepingMoves, Housekeeping, RecordTypes, mwVars
<1>6. CASE UNCHANGED vars
  BY <1>6 DEF vars, RecordTypes, TypeOK, trackerVars, mwVars
<1>7. QED
  BY <1>2, <1>3, <1>4, <1>5, <1>6 DEF Next

FlowTypes ==
    /\ pc \in Stages
    /\ seen \in BOOLEAN /\ fed \in BOOLEAN /\ tick \in 0 .. EvalEvery - 1
    /\ fixed \in BOOLEAN /\ black \in 0 .. IfCooldown

LEMMA FlowTypesStep ==
    ASSUME IInv, [Next]_vars
    PROVE  FlowTypes'
<1> USE DEF IInv
<1>1. FlowTypes /\ mwFixed \in BOOLEAN /\ IfCooldown \in Nat
  BY Thresholds DEF TypeOK, FlowTypes
<1>2. pc' \in Stages
  BY <1>1 DEF Next, Slips, TooFewSvs, WideLane, GfStep, NarrowLane, Ingest, IfStep,
              SettingDrop, Trip, Housekeeping, Nav2, vars, FlowTypes, Stages
<1>3. seen' \in BOOLEAN /\ fed' \in BOOLEAN
  BY <1>1 DEF Next, Slips, TooFewSvs, WideLane, GfStep, NarrowLane, Ingest, IfStep,
              SettingDrop, Trip, Housekeeping, Nav2, vars, FlowTypes, epochVars
<1>4. tick' \in 0 .. EvalEvery - 1
  <2>1. CASE WideLane
    <3>1. tick' = IF tick + 1 = EvalEvery THEN 0 ELSE tick + 1
      BY <1>1, <2>1, NextTick DEF WideLane, FlowTypes
    <3>2. QED
      BY <1>1, <3>1, Thresholds DEF FlowTypes
  <2>2. CASE ~WideLane
    BY <1>1, <2>2 DEF Next, Slips, TooFewSvs, GfStep, NarrowLane, Ingest, IfStep,
              SettingDrop, Trip, Housekeeping, Nav2, vars, FlowTypes, epochVars
  <2>3. QED
    BY <2>1, <2>2
<1>5. fixed' \in BOOLEAN
  BY <1>1 DEF Next, Slips, Flush, TooFewSvs, WideLane, GfStep, NarrowLane, Commit, Ingest,
              IfStep, IfTrip, IfQuiet, SettingDrop, Drop, Trip, FlushTrip, RevertTrip,
              Housekeeping, Nav2, Unfix, vars, FlowTypes, nlVars
<1>6. black' \in 0 .. IfCooldown
  <2>1. CASE NarrowLane
    BY <1>1, <2>1 DEF NarrowLane, Dec, FlowTypes
  <2>2. CASE IfStep
    BY <1>1, <2>2 DEF IfStep, IfTrip, IfQuiet, FlowTypes, nlVars
  <2>3. CASE ~NarrowLane /\ ~IfStep
    BY <1>1, <2>3 DEF Next, Slips, TooFewSvs, WideLane, GfStep, Ingest, SettingDrop, Trip,
              Housekeeping, Nav2, vars, FlowTypes, nlVars
  <2>4. QED
    BY <2>1, <2>2, <2>3
<1>7. QED
  BY <1>2, <1>3, <1>4, <1>5, <1>6 DEF FlowTypes

FixTypes ==
    /\ prevWl \in BOOLEAN /\ prevNl \in BOOLEAN /\ clean \in 0 .. CleanWindow
    /\ wlAge \in 0 .. Consecutive /\ age \in 0 .. MostAge /\ path \in 0 .. Travel

\* A count capped at its limit.
LEMMA UpToIsCapped ==
    ASSUME NEW limit \in Nat, NEW n \in Nat
    PROVE  UpTo(limit, n) \in 0 .. limit
BY DEF UpTo

LEMMA FixTypesStep ==
    ASSUME IInv, [Next]_vars
    PROVE  FixTypes'
<1> USE DEF IInv
<1>1. FixTypes /\ mwFixed \in BOOLEAN
  BY DEF TypeOK, FixTypes
<1>2. /\ \A n \in 0 .. Consecutive : UpTo(Consecutive, n + 1) \in 0 .. Consecutive
      /\ \A n \in 0 .. MostAge : UpTo(MostAge, n + 1) \in 0 .. MostAge
      /\ \A n \in 0 .. Travel : UpTo(Travel, n + 0) \in 0 .. Travel
                                /\ UpTo(Travel, n + 1) \in 0 .. Travel
      /\ \A n \in 0 .. CleanWindow : UpTo(CleanWindow, n + 1) \in 0 .. CleanWindow
      /\ 0 \in 0 .. Consecutive /\ 0 \in 0 .. MostAge /\ 0 \in 0 .. Travel
      /\ 0 \in 0 .. CleanWindow
  BY Thresholds DEF UpTo
<1>3. CASE Slips
  <2>1. path' \in 0 .. Travel
    BY <1>1, <1>2, <1>3 DEF Slips, FixTypes
  <2>2. QED
    BY <1>1, <1>3, <2>1 DEF Slips, FixTypes, gfVars, ifVars
<1>4. CASE WideLane
  BY <1>1, <1>2, <1>4 DEF WideLane, FixTypes, ifVars
<1>5. CASE GfStep
  BY <1>1, <1>2, <1>5 DEF GfStep, GfTrip, GfQuiet, FixTypes, ifVars, promoterVars
<1>6. CASE NarrowLane
  <2>1. age' \in 0 .. MostAge /\ path' \in 0 .. Travel
    BY <1>1, <1>2, <1>6, NarrowLaneMovesSo DEF NarrowLaneMoves, FixTypes
  <2>2. QED
    BY <1>1, <1>6, <2>1 DEF NarrowLane, FixTypes, gfVars, ifVars, promoterVars
<1>7. CASE Ingest
  BY <1>1, <1>2, <1>7 DEF Ingest, FixTypes, gfVars, ifVars
<1>8. CASE IfStep
  <2>1. prevNl' \in BOOLEAN
    BY <1>8 DEF IfStep, InFixSet
  <2>2. QED
    BY <1>1, <1>2, <1>8, <2>1
       DEF IfStep, IfTrip, IfQuiet, FixTypes, gfVars, fixVars, promoterVars
<1>9. CASE TooFewSvs \/ SettingDrop \/ Trip \/ Housekeeping \/ Nav2
  BY <1>1, <1>9 DEF TooFewSvs, SettingDrop, Trip, Housekeeping, Nav2, FixTypes,
                    gfVars, ifVars, fixVars, promoterVars
<1>10. CASE UNCHANGED vars
  BY <1>1, <1>10 DEF vars, FixTypes, gfVars, ifVars, fixVars, promoterVars
<1>11. QED
  BY <1>3, <1>4, <1>5, <1>6, <1>7, <1>8, <1>9, <1>10 DEF Next

EvidenceTypes ==
    /\ gf \in 0 .. Consecutive \union {None}
    /\ ifs \in 0 .. Consecutive \union {None}
    /\ window \in 1 .. MinSamples \union {None}
    /\ cand \in Candidates \union {None}

\* A streak that does not trip.
LEMMA QuietStreak ==
    ASSUME NEW n \in 0 .. Consecutive, NEW enough, NEW over,
           ~(Streak(n, enough, over) >= Consecutive)
    PROVE  Streak(n, enough, over) \in 0 .. Consecutive
BY Thresholds DEF Streak

LEMMA IngestedIsCandidate ==
    ASSUME cand \in Candidates \union {None},
           NEW d \in 0 .. (IF cand = None THEN 0 ELSE cand.lag)
    PROVE  Ingested(d) \in Candidates
<1>1. CASE cand = None
  BY <1>1, Thresholds DEF Ingested, NewCandidate, Candidates
<1>2. CASE cand # None
  <2>1. cand \in Candidates
    BY <1>2
  <2>2. cand.acc \in 0 .. Travel /\ cand.lag \in 0 .. Travel /\ d \in 0 .. cand.lag
    BY <1>2, <2>1 DEF Candidates
  <2>3. cand.acc + d \in Nat /\ 0 \in 0 .. Travel
    BY <2>2, Thresholds
  <2>4. UpTo(Travel, cand.acc + d) \in 0 .. Travel
    BY <2>3, Thresholds, UpToIsCapped
  <2>5. QED
    BY <1>2, <2>1, <2>3, <2>4 DEF Ingested, Candidates
<1>3. QED
  BY <1>1, <1>2

LEMMA EvidenceTypesStep ==
    ASSUME IInv, [Next]_vars
    PROVE  EvidenceTypes'
<1> USE DEF IInv
<1>1. EvidenceTypes
  BY DEF TypeOK, EvidenceTypes
<1>2. CASE Slips
  <2>1. PICK step \in {0, 1} :
           cand' = IF cand = None THEN None
                   ELSE [cand EXCEPT !.lag = UpTo(Travel, @ + step)]
    BY <1>2 DEF Slips
  <2>2. ASSUME cand # None
        PROVE  cand' \in Candidates
    <3>1. cand \in Candidates
      BY <1>1, <2>2 DEF EvidenceTypes
    <3>2. cand.lag + step \in Nat
      BY <2>1, <3>1 DEF Candidates
    <3>3. UpTo(Travel, cand.lag + step) \in 0 .. Travel
      BY <3>2, Thresholds, UpToIsCapped
    <3>4. QED
      BY <2>1, <2>2, <3>1, <3>3 DEF Candidates
  <2>3. QED
    BY <1>1, <1>2, <2>1, <2>2 DEF Slips, EvidenceTypes, gfVars, ifVars
<1>3. CASE WideLane
  <2>1. gf' \in 0 .. Consecutive \union {None}
    BY <1>1, <1>3, Thresholds DEF WideLane, EvidenceTypes, TypeOK
  <2>2. QED
    BY <1>1, <1>3, <2>1 DEF WideLane, EvidenceTypes, ifVars
<1>4. CASE GfStep
  <2>1. gf' \in 0 .. Consecutive \union {None}
    BY <1>1, <1>4, QuietStreak DEF GfStep, GfTrip, GfQuiet, EvidenceTypes
  <2>2. QED
    BY <1>1, <1>4, <2>1 DEF GfStep, EvidenceTypes, ifVars, promoterVars
<1>5. CASE Ingest
  <2>1. window' \in 1 .. MinSamples \union {None}
    BY <1>1, <1>5, Thresholds DEF Ingest, EvidenceTypes, UpTo
  <2>2. cand' \in Candidates \union {None}
    BY <1>1, <1>5, IngestedIsCandidate DEF Ingest, EvidenceTypes
  <2>3. QED
    BY <1>1, <1>5, <2>1, <2>2 DEF Ingest, EvidenceTypes, gfVars, ifVars
<1>6. CASE IfStep
  <2>1. IfTracked \in 0 .. Consecutive \union {None}
    BY <1>1, Thresholds DEF IfTracked, EvidenceTypes, TypeOK
  <2>2. ifs' \in 0 .. Consecutive \union {None}
    BY <1>6, <2>1, QuietStreak DEF IfStep, IfTrip, IfQuiet
  <2>3. cand' \in Candidates \union {None}
    BY <1>1, <1>6 DEF IfStep, IfTrip, IfQuiet, EvidenceTypes, promoterVars
  <2>4. QED
    BY <1>1, <1>6, <2>2, <2>3 DEF IfStep, EvidenceTypes, gfVars
<1>7. CASE SettingDrop
  BY <1>1, <1>7 DEF SettingDrop, Drop, WindowOfLeaver, EvidenceTypes, gfVars, ifVars,
                    promoterVars
<1>8. CASE Housekeeping
  BY <1>1, <1>8 DEF Housekeeping, Forgotten, Promoted, Kept, CandidateOfLeaver,
                    EvidenceTypes, gfVars, ifVars
<1>9. CASE TooFewSvs \/ NarrowLane \/ Trip \/ Nav2
  BY <1>1, <1>9 DEF TooFewSvs, NarrowLane, Trip, Nav2, EvidenceTypes, gfVars, ifVars,
                    promoterVars
<1>10. CASE UNCHANGED vars
  BY <1>1, <1>10 DEF vars, EvidenceTypes, gfVars, ifVars, promoterVars
<1>11. QED
  BY <1>2, <1>3, <1>4, <1>5, <1>6, <1>7, <1>8, <1>9, <1>10 DEF Next

-----------------------------------------------------------------------------

\* The invariant holds for a cold start and for a fix of the bootstrap.
LEMMA InitIInv == Init => IInv
<1> SUFFICES ASSUME Init PROVE IInv
  OBVIOUS
<1>0. mwFixed \in BOOLEAN /\ fixed \in {FALSE, mwFixed}
  BY DEF Init
<1>1. /\ pc = "slips" /\ seen = FALSE /\ fed = FALSE /\ tick = 0
      /\ mwFixed \in BOOLEAN /\ fixed \in BOOLEAN /\ (fixed => mwFixed)
      /\ mwN = IF mwFixed THEN MwMinEpochs ELSE 0
      /\ st = IF fixed THEN "ANCHORING" ELSE IF mwFixed THEN "CONVERGING" ELSE "TRACKING"
  <2>1. fixed \in BOOLEAN /\ (fixed => mwFixed)
    <3>1. CASE fixed = FALSE
      BY <3>1
    <3>2. CASE fixed = mwFixed
      BY <1>0, <3>2
    <3>3. QED
      BY <1>0, <3>1, <3>2
  <2>2. QED
    BY <1>0, <2>1 DEF Init
<1>2. hist \in Histories /\ Len(hist) \in 0 .. KLong /\ admits = Len(hist)
  <2>1. CASE hist = <<>>
    <3>1. Len(hist) = 0 /\ hist \in Histories
      BY <2>1, NoHistory
    <3>2. QED
      BY <3>1, Thresholds DEF Init
  <2>2. ASSUME NEW n \in Proposals, hist = <<n>>
        PROVE  hist \in Histories /\ Len(hist) \in 0 .. KLong
    <3>1. hist \in Seq(Proposals) /\ Len(hist) = 1
      BY <2>2
    <3>2. QED
      <4>1. Len(hist) <= KLong /\ Len(hist) \in 0 .. KLong
        BY <3>1, Thresholds
      <4>2. QED
        BY <3>1, <4>1, ShortSequence
  <2>3. hist = <<>> \/ \E n \in Proposals : hist = <<n>>
    BY DEF Init
  <2>4. QED
    BY <2>1, <2>2, <2>3 DEF Init
<1>3. TypeOK
  <2>1. RecordTypes
    <3>1. mwN \in 0 .. MwMinEpochs
      BY <1>1, Thresholds
    <3>2. st \in Tracker!SvStates
      BY <1>1 DEF Tracker!SvStates
    <3>3. QED
      BY <1>1, <3>1, <3>2 DEF Init, RecordTypes
  <2>2. FlowTypes
    <3>1. black \in 0 .. IfCooldown /\ tick \in 0 .. EvalEvery - 1
      BY Thresholds DEF Init
    <3>2. QED
      BY <1>1, <3>1 DEF FlowTypes, Stages
  <2>3. FixTypes
    <3>1. /\ clean \in 0 .. CleanWindow /\ wlAge \in 0 .. Consecutive
          /\ age \in 0 .. MostAge /\ path \in 0 .. Travel
      BY Thresholds DEF Init
    <3>2. prevWl \in BOOLEAN /\ prevNl \in BOOLEAN
      BY DEF Init
    <3>3. QED
      BY <3>1, <3>2 DEF FixTypes
  <2>4. EvidenceTypes
    BY DEF Init, EvidenceTypes
  <2>5. TierTypes
    BY <1>2 DEF Init, TierTypes
  <2>6. QED
    BY <2>1, <2>2, <2>3, <2>4, <2>5
       DEF TypeOK, RecordTypes, FlowTypes, FixTypes, EvidenceTypes, TierTypes
<1>4. Founded
  BY <1>1 DEF Founded, InFixSet, Tracker!FixStates
<1>5. GfOfThisLane /\ IfOfThisFix /\ WindowOfThisFix /\ CandidateOfThisFix
  BY DEF Init, GfOfThisLane, IfOfThisFix, WindowOfThisFix, CandidateOfThisFix
<1>6. Remembers
  BY <1>2 DEF Init, Remembers
<1>7. QED
  BY <1>3, <1>4, <1>5, <1>6 DEF IInv

LEMMA StepIInv == IInv /\ [Next]_vars => IInv'
<1> SUFFICES ASSUME IInv, [Next]_vars PROVE IInv'
  OBVIOUS
<1>1. TypeOK'
  BY RecordTypesStep, FlowTypesStep, FixTypesStep, EvidenceTypesStep, TiersStep
     DEF TypeOK, RecordTypes, FlowTypes, FixTypes, EvidenceTypes, TierTypes
<1>2. QED
  BY <1>1, FoundedStep, GfOfThisLaneStep, IfOfThisFixStep, WindowOfThisFixStep,
     CandidateOfThisFixStep, TiersStep DEF IInv

LEMMA Invariance == Spec => []IInv
<1>1. QED
  BY InitIInv, StepIInv, PTL DEF Spec

\* Every count of every monitor keeps its type and its limit.
THEOREM TypeCorrect == Spec => []TypeOK
<1>1. IInv => TypeOK
  BY DEF IInv
<1>2. QED
  BY <1>1, Invariance, PTL

\* No streak, window or azimuth total is longer than the wide lane or the fix
\* it judges: the monitors that do not hear of a demotion notice it before
\* the satellite is fixed again.
THEOREM EvidenceFresh == Spec => []EvidenceIsOfThisFix
<1>1. IInv => EvidenceIsOfThisFix
  BY DEF IInv, EvidenceIsOfThisFix, GfOfThisLane, IfOfThisFix, WindowOfThisFix,
         CandidateOfThisFix
<1>2. QED
  BY <1>1, Invariance, PTL

\* An eased admission bar was earned by admissions since the last slip.
THEOREM EasedEarned == Spec => []EasedIsEarned
<1>1. ASSUME IInv, NEW n \in Proposals
      PROVE  /\ TierForProposed(n) # "NEW" => admits >= 2 \/ (admits >= 1 /\ promoted)
             /\ TierForProposed(n) = "TRUSTED" => admits = KLong
  <2>1. hist \in Histories /\ admits \in 0 .. KLong /\ Len(hist) <= admits
        /\ (anchored => promoted)
    BY <1>1 DEF IInv, TypeOK, Remembers
  <2>2. hist \in Seq(Proposals) /\ Len(hist) \in Nat /\ Len(hist) <= KLong
    BY <2>1, HistoryIsSequence
  <2>3. TierForProposed(n) = "TRUSTED" => TierFor = "TRUSTED"
    BY DEF TierForProposed
  <2>4. TierForProposed(n) = "PROVISIONAL" => TierFor = "PROVISIONAL" /\ hist # <<>>
    BY DEF TierForProposed
  <2>5. TierForProposed(n) \in {"TRUSTED", "PROVISIONAL", "NEW"}
    BY DEF TierForProposed
  <2>6. TierFor = "TRUSTED" => Len(hist) >= KLong
    BY DEF TierFor
  <2>7. TierFor = "PROVISIONAL" => Len(hist) >= 2 \/ anchored
    BY DEF TierFor
  <2>8. hist # <<>> => Len(hist) >= 1
    BY <2>2, EmptySeq
  <2>9. CASE TierForProposed(n) = "TRUSTED"
    <3>1. admits = KLong /\ admits >= 2
      BY <2>1, <2>2, <2>3, <2>6, <2>9, Thresholds
    <3>2. QED
      BY <3>1
  <2>10. CASE TierForProposed(n) = "PROVISIONAL"
    <3>1. admits >= 2 \/ (admits >= 1 /\ promoted)
      BY <2>1, <2>2, <2>4, <2>7, <2>8, <2>10, Thresholds
    <3>2. QED
      BY <2>10, <3>1
  <2>11. QED
    BY <2>5, <2>9, <2>10
<1>2. IInv => EasedIsEarned
  BY <1>1 DEF EasedIsEarned
<1>3. QED
  BY <1>2, Invariance, PTL
=============================================================================
