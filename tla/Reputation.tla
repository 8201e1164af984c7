----------------------------- MODULE Reputation -----------------------------
(***************************************************************************)
(* What one satellite's integer is judged by: the evidence that the        *)
(* monitors of the AntPosEst thread collect over many epochs.  The GF and  *)
(* IF step monitors count epochs over their threshold, the setting-SV drop *)
(* averages residuals, the promoter adds up azimuth, and the narrow-lane   *)
(* admission tiers remember integers.  AntPosEst leaves their verdicts     *)
(* open; here the counts behind them are kept, for the same stages of an   *)
(* epoch.                                                                  *)
(*                                                                         *)
(* The other satellites appear as the cohort: large enough to judge by, or *)
(* not.  Residuals are over their threshold or not, by choice; azimuth     *)
(* moves in steps.                                                         *)
(***************************************************************************)
EXTENDS Integers, Sequences, FiniteSetsExt

CONSTANTS
    Proposals,     \* narrow-lane integers that may be proposed
    KLong,         \* NlAdmissionTier.k_long, 4
    MwMinEpochs,   \* MelbourneWubbenaTracker.min_epochs, 60
    Consecutive,   \* epochs over the threshold before a step monitor trips, 2
    MinSamples,    \* residuals the setting drop averages at least, 10
    Travel,        \* azimuth for a promotion, in steps
    CleanWindow,   \* clean_window_epochs, 180
    EvalEvery,     \* cadence of setting drop, promoter and integrity, 10
    SlipCooldown,  \* squelch after a slip, 60
    IfCooldown,    \* squelch and blacklist after an IF step, 120
    None           \* no entry

ASSUME ConstantsAssumption ==
    /\ Proposals \subseteq Int
    /\ {KLong, MwMinEpochs, Consecutive, MinSamples, Travel, CleanWindow,
        EvalEvery, SlipCooldown, IfCooldown} \subseteq Nat \ {0}
    /\ KLong > 1 /\ Consecutive > 1
    /\ MwMinEpochs > EvalEvery

VARIABLES
    pc,         \* the stage the thread is about to run
    seen,       \* observed in this epoch
    fed,        \* MW was given the observation of this epoch
    st,         \* tracker state
    squelch,    \* epochs left of a WAITING record
    mwN,        \* Melbourne-Wubbena samples
    mwFixed,    \* the wide-lane integer is fixed
    fixed,      \* the resolver holds a narrow-lane integer
    black,      \* epochs left on its blacklist
    hist,       \* NlAdmissionTier._int_history
    anchored,   \* NlAdmissionTier._past_anchored
    gf,         \* GF step monitor: streak, or None when it does not track
    prevWl,     \* _wl_drift_prev_fixed
    ifs,        \* IF step monitor: streak, or None
    prevNl,     \* _if_step_prev_nl_fixed
    window,     \* setting drop: residuals in the window, or None
    cand,       \* promoter's candidate, or None
    clean,      \* epochs since the last rejection the promoter was told of
    tick,       \* epoch number modulo EvalEvery
    wlAge,      \* history: epochs fed since the wide lane was fixed
    age,        \* history: epochs observed since the fix was made
    path,       \* history: azimuth passed since the fix was made
    admits,     \* history: admissions since the last slip that was detected
    promoted    \* history: promoted since that slip

epochVars    == <<seen, fed, tick>>
trackerVars  == <<st, squelch>>
mwVars       == <<mwN, mwFixed>>
nlVars       == <<fixed, black>>
tierVars     == <<hist, anchored, admits, promoted>>
gfVars       == <<gf, prevWl>>
ifVars       == <<ifs, prevNl>>
promoterVars == <<cand, clean>>
fixVars      == <<wlAge, age, path>>
vars == <<pc, epochVars, trackerVars, mwVars, nlVars, tierVars, gfVars, ifVars,
          window, promoterVars, fixVars>>

Tracker == INSTANCE SvState WITH SV <- {None}

Stages == {"slips", "wide", "gfstep", "narrow", "ingest", "ifstep", "drop",
           "trip", "house", "nav2"}

\* first: first_fix_az_deg is set; lag: azimuth passed since latest_az_deg;
\* acc: accumulated_dphi.
Candidates == [first : BOOLEAN, lag : 0 .. Travel, acc : 0 .. Travel]
NewCandidate == [first |-> FALSE, lag |-> 0, acc |-> 0]

ASSUME NoneAssumption == None \notin Nat \union Candidates

Histories == UNION {[1 .. n -> Proposals] : n \in 0 .. KLong}
MostAge == IF Consecutive > MinSamples THEN Consecutive ELSE MinSamples

TypeOK ==
    /\ pc \in Stages
    /\ seen \in BOOLEAN /\ fed \in BOOLEAN /\ tick \in 0 .. EvalEvery - 1
    /\ st \in Tracker!SvStates /\ squelch \in Nat
    /\ mwN \in 0 .. MwMinEpochs /\ mwFixed \in BOOLEAN
    /\ fixed \in BOOLEAN /\ black \in 0 .. IfCooldown
    /\ hist \in Histories /\ anchored \in BOOLEAN
    /\ gf \in 0 .. Consecutive \union {None} /\ prevWl \in BOOLEAN
    /\ ifs \in 0 .. Consecutive \union {None} /\ prevNl \in BOOLEAN
    /\ window \in 1 .. MinSamples \union {None}
    /\ cand \in Candidates \union {None} /\ clean \in 0 .. CleanWindow
    /\ wlAge \in 0 .. Consecutive /\ age \in 0 .. MostAge /\ path \in 0 .. Travel
    /\ admits \in 0 .. KLong /\ promoted \in BOOLEAN

Dec(n) == IF n = 0 THEN 0 ELSE n - 1
UpTo(limit, n) == IF n > limit THEN limit ELSE n

\* A cold start, or the integers of the bootstrap filter, whose resolver
\* remembers the admission; every monitor starts empty.
Init ==
    /\ pc = "slips" /\ seen = FALSE /\ fed = FALSE /\ tick = 0
    /\ mwFixed \in BOOLEAN /\ fixed \in {FALSE, mwFixed}
    /\ mwN = IF mwFixed THEN MwMinEpochs ELSE 0
    /\ st = IF fixed THEN "ANCHORING" ELSE IF mwFixed THEN "CONVERGING" ELSE "TRACKING"
    /\ squelch = 0 /\ black = 0
    /\ hist \in IF fixed THEN {<<n>> : n \in Proposals} ELSE {<<>>}
    /\ admits = Len(hist) /\ anchored = FALSE /\ promoted = FALSE
    /\ gf = None /\ prevWl = FALSE /\ ifs = None /\ prevNl = FALSE
    /\ window = None /\ cand = None /\ clean = CleanWindow
    /\ wlAge = 0 /\ age = 0 /\ path = 0

-----------------------------------------------------------------------------
(* Moves shared by the stages *)

Edge(to) == <<st, to>> \in Tracker!LegalEdges

\* transition with its bookkeeping of the squelch.
Move(to, cooldown) ==
    /\ st' = IF Edge(to) THEN to ELSE st
    /\ squelch' = IF ~Edge(to) THEN squelch ELSE IF to = "WAITING" THEN cooldown ELSE 0

InFixSet == st \in Tracker!FixStates
ResetMw == mwN' = 0 /\ mwFixed' = FALSE

\* forget_history; the variant keeps the flag.
ForgetKeepsAnchored == hist' = <<>> /\ anchored' = anchored
ForgetHistory == hist' = <<>> /\ anchored' = FALSE

\* A slip was detected.
NoteSlip == ForgetHistory /\ admits' = 0 /\ promoted' = FALSE

\* NarrowLaneResolver.unfix.
Unfix ==
    /\ fixed' = FALSE
    /\ IF InFixSet THEN Move("FLOATING", 0) ELSE UNCHANGED trackerVars

\* One epoch of a step monitor that tracks the satellite: a cohort too small
\* to judge by clears the streak, as an epoch below the threshold does.
Streak(streak, enough, over) == IF enough /\ over THEN streak + 1 ELSE 0

-----------------------------------------------------------------------------
(* Slips: the satellite is observed or not, has moved in azimuth or not,   *)
(* and a detector may fire on it.                                          *)

\* flush_sv_phase.
Flush(confidence) ==
    /\ Move(IF confidence = "HIGH" THEN "WAITING" ELSE "FLOATING", SlipCooldown)
    /\ ResetMw
    /\ fixed' = FALSE
    /\ NoteSlip

Slips ==
    /\ pc = "slips"
    /\ seen' \in BOOLEAN
    /\ \E step \in {0, 1} :
         /\ path' = IF InFixSet THEN UpTo(Travel, path + step) ELSE 0
         /\ cand' = IF cand = None THEN None
                    ELSE [cand EXCEPT !.lag = UpTo(Travel, @ + step)]
    /\ \/ seen' /\ \E confidence \in {"HIGH", "LOW"} : Flush(confidence)
       \/ UNCHANGED <<trackerVars, mwVars, fixed, tierVars>>
    /\ fed' = FALSE
    /\ pc' = "wide"
    /\ UNCHANGED <<tick, black, gfVars, ifVars, window, clean, wlAge, age>>

\* Fewer than four satellites: the epoch is not counted.
TooFewSvs ==
    /\ pc = "wide"
    /\ pc' = "slips"
    /\ UNCHANGED <<epochVars, trackerVars, mwVars, nlVars, tierVars, gfVars,
                   ifVars, window, promoterVars, fixVars>>

-----------------------------------------------------------------------------
(* Wide lane: the epoch counts.  A satellite with a full observation that  *)
(* the re-admission gate lets through feeds MW, which may fix it; the      *)
(* phase-residual gate may revert a new fix.  What is fixed is compared    *)
(* with what was, and the GF step monitor told.                            *)

Admitted == IF fed' /\ st = "TRACKING" THEN "FLOATING" ELSE st

WideLane ==
    /\ pc = "wide"
    /\ fed' \in {FALSE, seen}
    /\ tick' = (tick + 1) % EvalEvery
    /\ clean' = UpTo(CleanWindow, clean + 1)
    /\ mwN' = IF fed' THEN UpTo(MwMinEpochs, mwN + 1) ELSE mwN
    /\ \E fix, revert \in BOOLEAN :
         /\ fix => fed' /\ ~mwFixed /\ mwN > 0 /\ mwN + 1 >= MwMinEpochs
         /\ revert => fix
         /\ mwFixed' = (mwFixed \/ (fix /\ ~revert))
         /\ st' = IF fix /\ <<Admitted, "CONVERGING">> \in Tracker!LegalEdges
                  THEN "CONVERGING" ELSE Admitted
    /\ squelch' = Dec(squelch)
    /\ gf' = CASE mwFixed' /\ ~prevWl -> IF fed' THEN 0 ELSE None
               [] prevWl /\ ~mwFixed' -> None
               [] OTHER               -> gf
    /\ wlAge' = IF mwFixed' /\ mwFixed THEN wlAge ELSE 0
    /\ pc' = "gfstep"
    /\ UNCHANGED <<seen, nlVars, tierVars, prevWl, ifVars, window, cand, age, path>>

\* GF step: a streak of Consecutive epochs resets the wide lane, demotes the
\* record and tells the resolver of a slip, which keeps the integer.
GfTrip ==
    /\ gf' = None
    /\ prevWl' = FALSE
    /\ ResetMw
    /\ NoteSlip
    /\ IF st \in {"CONVERGING"} \union Tracker!FixStates
       THEN Move("FLOATING", 0) ELSE UNCHANGED trackerVars

GfQuiet(streak) ==
    /\ gf' = streak
    /\ prevWl' = mwFixed
    /\ UNCHANGED <<trackerVars, mwVars, tierVars>>

GfStep ==
    /\ pc = "gfstep"
    /\ IF fed /\ gf # None
       THEN \E enough, over \in BOOLEAN :
              LET streak == Streak(gf, enough, over)
              IN  IF streak >= Consecutive THEN GfTrip ELSE GfQuiet(streak)
       ELSE GfQuiet(gf)
    /\ wlAge' = IF fed /\ mwFixed THEN UpTo(Consecutive, wlAge + 1) ELSE wlAge
    /\ pc' = "narrow"
    /\ UNCHANGED <<epochVars, nlVars, ifVars, window, promoterVars, age, path>>

-----------------------------------------------------------------------------
(* Narrow lane: an integer is proposed for a satellite whose wide lane is  *)
(* fixed, and admitted by LAMBDA if the statistics of the whole set clear  *)
(* the bar of its tier, by rounding unless it contradicts a trusted        *)
(* history.                                                                *)

Spread(S) == Max(S) - Min(S)
Integers == {hist[i] : i \in DOMAIN hist}

\* tier_for: the history alone, a past anchor counting for a missing one.
TierFor ==
    IF Len(hist) >= KLong /\ Spread(Integers) = 0 THEN "TRUSTED"
    ELSE IF Len(hist) >= 2 /\ Spread(Integers) <= 1 THEN "PROVISIONAL"
    ELSE IF anchored THEN "PROVISIONAL" ELSE "NEW"

\* tier_for_proposed: the tier whose bar the integer n has to clear.
TierForProposed(n) ==
    CASE TierFor = "TRUSTED" /\ n = hist[1] -> "TRUSTED"
      [] TierFor = "PROVISIONAL" /\ hist # <<>>
           /\ Spread(Integers \union {n}) <= 1 -> "PROVISIONAL"
      [] OTHER -> "NEW"

Bar(tier) == CASE tier = "TRUSTED" -> 1 [] tier = "PROVISIONAL" -> 2 [] tier = "NEW" -> 3

\* The bars the statistics of a LAMBDA candidate set clear: 0 .. 3 of them.
ByLambda(n, cleared) == cleared >= Bar(TierForProposed(n))
ByRounding(n) == ~(TierFor = "TRUSTED" /\ TierForProposed(n) = "NEW")

\* note_admit: a deque of KLong; the variant lost its maxlen.
RememberedAll(n) == Append(hist, n)
Remembered(n) ==
    IF Len(hist) < KLong THEN Append(hist, n) ELSE Append(Tail(hist), n)

Commit(n) ==
    /\ fixed' = TRUE
    /\ hist' = Remembered(n)
    /\ admits' = UpTo(KLong, admits + 1)
    /\ IF st = "CONVERGING"
       THEN Move("ANCHORING", 0) /\ age' = 0 /\ path' = 0
       ELSE UNCHANGED <<trackerVars, age, path>>

NarrowLane ==
    /\ pc = "narrow"
    /\ black' = Dec(black)
    /\ \/ /\ seen /\ mwFixed /\ ~fixed /\ black' = 0
          /\ \E n \in Proposals, cleared \in 0 .. 3 :
               /\ ByLambda(n, cleared) \/ ByRounding(n)
               /\ Commit(n)
       \/ UNCHANGED <<fixed, hist, admits, trackerVars, age, path>>
    /\ pc' = "ingest"
    /\ UNCHANGED <<epochVars, mwVars, anchored, promoted, gfVars, ifVars, window,
                   promoterVars, wlAge>>

-----------------------------------------------------------------------------
(* Ingest: the residuals of members of the fix set go to the setting drop, *)
(* the azimuth of an ANCHORING one to the promoter.  No fix records its    *)
(* azimuth, so the second reading is the first one counted from.           *)

Ingested(d) ==
    IF cand = None THEN NewCandidate
    ELSE IF ~cand.first THEN [cand EXCEPT !.first = TRUE, !.lag = 0]
    ELSE [cand EXCEPT !.acc = UpTo(Travel, @ + d), !.lag = 0]

Ingest ==
    /\ pc = "ingest"
    /\ IF seen /\ InFixSet
       THEN /\ window' = UpTo(MinSamples, (IF window = None THEN 0 ELSE window) + 1)
            /\ age' = UpTo(MostAge, age + 1)
       ELSE /\ UNCHANGED window
            /\ age' = IF InFixSet THEN age ELSE 0
    /\ IF seen /\ st = "ANCHORING"
       THEN \E d \in 0 .. (IF cand = None THEN 0 ELSE cand.lag) : cand' = Ingested(d)
       ELSE UNCHANGED cand
    /\ pc' = "ifstep"
    /\ UNCHANGED <<epochVars, trackerVars, mwVars, nlVars, tierVars, gfVars, ifVars,
                   clean, wlAge, path>>

\* IF step: a streak squelches and blacklists, and drops both integers, the
\* history and the candidate.
IfTrip ==
    /\ ifs' = None
    /\ Move("WAITING", IfCooldown)
    /\ fixed' = FALSE /\ black' = IfCooldown
    /\ ResetMw
    /\ NoteSlip
    /\ cand' = None /\ clean' = 0

IfQuiet(streak) ==
    /\ ifs' = streak
    /\ UNCHANGED <<trackerVars, nlVars, mwVars, tierVars, promoterVars>>

\* note_fix and note_unfix on what changed since the last epoch.
IfTracked ==
    CASE InFixSet /\ ~prevNl -> 0
      [] prevNl /\ ~InFixSet -> None
      [] OTHER               -> ifs

IfStep ==
    /\ pc = "ifstep"
    /\ IF seen /\ InFixSet /\ IfTracked # None
       THEN \E enough, over \in BOOLEAN :
              LET streak == Streak(IfTracked, enough, over)
              IN  IF streak >= Consecutive THEN IfTrip ELSE IfQuiet(streak)
       ELSE IfQuiet(IfTracked)
    /\ prevNl' = InFixSet
    /\ pc' = "drop"
    /\ UNCHANGED <<epochVars, gfVars, window, fixVars>>

-----------------------------------------------------------------------------
(* The setting drop and the integrity monitor, every EvalEvery epochs.     *)
(* The drop goes by the elevation at once and by the residuals once there  *)
(* are enough; it keeps the wide lane.                                     *)

\* evaluate flushes the window of a satellite that left the fix set.
WindowOfLeaver == None

\* Why a member of the fix set may be dropped.
DropReasons ==
    {"elev_mask"} \union (IF window >= MinSamples THEN {"elev_weighted_resid"} ELSE {})

Drop ==
    /\ \E reason \in DropReasons : window' = None
    /\ Move("FLOATING", 0)
    /\ fixed' = FALSE

SettingDrop ==
    /\ pc = "drop"
    /\ IF tick = 0 /\ window # None
       THEN \/ InFixSet /\ Drop
            \/ /\ window' = IF InFixSet THEN window ELSE WindowOfLeaver
               /\ UNCHANGED <<trackerVars, fixed>>
       ELSE UNCHANGED <<window, trackerVars, fixed>>
    /\ pc' = "trip"
    /\ UNCHANGED <<epochVars, mwVars, black, tierVars, gfVars, ifVars,
                   promoterVars, fixVars>>

\* An integrity trip drops the narrow lane, or both; trust survives it.
FlushTrip ==
    /\ ResetMw
    /\ fixed' = FALSE
    /\ IF mwN > 0 \/ (fixed /\ InFixSet)
       THEN Move("FLOATING", 0) ELSE UNCHANGED trackerVars

RevertTrip == Unfix /\ UNCHANGED mwVars

Trip ==
    /\ pc = "trip"
    /\ \/ tick = 0 /\ (FlushTrip \/ RevertTrip)
       \/ UNCHANGED <<trackerVars, mwVars, fixed>>
    /\ pc' = "house"
    /\ UNCHANGED <<epochVars, black, tierVars, gfVars, ifVars, window,
                   promoterVars, fixVars>>

-----------------------------------------------------------------------------
(* Housekeeping: an expired squelch ends, the record of a satellite that   *)
(* set may be forgotten (after 600 epochs; any unobserved epoch here) with *)
(* its window and candidate, and the promoter evaluates its candidates.    *)

Swept == IF st = "WAITING" /\ squelch = 0 THEN "FLOATING" ELSE st

\* evaluate drops the candidate of a satellite that is not ANCHORING; the
\* variant keeps it, as the docstring of ingest_az has it.
CandidateOfLeaverKept == cand
CandidateOfLeaver == None

Earned == cand.acc >= Travel /\ clean >= CleanWindow

Promoted ==
    /\ st' = "ANCHORED" /\ squelch' = 0
    /\ cand' = None
    /\ anchored' = TRUE /\ promoted' = TRUE
    /\ UNCHANGED <<hist, admits, window>>

Forgotten ==
    /\ ~seen
    /\ st' = "TRACKING" /\ squelch' = 0
    /\ cand' = None /\ window' = None
    /\ UNCHANGED tierVars

Kept ==
    /\ st' = Swept /\ squelch' = squelch
    /\ cand' = IF tick = 0 /\ cand # None /\ st # "ANCHORING"
               THEN CandidateOfLeaver ELSE cand
    /\ UNCHANGED <<tierVars, window>>

Housekeeping ==
    /\ pc = "house"
    /\ \/ Forgotten
       \/ IF tick = 0 /\ cand # None /\ st = "ANCHORING" /\ Earned
          THEN Promoted ELSE Kept
    /\ pc' = "nav2"
    /\ UNCHANGED <<epochVars, mwVars, nlVars, gfVars, ifVars, clean, fixVars>>

\* The NAV2 monitors may reset the position, which drops the narrow lane.
Nav2 ==
    /\ pc = "nav2"
    /\ Unfix \/ UNCHANGED <<trackerVars, fixed>>
    /\ pc' = "slips"
    /\ UNCHANGED <<epochVars, mwVars, black, tierVars, gfVars, ifVars, window,
                   promoterVars, fixVars>>

-----------------------------------------------------------------------------
Next ==
    \/ Slips \/ TooFewSvs \/ WideLane \/ GfStep \/ NarrowLane \/ Ingest \/ IfStep
    \/ SettingDrop \/ Trip \/ Housekeeping \/ Nav2

Spec == Init /\ [][Next]_vars

-----------------------------------------------------------------------------
(* Properties *)

\* Trust is earned since the last slip: an integer faces the bar of
\* PROVISIONAL only after two admissions, or one and a promotion, and that of
\* TRUSTED only after KLong, none of them from before a slip any detector
\* saw.  A lasting flag or history would let a satellite whose ambiguity has
\* moved re-enter through the gate its old integer earned.
EasedIsEarned ==
    \A n \in Proposals :
        /\ TierForProposed(n) # "NEW" => admits >= 2 \/ (admits >= 1 /\ promoted)
        /\ TierForProposed(n) = "TRUSTED" => admits = KLong

\* Every verdict rests on the present integer: no streak, residual window or
\* azimuth total of a satellite is longer than its wide lane or its fix has
\* been there to be observed.  The setting drop and the promoter do not hear
\* of a demotion; they notice at their next evaluation, which has to come
\* before the satellite can be fixed again.
EvidenceIsOfThisFix ==
    /\ mwFixed /\ gf # None => gf <= wlAge
    /\ InFixSet /\ ifs # None => ifs <= age
    /\ InFixSet /\ window # None => window <= age
    /\ st = "ANCHORING" /\ cand # None => cand.acc <= path
=============================================================================
