----------------------------- MODULE AntPosEst -----------------------------
(***************************************************************************)
(* One observation epoch of the AntPosEst thread                           *)
(* (scripts/peppar_fix_engine.py, AntPosEstThread._run_inner) as the       *)
(* sequence of stages it runs, each an action: cycle slips, wide-lane      *)
(* update and admission, GF step demoter, narrow-lane attempt, IF step     *)
(* demoter, setting-SV drop, fix-set integrity, housekeeping with          *)
(* promotion, the filter-level state machine, and the NAV2 second opinion. *)
(*                                                                         *)
(* Four tables describe the same satellite and are kept in step only by    *)
(* the order of these stages: the lifecycle tracker (st), the              *)
(* Melbourne-Wubbena tracker (mwN, mwFixed), the narrow-lane resolver      *)
(* (nlFixed, black) and the filter (amb).                                  *)
(*                                                                         *)
(* Residuals, covariances, azimuths and elevations are inputs: every       *)
(* threshold test on them is a choice.  Epoch numbers that the code stores *)
(* as deadlines are kept as the number of epochs left.                     *)
(***************************************************************************)
EXTENDS SvState, FiniteSets

CONSTANTS
    SlipCooldown,       \* default cooldown of transition(.., WAITING), 60 epochs
    IfCooldown,         \* IF step cooldown and NL blacklist, 120 epochs
    MwMinEpochs,        \* MelbourneWubbenaTracker.min_epochs, 60
    MinCohort,          \* smallest cohort a step monitor judges by, 4
    Threshold,          \* _resolve_threshold, 4
    EvalEvery,          \* cadence of the periodic monitors, 10 epochs
    TripCooldown,       \* evaluations skipped after an integrity trip, 30
    CollapseEvals,      \* evaluations without an anchor before a collapse, 6
    NavCooldown,        \* epochs both NAV2 checks stay quiet after a reset, 120
    ArcRestart,         \* ARC_RESTART_GAP_S, 30 epochs
    SlipStale,          \* CycleSlipMonitor.stale_after_s, 60 epochs
    ForgetAfter,        \* forget_stale_with_states, 600 epochs
    Inheritable         \* satellites that may bring integers from the bootstrap

ASSUME ConstantsAssumption ==
    /\ IsFiniteSet(SV)
    /\ {SlipCooldown, IfCooldown, MwMinEpochs, EvalEvery, TripCooldown,
        CollapseEvals, NavCooldown, ArcRestart, SlipStale, ForgetAfter,
        MinCohort, Threshold} \subseteq Nat \ {0}
    /\ MwMinEpochs > 1
    /\ Inheritable \subseteq SV

VARIABLES
    pc,         \* the stage the thread is about to run
    wlOnly,     \* the --wl-only flag, fixed for the run
    st,         \* tracker state per satellite
    squelch,    \* epochs left of a WAITING record
    mwN,        \* Melbourne-Wubbena samples, 0 when there is no entry
    mwFixed,    \* satellites whose wide-lane integer is fixed
    nlFixed,    \* NarrowLaneResolver._fixed
    black,      \* epochs left on the narrow-lane blacklist
    held,       \* satellites held by the WL re-admission gate
    amb,        \* satellites with an ambiguity in the filter
    unseen,     \* epochs since the satellite was last observed
    prevSeen,   \* satellites CycleSlipMonitor remembers
    fresh,      \* satellites that got an integer in this epoch's last stage
    tick,       \* epoch number modulo EvalEvery
    ape,        \* AntPosEst filter state
    reachedAnchoring, reachedAnchored,      \* its two latches
    tripCool,   \* integrity evaluations left in the cooldown
    collapse,   \* evaluations with no anchor, 0 when the timer is off
    ztdTrips,   \* earlier ZTD trips the escalation remembers
    navCool     \* epochs left of the NAV2 cooldown

trackerVars == <<st, squelch>>
mwVars      == <<mwN, mwFixed, held>>
nlVars      == <<nlFixed, black>>
skyVars     == <<amb, unseen, prevSeen>>
apeVars     == <<ape, reachedAnchoring, reachedAnchored>>
tripVars    == <<tripCool, collapse, ztdTrips>>
vars == <<pc, wlOnly, trackerVars, mwVars, nlVars, skyVars, fresh, tick,
          apeVars, tripVars, navCool>>

Stages == {"slips", "wide", "gfstep", "narrow", "ifstep", "drop",
           "integrity", "house", "filter", "nav2"}

\* States of the filter while the thread runs.  VERIFYING is where the
\* startup leaves it when the loaded position was never validated.
ApeStates == {"VERIFYING", "CONVERGING", "ANCHORING", "ANCHORED"}

MaxUnseen == IF SlipStale > ForgetAfter THEN SlipStale + 1 ELSE ForgetAfter + 1

\* One epoch less, never below zero; the variant without the floor.
DecNoFloor(n) == n - 1
Dec(n) == IF n = 0 THEN 0 ELSE n - 1

FixSet  == InStates(st, FixStates)
Anchors == InStates(st, {"ANCHORED"})

TypeOK ==
    /\ pc \in Stages
    /\ wlOnly \in BOOLEAN
    /\ st \in [SV -> SvStates]
    /\ squelch \in [SV -> Nat]
    /\ mwN \in [SV -> 0 .. MwMinEpochs]
    /\ nlFixed \subseteq SV /\ mwFixed \subseteq SV /\ held \subseteq SV
    /\ black \in [SV -> Nat]
    /\ amb \subseteq SV /\ prevSeen \subseteq SV /\ fresh \subseteq SV
    /\ unseen \in [SV -> 0 .. MaxUnseen]
    /\ tick \in 0 .. (EvalEvery - 1)
    /\ ape \in ApeStates
    /\ reachedAnchoring \in BOOLEAN /\ reachedAnchored \in BOOLEAN
    /\ tripCool \in Nat /\ collapse \in Nat /\ ztdTrips \in Nat /\ navCool \in Nat

-----------------------------------------------------------------------------
(* Shared steps *)

\* The tracker takes the records tt, with its squelch bookkeeping.
Track(tt, cooldown) ==
    /\ st' = tt
    /\ squelch' = Squelched(st, tt, squelch, cooldown)

\* MelbourneWubbenaTracker.reset for every satellite of S.
ResetMw(S) ==
    /\ mwN' = [sv \in SV |-> IF sv \in S THEN 0 ELSE mwN[sv]]
    /\ mwFixed' = mwFixed \ S

\* AntPosEst.transition: the wl_only clamp, then the latches; the variant
\* forgets the second latch.
EnterUnlatched(s) ==
    LET to == IF wlOnly /\ s \in FixStates THEN ape ELSE s
    IN  /\ ape' = to
        /\ reachedAnchoring' = (reachedAnchoring \/ to \in FixStates)
        /\ reachedAnchored' = reachedAnchored

Enter(s) ==
    LET to == IF wlOnly /\ s \in FixStates THEN ape ELSE s
    IN  /\ ape' = to
        /\ reachedAnchoring' = (reachedAnchoring \/ to \in FixStates)
        /\ reachedAnchored' = (reachedAnchored \/ to = "ANCHORED")

\* What a reset of the filter leaves of its state: only the integer states
\* fall back.  The variant leaves it all.
FellBackNever == ape
FellBack == IF ape \in FixStates THEN "CONVERGING" ELSE ape

\* The satellites nl.unfix takes out of the fix set when it drops S.
Unfixed(tt, S) == Moved(tt, S \cap InStates(tt, FixStates), "FLOATING")

-----------------------------------------------------------------------------
(* A run starts cold at a known position, or inherits wide-lane and        *)
(* narrow-lane integers from the bootstrap filter, whose records are       *)
(* seeded to match.                                                        *)

Init ==
    /\ pc = "slips"
    /\ wlOnly \in BOOLEAN
    /\ mwFixed \in SUBSET Inheritable
    /\ nlFixed \in SUBSET mwFixed
    /\ wlOnly => nlFixed = {}
    /\ mwN = [sv \in SV |-> IF sv \in mwFixed THEN MwMinEpochs ELSE 0]
    /\ st = [sv \in SV |-> IF sv \in nlFixed THEN "ANCHORING"
                           ELSE IF sv \in mwFixed THEN "CONVERGING" ELSE "TRACKING"]
    /\ squelch = [sv \in SV |-> 0] /\ black = [sv \in SV |-> 0]
    /\ amb = mwFixed
    /\ held = {} /\ prevSeen = {} /\ fresh = {}
    /\ unseen = [sv \in SV |-> 0]
    /\ tick = 0
    /\ ape \in {"VERIFYING", "CONVERGING"}
    /\ reachedAnchoring = FALSE /\ reachedAnchored = FALSE
    /\ tripCool = 0 /\ collapse = 0 /\ ztdTrips = 0 /\ navCool = 0

-----------------------------------------------------------------------------
(* Slips: CycleSlipMonitor.check on the observed satellites O, then        *)
(* flush_sv_phase for each event, then the ambiguity bookkeeping of the    *)
(* filter.  A satellite that was away longer than ArcRestart has lost      *)
(* lock, so the arc-gap test fires on it if the monitor still remembers    *)
(* it; the other detectors fire on any observed satellite.  An observed    *)
(* satellite has an orbit position and a phase, so the filter carries it.  *)

ArcGaps(O) == {sv \in O \cap prevSeen : unseen[sv] + 1 > ArcRestart}

Unseen(O) == [sv \in SV |-> IF sv \in O THEN 0
                            ELSE IF unseen[sv] = MaxUnseen THEN MaxUnseen
                            ELSE unseen[sv] + 1]

\* A HIGH slip squelches, a LOW one demotes.
SlipMoves(hi, lo) == Moved(Moved(st, lo, "FLOATING"), hi, "WAITING")

Slips ==
    /\ pc = "slips"
    /\ \E O \in SUBSET SV : \E hi \in SUBSET O : \E lo \in SUBSET (O \ hi) :
         /\ ArcGaps(O) \subseteq hi \union lo
         /\ Track(SlipMoves(hi, lo), SlipCooldown)
         /\ ResetMw(hi \union lo)
         /\ nlFixed' = nlFixed \ (hi \union lo)
         /\ amb' = O
         /\ unseen' = Unseen(O)
         /\ prevSeen' = (({sv \in prevSeen : Unseen(O)[sv] <= SlipStale} \union O)
                           \ (hi \union lo))
    /\ pc' = "wide"
    /\ UNCHANGED <<wlOnly, black, held, fresh, tick, apeVars, tripVars, navCool>>

-----------------------------------------------------------------------------
(* The filter used fewer than four satellites: the epoch is not counted    *)
(* and every later stage is skipped.                                       *)

TooFewSvs ==
    /\ pc = "wide"
    /\ pc' = "slips"
    /\ UNCHANGED <<wlOnly, trackerVars, mwVars, nlVars, skyVars, fresh, tick,
                   apeVars, tripVars, navCool>>

-----------------------------------------------------------------------------
(* Wide lane: the epoch counts.  MW takes the observations of the          *)
(* satellites U, all but those (B) the re-admission gate blocks; it fixes  *)
(* F, of which the phase-residual gate reverts G.  A revert clears the     *)
(* fixed flag but keeps the samples, and the tracker keeps the CONVERGING  *)
(* it was given inside mw.update.                                          *)

Proposable(U) == {sv \in U \ mwFixed : mwN[sv] > 0 /\ mwN[sv] + 1 >= MwMinEpochs}

\* The re-admission gate blocks a held satellite until its elevation has moved.
Blockable == held \intersect amb

\* mw.update's two moves: admit, then converge.
WideMoves(U, F) ==
    LET admitted == Moved(st, U \cap InStates(st, {"TRACKING"}), "FLOATING")
    IN  Moved(admitted, F, "CONVERGING")

WideLane ==
    /\ pc = "wide"
    /\ \E B \in SUBSET Blockable :
       LET U == amb \ B
       IN \E F \in SUBSET Proposable(U) : \E G \in SUBSET F :
            /\ st' = WideMoves(U, F)
            /\ squelch' = [sv \in SV |-> Dec(squelch[sv])]
            /\ mwN' = [sv \in SV |-> IF sv \in U /\ mwN[sv] < MwMinEpochs
                                     THEN mwN[sv] + 1 ELSE mwN[sv]]
            /\ mwFixed' = mwFixed \union (F \ G)
            /\ held' = held \ (F \ G)
            /\ fresh' = F \ G
    /\ tick' = (tick + 1) % EvalEvery
    /\ navCool' = Dec(navCool)
    /\ pc' = "gfstep"
    /\ UNCHANGED <<wlOnly, nlVars, skyVars, apeVars, tripVars>>

-----------------------------------------------------------------------------
(* GF step: a fixed satellite whose geometry-free change leaves the cohort *)
(* median for two epochs (so not one fixed this epoch) loses its wide      *)
(* lane, takes a re-admission hold if its elevation is known, and is       *)
(* demoted.  The narrow-lane resolver is told to forget its trust history  *)
(* but keeps the integer.                                                  *)

\* The records the demotion moves; the variant leaves the anchors.
GfDemotableButAnchored == {"CONVERGING", "ANCHORING"}
GfDemotable == {"CONVERGING", "ANCHORING", "ANCHORED"}

GfSuspects ==
    LET cohort == mwFixed \intersect amb
    IN  IF Cardinality(cohort) >= MinCohort THEN cohort \ fresh ELSE {}

GfStep ==
    /\ pc = "gfstep"
    /\ \E E \in SUBSET GfSuspects : \E known \in SUBSET E :
         /\ Track(Moved(st, E \cap InStates(st, GfDemotable), "FLOATING"), 0)
         /\ ResetMw(E)
         /\ held' = (held \ E) \union known
    /\ pc' = "narrow"
    /\ UNCHANGED <<wlOnly, nlVars, skyVars, fresh, tick, apeVars, tripVars, navCool>>

-----------------------------------------------------------------------------
(* Narrow lane: the blacklist ages, then the resolver commits integers for *)
(* any subset of its candidates (LAMBDA or rounding; the fractional,       *)
(* elevation, phase-bias, join and trust tests are the choice).  Only a    *)
(* CONVERGING record moves: an integer committed for a satellite in        *)
(* another state is held by the resolver alone.                            *)

\* An integer is searched for where the wide lane is fixed and the blacklist
\* is over; the variant forgets the blacklist.
NlCandidatesNoBlacklist == {sv \in amb \ nlFixed : sv \in mwFixed}
NlCandidates == {sv \in amb \ nlFixed : sv \in mwFixed /\ Dec(black[sv]) = 0}

\* attempt returns at once in wl_only mode; the variant lost that gate.
MayCommitAlways == TRUE
MayCommit == ~wlOnly

NarrowLane ==
    /\ pc = "narrow"
    /\ black' = [sv \in SV |-> Dec(black[sv])]
    /\ \E N \in SUBSET NlCandidates :
         /\ N # {} => MayCommit
         /\ nlFixed' = nlFixed \union N
         /\ Track(IF wlOnly THEN st
                  ELSE Moved(st, N \cap InStates(st, {"CONVERGING"}), "ANCHORING"), 0)
         /\ fresh' = N
    /\ pc' = "ifstep"
    /\ UNCHANGED <<wlOnly, mwVars, skyVars, tick, apeVars, tripVars, navCool>>

-----------------------------------------------------------------------------
(* IF step: a member of the fix set whose phase residual leaves the cohort *)
(* for two epochs is squelched, blacklisted, and loses both integers.      *)

IfSuspects ==
    LET cohort == FixSet \intersect amb
    IN  IF Cardinality(cohort) >= MinCohort THEN cohort \ fresh ELSE {}

IfStep ==
    /\ pc = "ifstep"
    /\ \E E \in SUBSET IfSuspects :
         /\ Track(Moved(st, E, "WAITING"), IfCooldown)
         /\ ResetMw(E)
         /\ nlFixed' = nlFixed \ E
         /\ black' = [sv \in SV |-> IF sv \in E THEN IfCooldown ELSE black[sv]]
    /\ pc' = "drop"
    /\ UNCHANGED <<wlOnly, held, skyVars, fresh, tick, apeVars, tripVars, navCool>>

-----------------------------------------------------------------------------
(* Setting-SV drop: every EvalEvery epochs, members of the fix set that    *)
(* are low or whose pseudorange residual is large leave it.  The wide lane *)
(* stays.                                                                  *)

SettingDrop ==
    /\ pc = "drop"
    /\ \E D \in SUBSET FixSet :
         /\ D # {} => tick = 0
         /\ Track(Moved(st, D, "FLOATING"), 0)
         /\ nlFixed' = nlFixed \ D
    /\ pc' = "integrity"
    /\ UNCHANGED <<wlOnly, mwVars, black, skyVars, fresh, tick, apeVars,
                   tripVars, navCool>>

-----------------------------------------------------------------------------
(* Fix-set integrity: evaluated every EvalEvery epochs outside its         *)
(* cooldown.  The anchor-collapse timer is checked first and pre-empts;    *)
(* the residual, consensus and ZTD excursions are choices.                 *)

Evaluating == tick = 0 /\ Dec(tripCool) = 0

\* The timer after this evaluation: it runs only while the filter has been
\* anchored and no anchor is left.  The variant asks the filter state, which
\* the loss of the anchors takes down, instead of the latch.
CollapseTimerByState ==
    IF ape # "ANCHORED" THEN collapse ELSE IF Anchors = {} THEN collapse + 1 ELSE 0

CollapseTimer ==
    IF ~reachedAnchored THEN collapse ELSE IF Anchors = {} THEN collapse + 1 ELSE 0

Collapsed == reachedAnchored /\ Anchors = {} /\ collapse >= CollapseEvals

\* record_trip; the variant leaves the collapse timer running.
TimerAfterTripKept == CollapseTimer
TimerAfterTrip == 0

RecordTrip ==
    /\ tripCool' = TripCooldown
    /\ collapse' = TimerAfterTrip
    /\ ape' = FellBack
    /\ reachedAnchoring' = FALSE /\ reachedAnchored' = FALSE

\* Full re-init: every integer, every wide lane and the filter go.
Reinit ==
    /\ LET mwSvs == {sv \in SV : mwN[sv] > 0}
       IN  /\ Track(Moved(Unfixed(st, nlFixed), mwSvs, "FLOATING"), 0)
           /\ ResetMw(mwSvs)
    /\ nlFixed' = {}
    /\ amb' = {}
    /\ RecordTrip
    /\ UNCHANGED ztdTrips

\* The first ZTD trips revert the narrow lane only, and are counted unless
\* the consensus with the cohort raised them; trips older than the window
\* are forgotten.
NlRevert ==
    /\ Track(Unfixed(st, nlFixed), 0)
    /\ nlFixed' = {}
    /\ ztdTrips' \in {ztdTrips} \union {1}
    /\ RecordTrip
    /\ UNCHANGED <<mwN, mwFixed, amb>>

\* Repeated ZTD trips flush the wide lanes too, and keep the filter.
WlFlush ==
    /\ ztdTrips > 0
    /\ LET mwSvs == {sv \in SV : mwN[sv] > 0}
       IN  /\ Track(Moved(Unfixed(st, nlFixed), mwSvs, "FLOATING"), 0)
           /\ ResetMw(mwSvs)
    /\ nlFixed' = {}
    /\ ztdTrips' = 0
    /\ RecordTrip
    /\ UNCHANGED amb

NoTrip ==
    /\ ~(Evaluating /\ Collapsed)
    /\ tripCool' = IF tick = 0 THEN Dec(tripCool) ELSE tripCool
    /\ collapse' = IF Evaluating THEN CollapseTimer ELSE collapse
    /\ UNCHANGED <<trackerVars, mwN, mwFixed, nlFixed, amb, apeVars, ztdTrips>>

Integrity ==
    /\ pc = "integrity"
    /\ \/ Evaluating /\ Reinit
       \/ Evaluating /\ ~Collapsed /\ (NlRevert \/ WlFlush)
       \/ NoTrip
    /\ pc' = "house"
    /\ UNCHANGED <<wlOnly, held, black, unseen, prevSeen, fresh, tick, navCool>>

-----------------------------------------------------------------------------
(* Housekeeping: expired squelches return to FLOATING, records not seen    *)
(* for ForgetAfter epochs are forgotten (the sweep runs once a minute, so  *)
(* any of them may still be there), and every EvalEvery epochs the         *)
(* promoter moves ANCHORING records whose azimuth has travelled far enough.*)
(* Forgetting drops the record only: the resolver and MW keep theirs.      *)

\* The sweep asks every record; the variant only those observed.
ExpiredObserved(tt) == {sv \in amb : tt[sv] = "WAITING" /\ squelch[sv] = 0}
Expired(tt) == {sv \in SV : tt[sv] = "WAITING" /\ squelch[sv] = 0}

Forgettable == {sv \in SV : unseen[sv] > ForgetAfter}

\* A fix of this epoch has travelled no azimuth yet: the wide lane of a record
\* that lost its fix takes longer to return than the promoter keeps it.
Promotable(swept, gone) == InStates(swept, {"ANCHORING"}) \ (gone \union fresh)

Housekeeping ==
    /\ pc = "house"
    /\ LET swept == Moved(st, Expired(st), "FLOATING")
       IN \E gone \in SUBSET Forgettable :
          \E P \in SUBSET Promotable(swept, gone) :
            /\ P # {} => tick = 0
            /\ Track([sv \in SV |-> IF sv \in gone THEN "TRACKING"
                                    ELSE Moved(swept, P, "ANCHORED")[sv]], 0)
    /\ pc' = "filter"
    /\ UNCHANGED <<wlOnly, mwVars, nlVars, skyVars, fresh, tick, apeVars,
                   tripVars, navCool>>

-----------------------------------------------------------------------------
(* The filter-level state machine counts integers the resolver holds in    *)
(* the filter and anchors of the tracker: up at Threshold, down below      *)
(* Threshold - 1, one step per epoch.                                      *)

NNlFixed  == Cardinality(amb \intersect nlFixed)
NAnchored == Cardinality(Anchors)

\* The count that lets ANCHORED stand; the variant compares too low.
KeepsAnchoredLoose == NAnchored + 2 >= Threshold
KeepsAnchored == NAnchored + 1 >= Threshold

\* Where the counts send the filter state.
NextApe ==
    CASE ape = "CONVERGING" /\ NNlFixed >= Threshold         -> "ANCHORING"
      [] ape = "ANCHORING" /\ NAnchored >= Threshold         -> "ANCHORED"
      [] ape = "ANCHORING" /\ NAnchored < Threshold
                           /\ NNlFixed + 1 < Threshold       -> "CONVERGING"
      [] ape = "ANCHORED" /\ ~KeepsAnchored                  -> "ANCHORING"
      [] OTHER                                               -> ape

FilterState ==
    /\ pc = "filter"
    /\ Enter(NextApe)
    /\ pc' = "nav2"
    /\ UNCHANGED <<wlOnly, trackerVars, mwVars, nlVars, skyVars, fresh, tick,
                   tripVars, navCool>>

-----------------------------------------------------------------------------
(* NAV2: the horizontal watchdog every EvalEvery epochs and the 3-D second *)
(* opinion every epoch, both outside the shared cooldown.  Either reset    *)
(* drops every narrow-lane integer and re-seeds the filter, and leaves MW  *)
(* and the latches alone.                                                  *)

PositionReset ==
    /\ navCool = 0
    /\ Track(Unfixed(st, nlFixed), 0)
    /\ nlFixed' = {}
    /\ amb' = {}
    /\ ape' = FellBack
    /\ navCool' = NavCooldown

Nav2Quiet == UNCHANGED <<trackerVars, nlFixed, amb, ape, navCool>>

EndEpoch ==
    /\ pc = "nav2"
    /\ pc' = "slips"
    /\ fresh' = {}
    /\ UNCHANGED <<wlOnly, mwVars, black, unseen, prevSeen, tick, tripVars,
                   reachedAnchoring, reachedAnchored>>

AntennaMoved  == EndEpoch /\ tick = 0 /\ PositionReset
SecondOpinion == EndEpoch /\ PositionReset
NoReset       == EndEpoch /\ Nav2Quiet

-----------------------------------------------------------------------------
Next ==
    \/ Slips \/ TooFewSvs \/ WideLane \/ GfStep \/ NarrowLane \/ IfStep
    \/ SettingDrop \/ Integrity \/ Housekeeping \/ FilterState
    \/ AntennaMoved \/ SecondOpinion \/ NoReset

\* Observation epochs keep coming, and again and again one of them uses
\* enough satellites to be counted.
Fairness == WF_vars(Next) /\ SF_vars(WideLane)

Spec == Init /\ [][Next]_vars
LiveSpec == Spec /\ Fairness

-----------------------------------------------------------------------------
(* Properties *)

\* A record in the fix set always stands for a wide-lane and a narrow-lane
\* integer that both still exist, at every stage of the epoch: no demoter
\* takes an integer away and leaves the tracker claiming it.
TrackedFixIsReal == FixSet \subseteq (nlFixed \intersect mwFixed)

\* A squelch timer runs on WAITING records and no others, whichever of the
\* slip, IF step, re-init, sweep or forget paths moved the record last.
SquelchOnlyWhileWaiting == \A sv \in SV : squelch[sv] > 0 => st[sv] = "WAITING"

\* A satellite the IF step rejected holds no narrow-lane integer again until
\* its blacklist has run out, even if a LOW slip or a re-init ended its
\* squelch early.
RejectedStaysOut == \A sv \in SV : black[sv] > 0 => sv \notin nlFixed

\* --wl-only never commits a narrow-lane integer, and never lets a record or
\* the filter past CONVERGING.
WlOnlyStopsAtConverging ==
    wlOnly => nlFixed = {} /\ FixSet = {} /\ ape \notin FixStates

\* A counted epoch ends with the filter claiming ANCHORED only if at least
\* Threshold - 1 satellites are ANCHORED: neither the hysteresis nor a NAV2
\* reset after the count leaves the claim without its anchors.
AnchoredIsBacked ==
    [][pc = "nav2" /\ ape' = "ANCHORED" =>
          Cardinality({sv \in SV : st'[sv] = "ANCHORED"}) + 1 >= Threshold]_vars

\* The filter state never outranks its latches, so the regime selection and
\* the anchor-collapse trigger, which read the latches, agree with it.
LatchesCoverState ==
    /\ ape \in FixStates => reachedAnchoring
    /\ ape = "ANCHORED" => reachedAnchored
    /\ reachedAnchored => reachedAnchoring

\* The anchor-collapse timer runs only on a filter that has earned ANCHORED
\* since its last re-initialisation.
CollapseNeedsAnchored == collapse > 0 => reachedAnchored

\* The epoch implements the lifecycle diagram: whatever the stages do to the
\* four tables, each record only moves the way the diagram allows, and a
\* further slip or rejection never prolongs a running squelch.
Lifecycle == INSTANCE SvLifecycle WITH
    MaxSquelch <- IF SlipCooldown > IfCooldown THEN SlipCooldown ELSE IfCooldown

ImplementsLifecycle == Lifecycle!Spec

\* The latches fall only in an integrity trip, which drops every narrow-lane
\* integer and takes the filter state down with them.  Slips, demotions and
\* NAV2 resets leave them.
LatchesFallOnlyInTrip ==
    [][reachedAnchoring /\ ~reachedAnchoring' =>
          pc = "integrity" /\ nlFixed' = {} /\ ape' \notin FixStates
             /\ ~reachedAnchored']_vars

\* WAITING is temporary: a squelched satellite leaves it again however many
\* further slips hit it meanwhile.
WaitingEnds == \A sv \in SV : st[sv] = "WAITING" ~> st[sv] # "WAITING"

\* A filter that has earned ANCHORED does not stay without anchors for ever:
\* it gets one back or is re-initialised, even through demotions, NAV2 resets
\* and uncounted epochs.
AnchorsReturnOrTrip ==
    reachedAnchored /\ Anchors = {} ~> Anchors # {} \/ ~reachedAnchored

\* What the arc-continuity rule of cycle_slip.py says: a satellite that comes
\* back after a gap longer than ArcRestart is on a new arc, and neither of
\* its integers survives the gap.
ArcGapEndsIntegers ==
    [][\A sv \in SV :
          pc = "slips" /\ unseen[sv] + 1 > ArcRestart /\ sv \in amb'
             => sv \notin (mwFixed' \union nlFixed')]_vars
=============================================================================
