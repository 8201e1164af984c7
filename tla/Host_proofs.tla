----------------------------- MODULE Host_proofs -----------------------------
(***************************************************************************)
(* Proofs about Host, for any number of sites and every limit.             *)
(*                                                                         *)
(* The inductive invariant adds three facts to the types.  InSession says  *)
(* which of a session's variables are set in which phase.  Grounded keeps  *)
(* what the position in use rests on from the moment it is chosen.         *)
(* Counted ties the launches since an engine was seen running to the count *)
(* in the supervisor's file, or to the one a running check has yet to      *)
(* write there.                                                            *)
(***************************************************************************)
EXTENDS Host, TLAPS

InSession ==
    /\ pc # "steady" => ~moved
    /\ uid => file # None
    /\ pc \in {"validate", "steady"} => pos # None
    /\ pc = "validate" => tries < LsTries
    /\ pc \in {"off", "identify", "load", "bootstrap"} => tries = 0

Grounded ==
    /\ pc \in {"validate", "steady"} /\ ~moved /\ how \in {"checked", "nav2"} => pos = antenna
    /\ pc = "validate" /\ how = None => uid \/ sigma = "fine"
    /\ pc = "steady" => how # None

Counted ==
    /\ sup # None /\ cron = None => unseen <= sup.attempts
    /\ cron # None => unseen <= cron
    /\ unseen <= MaxAttempts

IInv == TypeOK /\ InSession /\ Grounded /\ Counted

\* The limits as numbers.
LEMMA Limits ==
    /\ MaxAttempts \in Nat /\ MaxAttempts > 0
    /\ BackoffMax \in Nat /\ BackoffMax > 0
    /\ LsTries \in Nat /\ LsTries > 0
    /\ SaveAfter \in Nat /\ SaveAfter > 0
    /\ MaxRetries \in Nat
  BY ConstantsAssumption

\* The invariant holds before anything was started.
LEMMA InitIInv == Init => IInv
<1> SUFFICES ASSUME Init PROVE IInv
  OBVIOUS
<1>1. TypeOK
  <2>1. FreshBoot \in [seed : {"nav2", "ls", None}, retries : 0 .. MaxRetries,
                       fixes : SUBSET {"before", "since"}]
    BY Limits DEF FreshBoot
  <2>2. /\ pc \in Phases /\ uid \in BOOLEAN /\ finished \in BOOLEAN
        /\ moved \in BOOLEAN /\ boot = FreshBoot /\ tries = 0
    BY DEF Init, Phases
  <2>3. unseen \in Nat /\ ape \in {"surveying", "verifying", "converging"}
    BY DEF Init
  <2>4. QED
    BY <2>1, <2>2, <2>3, Limits DEF Init, TypeOK
<1>2. InSession /\ Grounded /\ Counted
  BY Limits DEF Init, InSession, Grounded, Counted
<1>3. QED
  BY <1>1, <1>2 DEF IInv

-----------------------------------------------------------------------------
(* The supervisor and the operator *)

Outside == MoveAntenna \/ OperatorStarts \/ OperatorStops \/ Supervisor

\* What they do to the session: nothing, or start one, or move the antenna.
LEMMA OutsideKeepsSession ==
    ASSUME IInv, Outside
    PROVE  InSession' /\ Grounded'
<1> USE DEF IInv, InSession, Grounded, sessionVars, posVars, supVars
<1>1. CASE MoveAntenna
  BY <1>1, NoneAssumption DEF MoveAntenna
<1>2. CASE OperatorStarts
  BY <1>2 DEF OperatorStarts, StartProcess
<1>3. CASE OperatorStops
  BY <1>3 DEF OperatorStops
<1>4. CASE Supervisor
  BY <1>4 DEF Supervisor, Minute, CheckAlive, CheckWaits, CheckLaunches, CheckRecords, StartProcess
<1>5. QED
  BY <1>1, <1>2, <1>3, <1>4 DEF Outside

\* The types of what only the supervisor and the operator change.
LEMMA OutsideType ==
    ASSUME IInv, Outside
    PROVE  TypeOK'
<1> USE DEF IInv, TypeOK, Phases, Booting, sessionVars, posVars, supVars
<1>1. CASE MoveAntenna
  BY <1>1 DEF MoveAntenna
<1>2. CASE OperatorStarts
  <2>1. finished' \in BOOLEAN /\ pc' \in Phases /\ known' \in Site \union {None}
    BY <1>2 DEF OperatorStarts, StartProcess
  <2>2. QED
    BY <1>2, <2>1, Limits DEF OperatorStarts, StartProcess
<1>3. CASE OperatorStops
  BY <1>3 DEF OperatorStops
<1>4. CASE Minute
  BY <1>4, Limits DEF Minute
<1>5. CASE CheckAlive
  BY <1>5, Limits DEF CheckAlive
<1>6. CASE CheckWaits
  BY <1>6 DEF CheckWaits, AgeAfterCheck
<1>7. CASE CheckLaunches
  <2>1. finished' \in BOOLEAN /\ pc' \in Phases /\ known' \in Site \union {None}
    BY <1>7 DEF CheckLaunches, StartProcess
  <2>2. QED
    BY <1>7, <2>1, Limits DEF CheckLaunches, StartProcess, AttemptsLeft
<1>8. CASE CheckRecords
  BY <1>8, Limits DEF CheckRecords
<1>9. QED
  BY <1>1, <1>2, <1>3, <1>4, <1>5, <1>6, <1>7, <1>8 DEF Outside, Supervisor

\* The count in the file and the launches run in step.  A launch is counted
\* as soon as it is made, and the file is believed only between two checks.
LEMMA OutsideCounts ==
    ASSUME IInv, Outside
    PROVE  Counted'
<1> USE DEF IInv, TypeOK, Counted, supVars
<1>1. CASE MoveAntenna
  BY <1>1 DEF MoveAntenna
<1>2. CASE OperatorStarts
  BY <1>2, Limits, NoneAssumption DEF OperatorStarts
<1>3. CASE OperatorStops
  BY <1>3 DEF OperatorStops
<1>4. CASE Minute
  BY <1>4 DEF Minute
<1>5. CASE CheckAlive
  BY <1>5, Limits DEF CheckAlive
<1>6. CASE CheckWaits
  BY <1>6 DEF CheckWaits
<1>7. CASE CheckLaunches
  BY <1>7, Limits, NoneAssumption DEF CheckLaunches, AttemptsLeft
<1>8. CASE CheckRecords
  BY <1>8 DEF CheckRecords
<1>9. QED
  BY <1>1, <1>2, <1>3, <1>4, <1>5, <1>6, <1>7, <1>8 DEF Outside, Supervisor

-----------------------------------------------------------------------------
(* The engine *)

\* The engine does not know of the supervisor and does not move its antenna.
LEMMA EngineKeepsSupervisor ==
    ASSUME Engine
    PROVE  UNCHANGED <<antenna, sup, cron, unseen>>
BY DEF Engine, supVars, Exit, Identify, LoadStored, LoadKnown, LoadNothing, Seed,
       CommitInteger, Converge, Reject, SkipValidation, NotValidated, NoLiveFix,
       LiveFixAgrees, LiveFixDisagrees, SteadyEpoch, Blend

LEMMA EngineCounts ==
    ASSUME IInv, Engine
    PROVE  Counted'
BY EngineKeepsSupervisor DEF IInv, Counted

\* The end of a process leaves a clean session behind.
LEMMA EndIsClean ==
    ASSUME IInv, NEW clean \in BOOLEAN, EndProcess(clean), UNCHANGED <<antenna, supVars, file>>
    PROVE  TypeOK' /\ InSession' /\ Grounded'
<1> USE DEF IInv, EndProcess, supVars
<1>1. TypeOK'
  <2>1. FreshBoot \in [seed : {"nav2", "ls", None}, retries : 0 .. MaxRetries,
                       fixes : SUBSET {"before", "since"}]
    BY Limits DEF FreshBoot
  <2>2. uid' \in BOOLEAN /\ finished' \in BOOLEAN /\ moved' \in BOOLEAN /\ pc' \in Phases /\ tries' = 0
    BY DEF Phases
  <2>3. QED
    BY <2>1, <2>2, Limits DEF TypeOK
<1>2. InSession' /\ Grounded'
  BY DEF InSession, Grounded
<1>3. QED
  BY <1>1, <1>2

LEMMA ExitIsClean ==
    ASSUME IInv, Exit
    PROVE  TypeOK' /\ InSession' /\ Grounded'
<1>1. CASE EndProcess(FALSE)
  BY <1>1, EndIsClean DEF Exit
<1>2. CASE EndProcess(TRUE)
  BY <1>2, EndIsClean DEF Exit
<1>3. QED
  BY <1>1, <1>2 DEF Exit

\* Start-up: what is stored is a position or none.
LEMMA StartUp ==
    ASSUME IInv, Identify \/ LoadStored \/ LoadKnown \/ LoadNothing
    PROVE  TypeOK' /\ InSession' /\ Grounded'
<1> USE Limits, ConstantsAssumption, NoneAssumption
<1> USE DEF IInv, supVars, sessionVars, posVars
<1>1. CASE Identify
  <2>1. TypeOK'
    <3>1. uid' \in BOOLEAN /\ file' \in Positions \union {NoPosition, None} /\ pc' \in Phases
      BY <1>1 DEF Identify, TypeOK, Phases
    <3>2. QED
      BY <1>1, <3>1 DEF Identify, TypeOK
  <2>2. InSession' /\ Grounded'
    BY <1>1 DEF Identify, InSession, Grounded
  <2>3. QED
    BY <2>1, <2>2
<1>2. CASE LoadStored
  <2>1. uid /\ file \in Positions
    BY <1>2 DEF LoadStored, Stored, InSession, TypeOK
  <2>2. file.site \in Site /\ file.sigma \in Sigmas
    BY <2>1 DEF Positions
  <2>3. TypeOK'
    BY <1>2, <2>1, <2>2 DEF LoadStored, Stored, TypeOK, Phases, Booting
  <2>4. InSession' /\ Grounded'
    BY <1>2, <2>1, <2>2 DEF LoadStored, Stored, InSession, Grounded, Grounds
  <2>5. QED
    BY <2>3, <2>4
<1>3. CASE LoadKnown
  <2>1. known \in Site
    BY <1>3 DEF LoadKnown, TypeOK
  <2>2. [site |-> known, sigma |-> "fine", source |-> "known_pos"] \in Positions
    BY <2>1 DEF Positions, Sigmas, Sources
  <2>3. TypeOK'
    BY <1>3, <2>1, <2>2 DEF LoadKnown, Saved, TypeOK, Phases, Booting, Sigmas
  <2>4. InSession' /\ Grounded'
    BY <1>3, <2>1, <2>2 DEF LoadKnown, Saved, InSession, Grounded, Grounds
  <2>5. QED
    BY <2>3, <2>4
<1>4. CASE LoadNothing
  <2>1. TypeOK'
    BY <1>4 DEF LoadNothing, TypeOK, Phases, Booting
  <2>2. InSession' /\ Grounded'
    BY <1>4 DEF LoadNothing, InSession, Grounded
  <2>3. QED
    BY <2>1, <2>2
<1>5. QED
  BY <1>1, <1>2, <1>3, <1>4

\* run_bootstrap: a position that NAV2 was asked about is the antenna's.
LEMMA Bootstrap ==
    ASSUME IInv, Seed \/ CommitInteger \/ Converge \/ Reject
    PROVE  TypeOK' /\ InSession' /\ Grounded'
<1> USE Limits, ConstantsAssumption, NoneAssumption
<1> USE DEF IInv, supVars, sessionVars, posVars
<1>1. CASE Seed
  <2>1. TypeOK'
    BY <1>1 DEF Seed, HasNav2, TypeOK
  <2>2. InSession' /\ Grounded'
    BY <1>1 DEF Seed, InSession, Grounded
  <2>3. QED
    BY <2>1, <2>2
<1>2. CASE CommitInteger
  <2>1. TypeOK'
    BY <1>2 DEF CommitInteger, TypeOK
  <2>2. InSession' /\ Grounded'
    BY <1>2 DEF CommitInteger, InSession, Grounded
  <2>3. QED
    BY <2>1, <2>2
<1>3. CASE Converge
  <2>1. PICK site \in Site, opinion \in BOOLEAN, s \in Sigmas :
           /\ ~Nav2Disagrees(site, opinion)
           /\ pos' = site
           /\ how' = IF opinion THEN "nav2" ELSE "alone"
           /\ file' = Saved([site |-> site, sigma |-> StoredSigma(s),
                              source |-> "ppp_bootstrap"])
    BY <1>3 DEF Converge
  <2>2. [site |-> site, sigma |-> StoredSigma(s), source |-> "ppp_bootstrap"]
           \in Positions
    BY DEF Positions, StoredSigma, Sigmas, Sources
  <2>3. TypeOK'
    BY <1>3, <2>1, <2>2 DEF Converge, Saved, TypeOK, Phases, Booting, Grounds
  <2>4. InSession'
    BY <1>3, <2>1, <2>2 DEF Converge, Saved, InSession, Booting
  <2>5. Grounded'
    BY <1>3, <2>1 DEF Converge, Grounded, Nav2Disagrees, Grounds
  <2>6. QED
    BY <2>3, <2>4, <2>5
<1>4. CASE Reject
  <2>1. CASE EndProcess(FALSE)
    BY <1>4, <2>1, EndIsClean DEF Reject
  <2>2. CASE ~EndProcess(FALSE)
    <3>1. /\ boot' = [boot EXCEPT !.retries = @ + 1, !.fixes = AfterReject(@)]
          /\ UNCHANGED <<pc, sessionVars, posVars, tries, moved, antenna, supVars, file>>
          /\ boot.retries < MaxRetries
      BY <1>4, <2>2 DEF Reject, MayRetry
    <3>2. TypeOK'
      <4> DEFINE Boots == [seed : {"nav2", "ls", None}, retries : 0 .. MaxRetries,
                           fixes : SUBSET {"before", "since"}]
      <4>1. AfterReject(boot.fixes) \in SUBSET {"before", "since"}
        BY DEF AfterReject
      <4>2. boot \in Boots
        BY DEF TypeOK
      <4>3. boot.retries + 1 \in 0 .. MaxRetries
        BY <3>1, <4>2
      <4>4. boot' \in Boots
        BY <3>1, <4>1, <4>2, <4>3
      <4>5. QED
        BY <3>1, <4>4 DEF TypeOK
    <3>3. InSession' /\ Grounded'
      BY <3>1 DEF InSession, Grounded
    <3>4. QED
      BY <3>2, <3>3
  <2>3. QED
    BY <2>1, <2>2
<1>5. QED
  BY <1>1, <1>2, <1>3, <1>4

\* Validation: each way into the steady state brings its grounds along.
LEMMA Validation ==
    ASSUME IInv,
           \/ SkipValidation \/ NotValidated \/ NoLiveFix
           \/ LiveFixAgrees \/ LiveFixDisagrees
    PROVE  TypeOK' /\ InSession' /\ Grounded'
<1> USE Limits, NoneAssumption
<1> USE DEF IInv, supVars, sessionVars, posVars, TypeOK, Grounds, Phases, Booting,
            InSession, Grounded
<1>1. CASE SkipValidation
  BY <1>1 DEF SkipValidation
<1>2. CASE NotValidated
  BY <1>2 DEF NotValidated
<1>3. CASE NoLiveFix
  BY <1>3 DEF NoLiveFix, Validating
<1>4. CASE LiveFixAgrees
  BY <1>4 DEF LiveFixAgrees, Validating, Near
<1>5. CASE LiveFixDisagrees
  BY <1>5 DEF LiveFixDisagrees, Validating, Near, FreshBoot
<1>6. QED
  BY <1>1, <1>2, <1>3, <1>4, <1>5

\* The steady state saves the position it has.
LEMMA Steady ==
    ASSUME IInv, SteadyEpoch \/ Blend
    PROVE  TypeOK' /\ InSession' /\ Grounded'
<1> USE Limits, ConstantsAssumption, NoneAssumption
<1> USE DEF IInv, supVars, sessionVars, posVars
<1>1. CASE SteadyEpoch
  <2>1. pos \in Site
    BY <1>1 DEF SteadyEpoch, InSession, TypeOK
  <2>2. [site |-> pos, sigma |-> "fine", source |-> "peppar_fix"] \in Positions
    BY <2>1 DEF Positions, Sigmas, Sources
  <2>3. TypeOK'
    BY <1>1, <2>2 DEF SteadyEpoch, Saved, TypeOK
  <2>4. InSession' /\ Grounded'
    BY <1>1, <2>2 DEF SteadyEpoch, Saved, InSession, Grounded
  <2>5. QED
    BY <2>3, <2>4
<1>2. CASE Blend
  BY <1>2 DEF Blend, TypeOK, InSession, Grounded
<1>3. QED
  BY <1>1, <1>2

-----------------------------------------------------------------------------
(* Theorems *)

LEMMA StepIInv == IInv /\ [Next]_vars => IInv'
<1> SUFFICES ASSUME IInv, [Next]_vars PROVE IInv'
  OBVIOUS
<1>1. CASE Outside
  BY <1>1, OutsideType, OutsideKeepsSession, OutsideCounts DEF IInv
<1>2. CASE Engine
  <2>1. TypeOK' /\ InSession' /\ Grounded'
    BY <1>2, ExitIsClean, StartUp, Bootstrap, Validation, Steady DEF Engine
  <2>2. QED
    BY <1>2, <2>1, EngineCounts DEF IInv
<1>3. CASE UNCHANGED vars
  BY <1>3 DEF vars, supVars, sessionVars, posVars, IInv, TypeOK, InSession, Grounded, Counted
<1>4. QED
  BY <1>1, <1>2, <1>3 DEF Next, Outside

LEMMA Invariance == Spec => []IInv
<1>1. QED
  BY InitIInv, StepIInv, PTL DEF Spec

\* The variables keep their types through every session, restart and move.
THEOREM TypeCorrect == Spec => []TypeOK
<1>1. IInv => TypeOK
  BY DEF IInv
<1>2. QED
  BY <1>1, Invariance, PTL

\* The site held fixed is wrong only if nothing live was asked about it, if
\* what was asked gave no result, or if the antenna moved since.
THEOREM WrongSiteUnchecked == Spec => []WrongSiteIsUnchecked
<1>1. IInv => WrongSiteIsUnchecked
  BY DEF IInv, TypeOK, Grounded, Grounds, WrongSiteIsUnchecked
<1>2. QED
  BY <1>1, Invariance, PTL

\* However the operator starts and stops it, the supervisor does not launch
\* an engine it never sees running more than max_attempts times.
THEOREM RelaunchesBounded == Spec => []RelaunchesAreBounded
<1>1. IInv => RelaunchesAreBounded
  BY DEF IInv, Counted, RelaunchesAreBounded
<1>2. QED
  BY <1>1, Invariance, PTL
=============================================================================
