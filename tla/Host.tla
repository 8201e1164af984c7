-------------------------------- MODULE Host --------------------------------
(***************************************************************************)
(* What survives a process: peppar-supervisor.sh, run by cron each minute  *)
(* with its state in a file, the engine's start-up (run and run_bootstrap  *)
(* in scripts/peppar_fix_engine.py) that decides which position the steady *)
(* state holds fixed, and the receiver's state file that carries positions *)
(* from one session to the next (scripts/peppar_fix/receiver_state.py).    *)
(*                                                                         *)
(* A position is the site it is near; two sites are more than 100 m apart, *)
(* and the antenna can be moved from one to the other.  What a live fix or *)
(* the receiver's second engine (NAV2) reports is the antenna's site.      *)
(***************************************************************************)
EXTENDS Integers, FiniteSets

CONSTANTS
    Site,         \* where the antenna can be
    None,         \* Python's None, a missing file or entry
    MaxAttempts,  \* max_attempts of the supervisor, 10
    BackoffMax,   \* longest backoff, minutes: 30
    MaxRetries,   \* --bootstrap-max-retries
    LsTries,      \* live fixes tried by the validation, 30
    SaveAfter     \* steady-state epochs before a position is saved, 300

ASSUME ConstantsAssumption ==
    /\ {MaxAttempts, BackoffMax, LsTries, SaveAfter} \subseteq Nat \ {0}
    /\ MaxRetries \in Nat
    /\ None \notin Site

VARIABLES
    antenna,           \* the site of the antenna
    sup,               \* the supervisor's state file, or None
    cron,              \* the attempt a running check has to write, or None
    unseen,            \* history: launches since an engine was seen running
    file,              \* state/receivers/<unique_id>.json of the receiver
    pc,                \* where the engine's process is
    uid,               \* the receiver told its unique_id in this session
    pos, sigma,        \* known_ecef, pos_sigma_m
    known,             \* --known-pos of this session
    finished,          \* history: the last process ended as it should
    ape,               \* AntPosEst state
    how,               \* history: what the position in use rests on
    boot,              \* run_bootstrap's locals
    tries,             \* validation attempts, then steady-state epochs
    moved              \* history: the antenna was moved in this session

supVars     == <<sup, cron, unseen>>
sessionVars == <<uid, known, finished>>
posVars     == <<pos, sigma, ape, how>>
vars == <<antenna, supVars, file, pc, sessionVars, posVars, boot, tries, moved>>

\* Below the trust threshold of 10 m, or not.
Sigmas == {"fine", "coarse"}
Sources == {"ppp_bootstrap", "known_pos", "peppar_fix"}
Positions == [site : Site, sigma : Sigmas, source : Sources]
NoPosition == [site |-> None, sigma |-> "coarse", source |-> "known_pos"]

\* What a position in use rests on: a stored one taken on trust, a live check,
\* a live check that never came to a result, or a bootstrap.
Grounds == {"trusted", "checked", "undecided", "nav2", "alone"}

ASSUME NoneAssumption ==
    None \notin Nat \union Grounds \union Positions \union {NoPosition}

Booting == {"bootstrap", "rebootstrap"}
Phases == {"off", "identify", "load", "validate", "steady"} \union Booting

TypeOK ==
    /\ antenna \in Site
    /\ sup \in [attempts : 0 .. MaxAttempts, age : 0 .. BackoffMax] \union {None}
    /\ cron \in 1 .. MaxAttempts \union {None}
    /\ unseen \in Nat
    /\ file \in Positions \union {NoPosition, None}
    /\ pc \in Phases
    /\ uid \in BOOLEAN /\ finished \in BOOLEAN /\ known \in Site \union {None}
    /\ pos \in Site \union {None} /\ sigma \in Sigmas \union {None}
    /\ ape \in {"surveying", "verifying", "converging"}
    /\ how \in Grounds \union {None}
    /\ boot \in [seed : {"nav2", "ls", None}, retries : 0 .. MaxRetries,
                 fixes : SUBSET {"before", "since"}]
    /\ tries \in 0 .. LsTries \union 0 .. SaveAfter
    /\ moved \in BOOLEAN

FreshBoot == [seed |-> None, retries |-> 0, fixes |-> {}]

Init ==
    /\ antenna \in Site
    /\ sup = None /\ cron = None /\ unseen = 0
    /\ file = None
    /\ pc = "off" /\ uid = FALSE /\ known = None /\ finished = FALSE
    /\ pos = None /\ sigma = None /\ ape = "surveying" /\ how = None
    /\ boot = FreshBoot /\ tries = 0 /\ moved = FALSE

-----------------------------------------------------------------------------
(* The operator and the site *)

\* A move goes unnoticed in the steady state or while nothing runs; one in
\* the middle of a start is left out.
MoveAntenna ==
    /\ pc \in {"off", "steady"}
    /\ antenna' \in Site \ {antenna}
    /\ moved' = (pc = "steady")
    /\ UNCHANGED <<supVars, file, pc, sessionVars, posVars, boot, tries>>

\* A process starts with nothing but its command line, and takes all it knew
\* with it when it ends.
StartProcess ==
    /\ pc = "off"
    /\ pc' = "identify"
    /\ known' \in Site \union {None} /\ finished' = FALSE
    /\ UNCHANGED <<uid, posVars, boot, tries, moved>>

EndProcess(clean) ==
    /\ pc' = "off" /\ finished' = clean
    /\ uid' = FALSE /\ known' = None
    /\ pos' = None /\ sigma' = None /\ ape' = "surveying" /\ how' = None
    /\ boot' = FreshBoot /\ tries' = 0 /\ moved' = FALSE

\* The launch script: the engine and the supervisor's init.
OperatorStarts ==
    /\ StartProcess
    /\ sup' = [attempts |-> 0, age |-> 0]
    /\ unseen' = 0
    /\ UNCHANGED <<antenna, cron, file>>

\* The supervisor's stop.
OperatorStops ==
    /\ sup # None
    /\ sup' = None
    /\ UNCHANGED <<antenna, cron, unseen, file, pc, sessionVars, posVars, boot, tries, moved>>

-----------------------------------------------------------------------------
(* peppar-supervisor.sh check.  "When the engine completes its scheduled   *)
(* --duration cleanly, leave it alone": the line by which the script would *)
(* tell is printed nowhere, so to it every engine that is gone is dead.    *)

\* backoff_for_attempt, in minutes.
Backoff(n) ==
    LET m == IF n <= 1 THEN 1 ELSE 2 ^ (n - 1)
    IN  IF n > 5 \/ m > BackoffMax THEN BackoffMax ELSE m

Minute ==
    /\ sup # None /\ cron = None
    /\ sup.age < BackoffMax
    /\ sup' = [sup EXCEPT !.age = @ + 1]
    /\ UNCHANGED <<antenna, cron, unseen, file, pc, sessionVars, posVars, boot, tries, moved>>

\* An engine is running: the count of attempts starts again.
CheckAlive ==
    /\ sup # None /\ cron = None /\ pc # "off"
    /\ sup' = [sup EXCEPT !.attempts = 0]
    /\ unseen' = 0
    /\ UNCHANGED <<antenna, cron, file, pc, sessionVars, posVars, boot, tries, moved>>

\* max_attempts: the variant allows one more.
AttemptsLeftOneMore(n) == n <= MaxAttempts
AttemptsLeft(n) == n < MaxAttempts

\* Too early for another attempt; the variant starts the wait again.
AgeAfterCheckReset(age) == 0
AgeAfterCheck(age) == age

CheckWaits ==
    /\ sup # None /\ cron = None /\ pc = "off"
    /\ AttemptsLeft(sup.attempts) /\ sup.age < Backoff(sup.attempts)
    /\ sup' = [sup EXCEPT !.age = AgeAfterCheck(@)]
    /\ UNCHANGED <<antenna, cron, unseen, file, pc, sessionVars, posVars, boot, tries, moved>>

\* The launch; the file is written two seconds later.
CheckLaunches ==
    /\ sup # None /\ cron = None
    /\ AttemptsLeft(sup.attempts) /\ sup.age >= Backoff(sup.attempts)
    /\ StartProcess
    /\ cron' = sup.attempts + 1
    /\ unseen' = unseen + 1
    /\ UNCHANGED <<antenna, sup, file>>

\* The file is read again and both fields are set, unless it was removed.
CheckRecords ==
    /\ cron # None
    /\ sup' = IF sup = None THEN None ELSE [attempts |-> cron, age |-> 0]
    /\ cron' = None
    /\ UNCHANGED <<antenna, unseen, file, pc, sessionVars, posVars, boot, tries, moved>>

Supervisor == Minute \/ CheckAlive \/ CheckWaits \/ CheckLaunches \/ CheckRecords

-----------------------------------------------------------------------------
(* Start-up: identity, ephemerides, and where the position comes from *)

\* Signals, exceptions and alarms end the process at any point, --duration the
\* steady state.
Exit ==
    /\ pc # "off"
    /\ EndProcess(FALSE) \/ (pc = "steady" /\ EndProcess(TRUE))
    /\ UNCHANGED <<antenna, supVars, file>>

\* ensure_receiver_ready: a receiver that does not answer leaves the session
\* without a state file; a new one gets a file without a position.
Identify ==
    /\ pc = "identify"
    /\ \/ uid' = FALSE /\ UNCHANGED file
       \/ uid' = TRUE /\ file' = IF file = None THEN NoPosition ELSE file
    /\ pc' = "load"
    /\ UNCHANGED <<antenna, supVars, known, finished, posVars, boot, tries, moved>>

Stored == IF uid THEN file ELSE NoPosition

\* save_position_to_receiver
Saved(p) == IF uid THEN p ELSE file

\* The stored position comes first, then --known-pos, then the bootstrap.
LoadStored ==
    /\ pc = "load" /\ Stored # NoPosition
    /\ pos' = Stored.site /\ sigma' = Stored.sigma
    /\ ape' = "verifying" /\ how' = None
    /\ pc' = "validate"
    /\ UNCHANGED <<antenna, supVars, file, sessionVars, boot, tries, moved>>

LoadKnown ==
    /\ pc = "load" /\ Stored = NoPosition /\ known # None
    /\ pos' = known /\ sigma' = "fine"
    /\ ape' = "verifying" /\ how' = None
    /\ file' = Saved([site |-> known, sigma |-> "fine", source |-> "known_pos"])
    /\ pc' = "validate"
    /\ UNCHANGED <<antenna, supVars, sessionVars, boot, tries, moved>>

LoadNothing ==
    /\ pc = "load" /\ Stored = NoPosition /\ known = None
    /\ pc' = "bootstrap"
    /\ UNCHANGED <<antenna, supVars, file, sessionVars, posVars, boot, tries, moved>>

-----------------------------------------------------------------------------
(* run_bootstrap.  The one that follows a failed validation is not given   *)
(* the NAV2 store.                                                         *)

HasNav2 == pc = "bootstrap"

\* NAV2 when it has a good fix in time, else the least-squares fix.
Seed ==
    /\ pc \in Booting /\ boot.seed = None
    /\ \E seed \in IF HasNav2 THEN {"nav2", "ls"} ELSE {"ls"} :
          boot' = [boot EXCEPT !.seed = seed]
    /\ UNCHANGED <<antenna, supVars, file, pc, sessionVars, posVars, tries, moved>>

\* The resolver commits integers while the filter converges.
CommitInteger ==
    /\ pc \in Booting /\ boot.seed # None
    /\ boot' = [boot EXCEPT !.fixes = @ \union {"since"}]
    /\ UNCHANGED <<antenna, supVars, file, pc, sessionVars, posVars, tries, moved>>

\* W2 compares with NAV2 when it has a fresh opinion.
Nav2Disagrees(site, opinion) == opinion /\ site # antenna

\* The sigma a bootstrap is stored with: never below the trust threshold.
StoredSigma(s) == "coarse"

\* Both gates accept: the position is used and saved.  A bootstrap that ran
\* first leaves pos_sigma_m at None, so that the validation follows; the one
\* within the validation ends it and leaves the state machine as it is.
Converge ==
    /\ pc \in Booting /\ boot.seed # None
    /\ \E site \in Site, opinion \in BOOLEAN, s \in Sigmas :
         /\ opinion => HasNav2
         /\ ~Nav2Disagrees(site, opinion)
         /\ pos' = site
         /\ how' = IF opinion THEN "nav2" ELSE "alone"
         /\ file' = Saved([site |-> site, sigma |-> StoredSigma(s),
                            source |-> "ppp_bootstrap"])
    /\ IF pc = "bootstrap"
         THEN pc' = "validate" /\ ape' = "converging"
         ELSE pc' = "steady" /\ UNCHANGED ape
    /\ tries' = 0
    /\ UNCHANGED <<antenna, supVars, sessionVars, sigma, boot, moved>>

\* Integers that a rejected candidate leaves: none after a scrub, all of them
\* where NAV2 was the seed.
AfterReject(fixes) == IF boot.seed = "nav2" /\ fixes # {} THEN {"before"} ELSE {}

\* --bootstrap-max-retries; the variant allows one more.
MayRetryOnceMore == boot.retries <= MaxRetries
MayRetry == boot.retries < MaxRetries

\* W1 or W2 rejects the candidate.  Without retries left the engine gives up.
Reject ==
    /\ pc \in Booting /\ boot.seed # None
    /\ \/ /\ MayRetry
          /\ boot' = [boot EXCEPT !.retries = @ + 1, !.fixes = AfterReject(@)]
          /\ UNCHANGED <<pc, sessionVars, posVars, tries, moved>>
       \/ ~MayRetry /\ EndProcess(FALSE)
    /\ UNCHANGED <<antenna, supVars, file>>

-----------------------------------------------------------------------------
(* Validation and the steady state *)

\* Trusted on its stored sigma: no live fix is asked for.
SkipValidation ==
    /\ pc = "validate" /\ sigma = "fine"
    /\ ape' = "converging" /\ how' = "trusted"
    /\ pc' = "steady" /\ tries' = 0
    /\ UNCHANGED <<antenna, supVars, file, sessionVars, pos, sigma, boot, moved>>

\* Neither a state file nor --known-pos: nothing to validate against.
NotValidated ==
    /\ pc = "validate" /\ sigma # "fine" /\ uid = FALSE /\ known = None
    /\ pc' = "steady" /\ tries' = 0
    /\ UNCHANGED <<antenna, supVars, file, sessionVars, posVars, boot, moved>>

Validating == pc = "validate" /\ sigma # "fine" /\ (uid \/ known # None)

\* No observation in time, or too few satellites.  After the last try the
\* position is used all the same.
NoLiveFix ==
    /\ Validating
    /\ tries' = IF tries + 1 = LsTries THEN 0 ELSE tries + 1
    /\ IF tries + 1 = LsTries
         THEN pc' = "steady" /\ how' = IF how = None THEN "undecided" ELSE how
         ELSE UNCHANGED <<pc, how>>
    /\ UNCHANGED <<antenna, supVars, file, sessionVars, pos, sigma, ape, boot, moved>>

\* More than 100 m between the position and the live fix.  The variant takes
\* any position for near.
NearAlways(site) == TRUE
Near(site) == site = antenna

LiveFixAgrees ==
    /\ Validating /\ Near(pos)
    /\ ape' = "converging" /\ how' = "checked"
    /\ pc' = "steady" /\ tries' = 0
    /\ UNCHANGED <<antenna, supVars, file, sessionVars, pos, sigma, boot, moved>>

LiveFixDisagrees ==
    /\ Validating /\ ~Near(pos)
    /\ pos' = None /\ how' = None
    /\ boot' = FreshBoot
    /\ pc' = "rebootstrap"
    /\ UNCHANGED <<antenna, supVars, file, sessionVars, sigma, ape, tries, moved>>

\* An epoch of the steady state.  The position is saved once the clock, not
\* the position, is known to 0.1 m.
SteadyEpoch ==
    /\ pc = "steady" /\ tries < SaveAfter
    /\ tries' = tries + 1
    /\ file' = IF tries' = SaveAfter
                  THEN Saved([site |-> pos, sigma |-> "fine", source |-> "peppar_fix"])
                  ELSE file
    /\ UNCHANGED <<antenna, supVars, pc, sessionVars, posVars, boot, moved>>

\* The position found by AntPosEst is blended in until it is the one in use.
Blend ==
    /\ pc = "steady"
    /\ pos' = antenna
    /\ UNCHANGED <<antenna, supVars, file, pc, sessionVars, sigma, ape, how, boot, tries, moved>>

Engine ==
    \/ Exit \/ Identify \/ LoadStored \/ LoadKnown \/ LoadNothing
    \/ Seed \/ CommitInteger \/ Converge \/ Reject
    \/ SkipValidation \/ NotValidated \/ NoLiveFix \/ LiveFixAgrees \/ LiveFixDisagrees
    \/ SteadyEpoch \/ Blend

Next == MoveAntenna \/ OperatorStarts \/ OperatorStops \/ Supervisor \/ Engine

\* cron runs the check every minute, and time passes.
Fairness == WF_vars(Minute) /\ WF_vars(CheckLaunches) /\ WF_vars(CheckRecords)

Spec == Init /\ [][Next]_vars /\ Fairness
-----------------------------------------------------------------------------
(* Properties *)

\* When the steady state holds the wrong site fixed though the antenna stayed
\* where it was, no live check has let it through: the position was trusted
\* unseen, its checks came to no result, or a bootstrap had nothing to compare
\* itself with.
WrongSiteIsUnchecked ==
    pc = "steady" /\ ~moved /\ pos # antenna => how \in {"trusted", "undecided", "alone"}

\* An engine that is never seen running is not launched more than max_attempts
\* times, whatever the operator does to the state file meanwhile.
RelaunchesAreBounded == unseen <= MaxAttempts

\* An engine that died is launched again while attempts are left: the waiting
\* checks do not put the next attempt off.  Nothing is asked for one that came
\* to the end of its --duration, which the script means to leave alone.
DeadIsRelaunched ==
    (sup # None /\ cron = None /\ pc = "off" /\ ~finished /\ sup.attempts < MaxAttempts)
        ~> (sup = None \/ pc # "off" \/ sup.attempts = MaxAttempts)
=============================================================================
