------------------------------- MODULE Engine -------------------------------
(***************************************************************************)
(* The life of the engine process once the antenna position is known       *)
(* (scripts/peppar_fix_engine.py: run's attempt loop, run_steady_state,    *)
(* _setup_servo, _servo_epoch, _cleanup_servo) and the clock class it      *)
(* makes ptp4l announce.  An attempt opens the PHC, bootstraps the         *)
(* oscillator, sets the servo up, runs observation epochs and cleans up;   *)
(* what it returns decides between another attempt and an exit code.  A    *)
(* SIGTERM may arrive at any point.                                        *)
(*                                                                         *)
(* The servo is configured, a pmc socket is configured and its sends       *)
(* succeed.  Phase errors are inputs: each comparison with a threshold is  *)
(* a choice.                                                               *)
(***************************************************************************)
EXTENDS Naturals

CONSTANTS
    MaxAttempts,    \* max_rebootstrap, 3
    PpsTries,       \* pps_max_retries, 3
    OutlierLimit,   \* consecutive outliers that end the attempt, 30
    LargeLimit,     \* consecutive large PPS errors that end it, 3
    SettleWindow    \* small corrections that settle the scheduler, 10

ASSUME ConstantsAssumption ==
    {MaxAttempts, PpsTries, OutlierLimit, LargeLimit, SettleWindow} \subseteq Nat \ {0}

VARIABLES
    usesPhc,        \* --servo given; otherwise TICC-only
    freerun,        \* --freerun
    skip,           \* --skip-bootstrap
    tdc,            \* phase comes from the ClockMatrix TDC
    pc,             \* where the main thread is
    attempt,        \* run's _attempt
    tries,          \* set-up tries of this attempt that found no PPS
    phcOpen,        \* the PtpDevice's descriptor is open
    stop,           \* stop_event
    signalled,      \* a SIGTERM has been handled
    cls,            \* clock class last sent to ptp4l
    dfe,            \* DOFreqEst state
    holdover,       \* observation holdover (and its alarm) is active
    lagAlarm,       \* the consumption-rate alarm has been raised
    conv, settled,  \* DisciplineScheduler: converging, settled corrections
    outliers, large,\* consecutive outliers, consecutive large PPS errors
    diverged,       \* phc_diverged
    saved,          \* an oscillator frequency has been saved
    result,         \* what run_steady_state returned or raised
    exitCode

flags     == <<usesPhc, freerun, skip, tdc>>
schedVars == <<conv, settled>>
counters  == <<outliers, large, diverged>>
alarms    == <<holdover, lagAlarm>>
procVars  == <<attempt, saved, exitCode>>
vars == <<flags, pc, tries, phcOpen, stop, signalled, cls, dfe, alarms, schedVars,
          counters, procVars, result>>

Classes == {"freerun", "initialized", "locked", "holdover"}
DfeStates == {"UNINITIALIZED", "PHASE_SETTING", "FREQ_VERIFYING", "TRACKING", "HOLDOVER"}
Results == {"none", "stats", "fatal", "noPps", "diverged", "raised"}

\* The stages of an observation epoch.
InLoop == {"loop", "usable", "servo", "check"}

TypeOK ==
    /\ usesPhc \in BOOLEAN /\ freerun \in BOOLEAN /\ skip \in BOOLEAN /\ tdc \in BOOLEAN
    /\ pc \in InLoop \union {"open", "measure", "apply", "setup", "cleanup", "decide", "exited"}
    /\ attempt \in 1 .. MaxAttempts /\ tries \in 0 .. PpsTries
    /\ phcOpen \in BOOLEAN /\ stop \in BOOLEAN /\ signalled \in BOOLEAN
    /\ cls \in Classes /\ dfe \in DfeStates /\ result \in Results
    /\ holdover \in BOOLEAN /\ lagAlarm \in BOOLEAN
    /\ conv \in BOOLEAN /\ settled \in 0 .. SettleWindow
    /\ outliers \in 0 .. OutlierLimit /\ large \in 0 .. LargeLimit
    /\ diverged \in BOOLEAN /\ saved \in BOOLEAN
    /\ exitCode \in {0, 1, 3, 5}

Init ==
    /\ usesPhc \in BOOLEAN /\ freerun \in BOOLEAN /\ skip \in BOOLEAN /\ tdc \in BOOLEAN
    /\ pc = "open" /\ attempt = 1 /\ tries = 0
    /\ phcOpen = FALSE /\ stop = FALSE /\ signalled = FALSE
    /\ cls = "freerun" /\ dfe = "UNINITIALIZED" /\ result = "none"
    /\ holdover = FALSE /\ lagAlarm = FALSE
    /\ conv = TRUE /\ settled = 0 /\ outliers = 0 /\ large = 0 /\ diverged = FALSE
    /\ saved = FALSE /\ exitCode = 0

\* run_steady_state returns r without having entered its try block, so
\* neither stop nor the cleanup happens.
ReturnEarly(r) == pc' = "decide" /\ result' = r

\* It leaves the loop with r, by way of the finally clause.
LeaveLoop(r) == pc' = "cleanup" /\ result' = r

-----------------------------------------------------------------------------
(* Opening the PHC and bootstrapping the oscillator.  A failed bootstrap   *)
(* only warns.  The measurement gives up when stop is set.                 *)

Open ==
    /\ pc = "open"
    /\ phcOpen' = usesPhc
    /\ tries' = 0
    /\ IF skip \/ freerun
         THEN pc' = "setup" /\ UNCHANGED dfe
         ELSE pc' = "measure" /\ dfe' = "PHASE_SETTING"
    /\ UNCHANGED <<flags, stop, signalled, cls, alarms, schedVars, counters,
                   procVars, result>>

OpenFails ==
    /\ pc = "open" /\ usesPhc
    /\ ReturnEarly("fatal")
    /\ UNCHANGED <<flags, tries, phcOpen, stop, signalled, cls, dfe, alarms,
                   schedVars, counters, procVars>>

MeasureBootstrap ==
    /\ pc = "measure"
    /\ \/ pc' = "setup" /\ UNCHANGED dfe
       \/ ~stop /\ pc' = "apply" /\ dfe' = "FREQ_VERIFYING"
    /\ UNCHANGED <<flags, tries, phcOpen, stop, signalled, cls, alarms, schedVars,
                   counters, procVars, result>>

ApplyBootstrap ==
    /\ pc = "apply"
    /\ dfe' \in {dfe, "TRACKING"}
    /\ pc' = "setup"
    /\ UNCHANGED <<flags, tries, phcOpen, stop, signalled, cls, alarms, schedVars,
                   counters, procVars, result>>

-----------------------------------------------------------------------------
(* Servo set-up, with its retries.  The try that finds no PPS closes the   *)
(* device it was given; the next one is given the same device.             *)

SetupSucceeds ==
    /\ pc = "setup" /\ (usesPhc => phcOpen)
    /\ cls' = "initialized"
    /\ holdover' = FALSE /\ lagAlarm' = FALSE
    /\ conv' = TRUE /\ settled' = 0
    /\ outliers' = 0 /\ large' = 0 /\ diverged' = FALSE
    /\ pc' = "loop"
    /\ UNCHANGED <<flags, tries, phcOpen, stop, signalled, dfe, procVars, result>>

SetupNoPps ==
    /\ pc = "setup" /\ usesPhc /\ phcOpen
    /\ phcOpen' = FALSE
    /\ tries' = tries + 1
    /\ IF tries' < PpsTries THEN UNCHANGED <<pc, result>> ELSE ReturnEarly("noPps")
    /\ UNCHANGED <<flags, stop, signalled, cls, dfe, alarms, schedVars, counters,
                   procVars>>

SetupFails ==
    /\ pc = "setup" /\ (usesPhc => phcOpen)
    /\ phcOpen' \in {phcOpen, FALSE}
    /\ ReturnEarly("fatal")
    /\ UNCHANGED <<flags, tries, stop, signalled, cls, dfe, alarms, schedVars,
                   counters, procVars>>

\* A device call raises, as every ioctl does on a closed descriptor.
DeviceRaises ==
    /\ pc \in {"apply", "setup"}
    /\ ReturnEarly("raised")
    /\ UNCHANGED <<flags, tries, phcOpen, stop, signalled, cls, dfe, alarms,
                   schedVars, counters, procVars>>

-----------------------------------------------------------------------------
(* The head of the epoch loop: leave it, wait for observations, or take    *)
(* one that correlates with a PPS edge.                                    *)

\* The loop's condition; the variant is blind to stop.
RunningAlways == TRUE
Running == ~stop

\* The scheduler _enter_obs_holdover installs; the variant keeps the old one.
SchedulerKept == conv' = conv /\ settled' = settled
FreshScheduler == conv' = TRUE /\ settled' = 0

LoopStopped ==
    /\ pc = "loop" /\ stop
    /\ LeaveLoop("stats")
    /\ UNCHANGED <<flags, tries, phcOpen, stop, signalled, cls, dfe, alarms,
                   schedVars, counters, procVars>>

DurationOver ==
    /\ pc = "loop" /\ Running
    /\ LeaveLoop("stats")
    /\ UNCHANGED <<flags, tries, phcOpen, stop, signalled, cls, dfe, alarms,
                   schedVars, counters, procVars>>

InputIdle ==
    /\ pc = "loop" /\ Running
    /\ ~holdover
    /\ holdover' = TRUE
    /\ cls' = "holdover"
    /\ FreshScheduler
    /\ large' = 0
    /\ UNCHANGED <<flags, pc, tries, phcOpen, stop, signalled, dfe, lagAlarm,
                   outliers, diverged, procVars, result>>

UsableEpoch ==
    /\ pc = "loop" /\ Running
    /\ holdover' = FALSE
    /\ pc' = "usable"
    /\ UNCHANGED <<flags, tries, phcOpen, stop, signalled, cls, dfe, lagAlarm,
                   schedVars, counters, procVars, result>>

-----------------------------------------------------------------------------
(* The checks before the servo.  The consumption alarm is raised once.     *)
(* Stale corrections, a time step backwards or too few satellites skip     *)
(* the epoch; a position watchdog NAV2 does not overrule ends the loop.    *)

ClassAfterLag(lag) == IF lag THEN "freerun" ELSE cls

CheckLag(lag) ==
    /\ lag => ~lagAlarm
    /\ lagAlarm' = (lagAlarm \/ lag)

EpochSkipped ==
    /\ pc = "usable"
    /\ \E lag \in BOOLEAN : CheckLag(lag) /\ cls' = ClassAfterLag(lag)
    /\ pc' = "loop"
    /\ UNCHANGED <<flags, tries, phcOpen, stop, signalled, dfe, holdover, schedVars,
                   counters, procVars, result>>

EpochUsed ==
    /\ pc = "usable"
    /\ \E lag \in BOOLEAN : CheckLag(lag) /\ cls' = ClassAfterLag(lag)
    /\ pc' = "servo"
    /\ UNCHANGED <<flags, tries, phcOpen, stop, signalled, dfe, holdover, schedVars,
                   counters, procVars, result>>

WatchdogAlarm ==
    /\ pc = "usable"
    /\ \E lag \in BOOLEAN : CheckLag(lag)
    /\ cls' = "freerun"
    /\ LeaveLoop("stats")
    /\ UNCHANGED <<flags, tries, phcOpen, stop, signalled, dfe, holdover, schedVars,
                   counters, procVars>>

-----------------------------------------------------------------------------
(* The servo.  An outlier returns before the scheduler and the class see   *)
(* it.  Any other sample sets the class from the scheduler's state, is     *)
(* tested against the re-step and free-run limits, and may be flushed,     *)
(* which is where the scheduler settles or falls back.                     *)

\* Outliers that end the attempt; the variant allows one more.
TooManyOutliersLate(n) == n > OutlierLimit
TooManyOutliers(n) == n >= OutlierLimit

\* Settled corrections that end convergence; the variant takes the first.
SettlesAtOnce(n) == n >= 1
Settles(n) == n >= SettleWindow

\* The class of a servo epoch; the variant never demotes.
ServoClassSticky ==
    IF freerun THEN cls
    ELSE IF conv /\ cls # "locked" THEN "initialized" ELSE "locked"

ServoClass ==
    IF freerun THEN cls ELSE IF conv THEN "initialized" ELSE "locked"

\* DisciplineScheduler.flush of an average error below the settle threshold,
\* between the two, or above the threshold that ends the settled state.
Flush(size) ==
    CASE conv /\ size = "small" -> settled' = settled + 1 /\ conv' = ~Settles(settled + 1)
      [] conv /\ size # "small" -> settled' = 0 /\ conv' = TRUE
      [] ~conv /\ size = "big"  -> settled' = 0 /\ conv' = TRUE
      [] OTHER                  -> UNCHANGED schedVars

\* A converging scheduler corrects on every sample, a settled one when its
\* interval is full; the actuator, left alone in freerun, may raise.
Correct ==
    \/ \E size \in {"small", "medium", "big"} : Flush(size)
    \/ ~conv /\ UNCHANGED schedVars

AfterActuator ==
    \/ pc' = "check" /\ UNCHANGED result
    \/ ~freerun /\ LeaveLoop("raised")

Outlier ==
    /\ pc = "servo" /\ (conv => tdc)
    /\ outliers' = outliers + 1
    /\ diverged' = TooManyOutliers(outliers + 1)
    /\ dfe' = IF diverged' /\ ~tdc THEN "HOLDOVER" ELSE dfe
    /\ pc' = "check"
    /\ UNCHANGED <<flags, tries, phcOpen, stop, signalled, cls, alarms, schedVars,
                   large, procVars, result>>

ServoEpoch ==
    /\ pc = "servo" /\ ~tdc
    /\ outliers' = 0
    /\ cls' = ServoClass
    /\ \E far \in BOOLEAN :
         /\ large' = IF freerun THEN large ELSE IF far THEN large + 1 ELSE 0
         /\ diverged' = IF freerun THEN far ELSE large' >= LargeLimit
    /\ Correct
    /\ AfterActuator
    /\ UNCHANGED <<flags, tries, phcOpen, stop, signalled, dfe, alarms, procVars>>

TdcEpoch ==
    /\ pc = "servo" /\ tdc
    /\ \/ outliers' = 0 /\ Correct /\ AfterActuator
       \/ pc' = "check" /\ UNCHANGED <<outliers, schedVars, result>>   \* no reading
    /\ UNCHANGED <<flags, tries, phcOpen, stop, signalled, cls, dfe, alarms, large,
                   diverged, procVars>>

\* run_steady_state's test of phc_diverged; the variant dropped it.
LostNever == FALSE
Lost == diverged

EpochEnds ==
    /\ pc = "check"
    /\ IF Lost THEN cls' = "freerun" /\ LeaveLoop("diverged")
               ELSE pc' = "loop" /\ UNCHANGED <<cls, result>>
    /\ UNCHANGED <<flags, tries, phcOpen, stop, signalled, dfe, alarms, schedVars,
                   counters, procVars>>

-----------------------------------------------------------------------------
(* The finally clause sets stop, whatever ended the loop, and cleans up:   *)
(* the frequency is saved when the last adjustment is not near the rail.   *)

\* The class _cleanup_servo announces; the variant leaves the last one.
ClassAfterCleanupKept == cls
ClassAfterCleanup == "freerun"

Cleanup ==
    /\ pc = "cleanup"
    /\ stop' = TRUE
    /\ cls' = ClassAfterCleanup
    /\ phcOpen' = FALSE
    /\ \E sane \in BOOLEAN : saved' = (saved \/ (sane /\ ~freerun))
    /\ pc' = "decide"
    /\ UNCHANGED <<flags, tries, signalled, dfe, alarms, schedVars, counters,
                   attempt, exitCode, result>>

\* run's verdict on an attempt.
CodeOf(r) ==
    CASE r = "stats" -> 0 [] r = "noPps" -> 3 [] r = "diverged" -> 5 [] OTHER -> 1

Reattempt ==
    /\ pc = "decide"
    /\ result = "diverged" /\ attempt < MaxAttempts
    /\ attempt' = attempt + 1
    /\ pc' = "open"
    /\ UNCHANGED <<flags, tries, phcOpen, stop, signalled, cls, dfe, alarms,
                   schedVars, counters, saved, exitCode, result>>

Exit ==
    /\ pc = "decide"
    /\ ~(result = "diverged" /\ attempt < MaxAttempts)
    /\ exitCode' = CodeOf(result)
    /\ stop' = TRUE
    /\ pc' = "exited"
    /\ UNCHANGED <<flags, tries, phcOpen, signalled, cls, dfe, alarms, schedVars,
                   counters, attempt, saved, result>>

-----------------------------------------------------------------------------
\* SIGTERM: the handler sets stop and nothing else.
Signal ==
    /\ pc # "exited" /\ ~signalled
    /\ signalled' = TRUE
    /\ stop' = TRUE
    /\ UNCHANGED <<flags, pc, tries, phcOpen, cls, dfe, alarms, schedVars, counters,
                   procVars, result>>

MainThread ==
    \/ Open \/ OpenFails \/ MeasureBootstrap \/ ApplyBootstrap
    \/ SetupSucceeds \/ SetupNoPps \/ SetupFails \/ DeviceRaises
    \/ LoopStopped \/ DurationOver \/ InputIdle \/ UsableEpoch
    \/ EpochSkipped \/ EpochUsed \/ WatchdogAlarm
    \/ Outlier \/ ServoEpoch \/ TdcEpoch \/ EpochEnds
    \/ Cleanup \/ Reattempt \/ Exit

\* Ctrl-C raises in the main thread: the epoch loop swallows it and returns
\* its statistics; before the loop it ends run, with the exit code still 0.
InterruptLoop ==
    /\ pc \in InLoop
    /\ LeaveLoop("stats")
    /\ UNCHANGED <<flags, tries, phcOpen, stop, signalled, cls, dfe, alarms,
                   schedVars, counters, procVars>>

InterruptStart ==
    /\ pc \in {"open", "measure", "apply", "setup"}
    /\ stop' = TRUE
    /\ pc' = "exited"
    /\ UNCHANGED <<flags, tries, phcOpen, signalled, cls, dfe, alarms, schedVars,
                   counters, procVars, result>>

Next == MainThread \/ Signal \/ InterruptLoop \/ InterruptStart

Spec == Init /\ [][Next]_vars

\* Every blocking call of the main thread has a timeout.
LiveSpec == Spec /\ WF_vars(MainThread)

-----------------------------------------------------------------------------
(* Properties *)

\* Outside the epoch loop and its cleanup ptp4l is told freerun: however an
\* attempt ends, and between attempts, no better class is left announced by
\* a clock nobody steers.  And no clock is announced locked in freerun, in
\* holdover, or by the TDC servo, which does not judge itself.
UnsteeredIsFreerun ==
    /\ pc \notin InLoop \union {"cleanup"} => cls = "freerun"
    /\ cls = "locked" => ~freerun /\ ~holdover /\ ~tdc

\* Class locked is taken up only after SettleWindow small corrections in a
\* row since the servo was set up, fell back or last was in holdover.
LockedIsEarned ==
    [][cls # "locked" /\ cls' = "locked" => settled >= SettleWindow]_vars

\* A scheduler that has left the settled state costs the clock its class with
\* the next sample the servo accepts or rejects.
UnsettledIsDemoted ==
    [][pc = "servo" /\ conv /\ pc' = "check" => cls' # "locked"]_vars

\* The first class after holdover is never locked, however soon observations
\* return.
HoldoverRequalifies == [][cls = "holdover" => cls' # "locked"]_vars

\* Once the estimator has reported HOLDOVER, which it does on losing control,
\* the epoch's end takes the class away and no later attempt regains it.
LostServoNeverRelocks ==
    dfe = "HOLDOVER" /\ pc \in {"loop", "usable", "servo"} => cls # "locked"

\* What ptp4l's clients see of all this is the ladder of ClockClass, for which
\* everything but an epoch of the servo, its set-up, its holdover, its alarms
\* and its cleanup is a stutter.
Ladder == INSTANCE ClockClass WITH
    Window <- SettleWindow,
    judged <- ~freerun /\ ~tdc,
    serving <- pc \in InLoop \union {"cleanup"},
    credit <- settled
ImplementsLadder == Ladder!Spec

\* A SIGTERM ends the process, whatever it interrupts: set-up, holdover, an
\* epoch or the way to another attempt.
StopIsHonoured == signalled ~> pc = "exited"

\* What run announces when it tries again ("internal re-bootstrap"): a new
\* attempt enters its epoch loop able to run, unless the operator stopped it.
ReattemptsRun == pc = "loop" /\ attempt > 1 /\ ~signalled /\ ~freerun => ~stop

=============================================================================
