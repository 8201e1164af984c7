---------------------------- MODULE Engine_proofs ----------------------------
(***************************************************************************)
(* Proofs about Engine, for every number of attempts and every limit.      *)
(*                                                                         *)
(* The inductive invariant adds three facts to the types.  Bounded ties    *)
(* the scheduler's flag to its count and the counters to phc_diverged.     *)
(* Announced ties the clock class to the place of the main thread and to   *)
(* the holdover's fresh scheduler.  LostIsOut follows a lost servo through *)
(* the cleanup, which sets stop, into attempts whose loop cannot run.      *)
(***************************************************************************)
EXTENDS Engine, TLAPS

Bounded ==
    /\ conv => settled < SettleWindow
    /\ ~conv => settled = SettleWindow
    /\ ~diverged => outliers < OutlierLimit /\ large < LargeLimit
    /\ pc \in {"loop", "usable", "servo"} => ~diverged
    /\ pc \in {"measure", "apply", "setup"} /\ phcOpen => tries = 0

Announced ==
    /\ UnsteeredIsFreerun
    /\ pc \in {"usable", "servo", "check"} => ~holdover
    /\ cls = "holdover" /\ ~freerun /\ ~tdc => conv

LostIsOut ==
    dfe = "HOLDOVER" =>
        /\ pc \notin {"usable", "servo"}
        /\ pc = "check" => diverged
        /\ pc = "loop" => stop /\ cls = "initialized"
        /\ pc \in {"decide", "open", "measure", "apply", "setup"} => stop

IInv == TypeOK /\ Bounded /\ Announced /\ LostIsOut

\* The limits as numbers.
LEMMA Limits ==
    /\ MaxAttempts \in Nat /\ MaxAttempts > 0
    /\ PpsTries \in Nat /\ PpsTries > 0
    /\ OutlierLimit \in Nat /\ OutlierLimit > 0
    /\ LargeLimit \in Nat /\ LargeLimit > 0
    /\ SettleWindow \in Nat /\ SettleWindow > 0
  BY ConstantsAssumption

\* The invariant holds when the process starts.
LEMMA InitIInv == Init => IInv
<1> SUFFICES ASSUME Init PROVE IInv
  OBVIOUS
<1>1. /\ pc = "open" /\ cls = "freerun" /\ dfe = "UNINITIALIZED" /\ holdover = FALSE
      /\ conv = TRUE /\ settled = 0 /\ outliers = 0 /\ large = 0 /\ diverged = FALSE
  BY DEF Init
<1>2. TypeOK
  <2>1. /\ {usesPhc, freerun, skip, tdc} \subseteq BOOLEAN
        /\ {phcOpen, stop, signalled, holdover, lagAlarm} \subseteq BOOLEAN
        /\ {conv, diverged, saved} \subseteq BOOLEAN
    BY DEF Init
  <2>2. attempt = 1 /\ tries = 0 /\ result = "none" /\ exitCode = 0
    BY DEF Init
  <2>3. pc = "open" /\ cls = "freerun" /\ dfe = "UNINITIALIZED" /\ settled = 0
        /\ outliers = 0 /\ large = 0
    BY <1>1
  <2>4. QED
    BY <2>1, <2>2, <2>3, Limits DEF TypeOK, Classes, DfeStates, Results
<1>3. Bounded
  BY <1>1, Limits DEF Bounded
<1>4. Announced /\ LostIsOut
  BY <1>1 DEF Announced, UnsteeredIsFreerun, LostIsOut
<1>5. QED
  BY <1>2, <1>3, <1>4 DEF IInv

\* A correction leaves the scheduler's count and flag in step.
LEMMA CorrectKeeps ==
    ASSUME TypeOK, Bounded, Correct
    PROVE  /\ conv' \in BOOLEAN /\ settled' \in 0 .. SettleWindow
           /\ conv' => settled' < SettleWindow
           /\ ~conv' => settled' = SettleWindow
<1>1. CASE UNCHANGED schedVars
  BY <1>1 DEF TypeOK, Bounded, schedVars
<1>2. ASSUME NEW size \in {"small", "medium", "big"}, Flush(size)
      PROVE  \/ UNCHANGED schedVars
             \/ settled' = 0 /\ conv' = TRUE
             \/ conv /\ settled' = settled + 1 /\ conv' = ~Settles(settled + 1)
  BY <1>2 DEF Flush
<1>3. CASE settled' = 0 /\ conv' = TRUE
  <2>1. conv' /\ conv' \in BOOLEAN
    BY <1>3
  <2>2. QED
    BY <1>3, <2>1, Limits
<1>4. CASE conv /\ settled' = settled + 1 /\ conv' = ~Settles(settled + 1)
  <2>1. settled \in Nat /\ settled < SettleWindow
    BY <1>4 DEF TypeOK, Bounded
  <2>2. CASE Settles(settled + 1)
    <3>1. ~conv' /\ conv' \in BOOLEAN
      BY <1>4, <2>2
    <3>2. settled' = SettleWindow
      BY <1>4, <2>1, <2>2, Limits DEF Settles
    <3>3. QED
      BY <3>1, <3>2, Limits
  <2>3. CASE ~Settles(settled + 1)
    <3>1. conv' /\ conv' \in BOOLEAN
      BY <1>4, <2>3
    <3>2. settled' < SettleWindow /\ settled' \in Nat
      BY <1>4, <2>1, <2>3, Limits DEF Settles
    <3>3. QED
      BY <3>1, <3>2, Limits
  <2>4. QED
    BY <2>2, <2>3
<1>5. QED
  BY <1>1, <1>2, <1>3, <1>4 DEF Correct

\* Every step keeps the types; the counters stay within their limits because
\* the step that reaches one ends the attempt.
LEMMA TypeStep ==
    ASSUME TypeOK, Bounded, [Next]_vars
    PROVE  TypeOK'
<1> USE Limits DEF TypeOK, Bounded, InLoop, Classes, DfeStates, Results, vars,
        flags, schedVars, counters, alarms, procVars
<1>1. CASE Open
  BY <1>1 DEF Open
<1>2. CASE OpenFails
  BY <1>2 DEF OpenFails, ReturnEarly
<1>3. CASE MeasureBootstrap
  BY <1>3 DEF MeasureBootstrap
<1>4. CASE ApplyBootstrap
  BY <1>4 DEF ApplyBootstrap
<1>5. CASE SetupSucceeds
  <2>1. /\ cls' = "initialized" /\ pc' = "loop" /\ UNCHANGED <<flags, tries, phcOpen>>
        /\ settled' = 0 /\ outliers' = 0 /\ large' = 0
        /\ {holdover', lagAlarm', conv', diverged'} \subseteq BOOLEAN
        /\ UNCHANGED <<stop, signalled, dfe, procVars, result>>
    BY <1>5 DEF SetupSucceeds
  <2>2. QED
    BY <2>1
<1>6. CASE SetupNoPps
  <2>1. /\ phcOpen' \in BOOLEAN /\ tries' = tries + 1 /\ tries = 0
        /\ UNCHANGED <<flags, stop, signalled, cls, dfe, alarms, schedVars, counters, procVars>>
    BY <1>6 DEF SetupNoPps, Bounded
  <2>2. pc' \in {"setup", "decide"} /\ result' \in {result, "noPps"}
    BY <1>6 DEF SetupNoPps, ReturnEarly
  <2>3. QED
    BY <2>1, <2>2
<1>7. CASE SetupFails
  <2>1. /\ pc' = "decide" /\ result' = "fatal" /\ UNCHANGED <<flags, tries, stop, signalled>>
        /\ UNCHANGED <<cls, dfe, alarms, schedVars, counters, procVars>>
    BY <1>7 DEF SetupFails, ReturnEarly
  <2>2. phcOpen' \in BOOLEAN
    BY <1>7 DEF SetupFails, TypeOK
  <2>3. QED
    BY <2>1, <2>2
<1>8. CASE DeviceRaises
  BY <1>8 DEF DeviceRaises, ReturnEarly
<1>9. CASE LoopStopped
  BY <1>9 DEF LoopStopped, LeaveLoop
<1>10. CASE DurationOver
  BY <1>10 DEF DurationOver, LeaveLoop
<1>11. CASE InputIdle
  BY <1>11 DEF InputIdle, FreshScheduler
<1>12. CASE UsableEpoch
  <2>1. /\ pc' = "usable" /\ holdover' \in BOOLEAN /\ UNCHANGED <<flags, tries, phcOpen, stop>>
        /\ UNCHANGED <<signalled, cls, dfe, lagAlarm, schedVars, counters, procVars, result>>
    BY <1>12 DEF UsableEpoch
  <2>2. QED
    BY <2>1
<1>13. CASE EpochSkipped
  BY <1>13 DEF EpochSkipped, CheckLag, ClassAfterLag
<1>14. CASE EpochUsed
  BY <1>14 DEF EpochUsed, CheckLag, ClassAfterLag
<1>15. CASE WatchdogAlarm
  BY <1>15 DEF WatchdogAlarm, CheckLag, LeaveLoop
<1>16. CASE Outlier
  BY <1>16 DEF Outlier, TooManyOutliers
<1>17. CASE ServoEpoch
  <2>1. /\ outliers' = 0 /\ UNCHANGED <<flags, tries, phcOpen, stop, signalled>>
        /\ UNCHANGED <<dfe, alarms, procVars>>
    BY <1>17 DEF ServoEpoch
  <2>2. cls' \in Classes
    BY <1>17 DEF ServoEpoch, ServoClass, TypeOK, Classes
  <2>3. large' \in 0 .. LargeLimit /\ diverged' \in BOOLEAN
    BY <1>17, Limits DEF ServoEpoch, TypeOK, Bounded
  <2>4. pc' \in {"check", "cleanup"} /\ result' \in {result, "raised"}
    BY <1>17 DEF ServoEpoch, AfterActuator, LeaveLoop
  <2>5. conv' \in BOOLEAN /\ settled' \in 0 .. SettleWindow
    BY <1>17, CorrectKeeps DEF ServoEpoch
  <2>6. QED
    BY <2>1, <2>2, <2>3, <2>4, <2>5, Limits DEF TypeOK, InLoop, Results, flags, alarms, procVars
<1>18. CASE TdcEpoch
  <2>1. /\ UNCHANGED <<flags, tries, phcOpen, stop, signalled, cls, dfe, alarms>>
        /\ UNCHANGED <<large, diverged, procVars>>
    BY <1>18 DEF TdcEpoch
  <2>2. outliers' \in {0, outliers} /\ pc' \in {"check", "cleanup"} /\ result' \in {result, "raised"}
    BY <1>18 DEF TdcEpoch, AfterActuator, LeaveLoop
  <2>3. conv' \in BOOLEAN /\ settled' \in 0 .. SettleWindow
    BY <1>18, CorrectKeeps DEF TdcEpoch, TypeOK, schedVars
  <2>4. QED
    BY <2>1, <2>2, <2>3, Limits DEF TypeOK, InLoop, Results, flags, alarms, procVars
<1>19. CASE EpochEnds
  BY <1>19 DEF EpochEnds, Lost, LeaveLoop
<1>20. CASE Cleanup
  <2>1. /\ stop' \in BOOLEAN /\ cls' = "freerun" /\ phcOpen' \in BOOLEAN /\ pc' = "decide"
        /\ UNCHANGED <<flags, tries, signalled, dfe, alarms, schedVars, counters>>
        /\ UNCHANGED <<attempt, exitCode, result>>
    BY <1>20 DEF Cleanup, ClassAfterCleanup
  <2>2. saved' \in BOOLEAN
    BY <1>20, Zenon DEF Cleanup, TypeOK
  <2>3. QED
    BY <2>1, <2>2
<1>21. CASE Reattempt
  BY <1>21 DEF Reattempt
<1>22. CASE Exit
  BY <1>22 DEF Exit, CodeOf
<1>23. CASE Signal
  BY <1>23 DEF Signal
<1>24. CASE InterruptLoop
  BY <1>24 DEF InterruptLoop, LeaveLoop
<1>25. CASE InterruptStart
  BY <1>25 DEF InterruptStart
<1>26. CASE UNCHANGED vars
  BY <1>26
<1>27. QED
  BY <1>1, <1>2, <1>3, <1>4, <1>5, <1>6, <1>7, <1>8, <1>9, <1>10, <1>11,
     <1>12, <1>13, <1>14, <1>15, <1>16, <1>17, <1>18, <1>19, <1>20, <1>21,
     <1>22, <1>23, <1>24, <1>25, <1>26
     DEF Next, MainThread

\* Every step keeps the scheduler and the counters where TypeStep needs them.
LEMMA BoundedStep ==
    ASSUME TypeOK, Bounded, [Next]_vars
    PROVE  Bounded'
<1> USE Limits DEF TypeOK, Bounded, InLoop, vars, flags, schedVars, counters,
        alarms, procVars
<1>1. CASE Open
  BY <1>1 DEF Open
<1>2. CASE OpenFails
  BY <1>2 DEF OpenFails, ReturnEarly
<1>3. CASE MeasureBootstrap
  BY <1>3 DEF MeasureBootstrap
<1>4. CASE ApplyBootstrap
  BY <1>4 DEF ApplyBootstrap
<1>5. CASE SetupSucceeds
  BY <1>5 DEF SetupSucceeds
<1>6. CASE SetupNoPps
  BY <1>6 DEF SetupNoPps, ReturnEarly
<1>7. CASE SetupFails
  BY <1>7 DEF SetupFails, ReturnEarly
<1>8. CASE DeviceRaises
  BY <1>8 DEF DeviceRaises, ReturnEarly
<1>9. CASE LoopStopped
  BY <1>9 DEF LoopStopped, LeaveLoop
<1>10. CASE DurationOver
  BY <1>10 DEF DurationOver, LeaveLoop
<1>11. CASE InputIdle
  BY <1>11 DEF InputIdle, FreshScheduler
<1>12. CASE UsableEpoch
  BY <1>12 DEF UsableEpoch
<1>13. CASE EpochSkipped
  BY <1>13 DEF EpochSkipped, CheckLag, ClassAfterLag
<1>14. CASE EpochUsed
  BY <1>14 DEF EpochUsed, CheckLag, ClassAfterLag
<1>15. CASE WatchdogAlarm
  BY <1>15 DEF WatchdogAlarm, CheckLag, LeaveLoop
<1>16. CASE Outlier
  <2>1. /\ outliers' = outliers + 1 /\ pc' = "check" /\ UNCHANGED <<large, schedVars>>
        /\ diverged' = (outliers + 1 >= OutlierLimit)
        /\ pc = "servo"
    BY <1>16 DEF Outlier, TooManyOutliers
  <2>2. ~diverged' => outliers' < OutlierLimit /\ large' < LargeLimit
    <3>1. ~diverged' => ~(outliers + 1 >= OutlierLimit)
      BY <2>1
    <3>2. QED
      BY <2>1, <3>1, Limits DEF TypeOK, Bounded
  <2>3. QED
    BY <2>1, <2>2 DEF TypeOK, Bounded, schedVars
<1>17. CASE ServoEpoch
  BY <1>17 DEF ServoEpoch, ServoClass, Correct, Flush, Settles, AfterActuator,
     LeaveLoop
<1>18. CASE TdcEpoch
  BY <1>18 DEF TdcEpoch, Correct, Flush, Settles, AfterActuator, LeaveLoop
<1>19. CASE EpochEnds
  BY <1>19 DEF EpochEnds, Lost, LeaveLoop
<1>20. CASE Cleanup
  BY <1>20 DEF Cleanup, ClassAfterCleanup
<1>21. CASE Reattempt
  BY <1>21 DEF Reattempt
<1>22. CASE Exit
  BY <1>22 DEF Exit, CodeOf
<1>23. CASE Signal
  BY <1>23 DEF Signal
<1>24. CASE InterruptLoop
  BY <1>24 DEF InterruptLoop, LeaveLoop
<1>25. CASE InterruptStart
  BY <1>25 DEF InterruptStart
<1>26. CASE UNCHANGED vars
  BY <1>26
<1>27. QED
  BY <1>1, <1>2, <1>3, <1>4, <1>5, <1>6, <1>7, <1>8, <1>9, <1>10, <1>11,
     <1>12, <1>13, <1>14, <1>15, <1>16, <1>17, <1>18, <1>19, <1>20, <1>21,
     <1>22, <1>23, <1>24, <1>25, <1>26
     DEF Next, MainThread

\* Every step keeps the announced class within what the thread does.
LEMMA ClassStep ==
    ASSUME TypeOK, Bounded, Announced, [Next]_vars
    PROVE  Announced'
<1> USE Limits DEF TypeOK, Bounded, Announced, UnsteeredIsFreerun, InLoop,
        Classes, vars, flags, schedVars, counters, alarms, procVars
<1>1. CASE Open
  BY <1>1 DEF Open
<1>2. CASE OpenFails
  BY <1>2 DEF OpenFails, ReturnEarly
<1>3. CASE MeasureBootstrap
  BY <1>3 DEF MeasureBootstrap
<1>4. CASE ApplyBootstrap
  BY <1>4 DEF ApplyBootstrap
<1>5. CASE SetupSucceeds
  BY <1>5 DEF SetupSucceeds
<1>6. CASE SetupNoPps
  BY <1>6 DEF SetupNoPps, ReturnEarly
<1>7. CASE SetupFails
  BY <1>7 DEF SetupFails, ReturnEarly
<1>8. CASE DeviceRaises
  BY <1>8 DEF DeviceRaises, ReturnEarly
<1>9. CASE LoopStopped
  BY <1>9 DEF LoopStopped, LeaveLoop
<1>10. CASE DurationOver
  BY <1>10 DEF DurationOver, LeaveLoop
<1>11. CASE InputIdle
  BY <1>11 DEF InputIdle, FreshScheduler
<1>12. CASE UsableEpoch
  BY <1>12 DEF UsableEpoch
<1>13. CASE EpochSkipped
  BY <1>13 DEF EpochSkipped, CheckLag, ClassAfterLag
<1>14. CASE EpochUsed
  BY <1>14 DEF EpochUsed, CheckLag, ClassAfterLag
<1>15. CASE WatchdogAlarm
  BY <1>15 DEF WatchdogAlarm, CheckLag, LeaveLoop
<1>16. CASE Outlier
  BY <1>16 DEF Outlier, TooManyOutliers
<1>17. CASE ServoEpoch
  BY <1>17 DEF ServoEpoch, ServoClass, Correct, Flush, Settles, AfterActuator,
     LeaveLoop
<1>18. CASE TdcEpoch
  BY <1>18 DEF TdcEpoch, Correct, Flush, Settles, AfterActuator, LeaveLoop
<1>19. CASE EpochEnds
  BY <1>19 DEF EpochEnds, Lost, LeaveLoop
<1>20. CASE Cleanup
  BY <1>20 DEF Cleanup, ClassAfterCleanup
<1>21. CASE Reattempt
  BY <1>21 DEF Reattempt
<1>22. CASE Exit
  BY <1>22 DEF Exit, CodeOf
<1>23. CASE Signal
  BY <1>23 DEF Signal
<1>24. CASE InterruptLoop
  BY <1>24 DEF InterruptLoop, LeaveLoop
<1>25. CASE InterruptStart
  BY <1>25 DEF InterruptStart
<1>26. CASE UNCHANGED vars
  BY <1>26
<1>27. QED
  BY <1>1, <1>2, <1>3, <1>4, <1>5, <1>6, <1>7, <1>8, <1>9, <1>10, <1>11,
     <1>12, <1>13, <1>14, <1>15, <1>16, <1>17, <1>18, <1>19, <1>20, <1>21,
     <1>22, <1>23, <1>24, <1>25, <1>26
     DEF Next, MainThread

\* Every step keeps a lost servo out of the epoch loop.
LEMMA LostStep ==
    ASSUME TypeOK, Bounded, LostIsOut, [Next]_vars
    PROVE  LostIsOut'
<1> USE Limits DEF TypeOK, Bounded, LostIsOut, InLoop, vars, flags, schedVars,
        counters, alarms, procVars
<1>1. CASE Open
  BY <1>1 DEF Open
<1>2. CASE OpenFails
  BY <1>2 DEF OpenFails, ReturnEarly
<1>3. CASE MeasureBootstrap
  BY <1>3 DEF MeasureBootstrap
<1>4. CASE ApplyBootstrap
  BY <1>4 DEF ApplyBootstrap
<1>5. CASE SetupSucceeds
  BY <1>5 DEF SetupSucceeds
<1>6. CASE SetupNoPps
  BY <1>6 DEF SetupNoPps, ReturnEarly
<1>7. CASE SetupFails
  BY <1>7 DEF SetupFails, ReturnEarly
<1>8. CASE DeviceRaises
  BY <1>8 DEF DeviceRaises, ReturnEarly
<1>9. CASE LoopStopped
  BY <1>9 DEF LoopStopped, LeaveLoop
<1>10. CASE DurationOver
  BY <1>10 DEF DurationOver, LeaveLoop
<1>11. CASE InputIdle
  BY <1>11 DEF InputIdle, FreshScheduler, Running
<1>12. CASE UsableEpoch
  BY <1>12 DEF UsableEpoch, Running
<1>13. CASE EpochSkipped
  BY <1>13 DEF EpochSkipped, CheckLag, ClassAfterLag
<1>14. CASE EpochUsed
  BY <1>14 DEF EpochUsed, CheckLag, ClassAfterLag
<1>15. CASE WatchdogAlarm
  BY <1>15 DEF WatchdogAlarm, CheckLag, LeaveLoop
<1>16. CASE Outlier
  BY <1>16 DEF Outlier, TooManyOutliers
<1>17. CASE ServoEpoch
  BY <1>17 DEF ServoEpoch, ServoClass, Correct, Flush, Settles, AfterActuator,
     LeaveLoop
<1>18. CASE TdcEpoch
  BY <1>18 DEF TdcEpoch, Correct, Flush, Settles, AfterActuator, LeaveLoop
<1>19. CASE EpochEnds
  BY <1>19 DEF EpochEnds, Lost, LeaveLoop
<1>20. CASE Cleanup
  BY <1>20 DEF Cleanup, ClassAfterCleanup
<1>21. CASE Reattempt
  BY <1>21 DEF Reattempt
<1>22. CASE Exit
  BY <1>22 DEF Exit, CodeOf
<1>23. CASE Signal
  BY <1>23 DEF Signal
<1>24. CASE InterruptLoop
  BY <1>24 DEF InterruptLoop, LeaveLoop
<1>25. CASE InterruptStart
  BY <1>25 DEF InterruptStart
<1>26. CASE UNCHANGED vars
  BY <1>26
<1>27. QED
  BY <1>1, <1>2, <1>3, <1>4, <1>5, <1>6, <1>7, <1>8, <1>9, <1>10, <1>11,
     <1>12, <1>13, <1>14, <1>15, <1>16, <1>17, <1>18, <1>19, <1>20, <1>21,
     <1>22, <1>23, <1>24, <1>25, <1>26
     DEF Next, MainThread

\* Only a PPS servo epoch can raise the class to locked.
LEMMA OnlyServoLocks ==
    ASSUME [Next]_vars, cls # "locked", cls' = "locked"
    PROVE  ServoEpoch
<1>1. \/ UNCHANGED vars
      \/ Open \/ OpenFails \/ MeasureBootstrap \/ ApplyBootstrap \/ SetupSucceeds
      \/ SetupNoPps \/ SetupFails \/ DeviceRaises \/ LoopStopped \/ DurationOver
      \/ InputIdle \/ UsableEpoch \/ EpochSkipped \/ EpochUsed \/ WatchdogAlarm
      \/ Outlier \/ ServoEpoch \/ TdcEpoch \/ EpochEnds \/ Cleanup
      \/ Reattempt \/ Exit \/ Signal \/ InterruptLoop \/ InterruptStart
  BY DEF Next, MainThread
<1>2. QED
  BY <1>1 DEF Open, OpenFails, ReturnEarly, MeasureBootstrap, ApplyBootstrap,
     SetupSucceeds, SetupNoPps, SetupFails, DeviceRaises, LoopStopped,
     LeaveLoop, DurationOver, InputIdle, FreshScheduler, UsableEpoch,
     EpochSkipped, CheckLag, ClassAfterLag, EpochUsed, WatchdogAlarm, Outlier,
     TooManyOutliers, TdcEpoch, Correct, Flush, Settles, AfterActuator,
     EpochEnds, Lost, Cleanup, ClassAfterCleanup, Reattempt, Exit, CodeOf,
     Signal, InterruptLoop, InterruptStart, vars

\* Only the servo's actions lead from the servo to the end of the epoch.
LEMMA OnlyServoReachesCheck ==
    ASSUME [Next]_vars, pc = "servo", pc' = "check"
    PROVE  ServoEpoch \/ Outlier \/ TdcEpoch
<1>1. \/ UNCHANGED vars
      \/ Open \/ OpenFails \/ MeasureBootstrap \/ ApplyBootstrap \/ SetupSucceeds
      \/ SetupNoPps \/ SetupFails \/ DeviceRaises \/ LoopStopped \/ DurationOver
      \/ InputIdle \/ UsableEpoch \/ EpochSkipped \/ EpochUsed \/ WatchdogAlarm
      \/ Outlier \/ ServoEpoch \/ TdcEpoch \/ EpochEnds \/ Cleanup
      \/ Reattempt \/ Exit \/ Signal \/ InterruptLoop \/ InterruptStart
  BY DEF Next, MainThread
<1>2. QED
  BY <1>1 DEF Open, OpenFails, ReturnEarly, MeasureBootstrap, ApplyBootstrap,
     SetupSucceeds, SetupNoPps, SetupFails, DeviceRaises, LoopStopped,
     LeaveLoop, DurationOver, InputIdle, FreshScheduler, UsableEpoch,
     EpochSkipped, CheckLag, ClassAfterLag, EpochUsed, WatchdogAlarm,
     EpochEnds, Lost, Cleanup, ClassAfterCleanup, Reattempt, Exit, CodeOf,
     Signal, InterruptLoop, InterruptStart, vars

\* Every step keeps the invariant.
LEMMA StepIInv == IInv /\ [Next]_vars => IInv'
  BY TypeStep, BoundedStep, ClassStep, LostStep DEF IInv

\* So it always holds.
LEMMA InductiveInvariant == Spec => []IInv
<1>1. QED
  BY InitIInv, StepIInv, PTL DEF Spec

-----------------------------------------------------------------------------
\* The engine's variables keep their types: no attempt, retry, outlier or
\* settle counter passes its limit.
THEOREM TypeCorrect == Spec => []TypeOK
<1>1. IInv => TypeOK
  BY DEF IInv
<1>2. QED
  BY <1>1, InductiveInvariant, PTL

\* However an attempt ends, ptp4l has been told freerun when it is over; and
\* locked is never announced in freerun, in holdover or for the TDC servo.
THEOREM UnsteeredHolds == Spec => []UnsteeredIsFreerun
<1>1. IInv => UnsteeredIsFreerun
  BY DEF IInv, Announced
<1>2. QED
  BY <1>1, InductiveInvariant, PTL

\* A servo that has lost control never announces locked again.
THEOREM LostHolds == Spec => []LostServoNeverRelocks
<1>1. IInv => LostServoNeverRelocks
  BY DEF IInv, LostIsOut, LostServoNeverRelocks
<1>2. QED
  BY <1>1, InductiveInvariant, PTL

\* Class locked is taken up only after SettleWindow small corrections in a row.
THEOREM LockedEarned == Spec => LockedIsEarned
<1>1. IInv /\ [Next]_vars
        => (cls # "locked" /\ cls' = "locked" => settled >= SettleWindow)
  <2> SUFFICES ASSUME IInv, [Next]_vars, cls # "locked", cls' = "locked"
               PROVE  settled >= SettleWindow
    OBVIOUS
  <2>1. ServoEpoch
    BY OnlyServoLocks
  <2>2. ~conv
    BY <2>1 DEF ServoEpoch, ServoClass
  <2>3. QED
    BY <2>2, Limits DEF IInv, Bounded
<1>2. IInv /\ [Next]_vars => [cls # "locked" /\ cls' = "locked" => settled >= SettleWindow]_vars
  BY <1>1
<1>3. QED
  BY <1>2, InductiveInvariant, PTL DEF Spec, LockedIsEarned

\* The class that follows holdover is never locked.
THEOREM HoldoverRequalified == Spec => HoldoverRequalifies
<1>1. IInv /\ [Next]_vars => (cls = "holdover" => cls' # "locked")
  <2> SUFFICES ASSUME IInv, [Next]_vars, cls = "holdover", cls' = "locked"
               PROVE  FALSE
    OBVIOUS
  <2>1. ServoEpoch
    BY OnlyServoLocks
  <2>2. ~conv /\ ~freerun /\ ~tdc
    BY <2>1 DEF ServoEpoch, ServoClass
  <2>3. QED
    BY <2>2 DEF IInv, Announced
<1>2. IInv /\ [Next]_vars => [cls = "holdover" => cls' # "locked"]_vars
  BY <1>1
<1>3. QED
  BY <1>2, InductiveInvariant, PTL DEF Spec, HoldoverRequalifies

\* A sample taken while the scheduler converges leaves no locked class behind.
THEOREM UnsettledDemoted == Spec => UnsettledIsDemoted
<1>1. IInv /\ [Next]_vars
        => (pc = "servo" /\ conv /\ pc' = "check" => cls' # "locked")
  <2> SUFFICES ASSUME IInv, [Next]_vars, pc = "servo", conv, pc' = "check"
               PROVE  cls' # "locked"
    OBVIOUS
  <2>1. UnsteeredIsFreerun
    BY DEF IInv, Announced
  <2>2. CASE ServoEpoch
    BY <2>1, <2>2 DEF ServoEpoch, ServoClass, UnsteeredIsFreerun
  <2>3. CASE Outlier
    BY <2>1, <2>3 DEF Outlier, UnsteeredIsFreerun
  <2>4. CASE TdcEpoch
    BY <2>1, <2>4 DEF TdcEpoch, UnsteeredIsFreerun
  <2>5. ServoEpoch \/ Outlier \/ TdcEpoch
    BY OnlyServoReachesCheck
  <2>6. QED
    BY <2>2, <2>3, <2>4, <2>5
<1>2. IInv /\ [Next]_vars
        => [pc = "servo" /\ conv /\ pc' = "check" => cls' # "locked"]_vars
  BY <1>1
<1>3. QED
  BY <1>2, InductiveInvariant, PTL DEF Spec, UnsettledIsDemoted

-----------------------------------------------------------------------------
\* A correction adds one settled correction at most, keeps or drops them all.
LEMMA CorrectCredits ==
    ASSUME TypeOK, Bounded, Correct
    PROVE  settled' \in {0, settled} \union ({settled + 1} \intersect 0 .. SettleWindow)
<1>1. settled \in Nat /\ settled <= SettleWindow /\ SettleWindow \in Nat
  BY Limits DEF TypeOK
<1>2. \/ settled' = 0
      \/ settled' = settled
      \/ conv /\ settled' = settled + 1
  BY DEF Correct, Flush, schedVars
<1>3. conv => settled + 1 \in 0 .. SettleWindow
  <2>1. conv => settled < SettleWindow
    BY DEF Bounded
  <2>2. QED
    BY <1>1, <2>1
<1>4. QED
  BY <1>2, <1>3

\* The steps the ladder does not see.
LEMMA Stutters ==
    ASSUME pc' \in InLoop \union {"cleanup"} <=> pc \in InLoop \union {"cleanup"},
           UNCHANGED <<freerun, tdc, cls, settled>>
    PROVE  UNCHANGED Ladder!vars
BY DEF Ladder!vars, InLoop

\* An epoch of either servo is a sample, judged unless the engine is told not
\* to steer or the phase is the TDC's.
LEMMA EpochIsSample ==
    ASSUME TypeOK, Bounded, UnsteeredIsFreerun, ServoEpoch \/ TdcEpoch
    PROVE  Ladder!Sample
<1>1. pc = "servo" /\ pc' \in {"check", "cleanup"} /\ UNCHANGED <<freerun, tdc>>
  BY DEF ServoEpoch, TdcEpoch, AfterActuator, LeaveLoop, flags
<1>2. settled' \in {0, settled} \union ({settled + 1} \intersect 0 .. SettleWindow)
  BY CorrectCredits DEF ServoEpoch, TdcEpoch, schedVars
<1>3. cls' = IF ~(~freerun /\ ~tdc) THEN cls
             ELSE IF settled = SettleWindow THEN "locked" ELSE "initialized"
  <2>1. CASE ServoEpoch
    <3>1. cls' = IF freerun THEN cls ELSE IF conv THEN "initialized" ELSE "locked"
      BY <2>1 DEF ServoEpoch, ServoClass
    <3>2. ~tdc
      BY <2>1 DEF ServoEpoch
    <3>3. conv => settled # SettleWindow
      <4>1. conv => settled < SettleWindow
        BY DEF Bounded
      <4>2. settled \in Nat
        BY DEF TypeOK
      <4>3. QED
        BY <4>1, <4>2, Limits
    <3>4. ~conv => settled = SettleWindow
      BY DEF Bounded
    <3>5. QED
      BY <3>1, <3>2, <3>3, <3>4
  <2>2. CASE TdcEpoch
    BY <2>2 DEF TdcEpoch
  <2>3. QED
    BY <2>1, <2>2
<1>4. QED
  BY <1>1, <1>2, <1>3 DEF Ladder!Sample, InLoop

\* Through attempts, retries, alarms, signals and interrupts, what is announced
\* moves along the ladder: set-up starts it without credit, holdover costs the
\* credit, and the cleanup takes the class away.
THEOREM LadderImplemented == Spec => ImplementsLadder
<1>1. Init => Ladder!Init
  BY DEF Init, Ladder!Init, InLoop
<1>2. IInv /\ [Next]_vars => [Ladder!Next]_(Ladder!vars)
  <2> SUFFICES ASSUME IInv, [Next]_vars
               PROVE  Ladder!Next \/ UNCHANGED Ladder!vars
    OBVIOUS
  <2>0. TypeOK /\ Bounded /\ UnsteeredIsFreerun
    BY DEF IInv, Announced
  <2>1. CASE SetupSucceeds
    <3>1. Ladder!Start
      BY <2>1 DEF SetupSucceeds, Ladder!Start, InLoop, flags
    <3>2. QED
      BY <3>1 DEF Ladder!Next
  <2>2. CASE InputIdle
    <3>1. Ladder!Coast
      BY <2>2 DEF InputIdle, FreshScheduler, Ladder!Coast, InLoop, flags
    <3>2. QED
      BY <3>1 DEF Ladder!Next
  <2>3. CASE EpochSkipped \/ EpochUsed \/ WatchdogAlarm \/ EpochEnds
    <3>1. /\ pc \in InLoop /\ pc' \in InLoop \union {"cleanup"}
          /\ cls' = cls \/ cls' = "freerun"
          /\ UNCHANGED <<freerun, tdc, settled>>
      BY <2>3 DEF EpochSkipped, EpochUsed, WatchdogAlarm, EpochEnds, CheckLag, ClassAfterLag,
                  LeaveLoop, InLoop, flags, schedVars
    <3>2. CASE cls' = cls
      BY <3>1, <3>2, Stutters
    <3>3. CASE cls' = "freerun"
      BY <3>1, <3>3 DEF Ladder!GiveUp, Ladder!Next
    <3>4. QED
      BY <3>1, <3>2, <3>3
  <2>4. CASE ServoEpoch \/ TdcEpoch
    BY <2>0, <2>4, EpochIsSample DEF Ladder!Next
  <2>5. CASE Cleanup
    <3>1. Ladder!Stop
      BY <2>5 DEF Cleanup, ClassAfterCleanup, Ladder!Stop, InLoop, flags, schedVars
    <3>2. QED
      BY <3>1 DEF Ladder!Next
  <2>6. CASE LoopStopped \/ DurationOver \/ UsableEpoch \/ Outlier \/ InterruptLoop
    <3>1. /\ pc \in InLoop /\ pc' \in InLoop \union {"cleanup"}
          /\ UNCHANGED <<freerun, tdc, cls, settled>>
      BY <2>6 DEF LoopStopped, DurationOver, UsableEpoch, Outlier, InterruptLoop,
                  LeaveLoop, InLoop, flags, schedVars
    <3>2. QED
      BY <3>1, Stutters
  <2>7. CASE \/ Open \/ OpenFails \/ MeasureBootstrap \/ ApplyBootstrap
             \/ SetupNoPps \/ SetupFails \/ DeviceRaises \/ InterruptStart
             \/ Reattempt \/ Exit
    <3>1. /\ pc \notin InLoop \union {"cleanup"} /\ pc' \notin InLoop \union {"cleanup"}
          /\ UNCHANGED <<freerun, tdc, cls, settled>>
      BY <2>7 DEF Open, OpenFails, MeasureBootstrap, ApplyBootstrap, SetupNoPps, SetupFails,
                  DeviceRaises, InterruptStart, Reattempt, Exit, ReturnEarly,
                  InLoop, flags, schedVars
    <3>2. QED
      BY <3>1, Stutters
  <2>8. CASE Signal \/ UNCHANGED vars
    <3>1. UNCHANGED <<pc, freerun, tdc, cls, settled>>
      BY <2>8 DEF Signal, vars, flags, schedVars
    <3>2. QED
      BY <3>1, Stutters
  <2>9. QED
    BY <2>1, <2>2, <2>3, <2>4, <2>5, <2>6, <2>7, <2>8 DEF Next, MainThread
<1>3. QED
  BY <1>1, <1>2, InductiveInvariant, PTL DEF Spec, ImplementsLadder, Ladder!Spec

=============================================================================
