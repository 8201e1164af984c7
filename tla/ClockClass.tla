----------------------------- MODULE ClockClass -----------------------------
(***************************************************************************)
(* What the clients of ptp4l may rely on, whatever the engine goes through *)
(* between two announcements: a clock that is not served is announced      *)
(* freerun; a clock that judges itself is locked exactly as long as it has *)
(* the credit of Window settled corrections, as of the last sample; credit *)
(* is earned one correction at a time, and coasting costs all of it.       *)
(***************************************************************************)
EXTENDS Naturals

CONSTANT Window     \* settled corrections that make a clock locked

VARIABLES
    judged,     \* the servo's samples decide the class
    serving,    \* a servo has been set up and not yet cleaned up
    cls,        \* the class announced
    credit      \* settled corrections in a row

vars == <<judged, serving, cls, credit>>

Init ==
    /\ judged \in BOOLEAN /\ serving = FALSE
    /\ cls = "freerun" /\ credit = 0

Start ==
    /\ ~serving /\ serving' = TRUE
    /\ cls' = "initialized" /\ credit' = 0
    /\ UNCHANGED judged

\* A sample is judged by the credit there was before it.
Sample ==
    /\ serving
    /\ cls' = IF ~judged THEN cls ELSE IF credit = Window THEN "locked" ELSE "initialized"
    /\ credit' \in {0, credit} \union ({credit + 1} \intersect 0 .. Window)
    /\ UNCHANGED <<judged, serving>>

Coast ==
    /\ serving
    /\ cls' = "holdover" /\ credit' = 0
    /\ UNCHANGED <<judged, serving>>

GiveUp ==
    /\ serving
    /\ cls' = "freerun"
    /\ UNCHANGED <<judged, serving, credit>>

Stop ==
    /\ serving /\ serving' = FALSE
    /\ cls' = "freerun"
    /\ UNCHANGED <<judged, credit>>

Next == Start \/ Sample \/ Coast \/ GiveUp \/ Stop

Spec == Init /\ [][Next]_vars
=============================================================================
