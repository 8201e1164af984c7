---------------------------- MODULE SvLifecycle ----------------------------
(***************************************************************************)
(* What the lifecycle diagram of sv_state.py promises about satellites,    *)
(* whatever the stages of the AntPosEst epoch do: every record moves along *)
(* a legal edge, so a satellite earns each milestone in turn; a record the *)
(* receiver has lost may vanish and start over; and one call may admit and *)
(* converge a returning satellite whose wide-lane average survived.        *)
(* A squelch is armed by entering WAITING, runs down while the record      *)
(* waits and is gone once it has left.                                     *)
(***************************************************************************)
EXTENDS SvState

CONSTANT MaxSquelch         \* the longest cooldown any caller asks for

VARIABLES st, squelch

vars == <<st, squelch>>

\* The moves one stage may make with one record.
Steps(s) ==
    {s, "TRACKING"}                                 \* stay, forget
    \union {t \in SvStates : <<s, t>> \in LegalEdges}
    \union (IF s = "TRACKING" THEN {"CONVERGING"} ELSE {})

SquelchFollows(sv) ==
    IF st'[sv] # "WAITING" THEN squelch'[sv] = 0
    ELSE IF st[sv] = "WAITING" THEN squelch'[sv] <= squelch[sv]
    ELSE squelch'[sv] <= MaxSquelch

Init ==
    /\ st \in [SV -> {"TRACKING", "CONVERGING", "ANCHORING"}]
    /\ squelch = [sv \in SV |-> 0]

Next ==
    /\ st' \in [SV -> SvStates] /\ squelch' \in [SV -> Nat]
    /\ \A sv \in SV : st'[sv] \in Steps(st[sv]) /\ SquelchFollows(sv)

Spec == Init /\ [][Next]_vars
=============================================================================
