------------------------------ MODULE SvState ------------------------------
(***************************************************************************)
(* The per-satellite ambiguity lifecycle of scripts/peppar_fix/sv_state.py *)
(* as pure operators: the six states, the legal edges, and what            *)
(* SvStateTracker.transition does to a set of satellites.  Records the     *)
(* tracker has never created, or has forgotten, read as TRACKING, which is *)
(* what SvStateTracker.get returns for them.                               *)
(***************************************************************************)
EXTENDS Naturals

CONSTANT SV     \* satellites, one tracker record per (system, PRN)

SvStates == {"TRACKING", "FLOATING", "CONVERGING", "ANCHORING", "ANCHORED", "WAITING"}

\* Members contribute an integer to the position solution.
FixStates == {"ANCHORING", "ANCHORED"}

Processing == {"FLOATING", "CONVERGING", "ANCHORING", "ANCHORED"}

LegalEdges ==
    {<<"TRACKING", "FLOATING">>, <<"FLOATING", "CONVERGING">>,
     <<"CONVERGING", "ANCHORING">>, <<"ANCHORING", "ANCHORED">>}
    \union {<<s, "FLOATING">> : s \in {"CONVERGING", "ANCHORING", "ANCHORED", "WAITING"}}
    \union {<<s, "WAITING">> : s \in Processing}

\* transition(sv, to) for every sv of S: a legal edge moves, a self edge and
\* an illegal one (InvalidTransition, caught by every caller that can meet
\* it) leave the record alone.  The variant does not check the edge.
MovedUnchecked(st, S, to) == [sv \in SV |-> IF sv \in S THEN to ELSE st[sv]]

Moved(st, S, to) ==
    [sv \in SV |-> IF sv \in S /\ <<st[sv], to>> \in LegalEdges THEN to ELSE st[sv]]

\* The satellites whose record is in one of the states of Q.
InStates(st, Q) == {sv \in SV : st[sv] \in Q}

\* transition's bookkeeping of squelch_expires_epoch, kept as the number of
\* epochs left: entering WAITING sets it, leaving WAITING clears it, and a
\* self edge returns before touching it.  The variant never clears it.
SquelchedKept(st, stNew, squelch, cooldown) ==
    [sv \in SV |-> IF st[sv] # stNew[sv] /\ stNew[sv] = "WAITING"
                   THEN cooldown ELSE squelch[sv]]

Squelched(st, stNew, squelch, cooldown) ==
    [sv \in SV |-> IF st[sv] = stNew[sv] THEN squelch[sv]
                   ELSE IF stNew[sv] = "WAITING" THEN cooldown ELSE 0]
=============================================================================
