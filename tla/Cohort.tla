------------------------------- MODULE Cohort -------------------------------
(***************************************************************************)
(* The fleet's opinion of a host's position: peers on the same antenna     *)
(* publish theirs over UDP multicast (peppar_bus/_udp_multicast.py,        *)
(* scripts/peer_publisher.py), the host keeps the latest of each           *)
(* (scripts/peer_subscriber.py), compares itself with the median of the    *)
(* cohort (peppar_bus/cohort.py) and re-initialises its filter when it     *)
(* disagrees for long (FixSetIntegrityMonitor, reason pos_consensus).      *)
(*                                                                         *)
(* One host and its peers.  A round is ten epochs, the cadence both of the *)
(* publications and of the monitor's evaluations; in a round each of them  *)
(* has its turn once, in any order.  Datagrams are lost.                   *)
(***************************************************************************)
EXTENDS Integers, FiniteSetsExt

CONSTANTS
    Peers,      \* the other hosts of the cohort
    Self,       \* this host
    Drift,      \* how far a filter that has drifted is off
    Threshold,  \* pos_consensus_threshold_m
    Sustain,    \* rounds in pos_consensus_sustained_epochs, 3
    Cooldown,   \* rounds in cooldown_epochs, 30
    None        \* Python's None

ASSUME ConstantsAssumption ==
    /\ IsFiniteSet(Peers) /\ Self \notin Peers
    /\ {Drift, Threshold, Sustain, Cooldown} \subseteq Nat \ {0}

\* What evaluate returns: the position is not that of the cohort, or one of its
\* other reasons to trip.
Reasons == {"pos_consensus", "other"}

\* None is neither a position, nor an epoch, nor a reason.
ASSUME NoneAssumption == None \notin Nat /\ None \notin Reasons

Hosts == Peers \union {Self}
Places == {0, Drift}

VARIABLES
    pos,      \* where each host's filter is: at the antenna, or off
    ident,    \* peers whose heartbeat has told their antenna
    snap,     \* _snapshots: position of a peer, rounds since a message of it
    waiting,  \* hosts whose turn is to come in this round
    since,    \* rounds from _pos_consensus_above_since to the last evaluation
    cool,     \* evaluations of the cooldown that are left
    ev,       \* reason of the trip the last evaluation returned, or None
    outvoted, \* history: evaluations the host has been outvoted in a row
    rest      \* history: evaluations since the last trip

timerVars == <<since, cool, ev>>
histVars  == <<outvoted, rest>>
vars == <<pos, ident, snap, waiting, timerVars, histVars>>

\* A snapshot is dropped from the cohort after 10 s: one round, give or take
\* the turns within it.
Stale == 2
Snapshots == [pos : Places \union {None}, age : 0 .. Stale]
NoSnapshot == [pos |-> None, age |-> Stale]

\* Evaluations between two trips of pos_consensus: those of the cooldown, and
\* those in which the disagreement is sustained.
Between == Cooldown + Sustain - 1

TypeOK ==
    /\ pos \in [Hosts -> Places]
    /\ ident \subseteq Peers
    /\ snap \in [Peers -> Snapshots]
    /\ waiting \subseteq Hosts
    /\ since \in 0 .. Sustain \union {None}
    /\ cool \in 0 .. Cooldown - 1
    /\ ev \in Reasons \union {None}
    /\ outvoted \in 0 .. Sustain
    /\ rest \in 0 .. Between

Init ==
    /\ pos = [h \in Hosts |-> 0]
    /\ ident = {}
    /\ snap = [p \in Peers |-> NoSnapshot]
    /\ waiting = Hosts
    /\ since = None /\ cool = 0 /\ ev = None
    /\ outvoted = 0 /\ rest = Between

-----------------------------------------------------------------------------
(* The peers *)

\* A filter drifts off, or comes back.
Moves(h) ==
    /\ pos' = [pos EXCEPT ![h] = Drift - @]
    /\ UNCHANGED <<ident, snap, waiting, timerVars, histVars>>

\* A peer's heartbeat arrives: from then on its antenna is known.
Heartbeat(p) ==
    /\ p \notin ident
    /\ ident' = ident \union {p}
    /\ UNCHANGED <<pos, snap, waiting, timerVars, histVars>>

\* _on_position and _on_ztd: a message of either kind makes the snapshot
\* fresh; only one of them brings a position.
Heard(p, kinds) ==
    snap' = [snap EXCEPT ![p] = [pos |-> IF "position" \in kinds THEN pos[p] ELSE @.pos,
                                 age |-> 0]]

\* A peer's turn: it publishes a position and a ZTD, each of which arrives or
\* is lost.  A peer that is starting publishes neither.
Publish(p) ==
    /\ p \in waiting
    /\ waiting' = waiting \ {p}
    /\ \/ \E kinds \in SUBSET {"position", "ztd"} \ {{}} : Heard(p, kinds)
       \/ UNCHANGED snap
    /\ UNCHANGED <<pos, ident, timerVars, histVars>>

\* A new round begins.
NextRound ==
    /\ waiting = {}
    /\ waiting' = Hosts
    /\ snap' = [p \in Peers |-> [snap[p] EXCEPT !.age = IF @ = Stale THEN @ ELSE @ + 1]]
    /\ UNCHANGED <<pos, ident, timerVars, histVars>>

-----------------------------------------------------------------------------
(* The host *)

\* cohort_median_position: peers on this antenna, with a position, that are
\* not stale.
Live == {p \in ident : snap[p].age < Stale /\ snap[p].pos # None}

\* Positions of the cohort, the host's own among them.
Votes == [h \in Live \union {Self} |-> IF h = Self THEN pos[Self] ELSE snap[h].pos]

\* The k-th smallest vote: sorted(positions)[k - 1].
Ranked(votes, k) ==
    CHOOSE v \in {votes[h] : h \in DOMAIN votes} :
        /\ Cardinality({h \in DOMAIN votes : votes[h] < v}) < k
        /\ Cardinality({h \in DOMAIN votes : votes[h] <= v}) >= k

\* Twice the median, which for an even number is the mean of the middle two;
\* the variant is twice the mean.
TwiceMean(votes) ==
    (2 * MapThenSumSet(LAMBDA h : votes[h], DOMAIN votes)) \div Cardinality(DOMAIN votes)
TwiceMedian(votes) ==
    LET n == Cardinality(DOMAIN votes)
    IN  Ranked(votes, (n + 1) \div 2) + Ranked(votes, n \div 2 + 1)

\* The host is further from the median than the threshold.
Disagrees ==
    LET off == 2 * pos[Self] - TwiceMedian(Votes)
    IN  off > 2 * Threshold \/ -off > 2 * Threshold

\* At least half of the cohort as the host sees it, itself included, is elsewhere.
Against == {p \in Live : snap[p].pos # pos[Self]}
Outvoted == 2 * Cardinality(Against) >= Cardinality(Live) + 1

\* The timer once it has started is no more looked at than for having reached
\* Sustain.
Later(t) == IF t \in {None, Sustain} THEN t ELSE t + 1

\* _apply_integrity_trip and record_trip.  The filter starts again from where
\* it is; nothing is looked at before the cooldown has passed.
RecordTrip(reason) ==
    /\ ev' = reason
    /\ since' = None
    /\ cool' = Cooldown - 1

\* The disagreement has lasted, this evaluation included.
Trip ==
    /\ Live # {} /\ Disagrees /\ Later(since) = Sustain
    /\ RecordTrip("pos_consensus")

\* evaluate has other reasons to trip: no anchor is left, the troposphere is
\* impossible or another than that of the cohort, the residuals are large.
TripOtherwise == RecordTrip("other")

\* An agreement ends the disagreement; the variant forgets that.
NotReset(t) == t
Reset(t) == None

\* The timer: started, running, or reset.  Without a cohort it runs on.
Timer ==
    /\ IF Live = {}
         THEN since' = Later(since)
         ELSE /\ ~(Disagrees /\ Later(since) = Sustain)
              /\ since' = IF ~Disagrees THEN Reset(since)
                          ELSE IF since = None THEN 0 ELSE Later(since)
    /\ ev' = None
    /\ UNCHANGED cool

\* The histories; evaluations without a cohort go on with what was found.
Remember ==
    /\ outvoted' =
          IF cool > 0 \/ ev' # None THEN 0
          ELSE IF IF Live = {} THEN outvoted > 0 ELSE Outvoted
                 THEN IF outvoted = Sustain THEN outvoted ELSE outvoted + 1
                 ELSE 0
    /\ rest' = IF ev' # None THEN 0 ELSE IF rest = Between THEN rest ELSE rest + 1

\* The host's turn: FixSetIntegrityMonitor.evaluate.
Evaluate ==
    /\ Self \in waiting
    /\ waiting' = waiting \ {Self}
    /\ IF cool > 0
         THEN cool' = cool - 1 /\ ev' = None /\ UNCHANGED since
         ELSE Trip \/ TripOtherwise \/ Timer
    /\ Remember
    /\ UNCHANGED <<pos, ident, snap>>

Next ==
    \/ \E h \in Hosts : Moves(h)
    \/ \E p \in Peers : Heartbeat(p) \/ Publish(p)
    \/ NextRound
    \/ Evaluate

Spec == Init /\ [][Next]_vars

-----------------------------------------------------------------------------
(* Properties *)

\* "If delta_self > threshold_m sustained for N epochs: trip": whatever was
\* lost, came late or went silent, the host is re-initialised over its position
\* only if it was outvoted in every evaluation since one that is Sustain rounds
\* old, and that one came after the cooldown of the trip before, of whatever
\* reason.  An evaluation that sees no cohort does not end what was sustained.
\* The votes are the positions the host has, as old as they may be: a peer that
\* goes on sending ZTDs is not stale.
OutvotedThroughout ==
    [][Evaluate /\ ev' = "pos_consensus" =>
           Outvoted /\ outvoted = Sustain /\ rest = Between]_vars
=============================================================================
