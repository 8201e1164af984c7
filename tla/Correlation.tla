----------------------------- MODULE Correlation -----------------------------
(***************************************************************************)
(* From the receiver and the PPS to one usable epoch: the reader thread's  *)
(* observation queue, the history of PPS edges, the strict correlation     *)
(* gate between them (scripts/peppar_fix/correlation_gate.py) and the head *)
(* of run_steady_state's loop with its idle timeout.                       *)
(*                                                                         *)
(* Time advances in ticks of half a second, the gate's smallest window,    *)
(* and is kept as ages.  A second begins every other tick: an edge may     *)
(* fire then, before anything received in that tick.  The observation of   *)
(* a second is due when the next one begins and is delivered, in order, up *)
(* to MaxLag ticks late, or never.                                         *)
(***************************************************************************)
EXTENDS Integers, Sequences, FiniteSets, SequencesExt

CONSTANTS
    WinMax,      \* max_window_s: the oldest edge an observation may match
    PpsCap,      \* maxlen of pps_history
    QueueCap,    \* maxsize of obs_queue
    HistCap,     \* model bound: observations left waiting without PPS
    AgeMax,      \* model bound: older observations are forgotten
    MaxLag,      \* model bound: how late one is delivered
    ReadMax,     \* model bound: how long the PPS reader keeps an edge
    StallMax,    \* model bound: how long a pass of the main loop takes
    GetTimeout,  \* the loop's wait for an observation
    IdleLimit    \* obs_idle_timeout_s

ASSUME ConstantsAssumption ==
    /\ {WinMax, PpsCap, QueueCap, HistCap, AgeMax, StallMax, GetTimeout, IdleLimit}
         \subseteq Nat \ {0}
    /\ {MaxLag, ReadMax} \subseteq Nat

\* 0.5 s, and the 1 s after its edge at which a prompt observation arrives.
WinMin == 1
Expected == 2

VARIABLES
    due,        \* ticks since the next observation is due, negative before
    obsQueue,   \* obs_queue: what the reader thread has put
    obsHist,    \* obs_history: what the main loop has taken, oldest first
    reading,    \* the PPS reader's edge: stamped, not yet in the history
    ppsHist,    \* pps_history: ages of the edges, oldest first
    anchored,   \* the gate has matched once (_recv_mono_anchored)
    pc,         \* the loop waits, drains, runs the gate, or has an epoch
    spent,      \* ticks spent in this wait, or in this pass
    idle,       \* ticks since the last usable observation
    idleAlarm,  \* obs_idle_alarm, and the holdover it stands for
    cls,        \* clock class announced
    silent,     \* history: ticks since an observation was delivered
    used        \* history: age of the edge matched last

loopVars == <<pc, spent, idle, idleAlarm, cls>>
vars == <<due, obsQueue, obsHist, reading, ppsHist, anchored, loopVars, silent, used>>

EdgeAgeMax == AgeMax + WinMax + 1
\* A pass whose input arrived as it began, the pass that takes this input, and
\* the stretch between them may each take StallMax before the idle time
\* counts, and the wait in which it runs out has to end.
SilentLimit == 3 * StallMax + IdleLimit + GetTimeout

Obs == [age : 0 .. AgeMax, lag : 0 .. MaxLag, queued : BOOLEAN]

TypeOK ==
    /\ due \in -2 .. MaxLag
    /\ obsQueue \in Seq(Obs) /\ Len(obsQueue) <= QueueCap
    /\ obsHist \in Seq(Obs) /\ Len(obsQueue) + Len(obsHist) <= HistCap
    /\ reading \in Seq(0 .. ReadMax) /\ Len(reading) <= 1
    /\ ppsHist \in Seq(0 .. EdgeAgeMax) /\ Len(ppsHist) <= PpsCap
    /\ anchored \in BOOLEAN /\ idleAlarm \in BOOLEAN
    /\ pc \in {"wait", "drain", "gate", "epoch"}
    /\ spent \in Nat /\ idle \in 0 .. IdleLimit
    /\ cls \in {"initialized", "locked", "holdover"}
    /\ silent \in 0 .. SilentLimit
    /\ used \in 0 .. EdgeAgeMax

Init ==
    /\ due = -1
    /\ obsQueue = <<>> /\ obsHist = <<>>
    /\ reading = <<>> /\ ppsHist = <<>>
    /\ anchored = FALSE
    /\ pc = "wait" /\ spent = 0 /\ idle = 0 /\ idleAlarm = FALSE
    /\ cls = "initialized"
    /\ silent = 0 /\ used = EdgeAgeMax

-----------------------------------------------------------------------------
(* Time and the two readers *)

LoopIdle == pc = "wait" /\ obsQueue = <<>>

Capped(n, cap) == IF n < cap THEN n ELSE cap
Older(s) ==
    LET young == {i \in 1 .. Len(s) + 1 : i = Len(s) + 1 \/ s[i].age < AgeMax}
        first == CHOOSE i \in young : \A j \in young : i <= j
    IN  [i \in 1 .. Len(s) + 1 - first |->
           [s[first + i - 1] EXCEPT !.age = Capped(@ + 1, AgeMax)]]
OlderEdges(s) == [i \in DOMAIN s |-> Capped(s[i] + 1, EdgeAgeMax)]

\* Half a second passes; where a second begins, the PPS reader may stamp an
\* edge.
Tick ==
    /\ due < MaxLag
    /\ spent < IF LoopIdle THEN GetTimeout ELSE StallMax
    /\ spent' = spent + 1
    /\ due' = due + 1
    /\ obsQueue' = Older(obsQueue) /\ obsHist' = Older(obsHist)
    /\ ppsHist' = OlderEdges(ppsHist)
    /\ \/ /\ \A i \in DOMAIN reading : reading[i] < ReadMax
          /\ reading' = OlderEdges(reading)
       \/ reading = <<>> /\ due' % 2 = 0 /\ reading' = <<0>>
    /\ idle' = Capped(idle + 1, IdleLimit)
    /\ silent' = Capped(silent + 1, SilentLimit)
    /\ used' = Capped(used + 1, EdgeAgeMax)
    /\ UNCHANGED <<anchored, pc, idleAlarm, cls>>

\* An edge enters the history, a deque of PpsCap entries: the oldest makes
\* room.  The variant makes none.
RememberedAll(edge) == ppsHist \o edge
Remembered(edge) == (IF Len(ppsHist) < PpsCap THEN ppsHist ELSE Tail(ppsHist)) \o edge

\* The EXTTS or TICC reader appends the edge it stamped.
Record ==
    /\ reading # <<>>
    /\ ppsHist' = Remembered(reading)
    /\ reading' = <<>>
    /\ UNCHANGED <<due, obsQueue, obsHist, anchored, loopVars, silent, used>>

\* The reader thread puts the observation that is due; it blocks while the
\* queue is full.  Whether more was buffered matters before the first match.
Deliver ==
    /\ due >= 0 /\ Len(obsQueue) < QueueCap
    /\ Len(obsQueue) + Len(obsHist) < HistCap
    /\ \E queued \in BOOLEAN :
         /\ anchored => ~queued
         /\ obsQueue' = Append(obsQueue, [age |-> 0, lag |-> due, queued |-> queued])
    /\ due' = due - 2
    /\ spent' = IF LoopIdle THEN 0 ELSE spent
    /\ silent' = 0
    /\ UNCHANGED <<reading, obsHist, ppsHist, anchored, pc, idle, idleAlarm, cls, used>>

\* Fewer than four satellites, or nothing heard from the receiver.
NoObservation ==
    /\ due >= 0
    /\ due' = due - 2
    /\ UNCHANGED <<reading, obsQueue, obsHist, ppsHist, anchored, loopVars, silent, used>>

-----------------------------------------------------------------------------
(* Waiting for input.  The main loop takes all that is queued, but waits   *)
(* for the first even when older observations are left over.               *)

Collect ==
    /\ pc = "wait" /\ obsQueue # <<>>
    /\ obsHist' = obsHist \o obsQueue
    /\ obsQueue' = <<>>
    /\ pc' = "drain" /\ spent' = 0
    /\ UNCHANGED <<reading, due, ppsHist, anchored, idle, idleAlarm, cls, silent, used>>

\* The wait is over without input: once per outage _enter_obs_holdover, which
\* purges the edges.
InputTimeout ==
    /\ LoopIdle /\ spent = GetTimeout
    /\ spent' = 0
    /\ IF idle >= IdleLimit /\ ~idleAlarm
         THEN idleAlarm' = TRUE /\ cls' = "holdover" /\ ppsHist' = <<>>
         ELSE UNCHANGED <<idleAlarm, cls, ppsHist>>
    /\ UNCHANGED <<reading, due, obsQueue, obsHist, anchored, pc, idle, silent, used>>

-----------------------------------------------------------------------------
(* The gate.  Each action is one turn of its loop, under the history's     *)
(* lock: it looks at the oldest observation and at the edges.              *)

\* recv_dt_s: how long after the edge the observation was received.
Dt(o, edge) == edge - o.age

\* The edges match_pps_event_from_history leaves in the history: all but the
\* outdated ones at its head, and never none.
Pruned(o) ==
    LET kept == {i \in DOMAIN ppsHist : Dt(o, ppsHist[i]) <= WinMax \/ i = Len(ppsHist)}
    IN  IF ppsHist = <<>> THEN <<>>
        ELSE SubSeq(ppsHist, CHOOSE i \in kept : \A j \in kept : i <= j, Len(ppsHist))

Candidates(o, h) == {i \in DOMAIN h : Dt(o, h[i]) \in WinMin .. WinMax}

\* Distance from the expected second, a rank.  What is received in a tick
\* comes after the tick's edge, so of two the later edge is nearer.
Closeness(d) == IF d >= Expected THEN 2 * (d - Expected) + 1 ELSE 2 * (Expected - d)

BestOf(o, h) ==
    CHOOSE i \in Candidates(o, h) :
        \A j \in Candidates(o, h) : Closeness(Dt(o, h[i])) <= Closeness(Dt(o, h[j]))

\* The history after a match: the edge and all older ones are gone.  The
\* variant takes out the edge alone.
AfterMatchOnly(h, i) == RemoveAt(h, i)
AfterMatch(h, i) == SubSeq(h, i + 1, Len(h))

\* A usable epoch re-arms the idle alarm and leaves holdover; the variant
\* forgets the alarm.  The class waits for the servo.
AlarmAfterUseKept == idleAlarm
AlarmAfterUse == FALSE

\* Before the first match, observations read while more was buffered make
\* way for later ones, but only ahead of the pass.
ToDrain == ~anchored /\ Len(obsHist) > 1 /\ Head(obsHist).queued

DropQueued ==
    /\ pc = "drain" /\ ToDrain
    /\ obsHist' = Tail(obsHist)
    /\ UNCHANGED <<reading, due, obsQueue, ppsHist, anchored, loopVars, silent, used>>

Drained ==
    /\ pc = "drain" /\ ~ToDrain
    /\ pc' = "gate"
    /\ UNCHANGED <<reading, due, obsQueue, obsHist, ppsHist, anchored, spent, idle, idleAlarm,
                   cls, silent, used>>

AtHead == pc = "gate" /\ obsHist # <<>>

\* A match uses the edge up.  Its confidence, the lower of the two readers',
\* decides whether the observation is consumed or dropped.
Match ==
    /\ AtHead
    /\ LET o == Head(obsHist)
           h == Pruned(o)
           i == BestOf(o, h)
       IN  /\ Candidates(o, h) # {}
           /\ ppsHist' = AfterMatch(h, i)
           /\ used' = h[i]
    /\ obsHist' = Tail(obsHist)
    /\ \/ /\ anchored' = TRUE
          /\ pc' = "epoch"
          /\ idle' = 0
          /\ idleAlarm' = AlarmAfterUse
       \/ UNCHANGED <<anchored, pc, idle, idleAlarm>>
    /\ UNCHANGED <<reading, due, obsQueue, spent, cls, silent>>

\* Why an observation without a match can have none any more: the newest edge
\* came long after it, or an edge came after it and all came too late for it.
\* One variant has the first reason only, one waits for no later edge.
HopelessByAge(o, h) == o.age - Last(h) > WinMax
HopelessEarly(o, h) == \A i \in DOMAIN h : Dt(o, h[i]) \notin WinMin .. WinMax
Hopeless(o, h) ==
    \/ o.age - Last(h) > WinMax
    \/ o.age > Last(h) /\ \A i \in DOMAIN h : Dt(o, h[i]) < WinMin

DropUnmatched ==
    /\ AtHead
    /\ LET o == Head(obsHist)
           h == Pruned(o)
       IN  /\ Candidates(o, h) = {} /\ h # <<>> /\ Hopeless(o, h)
           /\ ppsHist' = h
    /\ obsHist' = Tail(obsHist)
    /\ UNCHANGED <<reading, due, obsQueue, anchored, loopVars, silent, used>>

\* The pass ends without an epoch: nothing is left, or the head waits for an
\* edge.  The class stays what it is.
Defer ==
    /\ pc = "gate"
    /\ \/ obsHist = <<>> /\ UNCHANGED ppsHist
       \/ /\ AtHead
          /\ LET o == Head(obsHist)
                 h == Pruned(o)
             IN  /\ Candidates(o, h) = {}
                 /\ h # <<>> => ~Hopeless(o, h)
                 /\ ppsHist' = h
    /\ pc' = "wait" /\ spent' = 0
    /\ UNCHANGED <<reading, due, obsQueue, obsHist, anchored, idle, idleAlarm, cls, silent, used>>

\* The rest of the epoch: it is skipped, or the servo sets the class (see
\* Engine for how); a re-seeded filter purges the edges.
Epoch ==
    /\ pc = "epoch"
    /\ cls' \in {cls, "initialized", "locked"}
    /\ ppsHist' \in {ppsHist, <<>>}
    /\ pc' = "wait" /\ spent' = 0
    /\ UNCHANGED <<reading, due, obsQueue, obsHist, anchored, idle, idleAlarm, silent, used>>

Gate == DropQueued \/ Drained \/ Match \/ DropUnmatched \/ Defer
MainLoop == Collect \/ InputTimeout \/ Gate \/ Epoch

Next == Tick \/ Record \/ Deliver \/ NoObservation \/ MainLoop

Spec == Init /\ [][Next]_vars

-----------------------------------------------------------------------------
(* Properties *)

\* FIFO order never holds observations up for long: when a pass of the gate
\* leaves an observation waiting, the newest recorded edge is not newer than
\* it.  Once an edge after it is known, its fate is decided.
HeadNotBlocking ==
    [][Defer /\ obsHist # <<>> /\ ppsHist' # <<>>
         => Head(obsHist).age <= Last(ppsHist')]_vars

\* Successive matches use later and later edges, whatever was dropped, purged
\* or delivered in a burst in between.
EdgesAdvance == [][Match /\ used < EdgeAgeMax => used' < used]_vars

\* Each way an observation leaves the queue unused has its reason.  Dropped
\* without a match: no edge within its window is in the history or still on its
\* way from the PPS reader.  Dropped for a match of low confidence: the edge
\* was one of its window, is gone with it, and whatever is left or on its way
\* is a later edge, so none comes back for the same second.  Dropped because
\* more was buffered: only before the first match, and for a later observation
\* that stays.
NoEdgeFor(o, edges) == \A edge \in ToSet(edges) : Dt(o, edge) \notin WinMin .. WinMax

DropsAreJustified ==
    [][/\ DropUnmatched => NoEdgeFor(Head(obsHist), ppsHist \o reading)
       /\ Match /\ pc' # "epoch" =>
            /\ Dt(Head(obsHist), used') \in WinMin .. WinMax
            /\ \A edge \in ToSet(ppsHist' \o reading') : edge < used'
       /\ DropQueued => ~anchored /\ obsHist' # <<>>]_vars

\* When the receiver has been silent for the idle limit, and the waits and
\* the pass that may delay the finding are over, the clock is announced in
\* holdover, however often it has been there before.
SilenceIsHoldover == silent = SilentLimit => cls = "holdover"
==============================================================================
