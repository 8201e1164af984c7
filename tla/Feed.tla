-------------------------------- MODULE Feed --------------------------------
(***************************************************************************)
(* Corrections from the network to the observation model: the reconnecting *)
(* NTRIP streams (scripts/ntrip_client.py), the reader threads that store  *)
(* what they carry (ntrip_reader in scripts/realtime_ppp.py), the stores   *)
(* (scripts/broadcast_eph.py, scripts/ssr_corrections.py), and             *)
(* RealtimeCorrections.sat_position, which reads them item by item.        *)
(*                                                                         *)
(* One satellite.  Its broadcast ephemerides are numbered; issue k has the *)
(* time of clock k * Period and is on the air for the Period before it.    *)
(* The analysis centre refers its orbit and clock corrections to an issue, *)
(* a little later than the satellite changes to it.                        *)
(***************************************************************************)
EXTENDS Integers, Sequences, FiniteSets, SequencesExt

CONSTANTS
    Period,     \* ticks an issue is on the air
    Week,       \* ticks in a week: times of clock are counted in the week
    Iods,       \* number of values an issue of data can take
    MaxNow,     \* model bound on the length of a run
    SwitchLag,  \* model bound: how late the analysis centre follows
    OrbitMax,   \* MAX_ORBIT_AGE
    ClockMax,   \* MAX_CLOCK_AGE
    None        \* Python's None

ASSUME ConstantsAssumption ==
    /\ {Period, Week, Iods, MaxNow} \subseteq Nat \ {0}
    /\ {SwitchLag, OrbitMax, ClockMax} \subseteq Nat
    /\ ClockMax <= OrbitMax
    /\ SwitchLag + OrbitMax < Period
    /\ Week % 2 = 0 /\ Week % Period = 0

\* None is neither an issue of data nor a correction.
ASSUME NoneAssumption == None \notin Nat

Streams == {"EPH", "SSR"}
Issues == 1 .. MaxNow \div Period + 1

VARIABLES
    now,        \* time
    centre,     \* issue the analysis centre refers to
    announced,  \* it has sent an orbit correction for that issue
    barred,     \* the caster has withdrawn the account of a stream
    link,       \* per stream: down, up, or ended for good
    delay,      \* per stream: backoff before the next attempt
    ephs,       \* BroadcastEphemeris._ephs of the satellite
    storing,    \* how far the reader is with a third ephemeris
    received,   \* history: issues received
    orbit,      \* SSRState._orbit of the satellite, or None
    clock,      \* SSRState._clock of the satellite, or None
    pc,         \* the consumer's next read in sat_position
    use         \* what it has read so far

airVars   == <<now, centre, announced, barred>>
linkVars  == <<link, delay>>
ephVars   == <<ephs, storing, received>>
ssrVars   == <<orbit, clock>>
readVars  == <<pc, use>>
vars == <<airVars, linkVars, ephVars, ssrVars, readVars>>

\* The backoff doubles up to max_reconnect_delay, counted here in doublings; the
\* variant has no limit.
MaxDelay == 2
GrownForEver(d) == d + 1
Grown(d) == IF d = MaxDelay THEN d ELSE d + 1

Corrections(max) == [issue : Issues, age : 0 .. max + 1] \union {None}
NoUse == [set |-> None, stored |-> None, orbit |-> None, clock |-> None]

TypeOK ==
    /\ now \in 0 .. MaxNow /\ centre \in Issues /\ announced \in BOOLEAN
    /\ barred \subseteq Streams
    /\ link \in [Streams -> {"down", "up", "ended"}] /\ delay \in [Streams -> 1 .. MaxDelay]
    /\ storing \in {"none", "added", "sorting", "sorted"}
    /\ ephs \in Seq(Issues) /\ IsInjective(ephs)
    /\ Len(ephs) <= IF storing = "none" THEN 2 ELSE 3
    /\ received \subseteq Issues
    /\ orbit \in Corrections(OrbitMax) /\ clock \in Corrections(ClockMax)
    /\ pc \in {"position", "orbit", "iod", "velocity", "clock", "done"}
    /\ use \in [set : Issues \union {None}, stored : Issues \union {None},
                orbit : Issues \union {None}, clock : Issues \union {None}]

Init ==
    /\ now = 0 /\ centre = 1 /\ announced = TRUE
    /\ barred \in SUBSET Streams
    /\ link = [s \in Streams |-> "down"] /\ delay = [s \in Streams |-> 1]
    /\ ephs = <<>> /\ storing = "none" /\ received = {}
    /\ orbit = None /\ clock = None
    /\ pc = "position" /\ use = NoUse

-----------------------------------------------------------------------------
(* Time *)

\* The issue on the air.
OnAir == now \div Period + 1

Older(c, max) == IF c = None \/ c.age > max THEN c ELSE [c EXCEPT !.age = @ + 1]

\* The centre follows the satellite within SwitchLag.
Tick ==
    /\ now < MaxNow
    /\ centre = OnAir \/ now % Period < SwitchLag
    /\ now' = now + 1
    /\ orbit' = Older(orbit, OrbitMax) /\ clock' = Older(clock, ClockMax)
    /\ UNCHANGED <<centre, announced, barred, linkVars, ephVars, readVars>>

Switch ==
    /\ centre < OnAir
    /\ centre' = centre + 1 /\ announced' = FALSE
    /\ UNCHANGED <<now, barred, linkVars, ephVars, ssrVars, readVars>>

-----------------------------------------------------------------------------
(* NtripStream.raw_frames: connect, back off, connect again, for ever      *)
(* unless the caster rejects the account; and the thread that reads it,    *)
(* which an exception ends for good.                                       *)

Connect(s) ==
    /\ link[s] = "down" /\ s \notin barred
    /\ link' = [link EXCEPT ![s] = "up"]
    /\ delay' = [delay EXCEPT ![s] = 1]
    /\ UNCHANGED <<airVars, ephVars, ssrVars, readVars>>

\* What a failed attempt ends with.
Answers(s) == IF s \in barred THEN {"401", "403", "timeout"} ELSE {"404", "timeout"}

\* Answers after which the stream is not tried again.  raw_frames' docstring
\* counts 404 and 410 among them, but connect retries these: a mountpoint may
\* be back.  The variant gives up when the caster does not answer.
FatalWithTimeout == {"401", "403", "timeout"}
Fatal == {"401", "403"}

ConnectFails(s) ==
    /\ link[s] = "down"
    /\ \E answer \in Answers(s) :
         IF answer \in Fatal
           THEN link' = [link EXCEPT ![s] = "ended"] /\ UNCHANGED delay
           ELSE delay' = [delay EXCEPT ![s] = Grown(@)] /\ UNCHANGED link
    /\ UNCHANGED <<airVars, ephVars, ssrVars, readVars>>

\* The thread has finished with the last message.
Reading(s) == link[s] = "up" /\ (s = "EPH" => storing = "none")

\* An established connection is lost, with what was on its way.
Lost(s) ==
    /\ Reading(s)
    /\ link' = [link EXCEPT ![s] = "down"]
    /\ UNCHANGED <<airVars, delay, ephVars, ssrVars, readVars>>

\* A message on which decoding or storing raises ends ntrip_reader and with it
\* the stream; nothing starts another.
ReaderFails(s) ==
    /\ Reading(s)
    /\ link' = [link EXCEPT ![s] = "ended"]
    /\ UNCHANGED <<airVars, delay, ephVars, ssrVars, readVars>>

-----------------------------------------------------------------------------
(* The stores *)

Toc(k) == (k * Period) % Week

\* Distance in time, across the end of a week.
Crossover(dt) ==
    IF dt > Week \div 2 THEN dt - Week ELSE IF dt < -(Week \div 2) THEN dt + Week ELSE dt
Distance(k, t) ==
    LET dt == Crossover((t % Week) - Toc(k)) IN IF dt < 0 THEN -dt ELSE dt

\* BroadcastEphemeris.update_from_rtcm: a set with the same time of clock is
\* replaced, another is added.  The list is not locked, and a third set is in
\* it until the last of the three steps below.
EphMessage(k) ==
    /\ Reading("EPH")
    /\ k \in Issues /\ k \in {OnAir, OnAir - 1}
    /\ ephs' = IF \E i \in DOMAIN ephs : Toc(ephs[i]) = Toc(k)
                 THEN [i \in DOMAIN ephs |-> IF Toc(ephs[i]) = Toc(k) THEN k ELSE ephs[i]]
                 ELSE Append(ephs, k)
    /\ storing' = IF Len(ephs') > 2 THEN "added" ELSE "none"
    /\ received' = received \union {k}
    /\ UNCHANGED <<airVars, linkVars, ssrVars, readVars>>

\* By time of clock; the variant leaves the sets in the order they came.
OrderedByArrival(s) == s
Ordered(s) ==
    CHOOSE t \in [1 .. Len(s) -> ToSet(s)] :
        \A i, j \in 1 .. Len(s) : i < j => Toc(t[i]) < Toc(t[j])

\* list.sort works on the list in place, which looks empty meanwhile.
SortBegins ==
    /\ storing = "added" /\ storing' = "sorting"
    /\ UNCHANGED <<airVars, linkVars, ephs, received, ssrVars, readVars>>

SortEnds ==
    /\ storing = "sorting" /\ storing' = "sorted"
    /\ ephs' = Ordered(ephs)
    /\ UNCHANGED <<airVars, linkVars, received, ssrVars, readVars>>

\* The list is replaced by its last two.
KeepTwo ==
    /\ storing = "sorted" /\ storing' = "none"
    /\ ephs' = Tail(ephs)
    /\ UNCHANGED <<airVars, linkVars, received, ssrVars, readVars>>

Store == SortBegins \/ SortEnds \/ KeepTwo

\* What other threads find in the list.
Seen == IF storing = "sorting" THEN <<>> ELSE ephs

\* The centre sends orbit and clock corrections one after the other; while the
\* stream is down they are lost.
OrbitMessage ==
    /\ announced' = TRUE
    /\ orbit' = IF link["SSR"] = "up" THEN [issue |-> centre, age |-> 0] ELSE orbit
    /\ <<announced, orbit>>' # <<announced, orbit>>
    /\ UNCHANGED <<now, centre, barred, linkVars, ephVars, clock, readVars>>

ClockMessage ==
    /\ announced /\ link["SSR"] = "up"
    /\ clock' = [issue |-> centre, age |-> 0]
    /\ UNCHANGED <<airVars, linkVars, ephVars, orbit, readVars>>

-----------------------------------------------------------------------------
(* RealtimeCorrections.sat_position, while the readers go on storing *)

\* The set closest in time; of two as close, the first stored.
Closest(s, t) ==
    s[CHOOSE i \in DOMAIN s :
        \A j \in DOMAIN s : \/ Distance(s[i], t) < Distance(s[j], t)
                            \/ Distance(s[i], t) = Distance(s[j], t) /\ i <= j]

\* Without an ephemeris the satellite is left out of the epoch.
ReadPosition ==
    /\ pc = "position" /\ Seen # <<>>
    /\ use' = [NoUse EXCEPT !.set = Closest(Seen, now)]
    /\ pc' = "orbit"
    /\ UNCHANGED <<airVars, linkVars, ephVars, ssrVars>>

\* get_orbit and get_clock: nothing once it is too old; the variant forgets to
\* ask for the age.
FreshOrAny(c, max) == IF c = None THEN None ELSE c.issue
Fresh(c, max) == IF c = None \/ c.age > max THEN None ELSE c.issue

ReadOrbit ==
    /\ pc = "orbit"
    /\ use' = [use EXCEPT !.stored = Fresh(orbit, OrbitMax)]
    /\ pc' = IF use'.stored = None THEN "clock" ELSE "iod"
    /\ UNCHANGED <<airVars, linkVars, ephVars, ssrVars>>

Iod(k) == k % Iods

\* get_iod: that of the latest set, where zero is taken for missing.
StoredIod ==
    LET latest == CHOOSE k \in ToSet(Seen) : \A j \in ToSet(Seen) : Toc(j) <= Toc(k)
    IN  IF Iod(latest) = 0 THEN None ELSE Iod(latest)

\* The variant applies an orbit correction whatever set it refers to.
MatchesAny(k) == TRUE
Matches(k) == StoredIod = Iod(k)

\* The orbit correction is applied if it refers to the ephemeris.  If it
\* refers to another one, the clock correction is skipped as well.
ReadIod ==
    /\ pc = "iod" /\ Seen # <<>>
    /\ pc' = IF Matches(use.stored) THEN "velocity"
             ELSE IF StoredIod = None THEN "clock" ELSE "done"
    /\ UNCHANGED <<airVars, linkVars, ephVars, ssrVars, use>>

\* The maximum of an empty list: get_iod raises, and the position is not
\* computed.
IodRaises ==
    /\ pc = "iod" /\ Seen = <<>>
    /\ pc' = "done" /\ use' = NoUse
    /\ UNCHANGED <<airVars, linkVars, ephVars, ssrVars>>

\* The orbit correction is turned into the frame of the satellite's velocity.
\* Without a velocity it is left out, but not the clock correction.
ReadVelocity ==
    /\ pc = "velocity"
    /\ use' = IF Seen = <<>> THEN use ELSE [use EXCEPT !.orbit = use.stored]
    /\ pc' = "clock"
    /\ UNCHANGED <<airVars, linkVars, ephVars, ssrVars>>

ReadClock ==
    /\ pc = "clock"
    /\ use' = [use EXCEPT !.clock = Fresh(clock, ClockMax)]
    /\ pc' = "done"
    /\ UNCHANGED <<airVars, linkVars, ephVars, ssrVars>>

NextEpoch ==
    /\ pc = "done"
    /\ pc' = "position" /\ use' = NoUse
    /\ UNCHANGED <<airVars, linkVars, ephVars, ssrVars>>

SatPosition ==
    \/ ReadPosition \/ ReadOrbit \/ ReadIod \/ IodRaises \/ ReadVelocity \/ ReadClock
    \/ NextEpoch

Readers ==
    \/ \E s \in Streams : Connect(s) \/ ConnectFails(s) \/ Lost(s) \/ ReaderFails(s)
    \/ (\E k \in Issues : EphMessage(k)) \/ Store
    \/ OrbitMessage \/ ClockMessage

Next == Tick \/ Switch \/ Readers \/ SatPosition

\* The caster answers some of the attempts: raw_frames never stops making them.
Spec ==
    /\ Init /\ [][Next]_vars
    /\ \A s \in Streams : SF_vars(Connect(s))

-----------------------------------------------------------------------------
(* Properties *)

\* Whatever came, came again late or was discarded: no ephemeris received from
\* the caster was closer in time than the one positions are computed from.
ClosestIsKept ==
    Seen # <<>> => \A k \in received : Distance(Closest(Seen, now), now) <= Distance(k, now)

\* An outage of the stream leaves no orbit correction for an ephemeris that
\* the centre has given up, except for MAX_ORBIT_AGE after it did.
StaleIsSoonGone ==
    LET k == Fresh(orbit, OrbitMax)
    IN  k \notin {None, centre} =>
            /\ k = centre - 1 /\ centre = OnAir
            /\ now % Period <= SwitchLag + OrbitMax

\* Where the position was computed from the latest ephemeris, the orbit
\* correction applied to it refers to that one, whatever the readers stored
\* between the reads.
PairedOnLatest ==
    pc = "done" /\ use.set # None /\ (\A k \in ToSet(ephs) : k <= use.set)
        => use.orbit \in {None, use.set}

\* "Transient failures never give up": a stream that is down and may log in
\* comes up again, a mountpoint that is missing for a while included.  That is
\* a promise of the connection: a reader ended by an exception stays ended.
OutageEnds ==
    \A s \in Streams : link[s] = "down" /\ s \notin barred ~> link[s] = "up"

\* "Keep only the 2 most recent (by toc)": the newest ephemeris received is
\* one of those kept.  Times of clock start again every week: it is not.
NewestIsKept == \A k \in received : \E j \in ToSet(ephs) : j >= k
=============================================================================
