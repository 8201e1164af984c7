-------------------------------- MODULE Ticc --------------------------------
(***************************************************************************)
(* The TICC: its serial port and boot recovery (scripts/ticc.py), the      *)
(* reader thread that pairs the oscillator's edges (chA) with the PPS      *)
(* edges (chB) by the second the TICC counted them in (TiccPairTracker),   *)
(* and the quantisation error that TIM-TP announces for the next PPS edge  *)
(* (QErrStore), which the reader attaches to that edge by a time window.   *)
(*                                                                         *)
(* Time advances in tenths of a second.  A PPS edge fires at tick 0 of a   *)
(* second; the TIM-TP of the next one arrives from tick 1 on.  Edges have  *)
(* a number, which the code does not see: it is what the properties ask    *)
(* about.  The TICC's own count restarts with the TICC.                    *)
(***************************************************************************)
EXTENDS Integers, Sequences, FiniteSets

CONSTANTS
    MaxEdges,     \* model bound on the PPS edges of a run
    MaxRestarts,  \* model bound on spontaneous restarts of the TICC
    TpLag,        \* model bound on the delay of a TIM-TP, ticks
    ReadLag,      \* model bound on the delay of the reader, ticks
    KeepSecs,     \* seconds an unpaired edge is kept, 4
    BootDiscard,  \* _boot_ref_sec_discard, 2
    MaxResets     \* _BOOT_MAX_RESET_ATTEMPTS, 3

\* The code counts on a TIM-TP 0.9 s before its edge.  One that comes 0.9 s
\* into its second would still be in the window when the edge after its own
\* fires, and would be taken for that one's if its own was missed.
ASSUME ConstantsAssumption ==
    /\ {MaxEdges, KeepSecs, MaxResets} \subseteq Nat \ {0}
    /\ {MaxRestarts, BootDiscard} \subseteq Nat
    /\ TpLag \in 0 .. 7 /\ ReadLag \in 0 .. 8

\* Ticks in a second, and the window from a TIM-TP to its edge.
Second == 10
WindowLow == 8
WindowHigh == 11

Channels == {"chA", "chB"}
Other(ch) == IF ch = "chA" THEN "chB" ELSE "chA"

Edges == 1 .. MaxEdges
Secs == 1 .. MaxEdges
None == 0          \* Python's None, and no edge
Absent == -1       \* no such key

VARIABLES
    tick, edge,         \* tick of the second; number of the last PPS edge
    mode, sec, since,   \* TICC: running or wedged; its count; its first edge
    restarts,           \* spontaneous restarts so far
    port, booted,       \* the shared port's handle works; its booted flag
    wire,               \* lines sent and not yet read
    announced,          \* the TIM-TP of the next edge has come, or will not
    offer, offerAge,    \* QErrStore._pending_for_chb: an edge, and its age
    pc, resets,         \* the reader thread; DTR resets of this boot wait
    line, taken,        \* the line in hand; the TIM-TP it was matched with
    kept,               \* _pending of the pair tracker
    refQerr,            \* _ref_qerr: the TIM-TP stored for a second
    armed, latest,      \* _armed; _latest measurement
    seen                \* history: last edge ingested per channel

ticcVars   == <<mode, sec, since, restarts>>
portVars   == <<port, booted>>
offerVars  == <<announced, offer, offerAge>>
readerVars == <<pc, resets, line, taken>>
pairVars   == <<kept, refQerr, armed, latest>>
vars == <<tick, edge, ticcVars, portVars, wire, offerVars, readerVars, pairVars, seen>>

Lines == [ch : Channels, sec : Secs, edge : Edges]
NoLine == [ch |-> "chA", sec |-> 0, edge |-> 0]
Measurements == [chA : Edges, chB : Edges, qerr : {None} \union Edges]
NoMeasurement == [chA |-> 0, chB |-> 0, qerr |-> None]

TypeOK ==
    /\ tick \in 0 .. Second - 1 /\ edge \in 0 .. MaxEdges
    /\ mode \in {"running", "cold", "menu"}
    /\ sec \in 0 .. edge /\ since \in 1 .. MaxEdges + 1 /\ restarts \in 0 .. MaxRestarts
    /\ port \in {"live", "dead"} /\ booted \in BOOLEAN
    /\ wire \in Seq(Lines) /\ Len(wire) <= 2
    /\ announced \in BOOLEAN /\ offer \in {None} \union Edges /\ offerAge \in 0 .. WindowHigh + 1
    /\ pc \in {"boot", "read", "get", "clear", "store", "sleep"}
    /\ resets \in 0 .. MaxResets
    /\ line \in Lines \union {NoLine} /\ taken \in {None} \union Edges
    /\ kept \in [Channels -> [Secs -> {None} \union Edges]]
    /\ refQerr \in [Secs -> {Absent, None} \union Edges]
    /\ armed \in BOOLEAN
    /\ latest \in Measurements \union {NoMeasurement}
    /\ seen \in [Channels -> 0 .. MaxEdges]

Init ==
    /\ tick = 0 /\ edge = 0
    /\ mode \in {"running", "cold", "menu"} /\ sec = 0 /\ since = 1 /\ restarts = 0
    /\ port = "live" /\ booted = FALSE /\ wire = <<>>
    /\ announced = FALSE /\ offer = None /\ offerAge = 0
    /\ pc = "boot" /\ resets = 0 /\ line = NoLine /\ taken = None
    /\ kept = [ch \in Channels |-> [s \in Secs |-> None]]
    /\ refQerr = [s \in Secs |-> Absent]
    /\ armed = FALSE /\ latest = NoMeasurement
    /\ seen = [ch \in Channels |-> 0]

-----------------------------------------------------------------------------
(* Time, the receiver and the TICC *)

\* The reader keeps up: it is between lines, and has none older than ReadLag.
KeepsUp == pc \notin {"get", "clear", "store"} /\ (wire = <<>> \/ tick < ReadLag)

\* TIM-TP comes at most TpLag late.
OnTime == announced \/ tick < 1 + TpLag

Aged == IF offerAge > WindowHigh THEN offerAge ELSE offerAge + 1

Tick ==
    /\ tick < Second - 1 /\ KeepsUp /\ OnTime
    /\ tick' = tick + 1
    /\ offerAge' = Aged
    /\ UNCHANGED <<edge, ticcVars, portVars, wire, announced, offer, readerVars,
                   pairVars, seen>>

\* What the TICC sends of a second: either channel may be first or missing.
Sent(s, e) ==
    LET Line(ch) == [ch |-> ch, sec |-> s, edge |-> e]
    IN  {<<>>} \union {<<Line(ch)>> : ch \in Channels}
               \union {<<Line(ch), Line(Other(ch))>> : ch \in Channels}

PpsEdge ==
    /\ tick = Second - 1 /\ KeepsUp /\ edge < MaxEdges
    /\ tick' = 0 /\ edge' = edge + 1
    /\ announced' = FALSE
    /\ offerAge' = Aged
    /\ IF mode = "running"
         THEN /\ sec' = sec + 1
              /\ wire' \in IF port = "live" THEN Sent(sec', edge') ELSE {<<>>}
         ELSE UNCHANGED <<sec, wire>>
    /\ UNCHANGED <<mode, since, restarts, portVars, offer, readerVars, pairVars, seen>>

\* The reader of the receiver's stream passes a TIM-TP to QErrStore.update.
\* An invalid or a lost one leaves the store as it is.
TimTp ==
    /\ ~announced /\ tick >= 1 /\ edge < MaxEdges
    /\ announced' = TRUE
    /\ \/ offer' = edge + 1 /\ offerAge' = 0
       \/ UNCHANGED <<offer, offerAge>>
    /\ UNCHANGED <<tick, edge, ticcVars, portVars, wire, readerVars, pairVars, seen>>

\* Restarted, the TICC counts from zero; it may also wedge.
Restarted ==
    /\ mode' \in {"running", "cold", "menu"}
    /\ sec' = 0 /\ since' = edge + 1
    /\ wire' = <<>>

\* The TICC restarts by itself while it is being read, and goes on sending.
Restart ==
    /\ restarts < MaxRestarts /\ booted
    /\ Restarted /\ mode' = "running"
    /\ restarts' = restarts + 1
    /\ UNCHANGED <<tick, edge, portVars, offerVars, readerVars, pairVars, seen>>

-----------------------------------------------------------------------------
(* The shared port.  acquire waits for the first line once; later it takes *)
(* the handle as it is, whatever became of it.                             *)

\* _wait_for_boot: a timestamp line, which is swallowed, ends the wait.
BootSeen ==
    /\ pc = "boot" /\ port = "live" /\ ~booted /\ wire # <<>>
    /\ wire' = Tail(wire)
    /\ booted' = TRUE /\ pc' = "read"
    /\ UNCHANGED <<tick, edge, ticcVars, port, offerVars, resets, line, taken, pairVars,
                   seen>>

\* Another attempt is allowed; the variant counts one too many.
MayResetOnceMore == resets <= MaxResets
MayReset == resets < MaxResets

\* An attempt fails: nothing but headers or silence, or the port is gone.  The
\* DTR pulse restarts the TICC, up to MaxResets times.
BootFails ==
    /\ pc = "boot" /\ ~booted /\ wire = <<>>
    /\ IF MayReset
         THEN /\ IF port = "live" THEN Restarted ELSE UNCHANGED <<mode, sec, since, wire>>
              /\ resets' = resets + 1
              /\ UNCHANGED pc
         ELSE pc' = "sleep" /\ resets' = 0 /\ UNCHANGED <<mode, sec, since, wire>>
    /\ UNCHANGED <<tick, edge, restarts, portVars, offerVars, line, taken, pairVars, seen>>

\* A read error while waiting for the boot: the port is opened again.
BootReopens ==
    /\ pc = "boot" /\ ~booted /\ port = "dead"
    /\ port' = "live"
    /\ UNCHANGED <<tick, edge, ticcVars, booted, wire, offerVars, readerVars, pairVars,
                   seen>>

\* acquire on a port that has booted.
Acquire ==
    /\ pc = "boot" /\ booted
    /\ pc' = "read"
    /\ UNCHANGED <<tick, edge, ticcVars, portVars, wire, offerVars, resets, line, taken,
                   pairVars, seen>>

\* The reader catches the exception and tries again a second later.
Reenter ==
    /\ pc = "sleep"
    /\ pc' = "boot"
    /\ UNCHANGED <<tick, edge, ticcVars, portVars, wire, offerVars, resets, line, taken,
                   pairVars, seen>>

\* The device is unplugged and comes back; the open handle does not.
Unplugged ==
    /\ port = "live" /\ restarts < MaxRestarts
    /\ port' = "dead" /\ wire' = <<>>
    /\ restarts' = restarts + 1
    /\ UNCHANGED <<tick, edge, mode, sec, since, booted, offerVars, readerVars, pairVars,
                   seen>>

ReadFails ==
    /\ pc = "read" /\ port = "dead"
    /\ pc' = "sleep"
    /\ UNCHANGED <<tick, edge, ticcVars, portVars, wire, offerVars, resets, line, taken,
                   pairVars, seen>>

-----------------------------------------------------------------------------
(* The reader takes a line: TiccPairTracker.ingest, then for a PPS edge    *)
(* the match with TIM-TP, in calls that lock one by one.                   *)

\* The tables with a line entered and its partner taken out.  The variant
\* takes the completing edge out as well.
EnteredOnly(l) ==
    [kept EXCEPT ![Other(l.ch)][l.sec] = None,
                 ![l.ch][l.sec] = IF kept[Other(l.ch)][l.sec] = None THEN l.edge ELSE None]
Entered(l) == [kept EXCEPT ![l.ch][l.sec] = l.edge, ![Other(l.ch)][l.sec] = None]

Stale(s, l) == s < l.sec - KeepSecs

\* An edge without a partner prunes both tables.
IngestAlone(l) ==
    /\ kept[Other(l.ch)][l.sec] = None
    /\ kept' = [ch \in Channels |->
                  [s \in Secs |-> IF Stale(s, l) THEN None ELSE Entered(l)[ch][s]]]
    /\ refQerr' = [s \in Secs |-> IF Stale(s, l) THEN Absent ELSE refQerr[s]]
    /\ UNCHANGED <<armed, latest>>

\* A pair is a measurement once the first seconds after the boot are over.
IngestPair(l) ==
    /\ kept[Other(l.ch)][l.sec] # None
    /\ kept' = Entered(l)
    /\ armed' = (armed \/ l.sec > BootDiscard)
    /\ IF armed'
         THEN /\ latest' = [[chA |-> l.edge, chB |-> l.edge,
                             qerr |-> IF refQerr[l.sec] = Absent THEN None ELSE refQerr[l.sec]]
                              EXCEPT ![Other(l.ch)] = kept[Other(l.ch)][l.sec]]
              /\ refQerr' = [refQerr EXCEPT ![l.sec] = Absent]
         ELSE UNCHANGED <<latest, refQerr>>

Ingest ==
    /\ pc = "read" /\ port = "live" /\ wire # <<>>
    /\ LET l == Head(wire)
       IN  /\ IngestAlone(l) \/ IngestPair(l)
           /\ seen' = [seen EXCEPT ![l.ch] = l.edge]
           /\ line' = l
           /\ pc' = IF l.ch = "chA" THEN "read" ELSE IF armed THEN "get" ELSE "store"
    /\ wire' = Tail(wire)
    /\ taken' = None
    /\ UNCHANGED <<tick, edge, ticcVars, portVars, offerVars, resets>>

\* The window from TIM-TP to edge; the variant has no lower end.
InWindowOpen(age) == age <= WindowHigh
InWindow(age) == WindowLow <= age /\ age <= WindowHigh

GetPending ==
    /\ pc = "get"
    /\ IF offer # None /\ InWindow(offerAge)
         THEN taken' = offer /\ pc' = "clear"
         ELSE pc' = "store" /\ UNCHANGED taken
    /\ UNCHANGED <<tick, edge, ticcVars, portVars, wire, offerVars, resets, line, pairVars,
                   seen>>

\* Whatever is on offer now is cleared.
ClearPending ==
    /\ pc = "clear"
    /\ offer' = None
    /\ pc' = "store"
    /\ UNCHANGED <<tick, edge, ticcVars, portVars, wire, announced, offerAge, resets, line,
                   taken, pairVars, seen>>

\* set_pending_ref_qerr, after the edge has been ingested.
StoreRefQerr ==
    /\ pc = "store"
    /\ refQerr' = [refQerr EXCEPT ![line.sec] = taken]
    /\ pc' = "read"
    /\ UNCHANGED <<tick, edge, ticcVars, portVars, wire, offerVars, resets, line, taken, kept,
                   armed, latest, seen>>

Reader ==
    \/ BootSeen \/ BootFails \/ BootReopens \/ Acquire \/ Reenter \/ ReadFails
    \/ Ingest \/ GetPending \/ ClearPending \/ StoreRefQerr

Environment == Tick \/ PpsEdge \/ TimTp \/ Restart \/ Unplugged

Next == Reader \/ Environment

Spec == Init /\ [][Next]_vars

-----------------------------------------------------------------------------
(* Properties *)

\* The quantisation error of a measurement is that of its PPS edge, matched by
\* nothing but the time the line was read at, through late messages, late
\* reads and missing edges.  Only one stored before a restart of the TICC, for
\* a second of the same number, can come with another edge.
QerrOfItsEdge ==
    latest.qerr \notin {None, latest.chB} => latest.qerr < since

\* After a restart the first edge of a second may be paired with one that the
\* TICC sent before it.  That does not outlast the second: when both of its
\* edges are the last read of their channels, the measurement is theirs.
MixedPairIsCorrected ==
    LET later == IF latest.chA > latest.chB THEN latest.chA ELSE latest.chB
    IN  latest.chA # latest.chB => \E ch \in Channels : seen[ch] # later
=============================================================================
