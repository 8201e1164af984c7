# TLA+ models of PePPAR-Fix

PePPAR-Fix turns a u-blox receiver and a steerable clock (a NIC's PHC, a DAC
or a ClockMatrix) into a PTP grandmaster. One process, `scripts/peppar_fix_engine.py`, estimates the antenna
position with ambiguity-resolved PPP (the *AntPosEst* thread) and steers the
oscillator (the *DOFreqEst* servo of the main thread). This directory models
the state machines of that process, the paths its inputs take (receiver, PPS, TICC,
NTRIP streams, peers) and what starts it again. They
are model-checked with TLC on small instances; their safety properties are also proved
with TLAPS, for all values of the constants that the assumptions below admit.

Paths below are relative to the repository root.

## Inventory

| Component | State it keeps | Operations | Must be right |
|---|---|---|---|
| Per-SV tracker (`scripts/peppar_fix/sv_state.py`) | one record per satellite: state, WAITING expiry, last seen | `transition`, `check_squelch_cooldowns`, `mark_seen`, `forget_stale_with_states` | only legal edges; WAITING is temporary and its timer belongs to it |
| MW tracker (`scripts/ppp_ar.py`) | average, samples, fixed integer per satellite | `update`, `reset`, revert by the phase gate | agrees with the tracker about who is CONVERGING or better |
| Narrow-lane resolver (`scripts/ppp_ar.py`, `lambda_ar.py`) | `_fixed`, blacklist, regime | `tick`, `attempt`, `unfix`, `blacklist`, `note_slip` | rejected integers stay out; the tracked fix set is what it holds |
| NL admission tier (`nl_admission_tier.py`) | integers admitted per satellite, past-anchored flag | `tier_for_proposed_int`, `record_admission`, `note_slip`, `note_anchored`, `forget` | an easier gate is earned by the present ambiguity |
| Step demoters, setting drop, promoter, gates | streaks, cohorts, windows, holds | `update`, `ingest`, `evaluate`, `note_fix`, `note_unfix` | a demotion is applied to every table, and rests on the present integer |
| Fix-set integrity monitor | cooldown, anchor-collapse timer, ZTD history | `evaluate`, `record_trip` | trips once, resets its timers with the filter |
| AntPosEst filter state (`states.py`) | state, two latches | `transition`, `clear_latches` | state, latches and anchors agree |
| NAV2 second opinion | streaks, shared cooldown | `_check_nav2`, `SecondOpinionPosMonitor.evaluate` | a position reset also drops integers and the state's claim |
| Cycle-slip monitor (`cycle_slip.py`) | previous observation per satellite | `check`, `flush_sv_phase`, `forget`, prune | no integer survives the loss of its arc |
| Attempt loop (`run`, `run_steady_state`) | attempt number, `stop_event`, device, result | open, bootstrap, set up, loop, clean up, retry, exit | a retry can run, a stop ends it, exit codes mean what the supervisor takes them for |
| Servo and clock class (`_servo_epoch`, `discipline.py`, `pmc.py`) | scheduler, outlier and error counters, announced class | accept or reject a sample, flush, promote, demote, holdover | the class ptp4l announces is earned and is lost in time |
| Correlation gate, event queues (`correlation_gate.py`) | FIFOs of observations and PPS edges | match, defer, drop, purge | one epoch, one edge, no starvation, silence noticed |
| qErr and TICC pairing (`ticc.py`, `QErrStore`) | pending edges per second, pending TIM-TP, boot flag | boot, reconnect, `ingest`, hand-off | an edge is corrected with its own error |
| Start-up: position bootstrap and validation | phase-1 filter, saved position | `run_bootstrap`, validation by LS, NAV2, PPP | which position is trusted |
| Corrections and ephemerides (`broadcast_eph.py`, `ssr_corrections.py`) | two ephemerides per satellite, latest orbit and clock corrections | store, look up, age out | what is combined belongs together |
| NTRIP client and caster | sockets, back-off, clients | reconnect, broadcast | an outage ends |
| Peer bus and cohort (`peppar_bus/`, `peer_subscriber.py`) | snapshot per peer | publish, subscribe, median | a host is overruled only by half of those it sees, for long |
| Receiver and its configuration, exclusive I/O | serial ports, locks | open, configure, stream | one owner |
| State files | JSON per receiver, oscillator, timestamper | load, modify, save | no lost update |
| Supervisor script, systemd unit | attempt count, back-off | restart, give up | bounded restarts |
| PPP filters, models | numeric | - | numeric accuracy |
| `peppar_mon`, kernel drivers, tools, lab scripts | - | - | outside the running program's logic |

**Interactions.** A GNSS reader thread puts observations on the queues of the
AntPosEst thread and of the main loop. AntPosEst calls, in a fixed order
within one epoch, the monitors above, which call the tracker, MW and the
resolver in turn; it hands positions to the servo through a lock. The main loop
correlates observations with PPS edges, runs a time-only filter and the servo,
and sends ptp4l a clock class through a pmc socket when it changes. A TICC reader
thread pairs the edges it timestamps and takes the quantisation error of each from what the GNSS
reader left for it. NTRIP reader threads fill the ephemeris and correction stores, which both
filters read without holding a lock across the reads of one satellite. Threads
share one `stop_event`. The process's exit code is read by systemd; the supervisor, run by cron,
only looks whether the process is there. The receiver's state file carries a position
from one process to the next.

**What is hard here.** Four tables about the same satellite that are kept in
step only by the order of calls; evidence collected over minutes about an integer that may
have been replaced; cooldowns, blacklists and latches that outlive the event
that made them; resets that clear some of the state; retries that reuse what
the failed try has closed or set; a clock class decided in one function from a
flag changed in another; matching by time windows between streams that are late,
bursty or incomplete; stores read item by item while they are written; signals in the
middle of retries. `PROJECT.json` lists
these hazards with the lines where they bite and the property that covers each.

## Modules

| Module | Models | Kind |
|---|---|---|
| `SvState` | states, legal edges and `SvStateTracker.transition` as operators | pure |
| `SvLifecycle` | what the lifecycle diagram promises of each record | abstract specification |
| `AntPosEst` | one observation epoch of `_run_inner`, stage by stage, for all satellites | detailed specification |
| `MCAntPosEst` | satellite symmetry for TLC | model checking |
| `AntPosEst_proofs` | theorems about `AntPosEst` | proofs |
| `Reputation` | the counts behind the verdicts of that epoch, for one satellite | detailed specification |
| `Reputation_proofs` | theorems about `Reputation` | proofs |
| `ClockClass` | what ptp4l's clients may rely on | abstract specification |
| `Engine` | attempt loop, servo, clock class, signals | detailed specification |
| `Engine_proofs` | theorems about `Engine` | proofs |
| `Correlation` | reader queue, PPS history, correlation gate, head of the main loop | detailed specification |
| `Ticc` | TICC, its port, its reader thread, TIM-TP hand-off | detailed specification |
| `Host` | supervisor, start-up and validation, receiver state file | composition across processes |
| `Feed` | NTRIP connections, readers, stores, `sat_position` | detailed specification |
| `Cohort` | peers, bus, snapshots, consensus trip | detailed specification |
| `MCCohort` | peer symmetry for TLC | model checking |
| `Correlation_proofs`, `Ticc_proofs`, `Host_proofs`, `Feed_proofs`, `Cohort_proofs` | theorems about these five | proofs |

### AntPosEst

`pc` names the stage the thread is about to run; each stage is one action.
They run in the order of `_run_inner`: `Slips` (slip monitor and flush),
`TooFewSvs` (the uncounted epoch, which skips the rest) or `WideLane` (MW
update, re-admission and phase gates), `GfStep`, `NarrowLane`, `IfStep`,
`SettingDrop`, `Integrity`, `Housekeeping` (squelch sweep, forgetting,
promotion), `FilterState`, and the NAV2 end: `AntennaMoved`, `SecondOpinion` or
`NoReset`. One thread runs them, so stages are atomic; what interleaves is the
history of each satellite with that of the others and of the filter.

The variables follow the code's tables: `st` and `squelch` are the tracker's
records, `mwN` and `mwFixed` the MW state, `nlFixed` and `black` the resolver,
`amb` the filter's ambiguities, `prevSeen` the slip monitor's memory, `held` the
re-admission gate. Deadlines stored as epoch numbers are kept as epochs left; a
run-down happens where the epoch counter advances.

Residuals, variances, elevations and azimuths are inputs: each threshold test
on them is a choice (`\E` over the satellites it may name), restricted by what
the code does test on discrete state: cohort size, cadence, cooldowns, freshness
of a fix. The first antenna-moved check and the second opinion share a cooldown
and cannot both fire in an epoch. The false-fix monitor is constructed
observe-only by the engine and changes nothing. The monitors' internal streaks
are subsumed in the choice, which allows more than the code does; the safety
properties therefore hold of the code's streaks too. The streaks themselves are the
subject of `Reputation`.

`SvLifecycle` is the abstract specification. It knows the satellites' states and
timers only, and lets any number of satellites step at once. `Steps` is wider than the
diagram's edges in two places the code really takes: a forgotten record starts over as
TRACKING from any state, and one call of `mw.update` may admit and converge a
satellite whose average survived the forgetting of its record.

### Reputation

The same epoch seen from one satellite, with the state that `AntPosEst` leaves to choice: the
GF and IF step monitors' streaks (`gf`, `ifs`) and the sets by which the engine tells them of a new or lost fix
(`prevWl`, `prevNl`), the setting drop's residual `window`, the promoter's
candidate `cand` with its azimuth total and the `clean` window, the
admission tier's `hist` and `anchored`. The other satellites appear as the cohort: large enough
to judge by, or not. Whether a residual is over its threshold is a choice; azimuth moves in steps.
History variables keep what the code does not: epochs since the wide lane and
the narrow lane were fixed (`wlAge`, `age`), azimuth really passed since (`path`), admissions since
the last detected slip (`admits`, `promoted`).

Two places allow more than the code: a record may be forgotten at any unobserved
epoch and not only after 600, and a trip may fall on any evaluation. LAMBDA accepts a set by bars that depend on the
tier; the statistics are a choice of which bars are cleared. Rounding refuses a proposal only when it
contradicts a trusted history. An inherited wide lane that is not observed in
the first counted epoch is not tracked by the GF step monitor until it is lost, as
in the code, which calls `note_fix` for satellites of that epoch only.

### Engine

`pc` is where the main thread is: `open`, `measure`, `apply` (the two steps of the
oscillator bootstrap), `setup`, the loop's `loop`, `usable`, `servo`, `check`, then
`cleanup`, `decide`, `exited`. `result` is what `run_steady_state` returned or
raised. `cls` is the class last sent, `dfe` the DOFreqEst state, `conv` and
`settled` the scheduler, `outliers` and `large` the counters that end an attempt.
`Signal` may happen anywhere, `InterruptLoop` and `InterruptStart` are Ctrl-C
inside and before the loop. The control law is left out: an error is `small`,
`medium` or `big` to the scheduler, and `far` or not to the re-step test.

`ClockClass` is the abstract specification: a clock that is not served is announced freerun; one that judges itself is
locked as long as it has the credit of `SettleWindow` corrections, as of the last sample; coasting costs the credit. The mapping takes `pc` in the loop
or its cleanup for being served, and the settled corrections for the credit. `GiveUp` is what the alarms and the divergence do; it keeps the credit, as the code does: after a
consumption alarm the next sample announces the clock again.

Assumed: a pmc socket is configured, its sends succeed, and ptp4l starts in
class freerun. A Ctrl-C in the few microseconds between the promotion after
set-up and the `try` that guards the loop is left out.

### Correlation

Time advances in ticks of half a second, the gate's smallest window, and is kept as ages. Within a tick the order is
fixed: an edge fires when a second begins, before anything is received. The receiver delivers the
observation of each second in order, up to `MaxLag` ticks late, or never; the PPS reader
keeps an edge for up to `ReadMax` ticks before it is in the history. The main loop waits for
one item (`GetTimeout`), drains the queue, and runs the gate, one action per turn of its loop: `Match`,
`Defer`, `DropUnmatched` and the purge, each under the history's lock. `StallMax`
lets a pass of the loop take time, so that bursts build up. Whether the receive-time estimator is confident enough for the
gate to be anchored is a choice. Queues that overflow are left out.

### Ticc

Time advances in tenths of a second. A PPS edge fires at tick 0; the TIM-TP that announces
the next edge's error arrives from tick 1 on, or not at all. Edges are numbered, which the code cannot see; the TICC's
own seconds restart with it, so that the pair tracker's keys can repeat. The reader thread
boots the device (discarding the first seconds, resetting by DTR when it is wedged in its menu), reads
a line, matches it with the pending TIM-TP, stores the error under the second, and publishes a measurement; the
calls lock one by one and are separate actions. The shared port may die, and is taken as it is by
a later `acquire`.

### Host

What outlives a process. `sup` is the supervisor's file, `cron` a check between its launch and
its write; `file` is the receiver's file. The session goes through `identify`, `load`, `bootstrap` or `validate`,
`rebootstrap` and `steady`; it may end anywhere (`Exit`), which stands for every exit of `Engine` and for crashes.
A position is the site it is near; sites are more than 100 m apart, so that every check that
compares positions tells two of them apart. The antenna may be moved whenever no start-up is
half done. `how` records what the position in use rests on. The scrub of
phase-1 integers between bootstrap tries is modelled, without a property of its own.

An engine may end cleanly, at the limit of its `--duration`, or otherwise; `finished` remembers which. The
supervisor takes an engine for cleanly ended when its log holds a certain line. The engine never
prints it, so in the model, as in the code, every engine that is gone is launched again; that the script
means to leave the finished ones alone is why `DeadIsRelaunched` asks nothing for them.

### Feed

One satellite. Its broadcast ephemerides are numbered; number k is on the air for the `Period` before its time
of clock, which is counted within the week; issues of data repeat every `Iods`. The analysis centre
changes to a new ephemeris up to `SwitchLag` later than the satellite. Two streams carry them
over connections that drop, back off and reconnect, or end for good when the account is rejected; a reader also ends for good on an
exception while it decodes or stores a message. Frames are whole or lost. A third ephemeris is stored in four steps, without a lock: it is
added (`EphMessage`), the list is sorted in place (`SortBegins`, `SortEnds`; CPython empties a list while it sorts it), and
cut to two (`KeepTwo`). `sat_position` reads
position, orbit correction, ephemeris issue, velocity and clock correction in five steps, between which the readers may store; where it finds
the list empty, the satellite is left out, `get_iod` raises, or the orbit correction is left out.
The bias stream and the outer freshness gate (which skips whole epochs, `Engine`) are left out, as are
unhealthy ephemerides. An issue of data of 0 is taken for a missing one, as `get_iod` does.

### Cohort

One host and its peers on the same antenna. A round is ten epochs, the cadence both of publication and of
the host's evaluation; each has its turn once a round in any order, and datagrams are lost. A snapshot is dropped after 10 s, one round give or take. A message of either kind
makes a snapshot fresh, but only a position message renews the position. Position consensus
only: ZTD consensus has the same shape. A trip for any other reason (`TripOtherwise`, a choice at every evaluation) resets the
timer and starts the cooldown too. History variables count the evaluations the host has been outvoted in a row (`outvoted`) and those
since the last trip (`rest`); `ev` is what the last evaluation returned.

## Runs

| Run | Question | Result |
|---|---|---|
| `AntPosEst` | Do the four tables, the timers, the latches and the filter state stay consistent, and does each record follow the lifecycle? | holds, 4.7 million states |
| `AntPosEstLive` | Does WAITING end, and does a filter that lost its anchors recover or restart? | holds, 0.2 million states |
| `Reputation` | Are the streaks, windows, azimuth and admissions a satellite is judged by those of its present integers? | holds, 1.7 million states |
| `Engine` | Is the class earned, lost in time and freerun without a servo; does SIGTERM end the process? | holds, 25,500 states |
| `Correlation` | Are edges used in order, is everything dropped dropped for its reason, is silence noticed? | holds, 1.8 million states |
| `Ticc` | Does an edge get its own quantisation error through restarts and dead ports? | holds, 0.8 million states |
| `Host` | Which position is held, and how often is an engine that died launched? | holds, 0.4 million states |
| `Feed` | Do ephemeris and corrections that are combined belong together, and does an outage end? | holds, 0.9 million states |
| `Cohort` | Is a host overruled only when it was outvoted all the while? | holds, 1.1 million states up to symmetry |
| `AntPosEstArcGap` | Does an arc gap end both integers, as the docstring says? | violated |
| `EngineRebootstrap` | Can the re-bootstrapped attempt run? | violated |
| `FeedWeek` | Are the two ephemerides kept the most recent ones, as the comment says? | violated |

### What the properties say

*AntPosEst.* `TrackedFixIsReal`: each record in the fix set has both its integers
at every stage. `SquelchOnlyWhileWaiting`: timers run on WAITING only.
`RejectedStaysOut`: the blacklist holds even if the squelch ended early.
`WlOnlyStopsAtConverging`: the flag binds all paths. `AnchoredIsBacked`: a counted
epoch does not end ANCHORED without Threshold - 1 anchors. `LatchesCoverState`,
`LatchesFallOnlyInTrip`, `CollapseNeedsAnchored`: state, latches and the collapse
timer agree. `ImplementsLifecycle`: refinement of `SvLifecycle`.
`WaitingEnds`, `AnchorsReturnOrTrip`: liveness.

*Reputation.* `EasedIsEarned`: an integer faces the bar of PROVISIONAL or TRUSTED
only after that many admissions since the last slip any detector saw.
`EvidenceIsOfThisFix`: no streak, residual window or azimuth total is longer than the wide lane
or the fix it judges has been there. The setting drop and the promoter are not told of a demotion
and notice at their next evaluation; that this comes before the satellite can be fixed again is the
assumption `MwMinEpochs > EvalEvery` (60 and 10 in the code), and a run with the two swapped fails.

*Engine.* `UnsteeredIsFreerun`, `UnsettledIsDemoted`,
`HoldoverRequalifies`, `LostServoNeverRelocks`, `ImplementsLadder` (refinement of `ClockClass`), and `StopIsHonoured` (liveness).

*Correlation.* `HeadNotBlocking`: FIFO matching never holds observations up, since an
observation is left waiting only while no edge after it is known. `EdgesAdvance`: matches use
later and later edges. `DropsAreJustified`: an observation dropped for want of a match has no edge in its window, in the
history or on its way; one dropped for low confidence had one, and leaves later edges only; catching up stops with the
first match and spares the newest.
`SilenceIsHoldover`: after the idle limit, one wait and three stretches of the loop's own work
(`SilentLimit`), the class is holdover.

*Ticc.* `QerrOfItsEdge`: the error attached to a measurement is that of its PPS edge, unless it was stored
before a restart of the TICC under a second of the same number. `MixedPairIsCorrected`: a
pair of edges from two counts does not outlast its second.

*Host.* `WrongSiteIsUnchecked`: when the steady state holds the wrong site fixed, no live check has let it through.
`RelaunchesAreBounded`, `DeadIsRelaunched` (liveness): an engine that never runs is launched
at most `MaxAttempts` times, and one that died is launched while attempts are left.

*Feed.* `ClosestIsKept`: discarding and storing out of order never loses the ephemeris closest in time, at any step of storing.
`StaleIsSoonGone`: an outage leaves no orbit correction for an ephemeris the centre has given up
longer than MAX_ORBIT_AGE. `PairedOnLatest`: a position computed from the latest ephemeris gets the orbit
correction that refers to it, whatever was stored between the reads. `OutageEnds` (liveness): a stream that is down and may log in comes up again.

*Cohort.* `OutvotedThroughout`: the host is re-initialised over its position only if, in every evaluation of the sustained time that saw
a cohort, at least half of it, the host included, was elsewhere, and all of them came after the cooldown of the last trip.

### Findings

1. **Long arc gaps are not seen** (`AntPosEstArcGap`). The slip monitor forgets a
   satellite after 60 s and so cannot notice the longer gap.
2. **The internal re-bootstrap never runs** (`EngineRebootstrap`). `stop_event` is
   still set from the first attempt's `finally`; the process exits with 0.
3. **The week's rollover freezes the ephemerides** (`FeedWeek`). The two kept are those with the largest time of clock
   in seconds of the week, so that those of the new week are dropped as they arrive.

Met while modelling, contained in the models, without a run of their own:

- `mw.update` returns early for a fixed satellite, so its record stays FLOATING with its wide
  lane after an NL-only revert; the comment at `peppar_fix_engine.py:2207` says it re-enters CONVERGING.
- The retry after a missing PPS (`peppar_fix_engine.py:3572`) uses a device the failed try has closed.
- A diverged attempt saves its frequency, contrary to the comment at `peppar_fix_engine.py:6247`.
- In --freerun "clockClass stays at 248" (`peppar_fix_engine.py:5999`, `docs/freerun-characterization.md:35`). The servo epoch keeps
  to it, but the promotion after set-up (3592) and the holdover (5443) do not ask for the flag: class 52 is announced, then 7.
- Class 7 is "previously locked, coasting", entered from 6 (`docs/ptp4l-supervision.md:63`, 78). `_enter_obs_holdover` announces it
  whatever was announced before, so a clock that never settled is raised to it.
- The consumption alarm announces freerun, but the servo of the same epoch announces the clock again
  (`peppar_fix_engine.py:3797`, 6002).
- The issue an orbit correction is compared with is that of the latest ephemeris
  (`ssr_corrections.py:908`), but the position comes from the closest (`broadcast_eph.py:401`). While
  the two differ the correction may be left out or combined with the other; `PairedOnLatest` is therefore limited to the latest.
- `ingest_az` documents that excursions from ANCHORING do not drop a promotion candidate
  (`anchoring_sv_promoter.py:94`); `evaluate` drops it. Keeping it would break `EvidenceIsOfThisFix`.
- "When the engine completes its scheduled --duration cleanly, leave it alone" (`peppar-supervisor.sh:8`), "don't restart" (160). The
  log line by which line 162 recognises a clean exit is printed nowhere, so the engine is launched again.
- The gate "drops observations only once the correlation window proves they can no longer match" (`correlation_gate.py:39`). It also
  drops those with an edge in the window but low confidence (91), and, before its first match, those queued behind later
  ones (65), of which no window proves anything. `DropsAreJustified` states what does hold of each.
- 404 and 410 are listed as permanent rejections (`ntrip_client.py:92`, 321). `connect` retries them, and says why (161).
- A transient outage shows "not as a dead thread" (`ntrip_client.py:329`). That holds of the connection; an exception
  while a message is decoded or stored ends the thread for good (`realtime_ppp.py:1327`).
- The list of ephemerides is sorted without a lock (`broadcast_eph.py:346`). A reader may find it empty: `get_iod` then raises on the
  maximum of nothing, and the orbit correction is left out while the clock correction, its "matched pair"
  (`ssr_corrections.py:938`), is applied.
- Positions in a cohort are to be "less than 10 s old" (`docs/fleet-consensus-monitors.md:132`), so "that we don't compute median against
  last-known data" (`peer_subscriber.py:39`). The age is that of the last message: a peer that
  goes on sending ZTDs keeps its last position in the median (`peer_subscriber.py:140`).
- "Require >= 2 peer positions (3 cohort members total)" (`docs/fleet-consensus-monitors.md:133`). The host counts as one
  (`cohort.py:99`), so a single peer is enough. The median is then half way between the two, and "a single outlier" (`cohort.py:28`) does drag
  it: both may trip.
- A disagreement is "sustained" across evaluations without a cohort, which do not reset its timer (`fix_set_integrity_monitor.py:324`): two
  that saw the cohort suffice.

### Bounds

Satellites are interchangeable in `AntPosEst.cfg`, and two suffice for a
cohort, for a demoter that takes one and leaves the other, and for counts on
either side of a threshold of 2. The code's limits are scaled to the smallest
values at which each keeps its effect and the order between them:

| Constant | Code | `AntPosEst` | Why it is enough |
|---|---|---|---|
| `SlipCooldown`, `IfCooldown` | 60, 120 | 1, 3 | the rejection outlasts a slip squelch and the re-fixing of the wide lane |
| `MwMinEpochs` | 60 | 2 | the first sample never fixes |
| `MinCohort`, `Threshold` | 4, 4 | 2, 2 | below, at, and one short of the limit |
| `EvalEvery` | 10 | 2 | epochs with and without evaluation |
| `TripCooldown` | 30 | 2 | an evaluation inside the cooldown, one outside |
| `CollapseEvals` | 6 | 1 | timer off, running, over |
| `NavCooldown` | 120 | 1 | resets in consecutive epochs: more than the code allows |
| `ArcRestart`, `SlipStale`, `ForgetAfter` | 30, 60, 600 | 1, 1, 1 | a gap seen, forgotten by the monitor, and perhaps by the tracker (its sweep is a choice) |

`AntPosEstLive` has one satellite, and a slip cooldown, a collapse delay and a NAV2
cooldown of 2, so that a squelch can be hit while it runs, anchors can come back
in time, and a NAV2 reset is followed by a quiet epoch.
`Engine` has three attempts and three PPS tries as the code does, outlier limit 3 for 30,
large-error limit 2 for 3, settle window 2 for 10. No bound is placed on
the number of epochs in either module: every counter saturates, is reset or
runs down. Nothing is capped that the code lets grow, except `unseen`, whose
values past `MaxUnseen` the code does not distinguish, and `ztdTrips`, of which only "none" and "some" matter.

| Run | Constant | Value | In the code | Why it is enough |
|---|---|---|---|---|
| `Reputation` | `Proposals` | 0 to 2 | any integer | three integers: one trusted, one like it, one unlike it |
| | `KLong` | 3 | 4 | a step between PROVISIONAL and TRUSTED |
| | `MwMinEpochs`, `EvalEvery` | 3, 2 | 60, 10 | their order; an evaluation falls before or after a demotion |
| | `Consecutive`, `MinSamples` | 2, 2 | 2, 10 | a streak or window begun on one integer could end on the next |
| | `Travel`, `CleanWindow` | 2, 8 | 8 degrees, 180 | two readings at least; the window outlasts a promotion |
| | `SlipCooldown`, `IfCooldown` | 1, 2 | 60, 120 | their order |
| `Correlation` | `WinMax`, `PpsCap` | 4 ticks, 2 | 11 s, 32 | two edges in a window, and the history full |
| | `QueueCap`, `HistCap` (model bound) | 2, 3 | 100, unbounded | one observation queued, one at the head, one behind it |
| | `MaxLag`, `ReadMax`, `StallMax` (model bounds) | 1, 1, 1 | - | late delivery, late edges and bursts each reorder neighbours |
| | `AgeMax` (model bound) | 8 | - | past every window by twice its length |
| | `GetTimeout`, `IdleLimit` | 1, 3 | 5 s, 15 s | silence spans waits |
| `Ticc` | `MaxEdges`, `MaxRestarts` (model bounds) | 5, 1 | - | one restart with pairs before and after |
| | `TpLag`, `ReadLag` (model bounds) | 1, 2 ticks | - | the reader may take a line before or after the TIM-TP of its second |
| | `KeepSecs`, `BootDiscard`, `MaxResets` | 1, 1, 1 | 4, 2, 3 | each once below and once at its limit |
| `Host` | `Site` | 2 | - | right and wrong |
| | `MaxAttempts`, `BackoffMax` | 3, 2 | 10, 30 min | back-off grows and saturates before the attempts end |
| | `MaxRetries`, `LsTries`, `SaveAfter` | 1, 2, 2 | option, 30, 300 | below and at the limit |
| `Feed` | `Period`, `Week`, `MaxNow` (bound) | 4, 40, 9 | 2 h, a week, - | two changes of ephemeris away from the rollover |
| `FeedWeek` | `Week`, `MaxNow` (bound) | 16, 18 | | the rollover within the run |
| both | `Iods`, `SwitchLag` (model bound) | 3, 1 | 256, - | an issue of data of zero, and in `FeedWeek` ones that repeat; a late centre |
| | `OrbitMax`, `ClockMax` | 2, 1 | `MAX_ORBIT_AGE`, `MAX_CLOCK_AGE` | their order, and both below `Period` |
| `Cohort` | `Peers` | 3, interchangeable | any | the median of an even and of an odd number |
| | `Drift`, `Threshold` | 6, 1 | -, 5 m (the engine's, the monitor's default is 0.20 m) | medians between two places still exceed the threshold |
| | `Sustain`, `Cooldown` | 2, 2 rounds | 3, 30 | an excursion may end before it is sustained; an evaluation inside the cooldown, one outside |

### Fairness and deadlock

`AntPosEst` `LiveSpec` assumes `WF_vars(Next)` and `SF_vars(WideLane)`: observation epochs
keep coming (the thread waits for them for ever) and again and again one uses four
satellites. Without the second the code really does stand still, since an uncounted epoch
skips every stage. Nothing forces a satellite to be observed, re-fixed or promoted.
`Engine` `LiveSpec` assumes `WF_vars(MainThread)`: every blocking call of the main
thread has a timeout. No fairness is put on signals or on any particular outcome.
`Host` assumes weak fairness of the passing minute and of the supervisor's two check steps, which cron
starts each minute; none on the engine. `Feed` assumes `SF_vars(Connect(s))` for each stream:
`raw_frames` never stops trying, and the caster answers some of the attempts. The other modules state none:
`SilenceIsHoldover` bounds the delay by counted ticks instead.

`AntPosEst`, `Reputation`, `Correlation`, `Host` and `Cohort` never deadlock and are checked for it.
The process of `Engine` exits, and the model bounds `MaxEdges` and `MaxNow` end a run of `Ticc` and `Feed`, so
their configurations switch the deadlock check off.

## Proofs

| Theorem | Property |
|---|---|
| `AntPosEst_proofs!TypeCorrect` | `TypeOK` |
| `FixSetIsBacked` | `TrackedFixIsReal` |
| `SquelchDies` | `SquelchOnlyWhileWaiting` |
| `RejectionHolds` | `RejectedStaysOut` |
| `WlOnlyHolds` | `WlOnlyStopsAtConverging` |
| `LatchesHold`, `CollapseIsEarned` | `LatchesCoverState`, `CollapseNeedsAnchored` |
| `LatchesFallInTrips` | `LatchesFallOnlyInTrip` |
| `AnchoredBacked` | `AnchoredIsBacked` |
| `Refinement` | `ImplementsLifecycle` |
| `Engine_proofs!TypeCorrect` | `TypeOK` |
| `UnsteeredHolds`, `LostHolds` | `UnsteeredIsFreerun`, `LostServoNeverRelocks` |
| `UnsettledDemoted`, `HoldoverRequalified` | `UnsettledIsDemoted`, `HoldoverRequalifies` |
| `LockedEarned` | `LockedIsEarned`, which the runs check as part of `ImplementsLadder` |
| `LadderImplemented` | `ImplementsLadder` |
| `Reputation_proofs!TypeCorrect` | `TypeOK` |
| `EvidenceFresh`, `EasedEarned` | `EvidenceIsOfThisFix`, `EasedIsEarned` |
| `Correlation_proofs!TypeCorrect` | `TypeOK` |
| `SilenceHeldOver` | `SilenceIsHoldover` |
| `LaterEdges`, `DropsJustified`, `HeadDecided` | `EdgesAdvance`, `DropsAreJustified`, `HeadNotBlocking` |
| `Ticc_proofs!TypeCorrect` | `TypeOK` |
| `QerrRight`, `MixedCorrected` | `QerrOfItsEdge`, `MixedPairIsCorrected` |
| `Host_proofs!TypeCorrect` | `TypeOK` |
| `WrongSiteUnchecked`, `RelaunchesBounded` | `WrongSiteIsUnchecked`, `RelaunchesAreBounded` |
| `Feed_proofs!TypeCorrect` | `TypeOK` |
| `StaleGoesSoon` | `StaleIsSoonGone` |
| `Paired` | `PairedOnLatest`, within a week and before an issue of data is used again |
| `ClosestKept` | `ClosestIsKept`, while no two times are half a week apart |
| `Cohort_proofs!OutvotedOnly` | `OutvotedThroughout` |

### Assumptions

Each module names what it assumes of its constants, in `ConstantsAssumption`: limits are
naturals, positive where zero would switch off what the code cannot switch off. Beyond that:

- `AntPosEst`: SV is finite, MW needs more than one sample, only satellites may be inherited.
- `Reputation`: `MwMinEpochs > EvalEvery`. The code has 60 and 10; with the two swapped
  `EvidenceIsOfThisFix` is false.
- `Cohort`: the peers are finitely many.
- `Ticc`: a TIM-TP arrives less than 0.8 s into the second (`TpLag <= 7` ticks). With a lag of 0.8 s TLC finds
  `QerrOfItsEdge` violated: the TICC misses an edge, and the TIM-TP of that edge, 0.9 s into its second when it is matched,
  is still in the window at the next edge, whose own has not come yet.
- `Feed`: `SwitchLag + OrbitMax < Period`, that is, a correction is too old before the next change of ephemeris; and
  a week is an even number of ticks and of whole periods.
- `NoneAssumption` in `Reputation`, `Host`, `Feed` and `Cohort`: None is none of the values it stands beside.

The two conditional theorems of `Feed` state their hypotheses themselves, as `WithinWeek`, `NoReuse` and
`HalfWeek`; the constants of the run satisfy all three. They cannot be left out: TLC finds both properties violated in a short week
(`Week = 8`, `Period = 2`, with `MaxNow = 11` and `15`), where time of clock starts again as in `FeedWeek`,
and `PairedOnLatest` where issues of data repeat after two issues.

### Arguments

**AntPosEst.** The inductive invariant is `IInv == TypeOK /\ Safe`, where `Safe`
conjoins the safety invariants above; they need each other. The reset of a wide
lane keeps `TrackedFixIsReal` because the record moves in the same stage, and that
it can move follows from the legal edges of a fix-set state. `RejectedStaysOut` at the IF step rests on
the resolver forgetting what the step blacklists, and everywhere else on candidates being
off the blacklist. Type correctness is proved first,
one lemma per stage, then `Safe`, again one per stage.
`AnchoredIsBacked` needs the auxiliary `Counted`: at the NAV2 stage an ANCHORED
filter has its anchors, which `FilterState` establishes for the anchors
it has just counted. The refinement
shows that each stage moves every record along `Steps` and obeys `SquelchFollows`;
the stages that move records twice (`WideLane`, `Housekeeping`, the trips) are
the ones with lemmas of their own.

**Engine.** `IInv == TypeOK /\ Bounded /\ Announced /\ LostIsOut`. `Bounded` ties the
scheduler's flag to its count, and says that a counter at its limit has already set
`diverged` and that `pc` is then past the servo. `Announced` ties `cls` to `pc` and to the
flags. `LostIsOut` says that a reported loss of control leaves the loop, and follows it
through the cleanup, which sets `stop`, into attempts whose loop cannot run any more.
Each conjunct has a lemma by cases on `Next`; the action
properties follow from `OnlyServoLocks`: one action announces `locked`. For the refinement each action is a step of the ladder or a stutter;
`Bounded` makes the scheduler's flag the same as a full credit.

**Reputation.** The monitors learn of a lost fix only when they next look, so `IInv` says for each of them what keeps
a new fix from coming before that. `GfOfThisLane` and `IfOfThisFix`: the step monitors look in every epoch, and a wide lane is not fixed in the epoch
that reset it. `WindowOfThisFix`, `CandidateOfThisFix`: evidence left over from an earlier fix (`Lingers`) means that the wide
lane is still the earlier one, or has no more samples than epochs have passed since that stage was last reached; it takes `MwMinEpochs > EvalEvery` of them to fix it.
`Remembers`: the tier's history is never longer than the admissions since the last slip.

**Correlation.** `EdgesOrdered`: the edges in the history, the one still being read and the one matched last are in the
order in which they fired, as far as capped ages can tell; with it the first edge in the window is decided by the oldest and the
newest, which `DropsJustified` and `HeadDecided` rest on. `Overdue` bounds the silence at
each place of the loop: what arrived during one pass is taken in the next, and nothing is left for a third.
The limit of the property, `SilentLimit`, is the bound at its last place.

**Ticc.** The properties speak of edges; the code sees the TICC's count of seconds and arrival times. `Counted`, `Sending` and `InHand`
tie the count of what is read to its edge since the last restart; `Paced` and `Offered` tie the age of a TIM-TP
to the edge it announces, so that only that of the current edge is in the window. `Stored`, `Waiting` and `Met` carry this to the
pair tracker's tables, where entries from before a restart remain under old counts.

**Host.** `InSession` says which variables of a session are set in which phase, `Grounded` keeps what the position rests on
from where it is chosen to the steady state, `Counted` ties the launches since an engine was seen running
to the attempts in the supervisor's file, or to those a running check has yet to write.

**Feed.** `IInv` says that no two stored ephemerides have the same time of clock, that the centre is at most one issue behind and not for long (`Following`), and how
old a correction for the issue before must be (`Recent`). At a change of ephemeris it is too old: `SwitchLag + OrbitMax < Period`.
`StoreEffect` is what an arriving set does to the store. Under `WithinWeek` times of clock are ordered as the
issues are, so the store only moves forward: `Ahead` says that what the consumer read is overtaken at
most, and a match with the latest set leaves no room between the two. `Newest` says that what was
discarded is older than the two that were kept, one of which has already been passed and is closer. `Stored` says of each step of storing how
many sets the list holds and, once sorted, that the first is the oldest, which is the one that goes.

**Cohort.** Filters are at the antenna or off it, so the k-th smallest vote is decided by how many are at the antenna (`RankedOfPlaces`). A median
far from the host has one of its middle votes elsewhere, and with it half of the votes. `TimerTells` is the inductive
invariant beside `TypeOK`: while the timer runs, it is never ahead of the history of being outvoted, nor of the evaluations since
the cooldown; and what `rest` has of the cooldown is what `cool` no longer has.

### Only model-checked

The liveness properties `WaitingEnds`, `AnchorsReturnOrTrip`, `StopIsHonoured`, `DeadIsRelaunched` and `OutageEnds`: liveness under
fairness is outside what the prover handles. Every invariant and action property of the passing runs is proved.
The three violated statements are, of course, not theorems.

## Not modelled

`PROJECT.json` gives the reason for each component. In short:

- the PPP float filters, integer least squares, control laws, biases, antenna, tide and troposphere models,
  and the offline solvers built on them (`solve_ppp.py`, `realtime_ppp.py` apart from its reader threads): numeric, they
  appear as choices;
- receiver configuration, UBX parsing, device drivers: I/O whose outcome appears as a line, a frame or an edge that
  comes or does not;
- the NTRIP caster and the SSR encoder: separate programs that the engine only sees as a stream;
- oscillator and timestamper state files, the systemd unit, the `status` command, ZTD consensus: same shape as
  what is modelled, nothing of their own to go wrong with it;
- `peppar_mon`, regression and lab scripts, vendored kernel sources: outside the running program's logic.

## Plan

1. Done: all modules and their runs; the theorems above.
2. Abstract specifications of the other components, with the steps of the detailed module shown to implement them: for
   `Correlation` a gate that pairs each observation at most once, for `Ticc` a table from edges to errors, for
   `Feed` a store that offers the closest set.
3. What the liveness property `DeadIsRelaunched` has of safety: a bound on the checks that pass before a launch.
