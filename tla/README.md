# RailSentinel in TLA+

RailSentinel supervises a light-rail line: edge nodes watch the track, a gateway
admits what they report, replicated `ats-core` instances decide, traffic-signal
controllers give the trains priority, and operators confirm what only a human may.
This directory holds TLA+ models of the parts of it where ordering, failure and
timing matter, the TLC configurations that check them on small instances, and
proofs, checked by TLAPS, of what holds for instances of any size.

Line numbers refer to the sources at the modelled commit; `PROJECT.json` ("map")
gives them for every definition.

## 1. Inventory

| Component | State it keeps | Operations | What is hard |
|---|---|---|---|
| **Leader election** `packages/leader-election` | the `leader_lease` row; per process `#epoch`, `#timer`, `#stopped`, `#everNotified` | `tryAcquire`, `renew`, `release`, `start`, `stop`, `#tick`, `#setEpoch` | queries in flight across stops, crashes and expiry; late execution; same holder id after a restart |
| **ats-core** `services/ats-core/src/main.ts` | `edgeHealth`, and the memories of the four objects below | bus handlers, regulation loop, `publishAsLeader`, SIGTERM | replicas all process, only the leader publishes; clean sessions; nothing is persisted |
| **IntrusionHandler** `intrusion.ts`, `topology.ts`, `safety-guard.ts` | open incident per section with its crossings | `handle`, `operatorClear` | incidents share crossings; repeated and less urgent detections |
| **TspController** `tsp.ts`, `fleet.ts` | inhibitions, feedback, request in flight per crossing | `evaluate`, `observe`, `recordOutcome`, `inhibit`, `release` | feedback is old when used; answers and requests cross; debounce |
| **HeadwayRegulator** `headway.ts`, `fleet.ts`, `topology.ts` | PI integral per train; reported positions and their age | `regulate`, `upsert`, `all` | clamps of integrator and actuator that do not match; reports that grow stale; intervals around a loop |
| **Downlink** `services/ingest-gateway/src/downlink.ts` | a sequence number per device | `sendOperations` | commands late, lost or repeated; nothing reads the sequence number |
| **Signal controller** `services/ntcip-emulator` | active phase, interval, granted extension, pending call and force-off | `tick`, `applyPriorityRequest`, `secondsUntilGreen` | requests set what later intervals consume; ticks overshoot |
| **Gateway** `services/ingest-gateway`, `packages/contracts/src/replay.ts` | per source: boot session, last sequence number, recent ids, rate window | `admit`, `check`, downlink | redelivery, reordering, reboots, gateway restarts |
| **Edge node** `edge/jetson_sim` | sequence number, boot session; tracks and what was announced of each | heartbeats, last will, `Tracker.update`, `process`, `scenario_vision` | a last will stamped at start; boxes that compete for tracks; a frame in which nothing is seen |
| **Historian** `services/historian`, `packages/historian`, `db/schema.sql` | audit tables, section-to-incident map | one handler per topic | asynchronous handlers over a pool; redelivery |
| **operator-api** `services/operator-api` | panel: restrictions, system state, alarms, TSP log | bus handler, `clear-section`, SSE, GTFS-RT | restarts on retained topics |
| **Console** `apps/cco-dashboard` | operator at the post, trains, acknowledgements, releases, log, release dialog | `ccoReducer`, the interval, page, palette, `ReleaseDialog` | what is offered and what is accepted are written apart; an operator changes under an open dialog; ticks of many seconds |
| **PKI** `packages/pki` | issued certificates, single-use tokens | enrol, issue, verify | a token burned before issuing fails |
| **Plant, tools** `packages/plant`, `tools` | trains: position, stop, command held | `tick`, the on-board clamp, simulators, benches | a command counts for one stop and may come during one |

They interact over one MQTT broker per side. Detections go edge -> field broker ->
gateway -> `core/normalized/*` -> every `ats-core`; the leader publishes alarms,
restrictions, TSP decisions and the system state, which `operator-api` and the
historian consume; the operator's confirmation comes back on
`core/cmd/operator/clear_section`. Priority requests go to
`ntcip/<crossing>/priority_request`, answers and states come back. The lease row in
PostgreSQL is the only state the replicas share.

The properties that make each component correct: no two processes act under one
epoch, and the role settles on one publisher (election); an incident closes on
confirmation only, no inhibition outlives its incident, replicas agree and the
panel shows what the leader knows (incidents); minimum green, clearance and maximum
green are kept and promised greens come (signals); requests do not pile up, are not
asked in vain, and run out once a crossing is suspended (TSP); what is admitted is
fresh, once and in order, and neither a reboot nor a refusal shuts a device out
(admission); the detections of a section between two clearings are filed under one
incident id and what is on record stands (historian); no object in the gauge goes unannounced and what is
announced is what was seen (vision); trains keep their distance and a restriction
goes only after a verified release (console); doors stay open as long as they must
and no longer than they may, and a command counts once (regulation).
`PROJECT.json` ("hazards")
lists, line by line, what could break them.

## 2. Modules

    FencedRole        <--implements--  LeaderLease      <- MCLeaderLease, LeaderLeaseProofs
    IncidentHandler   <--extends-----  IncidentDesk     <- MCIncidentDesk, IncidentDeskProofs
                                       SignalController <- MCSignalController, SignalControllerProofs
    SignalController  <--instance----  TspLoop          <- MCTspLoop, TspLoopProofs
    OrderedFeed       <--implements--  FieldAdmission   <- MCFieldAdmission, FieldProofs
                                       Historian        <- MCHistorian, HistorianProofs
                                       EdgeVision       <- MCEdgeVision, FieldProofs
                                       OperatorConsole  <- MCOperatorConsole, OperatorConsoleProofs
                                       Regulation       <- MCRegulation, RegulationProofs

A definition named `Mut...` is a plausible mistake in the definition after it; no
specification uses it. Each property of a passing run is violated when its mutant
stands in for the original (`PROJECT.json`, "mutants").

### FencedRole and LeaderLease - one writer at a time

`FencedRole` is the promise: epochs are issued one after the other, each to one
process, and a process acts under an epoch only if it was issued to it.

`LeaderLease` is the code. `lease` is the row (`ttl` is `expires_at - now()`; -1
stands for every past value, because both comparisons in the SQL are strict). A
query is three steps: sent (`SendTick`, `Start`, `Stop`), executed by PostgreSQL as
one atomic statement (`ExecuteTick`, `ExecuteRelease`), answered (`AnswerTick`,
`AnswerRelease`) or lost (`FailTick`, `FailRelease`, `Crash`). A statement whose
client is gone may still be executed (`orphans`, `ExecuteOrphan`), on behalf of a
holder id that a new incarnation may be using. `mode` follows the process through
the SIGTERM path of `main.ts`: `stop()` awaits its release, then the bus is closed
and the pool drained (`Exit`). `told` is what the listeners last heard. `Elapse`
lets time pass. The mapping to the abstract module is `owner <- grants`,
`token <- epoch`; `grants` is a history of who got which epoch.

Not modelled: a second signal during `stop()` (it would send a second release with
the same epoch), and the duration of timers (when a timer fires is open).

### SignalController - the phase ring

The state and the arithmetic are the code's, in whole seconds; a tick adds `Dt`
(`NTCIP_ACCEL`). Each way a tick can end is an action (`Hold`, `EndGreen`,
`EndYellow`, `EndAllRed`), each strategy of `applyPriorityRequest` is another;
a refused request changes only counters and is left out. Requests name the VLT's
phase or one the controller lacks, as `ats-core` asks for no other. Two histories:
`clearance`, the seconds since the last green ended, and `promised`, what is left
of the earliest `delaySeconds` a grant told the VLT.

### IncidentHandler and IncidentDesk - from a detection to the panel

`IncidentHandler` holds the pure part: which detections are incidents, which
crossings they suspend (the section's and those of the two before it), and what
`handle` and `operatorClear` do to an instance's memory. A detection is reduced to
what the code compares: section, state, whether its confidence reaches its
threshold, whether it is urgent, whether it lasted. `IncidentDesk` runs it in
several instances that all take every message (`Receive`) while those that believe
they lead publish (`PublishAs`, modelling `publishAsLeader`); the panel takes what was
published (`PanelReceive`), and an operator may confirm any section, as the panel's
endpoint checks none (`Confirm`). The role moves with gaps (`Depose`, `Elect`), and who
lost it, paused or stopping, goes on publishing beside its successor until it learns of
it (`outgoing`, `Standby`); `LeaderLease` says why both happen. Instances crash and start with an empty memory, the panel restarts and is sent the
retained messages. One retained restriction and one retained state exist because
each has a single topic.

The broker is external: in-order delivery per client, nothing for a client with a
clean session that is away. A lost connection of a running instance (which keeps
its memory but misses messages) is not modelled.

### TspLoop - the priority request around its controller

One crossing, its controller (an INSTANCE of `SignalController`, so the ring, the
strategies and the forecast are those of that module) and every replica's
`TspController`. All replicas observe and evaluate. `isLeader()` looks at the epoch a
replica adopted last and the controller at no epoch, so any number of replicas may
publish at a time (`leaders`; `Lead` and `Standby` come in any order); the requests of
those are sent, and the others record a request they never send as in flight, as
`main.ts` has it. A position is reduced to what `evaluate` reads of it; its ETA is
negative when the chainage is past the end of the section, which nothing forbids.
Requests are a queue, answers a number on their way to each replica: late against
states and new requests, or lost. `Second` is a tick of the controller and of
every debounce.

What the gate promises is per replica: `RequestsBounded` speaks of one that publishes
alone, and `inherited` is a history of what was under way when it came to and of the
answers that came after its gate had reopened. Two that publish are bound by nothing,
since an answer to either reopens the gates of both; `OneInFlight` (section 4) shows it.

Not in the guards because the code has no such guard: `fb.at` is recorded and never
compared, and `train.stale` is never true inside `evaluate`, which runs right after
the report was stored.

### OrderedFeed and FieldAdmission - what the gateway lets in

`OrderedFeed` is the promise: of each device, messages pass at most once and in the
order the device built them, as long as the gateway lives. `FieldAdmission` is the
code: nodes that start, stop, lose their connection and come back with a new boot
session; the field broker with retained heartbeats and last wills; messages on the
wire in any order and repeated; and `admit`, stage by stage in the code's order,
with the rate window, the session, the cache of ids and the sequence number. A
stage that reads nothing but the message is a flaw the message has; what matters of
it is whether it strikes before or after the rate limiter counts. Behind it stands
the health `ats-core` keeps. The mapping is the identity on `admitted`, a history.

Clocks agree, so the refusal of messages from the future is not modelled, nor is
the alarm `onHealth` raises.

### Historian - handlers over a pool

A handler runs up to its first await when its message arrives (`Receive`: it looks
up and changes `openIncidentBySection` at once) and leaves a query in flight; the
pool runs up to `PoolSize` of them in any order (`Commit`), or one fails (`Fail`).
`db` is the tables with their keys: keyed inserts do nothing twice, the others add a
row. Detections, restrictions and orders come from a reduced `ats-core`, because the
trail depends on the order they are published in; a later detection publishes the
open restriction again under its id. A publisher may send a message twice; the
historian may restart and gets the retained restriction.

An id is the instant it was made. The historian names an incident after the first 8
hexadecimal digits of an id, the high 32 bits of a 48-bit time in milliseconds
(`Named`): `Window` instants, some 65 s in the code, share a name. `Wait` lets instants
pass in which nothing is made. What a republished restriction says (reason, limit,
term) is left out, and with it that `ON CONFLICT DO NOTHING` keeps the first of it.

### EdgeVision - from boxes to announcements

`Process` is one step of the frame loop: association greedy by overlap, oldest track
first (`Matches`; `tracks` is the tracker's dictionary, whose order is that of the
ids), misses, new tracks, and then the announcements of `scenario_vision` for
the tracks in the gauge. Boxes are rectangles of one height, which overlap with those at
neighbouring distances as in the image, so overlap is exact, two boxes can truly
compete, and a track may follow an object out of range. That the image draws far
objects smaller is left out. The first `WarmUp` frames feed the tracker and announce
nothing; their time is the wall clock's, that of the others the scenario's
(`FrameTime`). What was announced of a track is one of `none`,
`onset`, `sustained`, `cleared`.

### OperatorConsole - the reducer and what leads to it

`Accepts` and the effects are `ccoReducer`'s; `Offers` is what the page, the palette
and the dialog enable, read from the components. They are separate definitions
because they are separate code. Trains are cells on a loop, a tick is any rate of
`SimRates`, and a train stops before a restricted section or behind another train.
Cells are integers: the rounding of floating point that `EPS` in `reducer.ts` and
`line.ts` allows for at the seam of the loop is not in the model, and a tie between
trains is broken by a fixed choice instead of the order of a list.
The dialog has its target, the box for the camera and what was typed; the palette
may be used over it. `LineAssumption` is what the page's data give: the trains begin
apart and none between a stop point and its section, the stop point lies before the
section, and no tick takes a train from inside a section round to its stop point.

### Regulation - the loop through the trains

`Regulate` is the regulation cycle: the headway of each train that is not stale, the
PI step with its clamps, the command and whether it is material enough to be
sent. Commands go down a queue (`Deliver`, `LoseCommand`) that may lose or repeat
one; the train obeys for one stop. There are two clocks: a tick of the plant stands for
`Step` seconds of operation (`FLEET_ACCEL`) and takes `Beat` seconds of the clock
(`FLEET_TICK_MS`) by which `ats-core` counts its cycle, the age of reports and the time
between two corrections. Positions are running times at line speed in hundredths of a
second and sums are exact, where the code uses floating point; that a report rounds the
chainage to metres, so that a train within half a metre of the end of the loop is reported
at its length and not before it, is left out. `RegulationAssumption` says
that no section is run through in one tick of the plant: the shortest, 900 m at
20 km/h, takes 162 s and a tick 5 s.

## 3. Runs

| Run | Instance | Question |
|---|---|---|
| `lease` | 2 processes, lease of 2 ticks, 3 disturbances; 245 000 states | Is the fencing promise kept by every interleaving, and do processes learn where they stand? `LeaseInv`, `NoSharedEpoch`, `CurrentLeaseRespected`, the refinement `ImplementsFencedRole`; `FirstEvaluationTold` (with `ListenersAgree`: what the listeners last heard is what the process believes), `DeposedLearns`, `Settles` |
| `signal` | the production plan, 5 s ticks; 106 states | Do the intervals, the promises and the forecast survive ticks that overshoot? `SignalInv`, `MinGreenServed`, `ClearanceKept`, `PromiseKept`, `NeverPutOff`, `EveryPhaseServed` |
| `incidents` | line 2, 2 instances, 1 disturbance; 221 000 states | Do inhibitions, replicas and panel agree? `NoOrphanInhibition`, `HotStandbyAgrees` (with the types), `PanelAgrees`, `OnlyOperatorReopens`, `IncidentsShown` |
| `tsp` | 2 replicas, debounce of 1 s, 1 request and 1 answer under way; 725 000 states | Does the gate keep one publisher's requests from piling up, are they asked in vain, and does what was asked before a suspension run out? `TspInv`, `FreshRequestsAccepted`, `PlanResumes` |
| `field` | 1 node, 3 s, 3 messages per boot session, 2 on the wire, messages fresh for 1 s, 1 id remembered, 2 per second; 1.9 million states | What passes? `FieldInv`, `NewestAccepted`, `HealthNeverGoesBack`, the refinement `ImplementsOrderedFeed` |
| `historian` | 2 sections, 2 connections, 3 instants, 2 of which share a name, 2 orders, 1 fault; 6.6 million states | Is the trail whole? `TimelineWhole`, `LiftedByOrder`, `TrailStands` |
| `vision` | frames of up to 2 boxes, 6 frames, 1 of them warm-up, 3 tracks; 45 000 states | Is every object carried and told? `FrameCarried`, `IntrusionTold`, `StoryTrue` |
| `console` | 2 trains on 10 cells, 2 restrictions, 2 operators, ticks of 0, 1 and 3 s, 3 commands; 179 000 states | `ConsoleInv` (types, `TrainsApart`, `LogAccounts`), `OfferedAccepted`, `ReleaseVerified`, `NoRunThrough`, `TrainsRunAgain` |
| `regulation` | 2 trains, 3 sections, 12 ticks of 10 s of operation, one every 5 s, a surge and 2 faults, an even and a bunched start; 1.9 million states | `RegulationInv` (types, `IntervalsAddUp`), `StopsServed`, `OneStopOnly` |
| `incidents_inhibition`, `tsp_extension`, `field_will` | the instances of `incidents`, `tsp` and `field` | findings, section 4 |

**Bounds.** A disturbance is a crash, a stop, a failed query, a lease that runs out
under a holder that is awake, a deposition or a panel restart. Two processes are
enough for a rival and a victim; three disturbances allow a crash, a restart under
the same id and a statement left over from before, which is the longest chain the
lease properties speak of. A lease of two ticks has a fresh, an ageing and a
boundary value. In `incidents` one message is on its way to each instance and two to
the panel: reordering across clients needs no more; the detections are chosen for
their relations (one section twice with different urgency, the one before it, which
shares crossings, a `cleared`, a glimpse that is filtered, an unknown section). The
signal plan is the whole production plan, so that run bounds nothing but the tick, which
is `NTCIP_ACCEL`'s default; what holds at 1 s besides, `EstimateCountsDown`, is proved.
In `tsp` a debounce of one second lets an answer come before, at and after the gate
reopens, a request and an answer under way are one more than the gate means to allow, the
plan is short so that every interval of the ring meets every request, and the positions
are late trains past the crossing (a negative ETA), at it and before it, which ask for
each of the three strategies, and one for each reason not to ask. That run holds one
request on its way to the controller at a time; that two may be is `OneInFlight` (section
4), and the two safety properties are proved for any number.
In `field` three
seconds and two boot sessions let a message be fresh, on the limit and stale and
one session's meet the next's; a cache of one id is forced to evict; the rate window
of two fills. The stages are independent per device, so one node is enough. In
`historian` two connections reorder any two queries, one fault is a repeat, a
failure or a restart, and of three instants two share a name and two do not. In `vision`
two boxes that each overlap two tracks are the smallest competition, a step along the
track takes a box out of range with its track, and five frames after the warm-up allow
in, out, lost and back. In `console`
ticks of three cells jump past the gap of two and the margin of one. In `regulation`
the surge is twice the nominal stop and enough to bunch the trains, two lost reports
let one grow stale, a cycle of two ticks separates the plant's speed from the clock's, and
twelve ticks take a train through two stops.

The runs that set `CHECK_DEADLOCK FALSE` (`historian`, `vision`, `regulation`) run out of
their bound on instants, frames or ticks; the others may not stop.

**Fairness.** `LeaderLease`: time passes, an armed timer fires, PostgreSQL executes
and answers what it was sent, an ended process exits; nothing forces a start, a
crash or a failure, and since disturbances are bounded, `Settles` speaks of what
happens once they cease. `SignalController`: `setInterval` ticks as long as the
process runs. `IncidentDesk`: sent messages arrive, the regulation loop, also a
`setInterval`, publishes, and an instance that lost the role learns of it
(`DeposedLearns` of `LeaderLease`); `Elect` and `Start` are not fair, and
`IncidentsShown` allows for the lead to change. `TspLoop`: the
controller's `setInterval` ticks, the broker delivers requests to the controller and
answers to the replicas; nothing forces a position, a state, a suspension or a change of
the lead. `OperatorConsole`: the provider's `setInterval` ticks; commands are bounded and
not fair, so `TrainsRunAgain` speaks of what follows once nothing is restricted.
`FieldAdmission`, `Historian`, `EdgeVision` and `Regulation` state safety only.

## 4. What the code does otherwise than its documentation says

Three of these are runs that TLC refutes; the findings in `PROJECT.json` quote the
line.

1. `InhibitionCoversIncidents` (`incidents_inhibition`): closing one of two
   overlapping incidents restores priority at the crossings both had suspended.
2. `WillAdmitted` (`field_will`): the last will is stamped when the node starts, so
   when it is published it is refused as a replay or as stale.
3. `ExtensionAsked` (`tsp_extension`): the controller forecasts 0 s while the VLT has its
   green, which `evaluate` takes for a green that comes in time, so the green extension
   is not asked for a train that will miss it, against `tsp.ts:20`,
   `ESTABILIDADE.md:130-132` and `tests/ntcip.test.ts:146-155`, where the feedback shows
   green and 999 s at once. It is asked only for a train that is past the crossing by more
   than the margin.

Others are stated in the modules and are in no run. Each is violated when it is added
to the configuration of its module's run as an INVARIANT (PROPERTY where it is
temporal):

4. `ReentryTold` (EdgeVision): a track that leaves the gauge and enters it again is not
   announced; the last word on it stays `cleared`, against `edge_node.py:331-334`.
5. `TimelineApart` (Historian): incidents opened within the same 65 s have one id,
   whatever their sections, so the timeline of one (`historian.ts:138-141`) is mixed with
   that of the other.
6. `OneInFlight` (TspLoop, with `MaxRequests = 2`): the gate is each replica's own and
   closed for the debounce only, so two requests for one crossing are on their way at
   once, against `services/historian/src/main.ts:91-93`, where the pairing of request and
   answer depends on it.
7. `AtMostOnePublisher` (LeaderLease): `isLeader()` looks at the epoch last adopted,
   not at the expiry, so a paused or stopping leader and its successor both publish.
8. `StopFreesLease` (LeaderLease): an acquisition in flight at `stop()` takes a lease
   nobody releases; the successor waits it out.
9. `VltGreenNotTruncated` (SignalController): a red truncation granted in another
   phase's yellow or all-red leaves a force-off that ends the VLT's own green at its
   minimum.
10. `HoldStands` (IncidentDesk): a later, less urgent detection turns a hold into a
    speed limit.
11. `FailoverKeepsRestrictions` (IncidentDesk): what a standby would have published is
    never sent.
12. `RestartFindsRestrictions` (IncidentDesk): one retained topic holds one section's
    restriction.
13. `NoLineTwice` (Historian): inserts without a key of their own are duplicated when
    a message comes twice, against `historian.ts:11-18`.
14. `ShortIntervalProlonged` (Regulation): the integrator is clamped at 240 s and the
    actuator at -60 and +10 s, so after a long interval a train whose interval is
    short is still told to hurry, against `headway.ts:197`.

Seen in the models and stated by no property:

- Election: a failed renewal ends leadership with lease time left, although the
  renewal interval is meant to tolerate one.
- Signals and TSP: phase calls repeated in the VLT's own clearance keep the ring on
  its phase; a truncation asked there is refused; a replica that did not lead has
  requests on record as in flight which it never sent, and after an election waits out
  their debounce.
- Incidents: a leader that restarted has no open incident to close, so a confirmation
  publishes nothing.
- Admission: after a restart of the gateway a retained heartbeat is refused as stale
  if the node has been silent for longer than messages stay fresh.
- Historian: a `cleared` whose query ends before that of its restriction leaves the
  restriction open on record; one that comes twice clears a later restriction; a
  first detection that comes again after its incident was closed re-opens its id; a
  restriction published again under its id, as a hold after a speed limit, leaves the row
  as it was.
- Vision: a track missed for one frame is marked cleared and nothing is published.
- Console: the log keeps its last entries only, so the tally of a long shift counts
  too little.
- Regulation: a cycle whose correction is immaterial does not withdraw an earlier
  command; advice that arrives during a stop is lost at departure; a train that
  stopped reporting counts as absent, so the one behind it is hurried (compare
  `fleet.ts:33-36`); two trains reported at one place are a whole loop apart; the
  on-board clamp is 120 s where the plant's is 90.

## 5. Proofs

TLAPS proves, for all values of the constants (under the named assumptions of the
modules, which TLC evaluates in the runs):

- **`LeaderLeaseProofs`**. `FencingInv` is inductive: the row is the last grant
  (`RowIsLastGrant`), and every epoch in a process, a query or an orphaned statement
  was granted to its carrier (`TokensGranted`). `NoSharedEpoch` alone is not
  inductive: an answer still on its way could carry an epoch somebody else has, so
  the invariant has to speak of queries and orphans as well. It gives
  `NoSharedEpochHolds` and, action by action, the refinement `RefinesFencedRole`.
  `CurrentLeaseRespectedHolds` needs `ReleasesAreFinal` besides: a release that may
  still execute carries an epoch its process does not live under any more.
  `ListenersAgreeHolds` follows every change of an epoch to the listeners that are told
  of it.
- **`SignalControllerProofs`**. `SignalInv` is inductive: the extended split never
  passes `maxGreen`, and `clearance` counts the intervals since the last green. It
  gives `SignalInvHolds` and `ClearanceKeptHolds`; `MinGreenServedHolds` follows from
  the guards and the order of the plan's lengths. `PromiseKeptHolds` has its own invariant
  (an open promise means the VLT is called and no promise is longer than what the
  current turn can still take) and two hypotheses the run satisfies: only the VLT's
  phase is requested, and clearance intervals are not empty. Under the same two,
  `NeverPutOffHolds` shows that no step puts the VLT's green off beyond the forecast
  and every tick brings it nearer, whatever the plan and the tick: what an interval
  has left never grows (`TickForecast`), and the turn that begins is the first of those
  `secondsUntilGreen` had counted (`TurnsFacts`). `EstimateCountsDownHolds` adds that a
  tick takes its full length from the forecast when it is one second (`NTCIP_ACCEL` of 1); for longer
  ticks (`NTCIP_ACCEL` is 5 unless set) that is false, since intervals end on a tick.
- **`IncidentDeskProofs`**. `DeskInv`: an instance's memory lists for each open
  incident exactly the crossings of its section. Without that, a repeated detection,
  which overwrites the list, could strand an inhibition. It gives
  `NoOrphanInhibitionHolds` and `OnlyOperatorReopensHolds` for every topology.

- **`TspLoopProofs`**. `TspInv` is inductive: the types, and that a replica which
  publishes alone has at most one request under way beyond `inherited`. Without that
  history the bound is false, and a bound on requests alone would not be inductive: an
  answer that comes after the gate has reopened opens it once more. Of several that
  publish it says nothing until one is left, when `inherited` starts from what there is.
  It gives `TspInvHolds`. `FreshRequestsAcceptedHolds` needs `ForecastInv`: feedback that
  shows the VLT green has a wait of zero in what each replica remembers, so whoever asks
  for a train not past the crossing sees no green (`AskerSeesNoGreen`). Both hold for
  any number of replicas and publishers, any plan of the controller, any thresholds and
  any positions, trains past the crossing among them.

- **`IncidentDeskProofs`**, the panel and the standbys. `PanelAgrees` speaks of the
  moment when all is taken; what is inductive, while nobody but the leader publishes, is
  that for each section the last word, the last message about it on its way or else what the panel shows, is the leader's
  (`PanelTold`), which gives `PanelAgreesHolds`. `HotStandbyAgrees` needs to say how
  two instances differ while messages are on their way: of two that have run all
  along, one is ahead of the other on the same sequence of messages (`Standbys`), and
  taking what is left leads it to the other's memory. It gives
  `HotStandbyAgreesHolds`.
- **`FieldProofs`**. `FieldInv` is inductive: `SessionsSumUp` (the one session
  and the cache stand for all that passed), `NothingInvented` (nothing is ahead of the
  device that built it) and `HealthBehind`, without which the health at the start of a
  new life of the gateway could be newer than what passes first. It gives
  `FieldInvHolds`, `NewestAcceptedHolds`, `HealthNeverGoesBackHolds` and, action by
  action, the refinement `ImplementsOrderedFeedHolds`; for any number of devices, any
  freshness, rate window, cache and reordering.

  The second half is about `EdgeVision`, which the module extends as well: the two
  components share no name, and what is counted is sets and ids in both. The loop over the tracks is the recursive function `Matches`: it exists
  (`MatchesExist`), gives each track one box at most and no box twice (`MatchFacts`).
  The boxes left are counted off without gaps (`RankFacts`), so that every box of a
  frame has exactly one track, known or new (`TakesFacts`, `CarriesCounts`), and
  pruning removes only tracks without one (`UpdatedFacts`). `VisionInv` adds that what
  was announced of a track, published of it and seen of it agree (`StoriesKept`,
  `InsideAnnounced`), and nothing is told of a warm-up frame (`WarmUpSilent`). It gives `FrameCarriedHolds`, `IntrusionToldHolds` and
  `StoryTrueHolds`, for any frames, gauge, range, patience and warm-up.
- **`HistorianProofs`**. `HistorianInv` strengthens the properties by what is in flight:
  every message anywhere was sent (`Sourced`), so every order behind a `cleared` was
  given; every detection filed, in the tables or still in a query, carries the
  name its era was opened with, and that is the name of a detection of its section
  (`Filing`, for any `Window`); a restriction is on record once
  (`Records`). It gives `TimelineWholeHolds`, `LiftedByOrderHolds` and
  `TrailStandsHolds`, for any number of sections, connections and faults.
- **`OperatorConsoleProofs`**. `Kept` adds to `ConsoleInv` that an open dialog has an
  operator, an open restriction and a box ticked by that operator for it
  (`DialogKept`), and that no train stands between a stop point and its section
  (`NoneBetween`): from there it would run in, because a train that is past its stop
  point is held a whole loop later. The arithmetic modulo the loop is in lemmas of its
  own (`ForwardFacts`, `GoingOn`, `SectionStep`, `ApartStep`). It gives
  `ConsoleInvHolds`, `OfferedAcceptedHolds`, `ReleaseVerifiedHolds` and
  `NoRunThroughHolds`, for any loop, trains, sections and rates that satisfy
  `LineAssumption`.
- **`RegulationProofs`**. `Kept` adds to the types that a stop in progress and the
  seconds stood make up what was due (`DwellAccounts`), that a train told nothing has
  the nominal stop before it (`Untold`) and that the cycle falls on a tick. It gives
  `StopsServedHolds` and `OneStopOnlyHolds`. `RegulationInvHolds` is about what the
  topology's operators compute: of trains reported at distinct places each but the
  last follows the one ahead (`RingOfTrains`), an interval is a difference of
  positions and of free stops passed (`IntervalFacts`), so the intervals telescope
  round the loop (`RingSum`), for every line and every set of trains.

`StartOf`, `FoldedSum`, `Matches` and `TurnsUntil` are recursive functions. What they
compute for every input is proved from the least number without the property
(`LeastNatural`), since the induction theorems of the library, which take an operator as
a parameter, cannot be instantiated: first that a function with the recursion exists, then its facts.

Only model-checked: the liveness properties (`DeposedLearns`, `Settles`,
`EveryPhaseServed`, `IncidentsShown`, `PlanResumes`, `TrainsRunAgain`; liveness under fairness and ENABLED are
out of the prover's reach), with `FirstEvaluationTold`, whose safety part is proved as
`ListenersAgreeHolds`. Every other property of a passing run is stated by a theorem.

## 6. Plan

Done: the nine components of section 3 with their abstract specifications, and theorems
about all nine. What is left are the hazards of `PROJECT.json` that no property
covers: those whose wish the code does not meet and section 4 states as violated (a later,
less urgent detection; one retained topic for all sections; lines written twice; the
regulator's integral), commands that name a section and no incident, the alarm on a node's
first report, and outcomes and clearings written before the row they are meant for.

**Not modelled.** Signatures, canonical JSON and schema validation, and certificates
(pure conversions; the enrolment token is looked up and deleted in one synchronous
step); the SNMP agent (it reads out the controller's state); the detector and the
homography (numeric image processing); the stability bench (real-valued gains over a
virtual clock, though it hands `regulate` the wall clock) and the development brokers;
of `ats-core` the alarm of `onHealth`; of `operator-api` the alarm and TSP lists,
SSE and GTFS-RT (copies for display); of the console toasts, views, theme and layout.
A running instance that loses its connection to the broker but keeps its memory is
not modelled either.
