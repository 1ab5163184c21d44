-------------------------- MODULE SignalController --------------------------
(***************************************************************************)
(* The actuated traffic-signal controller the TSP loop closes over:        *)
(* services/ntcip-emulator/src/controller.ts, ticked and sent requests to  *)
(* by services/ntcip-emulator/src/main.ts.                                 *)
(*                                                                         *)
(* Phases are named by their position in the plan; the VLT's is the first, *)
(* 0 is a phase the controller does not have and, in pendingCall, null.    *)
(* The counters that only feed the panel (served, denied, debt, cycle) are *)
(* left out, so a denied request changes nothing.                          *)
(***************************************************************************)
EXTENDS Integers, Sequences

CONSTANTS Plan,          \* the PhaseConfig of each phase, in ring order
          Dt,            \* seconds a tick advances the clock by (ACCEL)
          MaxExtension,  \* maxExtension of every request
          Requested,     \* phases that requests may name
          Strategies     \* strategies that requests may use

Phase == 1..Len(Plan)
VltPhase == 1
NoPhase == 0

PhaseConfig == [minGreen : Nat, maxGreen : Nat, yellow : Nat, allRed : Nat, splitGreen : Nat]

ASSUME PlanAssumption ==
    /\ Plan \in Seq(PhaseConfig)
    /\ Plan # <<>>
    /\ \A p \in Phase : /\ Plan[p].splitGreen > 0
                        /\ Plan[p].minGreen <= Plan[p].splitGreen
                        /\ Plan[p].splitGreen <= Plan[p].maxGreen

ASSUME TickAssumption == Dt \in Nat \ {0}

ASSUME RequestAssumption ==
    /\ MaxExtension \in Nat
    /\ Requested \subseteq Phase \union {NoPhase}
    /\ Strategies \subseteq {"phase_call", "green_extension", "red_truncation"}

VARIABLES
    activePhase,     \* the phase of the current interval
    color,           \* which of its intervals: "green", "yellow", "all_red"
    elapsed,         \* seconds into the interval
    grantedExtension,
    pendingCall,
    pendingForceOff,
    clearance,       \* history: seconds since the last green ended
    promised         \* history: seconds left of the delay the VLT was promised

state == <<activePhase, color, elapsed, grantedExtension, pendingCall, pendingForceOff>>
vars == <<state, clearance, promised>>

-----------------------------------------------------------------------------
Larger(a, b) == IF a >= b THEN a ELSE b
Smaller(a, b) == IF a <= b THEN a ELSE b

cfg == Plan[activePhase]
now == elapsed + Dt

\* Mutant: a force-off acts at once, minimum green or not.
MutGreenOverNoMinimum ==
    \/ now >= Smaller(cfg.splitGreen + grantedExtension, cfg.maxGreen)
    \/ pendingForceOff

GreenOver ==
    \/ now >= Smaller(cfg.splitGreen + grantedExtension, cfg.maxGreen)
    \/ pendingForceOff /\ now >= cfg.minGreen

IntervalOver ==
    CASE color = "green"   -> GreenOver
      [] color = "yellow"  -> now >= cfg.yellow
      [] color = "all_red" -> now >= cfg.allRed

\* The phase after p in the ring.
After(p) == (p % Len(Plan)) + 1

\* Mutant: the call is forgotten when its turn comes, the ring goes on.
MutFollowingIgnoresCall == After(activePhase)

\* #nextPhase: a called phase goes first, otherwise the ring goes on.
Following == IF pendingCall # NoPhase THEN pendingCall ELSE After(activePhase)

-----------------------------------------------------------------------------
Init ==
    /\ activePhase = VltPhase /\ color = "green" /\ elapsed = 0
    /\ grantedExtension = 0 /\ pendingCall = NoPhase /\ pendingForceOff = FALSE
    /\ clearance = 0
    /\ promised = {}

\* tick(dt) inside an interval.
Hold ==
    /\ ~IntervalOver
    /\ elapsed' = now
    /\ clearance' = IF color = "green" THEN 0 ELSE clearance + Dt
    /\ promised' = {d - Dt : d \in promised}
    /\ UNCHANGED <<activePhase, color, grantedExtension, pendingCall, pendingForceOff>>

\* tick(dt) that ends the green.
EndGreen ==
    /\ color = "green" /\ IntervalOver
    /\ color' = "yellow" /\ elapsed' = 0
    /\ grantedExtension' = 0 /\ pendingForceOff' = FALSE
    /\ promised' = {d - Dt : d \in promised}
    /\ UNCHANGED <<activePhase, pendingCall, clearance>>

\* Mutant: a phase that was called takes over at the end of the yellow.
MutEndYellowCallTakesOver ==
    /\ color = "yellow" /\ IntervalOver
    /\ color' = IF pendingCall = NoPhase THEN "all_red" ELSE "green"
    /\ activePhase' = IF pendingCall = NoPhase THEN activePhase ELSE pendingCall
    /\ elapsed' = 0 /\ pendingCall' = NoPhase
    /\ clearance' = clearance + Dt
    /\ promised' = IF pendingCall = VltPhase THEN {} ELSE {d - Dt : d \in promised}
    /\ UNCHANGED <<grantedExtension, pendingForceOff>>

\* tick(dt) that ends the yellow.
EndYellow ==
    /\ color = "yellow" /\ IntervalOver
    /\ color' = "all_red" /\ elapsed' = 0
    /\ clearance' = clearance + Dt
    /\ promised' = {d - Dt : d \in promised}
    /\ UNCHANGED <<activePhase, grantedExtension, pendingCall, pendingForceOff>>

\* tick(dt) that ends the all-red: the next phase gets its green.
EndAllRed ==
    /\ color = "all_red" /\ IntervalOver
    /\ color' = "green" /\ elapsed' = 0
    /\ activePhase' = Following /\ pendingCall' = NoPhase
    /\ clearance' = 0
    /\ promised' = IF Following = VltPhase THEN {} ELSE {d - Dt : d \in promised}
    /\ UNCHANGED <<grantedExtension, pendingForceOff>>

Tick == Hold \/ EndGreen \/ EndYellow \/ EndAllRed

\* The promise the VLT goes by is the earliest one still open.
Earliest(S) == {d \in S : \A e \in S : d <= e}
Promise(p, delay) ==
    promised' = IF p = VltPhase THEN Earliest(promised \union {delay}) ELSE promised

\* Mutant: the room is what the plan leaves, whatever was granted before.
MutRoomOncePerRequest == cfg.maxGreen - cfg.splitGreen

Room == cfg.maxGreen - (cfg.splitGreen + grantedExtension)

\* Mutant: an extension winds the interval back and is not accounted for.
MutExtendRewinds(p) ==
    /\ activePhase = p /\ color = "green" /\ Room > 0
    /\ elapsed' = Larger(0, elapsed - Smaller(MaxExtension, Room))
    /\ UNCHANGED <<activePhase, color, grantedExtension, pendingCall, pendingForceOff,
                   clearance, promised>>

\* applyPriorityRequest, strategy 2: lengthen the green that is on.
GreenExtension(p) ==
    /\ activePhase = p /\ color = "green" /\ Room > 0
    /\ grantedExtension' = grantedExtension + Smaller(MaxExtension, Room)
    /\ UNCHANGED <<activePhase, color, elapsed, pendingCall, pendingForceOff,
                   clearance, promised>>

\* Strategy 3: end the other phase's green at its minimum and call phase p.
RedTruncation(p) ==
    /\ activePhase # p
    /\ pendingForceOff' = TRUE /\ pendingCall' = p
    /\ Promise(p, Larger(0, cfg.minGreen - elapsed) + cfg.yellow + cfg.allRed)
    /\ UNCHANGED <<activePhase, color, elapsed, grantedExtension, clearance>>

\* Strategy 1: phase p gets the next turn.
PhaseCall(p) ==
    /\ ~(activePhase = p /\ color = "green")
    /\ pendingCall' = p
    /\ Promise(p, Larger(0, cfg.splitGreen - elapsed) + cfg.yellow + cfg.allRed)
    /\ UNCHANGED <<activePhase, color, elapsed, grantedExtension, pendingForceOff, clearance>>

\* A request that arrives; one the guards above refuse is denied.
PriorityRequest ==
    \E p \in Requested \intersect Phase :
        \/ "green_extension" \in Strategies /\ GreenExtension(p)
        \/ "red_truncation" \in Strategies /\ RedTruncation(p)
        \/ "phase_call" \in Strategies /\ PhaseCall(p)

Next == Tick \/ PriorityRequest

Spec == Init /\ [][Next]_vars

\* setInterval ticks every controller for as long as the process runs.
FairSpec == Spec /\ WF_vars(Tick)

-----------------------------------------------------------------------------
\* secondsUntilGreen(p): what is left of this interval, then every phase of
\* the ring that comes before p.
RestOfTurn ==
    CASE color = "green"   -> Larger(0, cfg.splitGreen + grantedExtension - elapsed)
                              + cfg.yellow + cfg.allRed
      [] color = "yellow"  -> Larger(0, cfg.yellow - elapsed) + cfg.allRed
      [] color = "all_red" -> Larger(0, cfg.allRed - elapsed)

TurnLength(p) == Plan[p].splitGreen + Plan[p].yellow + Plan[p].allRed

\* The whole turns between the end of each phase's and the start of p's.
TurnsUntil(p) ==
    LET Turns[q \in Phase] ==
          IF After(q) = p THEN 0 ELSE TurnLength(After(q)) + Turns[After(q)]
    IN  Turns

\* Mutant: a phase that is in its own yellow or all-red is called green soon.
MutSecondsUntilGreenSkipsRing(p) ==
    IF activePhase = p THEN (IF color = "green" THEN 0 ELSE RestOfTurn)
    ELSE RestOfTurn + TurnsUntil(p)[activePhase]

SecondsUntilGreen(p) ==
    IF activePhase = p /\ color = "green" THEN 0
    ELSE RestOfTurn + TurnsUntil(p)[activePhase]

-----------------------------------------------------------------------------
TypeOK ==
    /\ activePhase \in Phase
    /\ color \in {"green", "yellow", "all_red"}
    /\ elapsed \in Nat
    /\ grantedExtension \in Nat
    /\ pendingCall \in Phase \union {NoPhase}
    /\ pendingForceOff \in BOOLEAN
    /\ clearance \in Nat
    /\ promised \subseteq Int

\* A green is shorter than its extended split, which never passes maxGreen;
\* what was granted is given back when the green ends.
GreenBounded ==
    /\ cfg.splitGreen + grantedExtension <= cfg.maxGreen
    /\ color = "green" => elapsed < cfg.splitGreen + grantedExtension
    /\ color # "green" => grantedExtension = 0

\* The seconds since the last green are those of the two clearance intervals.
ClearanceCounted ==
    /\ color = "green" => clearance = 0
    /\ color = "yellow" => clearance = elapsed
    /\ color = "all_red" => clearance >= cfg.yellow + elapsed

\* The inductive invariant: controller.ts:10-18, "as tres restricoes que um
\* TSP nao pode violar", in the form each step preserves them.  However many
\* extensions are granted, no green passes maxGreen.
SignalInv == TypeOK /\ GreenBounded /\ ClearanceCounted

\* controller.ts:12-13 and :103-104: no green, forced off or not, ends before
\* the minimum of its phase has been served - the pedestrian on the crossing.
MinGreenServed == [][color = "green" /\ color' # "green" => now >= cfg.minGreen]_vars

\* controller.ts:14-15: between two greens lie the whole yellow and the whole
\* all-red of the phase that ended, whatever requests arrive meanwhile: the
\* yellow is over before the tick with which the next green begins.
ClearanceKept ==
    [][color # "green" /\ color' = "green"
       => /\ clearance >= Plan[activePhase].yellow
          /\ clearance + Dt >= Plan[activePhase].yellow + Plan[activePhase].allRed]_vars

\* controller.ts:182 and :195, the delaySeconds a grant carries: the VLT's
\* green comes when the earliest promise still open says, but for what the
\* intervals on the way are rounded up by to whole ticks.
PromiseKept == \A d \in promised : d + 2 * (Dt - 1) >= 0

\* controller.ts:201-218: the forecast the ATS regulates on (it asks for
\* nothing when green comes in time, tsp.ts:161-189) counts down with the
\* clock: what requests change only brings the green nearer.
EstimateCountsDown ==
    [][LET estimate == SecondsUntilGreen(VltPhase)
       IN estimate > 0 => /\ SecondsUntilGreen(VltPhase)' <= estimate
                          /\ Tick => SecondsUntilGreen(VltPhase)' <= Larger(0, estimate - Dt)]_vars

\* What it keeps of that when the clock runs faster than a second a tick
\* (NTCIP_ACCEL) and intervals are rounded up to ticks: whatever is requested and
\* whenever, no step puts the VLT's green off beyond the forecast published before
\* it, and every tick brings it nearer (controller.ts:201-218).
NeverPutOff ==
    [][LET estimate == SecondsUntilGreen(VltPhase)
       IN estimate > 0 => /\ SecondsUntilGreen(VltPhase)' <= estimate
                          /\ Tick => SecondsUntilGreen(VltPhase)' < estimate]_vars

\* controller.ts:16-17: with maxGreen, "extensoes sucessivas de prioridade" do
\* not starve anyone: once no call is pending any more, every phase gets its
\* green again and again, however often a green is extended.
EveryPhaseServed ==
    <>[](pendingCall = NoPhase) => \A p \in Phase : []<>(activePhase = p /\ color = "green")

-----------------------------------------------------------------------------
\* What the comments claim and the code does not provide.

\* controller.ts:51, pendingForceOff is "truncamento de vermelho para a fase do
\* VLT": it shortens the red the VLT waits in, hence never the VLT's own green,
\* which lasts its split.
VltGreenNotTruncated ==
    [][activePhase = VltPhase /\ color = "green" /\ color' # "green"
       => now >= cfg.splitGreen]_vars
=============================================================================
