------------------------------ MODULE Regulation ------------------------------
(***************************************************************************)
(* Headway regulation in closed loop: the fleet's reports (ats-core        *)
(* fleet.ts), the PI controller (headway.ts over topology.ts), the         *)
(* regulation cycle of ats-core's main.ts, the way down through the        *)
(* gateway (downlink.ts) and the trains that obey (tools/fleet-sim.ts, the *)
(* physics of packages/plant).                                             *)
(*                                                                         *)
(* A position is the running time to it at line speed, in hundredths of a  *)
(* second: order, gaps and headways are those of metres and line speeds.   *)
(* Gains are in thousandths, so the controller's sums are exact in         *)
(* units of 1e-5 s.  The plant's tick stands for Step seconds of operation *)
(* (FLEET_ACCEL), while ats-core's clock moves by Beat seconds; both run   *)
(* in whole seconds.  A report carries the exact position: that the plant  *)
(* rounds it to metres, so that a train within half a metre of the end of  *)
(* the loop is reported at Length and not before it, is left out.          *)
(***************************************************************************)
EXTENDS Integers, Sequences, FiniteSets

CONSTANTS Trains,     \* sequence of trains, in the order first heard of
          Run,        \* [1..n -> running time of a section, in hundredths]
          Stops,      \* sections that begin with a stop
          Begins,     \* where the trains may begin: sets of [train -> section, run]
          Step,       \* FLEET_ACCEL: seconds of operation in a tick of the plant
          Beat,       \* FLEET_TICK_MS, in seconds of the clock
          Period,     \* REGULATION_PERIOD_MS, in seconds
          StaleAfter, \* STALE_AFTER_MS, in seconds
          Surges,     \* seconds a surge of passengers may add
          MaxTicks, MaxSurges, MaxFaults

Train == {Trains[i] : i \in DOMAIN Trains}
Section == DOMAIN Run

DwellMin == 20
DwellMax == 90
DwellNominal == 30
CoastMin == 4
CoastMax == 8
DwellCeiling == 120   \* of the on-board clamp of fleet-sim; the plant's is 90

ASSUME RegulationAssumption ==
    /\ Trains \in Seq(Train) /\ Len(Trains) > 1 /\ Cardinality(Train) = Len(Trains)
    /\ Run \in Seq(Nat \ {0}) /\ Run # <<>> /\ Stops \subseteq Section
    \* The shortest section, 900 m at 20 km/h, takes 162 s; a tick takes 5 s.
    /\ \A s \in Section : 100 * Step <= Run[s]
    /\ Begins \subseteq [Train -> [section : Section, run : Nat]]
    /\ \A begin \in Begins, x \in Train : begin[x].run < Run[begin[x].section]
    /\ {Step, Beat, Period, StaleAfter, MaxTicks, MaxSurges, MaxFaults} \subseteq Nat /\ Surges \subseteq Nat
    /\ Step > 0 /\ Beat > 0 /\ Period % Beat = 0

VARIABLES
    at,        \* [Train -> [section, run]]
    dwell,     \* [Train -> seconds of its stop left; 0 running]
    commanded, \* [Train -> [dwell, coast]] advised for the next stop
    surge,     \* [Train -> passengers' extra seconds at the next stop]
    report,    \* [Train -> [pos, age]] as ats-core knows it
    pi,        \* [Train -> [integral, since]]; since = -1 before the first cycle
    link,      \* [Train -> Seq of commands on their way down]
    sinceCycle, ticks, surges, faults,
    stood,     \* history: [Train -> seconds at the stop it is at or last was at]
    told,      \* history: [Train -> a command has arrived since its last departure]
    last       \* history: [Train -> last command computed, or the nominal one]

vars == <<at, dwell, commanded, surge, report, pi, link, sinceCycle, ticks,
          surges, faults, stood, told, last>>

Nominal == [dwell |-> DwellNominal, coast |-> 0, error |-> 0]

-----------------------------------------------------------------------------
\* Mutant: limits that do not limit.
MutWithinNothing(v, lo, hi) == IF v > hi THEN hi ELSE v

Within(v, lo, hi) == IF v < lo THEN lo ELSE IF v > hi THEN hi ELSE v
Rounded(v, unit) == (v + unit \div 2) \div unit
Abs(v) == IF v < 0 THEN -v ELSE v

StartOf[s \in Section] == IF s = 1 THEN 0 ELSE StartOf[s - 1] + Run[s - 1]
Length == StartOf[Len(Run)] + Run[Len(Run)]
LinearPosition(p) == StartOf[p.section] + p.run

\* Mutant: a stop exactly where the train ahead is counts as one on the way.
MutStopsWithinInclusive(from, gap) ==
    {s \in Stops : LET d == (StartOf[s] - from) % Length IN 0 < d /\ d <= gap}

\* Stops on the way: boundaries crossed with some of the gap left.
StopsWithin(from, gap) ==
    {s \in Stops : LET d == (StartOf[s] - from) % Length IN 0 < d /\ d < gap}

TraversalTime(from, gap) == gap + 100 * DwellNominal * Cardinality(StopsWithin(from, gap))

CycleTime == Length + 100 * DwellNominal * Cardinality(Stops)
Setpoint(n) == Rounded(CycleTime, 100 * n)   \* in seconds, as sent

\* onLine: who has reported lately, in the order of the line; ties in the order
\* first heard of.
Active == {x \in Train : report[x].age <= StaleAfter}
Rank(x) == CHOOSE i \in DOMAIN Trains : Trains[i] = x
Precedes(x, y) ==
    \/ report[x].pos < report[y].pos
    \/ report[x].pos = report[y].pos /\ Rank(x) < Rank(y)

Ahead(x) ==
    LET later == {y \in Active : Precedes(x, y)}
        from == IF later # {} THEN later ELSE Active
    IN CHOOSE y \in from : \A z \in from : z = y \/ Precedes(y, z)

\* measuredHeadwayS.
Gap(x) ==
    LET gap == report[Ahead(x)].pos - report[x].pos IN IF gap <= 0 THEN gap + Length ELSE gap
MeasuredHeadway(x) == TraversalTime(report[x].pos, Gap(x))

\* regulate, one train: the integrator, its clamp, and the command.
Error(x) == MeasuredHeadway(x) - 100 * Setpoint(Cardinality(Active))
Elapsed(x) == IF pi[x].since < 1 THEN 1 ELSE pi[x].since
Integral(x) == Within(pi[x].integral + Error(x) * Elapsed(x) * 17, -24000000, 24000000)

Advised(x) ==
    LET error == Error(x)
        u == 510 * error + Integral(x)
        d == Rounded(Within(100000 * DwellNominal - u, 100000 * DwellMin, 100000 * DwellMax), 100000)
        excess == Within(-error - 6000, 0, 18000)
    IN [dwell |-> d, error |-> error,
        coast |-> IF error < -6000 /\ d >= DwellMax
                  THEN Rounded(CoastMin * 18000 + excess * (CoastMax - CoastMin), 18000) ELSE 0]

Regulated == IF Cardinality(Active) < 2 THEN {} ELSE Active

\* Nothing material to command.
Material(c) == Abs(c.dwell - DwellNominal) >= 3 \/ c.coast # 0

\* The cycle of ats-core, by the instance that leads.
Regulate ==
    /\ sinceCycle = Period
    /\ sinceCycle' = 0
    /\ last' = [x \in Train |-> IF x \in Regulated THEN Advised(x) ELSE last[x]]
    /\ pi' = [x \in Train |-> IF x \in Regulated
                THEN [integral |-> Integral(x), since |-> 0] ELSE pi[x]]
    /\ link' = [x \in Train |-> IF x \in Regulated /\ Material(last'[x])
                THEN Append(link[x], last'[x]) ELSE link[x]]
    /\ UNCHANGED <<at, dwell, commanded, surge, report, ticks, surges, faults, stood, told>>

-----------------------------------------------------------------------------
\* The on-board limits; the same clamp is in the plant's applyCommands.
Obeyed(c) == [dwell |-> Within(c.dwell, DwellMin, DwellCeiling), coast |-> Within(c.coast, 0, CoastMax)]

\* The gateway packs, signs and forwards; the train verifies and applies.  The
\* broker delivers at least once and nothing on board tells a repetition.
Deliver(x, again) ==
    /\ link[x] # <<>>
    /\ commanded' = [commanded EXCEPT ![x] = Obeyed(Head(link[x]))]
    /\ link' = IF again THEN link ELSE [link EXCEPT ![x] = Tail(@)]
    /\ told' = [told EXCEPT ![x] = TRUE]
    /\ faults' = IF again THEN faults + 1 ELSE faults
    /\ faults' <= MaxFaults
    /\ UNCHANGED <<at, dwell, surge, report, pi, sinceCycle, ticks, surges, stood, last>>

\* The gateway or the train's connection is down when the command passes.
LoseCommand(x) ==
    /\ link[x] # <<>> /\ faults < MaxFaults
    /\ link' = [link EXCEPT ![x] = Tail(@)]
    /\ faults' = faults + 1
    /\ UNCHANGED <<at, dwell, commanded, surge, report, pi, sinceCycle, ticks, surges, stood, told, last>>

\* injectSurge, injectDisturbance.
InjectSurge(x) ==
    /\ surges < MaxSurges
    /\ \E n \in Surges : surge' = [surge EXCEPT ![x] = n]
    /\ surges' = surges + 1
    /\ UNCHANGED <<at, dwell, commanded, report, pi, link, sinceCycle, ticks, faults, stood, told, last>>

\* The section a running train is in after the tick, and how far into it.
Moved(x) ==
    LET run == at[x].run + (100 - commanded[x].coast) * Step IN
    IF run < Run[at[x].section] THEN [section |-> at[x].section, run |-> run]
    ELSE [section |-> (at[x].section % Len(Run)) + 1, run |-> run - Run[at[x].section]]

Standing(x) == dwell[x] > 0
Arrives(x) == ~Standing(x) /\ Moved(x).section # at[x].section /\ Moved(x).section \in Stops
Departs(x) == Standing(x) /\ dwell[x] <= Step

\* Mutant: a command holds until another comes.
MutAfterStopKeeps(c) == c

\* A command is good for one stop; coasting ends where the stop begins.
AfterStop(c) == [c EXCEPT !.dwell = DwellNominal]
AtStop(c) == [c EXCEPT !.coast = 0]

\* tick of every train, then publish: a report with qos 0 may not arrive.
Tick ==
    /\ sinceCycle < Period /\ ticks < MaxTicks
    /\ ticks' = ticks + 1 /\ sinceCycle' = sinceCycle + Beat
    /\ at' = [x \in Train |-> IF Standing(x) THEN at[x] ELSE Moved(x)]
    /\ dwell' = [x \in Train |->
         IF Standing(x) THEN IF Departs(x) THEN 0 ELSE dwell[x] - Step
         ELSE IF Arrives(x) THEN commanded[x].dwell + surge[x] ELSE 0]
    /\ surge' = [x \in Train |-> IF Arrives(x) THEN 0 ELSE surge[x]]
    /\ commanded' = [x \in Train |->
         IF Departs(x) THEN AfterStop(commanded[x])
         ELSE IF Arrives(x) THEN AtStop(commanded[x]) ELSE commanded[x]]
    /\ stood' = [x \in Train |-> IF Arrives(x) THEN 0 ELSE IF Standing(x) THEN stood[x] + Step ELSE stood[x]]
    /\ told' = [x \in Train |-> told[x] /\ ~Departs(x)]
    /\ \E heard \in SUBSET Train :
         /\ faults' = faults + Cardinality(Train \ heard) /\ faults' <= MaxFaults
         /\ report' = [x \in Train |->
              IF x \in heard THEN [pos |-> LinearPosition(at'[x]), age |-> 0]
              ELSE [report[x] EXCEPT !.age = IF @ > StaleAfter THEN @ ELSE @ + Beat]]
    /\ pi' = [x \in Train |-> IF pi[x].since < 0 THEN pi[x]
                ELSE [pi[x] EXCEPT !.since = Within(@ + Beat, 0, 60)]]
    /\ UNCHANGED <<link, surges, last>>

\* The trains have been heard of; nothing has been regulated.
Init ==
    /\ at \in Begins
    /\ dwell = [x \in Train |-> 0] /\ surge = [x \in Train |-> 0]
    /\ commanded = [x \in Train |-> [dwell |-> DwellNominal, coast |-> 0]]
    /\ report = [x \in Train |-> [pos |-> LinearPosition(at[x]), age |-> 0]]
    /\ pi = [x \in Train |-> [integral |-> 0, since |-> -1]]
    /\ link = [x \in Train |-> <<>>]
    /\ sinceCycle = 0 /\ ticks = 0 /\ surges = 0 /\ faults = 0
    /\ stood = [x \in Train |-> 0] /\ told = [x \in Train |-> FALSE]
    /\ last = [x \in Train |-> Nominal]

Next ==
    \/ Tick \/ Regulate
    \/ \E x \in Train : InjectSurge(x) \/ LoseCommand(x) \/ \E again \in BOOLEAN : Deliver(x, again)

Spec == Init /\ [][Next]_vars
-----------------------------------------------------------------------------
Clamped == {v \in Int : -24000000 <= v /\ v <= 24000000}

Advice == [dwell : DwellMin..DwellMax, error : Int, coast : 0..CoastMax]

TypeOK ==
    /\ at \in [Train -> [section : Section, run : Nat]]
    /\ \A x \in Train : at[x].run < Run[at[x].section]
    /\ dwell \in [Train -> Nat] /\ surge \in [Train -> Surges \union {0}]
    /\ commanded \in [Train -> [dwell : DwellMin..DwellMax, coast : 0..CoastMax]]
    /\ report \in [Train -> [pos : 0..(Length - 1), age : Nat]]
    /\ pi \in [Train -> [integral : Clamped, since : -1..60]]
    /\ link \in [Train -> Seq(Advice)] /\ last \in [Train -> Advice]
    /\ stood \in [Train -> Nat] /\ told \in [Train -> BOOLEAN]
    /\ sinceCycle \in 0..Period /\ {ticks, surges, faults} \subseteq Nat

\* Headways measured round the loop add up to the cycle time the setpoint is derived
\* from: measure and reference have one base.  A train exactly where a stop begins
\* is past that stop for itself and before it for the one behind.
FoldedSum[S \in SUBSET Train] ==
    IF S = {} THEN 0 ELSE LET x == CHOOSE y \in S : TRUE IN MeasuredHeadway(x) + FoldedSum[S \ {x}]

IntervalsAddUp ==
    LET atStop == {x \in Active : \E s \in Stops : report[x].pos = StartOf[s]} IN
    Cardinality(Active) > 1 /\ (\A x, y \in Active : x # y => report[x].pos # report[y].pos) =>
        FoldedSum[Active] = CycleTime - 100 * DwellNominal * Cardinality(atStop)

RegulationInv == TypeOK /\ IntervalsAddUp

\* No door closes before the accessibility floor, and none is kept open longer than
\* the controller's ceiling and the passengers' surge, whenever commands arrive.
StopsServed == [][\A x \in Train : dwell[x] > 0 /\ dwell'[x] = 0 =>
    /\ stood'[x] >= DwellMin
    /\ \E n \in Surges \union {0} : stood'[x] < DwellMax + n + Step]_vars

\* A train stops for other than the nominal time only at the first stop after a
\* command reached it ("comando vale uma parada so").
OneStopOnly == [][\A x \in Train : dwell[x] = 0 /\ dwell'[x] > 0 =>
    told[x] \/ dwell'[x] - surge[x] = DwellNominal]_vars

-----------------------------------------------------------------------------
\* What a comment claims and the code does not provide.

\* A train whose interval is short is told to wait, never to hurry ("Intervalo curto
\* [...]: prolongando dwell", headway.ts): it is told to hurry when the integrator has
\* built up during a long interval.
ShortIntervalProlonged == \A x \in Train : last[x].error < 0 => last[x].dwell >= DwellNominal
=============================================================================
