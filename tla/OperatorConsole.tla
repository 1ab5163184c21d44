--------------------------- MODULE OperatorConsole ---------------------------
(***************************************************************************)
(* The operator's console (apps/cco-dashboard): the reducer of CcoState    *)
(* with its trains on the loop (state/reducer.ts), the interval that ticks *)
(* it (state/CcoProvider.tsx), what the page and the command palette offer *)
(* the operator, and the release dialog (components, ui/UiProvider.tsx).   *)
(*                                                                         *)
(* Positions are cells of the loop and a second advances a train by one:   *)
(* sums are exact, and what the code does against rounding at the seam of  *)
(* the loop (EPS, the stop point taken as it is) has nothing to correct    *)
(* here.  Of equally near restrictions, or trains, the code takes the      *)
(* first of its list and the model some fixed one.                         *)
(* Operators are model values: what is typed is who it names, or nobody.   *)
(* A command is a record; the log keeps its kind and whose it was.         *)
(***************************************************************************)
EXTENDS Integers, Sequences, FiniteSets

CONSTANTS Train, Alarm, Operator, None,
          Seed,          \* SEED_OPERATOR, at the post when the page loads
          LoopLength,    \* cells of the loop
          MinGap,        \* MIN_GAP
          Margin,        \* HOLD_MARGIN
          Start,         \* [Train -> [t, dev]], TRAINS of the data
          Sections,      \* [restriction -> <<first, last>> cell of its section]
          SimRates,      \* seconds a tick may stand for; 0 pauses
          HoldThreshold, \* HOLD_THRESHOLD_S
          LogCap,        \* LOG_CAP
          MaxCommands    \* bound on the commands the operators give

Restriction == DOMAIN Sections
Cell == 0..(LoopLength - 1)

ASSUME ConsoleAssumption ==
    /\ IsFiniteSet(Train) /\ IsFiniteSet(Alarm) /\ IsFiniteSet(Restriction)
    /\ Cardinality(Train) > 1 /\ LoopLength \in Nat \ {0} /\ SimRates \subseteq Nat /\ 1 \in SimRates
    /\ {MinGap, Margin, HoldThreshold, LogCap, MaxCommands} \subseteq Nat
    /\ Start \in [Train -> [t : Cell, dev : Int]]
    /\ \A r \in Restriction : Sections[r] \in Cell \X Cell
    /\ Seed \in Operator /\ None \notin Operator \union Restriction \union Train

VARIABLES
    operator,   \* of the post, or None
    trains,     \* [Train -> [t, dev, hold]]; hold: the restriction or train waited for
    ack,        \* [Alarm -> who acknowledged it, or None]
    cleared,    \* [Restriction -> who released it, or None]
    log,        \* [kind, operator], newest first
    selected, simRate,
    release,    \* the dialog: [target, cctv, typed]
    verified,   \* history: <<who, which>> the box of the dialog was ticked for
    commands    \* commands given so far

vars == <<operator, trains, ack, cleared, log, selected, simRate, release, verified, commands>>

Active == {r \in Restriction : cleared[r] = None}
Unacked == {a \in Alarm : ack[a] = None}

-----------------------------------------------------------------------------
Wrap(t) == t % LoopLength
Forward(from, to) == Wrap(to - from)
IsInside(t, range) == Forward(range[1], t) <= Forward(range[1], range[2])
HoldAt(r) == Wrap(Sections[r][1] - Margin)

\* The line of the data: the trains begin apart and none between a stop point and
\* its section; no tick takes a train from inside a section past its stop point.
ASSUME LineAssumption ==
    /\ \A x, y \in Train : x # y => Forward(Start[x].t, Start[y].t) >= MinGap
    /\ Margin > 0
    /\ \A x \in Train, r \in Restriction : Forward(HoldAt(r), Start[x].t) \notin 1..(Margin - 1)
    /\ \A r \in Restriction, n \in SimRates :
         n + Margin + Forward(Sections[r][1], Sections[r][2]) <= LoopLength

\* Mutant: a train just before the section is taken to be inside already.
MutBindingPastHold(t) == {r \in Active : ~IsInside(t, <<HoldAt(r), Sections[r][2]>>)}

\* Mutant: a released restriction still stops trains.
MutBindingReleased(t) == {r \in Restriction : ~IsInside(t, Sections[r])}

\* Restrictions that may stop a train: the active ones it is not inside of.
Binding(t) == {r \in Active : ~IsInside(t, Sections[r])}

\* What may stop a train: the stop points of the restrictions, and the distance
\* to keep from every other train.
Constraints(x) ==
    LET t == trains[x].t IN
    {[distance |-> Forward(t, HoldAt(r)), position |-> HoldAt(r), reason |-> r] : r \in Binding(t)}
    \union
    {LET gap == Forward(t, trains[y].t) - MinGap IN
     [distance |-> IF gap > 0 THEN gap ELSE 0,
      position |-> IF gap > 0 THEN Wrap(trains[y].t - MinGap) ELSE t,
      reason |-> y] : y \in Train \ {x}}

\* Mutant: a restriction ahead counts before any train, however far it is.
MutBeforeRestrictions(c, d) ==
    IF (c.reason \in Restriction) = (d.reason \in Restriction) THEN c.distance <= d.distance
    ELSE c.reason \in Restriction

\* nearestConstraint: among equals a restriction comes first.
Before(c, d) ==
    \/ c.distance < d.distance
    \/ c.distance = d.distance /\ (c.reason \in Restriction \/ d.reason \notin Restriction)

NearestConstraint(x) == CHOOSE c \in Constraints(x) : \A d \in Constraints(x) : Before(c, d)

\* advanceTrains, one train: where each constraint would let it go, the nearest
\* decides.  A train late enough is not told from a later one.
Advanced(x, step) ==
    LET within == [c \in Constraints(x) |->
            LET late == trains[x].dev + (IF c.distance <= step THEN step - c.distance ELSE 0) IN
            [t |-> IF c.distance <= step THEN c.position ELSE Wrap(trains[x].t + step),
             dev |-> IF late > HoldThreshold THEN HoldThreshold ELSE late,
             hold |-> IF c.distance < step THEN c.reason ELSE None]]
    IN within[NearestConstraint(x)]

\* withLog.
WithLog(entries) ==
    LET all == entries \o log IN SubSeq(all, 1, IF Len(all) > LogCap THEN LogCap ELSE Len(all))

Entry(kind, who) == <<[kind |-> kind, operator |-> who]>>

\* TICK: a train that stops before a section or leaves such a stop is logged.
Tick ==
    /\ simRate > 0
    /\ UNCHANGED <<operator, ack, cleared, selected, simRate, release, verified, commands>>
    /\ trains' = [x \in Train |-> Advanced(x, simRate)]
    /\ LET told == {x \in Train : (trains[x].hold \in Restriction) # (trains'[x].hold \in Restriction)}
       IN log' = WithLog([k \in 1..Cardinality(told) |-> Entry("system", None)[1]])

-----------------------------------------------------------------------------
Login(o) == [type |-> "login", of |-> o]
Logout == [type |-> "logout"]
Ack(a) == [type |-> "ack", of |-> a]
AlarmAction(a) == [type |-> "action", of |-> a]
RadioCall(x) == [type |-> "radio", of |-> x]
Advice(x) == [type |-> "advice", of |-> x]
SimRate(n) == [type |-> "rate", of |-> n]
Select(x) == [type |-> "select", of |-> x]
Clear == [type |-> "clear", of |-> release.target, confirm |-> release.typed]

\* regulationAdvice: only a train ahead of its time is advised to wait.
Holds(x) == trains[x].dev <= -HoldThreshold

\* What the page's buttons dispatch: badge, alarms, pending list, train panel,
\* line diagram.  The dialog's overlay covers the page.
PageOffers ==
    IF release.target # None THEN {}
    ELSE {SimRate(n) : n \in SimRates} \union {Select(x) : x \in Train}
         \union (IF selected # None THEN {Select(None)} ELSE {})
         \union IF operator = None THEN {Login(o) : o \in Operator}
                ELSE {Logout} \union {Ack(a) : a \in Unacked} \union {AlarmAction(a) : a \in Alarm}
                     \union (IF selected = None THEN {}
                             ELSE {RadioCall(selected)} \union
                                  (IF Holds(selected) THEN {Advice(selected)} ELSE {}))

\* Mutant: the palette lists acknowledgements whether or not anybody is at the post.
MutPaletteOffersAlways ==
    {Select(x) : x \in Train} \union {SimRate(n) : n \in SimRates \ {simRate}}
    \union {Ack(a) : a \in Unacked}

\* usePaletteItems: the palette opens over everything.
PaletteOffers ==
    {Select(x) : x \in Train} \union {SimRate(n) : n \in SimRates \ {simRate}}
    \union (IF operator = None THEN {} ELSE {Ack(a) : a \in Unacked})

\* The submit of the dialog.
DialogOffers ==
    IF release.target # None /\ operator # None /\ release.cctv /\ release.typed = operator
    THEN {Clear} ELSE {}

Offers == PageOffers \union PaletteOffers \union DialogOffers

\* The reducer's early returns.
Accepts(c) ==
    CASE c.type = "login" -> operator = None
      [] c.type \in {"logout", "action", "radio"} -> operator # None
      [] c.type = "ack" -> operator # None /\ ack[c.of] = None
      [] c.type = "clear" -> operator # None /\ c.of \in Active /\ c.confirm = operator
      [] c.type = "advice" -> operator # None /\ Holds(c.of)
      [] c.type \in {"rate", "select"} -> TRUE

\* What the reducer logs of a command it accepts.
Noted(c) ==
    CASE c.type = "login" -> Entry("session", c.of)
      [] c.type = "logout" -> Entry("session", operator)
      [] c.type \in {"ack", "clear"} -> Entry(c.type, operator)
      [] c.type \in {"action", "radio", "advice"} -> Entry("action", operator)
      [] OTHER -> <<>>

Reduce(c) ==
    /\ log' = WithLog(Noted(c))
    /\ operator' = CASE c.type = "login" -> c.of [] c.type = "logout" -> None [] OTHER -> operator
    /\ ack' = IF c.type = "ack" THEN [ack EXCEPT ![c.of] = operator] ELSE ack
    /\ cleared' = IF c.type = "clear" THEN [cleared EXCEPT ![c.of] = operator] ELSE cleared
    /\ selected' = IF c.type = "select" THEN c.of ELSE selected
    /\ simRate' = IF c.type = "rate" THEN c.of ELSE simRate
    /\ UNCHANGED trains

-----------------------------------------------------------------------------
Closed == [target |-> None, cctv |-> FALSE, typed |-> None]

\* The operator presses what is offered; the dialog closes after its submit.
Command(c) ==
    /\ c.type = "select" \/ commands < MaxCommands
    /\ commands' = IF c.type = "select" THEN commands ELSE commands + 1
    /\ IF Accepts(c) THEN Reduce(c)
       ELSE UNCHANGED <<operator, trains, ack, cleared, log, selected, simRate>>
    /\ release' = IF c.type = "clear" THEN Closed ELSE release
    /\ UNCHANGED verified

\* Mutant: the form is not keyed: another restriction keeps what was ticked for the first.
MutOpenedKeepsForm(r) == [release EXCEPT !.target = r]

\* openRelease, from the pending list, the restriction's card or the palette; the
\* form is keyed by the restriction, so another one starts from a blank form.
Opened(r) == IF release.target = r THEN release ELSE [Closed EXCEPT !.target = r]

OpenRelease(r) ==
    /\ operator # None /\ r \in Active
    /\ release' = Opened(r)
    /\ UNCHANGED <<operator, trains, ack, cleared, log, selected, simRate, verified, commands>>

CheckCctv ==
    /\ release.target # None
    /\ release' = [release EXCEPT !.cctv = ~@]
    /\ verified' = IF release'.cctv THEN <<operator, release.target>> ELSE verified
    /\ UNCHANGED <<operator, trains, ack, cleared, log, selected, simRate, commands>>

Type(o) ==
    /\ release.target # None
    /\ release' = [release EXCEPT !.typed = o]
    /\ UNCHANGED <<operator, trains, ack, cleared, log, selected, simRate, verified, commands>>

CloseRelease ==
    /\ release.target # None
    /\ release' = Closed
    /\ UNCHANGED <<operator, trains, ack, cleared, log, selected, simRate, verified, commands>>

\* initialState: the seed operator is at the post.
Init ==
    /\ operator = Seed
    /\ trains = [x \in Train |-> [t |-> Start[x].t, dev |-> Start[x].dev, hold |-> None]]
    /\ ack = [a \in Alarm |-> None]
    /\ cleared = [r \in Restriction |-> None]
    /\ log = Entry("session", operator)
    /\ selected = None
    /\ simRate = 1
    /\ release = Closed
    /\ verified = <<>>
    /\ commands = 0

Next ==
    \/ Tick \/ CheckCctv \/ CloseRelease
    \/ \E c \in Offers : Command(c)
    \/ \E r \in Restriction : OpenRelease(r)
    \/ \E o \in Operator : Type(o)

\* The browser keeps firing the interval of CcoProvider while the page is open.
Spec == Init /\ [][Next]_vars /\ WF_vars(Tick)

-----------------------------------------------------------------------------
TypeOK ==
    /\ operator \in Operator \union {None}
    /\ trains \in [Train -> [t : Cell, dev : Int, hold : Restriction \union Train \union {None}]]
    /\ ack \in [Alarm -> Operator \union {None}] /\ cleared \in [Restriction -> Operator \union {None}]
    /\ log \in Seq([kind : {"session", "ack", "clear", "action", "system"}, operator : Operator \union {None}])
    /\ selected \in Train \union {None} /\ simRate \in SimRates
    /\ release \in [target : Restriction \union {None}, cctv : BOOLEAN, typed : Operator \union {None}]

Told(kind, who) == Cardinality({k \in DOMAIN log : log[k] = Entry(kind, who)[1]})

\* Until old entries fall off, the log accounts for the state: who acknowledged and
\* who released how much, and whether somebody is at the post (withLog, shiftTally).
LogAccounts ==
    Len(log) < LogCap =>
        /\ \A o \in Operator :
            /\ Told("ack", o) = Cardinality({a \in Alarm : ack[a] = o})
            /\ Told("clear", o) = Cardinality({r \in Restriction : cleared[r] = o})
        /\ (operator # None) <=> (Cardinality({k \in DOMAIN log : log[k].kind = "session"}) % 2 = 1)

\* No two trains come closer than MIN_GAP, whatever a tick stands for, and no train
\* is inside a restricted section unless it began there.
TrainsApart ==
    /\ \A x, y \in Train : x # y => Forward(trains[x].t, trains[y].t) >= MinGap
    /\ \A x \in Train, r \in Active : IsInside(trains[x].t, Sections[r]) => IsInside(Start[x].t, Sections[r])

ConsoleInv == TypeOK /\ TrainsApart /\ LogAccounts

\* Everything the console offers the reducer accepts: no button is dead.  The guards
\* of the components and those of ccoReducer are written apart.
OfferedAccepted == \A c \in Offers : Accepts(c)

\* A restriction goes only when the operator at the post ticked the CCTV box of this
\* very restriction ("Uma restricao nunca e liberada por clique unico").
ReleaseVerified == [][\A r \in Active : cleared'[r] # None =>
    /\ cleared'[r] = operator
    /\ verified = <<operator, r>>]_vars

\* No train that left a restricted section comes back before it is released, and no
\* train runs past the stop point of one still active within a single tick.
Swept(x) == {Wrap(trains[x].t + d) : d \in 1..Forward(trains[x].t, trains'[x].t)}

NoRunThrough == [][\A x \in Train, r \in Active :
    IsInside(trains[x].t, Sections[r]) \/ \A c \in Swept(x) : ~IsInside(c, Sections[r])]_vars

\* Once nothing is restricted and the simulation runs, every train goes round the
\* loop for ever: it is in its first half and in its second again and again.
TrainsRunAgain ==
    \A x \in Train : <>[](Active = {} /\ simRate > 0) =>
        []<>(trains[x].t < LoopLength \div 2) /\ []<>(trains[x].t >= LoopLength \div 2)
=============================================================================
