------------------------------ MODULE Historian ------------------------------
(***************************************************************************)
(* The historian (services/historian/src/main.ts over                      *)
(* packages/historian/src/historian.ts and db/schema.sql): one handler per *)
(* message of the core bus, each ending in one query that the connections  *)
(* of the pool run in no particular order.  The publishers of the bus are  *)
(* here as far as the trail depends on them.                               *)
(*                                                                         *)
(* An id stands for the UUIDv7 of an envelope and for the instant it was   *)
(* made.  The historian names an incident after the first 8 hexadecimal    *)
(* digits of the id of the detection that opened it: the high 32 of the 48 *)
(* bits of a time in milliseconds, the same for all that is made in some   *)
(* 65 seconds.  A restriction is known by the detection that opened it, in *)
(* place of the random restriction_id of ats-core.                         *)
(***************************************************************************)
EXTENDS Naturals, Sequences, FiniteSets

CONSTANTS Section, Operator,
          Others,        \* kinds of the remaining messages in the instance
          PoolSize,      \* connections of pg.Pool
          None,
          Window,        \* instants that have the high 32 bits of their time in common
          MaxId,         \* bound on the instants
          MaxOrders,     \* bound on the operators' commands
          MaxBus,        \* bound on messages waiting for the historian
          MaxInflight,   \* bound on queries under way
          MaxFaults      \* bound on messages sent twice, failed queries and restarts

\* Messages whose row has a key of its own, and those whose row has not.
Keyed == {"position", "alarm"}
Unkeyed == {"rejected", "violation"}

ASSUME HistorianAssumption ==
    /\ Window \in Nat \ {0}
    /\ {PoolSize, MaxId, MaxOrders, MaxBus, MaxInflight, MaxFaults} \subseteq Nat
    /\ Others \subseteq Keyed \union Unkeyed \union {"decision"}
    /\ None \notin Operator

VARIABLES
    made,      \* the next id, and the present instant
    open,      \* [Section -> the restriction ats-core has on it, or 0]
    orders,    \* clear-section commands ats-core has not handled
    ordered,   \* how many there have been
    sent,      \* what has been published, for publishers to send again
    retained,  \* the last message of core/track_restriction, if any
    faults,    \* messages sent twice, failed queries and restarts so far
    bus,       \* messages on their way to the historian, in order
    incident,  \* openIncidentBySection: [Section -> id, or 0]
    inflight,  \* queries started, oldest first
    db,        \* the tables
    era        \* history: [Section -> times its incident was forgotten]

publishers == <<made, open, orders, ordered, sent, retained>>
vars == <<publishers, faults, bus, incident, inflight, db, era>>

Message(kind, id, sec, arg) == [kind |-> kind, id |-> id, sec |-> sec, arg |-> arg]

\* Several messages published one after the other.
Publish(ms, keep) ==
    /\ Len(bus) + Len(ms) <= MaxBus
    /\ bus' = bus \o ms
    /\ sent' = sent \union {ms[k] : k \in DOMAIN ms}
    /\ retained' = IF keep THEN <<ms[Len(ms)]>> ELSE retained

\* A detection comes in from the field; confirmed, it restricts the section.
\* A later one publishes the restriction again under the same restriction_id,
\* with its own reason, limit and term: what the row holds of them is left out.
Detect(s, confirmed) ==
    LET seen == Message("intrusion", made, s, None)
        restriction == Message("restriction", IF open[s] # 0 THEN open[s] ELSE made, s, None)
    IN
    /\ made <= MaxId
    /\ made' = made + 1
    /\ Publish(IF confirmed THEN <<seen, restriction>> ELSE <<seen>>, confirmed)
    /\ open' = IF confirmed THEN [open EXCEPT ![s] = restriction.id] ELSE open
    /\ UNCHANGED <<orders, ordered, faults, incident, inflight, db, era>>

Order(s, op) ==
    /\ ordered < MaxOrders
    /\ ordered' = ordered + 1
    /\ orders' = orders \union {<<s, op>>}
    /\ Publish(<<Message("clear_section", 0, s, op)>>, FALSE)
    /\ UNCHANGED <<made, open, faults, incident, inflight, db, era>>

\* ats-core clears the section, if it is restricted, and says so.
Obey(s, op) ==
    /\ <<s, op>> \in orders
    /\ orders' = orders \ {<<s, op>>}
    /\ IF open[s] # 0 THEN Publish(<<Message("cleared", 0, s, op)>>, TRUE)
                      ELSE UNCHANGED <<bus, sent, retained>>
    /\ open' = [open EXCEPT ![s] = 0]
    /\ UNCHANGED <<made, ordered, faults, incident, inflight, db, era>>

\* The other publications, and the answer to a priority request.
Tell(kind, s, granted) ==
    /\ kind \in Others \/ (kind = "grant" /\ \E m \in sent : m.kind = "decision")
    /\ made <= MaxId
    /\ made' = made + 1
    /\ Publish(<<Message(kind, made, s, granted)>>, FALSE)
    /\ UNCHANGED <<open, orders, ordered, faults, incident, inflight, db, era>>

\* Time goes by and nothing is made.
Wait ==
    /\ made <= MaxId
    /\ made' = made + 1
    /\ UNCHANGED <<open, orders, ordered, sent, retained, faults, bus, incident, inflight, db, era>>

\* QoS 1: a publisher that missed the acknowledgement sends again.
Resend(m) ==
    /\ faults < MaxFaults
    /\ faults' = faults + 1
    /\ Publish(<<m>>, FALSE)
    /\ UNCHANGED <<made, open, orders, ordered, incident, inflight, db, era>>

-----------------------------------------------------------------------------
\* `INC-` and env.id.slice(0, 8).
Named(id) == 1 + id \div Window

\* Mutant: every detection opens an incident of its own.
MutIncidentOfEach(m) == Named(m.id)

\* The incident a detection belongs to: the one open on its section, else one
\* named after it.
IncidentOf(m) == IF incident[m.sec] # 0 THEN incident[m.sec] ELSE Named(m.id)

\* bus.on('message') up to its await.  A query keeps the message, the incident
\* of a detection and the era it was received in.
Receive ==
    LET m == Head(bus) IN
    /\ bus # <<>>
    /\ Len(inflight) < MaxInflight
    /\ bus' = Tail(bus)
    /\ incident' = IF m.kind = "intrusion"
                   THEN [incident EXCEPT ![m.sec] = IncidentOf(m)] ELSE incident
    /\ inflight' = Append(inflight,
           [m |-> m, incident |-> IF m.kind = "intrusion" THEN IncidentOf(m) ELSE 0,
            era |-> era[m.sec]])
    /\ UNCHANGED <<publishers, faults, db, era>>

\* Mutant: ON CONFLICT DO UPDATE.
MutInsertReplaces(table, row) == {old \in table : old.id # row.id} \union {row}

\* INSERT ... ON CONFLICT (key) DO NOTHING.
Insert(table, row) ==
    IF \E old \in table : old.id = row.id THEN table ELSE table \union {row}

\* Mutant: every section is cleared.
MutLiftedEverywhere(table, m) ==
    {IF row.cleared = None THEN [row EXCEPT !.cleared = m.arg] ELSE row : row \in table}

\* clearRestriction.
Lifted(table, m) ==
    {IF row.sec = m.sec /\ row.cleared = None THEN [row EXCEPT !.cleared = m.arg] ELSE row :
        row \in table}

\* updateTspOutcome: the latest decision of the crossing without an outcome.
Settled(table, m) ==
    LET waiting == {k \in DOMAIN table : table[k].sec = m.sec /\ table[k].granted = None}
        latest == CHOOSE k \in waiting : \A j \in waiting : table[j].id <= table[k].id
    IN IF waiting = {} THEN table ELSE [table EXCEPT ![latest].granted = m.arg]

\* The statement a query runs.
Written(q) ==
    LET m == q.m IN
    CASE m.kind = "intrusion" ->
           [db EXCEPT !.events = Insert(@, [id |-> m.id, sec |-> m.sec,
                                            incident |-> q.incident, era |-> q.era])]
      [] m.kind = "restriction" ->
           [db EXCEPT !.restrictions = Insert(@, [id |-> m.id, sec |-> m.sec, cleared |-> None])]
      [] m.kind \in {"cleared", "clear_section"} ->
           [db EXCEPT !.restrictions = Lifted(@, m)]
      [] m.kind = "decision" ->
           [db EXCEPT !.decisions = Append(@, [id |-> m.id, sec |-> m.sec, granted |-> None])]
      [] m.kind = "grant" -> [db EXCEPT !.decisions = Settled(@, m)]
      [] m.kind \in Keyed -> [db EXCEPT !.keyed = Insert(@, [id |-> m.id, kind |-> m.kind])]
      [] m.kind \in Unkeyed -> [db EXCEPT !.audit = Append(@, m.id)]

Without(k) == [j \in 1..(Len(inflight) - 1) |-> IF j < k THEN inflight[j] ELSE inflight[j + 1]]

\* A query the pool has started ends, and its handler with it: the report that
\* ats-core cleared a section closes its incident.
Commit(k) ==
    LET m == inflight[k].m IN
    /\ db' = Written(inflight[k])
    /\ inflight' = Without(k)
    /\ incident' = IF m.kind = "cleared" THEN [incident EXCEPT ![m.sec] = 0] ELSE incident
    /\ era' = IF m.kind = "cleared" THEN [era EXCEPT ![m.sec] = @ + 1] ELSE era
    /\ UNCHANGED <<publishers, faults, bus>>

\* The failure is logged and the message is lost.
Fail(k) ==
    /\ faults < MaxFaults
    /\ faults' = faults + 1
    /\ inflight' = Without(k)
    /\ UNCHANGED <<publishers, bus, incident, db, era>>

\* The service restarts with an empty memory and finds the retained message.
Restart ==
    /\ faults < MaxFaults
    /\ faults' = faults + 1
    /\ bus' = retained
    /\ inflight' = <<>>
    /\ incident' = [s \in Section |-> 0]
    /\ era' = [s \in Section |-> era[s] + 1]
    /\ UNCHANGED <<publishers, db>>

Init ==
    /\ made = 1
    /\ open = [s \in Section |-> 0]
    /\ orders = {} /\ ordered = 0 /\ sent = {} /\ retained = <<>> /\ faults = 0
    /\ bus = <<>> /\ inflight = <<>>
    /\ incident = [s \in Section |-> 0]
    /\ era = [s \in Section |-> 0]
    /\ db = [events |-> {}, restrictions |-> {}, keyed |-> {}, decisions |-> <<>>, audit |-> <<>>]

Next ==
    \/ \E s \in Section :
          \/ \E confirmed \in BOOLEAN : Detect(s, confirmed)
          \/ \E op \in Operator : Order(s, op) \/ Obey(s, op)
          \/ \E kind \in Others : Tell(kind, s, None)
          \/ \E granted \in {"yes", "no"} : Tell("grant", s, granted)
    \/ Wait
    \/ \E m \in sent : Resend(m)
    \/ Receive
    \/ \E k \in 1..PoolSize : k <= Len(inflight) /\ (Commit(k) \/ Fail(k))
    \/ Restart

Spec == Init /\ [][Next]_vars

-----------------------------------------------------------------------------
Args == Operator \union {None, "yes", "no"}
Kinds == {"intrusion", "restriction", "cleared", "clear_section", "decision", "grant"}
         \union Keyed \union Unkeyed
MessageType == [kind : Kinds, id : Nat, sec : Section, arg : Args]

TypeOK ==
    /\ made \in Nat /\ ordered \in Nat /\ faults \in Nat
    /\ open \in [Section -> Nat]
    /\ orders \subseteq Section \X Operator
    /\ sent \subseteq MessageType /\ retained \in Seq(MessageType) /\ bus \in Seq(MessageType)
    /\ incident \in [Section -> Nat] /\ era \in [Section -> Nat]
    /\ inflight \in Seq([m : MessageType, incident : Nat, era : Nat])
    /\ db \in [events : SUBSET [id : Nat, sec : Section, incident : Nat, era : Nat],
               restrictions : SUBSET [id : Nat, sec : Section, cleared : Operator \union {None}],
               keyed : SUBSET [id : Nat, kind : Keyed],
               decisions : Seq([id : Nat, sec : Section, granted : {None, "yes", "no"}]),
               audit : Seq(Nat)]

\* Detections filed or about to be, with the section, era and incident of each.
Filed == db.events \union
         {[id |-> inflight[k].m.id, sec |-> inflight[k].m.sec,
           incident |-> inflight[k].incident, era |-> inflight[k].era] :
             k \in {j \in DOMAIN inflight : inflight[j].m.kind = "intrusion"}}

\* The timeline of an incident is whole, whatever order the queries end in and
\* whatever comes twice: all detections received between two clearings of a
\* section are filed under one incident id, the name of a detection of that
\* section (main.ts:52-69, historian.ts:141-152).
TimelineWhole ==
    /\ TypeOK
    /\ \A e, f \in Filed : e.sec = f.sec /\ e.era = f.era => e.incident = f.incident
    /\ \A e \in Filed : \E m \in sent :
           m.kind = "intrusion" /\ Named(m.id) = e.incident /\ m.sec = e.sec

\* A restriction is on record as lifted only by an operator who ordered its
\* section cleared (historian.ts:85-91, main.ts:78-81, 106-108).
LiftedByOrder ==
    \A row \in db.restrictions :
        row.cleared # None =>
            Message("clear_section", 0, row.sec, row.cleared) \in sent

Prefix(s, t) == Len(s) <= Len(t) /\ \A k \in DOMAIN s : s[k] = t[k]

\* The trail stands: a message that comes again, or a later one, takes no row
\* away, moves no detection to another incident, and changes neither who lifted
\* a restriction nor the outcome of a request (historian.ts:11-18, 85-91,
\* 121-131).
TrailStands ==
    [][/\ db.events \subseteq db'.events
       /\ \A row \in db.restrictions :
             \E new \in db'.restrictions :
                new.id = row.id /\ (row.cleared # None => new = row)
       /\ \A a, b \in db'.restrictions : a.id = b.id => a = b
       /\ \A k \in DOMAIN db.decisions :
             db.decisions[k].granted # None => db'.decisions[k] = db.decisions[k]
       /\ Prefix(db.audit, db'.audit)]_vars

\* historian.ts:11-18: every write is idempotent, not one line is duplicated
\* when the historian processes a message again.
NoLineTwice ==
    \A j, k \in DOMAIN db.decisions : db.decisions[j].id = db.decisions[k].id => j = k

\* Violated: historian.ts:138, "timeline completa de um incidente: toda deteccao
\* que contribuiu para ele", is a query for all lines of one incident_id, which
\* the detections of other sections have too if theirs was opened soon after.
TimelineApart == \A e, f \in db.events : e.incident = f.incident => e.sec = f.sec
=============================================================================
