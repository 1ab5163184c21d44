---------------------------- MODULE IncidentDesk ----------------------------
(***************************************************************************)
(* From a detection to the operator's panel and back: the replicated       *)
(* ats-core instances (services/ats-core/src/main.ts), the core bus, and   *)
(* the operator-api that keeps the panel (services/operator-api).          *)
(*                                                                         *)
(* Every instance processes every message; only one that believes it leads *)
(* publishes.  Who holds the lease is LeaderLease's concern: here the role *)
(* passes from hand to hand, with gaps in between, and whoever loses it,   *)
(* paused or stopping, may go on publishing beside its successor until it  *)
(* learns of it.  The broker delivers to each client in the order of       *)
(* publication, drops what a client with a clean session is not there for, *)
(* and keeps the last message of each retained topic.                      *)
(***************************************************************************)
EXTENDS IncidentHandler, Sequences

CONSTANTS Instance,      \* the ats-core instances
          Nobody,        \* the leader between two leaders
          Detections,    \* the detections the gateway lets through
          Disturbances,  \* which of "crash", "depose", "panel" may happen
          MaxFaults,     \* bound: how many of them
          MaxInbox,      \* bound: messages on their way to an instance
          MaxBacklog     \* bound: messages on their way to the panel

ASSUME DeskAssumption ==
    /\ \A d \in Detections : d \in DetectionOf({d.section})
    /\ Nobody \notin Instance
    /\ Disturbances \subseteq {"crash", "depose", "panel"}
    /\ MaxFaults \in Nat /\ MaxInbox \in Nat /\ MaxBacklog \in Nat

VARIABLES
    up,         \* the instances that run and are connected
    warm,       \* history: those that have run since before the first message
    leader,     \* the instance that holds the role
    outgoing,   \* those that lost it and have not learnt of it yet
    core,       \* per instance: its memory, as IncidentHandler keeps it
    inbox,      \* per instance: the messages on their way to it
    retained,   \* the last restriction and the last system state published
    panelInbox, \* the messages on their way to operator-api
    panel,      \* operator-api's state: restrictions and open incidents
    faults

vars == <<up, warm, leader, outgoing, core, inbox, retained, panelInbox, panel, faults>>

-----------------------------------------------------------------------------
Detected(d) == [type |-> "intrusion", detection |-> d]
Confirmed(s) == [type |-> "clear_section", section |-> s]

Restrict(s, kind) == [type |-> "restriction", section |-> s, kind |-> kind]
NoRestriction == "none"
Lift(s) == Restrict(s, NoRestriction)
SystemState(incidents) == [type |-> "state", incidents |-> incidents]

Nothing == [type |-> "nothing"]
BlankPanel == [restrictions |-> [s \in Section |-> NoRestriction], incidents |-> {}]

Fault(kind) == kind \in Disturbances /\ faults < MaxFaults /\ faults' = faults + 1

\* The broker hands a message to every instance that is there.
Deliver(m) ==
    /\ \A i \in up : Len(inbox[i]) < MaxInbox
    /\ inbox' = [i \in Instance |-> IF i \in up THEN Append(inbox[i], m) ELSE inbox[i]]

\* publishAsLeader: what a standby publishes goes nowhere.
Publishes(i) == i = leader \/ i \in outgoing

PublishAs(i, restriction, state) ==
    IF Publishes(i)
    THEN /\ panelInbox' = panelInbox \o restriction \o state
         /\ retained' = [restriction |-> IF restriction = <<>> THEN retained.restriction
                                                               ELSE restriction[1],
                         state |-> IF state = <<>> THEN retained.state ELSE state[1]]
    ELSE UNCHANGED <<panelInbox, retained>>

-----------------------------------------------------------------------------
\* The system has started: every instance is subscribed and one has the lease.
Init ==
    /\ up = Instance /\ warm = Instance
    /\ leader \in Instance /\ outgoing = {}
    /\ core = [i \in Instance |-> Empty]
    /\ inbox = [i \in Instance |-> <<>>]
    /\ retained = [restriction |-> Nothing, state |-> Nothing]
    /\ panelInbox = <<>>
    /\ panel = BlankPanel
    /\ faults = 0

\* The gateway publishes a normalised intrusion.
Detect(d) ==
    /\ Deliver(Detected(d))
    /\ UNCHANGED <<up, warm, leader, outgoing, core, retained, panelInbox, panel, faults>>

\* POST /api/clear-section: operator-api publishes the release of whatever
\* section is posted, shown on the panel or not.
Confirm(s) ==
    /\ Deliver(Confirmed(s))
    /\ UNCHANGED <<up, warm, leader, outgoing, core, retained, panelInbox, panel, faults>>

\* onIntrusion: the alarm and the revocations go with the restriction and are
\* left out.  A 'cleared' only raises an alarm and republishes the state.
OnIntrusion(i, d) ==
    /\ core' = [core EXCEPT ![i] = Handled(core[i], d)]
    /\ LET incidents == <<SystemState(DOMAIN core'[i].open)>>
       IN CASE IsIncident(d) ->
                 PublishAs(i, <<Restrict(d.section, RestrictionKind(d))>>, incidents)
            [] ~IsIncident(d) /\ d.confident /\ d.section \in Section /\ d.state = "cleared" ->
                 PublishAs(i, <<>>, incidents)
            [] OTHER -> UNCHANGED <<panelInbox, retained>>

\* onOperatorCommand: without an open incident there is nothing to publish.
OnOperatorCommand(i, s) ==
    /\ core' = [core EXCEPT ![i] = Cleared(core[i], s)]
    /\ IF s \in DOMAIN core[i].open
       THEN PublishAs(i, <<Lift(s)>>, <<SystemState(DOMAIN core'[i].open)>>)
       ELSE UNCHANGED <<panelInbox, retained>>

\* Mutant: a standby does not process what it is not going to publish.
MutReceiveLeaderOnly(i) ==
    /\ i \in up /\ inbox[i] # <<>> /\ Len(panelInbox) + 2 <= MaxBacklog
    /\ inbox' = [inbox EXCEPT ![i] = Tail(@)]
    /\ LET m == Head(inbox[i])
       IN IF ~Publishes(i) THEN UNCHANGED <<core, panelInbox, retained>>
          ELSE IF m.type = "intrusion" THEN OnIntrusion(i, m.detection)
                                       ELSE OnOperatorCommand(i, m.section)
    /\ UNCHANGED <<up, warm, leader, outgoing, panel, faults>>

\* An instance takes the next message of the bus.
Receive(i) ==
    /\ i \in up /\ inbox[i] # <<>> /\ Len(panelInbox) + 2 <= MaxBacklog
    /\ inbox' = [inbox EXCEPT ![i] = Tail(@)]
    /\ LET m == Head(inbox[i])
       IN IF m.type = "intrusion" THEN OnIntrusion(i, m.detection)
                                  ELSE OnOperatorCommand(i, m.section)
    /\ UNCHANGED <<up, warm, leader, outgoing, panel, faults>>

\* The regulation loop ends every period with publishSystemState().
PublishState(i) ==
    /\ i \in up /\ Publishes(i) /\ Len(panelInbox) + 2 <= MaxBacklog
    /\ PublishAs(i, <<>>, <<SystemState(DOMAIN core[i].open)>>)
    /\ UNCHANGED <<up, warm, leader, outgoing, core, inbox, panel, faults>>

\* Mutant: a release empties the whole list of restrictions.
MutShownDropsAll(p, m) ==
    CASE m.type = "state" -> [p EXCEPT !.incidents = m.incidents]
      [] m.type = "restriction" /\ m.kind = NoRestriction ->
           [p EXCEPT !.restrictions = BlankPanel.restrictions]
      [] m.type = "restriction" /\ m.kind # NoRestriction ->
           [p EXCEPT !.restrictions[m.section] = m.kind]
      [] m.type = "nothing" -> p

\* Mutant: the list of open incidents only ever grows.
MutShownOnlyFirstState(p, m) ==
    CASE m.type = "state" -> [p EXCEPT !.incidents = IF @ = {} THEN m.incidents ELSE @]
      [] m.type = "restriction" -> [p EXCEPT !.restrictions[m.section] = m.kind]
      [] m.type = "nothing" -> p

\* What operator-api does with a message.
Shown(p, m) ==
    CASE m.type = "state" -> [p EXCEPT !.incidents = m.incidents]
      [] m.type = "restriction" -> [p EXCEPT !.restrictions[m.section] = m.kind]
      [] m.type = "nothing" -> p

PanelReceive ==
    /\ panelInbox # <<>>
    /\ panel' = Shown(panel, Head(panelInbox))
    /\ panelInbox' = Tail(panelInbox)
    /\ UNCHANGED <<up, warm, leader, outgoing, core, inbox, retained, faults>>

-----------------------------------------------------------------------------
\* The lease is lost: renewals fail, the process pauses or is stopping.
Depose ==
    /\ leader # Nobody /\ Fault("depose")
    /\ leader' = Nobody /\ outgoing' = outgoing \union {leader}
    /\ UNCHANGED <<up, warm, core, inbox, retained, panelInbox, panel>>

\* An instance learns that it has the role.
Elect(i) ==
    /\ leader = Nobody /\ i \in up
    /\ leader' = i /\ outgoing' = outgoing \ {i}
    /\ UNCHANGED <<up, warm, core, inbox, retained, panelInbox, panel, faults>>

\* An instance learns that it has lost the role.
Standby(i) ==
    /\ i \in outgoing
    /\ outgoing' = outgoing \ {i}
    /\ UNCHANGED <<up, warm, leader, core, inbox, retained, panelInbox, panel, faults>>

\* An instance dies; its memory and its clean session die with it.
Crash(i) ==
    /\ i \in up /\ Fault("crash")
    /\ up' = up \ {i} /\ warm' = warm \ {i}
    /\ leader' = IF leader = i THEN Nobody ELSE leader
    /\ outgoing' = outgoing \ {i}
    /\ core' = [core EXCEPT ![i] = Empty]
    /\ inbox' = [inbox EXCEPT ![i] = <<>>]
    /\ UNCHANGED <<retained, panelInbox, panel>>

Start(i) ==
    /\ i \notin up
    /\ up' = up \union {i}
    /\ UNCHANGED <<warm, leader, outgoing, core, inbox, retained, panelInbox, panel, faults>>

\* operator-api restarts: it subscribes anew and is sent what is retained.
PanelRestart ==
    /\ Fault("panel")
    /\ panel' = BlankPanel
    /\ panelInbox' = <<retained.state, retained.restriction>>
    /\ UNCHANGED <<up, warm, leader, outgoing, core, inbox, retained>>

Next ==
    \/ \E d \in Detections : Detect(d)
    \/ \E s \in Section : Confirm(s)
    \/ \E i \in Instance : Receive(i) \/ PublishState(i) \/ Elect(i) \/ Standby(i)
                          \/ Crash(i) \/ Start(i)
    \/ PanelReceive \/ Depose \/ PanelRestart

Spec == Init /\ [][Next]_vars

\* Messages in flight arrive, the regulation timer fires, and who lost the role
\* learns of it (LeaderLease's DeposedLearns); nothing forces a detection, a
\* confirmation or a disturbance.
FairSpec == /\ Spec
            /\ WF_vars(PanelReceive)
            /\ \A i \in Instance :
                 WF_vars(Receive(i)) /\ WF_vars(PublishState(i)) /\ WF_vars(Standby(i))
-----------------------------------------------------------------------------
Message == [type : {"intrusion"}, detection : Detections]
           \union [type : {"clear_section"}, section : Section]
PanelMessage == [type : {"restriction"}, section : Section,
                 kind : {"advisory_hold", "advisory_speed_limit", NoRestriction}]
                \union [type : {"state"}, incidents : SUBSET Section] \union {Nothing}
Memory(c) == /\ DOMAIN c.open \subseteq Section
             /\ \A s \in DOMAIN c.open : c.open[s] \subseteq Crossing
             /\ c.inhibited \subseteq Crossing

TypeOK ==
    /\ up \subseteq Instance /\ warm \subseteq up
    /\ leader \in up \union {Nobody} /\ outgoing \subseteq up
    /\ DOMAIN core = Instance /\ \A i \in Instance : Memory(core[i])
    /\ inbox \in [Instance -> Seq(Message)]
    /\ retained \in [restriction : PanelMessage, state : PanelMessage]
    /\ panelInbox \in Seq(PanelMessage)
    /\ panel \in [restrictions : [Section -> {"advisory_hold", "advisory_speed_limit", NoRestriction}],
                  incidents : SUBSET Section]
    /\ faults \in Nat

\* Every message has been taken.
Quiet == panelInbox = <<>> /\ \A i \in up : inbox[i] = <<>>

Open(i) == DOMAIN core[i].open
Accounted(c) == c.inhibited \subseteq UNION {c.open[s] : s \in DOMAIN c.open}

\* intrusion.ts:161-188 with :193-200: priority is suspended only on account of
\* an incident that is still open - whatever incidents overlapped, repeated or
\* were closed, no crossing is left suspended that no confirmation can release.
NoOrphanInhibition == \A i \in Instance : Accounted(core[i])

\* intrusion.ts:29-33 (docs/ARQUITETURA.md:312): an instance that keeps running
\* closes an incident only on the operator's confirmation of that section; no
\* 'cleared' from the edge, forged or mistaken, reopens a track.
OnlyOperatorReopens ==
    [][\A i \in up \intersect up', s \in Section :
         s \in Open(i) /\ s \notin DOMAIN core'[i].open
         => inbox[i] # <<>> /\ Head(inbox[i]) = Confirmed(s)]_vars

\* docs/HA.md:64-66, "o novo lider ja tem ... os incidentes abertos conhecidos":
\* instances that have run all along know the same incidents once each has
\* taken its messages, whoever led when.
HotStandbyAgrees ==
    /\ TypeOK
    /\ \A i, j \in warm : inbox[i] = <<>> /\ inbox[j] = <<>> => core[i] = core[j]

\* main.ts:187-196 and :295-297: as long as nothing disturbs the leader or the
\* panel, the panel shows a restriction exactly where an incident is open.
PanelAgrees ==
    faults = 0 /\ Quiet =>
        \A s \in Section : panel.restrictions[s] # NoRestriction <=> s \in Open(leader)

\* main.ts:346 and :351-368: whatever was lost on the way, the periodic state
\* brings the panel's list of open incidents in line with the leader's, both
\* ways, unless another message changes it or the lead first.
Reported == {d.section : d \in Detections} \intersect Section
IncidentsShown ==
    \A i \in Instance, s \in Reported :
        /\ i = leader /\ s \in Open(i)
             ~> s \in panel.incidents \/ i # leader \/ s \notin Open(i)
        /\ i = leader /\ s \notin Open(i)
             ~> s \notin panel.incidents \/ i # leader \/ s \in Open(i)

-----------------------------------------------------------------------------
\* What the documentation claims and the code does not provide.

\* intrusion.ts:174, "Sem pedido de verde, as composicoes param no sinal antes
\* da obstrucao": while an incident is open, priority is suspended at every
\* crossing it had it suspended at.
InhibitionCoversIncidents ==
    \A i \in Instance : \A s \in Open(i) : core[i].open[s] \subseteq core[i].inhibited

\* packages/contracts/src/types.ts:136, "Restricao so sai com acao humana": a
\* hold the panel shows stands until the operator lifts it.
HoldStands ==
    [][\A s \in Section :
         panel.restrictions[s] = "advisory_hold" /\ panel'.restrictions[s] # "advisory_hold"
         => panelInbox # <<>> /\ Head(panelInbox) = Lift(s)]_vars

\* docs/HA.md:64-67, "nao ha janela em que a protecao ... esquece uma restricao
\* ativa": with an instance that was warm in the lead and everything delivered,
\* every open incident has its restriction on the panel.
FailoverKeepsRestrictions ==
    leader \in warm /\ Quiet => \A s \in Open(leader) : panel.restrictions[s] # NoRestriction

\* docs/PAYLOADS.md:176-177, "um servico que sobe encontre o mundo como esta":
\* an operator-api that restarted and was sent what is retained shows the
\* restriction of every open incident.
RestartFindsRestrictions ==
    leader # Nobody /\ Quiet => \A s \in Open(leader) : panel.restrictions[s] # NoRestriction
=============================================================================
