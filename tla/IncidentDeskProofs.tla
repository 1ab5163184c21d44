------------------------- MODULE IncidentDeskProofs -------------------------
(***************************************************************************)
(* Proofs about IncidentDesk, for every topology, number of instances and  *)
(* sequence of detections, confirmations, crashes and failovers.           *)
(***************************************************************************)
EXTENDS IncidentDesk, TLAPS

\* An open incident holds the crossings of its section: reopening it, which
\* overwrites the list, therefore drops none that is still suspended.
Sound(c) ==
    /\ \A s \in DOMAIN c.open : c.open[s] = CrossingsOf(s)
    /\ Accounted(c)

\* The inductive invariant: every instance, running or not, has a memory in which suspended
\* priority is accounted for, and its inbox holds bus messages only.
DeskInv ==
    /\ up \subseteq Instance
    /\ core = [i \in Instance |-> core[i]]
    /\ \A i \in Instance : Sound(core[i])
    /\ inbox \in [Instance -> Seq(Message)]

\* An instance that has just started.
LEMMA EmptySound == Sound(Empty)
  BY DEF Sound, Accounted, Empty

\* A detection opens at most its section, closes none and keeps the account.
LEMMA HandledSound ==
    ASSUME NEW c, NEW d, Sound(c)
    PROVE  /\ Sound(Handled(c, d))
           /\ DOMAIN c.open \subseteq DOMAIN Handled(c, d).open
PROOF
<1>1. CASE ~IsIncident(d)
  BY <1>1 DEF Handled
<1>2. CASE IsIncident(d)
  <2> DEFINE f == [s \in DOMAIN c.open \union {d.section} |->
                     IF s = d.section THEN CrossingsOf(s) ELSE c.open[s]]
             h == c.inhibited \union CrossingsOf(d.section)
  <2>1. Handled(c, d).open = f /\ Handled(c, d).inhibited = h
    BY <1>2 DEF Handled
  <2>2. \A s \in DOMAIN f : f[s] = CrossingsOf(s)
    BY DEF Sound
  <2>3. ASSUME NEW x \in h
        PROVE  \E s \in DOMAIN f : x \in f[s]
    BY <2>2 DEF Sound, Accounted
  <2> HIDE DEF f, h
  <2>4. h \subseteq UNION {f[s] : s \in DOMAIN f}
    BY <2>3
  <2>5. Sound(Handled(c, d))
    BY <2>1, <2>2, <2>4 DEF Sound, Accounted
  <2>6. DOMAIN c.open \subseteq DOMAIN f
    BY DEF f
  <2> QED
    BY <2>1, <2>5, <2>6
<1> QED
  BY <1>1, <1>2

\* A confirmation closes its section alone and keeps the account.
LEMMA ClearedSound ==
    ASSUME NEW c, NEW s, Sound(c)
    PROVE  /\ Sound(Cleared(c, s))
           /\ DOMAIN c.open \ {s} \subseteq DOMAIN Cleared(c, s).open
PROOF
<1>1. CASE s \notin DOMAIN c.open
  BY <1>1 DEF Cleared
<1>2. CASE s \in DOMAIN c.open
  <2> DEFINE f == [x \in DOMAIN c.open \ {s} |-> c.open[x]]
             h == c.inhibited \ c.open[s]
  <2>1. Cleared(c, s).open = f /\ Cleared(c, s).inhibited = h
    BY <1>2 DEF Cleared
  <2>2. \A x \in DOMAIN f : f[x] = CrossingsOf(x)
    BY DEF Sound
  <2>3. ASSUME NEW x \in h
        PROVE  \E y \in DOMAIN f : x \in f[y]
    <3>1. PICK y \in DOMAIN c.open : x \in c.open[y]
      BY DEF Sound, Accounted
    <3>2. y # s
      BY <3>1
    <3> QED
      BY <3>1, <3>2
  <2>4. DOMAIN c.open \ {s} = DOMAIN f
    OBVIOUS
  <2> HIDE DEF f, h
  <2>5. h \subseteq UNION {f[y] : y \in DOMAIN f}
    BY <2>3
  <2> QED
    BY <2>1, <2>2, <2>4, <2>5 DEF Sound, Accounted
<1> QED
  BY <1>1, <1>2

\* Initially nothing is open, suspended or on its way.
LEMMA InitDesk == Init => DeskInv
  BY EmptySound DEF Init, DeskInv

\* What taking a message does to the instance that takes it.
LEMMA ReceiveFacts ==
    ASSUME DeskInv, NEW i \in Instance, Receive(i)
    PROVE  /\ core' = [core EXCEPT ![i] = core'[i]]
           /\ Sound(core'[i])
           /\ \A s \in Section : s \in DOMAIN core[i].open /\ s \notin DOMAIN core'[i].open
                                   => Head(inbox[i]) = Confirmed(s)
           /\ inbox[i] # <<>> /\ inbox' = [inbox EXCEPT ![i] = Tail(inbox[i])]
PROOF
<1> DEFINE m == Head(inbox[i])
<1>0. /\ inbox[i] # <<>> /\ inbox' = [inbox EXCEPT ![i] = Tail(inbox[i])]
      /\ m \in Message
  BY DEF Receive, DeskInv
<1>1. CASE m.type = "intrusion"
  <2>1. core' = [core EXCEPT ![i] = Handled(core[i], m.detection)]
    BY <1>1 DEF Receive, OnIntrusion
  <2>2. core'[i] = Handled(core[i], m.detection)
    BY <2>1 DEF DeskInv
  <2> QED
    BY <1>0, <2>1, <2>2, HandledSound DEF DeskInv
<1>2. CASE m.type # "intrusion"
  <2>1. core' = [core EXCEPT ![i] = Cleared(core[i], m.section)]
    BY <1>2 DEF Receive, OnOperatorCommand
  <2>2. core'[i] = Cleared(core[i], m.section)
    BY <2>1 DEF DeskInv
  <2>3. m = Confirmed(m.section)
    BY <1>0, <1>2 DEF Message, Confirmed
  <2> QED
    BY <1>0, <2>1, <2>2, <2>3, ClearedSound DEF DeskInv
<1> QED
  BY <1>1, <1>2

\* Every step of the system preserves the invariant.
LEMMA StepDesk == DeskInv /\ [Next]_vars => DeskInv'
PROOF
<1> SUFFICES ASSUME DeskInv, [Next]_vars
             PROVE  DeskInv'
  OBVIOUS
<1>1. ASSUME NEW m \in Message, Deliver(m), UNCHANGED <<core, up>>
      PROVE  DeskInv'
  <2>1. \A i \in Instance : Append(inbox[i], m) \in Seq(Message)
    BY <1>1 DEF DeskInv
  <2> QED
    BY <1>1, <2>1 DEF DeskInv, Deliver, Sound, Accounted
<1>2. ASSUME NEW d \in Detections, Detect(d)
      PROVE  DeskInv'
  <2>1. Detected(d) \in Message
    BY DEF Detected, Message
  <2> QED
    BY <1>1, <1>2, <2>1 DEF Detect
<1>3. ASSUME NEW s \in Section, Confirm(s)
      PROVE  DeskInv'
  <2>1. Confirmed(s) \in Message
    BY DEF Confirmed, Message
  <2> QED
    BY <1>1, <1>3, <2>1 DEF Confirm
<1>4. ASSUME NEW i \in Instance, Receive(i)
      PROVE  DeskInv'
  <2>1. Tail(inbox[i]) \in Seq(Message)
    BY <1>4, ReceiveFacts DEF DeskInv
  <2>2. inbox' \in [Instance -> Seq(Message)]
    BY <1>4, <2>1, ReceiveFacts DEF DeskInv
  <2>3. core' = [core EXCEPT ![i] = core'[i]] /\ Sound(core'[i])
    BY <1>4, ReceiveFacts
  <2>4. core' = [j \in Instance |-> core'[j]]
    BY <2>3 DEF DeskInv
  <2>5. \A j \in Instance : Sound(core'[j])
    BY <2>3 DEF DeskInv
  <2>6. up' \subseteq Instance
    BY <1>4 DEF Receive, DeskInv
  <2> QED
    BY <2>2, <2>4, <2>5, <2>6 DEF DeskInv, Sound, Accounted
<1>5. ASSUME NEW i \in Instance, Crash(i)
      PROVE  DeskInv'
  <2>1. inbox' \in [Instance -> Seq(Message)] /\ up' \subseteq Instance
    BY <1>5 DEF Crash, DeskInv
  <2>2. core' = [j \in Instance |-> core'[j]]
    BY <1>5 DEF Crash, DeskInv
  <2>3. \A j \in Instance : Sound(core'[j])
    BY <1>5, EmptySound DEF Crash, DeskInv
  <2> QED
    BY <2>1, <2>2, <2>3 DEF DeskInv, Sound, Accounted
<1>6. ASSUME UNCHANGED <<core, inbox>>, up' \subseteq Instance
      PROVE  DeskInv'
  BY <1>6 DEF DeskInv, Sound, Accounted
<1>7. UNCHANGED up \/ (\E i \in Instance : Start(i) \/ Crash(i))
  BY DEF Next, Detect, Confirm, Receive, PublishState, Elect, Standby, PanelReceive, Depose, PanelRestart, vars
<1>8. up' \subseteq Instance
  BY <1>7 DEF Start, Crash, DeskInv
<1> QED
  BY <1>2, <1>3, <1>4, <1>5, <1>6, <1>8
  DEF Next, PublishState, Elect, Standby, Start, PanelReceive, Depose, PanelRestart, vars

\* intrusion.ts:193-200: whatever incidents overlap, repeat or are closed, and
\* whichever instances crash or lead, no crossing stays suspended without an
\* open incident whose confirmation releases it.
THEOREM NoOrphanInhibitionHolds == Spec => []NoOrphanInhibition
PROOF
<1>1. DeskInv => NoOrphanInhibition
  BY DEF DeskInv, NoOrphanInhibition, Sound
<1> QED
  BY <1>1, InitDesk, StepDesk, PTL DEF Spec

\* intrusion.ts:29-33: no detection closes an incident, and a confirmation
\* closes that of its own section only.
THEOREM OnlyOperatorReopensHolds == Spec => OnlyOperatorReopens
PROOF
<1>1. DeskInv /\ [Next]_vars
      => [\A i \in up \intersect up', s \in Section :
            s \in Open(i) /\ s \notin DOMAIN core'[i].open
            => inbox[i] # <<>> /\ Head(inbox[i]) = Confirmed(s)]_vars
  <2> SUFFICES ASSUME DeskInv, [Next]_vars, NEW i \in up \intersect up', NEW s \in Section,
                      s \in DOMAIN core[i].open, s \notin DOMAIN core'[i].open
               PROVE  inbox[i] # <<>> /\ Head(inbox[i]) = Confirmed(s)
    BY DEF Open
  <2>1. PICK j \in Instance : Receive(j) \/ Crash(j)
    BY DEF Next, Detect, Confirm, PublishState, Elect, Standby, Start, PanelReceive, Depose, PanelRestart, vars
  <2>2. i = j
    <3>1. CASE Receive(j)
      <4>1. core' = [core EXCEPT ![j] = core'[j]]
        BY <3>1, ReceiveFacts
      <4> QED
        BY <4>1 DEF DeskInv
    <3>2. CASE Crash(j)
      BY <3>2 DEF Crash
    <3> QED
      BY <2>1, <3>1, <3>2
  <2>3. ~Crash(j)
    BY <2>2 DEF Crash
  <2> QED
    BY <2>1, <2>2, <2>3, ReceiveFacts
<1> QED
  BY <1>1, InitDesk, StepDesk, PTL DEF Spec, OnlyOperatorReopens

-----------------------------------------------------------------------------
(***************************************************************************)
(* Types, and what the panel is told.                                      *)
(***************************************************************************)

\* What a message of the bus does to the memory of whoever takes it.
Effect(c, m) == IF m.type = "intrusion" THEN Handled(c, m.detection) ELSE Cleared(c, m.section)

\* The messages of the panel, by type.
LEMMA PanelMessageFacts ==
    /\ Nothing \in PanelMessage
    /\ \A s \in Section, kind \in {"advisory_hold", "advisory_speed_limit", NoRestriction} :
          Restrict(s, kind) \in PanelMessage
    /\ \A S \in SUBSET Section : SystemState(S) \in PanelMessage
    /\ \A m \in PanelMessage :
          \/ m = Nothing
          \/ /\ m.type = "restriction" /\ m.section \in Section
             /\ m.kind \in {"advisory_hold", "advisory_speed_limit", NoRestriction}
          \/ m.type = "state" /\ m.incidents \in SUBSET Section
  BY DEF PanelMessage, Nothing, Restrict, SystemState

\* An incident's crossings are crossings.
LEMMA CrossingsOfType ==
    ASSUME NEW s \in Section
    PROVE  CrossingsOf(s) \subseteq Crossing
PROOF
<1>1. {s} \union UpstreamOf(s) \subseteq Section
  BY DEF UpstreamOf, Previous
<1> QED
  BY <1>1, TopologyAssumption DEF CrossingsOf, TopologyAssumption

\* A message leaves a memory a memory.
LEMMA EffectMemory ==
    ASSUME NEW c, Memory(c), NEW m \in Message
    PROVE  Memory(Effect(c, m))
PROOF
<1>1. CASE m.type = "intrusion" /\ IsIncident(m.detection)
  <2> DEFINE d == m.detection
             f == [s \in DOMAIN c.open \union {d.section} |->
                     IF s = d.section THEN CrossingsOf(s) ELSE c.open[s]]
             h == c.inhibited \union CrossingsOf(d.section)
  <2>1. Effect(c, m).open = f /\ Effect(c, m).inhibited = h
    BY <1>1 DEF Effect, Handled
  <2>2. d.section \in Section
    BY <1>1 DEF IsIncident
  <2>3. /\ DOMAIN f \subseteq Section /\ h \subseteq Crossing
        /\ \A s \in DOMAIN f : f[s] \subseteq Crossing
    BY <2>2, CrossingsOfType DEF Memory
  <2> HIDE DEF f, h
  <2> QED
    BY <2>1, <2>3 DEF Memory
<1>2. CASE m.type = "intrusion" /\ ~IsIncident(m.detection)
  BY <1>2 DEF Effect, Handled
<1>3. CASE m.type # "intrusion" /\ m.section \in DOMAIN c.open
  <2> DEFINE f == [x \in DOMAIN c.open \ {m.section} |-> c.open[x]]
             h == c.inhibited \ c.open[m.section]
  <2>1. Effect(c, m).open = f /\ Effect(c, m).inhibited = h
    BY <1>3 DEF Effect, Cleared
  <2>2. /\ DOMAIN f \subseteq Section /\ h \subseteq Crossing
        /\ \A s \in DOMAIN f : f[s] \subseteq Crossing
    BY DEF Memory
  <2> HIDE DEF f, h
  <2> QED
    BY <2>1, <2>2 DEF Memory
<1>4. CASE m.type # "intrusion" /\ m.section \notin DOMAIN c.open
  BY <1>4 DEF Effect, Cleared
<1> QED
  BY <1>1, <1>2, <1>3, <1>4

\* The three ways a message is taken: one that opens an incident, or keeps it
\* open, and is told; one that closes it and is told; and one that changes
\* nothing and at most has the state told again.
LEMMA ReceiveCases ==
    ASSUME DeskInv, NEW i \in Instance, Receive(i)
    PROVE  /\ i \in up /\ inbox[i] # <<>> /\ Head(inbox[i]) \in Message
           /\ core'[i] = Effect(core[i], Head(inbox[i]))
           /\ UNCHANGED <<up, warm, leader, outgoing, panel, faults>>
           /\ \E incidents :
                 /\ incidents = DOMAIN core'[i].open
                 /\ \/ \E s \in Section, kind \in {"advisory_hold", "advisory_speed_limit"} :
                          /\ DOMAIN core'[i].open = DOMAIN core[i].open \union {s}
                          /\ PublishAs(i, <<Restrict(s, kind)>>, <<SystemState(incidents)>>)
                    \/ \E s \in DOMAIN core[i].open :
                          /\ DOMAIN core'[i].open = DOMAIN core[i].open \ {s}
                          /\ PublishAs(i, <<Lift(s)>>, <<SystemState(incidents)>>)
                    \/ /\ core'[i] = core[i]
                       /\ \/ PublishAs(i, <<>>, <<SystemState(incidents)>>)
                          \/ UNCHANGED <<panelInbox, retained>>
PROOF
<1> DEFINE m == Head(inbox[i])
           d == m.detection
<1>1. /\ i \in up /\ inbox[i] # <<>> /\ m \in Message
      /\ UNCHANGED <<up, warm, leader, outgoing, panel, faults>>
  BY DEF Receive, DeskInv
<1>2. CASE m.type = "intrusion"
  <2>1. OnIntrusion(i, d)
    BY <1>2 DEF Receive
  <2>2. core'[i] = Handled(core[i], d) /\ core'[i] = Effect(core[i], m)
    BY <1>2, <2>1 DEF OnIntrusion, DeskInv, Effect
  <2>3. CASE IsIncident(d)
    <3>1. PublishAs(i, <<Restrict(d.section, RestrictionKind(d))>>,
                    <<SystemState(DOMAIN core'[i].open)>>)
      BY <2>1, <2>3 DEF OnIntrusion
    <3>2. d.section \in Section /\ RestrictionKind(d) \in {"advisory_hold", "advisory_speed_limit"}
      BY <2>3 DEF IsIncident, RestrictionKind
    <3>3. DOMAIN core'[i].open = DOMAIN core[i].open \union {d.section}
      BY <2>2, <2>3 DEF Handled
    <3> QED
      BY <1>1, <2>2, <3>1, <3>2, <3>3
  <2>4. CASE ~IsIncident(d)
    <3>1. core'[i] = core[i]
      BY <2>2, <2>4 DEF Handled
    <3>2. \/ PublishAs(i, <<>>, <<SystemState(DOMAIN core'[i].open)>>)
          \/ UNCHANGED <<panelInbox, retained>>
      BY <2>1, <2>4 DEF OnIntrusion
    <3> QED
      BY <1>1, <2>2, <3>1, <3>2
  <2> QED
    BY <2>3, <2>4
<1>3. CASE m.type # "intrusion"
  <2>1. OnOperatorCommand(i, m.section)
    BY <1>3 DEF Receive
  <2>2. core'[i] = Cleared(core[i], m.section) /\ core'[i] = Effect(core[i], m)
    BY <1>3, <2>1 DEF OnOperatorCommand, DeskInv, Effect
  <2>3. CASE m.section \in DOMAIN core[i].open
    <3>1. PublishAs(i, <<Lift(m.section)>>, <<SystemState(DOMAIN core'[i].open)>>)
      BY <2>1, <2>3 DEF OnOperatorCommand
    <3>2. DOMAIN core'[i].open = DOMAIN core[i].open \ {m.section}
      BY <2>2, <2>3 DEF Cleared
    <3> QED
      BY <1>1, <2>2, <2>3, <3>1, <3>2
  <2>4. CASE m.section \notin DOMAIN core[i].open
    BY <1>1, <2>1, <2>2, <2>4 DEF OnOperatorCommand, Cleared
  <2> QED
    BY <2>3, <2>4
<1> QED
  BY <1>2, <1>3

\* What is published goes to the end of the panel's messages, if the publisher
\* believes it leads.
LEMMA PublishFacts ==
    ASSUME panelInbox \in Seq(PanelMessage),
           retained \in [restriction : PanelMessage, state : PanelMessage],
           NEW i, NEW r \in PanelMessage, NEW st \in PanelMessage
    PROVE  /\ \/ PublishAs(i, <<r>>, <<st>>) \/ PublishAs(i, <<>>, <<st>>)
              \/ UNCHANGED <<panelInbox, retained>>
              => /\ panelInbox' \in Seq(PanelMessage)
                 /\ retained' \in [restriction : PanelMessage, state : PanelMessage]
           /\ PublishAs(i, <<r>>, <<st>>) /\ Publishes(i)
              => panelInbox' = Append(Append(panelInbox, r), st)
           /\ PublishAs(i, <<>>, <<st>>) /\ Publishes(i) => panelInbox' = Append(panelInbox, st)
PROOF
<1>1. /\ panelInbox \o <<r>> \o <<st>> = Append(Append(panelInbox, r), st)
      /\ panelInbox \o <<>> \o <<st>> = Append(panelInbox, st)
  OBVIOUS
<1>2. /\ Append(panelInbox, st) \in Seq(PanelMessage)
      /\ Append(Append(panelInbox, r), st) \in Seq(PanelMessage)
  OBVIOUS
<1>3. <<r>> # <<>> /\ <<st>> # <<>> /\ <<r>>[1] = r /\ <<st>>[1] = st
  OBVIOUS
<1>4. ASSUME PublishAs(i, <<r>>, <<st>>)
      PROVE  /\ panelInbox' \in Seq(PanelMessage)
             /\ retained' \in [restriction : PanelMessage, state : PanelMessage]
  <2>1. CASE Publishes(i)
    <3>1. /\ panelInbox' = Append(Append(panelInbox, r), st)
          /\ retained' = [restriction |-> r, state |-> st]
      BY <1>1, <1>3, <1>4, <2>1 DEF PublishAs
    <3> QED
      BY <1>2, <3>1
  <2>2. CASE ~Publishes(i)
    BY <1>4, <2>2 DEF PublishAs
  <2> QED
    BY <2>1, <2>2
<1>5. ASSUME PublishAs(i, <<>>, <<st>>)
      PROVE  /\ panelInbox' \in Seq(PanelMessage)
             /\ retained' \in [restriction : PanelMessage, state : PanelMessage]
  BY <1>1, <1>2, <1>3, <1>5 DEF PublishAs
<1> QED
  BY <1>1, <1>4, <1>5 DEF PublishAs

\* Types, beside those of DeskInv.
Typed == DeskInv /\ TypeOK

LEMMA InitTyped == Init => Typed
PROOF
<1> SUFFICES ASSUME Init PROVE Typed
  OBVIOUS
<1>1. Memory(Empty)
  BY DEF Memory, Empty
<1>2. BlankPanel \in [restrictions : [Section -> {"advisory_hold", "advisory_speed_limit", NoRestriction}],
                      incidents : SUBSET Section]
  BY DEF BlankPanel
<1> QED
  BY <1>1, <1>2, InitDesk, PanelMessageFacts DEF Init, TypeOK, Typed

\* What the panel does with a message.
LEMMA ShownType ==
    ASSUME NEW m \in PanelMessage,
           NEW p \in [restrictions : [Section -> {"advisory_hold", "advisory_speed_limit", NoRestriction}],
                      incidents : SUBSET Section]
    PROVE  /\ Shown(p, m) \in [restrictions : [Section -> {"advisory_hold", "advisory_speed_limit",
                                                            NoRestriction}],
                               incidents : SUBSET Section]
           /\ Shown(p, m).restrictions = IF m.type = "restriction"
                                         THEN [p.restrictions EXCEPT ![m.section] = m.kind]
                                         ELSE p.restrictions
PROOF
<1>1. CASE m = Nothing
  BY <1>1 DEF Shown, Nothing
<1>2. CASE m.type = "state" /\ m.incidents \in SUBSET Section
  BY <1>2 DEF Shown
<1>3. CASE m.type = "restriction" /\ m.section \in Section
           /\ m.kind \in {"advisory_hold", "advisory_speed_limit", NoRestriction}
  BY <1>3 DEF Shown
<1> QED
  BY <1>1, <1>2, <1>3, PanelMessageFacts

LEMMA StepTyped == Typed /\ [Next]_vars => Typed'
PROOF
<1> SUFFICES ASSUME Typed, [Next]_vars PROVE TypeOK'
  BY StepDesk DEF Typed
<1> USE DEF Typed
<1>1. inbox' \in [Instance -> Seq(Message)] /\ DeskInv'
  BY StepDesk DEF DeskInv
<1>2. ASSUME NEW i \in Instance, core' = [core EXCEPT ![i] = core'[i]] \/ UNCHANGED core,
             Memory(core'[i]), UNCHANGED <<up, warm, leader, outgoing, panel, faults>>,
             panelInbox' \in Seq(PanelMessage),
             retained' \in [restriction : PanelMessage, state : PanelMessage]
      PROVE  TypeOK'
  BY <1>1, <1>2 DEF TypeOK, Memory
<1>3. ASSUME NEW i \in Instance, Receive(i)
      PROVE  TypeOK'
  <2>1. Head(inbox[i]) \in Message /\ core'[i] = Effect(core[i], Head(inbox[i]))
        /\ UNCHANGED <<up, warm, leader, outgoing, panel, faults>>
    BY <1>3, ReceiveCases
  <2>2. Memory(core[i])'
    BY <2>1, EffectMemory DEF TypeOK, Memory
  <2>3. core' = [core EXCEPT ![i] = core'[i]]
    BY <1>3, ReceiveFacts
  <2>4. \E r \in PanelMessage, st \in PanelMessage :
           \/ PublishAs(i, <<r>>, <<st>>) \/ PublishAs(i, <<>>, <<st>>)
           \/ UNCHANGED <<panelInbox, retained>>
    <3>1. DOMAIN core'[i].open \in SUBSET Section /\ DOMAIN core[i].open \in SUBSET Section
      BY <2>2 DEF TypeOK, Memory
    <3>2. SystemState(DOMAIN core'[i].open) \in PanelMessage
      BY <3>1, PanelMessageFacts
    <3>3. \A s \in Section : Lift(s) \in PanelMessage
      BY PanelMessageFacts DEF Lift
    <3> QED
      BY <1>3, <3>1, <3>2, <3>3, ReceiveCases, PanelMessageFacts
  <2>5. /\ panelInbox' \in Seq(PanelMessage)
        /\ retained' \in [restriction : PanelMessage, state : PanelMessage]
    BY <2>4, PublishFacts DEF TypeOK
  <2> QED
    BY <1>2, <2>1, <2>2, <2>3, <2>5
<1>4. ASSUME NEW i \in Instance, PublishState(i)
      PROVE  TypeOK'
  <2>1. SystemState(DOMAIN core[i].open) \in PanelMessage
    BY PanelMessageFacts DEF TypeOK, Memory
  <2>2. /\ panelInbox' \in Seq(PanelMessage)
        /\ retained' \in [restriction : PanelMessage, state : PanelMessage]
    BY <1>4, <2>1, PublishFacts DEF PublishState, TypeOK
  <2> QED
    BY <1>2, <1>4, <2>2 DEF PublishState, TypeOK, Memory
<1>5. ASSUME PanelReceive
      PROVE  TypeOK'
  <2>1. Head(panelInbox) \in PanelMessage /\ Tail(panelInbox) \in Seq(PanelMessage)
    BY <1>5 DEF PanelReceive, TypeOK
  <2> QED
    BY <1>1, <1>5, <2>1, ShownType DEF PanelReceive, TypeOK, Memory
<1>6. ASSUME PanelRestart
      PROVE  TypeOK'
  <2>1. panelInbox' \in Seq(PanelMessage)
    BY <1>6 DEF PanelRestart, TypeOK
  <2> QED
    BY <1>1, <1>6, <2>1 DEF PanelRestart, TypeOK, Memory, BlankPanel, Fault
<1>7. ASSUME NEW i \in Instance, Crash(i)
      PROVE  TypeOK'
  <2>1. Memory(Empty)
    BY DEF Memory, Empty
  <2> QED
    BY <1>1, <1>7, <2>1 DEF Crash, TypeOK, Memory, Fault
<1>8. ASSUME UNCHANGED <<core, retained, panelInbox, panel>>, faults' \in Nat,
             up' \subseteq Instance, warm' \subseteq up', leader' \in up' \union {Nobody}, outgoing' \subseteq up'
      PROVE  TypeOK'
  BY <1>1, <1>8 DEF TypeOK, Memory
<1>9. CASE \/ \E d \in Detections : Detect(d)
           \/ \E s \in Section : Confirm(s)
           \/ \E i \in Instance : Elect(i) \/ Standby(i) \/ Start(i)
           \/ Depose \/ UNCHANGED vars
  BY <1>8, <1>9 DEF Detect, Confirm, Elect, Standby, Start, Depose, Fault, vars, TypeOK
<1> QED
  BY <1>3, <1>4, <1>5, <1>6, <1>7, <1>9 DEF Next

-----------------------------------------------------------------------------
(***************************************************************************)
(* The panel while nothing is disturbed.                                   *)
(***************************************************************************)

About(m, s) == m.type = "restriction" /\ m.section = s

\* The last word on a section, the last message about it on its way or else what
\* the panel shows already, is that of an incident if and only if S has it.
LastWord(q, shown, s, S) ==
    \/ \E n \in DOMAIN q :
          /\ About(q[n], s) /\ (q[n].kind # NoRestriction <=> s \in S)
          /\ \A k \in DOMAIN q : k > n => ~About(q[k], s)
    \/ /\ \A n \in DOMAIN q : ~About(q[n], s)
       /\ shown[s] # NoRestriction <=> s \in S

\* A further message decides if it is about the section, and changes nothing
\* otherwise.
LEMMA WordAppended ==
    ASSUME NEW q \in Seq(PanelMessage), NEW shown, NEW s, NEW S,
           NEW m \in PanelMessage
    PROVE  /\ About(m, s) /\ (m.kind # NoRestriction <=> s \in S)
              => LastWord(Append(q, m), shown, s, S)
           /\ ~About(m, s) /\ LastWord(q, shown, s, S)
              => LastWord(Append(q, m), shown, s, S)
PROOF
<1> DEFINE r == Append(q, m)
<1>1. /\ Len(q) \in Nat /\ DOMAIN q = 1..Len(q) /\ DOMAIN r = 1..(Len(q) + 1)
      /\ r[Len(q) + 1] = m /\ \A n \in 1..Len(q) : r[n] = q[n]
  OBVIOUS
<1> HIDE DEF r
<1>2. ASSUME About(m, s), m.kind # NoRestriction <=> s \in S
      PROVE  LastWord(r, shown, s, S)
  <2>1. Len(q) + 1 \in DOMAIN r /\ \A k \in DOMAIN r : ~(k > Len(q) + 1)
    BY <1>1
  <2> QED
    BY <1>1, <1>2, <2>1 DEF LastWord
<1>3. ASSUME ~About(m, s), LastWord(q, shown, s, S)
      PROVE  LastWord(r, shown, s, S)
  <2>1. \A k \in DOMAIN r : (k \in DOMAIN q /\ r[k] = q[k]) \/ ~About(r[k], s)
    BY <1>1, <1>3
  <2>2. \A n \in DOMAIN q : n \in DOMAIN r /\ r[n] = q[n]
    BY <1>1
  <2> QED
    BY <1>3, <2>1, <2>2 DEF LastWord
<1> QED
  BY <1>2, <1>3 DEF r

\* A message taken by the panel leaves the last word what it was.
LEMMA WordTaken ==
    ASSUME NEW q \in Seq(PanelMessage), q # <<>>, NEW s \in Section, NEW S,
           NEW p \in [restrictions : [Section -> {"advisory_hold", "advisory_speed_limit", NoRestriction}],
                      incidents : SUBSET Section],
           LastWord(q, p.restrictions, s, S)
    PROVE  LastWord(Tail(q), Shown(p, Head(q)).restrictions, s, S)
PROOF
<1> DEFINE r == Tail(q)
           m == Head(q)
           shown == Shown(p, m).restrictions
<1> SUFFICES LastWord(r, shown, s, S)
  OBVIOUS
<1>1. /\ Len(q) \in Nat \ {0} /\ DOMAIN q = 1..Len(q) /\ DOMAIN r = 1..(Len(q) - 1)
      /\ m = q[1] /\ m \in PanelMessage /\ \A n \in 1..(Len(q) - 1) : r[n] = q[n + 1]
  OBVIOUS
<1>2. /\ About(m, s) => shown[s] = m.kind
      /\ ~About(m, s) => shown[s] = p.restrictions[s]
  <2>1. shown = IF m.type = "restriction" THEN [p.restrictions EXCEPT ![m.section] = m.kind]
                                          ELSE p.restrictions
    BY <1>1, ShownType
  <2>2. p.restrictions \in [Section -> {"advisory_hold", "advisory_speed_limit", NoRestriction}]
    OBVIOUS
  <2> HIDE DEF shown, m
  <2> QED
    BY <2>1, <2>2 DEF About
<1> HIDE DEF r, m, shown
<1>3. \A n \in DOMAIN r : n + 1 \in DOMAIN q /\ r[n] = q[n + 1] /\ n + 1 > 1
  BY <1>1
<1>4. \A n \in DOMAIN q : n = 1 \/ (n - 1 \in DOMAIN r /\ r[n - 1] = q[n] /\ n > 1)
  BY <1>1
<1>5. CASE \E n \in DOMAIN q :
              /\ About(q[n], s) /\ (q[n].kind # NoRestriction <=> s \in S)
              /\ \A k \in DOMAIN q : k > n => ~About(q[k], s)
  <2>1. PICK n \in DOMAIN q : /\ About(q[n], s) /\ (q[n].kind # NoRestriction <=> s \in S)
                              /\ \A k \in DOMAIN q : k > n => ~About(q[k], s)
    BY <1>5
  <2>2. CASE n = 1
    <3>1. \A k \in DOMAIN r : ~About(r[k], s)
      BY <1>3, <2>1, <2>2
    <3> QED
      BY <1>1, <1>2, <2>1, <2>2, <3>1 DEF LastWord
  <2>3. CASE n # 1
    <3>1. n - 1 \in DOMAIN r /\ r[n - 1] = q[n]
      BY <1>4, <2>3
    <3>2. \A k \in DOMAIN r : k > n - 1 => ~About(r[k], s)
      BY <1>1, <1>3, <2>1
    <3> QED
      BY <2>1, <3>1, <3>2 DEF LastWord
  <2> QED
    BY <2>2, <2>3
<1>6. CASE /\ \A n \in DOMAIN q : ~About(q[n], s)
           /\ p.restrictions[s] # NoRestriction <=> s \in S
  <2>1. \A n \in DOMAIN r : ~About(r[n], s)
    BY <1>3, <1>6
  <2>2. ~About(m, s)
    BY <1>1, <1>6
  <2> QED
    BY <1>2, <1>6, <2>1, <2>2 DEF LastWord
<1> QED
  BY <1>5, <1>6 DEF LastWord, r, m, shown

\* Until the first disturbance every instance runs, one leads and no other
\* publishes, and the last word on each section tells whether the leader has an incident open there.
PanelTold ==
    faults = 0 =>
        /\ up = Instance /\ leader \in Instance /\ outgoing = {}
        /\ \A s \in Section : LastWord(panelInbox, panel.restrictions, s, Open(leader))

LEMMA InitTold == Init => PanelTold
  BY DEF Init, PanelTold, LastWord, Open, Empty, BlankPanel

LEMMA StepTold == Typed /\ PanelTold /\ [Next]_vars => PanelTold'
PROOF
<1> SUFFICES ASSUME Typed, PanelTold, [Next]_vars, faults' = 0
             PROVE  PanelTold'
  BY DEF PanelTold
<1>1. faults = 0 /\ faults \in Nat
  <2>1. faults' \in {faults, faults + 1}
    BY DEF Next, Detect, Confirm, Receive, PublishState, Elect, Standby, Start, Crash, PanelReceive,
           Depose, PanelRestart, Fault, vars
  <2>2. faults \in Nat
    BY DEF Typed, TypeOK
  <2> QED
    BY <2>1, <2>2
<1>2. /\ up = Instance /\ leader \in Instance /\ outgoing = {}
      /\ \A s \in Section : LastWord(panelInbox, panel.restrictions, s, Open(leader))
  BY <1>1 DEF PanelTold
<1>3. /\ panelInbox \in Seq(PanelMessage)
      /\ retained \in [restriction : PanelMessage, state : PanelMessage]
      /\ panel \in [restrictions : [Section -> {"advisory_hold", "advisory_speed_limit", NoRestriction}],
                    incidents : SUBSET Section]
      /\ Nobody \notin Instance
  BY DeskAssumption DEF Typed, TypeOK, DeskAssumption
<1>4. ~Depose /\ ~PanelRestart /\ (\A i \in Instance : ~Crash(i) /\ ~Elect(i) /\ ~Standby(i) /\ ~Start(i))
  BY <1>1, <1>2, <1>3 DEF Depose, PanelRestart, Crash, Fault, Elect, Standby, Start
<1>5. ASSUME NEW i \in Instance, Receive(i)
      PROVE  PanelTold'
  <2>1. /\ UNCHANGED <<up, leader, outgoing, panel, faults>> /\ inbox[i] # <<>>
        /\ core' = [core EXCEPT ![i] = core'[i]]
    BY <1>5, ReceiveCases, ReceiveFacts DEF Typed
  <2>2. CASE i # leader
    <3>1. core'[leader] = core[leader]
      BY <1>2, <2>1, <2>2 DEF Typed, DeskInv
    <3>2. panelInbox' = panelInbox
      BY <1>2, <1>5, <2>2, ReceiveCases DEF Typed, PublishAs, Publishes
    <3> QED
      BY <1>2, <2>1, <3>1, <3>2 DEF PanelTold, Open
  <2>3. CASE i = leader
    <3>1. DOMAIN core'[i].open \subseteq Section
      BY StepTyped DEF Typed, TypeOK, Memory
    <3>2. PICK st \in PanelMessage : st = SystemState(DOMAIN core'[i].open)
      BY <3>1, PanelMessageFacts
    <3>3. \A s : ~About(st, s)
      BY <3>2 DEF About, SystemState
    <3>4. ASSUME NEW s \in Section, NEW kind \in {"advisory_hold", "advisory_speed_limit", NoRestriction},
                 DOMAIN core'[i].open = IF kind = NoRestriction THEN DOMAIN core[i].open \ {s}
                                                               ELSE DOMAIN core[i].open \union {s},
                 PublishAs(i, <<Restrict(s, kind)>>, <<st>>)
          PROVE  PanelTold'
      <4>1. PICK r \in PanelMessage : r = Restrict(s, kind)
        BY PanelMessageFacts
      <4>2. panelInbox' = Append(Append(panelInbox, r), st)
        BY <1>3, <2>3, <3>4, <4>1, PublishFacts DEF Publishes
      <4>3. ASSUME NEW x \in Section
            PROVE  LastWord(panelInbox', panel.restrictions, x, DOMAIN core'[i].open)
        <5> DEFINE S == DOMAIN core'[i].open
        <5>1. LastWord(Append(panelInbox, r), panel.restrictions, x, S)
          <6>1. CASE x = s
            <7>1. About(r, x) /\ (r.kind # NoRestriction <=> x \in S)
              BY <3>4, <4>1, <6>1 DEF About, Restrict
            <7> QED
              BY <1>3, <7>1, WordAppended
          <6>2. CASE x # s
            <7>1. ~About(r, x)
              BY <4>1, <6>2 DEF About, Restrict
            <7>2. LastWord(panelInbox, panel.restrictions, x, S)
              BY <1>2, <2>3, <3>4, <6>2 DEF Open, LastWord
            <7> QED
              BY <1>3, <7>1, <7>2, WordAppended
          <6> QED
            BY <6>1, <6>2
        <5>2. Append(panelInbox, r) \in Seq(PanelMessage)
          BY <1>3
        <5> HIDE DEF S
        <5>3. LastWord(Append(Append(panelInbox, r), st), panel.restrictions, x, S)
          BY <3>3, <5>1, <5>2, WordAppended
        <5> QED
          BY <4>2, <5>3 DEF S
      <4> QED
        BY <1>2, <2>1, <2>3, <4>3 DEF PanelTold, Open
    <3>5. ASSUME core'[i] = core[i],
                 PublishAs(i, <<>>, <<st>>) \/ UNCHANGED panelInbox
          PROVE  PanelTold'
      <4>1. panelInbox' = Append(panelInbox, st) \/ panelInbox' = panelInbox
        BY <1>3, <2>3, <3>5, PublishFacts DEF Publishes
      <4>2. ASSUME NEW x \in Section
            PROVE  LastWord(panelInbox', panel.restrictions, x, DOMAIN core'[i].open)
        <5>1. LastWord(panelInbox, panel.restrictions, x, DOMAIN core'[i].open)
          BY <1>2, <2>3, <3>5 DEF Open
        <5>2. LastWord(Append(panelInbox, st), panel.restrictions, x, DOMAIN core'[i].open)
          BY <1>3, <3>3, <5>1, WordAppended
        <5> QED
          BY <4>1, <5>1, <5>2
      <4> QED
        BY <1>2, <2>1, <2>3, <4>2 DEF PanelTold, Open
    <3>6. \/ \E s \in Section, kind \in {"advisory_hold", "advisory_speed_limit"} :
                /\ DOMAIN core'[i].open = DOMAIN core[i].open \union {s}
                /\ PublishAs(i, <<Restrict(s, kind)>>, <<st>>)
          \/ \E s \in DOMAIN core[i].open :
                /\ DOMAIN core'[i].open = DOMAIN core[i].open \ {s}
                /\ PublishAs(i, <<Lift(s)>>, <<st>>)
          \/ core'[i] = core[i] /\ (PublishAs(i, <<>>, <<st>>) \/ UNCHANGED panelInbox)
      BY <1>5, <3>2, ReceiveCases DEF Typed
    <3>7. DOMAIN core[i].open \subseteq Section
      BY DEF Typed, TypeOK, Memory
    <3> QED
      BY <3>4, <3>5, <3>6, <3>7 DEF Lift, NoRestriction
  <2> QED
    BY <2>2, <2>3
<1>6. ASSUME NEW i \in Instance, PublishState(i)
      PROVE  PanelTold'
  <2>1. PICK st \in PanelMessage : st = SystemState(DOMAIN core[i].open)
    BY PanelMessageFacts DEF Typed, TypeOK, Memory
  <2>2. \A s : ~About(st, s)
    BY <2>1 DEF About, SystemState
  <2>3. panelInbox' = Append(panelInbox, st)
    BY <1>3, <1>6, <2>1, PublishFacts DEF PublishState
  <2>4. ASSUME NEW x \in Section
        PROVE  LastWord(panelInbox', panel.restrictions, x, Open(leader))
    BY <1>2, <1>3, <2>2, <2>3, WordAppended
  <2> QED
    BY <1>2, <1>6, <2>4 DEF PublishState, PanelTold, Open
<1>7. ASSUME PanelReceive
      PROVE  PanelTold'
  <2>1. ASSUME NEW x \in Section
        PROVE  LastWord(panelInbox', panel'.restrictions, x, Open(leader))
    BY <1>2, <1>3, <1>7, WordTaken DEF PanelReceive
  <2> QED
    BY <1>2, <1>7, <2>1 DEF PanelReceive, PanelTold, Open
<1>8. CASE \/ \E d \in Detections : Detect(d)
           \/ \E s \in Section : Confirm(s)
           \/ UNCHANGED vars
  BY <1>2, <1>8 DEF Detect, Confirm, vars, PanelTold, Open
<1> QED
  BY <1>4, <1>5, <1>6, <1>7, <1>8 DEF Next

\* main.ts:187-196 and :295-297: as long as nothing disturbs the leader or the
\* panel, what the panel shows once all is taken is what the leader has open.
THEOREM PanelAgreesHolds == Spec => []PanelAgrees
PROOF
<1>1. PanelTold => PanelAgrees
  <2>1. \A shown, s, S : LastWord(<<>>, shown, s, S) => (shown[s] # NoRestriction <=> s \in S)
    BY DEF LastWord
  <2> QED
    BY <2>1 DEF PanelTold, PanelAgrees, Quiet
<1> QED
  BY <1>1, InitTyped, StepTyped, InitTold, StepTold, PTL DEF Spec

-----------------------------------------------------------------------------
(***************************************************************************)
(* The standbys.                                                           *)
(***************************************************************************)

\* A memory d with messages r still to take is the memory c with messages q to
\* take, the first of q taken: g are the memories on the way.
Ahead(c, q, d, r) ==
    LET k == Len(q) - Len(r) IN
    /\ k >= 0
    /\ \A n \in 1..Len(r) : r[n] = q[k + n]
    /\ \E g : /\ g[0] = c /\ g[k] = d
              /\ \A n \in 0..(k - 1) : g[n + 1] = Effect(g[n], q[n + 1])

LEMMA AheadBy ==
    ASSUME NEW c, NEW q, NEW d, NEW r, NEW k \in Nat, Len(q) - Len(r) = k,
           \A n \in 1..Len(r) : r[n] = q[k + n],
           NEW g, g[0] = c, g[k] = d,
           \A n \in 0..(k - 1) : g[n + 1] = Effect(g[n], q[n + 1])
    PROVE  Ahead(c, q, d, r)
PROOF
<1>1. \E h : h[0] = c /\ h[k] = d /\ \A n \in 0..(k - 1) : h[n + 1] = Effect(h[n], q[n + 1])
  OBVIOUS
<1>2. k >= 0
  OBVIOUS
<1> QED
  BY <1>1, <1>2, Zenon DEF Ahead

LEMMA AheadSame ==
    ASSUME NEW c, NEW q \in Seq(Message)
    PROVE  Ahead(c, q, c, q)
PROOF
<1> DEFINE g == [n \in {0} |-> c]
<1>1. g[0] = c /\ Len(q) - Len(q) = 0 /\ Len(q) \in Nat
  OBVIOUS
<1> HIDE DEF g
<1> QED
  BY <1>1 DEF Ahead

\* What both are sent changes nothing between them.
LEMMA AheadAppend ==
    ASSUME NEW c, NEW d, NEW q \in Seq(Message), NEW r \in Seq(Message), NEW m \in Message,
           Ahead(c, q, d, r)
    PROVE  Ahead(c, Append(q, m), d, Append(r, m))
PROOF
<1> DEFINE k == Len(q) - Len(r)
           q2 == Append(q, m)
           r2 == Append(r, m)
<1> SUFFICES Ahead(c, q2, d, r2)
  OBVIOUS
<1>1. /\ Len(q) \in Nat /\ Len(r) \in Nat /\ k \in Nat
      /\ Len(q2) = Len(q) + 1 /\ Len(r2) = Len(r) + 1
      /\ q2[Len(q) + 1] = m /\ r2[Len(r) + 1] = m
      /\ \A n \in 1..Len(q) : q2[n] = q[n]
      /\ \A n \in 1..Len(r) : r2[n] = r[n]
  BY DEF Ahead
<1>2. PICK g : /\ g[0] = c /\ g[k] = d
               /\ \A n \in 0..(k - 1) : g[n + 1] = Effect(g[n], q[n + 1])
  BY DEF Ahead
<1>3. \A n \in 1..Len(r) : r[n] = q[k + n]
  BY DEF Ahead
<1> HIDE DEF q2, r2
<1>4. Len(q2) - Len(r2) = k
  BY <1>1
<1>5. \A n \in 1..Len(r2) : r2[n] = q2[k + n]
  <2> SUFFICES ASSUME NEW n \in 1..Len(r2) PROVE r2[n] = q2[k + n]
    OBVIOUS
  <2>1. CASE n = Len(r) + 1
    BY <1>1, <2>1
  <2>2. CASE n # Len(r) + 1
    <3>1. n \in 1..Len(r) /\ k + n \in 1..Len(q)
      BY <1>1, <2>2
    <3> QED
      BY <1>1, <1>3, <3>1
  <2> QED
    BY <2>1, <2>2
<1>6. \A n \in 0..(k - 1) : g[n + 1] = Effect(g[n], q2[n + 1])
  <2>1. \A n \in 0..(k - 1) : q2[n + 1] = q[n + 1]
    BY <1>1
  <2> QED
    BY <1>2, <2>1
<1> HIDE DEF k
<1> QED
  BY <1>1, <1>2, <1>4, <1>5, <1>6, AheadBy

\* The one that is ahead goes further.
LEMMA AheadTakes ==
    ASSUME NEW c, NEW d, NEW q \in Seq(Message), NEW r \in Seq(Message), r # <<>>,
           Ahead(c, q, d, r)
    PROVE  Ahead(c, q, Effect(d, Head(r)), Tail(r))
PROOF
<1> DEFINE k == Len(q) - Len(r)
           m == Head(r)
           r2 == Tail(r)
           e == Effect(d, m)
<1> SUFFICES Ahead(c, q, e, r2)
  OBVIOUS
<1>1. /\ Len(q) \in Nat /\ Len(r) \in Nat \ {0} /\ k \in Nat
      /\ m = r[1] /\ Len(r2) = Len(r) - 1
      /\ \A n \in 1..Len(r2) : r2[n] = r[n + 1]
  BY DEF Ahead
<1>2. PICK g : /\ g[0] = c /\ g[k] = d
               /\ \A n \in 0..(k - 1) : g[n + 1] = Effect(g[n], q[n + 1])
  BY DEF Ahead
<1>3. \A n \in 1..Len(r) : r[n] = q[k + n]
  BY DEF Ahead
<1> DEFINE h == [n \in 0..(k + 1) |-> IF n = k + 1 THEN e ELSE g[n]]
<1> HIDE DEF m, r2
<1>4. Len(q) - Len(r2) = k + 1
  BY <1>1
<1>5. \A n \in 1..Len(r2) : r2[n] = q[k + 1 + n]
  <2>1. \A n \in 1..Len(r2) : n + 1 \in 1..Len(r) /\ k + 1 + n = k + (n + 1)
    BY <1>1
  <2> QED
    BY <1>1, <1>3, <2>1
<1>6. m = q[k + 1]
  BY <1>1, <1>3
<1> HIDE DEF k
<1>7. h[0] = c /\ h[k + 1] = e /\ \A n \in 0..k : h[n] = g[n]
  BY <1>1, <1>2
<1> HIDE DEF h
<1>8. \A n \in 0..k : h[n + 1] = Effect(h[n], q[n + 1])
  <2> SUFFICES ASSUME NEW n \in 0..k PROVE h[n + 1] = Effect(h[n], q[n + 1])
    OBVIOUS
  <2>1. CASE n = k
    BY <1>1, <1>2, <1>6, <1>7, <2>1
  <2>2. CASE n # k
    <3>1. n \in 0..(k - 1) /\ n + 1 \in 0..k
      BY <1>1, <2>2
    <3> QED
      BY <1>2, <1>7, <3>1
  <2> QED
    BY <2>1, <2>2
<1>9. (k + 1) - 1 = k /\ k + 1 >= 0
  BY <1>1
<1> HIDE DEF e
<1> QED
  BY <1>4, <1>5, <1>7, <1>8, <1>9 DEF Ahead

\* The one that is behind catches up, or becomes the one ahead.
LEMMA BehindTakes ==
    ASSUME NEW c, NEW d, NEW q \in Seq(Message), NEW r \in Seq(Message), q # <<>>,
           Ahead(c, q, d, r)
    PROVE  \/ Ahead(Effect(c, Head(q)), Tail(q), d, r)
           \/ Ahead(d, r, Effect(c, Head(q)), Tail(q))
PROOF
<1> DEFINE k == Len(q) - Len(r)
           m == Head(q)
           q2 == Tail(q)
           e == Effect(c, m)
<1> SUFFICES Ahead(e, q2, d, r) \/ Ahead(d, r, e, q2)
  OBVIOUS
<1>1. /\ Len(q) \in Nat \ {0} /\ Len(r) \in Nat /\ k \in Nat
      /\ m = q[1] /\ Len(q2) = Len(q) - 1
      /\ \A n \in 1..Len(q2) : q2[n] = q[n + 1]
  BY DEF Ahead
<1>2. PICK g : /\ g[0] = c /\ g[k] = d
               /\ \A n \in 0..(k - 1) : g[n + 1] = Effect(g[n], q[n + 1])
  BY DEF Ahead
<1>3. \A n \in 1..Len(r) : r[n] = q[k + n]
  BY DEF Ahead
<1> HIDE DEF m, q2
<1>4. CASE k = 0
  <2> DEFINE h == [n \in 0..1 |-> IF n = 0 THEN d ELSE e]
  <2>1. h[0] = d /\ h[1] = e
    OBVIOUS
  <2> HIDE DEF h
  <2>2. Len(r) = Len(q) /\ Len(r) - Len(q2) = 1
    BY <1>1, <1>4
  <2>3. \A n \in 1..Len(q) : r[n] = q[n]
    BY <1>1, <1>3, <1>4, <2>2
  <2>4. e = Effect(d, r[1])
    BY <1>1, <1>2, <1>4, <2>3
  <2>5. \A n \in 1..Len(q2) : q2[n] = r[1 + n]
    BY <1>1, <2>3
  <2>6. \A n \in 0..(1 - 1) : h[n + 1] = Effect(h[n], r[n + 1])
    BY <2>1, <2>4
  <2> HIDE DEF e, k
  <2> QED
    BY <2>1, <2>2, <2>5, <2>6 DEF Ahead
<1>5. CASE k # 0
  <2> DEFINE j == k - 1
             h == [n \in 0..j |-> g[n + 1]]
  <2>1. j \in Nat /\ Len(q2) - Len(r) = j
    BY <1>1, <1>5
  <2>2. \A n \in 1..Len(r) : r[n] = q2[j + n]
    <3>1. \A n \in 1..Len(r) : j + n \in 1..Len(q2) /\ (j + n) + 1 = k + n
      BY <1>1, <1>5
    <3> QED
      BY <1>1, <1>3, <3>1
  <2>3. g[1] = e
    BY <1>1, <1>2, <1>5
  <2>4. \A n \in 0..(j - 1) : g[n + 2] = Effect(g[n + 1], q2[n + 1])
    <3>1. \A n \in 0..(j - 1) : /\ n + 1 \in 0..(k - 1) /\ (n + 1) + 1 = n + 2
                                /\ n + 1 \in 1..Len(q2)
      BY <1>1, <1>5
    <3> QED
      BY <1>1, <1>2, <3>1
  <2>5. /\ h[0] = e /\ h[j] = d
    BY <1>1, <1>2, <2>1, <2>3
  <2>6. \A n \in 0..(j - 1) : h[n + 1] = g[n + 2] /\ h[n] = g[n + 1]
    BY <2>1
  <2>7. \A n \in 0..(j - 1) : h[n + 1] = Effect(h[n], q2[n + 1])
    BY <2>4, <2>6
  <2> HIDE DEF e, k, j, h
  <2> QED
    BY <2>1, <2>2, <2>5, <2>7, AheadBy
<1> QED
  BY <1>4, <1>5

\* Of two instances that have run all along, one is ahead of the other.
Standbys ==
    \A i, j \in warm :
        \/ Ahead(core[i], inbox[i], core[j], inbox[j])
        \/ Ahead(core[j], inbox[j], core[i], inbox[i])

LEMMA InitStandbys == Init => Standbys
PROOF
<1> SUFFICES ASSUME Init, NEW i \in warm, NEW j \in warm
             PROVE  Ahead(core[i], inbox[i], core[j], inbox[j])
  BY DEF Standbys
<1>1. core[i] = Empty /\ core[j] = Empty /\ inbox[i] = <<>> /\ inbox[j] = <<>>
  BY DEF Init
<1>2. <<>> \in Seq(Message)
  OBVIOUS
<1> QED
  BY <1>1, <1>2, AheadSame

LEMMA StepStandbys == Typed /\ Standbys /\ [Next]_vars => Standbys'
PROOF
<1> SUFFICES ASSUME Typed, Standbys, [Next]_vars, NEW i \in warm', NEW j \in warm'
             PROVE  \/ Ahead(core'[i], inbox'[i], core'[j], inbox'[j])
                    \/ Ahead(core'[j], inbox'[j], core'[i], inbox'[i])
  BY DEF Standbys, Ahead, Effect, Handled, Cleared
<1>1. /\ i \in warm /\ j \in warm /\ i \in up /\ j \in up /\ i \in Instance /\ j \in Instance
      /\ inbox[i] \in Seq(Message) /\ inbox[j] \in Seq(Message)
  <2>1. warm' \subseteq warm
    BY DEF Next, Detect, Confirm, Receive, PublishState, Elect, Standby, Start, Crash, PanelReceive,
           Depose, PanelRestart, vars
  <2> QED
    BY <2>1 DEF Typed, TypeOK
<1>2. \/ Ahead(core[i], inbox[i], core[j], inbox[j])
      \/ Ahead(core[j], inbox[j], core[i], inbox[i])
  BY <1>1 DEF Standbys
<1>3. ASSUME NEW m \in Message, Deliver(m), UNCHANGED core
      PROVE  \/ Ahead(core'[i], inbox'[i], core'[j], inbox'[j])
             \/ Ahead(core'[j], inbox'[j], core'[i], inbox'[i])
  <2>1. inbox'[i] = Append(inbox[i], m) /\ inbox'[j] = Append(inbox[j], m)
    BY <1>1, <1>3 DEF Deliver
  <2> QED
    BY <1>1, <1>2, <1>3, <2>1, AheadAppend
<1>4. ASSUME NEW x \in Instance, Receive(x)
      PROVE  \/ Ahead(core'[i], inbox'[i], core'[j], inbox'[j])
             \/ Ahead(core'[j], inbox'[j], core'[i], inbox'[i])
  <2>1. /\ inbox[x] # <<>> /\ core'[x] = Effect(core[x], Head(inbox[x]))
        /\ inbox'[x] = Tail(inbox[x]) /\ inbox'[x] \in Seq(Message)
    BY <1>4, ReceiveFacts, ReceiveCases, StepDesk DEF Typed, DeskInv
  <2>2. \A y \in Instance : y # x => core'[y] = core[y] /\ inbox'[y] = inbox[y]
    BY <1>4, ReceiveFacts DEF Typed, DeskInv
  <2>3. CASE i = j
    <3>1. inbox'[i] \in Seq(Message)
      BY <1>1, <2>1, <2>2
    <3> QED
      BY <2>3, <3>1, AheadSame
  <2>4. CASE i # j /\ x = i
    BY <1>1, <1>2, <2>1, <2>2, <2>4, AheadTakes, BehindTakes
  <2>5. CASE i # j /\ x = j
    BY <1>1, <1>2, <2>1, <2>2, <2>5, AheadTakes, BehindTakes
  <2>6. CASE x # i /\ x # j
    BY <1>1, <1>2, <2>2, <2>6
  <2> QED
    BY <2>3, <2>4, <2>5, <2>6
<1>5. ASSUME NEW x \in Instance, Crash(x)
      PROVE  core'[i] = core[i] /\ inbox'[i] = inbox[i] /\ core'[j] = core[j] /\ inbox'[j] = inbox[j]
  BY <1>1, <1>5 DEF Crash, Typed, DeskInv
<1>6. CASE \E d \in Detections : Detect(d)
  BY <1>3, <1>6 DEF Detect, Detected, Message
<1>7. CASE \E s \in Section : Confirm(s)
  BY <1>3, <1>7 DEF Confirm, Confirmed, Message
<1>8. CASE UNCHANGED <<core, inbox>>
  BY <1>2, <1>8
<1> QED
  BY <1>2, <1>4, <1>5, <1>6, <1>7, <1>8
  DEF Next, PublishState, Elect, Standby, Start, PanelReceive, Depose, PanelRestart, vars

\* docs/HA.md:64-66: whoever leads knows what its predecessor knew.  Instances
\* that have run all along are one ahead of the other on the same sequence of
\* messages, so once each has taken its own their memories are equal.
THEOREM HotStandbyAgreesHolds == Spec => []HotStandbyAgrees
PROOF
<1>1. Typed /\ Standbys => HotStandbyAgrees
  <2>1. \A c, d : Ahead(c, <<>>, d, <<>>) => c = d
    BY DEF Ahead
  <2> QED
    BY <2>1 DEF Standbys, HotStandbyAgrees, Typed
<1> QED
  BY <1>1, InitTyped, StepTyped, InitStandbys, StepStandbys, PTL DEF Spec
=============================================================================
