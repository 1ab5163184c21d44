--------------------------- MODULE HistorianProofs ---------------------------
(***************************************************************************)
(* Proofs about Historian, for any sections, operators, size of the pool   *)
(* of connections and number of messages: queries ending in any order,     *)
(* messages that come twice, failures and restarts leave the timelines and *)
(* the trail what they should be.                                          *)
(***************************************************************************)
EXTENDS Historian, WellFoundedInduction, TLAPS

QueryType == [m : MessageType, incident : Nat, era : Nat]
EventType == [id : Nat, sec : Section, incident : Nat, era : Nat]
RestrictionType == [id : Nat, sec : Section, cleared : Operator \union {None}]
DecisionType == [id : Nat, sec : Section, granted : {None, "yes", "no"}]

\* Whatever is on its way was published; ids are given out once; an answer says
\* yes or no; and a section is ordered cleared before it is reported so.
Sourced ==
    /\ \A k \in DOMAIN bus : bus[k] \in sent
    /\ \A k \in DOMAIN retained : retained[k] \in sent
    /\ \A k \in DOMAIN inflight : inflight[k].m \in sent
    /\ made # 0
    /\ \A m \in sent :
          /\ m.id < made /\ (m.kind = "intrusion" => m.id # 0)
          /\ m.kind = "grant" => m.arg \in {"yes", "no"}
          /\ m.kind \in {"cleared", "clear_section"} =>
                m.arg \in Operator /\ Message("clear_section", 0, m.sec, m.arg) \in sent
    /\ \A s \in Section, op \in Operator :
          <<s, op>> \in orders => Message("clear_section", 0, s, op) \in sent

\* A detection of section s, among the messages S, gives an incident the name n.
Opened(S, s, n) == \E m \in S : m.kind = "intrusion" /\ Named(m.id) = n /\ m.sec = s

LEMMA NamedFacts == \A id \in Nat : Named(id) \in Nat \ {0}
  BY HistorianAssumption DEF Named

\* ats-core knows a restriction by a detection it has seen.
Restricted == \A s \in Section : open[s] < made

\* The incident in memory is that of what was filed since the last clearing;
\* nothing is filed under an era to come.
Filing ==
    /\ \A s \in Section : incident[s] = 0 \/ Opened(sent, s, incident[s])
    /\ \A e, f \in Filed : e.sec = f.sec /\ e.era = f.era => e.incident = f.incident
    /\ \A e \in Filed : /\ Opened(sent, e.sec, e.incident)
                        /\ e.era <= era[e.sec]
                        /\ e.era = era[e.sec] => e.incident = incident[e.sec]

\* A restriction is on record once, and the decisions on record were made.
Records ==
    /\ \A a, b \in db.restrictions : a.id = b.id => a = b
    /\ \A k \in DOMAIN db.decisions : db.decisions[k].id < made

HistorianInv == TypeOK /\ Sourced /\ Restricted /\ Filing /\ Records /\ LiftedByOrder

LEMMA InitHistorian == Init => HistorianInv
PROOF
<1> SUFFICES ASSUME Init PROVE HistorianInv
  OBVIOUS
<1>1. TypeOK
  BY DEF Init, TypeOK
<1>2. Filed = {}
  BY DEF Init, Filed
<1>3. Sourced /\ Restricted /\ Filing /\ Records /\ LiftedByOrder
  BY <1>2 DEF Init, Sourced, Restricted, Filing, Records, LiftedByOrder
<1> QED
  BY <1>1, <1>3 DEF HistorianInv

-----------------------------------------------------------------------------
(***************************************************************************)
(* What the publishers do.                                                 *)
(***************************************************************************)

Published(ms) == Publish(ms, TRUE) \/ Publish(ms, FALSE)

\* Publishing one or more messages.
LEMMA PublishFacts ==
    ASSUME TypeOK, NEW ms \in Seq(MessageType), ms # <<>>, Published(ms)
    PROVE  /\ bus' \in Seq(MessageType) /\ retained' \in Seq(MessageType)
           /\ sent' = sent \union {ms[k] : k \in DOMAIN ms}
           /\ \A k \in DOMAIN bus' : (\E j \in DOMAIN bus : bus'[k] = bus[j]) \/ bus'[k] \in sent'
           /\ \A k \in DOMAIN retained' :
                 (\E j \in DOMAIN retained : retained'[k] = retained[j]) \/ retained'[k] \in sent'
PROOF
<1>1. Len(ms) \in Nat \ {0} /\ DOMAIN ms = 1..Len(ms)
  OBVIOUS
<1>2. Len(ms) \in DOMAIN ms /\ ms[Len(ms)] \in MessageType
  BY <1>1
<1>3. sent' = sent \union {ms[k] : k \in DOMAIN ms}
  BY DEF Publish, Published
<1>4. bus \in Seq(MessageType) /\ retained \in Seq(MessageType)
  BY DEF TypeOK
<1>5. bus' = bus \o ms
  BY DEF Publish, Published
<1>6. /\ bus' \in Seq(MessageType) /\ DOMAIN bus' = 1..(Len(bus) + Len(ms))
      /\ \A k \in 1..(Len(bus) + Len(ms)) :
            bus'[k] = IF k <= Len(bus) THEN bus[k] ELSE ms[k - Len(bus)]
  BY <1>1, <1>4, <1>5
<1>7. \A k \in DOMAIN bus' : (\E j \in DOMAIN bus : bus'[k] = bus[j]) \/ bus'[k] \in sent'
  <2> SUFFICES ASSUME NEW k \in DOMAIN bus'
               PROVE  (\E j \in DOMAIN bus : bus'[k] = bus[j]) \/ bus'[k] \in sent'
    OBVIOUS
  <2>1. CASE k <= Len(bus)
    BY <1>1, <1>4, <1>6, <2>1
  <2>2. CASE ~(k <= Len(bus))
    <3>1. k - Len(bus) \in DOMAIN ms
      BY <1>1, <1>4, <1>6, <2>2
    <3> QED
      BY <1>3, <1>6, <2>2, <3>1
  <2> QED
    BY <2>1, <2>2
<1>8. retained' = <<ms[Len(ms)]>> \/ retained' = retained
  BY DEF Publish, Published
<1>9. ms[Len(ms)] \in sent'
  BY <1>2, <1>3
<1>10. /\ retained' \in Seq(MessageType)
       /\ \A k \in DOMAIN retained' :
             (\E j \in DOMAIN retained : retained'[k] = retained[j]) \/ retained'[k] \in sent'
  <2>1. CASE retained' = <<ms[Len(ms)]>>
    BY <1>2, <1>9, <2>1
  <2>2. CASE retained' = retained
    BY <1>4, <2>2
  <2> QED
    BY <1>8, <2>1, <2>2
<1> QED
  BY <1>2, <1>3, <1>6, <1>7, <1>10

\* A step of the publishers leaves the historian alone, and only adds to what
\* has been published.
LEMMA PublisherStep ==
    ASSUME HistorianInv, TypeOK', Sourced', UNCHANGED <<incident, inflight, db, era>>,
           sent \subseteq sent', made' >= made,
           \A s \in Section : open'[s] = open[s] \/ open'[s] < made'
    PROVE  HistorianInv'
PROOF
<1>1. \A s, n : Opened(sent, s, n) => Opened(sent', s, n)
  BY DEF Opened
<1>2. Filed' = Filed
  BY DEF Filed
<1>3. Filing'
  BY <1>1, <1>2 DEF HistorianInv, Filing
<1>4. Records'
  <2>1. made \in Nat /\ made' \in Nat /\ db.decisions \in Seq(DecisionType)
    BY DEF HistorianInv, TypeOK, DecisionType
  <2>2. \A k \in DOMAIN db.decisions : db.decisions[k].id \in Nat
    <3>1. \A k \in DOMAIN db.decisions : db.decisions[k] \in DecisionType
      BY <2>1
    <3> QED
      BY <3>1 DEF DecisionType
  <2> QED
    BY <2>1, <2>2 DEF HistorianInv, Records
<1>5. LiftedByOrder'
  BY DEF HistorianInv, LiftedByOrder, Message
<1>6. Restricted'
  <2>1. made \in Nat /\ made' \in Nat /\ \A s \in Section : open[s] \in Nat
    BY DEF HistorianInv, TypeOK
  <2> QED
    BY <2>1 DEF HistorianInv, Restricted
<1> QED
  BY <1>3, <1>4, <1>5, <1>6 DEF HistorianInv

\* What is published keeps the sources in order, if what is new does.
LEMMA PublishedSourced ==
    ASSUME HistorianInv, NEW ms \in Seq(MessageType), ms # <<>>, Published(ms), UNCHANGED <<inflight>>,
           made' \in Nat, made' >= made,
           \A x \in sent' \ sent :
              /\ x.id < made' /\ (x.kind = "intrusion" => x.id # 0)
              /\ x.kind = "grant" => x.arg \in {"yes", "no"}
              /\ x.kind \in {"cleared", "clear_section"} =>
                    x.arg \in Operator /\ Message("clear_section", 0, x.sec, x.arg) \in sent',
           \A s \in Section, op \in Operator :
              <<s, op>> \in orders' =>
                 <<s, op>> \in orders \/ Message("clear_section", 0, s, op) \in sent'
    PROVE  Sourced' /\ sent' \subseteq MessageType
PROOF
<1> USE DEF HistorianInv
<1>1. /\ sent \subseteq sent'
      /\ \A k \in DOMAIN bus' : (\E j \in DOMAIN bus : bus'[k] = bus[j]) \/ bus'[k] \in sent'
      /\ \A k \in DOMAIN retained' :
            (\E j \in DOMAIN retained : retained'[k] = retained[j]) \/ retained'[k] \in sent'
  BY PublishFacts
<1>2. sent \subseteq MessageType /\ made \in Nat
  BY DEF TypeOK
<1>3. \A x \in sent : x.id \in Nat
  BY <1>2 DEF MessageType
<1>4. /\ \A k \in DOMAIN bus' : bus'[k] \in sent'
      /\ \A k \in DOMAIN retained' : retained'[k] \in sent'
      /\ \A k \in DOMAIN inflight' : inflight'[k].m \in sent'
  BY <1>1 DEF Sourced
<1>5. made' # 0
  BY <1>2 DEF Sourced
<1>6. ASSUME NEW x \in sent'
      PROVE  /\ x.id < made' /\ (x.kind = "intrusion" => x.id # 0)
             /\ x.kind = "grant" => x.arg \in {"yes", "no"}
             /\ x.kind \in {"cleared", "clear_section"} =>
                   x.arg \in Operator /\ Message("clear_section", 0, x.sec, x.arg) \in sent'
  <2>1. CASE x \in sent
    <3>1. x.id < made' /\ (x.kind = "intrusion" => x.id # 0)
      BY <1>2, <1>3, <2>1 DEF Sourced
    <3> QED
      BY <1>1, <2>1, <3>1 DEF Sourced
  <2>2. CASE x \notin sent
    BY <2>2
  <2> QED
    BY <2>1, <2>2
<1>7. \A s \in Section, op \in Operator :
         <<s, op>> \in orders' => Message("clear_section", 0, s, op) \in sent'
  BY <1>1 DEF Sourced
<1>8. sent' \subseteq MessageType
  <2>1. \A k \in DOMAIN ms : ms[k] \in MessageType
    OBVIOUS
  <2> QED
    BY <1>2, <2>1, PublishFacts
<1> QED
  BY <1>4, <1>5, <1>6, <1>7, <1>8 DEF Sourced, Message

\* A message of a kind the bus has.
LEMMA MessageFacts ==
    ASSUME NEW kind \in Kinds, NEW id \in Nat, NEW s \in Section, NEW arg \in Args
    PROVE  LET m == Message(kind, id, s, arg) IN
           m \in MessageType /\ m.kind = kind /\ m.id = id /\ m.sec = s /\ m.arg = arg
  BY DEF Message, MessageType

\* Publishing one message.
LEMMA PublishOne ==
    ASSUME NEW m \in MessageType
    PROVE  /\ <<m>> \in Seq(MessageType) /\ <<m>> # <<>>
           /\ {<<m>>[k] : k \in DOMAIN <<m>>} = {m}
PROOF
<1>1. DOMAIN <<m>> = {1} /\ <<m>>[1] = m
  OBVIOUS
<1> QED
  BY <1>1

LEMMA DetectStep ==
    ASSUME HistorianInv, NEW s \in Section, NEW confirmed \in BOOLEAN, Detect(s, confirmed)
    PROVE  HistorianInv'
PROOF
<1> USE DEF HistorianInv
<1>1. made \in Nat /\ made # 0 /\ made' = made + 1 /\ None \in Args
      /\ {"intrusion", "restriction"} \subseteq Kinds
  BY DEF Detect, TypeOK, Sourced, Args, Kinds
<1> DEFINE id == IF open[s] # 0 THEN open[s] ELSE made
<1>0. id \in Nat /\ id < made'
  BY <1>1 DEF TypeOK, Restricted
<1>2. PICK m \in MessageType : /\ m = Message("intrusion", made, s, None)
                               /\ m.kind = "intrusion" /\ m.id = made /\ m.sec = s
  BY <1>1, MessageFacts
<1>3. PICK n \in MessageType : /\ n = Message("restriction", id, s, None)
                               /\ n.kind = "restriction" /\ n.id = id /\ n.sec = s
  BY <1>0, <1>1, MessageFacts
<1>4. PICK ms \in Seq(MessageType) : /\ ms # <<>> /\ Published(ms)
                                     /\ \A k \in DOMAIN ms : ms[k] \in {m, n}
  <2>1. Published(<<m>>) \/ Published(<<m, n>>)
    BY <1>2, <1>3 DEF Detect, Published
  <2>2. /\ <<m>> \in Seq(MessageType) /\ <<m>> # <<>>
        /\ \A k \in DOMAIN <<m>> : <<m>>[k] \in {m, n}
    OBVIOUS
  <2>3. /\ <<m, n>> \in Seq(MessageType) /\ <<m, n>> # <<>>
        /\ \A k \in DOMAIN <<m, n>> : <<m, n>>[k] \in {m, n}
    OBVIOUS
  <2>4. CASE Published(<<m>>)
    BY <2>2, <2>4
  <2>5. CASE Published(<<m, n>>)
    BY <2>3, <2>5
  <2> QED
    BY <2>1, <2>4, <2>5
<1>5. /\ bus' \in Seq(MessageType) /\ retained' \in Seq(MessageType)
      /\ sent \subseteq sent' /\ sent' \subseteq sent \union {m, n}
  BY <1>4, PublishFacts
<1>6. /\ UNCHANGED <<orders, ordered, faults, incident, inflight, db, era>>
      /\ open' = IF confirmed THEN [open EXCEPT ![s] = id] ELSE open
      /\ open' \in [Section -> Nat]
  BY <1>0, <1>3 DEF Detect, TypeOK
<1>7. Sourced' /\ sent' \subseteq MessageType
  <2>1. \A x \in sent' \ sent :
           /\ x.id < made' /\ (x.kind = "intrusion" => x.id # 0)
           /\ x.kind \notin {"grant", "cleared", "clear_section"}
    BY <1>0, <1>1, <1>2, <1>3, <1>5
  <2>2. made' \in Nat /\ made' >= made
    BY <1>1
  <2> QED
    BY <1>4, <1>6, <2>1, <2>2, PublishedSourced
<1>8. TypeOK'
  <2>1. made' \in Nat
    BY <1>1
  <2>2. UNCHANGED <<orders, ordered, faults, incident, inflight, db, era>>
    BY <1>6
  <2> QED
    BY <1>5, <1>6, <1>7, <2>1, <2>2 DEF TypeOK
<1>9. \A y \in Section : open'[y] = open[y] \/ open'[y] < made'
  BY <1>0, <1>6 DEF TypeOK
<1> QED
  BY <1>1, <1>5, <1>6, <1>7, <1>8, <1>9, PublisherStep

LEMMA OrderStep ==
    ASSUME HistorianInv, NEW s \in Section, NEW op \in Operator, Order(s, op)
    PROVE  HistorianInv'
PROOF
<1> USE DEF HistorianInv
<1>1. made \in Nat /\ made # 0 /\ made' = made /\ op \in Args /\ "clear_section" \in Kinds
  BY DEF Order, TypeOK, Sourced, Args, Kinds
<1>2. PICK m \in MessageType : /\ m = Message("clear_section", 0, s, op)
                               /\ m.kind = "clear_section" /\ m.id = 0 /\ m.sec = s /\ m.arg = op
  BY <1>1, MessageFacts
<1>3. Published(<<m>>)
  BY <1>2 DEF Order, Published
<1>4. /\ bus' \in Seq(MessageType) /\ retained' \in Seq(MessageType)
      /\ sent' = sent \union {m}
  BY <1>3, PublishFacts, PublishOne
<1>5. UNCHANGED <<open, faults, incident, inflight, db, era>>
      /\ orders' = orders \union {<<s, op>>} /\ ordered' \in Nat
      /\ orders' \subseteq Section \X Operator
  BY DEF Order, TypeOK
<1>6. Sourced' /\ sent' \subseteq MessageType
  <2>1. \A x \in sent' \ sent : x = m
    BY <1>4
  <2>2. \A y \in Section, o \in Operator :
           <<y, o>> \in orders' => <<y, o>> \in orders \/ Message("clear_section", 0, y, o) \in sent'
    BY <1>2, <1>4, <1>5
  <2>3. Message("clear_section", 0, m.sec, m.arg) \in sent'
    BY <1>2, <1>4
  <2>4. made' \in Nat /\ made' >= made /\ m.id < made'
    BY <1>1, <1>2
  <2> QED
    BY <1>2, <1>3, <1>5, <2>1, <2>2, <2>3, <2>4, PublishedSourced, PublishOne
<1>7. TypeOK'
  <2>1. made' \in Nat /\ sent' \subseteq MessageType
    BY <1>1, <1>6
  <2> QED
    BY <1>1, <1>4, <1>5, <2>1 DEF TypeOK
<1> QED
  BY <1>1, <1>4, <1>5, <1>6, <1>7, PublisherStep

LEMMA ObeyStep ==
    ASSUME HistorianInv, NEW s \in Section, NEW op \in Operator, Obey(s, op)
    PROVE  HistorianInv'
PROOF
<1> USE DEF HistorianInv
<1>1. made \in Nat /\ made # 0 /\ made' = made /\ op \in Args /\ "cleared" \in Kinds
  BY DEF Obey, TypeOK, Sourced, Args, Kinds
<1>2. /\ UNCHANGED <<ordered, faults, incident, inflight, db, era>>
      /\ orders' \subseteq orders /\ open' \in [Section -> Nat]
      /\ \A y \in Section : open'[y] = open[y] \/ open'[y] < made'
      /\ <<s, op>> \in orders
  BY <1>1 DEF Obey, TypeOK
<1>3. CASE UNCHANGED <<bus, sent, retained>>
  <2>1. TypeOK'
    BY <1>1, <1>2, <1>3 DEF TypeOK
  <2>2. Sourced'
    BY <1>1, <1>2, <1>3 DEF Sourced, Message
  <2> QED
    BY <1>1, <1>2, <1>3, <2>1, <2>2, PublisherStep
<1>4. CASE Publish(<<Message("cleared", 0, s, op)>>, TRUE)
  <2>1. PICK m \in MessageType : /\ m = Message("cleared", 0, s, op)
                                 /\ m.kind = "cleared" /\ m.id = 0 /\ m.sec = s /\ m.arg = op
    BY <1>1, MessageFacts
  <2>2. Published(<<m>>)
    BY <1>4, <2>1 DEF Published
  <2>3. /\ bus' \in Seq(MessageType) /\ retained' \in Seq(MessageType)
        /\ sent' = sent \union {m}
    BY <2>2, PublishFacts, PublishOne
  <2>4. Sourced' /\ sent' \subseteq MessageType
    <3>1. \A x \in sent' \ sent : x = m
      BY <2>3
    <3>2. Message("clear_section", 0, m.sec, m.arg) \in sent'
      BY <1>2, <2>1, <2>3 DEF Sourced
    <3>3. made' \in Nat /\ made' >= made /\ m.id < made'
      BY <1>1, <2>1
    <3> QED
      BY <1>2, <2>1, <2>2, <3>1, <3>2, <3>3, PublishedSourced, PublishOne
  <2>5. TypeOK'
    BY <1>1, <1>2, <2>3, <2>4 DEF TypeOK
  <2> QED
    BY <1>1, <1>2, <2>3, <2>4, <2>5, PublisherStep
<1> QED
  BY <1>3, <1>4 DEF Obey

LEMMA TellStep ==
    ASSUME HistorianInv, NEW s \in Section, NEW kind, NEW arg \in {None, "yes", "no"},
           kind \in Others \/ (kind = "grant" /\ arg \in {"yes", "no"}), Tell(kind, s, arg)
    PROVE  HistorianInv'
PROOF
<1> USE DEF HistorianInv
<1>1. /\ made \in Nat /\ made # 0 /\ made' = made + 1 /\ arg \in Args /\ kind \in Kinds
      /\ kind \notin {"intrusion", "cleared", "clear_section"}
      /\ kind = "grant" => arg \in {"yes", "no"}
  BY HistorianAssumption
  DEF Tell, TypeOK, Sourced, Args, Kinds, Keyed, Unkeyed, HistorianAssumption
<1>2. PICK m \in MessageType : /\ m = Message(kind, made, s, arg)
                               /\ m.kind = kind /\ m.id = made /\ m.sec = s /\ m.arg = arg
  BY <1>1, MessageFacts
<1>3. Published(<<m>>)
  BY <1>2 DEF Tell, Published
<1>4. /\ bus' \in Seq(MessageType) /\ retained' \in Seq(MessageType)
      /\ sent' = sent \union {m}
  BY <1>3, PublishFacts, PublishOne
<1>5. UNCHANGED <<open, orders, ordered, faults, incident, inflight, db, era>>
  BY DEF Tell
<1>6. Sourced' /\ sent' \subseteq MessageType
  <2>1. \A x \in sent' \ sent : x = m
    BY <1>4
  <2>2. made' \in Nat /\ made' >= made /\ m.id < made'
    BY <1>1, <1>2
  <2> QED
    BY <1>1, <1>2, <1>3, <1>5, <2>1, <2>2, PublishedSourced, PublishOne
<1>7. TypeOK'
  <2>1. made' \in Nat /\ sent' \subseteq MessageType
    BY <1>1, <1>6
  <2> QED
    BY <1>1, <1>4, <1>5, <2>1 DEF TypeOK
<1> QED
  BY <1>1, <1>4, <1>5, <1>6, <1>7, PublisherStep

LEMMA WaitStep ==
    ASSUME HistorianInv, Wait
    PROVE  HistorianInv'
PROOF
<1> USE DEF HistorianInv
<1>1. /\ UNCHANGED <<open, orders, ordered, sent, retained, faults, bus, incident, inflight, db, era>>
      /\ made \in Nat /\ made' = made + 1
  BY DEF Wait, TypeOK
<1>2. TypeOK'
  BY <1>1 DEF TypeOK
<1>3. \A m \in sent : m.id \in Nat
  BY DEF TypeOK, MessageType
<1>4. Sourced'
  BY <1>1, <1>3 DEF Sourced, Message
<1> QED
  BY <1>1, <1>2, <1>4, PublisherStep

LEMMA ResendStep ==
    ASSUME HistorianInv, NEW m \in sent, Resend(m)
    PROVE  HistorianInv'
PROOF
<1> USE DEF HistorianInv
<1>1. m \in MessageType /\ Published(<<m>>) /\ made' = made /\ made \in Nat
  BY DEF Resend, TypeOK, Published
<1>2. /\ bus' \in Seq(MessageType) /\ retained' \in Seq(MessageType)
      /\ sent' = sent
  <2>1. sent' = sent \union {m}
    BY <1>1, PublishFacts, PublishOne
  <2> QED
    BY <1>1, <2>1, PublishFacts, PublishOne
<1>3. UNCHANGED <<open, orders, ordered, incident, inflight, db, era>> /\ faults' \in Nat
  BY DEF Resend, TypeOK
<1>4. Sourced'
  <2>1. made' >= made /\ made' \in Nat
    BY <1>1
  <2> QED
    BY <1>1, <1>2, <1>3, <2>1, PublishedSourced, PublishOne
<1>5. TypeOK'
  BY <1>1, <1>2, <1>3 DEF TypeOK
<1> QED
  BY <1>1, <1>2, <1>3, <1>4, <1>5, PublisherStep

-----------------------------------------------------------------------------
(***************************************************************************)
(* What the statements write.                                              *)
(***************************************************************************)

\* INSERT ... ON CONFLICT DO NOTHING keeps what there is, and one row per key.
LEMMA InsertFacts ==
    ASSUME NEW table, NEW row
    PROVE  /\ table \subseteq Insert(table, row)
           /\ Insert(table, row) \subseteq table \union {row}
           /\ (\A a, b \in table : a.id = b.id => a = b)
              => \A a, b \in Insert(table, row) : a.id = b.id => a = b
  BY DEF Insert

\* A row after clearRestriction.
LiftedRow(row, m) ==
    IF row.sec = m.sec /\ row.cleared = None THEN [row EXCEPT !.cleared = m.arg] ELSE row

LEMMA LiftedRowFacts ==
    ASSUME NEW row \in RestrictionType, NEW m, m.arg \in Operator
    PROVE  /\ LiftedRow(row, m) \in RestrictionType
           /\ LiftedRow(row, m).id = row.id /\ LiftedRow(row, m).sec = row.sec
           /\ row.cleared # None => LiftedRow(row, m) = row
           /\ LiftedRow(row, m) = row \/ (row.sec = m.sec /\ LiftedRow(row, m).cleared = m.arg)
PROOF
<1>1. CASE row.sec = m.sec /\ row.cleared = None
  <2>1. LiftedRow(row, m) = [id |-> row.id, sec |-> row.sec, cleared |-> m.arg]
    BY <1>1 DEF LiftedRow, RestrictionType
  <2> QED
    BY <1>1, <2>1 DEF RestrictionType
<1>2. CASE ~(row.sec = m.sec /\ row.cleared = None)
  BY <1>2 DEF LiftedRow
<1> QED
  BY <1>1, <1>2

\* The decision an outcome settles, if any, is one without an outcome: there is
\* a latest one among those that wait.
LEMMA SettledFacts ==
    ASSUME NEW table \in Seq(DecisionType), NEW m, m.arg \in {"yes", "no"},
           NEW bound \in Nat, \A k \in DOMAIN table : table[k].id < bound
    PROVE  /\ Settled(table, m) \in Seq(DecisionType)
           /\ DOMAIN Settled(table, m) = DOMAIN table
           /\ \A k \in DOMAIN table :
                 /\ Settled(table, m)[k].id = table[k].id
                 /\ table[k].granted # None => Settled(table, m)[k] = table[k]
PROOF
<1> DEFINE waiting == {k \in DOMAIN table : table[k].sec = m.sec /\ table[k].granted = None}
           latest == CHOOSE k \in waiting : \A j \in waiting : table[j].id <= table[k].id
<1>1. \A k \in DOMAIN table : table[k] \in DecisionType
  OBVIOUS
<1>2. CASE waiting = {}
  BY <1>2 DEF Settled
<1>3. CASE waiting # {}
  <2>1. \E k \in waiting : \A j \in waiting : table[j].id <= table[k].id
    <3> DEFINE T == {bound - table[k].id : k \in waiting}
    <3>1. \A k \in waiting : table[k].id \in Nat /\ bound - table[k].id \in Nat
      BY <1>1 DEF DecisionType
    <3>2. T \subseteq Nat /\ T # {}
      BY <1>3, <3>1
    <3> HIDE DEF T
    <3>3. PICK x \in T : \A y \in T : ~(<<y, x>> \in OpToRel(<, Nat))
      BY <3>2, NatLessThanWellFounded, WFMin
    <3>4. \A y \in T : ~(y < x)
      BY <3>2, <3>3 DEF OpToRel
    <3>5. PICK k \in waiting : x = bound - table[k].id
      BY DEF T
    <3>6. \A j \in waiting : ~(bound - table[j].id < bound - table[k].id)
      BY <3>4, <3>5 DEF T
    <3>7. ASSUME NEW j \in waiting PROVE table[j].id <= table[k].id
      <4>1. ~(bound - table[j].id < bound - table[k].id)
        BY <3>6
      <4>2. table[j].id \in Nat /\ table[k].id \in Nat
        BY <3>1, <3>5
      <4> QED
        BY <4>1, <4>2
    <3> QED
      BY <3>5, <3>7
  <2>2. latest \in waiting
    BY <2>1
  <2>3. Settled(table, m) = [table EXCEPT ![latest].granted = m.arg]
    BY <1>3 DEF Settled
  <2> HIDE DEF latest
  <2>4. latest \in DOMAIN table /\ table[latest].granted = None
    BY <2>2
  <2> DEFINE row == [id |-> table[latest].id, sec |-> table[latest].sec, granted |-> m.arg]
  <2>5. row \in DecisionType
    BY <1>1, <2>4 DEF DecisionType
  <2>6. Settled(table, m) = [table EXCEPT ![latest] = row]
    BY <1>1, <2>3, <2>4 DEF DecisionType
  <2>7. row.id = table[latest].id
    OBVIOUS
  <2> HIDE DEF row
  <2> QED
    BY <2>4, <2>5, <2>6, <2>7
<1> QED
  BY <1>2, <1>3

\* A query and the row it files a detection under.
Entry(q) == [id |-> q.m.id, sec |-> q.m.sec, incident |-> q.incident, era |-> q.era]

LEMMA FiledMembers ==
    /\ db.events \subseteq Filed
    /\ \A k \in DOMAIN inflight : inflight[k].m.kind = "intrusion" => Entry(inflight[k]) \in Filed
    /\ \A e \in Filed : \/ e \in db.events
                        \/ \E k \in DOMAIN inflight :
                              inflight[k].m.kind = "intrusion" /\ e = Entry(inflight[k])
  BY DEF Filed, Entry

\* The tables after a query, one by one.
LEMMA WrittenTables ==
    ASSUME TypeOK, NEW q \in QueryType
    PROVE  Written(q) =
             [events |-> IF q.m.kind = "intrusion" THEN Insert(db.events, Entry(q)) ELSE db.events,
              restrictions |->
                 IF q.m.kind = "restriction"
                 THEN Insert(db.restrictions, [id |-> q.m.id, sec |-> q.m.sec, cleared |-> None])
                 ELSE IF q.m.kind \in {"cleared", "clear_section"}
                 THEN Lifted(db.restrictions, q.m) ELSE db.restrictions,
              keyed |-> IF q.m.kind \in Keyed
                        THEN Insert(db.keyed, [id |-> q.m.id, kind |-> q.m.kind]) ELSE db.keyed,
              decisions |->
                 IF q.m.kind = "decision"
                 THEN Append(db.decisions, [id |-> q.m.id, sec |-> q.m.sec, granted |-> None])
                 ELSE IF q.m.kind = "grant" THEN Settled(db.decisions, q.m) ELSE db.decisions,
              audit |-> IF q.m.kind \in Unkeyed THEN Append(db.audit, q.m.id) ELSE db.audit]
PROOF
<1> DEFINE m == q.m
<1>1. m.kind \in Kinds
  BY DEF QueryType, MessageType
<1>2. db = [events |-> db.events, restrictions |-> db.restrictions, keyed |-> db.keyed,
            decisions |-> db.decisions, audit |-> db.audit]
  BY DEF TypeOK
<1>3. CASE m.kind = "intrusion"
  BY <1>2, <1>3 DEF Written, Entry, Keyed, Unkeyed
<1>4. CASE m.kind = "restriction"
  BY <1>2, <1>4 DEF Written, Keyed, Unkeyed
<1>5. CASE m.kind \in {"cleared", "clear_section"}
  BY <1>2, <1>5 DEF Written, Keyed, Unkeyed
<1>6. CASE m.kind = "decision"
  BY <1>2, <1>6 DEF Written, Keyed, Unkeyed
<1>7. CASE m.kind = "grant"
  BY <1>2, <1>7 DEF Written, Keyed, Unkeyed
<1>8. CASE m.kind \in Keyed
  BY <1>2, <1>8 DEF Written, Keyed, Unkeyed
<1>9. CASE m.kind \in Unkeyed
  BY <1>2, <1>9 DEF Written, Keyed, Unkeyed
<1> QED
  BY <1>1, <1>3, <1>4, <1>5, <1>6, <1>7, <1>8, <1>9 DEF Kinds

LEMMA WrittenFields ==
    ASSUME TypeOK, NEW q \in QueryType
    PROVE  /\ Written(q).events =
                IF q.m.kind = "intrusion" THEN Insert(db.events, Entry(q)) ELSE db.events
           /\ Written(q).restrictions =
                IF q.m.kind = "restriction"
                THEN Insert(db.restrictions, [id |-> q.m.id, sec |-> q.m.sec, cleared |-> None])
                ELSE IF q.m.kind \in {"cleared", "clear_section"}
                THEN Lifted(db.restrictions, q.m) ELSE db.restrictions
           /\ Written(q).keyed =
                IF q.m.kind \in Keyed
                THEN Insert(db.keyed, [id |-> q.m.id, kind |-> q.m.kind]) ELSE db.keyed
           /\ Written(q).decisions =
                IF q.m.kind = "decision"
                THEN Append(db.decisions, [id |-> q.m.id, sec |-> q.m.sec, granted |-> None])
                ELSE IF q.m.kind = "grant" THEN Settled(db.decisions, q.m) ELSE db.decisions
           /\ Written(q).audit =
                IF q.m.kind \in Unkeyed THEN Append(db.audit, q.m.id) ELSE db.audit
           /\ Written(q) = [events |-> Written(q).events, restrictions |-> Written(q).restrictions,
                            keyed |-> Written(q).keyed, decisions |-> Written(q).decisions,
                            audit |-> Written(q).audit]
PROOF
<1> DEFINE m == q.m
           e == IF m.kind = "intrusion" THEN Insert(db.events, Entry(q)) ELSE db.events
           r == IF m.kind = "restriction"
                THEN Insert(db.restrictions, [id |-> m.id, sec |-> m.sec, cleared |-> None])
                ELSE IF m.kind \in {"cleared", "clear_section"}
                THEN Lifted(db.restrictions, m) ELSE db.restrictions
           y == IF m.kind \in Keyed
                THEN Insert(db.keyed, [id |-> m.id, kind |-> m.kind]) ELSE db.keyed
           d == IF m.kind = "decision"
                THEN Append(db.decisions, [id |-> m.id, sec |-> m.sec, granted |-> None])
                ELSE IF m.kind = "grant" THEN Settled(db.decisions, m) ELSE db.decisions
           a == IF m.kind \in Unkeyed THEN Append(db.audit, m.id) ELSE db.audit
<1>1. Written(q) = [events |-> e, restrictions |-> r, keyed |-> y, decisions |-> d, audit |-> a]
  BY WrittenTables
<1> HIDE DEF e, r, y, d, a
<1>2. /\ Written(q).events = e /\ Written(q).restrictions = r /\ Written(q).keyed = y
      /\ Written(q).decisions = d /\ Written(q).audit = a
      /\ Written(q) = [events |-> Written(q).events, restrictions |-> Written(q).restrictions,
                       keyed |-> Written(q).keyed, decisions |-> Written(q).decisions,
                       audit |-> Written(q).audit]
  BY <1>1
<1> QED
  BY <1>2 DEF e, r, y, d, a

\* What a query does to each table, and so what a step that commits one may do
\* to the trail.
TrailStep(old, new) ==
    /\ old.events \subseteq new.events
    /\ \A row \in old.restrictions :
          \E then \in new.restrictions :
             then.id = row.id /\ (row.cleared # None => then = row)
    /\ \A a, b \in new.restrictions : a.id = b.id => a = b
    /\ \A k \in DOMAIN old.decisions :
          old.decisions[k].granted # None => new.decisions[k] = old.decisions[k]
    /\ Prefix(old.audit, new.audit)

\* A table that stays.
LEMMA TrailSame ==
    ASSUME HistorianInv
    PROVE  TrailStep(db, db)
PROOF
<1>1. db.audit \in Seq(Nat)
  BY DEF HistorianInv, TypeOK
<1>2. Prefix(db.audit, db.audit)
  BY <1>1 DEF Prefix
<1> QED
  BY <1>2 DEF HistorianInv, Records, TrailStep

LEMMA WrittenFacts ==
    ASSUME HistorianInv, NEW q \in QueryType, q.m \in sent
    PROVE  /\ Written(q) \in [events : SUBSET EventType, restrictions : SUBSET RestrictionType,
                              keyed : SUBSET [id : Nat, kind : Keyed],
                              decisions : Seq(DecisionType), audit : Seq(Nat)]
           /\ Written(q).events \subseteq
                 db.events \union (IF q.m.kind = "intrusion" THEN {Entry(q)} ELSE {})
           /\ TrailStep(db, Written(q))
           /\ \A row \in Written(q).restrictions :
                 row.cleared # None =>
                    Message("clear_section", 0, row.sec, row.cleared) \in sent
           /\ \A k \in DOMAIN Written(q).decisions : Written(q).decisions[k].id < made
PROOF
<1> USE DEF HistorianInv
<1> DEFINE m == q.m
           W == Written(q)
<1>0. /\ W.events = IF m.kind = "intrusion" THEN Insert(db.events, Entry(q)) ELSE db.events
      /\ W.restrictions =
           IF m.kind = "restriction"
           THEN Insert(db.restrictions, [id |-> m.id, sec |-> m.sec, cleared |-> None])
           ELSE IF m.kind \in {"cleared", "clear_section"}
           THEN Lifted(db.restrictions, m) ELSE db.restrictions
      /\ W.keyed = IF m.kind \in Keyed
                   THEN Insert(db.keyed, [id |-> m.id, kind |-> m.kind]) ELSE db.keyed
      /\ W.decisions =
           IF m.kind = "decision"
           THEN Append(db.decisions, [id |-> m.id, sec |-> m.sec, granted |-> None])
           ELSE IF m.kind = "grant" THEN Settled(db.decisions, m) ELSE db.decisions
      /\ W.audit = IF m.kind \in Unkeyed THEN Append(db.audit, m.id) ELSE db.audit
      /\ W = [events |-> W.events, restrictions |-> W.restrictions, keyed |-> W.keyed,
              decisions |-> W.decisions, audit |-> W.audit]
  BY WrittenFields
<1> HIDE DEF W
<1>1. /\ m \in MessageType /\ m.id \in Nat /\ m.sec \in Section /\ m.kind \in Kinds
      /\ q.incident \in Nat /\ q.era \in Nat
  BY DEF QueryType, MessageType
<1>2. /\ m.id < made /\ made \in Nat
      /\ m.kind = "grant" => m.arg \in {"yes", "no"}
      /\ m.kind \in {"cleared", "clear_section"} =>
            m.arg \in Operator /\ Message("clear_section", 0, m.sec, m.arg) \in sent
  BY DEF Sourced, TypeOK
<1>3. /\ db.events \subseteq EventType /\ db.restrictions \subseteq RestrictionType
      /\ db.keyed \subseteq [id : Nat, kind : Keyed]
      /\ db.decisions \in Seq(DecisionType) /\ db.audit \in Seq(Nat)
  BY DEF TypeOK, EventType, RestrictionType, DecisionType
<1>5. /\ W.events \subseteq EventType /\ db.events \subseteq W.events
      /\ W.events \subseteq db.events \union (IF m.kind = "intrusion" THEN {Entry(q)} ELSE {})
  <2>1. Entry(q) \in EventType
    BY <1>1 DEF Entry, EventType
  <2>2. W.events = IF m.kind = "intrusion" THEN Insert(db.events, Entry(q)) ELSE db.events
    BY <1>0
  <2> QED
    BY <1>3, <2>1, <2>2, InsertFacts
<1>6. /\ W.restrictions \subseteq RestrictionType
      /\ \A row \in db.restrictions :
            \E then \in W.restrictions :
               then.id = row.id /\ (row.cleared # None => then = row)
      /\ \A a, b \in W.restrictions : a.id = b.id => a = b
      /\ \A row \in W.restrictions :
            row.cleared # None => Message("clear_section", 0, row.sec, row.cleared) \in sent
  <2>1. /\ \A a, b \in db.restrictions : a.id = b.id => a = b
        /\ \A row \in db.restrictions :
              row.cleared # None => Message("clear_section", 0, row.sec, row.cleared) \in sent
    BY DEF Records, LiftedByOrder
  <2>2. CASE m.kind = "restriction"
    <3> DEFINE new == [id |-> m.id, sec |-> m.sec, cleared |-> None]
    <3>1. new \in RestrictionType /\ new.cleared = None
      BY <1>1 DEF RestrictionType
    <3>2. W.restrictions = Insert(db.restrictions, new)
      BY <2>2, <1>0
    <3> HIDE DEF new
    <3>3. /\ db.restrictions \subseteq W.restrictions
          /\ W.restrictions \subseteq db.restrictions \union {new}
          /\ \A a, b \in W.restrictions : a.id = b.id => a = b
      BY <2>1, <3>2, InsertFacts
    <3> QED
      BY <1>3, <2>1, <3>1, <3>3
  <2>3. CASE m.kind \in {"cleared", "clear_section"}
    <3>1. W.restrictions = Lifted(db.restrictions, m)
      BY <2>3, <1>0
    <3>2. Lifted(db.restrictions, m) = {LiftedRow(row, m) : row \in db.restrictions}
      BY DEF Lifted, LiftedRow
    <3> HIDE DEF m
    <3>3. \A row \in db.restrictions :
             /\ LiftedRow(row, m) \in RestrictionType
             /\ LiftedRow(row, m).id = row.id /\ LiftedRow(row, m).sec = row.sec
             /\ row.cleared # None => LiftedRow(row, m) = row
             /\ LiftedRow(row, m) = row \/ (row.sec = m.sec /\ LiftedRow(row, m).cleared = m.arg)
      BY <1>2, <1>3, <2>3, LiftedRowFacts
    <3>4. ASSUME NEW new \in W.restrictions
          PROVE  \E row \in db.restrictions : new = LiftedRow(row, m)
      BY <3>1, <3>2
    <3>5. \A row \in db.restrictions : LiftedRow(row, m) \in W.restrictions
      BY <3>1, <3>2
    <3>6. \A a, b \in W.restrictions : a.id = b.id => a = b
      BY <2>1, <3>3, <3>4
    <3>7. ASSUME NEW new \in W.restrictions, new.cleared # None
          PROVE  Message("clear_section", 0, new.sec, new.cleared) \in sent
      <4>1. PICK row \in db.restrictions : new = LiftedRow(row, m)
        BY <3>4
      <4>2. CASE new = row
        BY <2>1, <3>7, <4>2
      <4>3. CASE row.sec = m.sec /\ new.cleared = m.arg
        BY <1>2, <2>3, <3>3, <4>1, <4>3
      <4> QED
        BY <3>3, <4>1, <4>2, <4>3
    <3> QED
      BY <3>3, <3>4, <3>5, <3>6, <3>7
  <2>4. CASE m.kind \notin {"restriction", "cleared", "clear_section"}
    <3>1. W.restrictions = db.restrictions
      BY <2>4, <1>0
    <3> QED
      BY <1>3, <2>1, <3>1
  <2> QED
    BY <2>2, <2>3, <2>4
<1>7. W.keyed \subseteq [id : Nat, kind : Keyed]
  <2> DEFINE new == [id |-> m.id, kind |-> m.kind]
  <2>1. W.keyed = IF m.kind \in Keyed THEN Insert(db.keyed, new) ELSE db.keyed
    BY <1>0
  <2>2. m.kind \in Keyed => new \in [id : Nat, kind : Keyed]
    BY <1>1
  <2> HIDE DEF new
  <2> QED
    BY <1>3, <2>1, <2>2, InsertFacts
<1>8. /\ W.decisions \in Seq(DecisionType)
      /\ \A k \in DOMAIN db.decisions :
            db.decisions[k].granted # None => W.decisions[k] = db.decisions[k]
      /\ \A k \in DOMAIN W.decisions : W.decisions[k].id < made
  <2>1. \A k \in DOMAIN db.decisions : db.decisions[k].id < made
    BY DEF Records
  <2>2. CASE m.kind = "decision"
    <3> DEFINE new == [id |-> m.id, sec |-> m.sec, granted |-> None]
               D == db.decisions
    <3>1. new \in DecisionType /\ new.id = m.id
      BY <1>1 DEF DecisionType
    <3>2. W.decisions = Append(D, new)
      BY <2>2, <1>0
    <3>3. D \in Seq(DecisionType) /\ \A k \in DOMAIN D : D[k].id < made
      BY <1>3, <2>1
    <3> HIDE DEF new, D
    <3>4. /\ Append(D, new) \in Seq(DecisionType)
          /\ DOMAIN D = 1..Len(D) /\ DOMAIN Append(D, new) = 1..(Len(D) + 1) /\ Len(D) \in Nat
          /\ Append(D, new)[Len(D) + 1] = new
          /\ \A k \in 1..Len(D) : Append(D, new)[k] = D[k]
      BY <3>1, <3>3
    <3>5. \A k \in DOMAIN W.decisions : W.decisions[k].id < made
      BY <1>2, <3>1, <3>2, <3>3, <3>4
    <3> QED
      BY <3>2, <3>4, <3>5 DEF D
  <2>3. CASE m.kind = "grant"
    <3> DEFINE D == db.decisions
               S == Settled(D, m)
    <3>1. W.decisions = S
      BY <1>0, <2>3
    <3>2. D \in Seq(DecisionType) /\ (\A k \in DOMAIN D : D[k].id < made) /\ made \in Nat
      BY <1>2, <1>3, <2>1
    <3>3. m.arg \in {"yes", "no"}
      BY <1>2, <2>3
    <3> HIDE DEF m, D
    <3>4. PICK bound \in Nat : \A k \in DOMAIN D : D[k].id < bound
      BY <3>2
    <3>5. /\ S \in Seq(DecisionType) /\ DOMAIN S = DOMAIN D
          /\ \A k \in DOMAIN D : S[k].id = D[k].id /\ (D[k].granted # None => S[k] = D[k])
      BY <3>2, <3>3, <3>4, SettledFacts
    <3> HIDE DEF S
    <3>6. \A k \in DOMAIN W.decisions : W.decisions[k].id < made
      BY <3>1, <3>2, <3>5
    <3> QED
      BY <3>1, <3>5, <3>6 DEF D
  <2>4. CASE m.kind \notin {"decision", "grant"}
    <3>1. W.decisions = db.decisions
      BY <2>4, <1>0
    <3> QED
      BY <1>3, <2>1, <3>1
  <2> QED
    BY <2>2, <2>3, <2>4
<1>9. W.audit \in Seq(Nat) /\ Prefix(db.audit, W.audit)
  <2>1. CASE W.audit = Append(db.audit, m.id)
    BY <1>1, <1>3, <2>1 DEF Prefix
  <2>2. CASE W.audit = db.audit
    BY <1>3, <2>2 DEF Prefix
  <2> QED
    BY <1>0, <2>1, <2>2
<1>10. W \in [events : SUBSET EventType, restrictions : SUBSET RestrictionType,
              keyed : SUBSET [id : Nat, kind : Keyed],
              decisions : Seq(DecisionType), audit : Seq(Nat)]
  BY <1>0, <1>5, <1>6, <1>7, <1>8, <1>9
<1>11. TrailStep(db, W)
  BY <1>5, <1>6, <1>8, <1>9 DEF TrailStep
<1> QED
  BY <1>5, <1>6, <1>8, <1>10, <1>11 DEF W

-----------------------------------------------------------------------------
(***************************************************************************)
(* What the historian does.                                                *)
(***************************************************************************)

\* The queries that remain when one has ended.
LEMMA WithoutFacts ==
    ASSUME inflight \in Seq(QueryType), NEW k \in DOMAIN inflight
    PROVE  /\ Without(k) \in Seq(QueryType)
           /\ \A j \in DOMAIN Without(k) : \E i \in DOMAIN inflight : Without(k)[j] = inflight[i]
PROOF
<1>1. Len(inflight) \in Nat /\ DOMAIN inflight = 1..Len(inflight) /\ Len(inflight) - 1 \in Nat
  OBVIOUS
<1>2. \A i \in DOMAIN inflight : inflight[i] \in QueryType
  OBVIOUS
<1>3. ASSUME NEW j \in 1..(Len(inflight) - 1)
      PROVE  \E i \in DOMAIN inflight : Without(k)[j] = inflight[i]
  <2>1. Without(k)[j] = IF j < k THEN inflight[j] ELSE inflight[j + 1]
    BY DEF Without
  <2>2. j \in DOMAIN inflight /\ j + 1 \in DOMAIN inflight
    BY <1>1
  <2> QED
    BY <2>1, <2>2
<1>4. DOMAIN Without(k) = 1..(Len(inflight) - 1)
  BY DEF Without
<1>5. Without(k) \in [1..(Len(inflight) - 1) -> QueryType]
  BY <1>2, <1>3, <1>4 DEF Without
<1> QED
  BY <1>1, <1>3, <1>4, <1>5

LEMMA FiledTyped == TypeOK => Filed \subseteq EventType
PROOF
<1> SUFFICES ASSUME TypeOK, NEW e \in Filed PROVE e \in EventType
  OBVIOUS
<1>1. db.events \subseteq EventType
  BY DEF TypeOK, EventType
<1>2. inflight \in Seq(QueryType)
  BY DEF TypeOK, QueryType
<1>3. \A q \in QueryType : Entry(q) \in EventType
  BY DEF QueryType, EventType, Entry, MessageType
<1>4. \A k \in DOMAIN inflight : inflight[k] \in QueryType
  BY <1>2
<1> QED
  BY <1>1, <1>3, <1>4, FiledMembers

\* Nothing more is filed, and where the incident is forgotten another era
\* begins.
LEMMA FilingKept ==
    ASSUME HistorianInv, Filed' \subseteq Filed, sent' = sent,
           \A s \in Section : \/ incident'[s] = incident[s] /\ era'[s] = era[s]
                              \/ incident'[s] = 0 /\ era'[s] = era[s] + 1
    PROVE  Filing'
PROOF
<1> USE DEF HistorianInv
<1>1. \A s, n : Opened(sent, s, n) => Opened(sent', s, n)
  BY DEF Opened
<1>2. \A s \in Section : incident'[s] = 0 \/ Opened(sent', s, incident'[s])
  BY <1>1 DEF Filing, Opened
<1>3. ASSUME NEW e \in Filed'
      PROVE  /\ Opened(sent', e.sec, e.incident)
             /\ e.era <= era'[e.sec]
             /\ e.era = era'[e.sec] => e.incident = incident'[e.sec]
  <2>1. /\ e \in Filed /\ e.sec \in Section /\ e.era \in Nat /\ era[e.sec] \in Nat
    BY FiledTyped DEF EventType, TypeOK
  <2>2. Opened(sent', e.sec, e.incident)
    BY <1>1, <2>1 DEF Filing
  <2> QED
    BY <2>1, <2>2 DEF Filing
<1>4. \A e, f \in Filed' : e.sec = f.sec /\ e.era = f.era => e.incident = f.incident
  BY DEF Filing
<1> QED
  BY <1>2, <1>3, <1>4 DEF Filing

\* A detection received is filed with the others of its section and era.
LEMMA ReceiveStep ==
    ASSUME HistorianInv, Receive
    PROVE  HistorianInv'
PROOF
<1> USE DEF HistorianInv
<1> DEFINE m == Head(bus)
           q == [m |-> m, incident |-> IF m.kind = "intrusion" THEN IncidentOf(m) ELSE 0,
                 era |-> era[m.sec]]
<1>1. /\ UNCHANGED <<made, open, orders, ordered, sent, retained, faults, db, era>>
      /\ bus # <<>> /\ bus' = Tail(bus) /\ inflight' = Append(inflight, q)
      /\ incident' = IF m.kind = "intrusion"
                     THEN [incident EXCEPT ![m.sec] = IncidentOf(m)] ELSE incident
  BY DEF Receive, publishers
<1>2. bus \in Seq(MessageType) /\ inflight \in Seq(QueryType)
      /\ incident \in [Section -> Nat] /\ era \in [Section -> Nat]
  BY DEF TypeOK, QueryType
<1>3. /\ m \in MessageType /\ 1 \in DOMAIN bus /\ m = bus[1] /\ bus' \in Seq(MessageType)
      /\ \A k \in DOMAIN bus' : k + 1 \in DOMAIN bus /\ bus'[k] = bus[k + 1]
  BY <1>1, <1>2
<1>4. m.id \in Nat /\ m.sec \in Section /\ m \in sent
  BY <1>3 DEF MessageType, Sourced
<1>5. IncidentOf(m) \in Nat
  BY <1>2, <1>4, NamedFacts DEF IncidentOf
<1>6. q \in QueryType /\ q.m = m /\ Entry(q) \in EventType
  BY <1>2, <1>3, <1>4, <1>5 DEF QueryType, Entry, EventType
<1>7. incident' \in [Section -> Nat]
  BY <1>1, <1>2, <1>5
<1> HIDE DEF q, m
<1>8. /\ inflight' \in Seq(QueryType)
      /\ \A k \in DOMAIN inflight' : \/ k \in DOMAIN inflight /\ inflight'[k] = inflight[k]
                                     \/ inflight'[k] = q
  BY <1>1, <1>2, <1>6
<1>9. TypeOK'
  <2>1. db' = db /\ inflight' \in Seq([m : MessageType, incident : Nat, era : Nat])
    BY <1>1, <1>8 DEF QueryType
  <2> QED
    BY <1>1, <1>3, <1>7, <2>1 DEF TypeOK
<1>10. Sourced'
  <2>1. /\ \A k \in DOMAIN bus' : bus'[k] \in sent'
        /\ \A k \in DOMAIN inflight' : inflight'[k].m \in sent'
    BY <1>1, <1>3, <1>4, <1>6, <1>8 DEF Sourced
  <2> QED
    BY <1>1, <2>1 DEF Sourced, Message
<1>11. \A e \in Filed' : e \in Filed \/ (m.kind = "intrusion" /\ e = Entry(q))
  <2>1. \A e \in Filed' : \/ e \in db'.events
                          \/ \E k \in DOMAIN inflight' :
                                inflight'[k].m.kind = "intrusion" /\ e = Entry(inflight'[k])
    BY FiledMembers DEF Filed, Entry
  <2> QED
    BY <1>1, <1>6, <1>8, <2>1, FiledMembers
<1>12. Filing'
  <2>1. CASE m.kind # "intrusion"
    <3>1. \A s \in Section : incident'[s] = incident[s] /\ era'[s] = era[s]
      BY <1>1, <2>1
    <3> QED
      BY <1>1, <1>11, <2>1, <3>1, FilingKept
  <2>2. CASE m.kind = "intrusion"
    <3>1. incident' = [incident EXCEPT ![m.sec] = IncidentOf(m)] /\ era' = era
      BY <1>1, <2>2
    <3>2. \A s, n : Opened(sent', s, n) <=> Opened(sent, s, n)
      BY <1>1 DEF Opened
    <3>3. Opened(sent, m.sec, IncidentOf(m))
      BY <1>4, <2>2 DEF IncidentOf, Filing, Opened
    <3>4. \A s : ~Opened(sent, s, 0)
      <4>1. \A x \in sent : x.id \in Nat
        BY DEF TypeOK, MessageType
      <4> QED
        BY <4>1, NamedFacts DEF Opened
    <3>5. q.m.sec = m.sec /\ q.incident = IncidentOf(m) /\ q.era = era[m.sec]
      BY <2>2 DEF q
    <3>6. /\ Entry(q).sec = m.sec /\ Entry(q).incident = IncidentOf(m)
          /\ Entry(q).era = era[m.sec]
      BY <3>5 DEF Entry
    <3>7. \A e \in Filed : /\ e.sec \in Section /\ e.era \in Nat /\ e.era <= era[e.sec]
                           /\ Opened(sent, e.sec, e.incident)
                           /\ e.era = era[e.sec] => e.incident = incident[e.sec]
      BY FiledTyped DEF EventType, Filing
    <3>8. \A e \in Filed : e.sec = m.sec /\ e.era = era[m.sec] => e.incident = IncidentOf(m)
      BY <3>4, <3>7 DEF IncidentOf
    <3>9. \A s \in Section : incident'[s] = 0 \/ Opened(sent', s, incident'[s])
      BY <1>2, <1>4, <3>1, <3>2, <3>3 DEF Filing
    <3>10. \A e, f \in Filed' : e.sec = f.sec /\ e.era = f.era => e.incident = f.incident
      BY <1>11, <3>6, <3>8 DEF Filing
    <3>11. ASSUME NEW e \in Filed'
           PROVE  /\ Opened(sent', e.sec, e.incident) /\ e.era <= era'[e.sec]
                  /\ e.era = era'[e.sec] => e.incident = incident'[e.sec]
      <4>1. CASE e \in Filed
        BY <1>2, <1>4, <3>1, <3>2, <3>7, <3>8, <4>1
      <4>2. CASE e = Entry(q)
        <5>1. Opened(sent', e.sec, e.incident)
          BY <3>2, <3>3, <3>6, <4>2
        <5>2. e.era <= era'[e.sec] /\ e.incident = incident'[e.sec]
          BY <1>2, <1>4, <3>1, <3>6, <4>2
        <5> QED
          BY <5>1, <5>2
      <4> QED
        BY <1>11, <4>1, <4>2
    <3> QED
      BY <3>9, <3>10, <3>11 DEF Filing
  <2> QED
    BY <2>1, <2>2
<1>13. Records' /\ LiftedByOrder' /\ Restricted'
  BY <1>1 DEF Records, LiftedByOrder, Message, Restricted
<1> QED
  BY <1>9, <1>10, <1>12, <1>13

\* A query ends, well or badly: what it filed stays filed, or is lost.
LEMMA EndStep ==
    ASSUME HistorianInv, NEW k \in DOMAIN inflight, Commit(k) \/ Fail(k)
    PROVE  HistorianInv'
PROOF
<1> USE DEF HistorianInv
<1> DEFINE q == inflight[k]
<1>1. /\ UNCHANGED <<made, open, orders, ordered, sent, retained, bus>>
      /\ inflight' = Without(k) /\ faults' \in Nat
  BY DEF Commit, Fail, publishers, TypeOK
<1>2. inflight \in Seq(QueryType) /\ incident \in [Section -> Nat] /\ era \in [Section -> Nat]
  BY DEF TypeOK, QueryType
<1>3. q \in QueryType /\ q.m \in sent /\ q.m.sec \in Section
  <2>1. q \in QueryType /\ q.m \in sent
    BY <1>2 DEF Sourced
  <2> HIDE DEF q
  <2> QED
    BY <2>1 DEF QueryType, MessageType
<1>4. /\ inflight' \in Seq(QueryType)
      /\ \A j \in DOMAIN inflight' : \E i \in DOMAIN inflight : inflight'[j] = inflight[i]
  BY <1>1, <1>2, WithoutFacts
<1>5. /\ incident' \in [Section -> Nat] /\ era' \in [Section -> Nat]
      /\ \A s \in Section : \/ incident'[s] = incident[s] /\ era'[s] = era[s]
                            \/ incident'[s] = 0 /\ era'[s] = era[s] + 1
  <2>1. CASE UNCHANGED <<incident, era>>
    BY <1>2, <2>1
  <2>2. CASE /\ incident' = [incident EXCEPT ![q.m.sec] = 0]
             /\ era' = [era EXCEPT ![q.m.sec] = @ + 1]
    <3> HIDE DEF q, HistorianInv
    <3> QED
      BY <1>2, <1>3, <2>2
  <2> QED
    BY <2>1, <2>2 DEF Commit, Fail
<1>6. /\ db' \in [events : SUBSET EventType, restrictions : SUBSET RestrictionType,
                  keyed : SUBSET [id : Nat, kind : Keyed],
                  decisions : Seq(DecisionType), audit : Seq(Nat)]
      /\ db'.events \subseteq db.events \union (IF q.m.kind = "intrusion" THEN {Entry(q)} ELSE {})
      /\ \A a, b \in db'.restrictions : a.id = b.id => a = b
      /\ \A row \in db'.restrictions :
            row.cleared # None => Message("clear_section", 0, row.sec, row.cleared) \in sent
      /\ \A j \in DOMAIN db'.decisions : db'.decisions[j].id < made
  <2>1. CASE db' = Written(q)
    <3> HIDE DEF q, HistorianInv
    <3> QED
      BY <1>3, <2>1, WrittenFacts DEF TrailStep
  <2>2. CASE db' = db
    BY <2>2 DEF TypeOK, EventType, RestrictionType, DecisionType, Records, LiftedByOrder
  <2> QED
    BY <2>1, <2>2 DEF Commit, Fail
<1>7. Filed' \subseteq Filed
  <2>1. \A e \in Filed' : \/ e \in db'.events
                          \/ \E j \in DOMAIN inflight' :
                                inflight'[j].m.kind = "intrusion" /\ e = Entry(inflight'[j])
    BY DEF Filed, Entry
  <2> HIDE DEF HistorianInv
  <2> QED
    BY <1>4, <1>6, <2>1, FiledMembers
<1>8. Filing'
  BY <1>1, <1>5, <1>7, FilingKept
<1>9. TypeOK'
  <2>1. inflight' \in Seq([m : MessageType, incident : Nat, era : Nat])
    BY <1>4 DEF QueryType
  <2>2. db' \in [events : SUBSET [id : Nat, sec : Section, incident : Nat, era : Nat],
                 restrictions : SUBSET [id : Nat, sec : Section, cleared : Operator \union {None}],
                 keyed : SUBSET [id : Nat, kind : Keyed],
                 decisions : Seq([id : Nat, sec : Section, granted : {None, "yes", "no"}]),
                 audit : Seq(Nat)]
    BY <1>6 DEF EventType, RestrictionType, DecisionType
  <2> QED
    BY <1>1, <1>5, <2>1, <2>2 DEF TypeOK
<1>10. Sourced'
  <2>1. \A j \in DOMAIN inflight' : inflight'[j].m \in sent'
    BY <1>1, <1>4 DEF Sourced
  <2> QED
    BY <1>1, <2>1 DEF Sourced, Message
<1>11. Records' /\ LiftedByOrder' /\ Restricted'
  BY <1>1, <1>6 DEF Records, LiftedByOrder, Message, Restricted
<1> QED
  BY <1>8, <1>9, <1>10, <1>11

\* The memory is lost, the tables and the retained message are not.
LEMMA RestartStep ==
    ASSUME HistorianInv, Restart
    PROVE  HistorianInv'
PROOF
<1> USE DEF HistorianInv
<1>1. /\ UNCHANGED <<made, open, orders, ordered, sent, retained, db>>
      /\ bus' = retained /\ inflight' = <<>> /\ faults' \in Nat
      /\ incident' = [s \in Section |-> 0] /\ era' = [s \in Section |-> era[s] + 1]
  BY DEF Restart, publishers, TypeOK
<1>2. TypeOK'
  <2>1. inflight' \in Seq([m : MessageType, incident : Nat, era : Nat])
    BY <1>1
  <2>2. incident' \in [Section -> Nat] /\ era' \in [Section -> Nat]
    BY <1>1 DEF TypeOK
  <2> QED
    BY <1>1, <2>1, <2>2 DEF TypeOK
<1>3. Sourced'
  <2>1. DOMAIN inflight' = {}
    BY <1>1
  <2> QED
    BY <1>1, <2>1 DEF Sourced, Message
<1>4. Filed' \subseteq Filed
  <2>1. DOMAIN inflight' = {} /\ db' = db
    BY <1>1
  <2> QED
    BY <2>1 DEF Filed
<1>5. Filing'
  BY <1>1, <1>4, FilingKept
<1>6. Records' /\ LiftedByOrder' /\ Restricted'
  BY <1>1 DEF Records, LiftedByOrder, Message, Restricted
<1> QED
  BY <1>2, <1>3, <1>5, <1>6

LEMMA StepHistorian == HistorianInv /\ [Next]_vars => HistorianInv'
PROOF
<1> SUFFICES ASSUME HistorianInv, [Next]_vars PROVE HistorianInv'
  OBVIOUS
<1>1. ASSUME NEW s \in Section, NEW confirmed \in BOOLEAN, Detect(s, confirmed)
      PROVE  HistorianInv'
  BY <1>1, DetectStep
<1>2. ASSUME NEW s \in Section, NEW op \in Operator, Order(s, op) \/ Obey(s, op)
      PROVE  HistorianInv'
  BY <1>2, OrderStep, ObeyStep
<1>3. ASSUME NEW s \in Section, NEW kind \in Others, Tell(kind, s, None)
      PROVE  HistorianInv'
  BY <1>3, TellStep
<1>4. ASSUME NEW s \in Section, NEW granted \in {"yes", "no"}, Tell("grant", s, granted)
      PROVE  HistorianInv'
  <2>1. granted \in {None, "yes", "no"}
    OBVIOUS
  <2> QED
    BY <1>4, <2>1, TellStep
<1>5. ASSUME NEW m \in sent, Resend(m) PROVE HistorianInv'
  BY <1>5, ResendStep
<1>10. CASE Wait
  BY <1>10, WaitStep
<1>6. CASE Receive
  BY <1>6, ReceiveStep
<1>7. ASSUME NEW k \in 1..PoolSize, k <= Len(inflight), Commit(k) \/ Fail(k)
      PROVE  HistorianInv'
  <2>1. inflight \in Seq(QueryType)
    BY DEF HistorianInv, TypeOK, QueryType
  <2>2. k \in DOMAIN inflight
    BY <1>7, <2>1, HistorianAssumption DEF HistorianAssumption
  <2> QED
    BY <1>7, <2>2, EndStep
<1>8. CASE Restart
  BY <1>8, RestartStep
<1>9. CASE UNCHANGED vars
  <2>1. UNCHANGED <<made, open, orders, ordered, sent, retained, faults, bus, incident,
                    inflight, db, era>>
    BY <1>9 DEF vars, publishers
  <2>2. Filed' = Filed
    BY <2>1 DEF Filed
  <2> QED
    BY <2>1, <2>2
    DEF HistorianInv, TypeOK, Sourced, Restricted, Filing, Records, LiftedByOrder, Opened, Message
<1> QED
  BY <1>1, <1>2, <1>3, <1>4, <1>5, <1>6, <1>7, <1>8, <1>9, <1>10 DEF Next

LEMMA HistorianInvHolds == Spec => []HistorianInv
PROOF
<1>1. Init => HistorianInv
  BY InitHistorian
<1>2. HistorianInv /\ [Next]_vars => HistorianInv'
  BY StepHistorian
<1> QED
  BY <1>1, <1>2, PTL DEF Spec

-----------------------------------------------------------------------------
(***************************************************************************)
(* The theorems.                                                           *)
(***************************************************************************)

\* The detections of a section between two clearings are filed under one
\* incident id, the name of a detection of that section, however long the
\* window in which detections give the same name (main.ts:52-69,
\* historian.ts:141-152).
THEOREM TimelineWholeHolds == Spec => []TimelineWhole
PROOF
<1>1. HistorianInv => TimelineWhole
  BY DEF HistorianInv, Filing, TimelineWhole, Opened
<1> QED
  BY <1>1, HistorianInvHolds, PTL

\* Only an operator who ordered a section cleared is on record as having lifted
\* its restriction (historian.ts:85-91, main.ts:78-81, 106-108).
THEOREM LiftedByOrderHolds == Spec => []LiftedByOrder
PROOF
<1>1. HistorianInv => LiftedByOrder
  BY DEF HistorianInv
<1> QED
  BY <1>1, HistorianInvHolds, PTL

\* No step takes a row from the trail, moves a detection to another incident,
\* changes who lifted a restriction or the outcome of a request
\* (historian.ts:11-18, 85-91, 121-131).
THEOREM TrailStandsHolds == Spec => TrailStands
PROOF
<1>1. HistorianInv /\ [Next]_vars => [TrailStep(db, db')]_vars
  <2> SUFFICES ASSUME HistorianInv, [Next]_vars PROVE TrailStep(db, db')
    OBVIOUS
  <2>1. CASE db' = db
    BY <2>1, TrailSame
  <2>2. ASSUME NEW k \in 1..PoolSize, k <= Len(inflight), Commit(k)
        PROVE  TrailStep(db, db')
    <3>1. inflight \in Seq(QueryType)
      BY DEF HistorianInv, TypeOK, QueryType
    <3>2. k \in DOMAIN inflight
      BY <2>2, <3>1, HistorianAssumption DEF HistorianAssumption
    <3>3. inflight[k] \in QueryType /\ inflight[k].m \in sent
      BY <3>1, <3>2 DEF HistorianInv, Sourced
    <3>4. db' = Written(inflight[k])
      BY <2>2 DEF Commit
    <3> QED
      BY <3>3, <3>4, WrittenFacts
  <2> QED
    BY <2>1, <2>2
    DEF Next, vars, Detect, Order, Obey, Tell, Wait, Resend, Receive, Fail, Restart
<1>2. HistorianInv /\ [Next]_vars =>
         [/\ db.events \subseteq db'.events
          /\ \A row \in db.restrictions :
                \E new \in db'.restrictions :
                   new.id = row.id /\ (row.cleared # None => new = row)
          /\ \A a, b \in db'.restrictions : a.id = b.id => a = b
          /\ \A k \in DOMAIN db.decisions :
                db.decisions[k].granted # None => db'.decisions[k] = db.decisions[k]
          /\ Prefix(db.audit, db'.audit)]_vars
  BY <1>1 DEF TrailStep
<1> QED
  BY <1>2, HistorianInvHolds, PTL DEF Spec, TrailStands
=============================================================================
