----------------------------- MODULE FieldProofs -----------------------------
(***************************************************************************)
(* Proofs about what the field sends, in two parts.                        *)
(*                                                                         *)
(* FieldAdmission, for any number of edge nodes, any age limit, cache of   *)
(* ids, rate limit and flaws: the ReplayGuard lets through an ordered      *)
(* feed, shuts no device out, and the health it passes on does not go      *)
(* back.                                                                   *)
(*                                                                         *)
(* EdgeVision, behind what an edge node sends, for any boxes a detector    *)
(* finds, any gauge and any patience with a track out of sight: no object  *)
(* is lost, doubled or kept quiet, and what is published of it is true.    *)
(***************************************************************************)
EXTENDS FieldAdmission, EdgeVision,
        FiniteSetTheorems, FunctionTheorems, WellFoundedInduction, TLAPS

Ids == Nat \X Nat

\* A device only builds on: what it had built it still has, and a message of a
\* new boot or with the next number comes after all of it.
Further(s) ==
    /\ node'[s].boot \in Nat /\ node'[s].seq \in Nat
    /\ Built(s)' = Built(s) \/ Feed!Before(Built(s), Built(s)')

LEMMA BuiltStays ==
    ASSUME TypeOK, NEW s \in Src, Further(s),
           NEW id \in Int \X Int, BuiltBefore(s, id)
    PROVE  BuiltBefore(s, id)'
  BY DEF TypeOK, Further, BuiltBefore, Built, Feed!Before

\* The order of messages is transitive and strict.
LEMMA BeforeOrder ==
    ASSUME NEW c \in Int \X Int, NEW d \in Int \X Int, NEW e \in Int \X Int
    PROVE  /\ Feed!Before(c, d) /\ Feed!Before(d, e) => Feed!Before(c, e)
           /\ ~Feed!Before(c, c)
           /\ Feed!Before(c, d) \/ Feed!Before(d, c) \/ c = d
  BY DEF Feed!Before

\* What a message is made of.
LEMMA MessageFacts ==
    ASSUME TypeOK, NEW s \in Src, NEW boot \in Nat, NEW seq \in Nat,
           NEW body \in Status \union {"intrusion"}, NEW flaw \in Flaws \union {"none"}
    PROVE  /\ Message(s, boot, seq, body, flaw) \in MessageType
           /\ Id(Message(s, boot, seq, body, flaw)) = <<boot, seq>>
           /\ Message(s, boot, seq, body, flaw).src = s
           /\ Message(s, boot, seq, body, flaw).body = body
  BY DEF TypeOK, Message, MessageType, Id

LEMMA IdType ==
    ASSUME NEW m \in MessageType
    PROVE  Id(m) \in Ids /\ m.src \in Src
  BY DEF Id, Ids, MessageType

LEMMA BuiltType ==
    ASSUME TypeOK, NEW s \in Src
    PROVE  Built(s) \in Ids
PROOF
<1>1. node[s] \in [state : {"up", "lost", "off"}, boot : Nat, seq : Nat,
                  will : SUBSET MessageType]
  BY DEF TypeOK
<1> QED
  BY <1>1 DEF Built, Ids

-----------------------------------------------------------------------------
LEMMA InitField == Init => FieldInv
PROOF
<1> SUFFICES ASSUME Init PROVE FieldInv
  OBVIOUS
<1>1. TypeOK
  BY DEF Init, TypeOK, NoSession, NoRate, Unknown, Status
<1>2. SessionsSumUp
  BY FieldAssumption DEF Init, SessionsSumUp, NoSession, FieldAssumption
<1>3. NothingInvented /\ HealthBehind
  BY DEF Init, NothingInvented, HealthBehind
<1> QED
  BY <1>1, <1>2, <1>3 DEF FieldInv

\* A message s may have left behind: its own, of what it has built, and about
\* its health.
Kept(s, M) ==
    /\ M \subseteq MessageType
    /\ \A m \in M : m.src = s /\ m.body \in Status /\ BuiltBefore(s, Id(m))

\* A step of one device that leaves the gateway alone: what it publishes is
\* about its health, or newer than all it had built.
LEMMA DeviceStep ==
    ASSUME FieldInv, NEW s \in Src, NEW M \in SUBSET MessageType,
           UNCHANGED <<clock, up, guardVars, health>>,
           node' = [node EXCEPT ![s] = node'[s]],
           node'[s] \in [state : {"up", "lost", "off"}, boot : Nat, seq : Nat,
                         will : SUBSET MessageType],
           retained' = [retained EXCEPT ![s] = retained'[s]],
           Further(s), Kept(s, node[s].will)', Kept(s, retained[s])',
           wire' \subseteq wire \union M,
           \A m \in M : /\ m.src = s /\ BuiltBefore(s, Id(m))'
                        /\ m.body \notin Status => Feed!Before(Built(s), Id(m))
    PROVE  FieldInv'
PROOF
<1> USE DEF FieldInv
<1>1. \A x \in Src : Further(x)
  BY DEF Further, Built, TypeOK
<1>2. \A x \in Src, id \in Int \X Int : BuiltBefore(x, id) => BuiltBefore(x, id)'
  BY <1>1, BuiltStays
<1>3. TypeOK'
  BY DEF TypeOK, Kept, guardVars
<1>4. SessionsSumUp'
  BY DEF SessionsSumUp, guardVars, Last
<1>5. NothingInvented'
  <2>1. ASSUME NEW m \in wire'
        PROVE  BuiltBefore(m.src, Id(m))'
    <3>1. CASE m \in wire
      <4>1. m \in MessageType
        BY <3>1 DEF TypeOK
      <4>2. Id(m) \in Int \X Int /\ m.src \in Src
        BY <4>1, IdType DEF Ids
      <4> QED
        BY <1>2, <3>1, <4>2 DEF NothingInvented
    <3>2. CASE m \in M
      BY <3>2
    <3> QED
      BY <3>1, <3>2
  <2>2. ASSUME NEW x \in Src, NEW m \in retained'[x] \union node'[x].will
        PROVE  m.src = x /\ BuiltBefore(x, Id(m))'
    <3>1. CASE x = s
      BY <3>1 DEF Kept
    <3>2. CASE x # s
      <4>1. m \in retained[x] \union node[x].will
        BY <3>2 DEF TypeOK
      <4>2. m \in MessageType
        BY <4>1 DEF TypeOK
      <4>3. Id(m) \in Int \X Int
        BY <4>2, IdType DEF Ids
      <4> QED
        BY <1>2, <4>1, <4>3 DEF NothingInvented
    <3> QED
      BY <3>1, <3>2
  <2>3. ASSUME NEW x \in Src, NEW d \in admitted'[x]
        PROVE  BuiltBefore(x, d)'
    <3>1. d \in admitted[x] /\ d \in Int \X Int
      BY DEF TypeOK, guardVars
    <3> QED
      BY <1>2, <3>1 DEF NothingInvented
  <2> QED
    BY <2>1, <2>2, <2>3 DEF NothingInvented
<1>6. HealthBehind'
  <2> SUFFICES ASSUME NEW x \in Src
               PROVE  /\ \A m \in retained'[x] \union node'[x].will : m.body \in Status
                      /\ health[x] # Unknown =>
                           /\ BuiltBefore(x, health[x].id)'
                           /\ session[x] # NoSession =>
                                health[x].id = Last(x) \/ Feed!Before(health[x].id, Last(x))
                           /\ session[x] = NoSession =>
                                \A m \in wire' : m.src = x /\ m.body \notin Status
                                                 => Feed!Before(health[x].id, Id(m))
    BY DEF HealthBehind, guardVars, Last
  <2>1. \A m \in retained'[x] \union node'[x].will : m.body \in Status
    <3>1. CASE x = s
      BY <3>1 DEF Kept
    <3>2. CASE x # s
      BY <3>2 DEF HealthBehind, TypeOK
    <3> QED
      BY <3>1, <3>2
  <2>2. ASSUME health[x] # Unknown
        PROVE  /\ BuiltBefore(x, health[x].id)
               /\ BuiltBefore(x, health[x].id)'
               /\ health[x].id \in Int \X Int
    BY <1>2, <2>2 DEF HealthBehind, TypeOK
  <2>3. ASSUME health[x] # Unknown, session[x] = NoSession, NEW m \in wire',
               m.src = x, m.body \notin Status
        PROVE  Feed!Before(health[x].id, Id(m))
    <3>1. CASE m \in wire
      BY <2>3, <3>1 DEF HealthBehind
    <3>2. CASE m \in M
      <4>1. Feed!Before(Built(x), Id(m)) /\ Id(m) \in Int \X Int
        BY <2>3, <3>2, IdType DEF Ids
      <4>2. Built(x) \in Int \X Int
        BY BuiltType DEF Ids
      <4> QED
        BY <2>2, <2>3, <4>1, <4>2, BeforeOrder DEF BuiltBefore
    <3> QED
      BY <3>1, <3>2
  <2> QED
    BY <2>1, <2>2, <2>3 DEF HealthBehind
<1> QED
  BY <1>3, <1>4, <1>5, <1>6

\* What the ReplayGuard accepts comes after the last message of the session.
LEMMA AcceptedIsNewer ==
    ASSUME TypeOK, NEW m \in MessageType, Check(m) = "accept", session[m.src] # NoSession
    PROVE  Feed!Before(Last(m.src), Id(m))
PROOF
<1> DEFINE st == session[m.src]
<1>1. /\ m.src \in Src /\ m.boot \in Nat /\ m.seq \in Nat
      /\ st.boot \in Int /\ st.lastSeq \in Int
  BY DEF TypeOK, MessageType
<1>2. ~(m.boot < st.boot) /\ ~(m.boot = st.boot /\ m.seq <= st.lastSeq)
  BY <1>1 DEF Check
<1> QED
  BY <1>1, <1>2 DEF Feed!Before, Last, Id

\* And the other way round: a message that is fresh, has not passed and comes
\* after the session is accepted.
LEMMA NewerIsAccepted ==
    ASSUME TypeOK, SessionsSumUp, NEW m \in MessageType,
           ~Stale(m), Id(m) \notin admitted[m.src],
           session[m.src] # NoSession => Feed!Before(Last(m.src), Id(m))
    PROVE  Check(m) = "accept"
PROOF
<1> DEFINE st == session[m.src]
<1>1. /\ m.src \in Src /\ m.boot \in Nat /\ m.seq \in Nat
      /\ st.boot \in Int /\ st.lastSeq \in Int
  BY DEF TypeOK, MessageType
<1>2. ~ \E k \in DOMAIN st.order : st.order[k] = Id(m)
  BY <1>1 DEF SessionsSumUp
<1>3. st = NoSession \/ m.boot > st.boot \/ (m.boot = st.boot /\ m.seq > st.lastSeq)
  BY <1>1 DEF Feed!Before, Last, Id
<1> QED
  BY <1>1, <1>2, <1>3 DEF Check

\* The cache of ids after an accepted message: no longer than it may be, and
\* made of ids it had and the new one.
LEMMA RememberedFacts ==
    ASSUME TypeOK, SessionsSumUp, NEW m \in MessageType
    PROVE  /\ Remembered(m) \in [boot : Nat, lastSeq : Nat, order : Seq(Ids)]
           /\ Remembered(m).boot = m.boot /\ Remembered(m).lastSeq = m.seq
           /\ Len(Remembered(m).order) <= IdCacheSize
           /\ \A k \in DOMAIN Remembered(m).order :
                 Remembered(m).order[k] = Id(m)
                 \/ Remembered(m).order[k] \in admitted[m.src]
PROOF
<1> DEFINE old == session[m.src].order
           all == Append(old, Id(m))
<1>1. m.src \in Src /\ m.boot \in Nat /\ m.seq \in Nat /\ Id(m) \in Ids
  BY IdType DEF MessageType
<1>2. old \in Seq(Ids)
  BY <1>1 DEF TypeOK, Ids
<1>3. Len(old) <= IdCacheSize /\ \A k \in DOMAIN old : old[k] \in admitted[m.src]
  BY <1>1 DEF SessionsSumUp
<1>4. IdCacheSize \in Nat
  BY FieldAssumption DEF FieldAssumption
<1>5. /\ all \in Seq(Ids) /\ Len(all) = Len(old) + 1 /\ all[Len(all)] = Id(m)
      /\ \A k \in 1..Len(old) : all[k] = old[k]
  BY <1>1, <1>2
<1> HIDE DEF old
<1>6. \A k \in DOMAIN all : all[k] = Id(m) \/ all[k] \in admitted[m.src]
  BY <1>2, <1>3, <1>5
<1> HIDE DEF all
<1>7. /\ Tail(all) \in Seq(Ids) /\ Len(Tail(all)) = Len(all) - 1
      /\ \A k \in DOMAIN Tail(all) : Tail(all)[k] = all[k + 1] /\ k + 1 \in DOMAIN all
  BY <1>2, <1>5
<1> DEFINE kept == IF Len(all) > IdCacheSize THEN Tail(all) ELSE all
<1>8. kept \in Seq(Ids) /\ Len(kept) <= IdCacheSize
  BY <1>2, <1>3, <1>4, <1>5, <1>7
<1>9. \A k \in DOMAIN kept : kept[k] = Id(m) \/ kept[k] \in admitted[m.src]
  BY <1>6, <1>7
<1>10. Remembered(m) = [boot |-> m.boot, lastSeq |-> m.seq, order |-> kept]
  BY DEF Remembered, all, old
<1> HIDE DEF kept
<1> QED
  BY <1>1, <1>8, <1>9, <1>10

\* What taking a message does to the guard: nothing, or one more message passes,
\* after all that had.
LEMMA ReceiveFacts ==
    ASSUME FieldInv, NEW m \in wire, NEW again \in BOOLEAN, Receive(m, again)
    PROVE  /\ m \in MessageType
           /\ wire' \subseteq wire /\ UNCHANGED <<clock, nodeVars, up>>
           /\ rate' \in [Src -> [windowStart : Int, count : Nat]]
           /\ \/ UNCHANGED <<session, admitted, health>>
              \/ /\ session[m.src] # NoSession => Feed!Before(Last(m.src), Id(m))
                 /\ session' = [session EXCEPT ![m.src] = Remembered(m)]
                 /\ admitted' = [admitted EXCEPT ![m.src] = @ \union {Id(m)}]
                 /\ health' = IF m.body \in Status
                              THEN [health EXCEPT ![m.src] = [status |-> m.body, id |-> Id(m)]]
                              ELSE health
PROOF
<1>1. m \in MessageType /\ m.src \in Src
  BY IdType DEF FieldInv, TypeOK
<1>2. rate' \in [Src -> [windowStart : Int, count : Nat]]
  <2>1. Counted(m.src) \in [windowStart : Int, count : Nat]
    <3> DEFINE r == rate[m.src]
               n == IF r.count > RateLimit THEN r.count ELSE r.count + 1
    <3>1. r \in [windowStart : Int, count : Nat] /\ clock \in Int
      BY <1>1 DEF FieldInv, TypeOK
    <3>2. n \in Nat
      BY <3>1
    <3>3. Counted(m.src) = IF r = NoRate \/ clock - r.windowStart >= 1
                           THEN [windowStart |-> clock, count |-> 1] ELSE [r EXCEPT !.count = n]
      BY DEF Counted
    <3> HIDE DEF r, n
    <3> QED
      BY <3>1, <3>2, <3>3
  <2> QED
    BY <1>1, <2>1 DEF Receive, FieldInv, TypeOK
<1>3. CASE Stage(m) = "none"
  <2>1. Check(m) = "accept"
    BY <1>3 DEF Stage, BeforeRate
  <2> QED
    BY <1>1, <1>2, <1>3, <2>1, AcceptedIsNewer DEF Receive, FieldInv
<1>4. CASE Stage(m) # "none"
  BY <1>1, <1>2, <1>4 DEF Receive
<1> QED
  BY <1>3, <1>4

\* A message that passes leaves the session at the head of what has passed.
LEMMA ReceiveField ==
    ASSUME FieldInv, NEW m \in wire, NEW again \in BOOLEAN, Receive(m, again)
    PROVE  FieldInv'
PROOF
<1> USE DEF FieldInv
<1> DEFINE s == m.src
<1>1. /\ m \in MessageType /\ wire' \subseteq wire /\ UNCHANGED <<clock, nodeVars, up>>
      /\ rate' \in [Src -> [windowStart : Int, count : Nat]]
  BY ReceiveFacts
<1>2. s \in Src /\ Id(m) \in Ids /\ m.boot \in Nat /\ m.seq \in Nat /\ Id(m) = <<m.boot, m.seq>>
  BY <1>1, IdType DEF MessageType, Id
<1>3. BuiltBefore(s, Id(m))
  BY DEF NothingInvented
<1>4. \A id : \A x \in Src : BuiltBefore(x, id)' <=> BuiltBefore(x, id)
  BY <1>1 DEF BuiltBefore, Built, nodeVars
<1>5. ASSUME \A x \in Src : admitted'[x] \subseteq admitted[x] \union
                               (IF x = s THEN {Id(m)} ELSE {})
      PROVE  NothingInvented'
  <2>1. ASSUME NEW w \in wire'
        PROVE  BuiltBefore(w.src, Id(w))'
    <3>1. w \in wire /\ w.src \in Src
      BY <1>1 DEF TypeOK, MessageType
    <3> QED
      BY <1>4, <3>1 DEF NothingInvented
  <2>2. ASSUME NEW x \in Src, NEW w \in retained'[x] \union node'[x].will
        PROVE  w.src = x /\ BuiltBefore(x, Id(w))'
    BY <1>1, <1>4 DEF NothingInvented, nodeVars
  <2>3. ASSUME NEW x \in Src, NEW d \in admitted'[x]
        PROVE  BuiltBefore(x, d)'
    BY <1>3, <1>4, <1>5 DEF NothingInvented
  <2> QED
    BY <2>1, <2>2, <2>3 DEF NothingInvented
<1>6. CASE UNCHANGED <<session, admitted, health>>
  <2>1. TypeOK' /\ SessionsSumUp'
    BY <1>1, <1>6 DEF TypeOK, SessionsSumUp, nodeVars, Last
  <2>2. NothingInvented'
    BY <1>6, <1>5 DEF TypeOK
  <2>3. HealthBehind'
    BY <1>1, <1>4, <1>6 DEF HealthBehind, nodeVars, Last
  <2> QED
    BY <2>1, <2>2, <2>3
<1>7. ASSUME session[s] # NoSession => Feed!Before(Last(s), Id(m)),
             session' = [session EXCEPT ![s] = Remembered(m)],
             admitted' = [admitted EXCEPT ![s] = @ \union {Id(m)}],
             health' = IF m.body \in Status
                       THEN [health EXCEPT ![s] = [status |-> m.body, id |-> Id(m)]]
                       ELSE health
      PROVE  FieldInv'
  <2> DEFINE new == Remembered(m)
  <2>1. /\ new \in [boot : Nat, lastSeq : Nat, order : Seq(Ids)]
        /\ new.boot = m.boot /\ new.lastSeq = m.seq /\ Len(new.order) <= IdCacheSize
        /\ \A k \in DOMAIN new.order : new.order[k] = Id(m) \/ new.order[k] \in admitted[s]
    BY <1>1, RememberedFacts
  <2>2. session' = [session EXCEPT ![s] = new]
    BY <1>7
  <2> HIDE DEF new
  <2>3. /\ session'[s] = new /\ Last(s)' = Id(m)
        /\ new # NoSession
        /\ \A x \in Src : x # s => session'[x] = session[x] /\ Last(x)' = Last(x)
    BY <1>2, <2>1, <2>2 DEF TypeOK, Last, NoSession
  <2>4. /\ admitted'[s] = admitted[s] \union {Id(m)}
        /\ \A x \in Src : x # s => admitted'[x] = admitted[x]
    BY <1>2, <1>7 DEF TypeOK
  <2>5. TypeOK'
    <3>1. session' \in [Src -> [boot : Int, lastSeq : Int, order : Seq(Nat \X Nat)]]
      BY <1>2, <2>1, <2>2 DEF TypeOK, Ids
    <3>2. admitted' \in [Src -> SUBSET (Nat \X Nat)]
      BY <1>2, <1>7 DEF TypeOK, Ids
    <3>3. health' \in [Src -> [status : Status \union {"unknown"}, id : Int \X Int]]
      <4>1. Id(m) \in Int \X Int
        BY <1>2 DEF Ids
      <4> QED
        BY <1>2, <1>7, <4>1 DEF TypeOK
    <3> QED
      BY <1>1, <3>1, <3>2, <3>3 DEF TypeOK, nodeVars
  <2>6. \A d \in admitted[s] : d \in Int \X Int /\ Feed!Before(d, Id(m))
    <3>1. ASSUME NEW d \in admitted[s]
          PROVE  d \in Int \X Int /\ Feed!Before(d, Id(m))
      <4>1. session[s] # NoSession
        BY <1>2 DEF SessionsSumUp
      <4>2. Last(s) \in admitted[s] /\ (d = Last(s) \/ Feed!Before(d, Last(s)))
        BY <1>2, <4>1 DEF SessionsSumUp
      <4>3. d \in Int \X Int /\ Last(s) \in Int \X Int /\ Id(m) \in Int \X Int
        BY <1>2, <4>2 DEF TypeOK, Ids
      <4> QED
        BY <1>7, <4>1, <4>2, <4>3, BeforeOrder
    <3> QED
      BY <3>1
  <2>7. SessionsSumUp'
    <3> SUFFICES ASSUME NEW x \in Src
                 PROVE  /\ Len(session'[x].order) <= IdCacheSize
                        /\ \A k \in DOMAIN session'[x].order :
                              session'[x].order[k] \in admitted'[x]
                        /\ session'[x] = NoSession => admitted'[x] = {}
                        /\ session'[x] # NoSession =>
                              /\ Last(x)' \in admitted'[x]
                              /\ \A d \in admitted'[x] : d = Last(x)' \/ Feed!Before(d, Last(x)')
      BY DEF SessionsSumUp, Feed!Before
    <3>1. CASE x = s
      BY <2>1, <2>3, <2>4, <2>6, <3>1
    <3>2. CASE x # s
      BY <2>3, <2>4, <3>2 DEF SessionsSumUp
    <3> QED
      BY <3>1, <3>2
  <2>8. NothingInvented'
    BY <1>2, <1>5, <2>4
  <2>9. HealthBehind'
    <3> SUFFICES ASSUME NEW x \in Src
                 PROVE  /\ \A r \in retained[x] \union node[x].will : r.body \in Status
                        /\ health'[x] # Unknown =>
                             /\ BuiltBefore(x, health'[x].id)
                             /\ session'[x] # NoSession =>
                                  health'[x].id = Last(x)' \/ Feed!Before(health'[x].id, Last(x)')
                             /\ session'[x] = NoSession =>
                                  \A w \in wire' : w.src = x /\ w.body \notin Status
                                                   => Feed!Before(health'[x].id, Id(w))
      BY <1>1, <1>4 DEF HealthBehind, nodeVars, Feed!Before
    <3>1. \A r \in retained[x] \union node[x].will : r.body \in Status
      BY DEF HealthBehind
    <3>2. CASE x # s
      <4>1. health'[x] = health[x]
        BY <1>2, <1>7, <3>2 DEF TypeOK
      <4> QED
        BY <1>1, <2>3, <3>1, <3>2, <4>1 DEF HealthBehind
    <3>3. CASE x = s /\ m.body \in Status
      <4>1. health'[s].id = Id(m)
        BY <1>2, <1>7, <3>3 DEF TypeOK
      <4> QED
        BY <1>3, <2>3, <3>1, <3>3, <4>1
    <3>4. CASE x = s /\ m.body \notin Status
      <4>1. health'[s] = health[s]
        BY <1>7, <3>4
      <4>2. ASSUME health[s] # Unknown
            PROVE  BuiltBefore(s, health[s].id) /\ Feed!Before(health[s].id, Id(m))
        <5>1. BuiltBefore(s, health[s].id)
          BY <1>2, <4>2 DEF HealthBehind
        <5>2. CASE session[s] = NoSession
          BY <1>2, <3>4, <4>2, <5>2 DEF HealthBehind
        <5>3. CASE session[s] # NoSession
          <6>1. health[s].id = Last(s) \/ Feed!Before(health[s].id, Last(s))
            BY <1>2, <4>2, <5>3 DEF HealthBehind
          <6>2. /\ health[s] \in [status : Status \union {"unknown"}, id : Int \X Int]
                /\ session[s] \in [boot : Int, lastSeq : Int, order : Seq(Nat \X Nat)]
            BY <1>2 DEF TypeOK
          <6>3. /\ health[s].id \in Int \X Int /\ Last(s) \in Int \X Int
                /\ Id(m) \in Int \X Int
            BY <1>2, <6>2 DEF Last, Ids
          <6> QED
            BY <1>7, <5>3, <6>1, <6>3, <5>1, BeforeOrder
        <5> QED
          BY <5>1, <5>2, <5>3
      <4> QED
        BY <2>3, <3>1, <3>4, <4>1, <4>2
    <3> QED
      BY <3>2, <3>3, <3>4
  <2> QED
    BY <2>5, <2>7, <2>8, <2>9
<1> QED
  BY <1>6, <1>7, ReceiveFacts

\* What a device builds next it has built then, and comes after all it had.
LEMMA BuildNext ==
    ASSUME TypeOK, NEW s \in Src, NEW boot \in Nat, NEW seq \in Nat,
           node'[s].boot = boot, node'[s].seq = seq,
           boot > node[s].boot \/ (boot = node[s].boot /\ seq > node[s].seq)
    PROVE  /\ Further(s)
           /\ BuiltBefore(s, <<boot, seq>>)'
           /\ Feed!Before(Built(s), <<boot, seq>>)
PROOF
<1>1. node[s] \in [state : {"up", "lost", "off"}, boot : Nat, seq : Nat, will : SUBSET MessageType]
  BY DEF TypeOK
<1>2. Feed!Before(Built(s), <<boot, seq>>) /\ Built(s)' = <<boot, seq>>
  BY <1>1 DEF Built, Feed!Before
<1> QED
  BY <1>2 DEF Further, BuiltBefore

\* What the steps of a running node do to its record.
NodeType == [state : {"up", "lost", "off"}, boot : Nat, seq : Nat, will : SUBSET MessageType]

LEMMA NodeChanges ==
    ASSUME node \in [Src -> NodeType], NEW s \in Src
    PROVE  /\ \/ node' = [node EXCEPT ![s].seq = @ + 1]
              \/ node' = [node EXCEPT ![s].state = "off", ![s].seq = @ + 1]
              => /\ node' = [node EXCEPT ![s] = node'[s]] /\ node'[s] \in NodeType
                 /\ node'[s].boot = node[s].boot /\ node'[s].seq = node[s].seq + 1
                 /\ node'[s].will = node[s].will
           /\ \/ node' = [node EXCEPT ![s].state = "off"]
              \/ node' = [node EXCEPT ![s].state = "lost"]
              => /\ node' = [node EXCEPT ![s] = node'[s]] /\ node'[s] \in NodeType
                 /\ node'[s].boot = node[s].boot /\ node'[s].seq = node[s].seq
                 /\ node'[s].will = node[s].will
PROOF
<1>1. ASSUME node' = [node EXCEPT ![s].seq = @ + 1]
      PROVE  /\ node' = [node EXCEPT ![s] = node'[s]] /\ node'[s] \in NodeType
             /\ node'[s].boot = node[s].boot /\ node'[s].seq = node[s].seq + 1
             /\ node'[s].will = node[s].will
  BY <1>1 DEF NodeType
<1>2. ASSUME node' = [node EXCEPT ![s].state = "off", ![s].seq = @ + 1]
      PROVE  /\ node' = [node EXCEPT ![s] = node'[s]] /\ node'[s] \in NodeType
             /\ node'[s].boot = node[s].boot /\ node'[s].seq = node[s].seq + 1
             /\ node'[s].will = node[s].will
  BY <1>2 DEF NodeType
<1>3. ASSUME NEW st \in {"off", "lost"}, node' = [node EXCEPT ![s].state = st]
      PROVE  /\ node' = [node EXCEPT ![s] = node'[s]] /\ node'[s] \in NodeType
             /\ node'[s].boot = node[s].boot /\ node'[s].seq = node[s].seq
             /\ node'[s].will = node[s].will
  BY <1>3 DEF NodeType
<1> QED
  BY <1>1, <1>2, <1>3

LEMMA StepField == FieldInv /\ [Next]_vars => FieldInv'
PROOF
<1> SUFFICES ASSUME FieldInv, [Next]_vars PROVE FieldInv'
  OBVIOUS
<1> USE DEF FieldInv
<1>1. /\ clock \in Nat /\ wire \subseteq MessageType /\ node \in [Src -> NodeType]
      /\ \A s \in Src : /\ node[s] \in NodeType
                        /\ Kept(s, node[s].will) /\ Kept(s, retained[s])
  BY DEF TypeOK, Kept, NothingInvented, HealthBehind, NodeType
<1>2. ASSUME NEW s \in Src, NEW body \in Status \union {"intrusion"},
             NEW flaw \in Flaws \union {"none"}, Send(s, body, flaw),
             node' = [node EXCEPT ![s] = node'[s]], node'[s] \in NodeType,
             node'[s].boot = node[s].boot, node'[s].seq = node[s].seq + 1,
             node'[s].will = node[s].will,
             UNCHANGED <<clock, up, guardVars, health>>
      PROVE  FieldInv'
  <2>1. node[s].boot \in Nat /\ node[s].seq \in Nat /\ node[s].seq + 1 \in Nat
    BY <1>1 DEF NodeType
  <2>2. PICK m \in MessageType : /\ m = Message(s, node[s].boot, node[s].seq + 1, body, flaw)
                                 /\ Id(m) = <<node[s].boot, node[s].seq + 1>>
                                 /\ m.src = s /\ m.body = body
    <3> DEFINE q == node[s].seq + 1
               b == node[s].boot
    <3> HIDE DEF q, b
    <3>1. q \in Nat /\ b \in Nat
      BY <2>1 DEF q, b
    <3>2. \E m \in MessageType : /\ m = Message(s, b, q, body, flaw) /\ Id(m) = <<b, q>>
                                 /\ m.src = s /\ m.body = body
      BY <3>1, MessageFacts
    <3> QED
      BY <3>2 DEF q, b
  <2>3. Further(s) /\ BuiltBefore(s, Id(m))' /\ Feed!Before(Built(s), Id(m))
    BY <1>2, <2>1, <2>2, BuildNext
  <2>4. /\ wire' \subseteq wire \union {m}
        /\ retained' = IF body \in Status THEN [retained EXCEPT ![s] = {m}] ELSE retained
    BY <1>2, <2>2 DEF Send, PublishAll
  <2>5. Kept(s, node[s].will)'
    BY <1>1, <1>2, <2>3, BuiltStays, IdType DEF Kept, Ids
  <2>6. Kept(s, retained[s])'
    <3>1. CASE body \in Status
      <4>1. retained'[s] = {m}
        BY <2>4, <3>1 DEF TypeOK
      <4> QED
        BY <2>2, <2>3, <3>1, <4>1 DEF Kept
    <3>2. CASE body \notin Status
      BY <1>1, <2>3, <2>4, <3>2, BuiltStays, IdType DEF Kept, Ids
    <3> QED
      BY <3>1, <3>2
  <2>7. retained' = [retained EXCEPT ![s] = retained'[s]]
    BY <2>4 DEF TypeOK
  <2>8. \A w \in {m} : /\ w.src = s /\ BuiltBefore(s, Id(w))'
                       /\ w.body \notin Status => Feed!Before(Built(s), Id(w))
    BY <2>2, <2>3
  <2> QED
    BY <1>2, <2>3, <2>4, <2>5, <2>6, <2>7, <2>8, DeviceStep DEF NodeType
<1>3. ASSUME NEW s \in Src, StartNode(s)
      PROVE  FieldInv'
  <2>1. PICK m \in MessageType : /\ m = Message(s, clock, 1, "offline", "none")
                                 /\ Id(m) = <<clock, 1>> /\ m.src = s /\ m.body = "offline"
    BY <1>1, MessageFacts DEF Status
  <2>2. /\ node'[s] = [state |-> "up", boot |-> clock, seq |-> 1, will |-> {m}]
        /\ node' = [node EXCEPT ![s] = node'[s]]
    BY <1>3, <2>1 DEF StartNode, TypeOK
  <2>3. node[s].boot < clock
    BY <1>3 DEF StartNode
  <2>4. node'[s] \in NodeType /\ node'[s].will = {m}
    BY <1>1, <2>1, <2>2 DEF NodeType
  <2>5. Further(s) /\ BuiltBefore(s, Id(m))'
    <3>1. node'[s].boot = clock /\ node'[s].seq = 1
      BY <2>2
    <3>2. clock > node[s].boot
      BY <1>1, <2>3 DEF NodeType
    <3> QED
      BY <1>1, <2>1, <3>1, <3>2, BuildNext
  <2>6. Kept(s, node[s].will)'
    BY <2>1, <2>4, <2>5 DEF Kept, Status
  <2>7. Kept(s, retained[s])'
    BY <1>1, <1>3, <2>5, BuiltStays, IdType DEF StartNode, Kept, Ids
  <2>8. retained' = [retained EXCEPT ![s] = retained'[s]]
    BY <1>3 DEF StartNode, TypeOK
  <2>9. {} \in SUBSET MessageType /\ wire' \subseteq wire \union {}
    BY <1>3 DEF StartNode
  <2> QED
    BY <1>3, <2>2, <2>4, <2>5, <2>6, <2>7, <2>8, <2>9, DeviceStep DEF StartNode, NodeType
<1>4. ASSUME NEW s \in Src, Report(s)
      PROVE  FieldInv'
  <2>1. /\ node' = [node EXCEPT ![s] = node'[s]] /\ node'[s] \in NodeType
        /\ node'[s].boot = node[s].boot /\ node'[s].seq = node[s].seq + 1
        /\ node'[s].will = node[s].will
    BY <1>1, <1>4, NodeChanges DEF Report
  <2>2. CASE \E status \in Reported : Send(s, status, "none")
    <3>1. Reported \subseteq Status
      BY FieldAssumption DEF FieldAssumption
    <3> QED
      BY <1>2, <1>4, <2>1, <2>2, <3>1 DEF Report
  <2>3. CASE \E flaw \in Flaws \union {"none"} : Send(s, "intrusion", flaw)
    BY <1>2, <1>4, <2>1, <2>3 DEF Report
  <2> QED
    BY <1>4, <2>2, <2>3 DEF Report
<1>5. ASSUME NEW s \in Src, StopNode(s)
      PROVE  FieldInv'
  <2>1. /\ node' = [node EXCEPT ![s] = node'[s]] /\ node'[s] \in NodeType
        /\ node'[s].boot = node[s].boot /\ node'[s].seq = node[s].seq + 1
        /\ node'[s].will = node[s].will
    BY <1>1, <1>5, NodeChanges DEF StopNode
  <2> QED
    BY <1>2, <1>5, <2>1 DEF StopNode, Status
<1>6. ASSUME NEW s \in Src, CrashNode(s) \/ PublishWill(s)
      PROVE  FieldInv'
  <2>1. /\ Built(s)' = Built(s) /\ node'[s] \in NodeType /\ node'[s].will = node[s].will
        /\ Further(s) /\ node' = [node EXCEPT ![s] = node'[s]]
    <3>1. /\ node' = [node EXCEPT ![s] = node'[s]] /\ node'[s] \in NodeType
          /\ node'[s].boot = node[s].boot /\ node'[s].seq = node[s].seq
          /\ node'[s].will = node[s].will
      BY <1>1, <1>6, NodeChanges DEF CrashNode, PublishWill
    <3> QED
      BY <3>1 DEF Built, Further, NodeType
  <2>2. Kept(s, node[s].will)' /\ \A m \in node[s].will : m.src = s /\ BuiltBefore(s, Id(m))'
    BY <1>1, <2>1, BuiltStays, IdType DEF Kept, Ids
  <2>3. /\ retained' = [retained EXCEPT ![s] = retained'[s]]
        /\ retained'[s] \in {retained[s], node[s].will}
    BY <1>6 DEF CrashNode, PublishWill, TypeOK
  <2>4. Kept(s, retained[s])'
    BY <1>1, <2>1, <2>2, <2>3, BuiltStays, IdType DEF Kept, Ids
  <2>5. /\ UNCHANGED <<clock, up, guardVars, health>>
        /\ wire' \subseteq wire \union node[s].will
    BY <1>6 DEF CrashNode, PublishWill, PublishAll
  <2>6. /\ node[s].will \in SUBSET MessageType
        /\ \A m \in node[s].will : m.body \in Status
    BY <1>1 DEF Kept, NodeType
  <2> QED
    BY <2>1, <2>2, <2>3, <2>4, <2>5, <2>6, DeviceStep DEF NodeType
<1>7. ASSUME NEW m \in wire, NEW again \in BOOLEAN, Receive(m, again)
      PROVE  FieldInv'
  BY <1>7, ReceiveField
<1>8. \A id : \A x \in Src : UNCHANGED node => (BuiltBefore(x, id)' <=> BuiltBefore(x, id))
  BY DEF BuiltBefore, Built
<1>9. ASSUME Reconnect \/ CrashGateway \/ StartGateway
      PROVE  FieldInv'
  <2>1. UNCHANGED <<clock, nodeVars, health>>
    BY <1>9 DEF Reconnect, CrashGateway, StartGateway
  <2>2. ASSUME NEW m \in wire'
        PROVE  /\ m \in MessageType /\ m.body \in Status /\ BuiltBefore(m.src, Id(m))'
    <3>1. PICK s \in Src : m \in retained[s]
      BY <1>9, <2>2 DEF Reconnect, CrashGateway, StartGateway
    <3> QED
      BY <1>1, <1>8, <2>1, <3>1 DEF Kept, nodeVars
  <2>3. \/ UNCHANGED guardVars
        \/ /\ session' = [s \in Src |-> NoSession]
           /\ rate' = [s \in Src |-> NoRate]
           /\ admitted' = [s \in Src |-> {}]
    BY <1>9 DEF Reconnect, CrashGateway, StartGateway
  <2>4. TypeOK'
    <3>1. up' \in BOOLEAN
      BY <1>9 DEF Reconnect, CrashGateway, StartGateway, TypeOK
    <3>2. wire' \subseteq MessageType
      BY <2>2
    <3>3. /\ session' \in [Src -> [boot : Int, lastSeq : Int, order : Seq(Nat \X Nat)]]
          /\ rate' \in [Src -> [windowStart : Int, count : Nat]]
          /\ admitted' \in [Src -> SUBSET (Nat \X Nat)]
      <4>1. NoSession \in [boot : Int, lastSeq : Int, order : Seq(Nat \X Nat)]
        BY DEF NoSession
      <4>2. NoRate \in [windowStart : Int, count : Nat]
        BY DEF NoRate
      <4>3. CASE UNCHANGED guardVars
        BY <4>3 DEF TypeOK, guardVars
      <4>4. CASE /\ session' = [s \in Src |-> NoSession]
                 /\ rate' = [s \in Src |-> NoRate]
                 /\ admitted' = [s \in Src |-> {}]
        BY <4>1, <4>2, <4>4
      <4> QED
        BY <2>3, <4>3, <4>4
    <3> QED
      BY <2>1, <3>1, <3>2, <3>3 DEF TypeOK, nodeVars
  <2>5. SessionsSumUp'
    <3>1. CASE UNCHANGED guardVars
      BY <3>1 DEF SessionsSumUp, guardVars, Last
    <3>2. CASE /\ session' = [s \in Src |-> NoSession]
               /\ admitted' = [s \in Src |-> {}]
      <4>1. Len(NoSession.order) = 0 /\ DOMAIN NoSession.order = {} /\ IdCacheSize \in Nat
        BY FieldAssumption DEF NoSession, FieldAssumption
      <4> QED
        BY <3>2, <4>1 DEF SessionsSumUp
    <3> QED
      BY <2>3, <3>1, <3>2
  <2>6. NothingInvented'
    <3>1. ASSUME NEW x \in Src, NEW d \in admitted'[x]
          PROVE  BuiltBefore(x, d)'
      BY <1>8, <2>1, <2>3 DEF NothingInvented, nodeVars, guardVars
    <3>2. ASSUME NEW x \in Src, NEW m \in retained'[x] \union node'[x].will
          PROVE  m.src = x /\ BuiltBefore(x, Id(m))'
      BY <1>8, <2>1 DEF NothingInvented, nodeVars
    <3> QED
      BY <2>2, <3>1, <3>2 DEF NothingInvented
  <2>7. HealthBehind'
    <3> SUFFICES ASSUME NEW x \in Src
                 PROVE  /\ \A m \in retained'[x] \union node'[x].will : m.body \in Status
                        /\ health'[x] # Unknown =>
                             /\ BuiltBefore(x, health[x].id)'
                             /\ session'[x] # NoSession =>
                                  health'[x].id = Last(x)' \/ Feed!Before(health'[x].id, Last(x)')
                             /\ session'[x] = NoSession =>
                                  \A m \in wire' : m.src = x /\ m.body \notin Status
                                                   => Feed!Before(health'[x].id, Id(m))
      BY DEF HealthBehind, Feed!Before
    <3>1. session'[x] # NoSession => session'[x] = session[x] /\ Last(x)' = Last(x)
      BY <2>3 DEF guardVars, Last
    <3>2. /\ health'[x] = health[x] /\ retained'[x] = retained[x] /\ node'[x] = node[x]
      BY <2>1 DEF nodeVars
    <3>3. \A m \in retained'[x] \union node'[x].will : m.body \in Status
      BY <3>2 DEF HealthBehind
    <3>4. health[x] # Unknown => BuiltBefore(x, health[x].id)'
      BY <2>1 DEF HealthBehind, BuiltBefore, Built, nodeVars
    <3>5. health[x] # Unknown /\ session[x] # NoSession
             => health[x].id = Last(x) \/ Feed!Before(health[x].id, Last(x))
      BY DEF HealthBehind
    <3> QED
      BY <2>2, <3>1, <3>2, <3>3, <3>4, <3>5
  <2> QED
    BY <2>4, <2>5, <2>6, <2>7
<1>10. ASSUME RestartAts \/ Second \/ UNCHANGED vars
       PROVE  FieldInv'
  <2>1. /\ UNCHANGED <<nodeVars, wire, up, guardVars>>
        /\ clock' \in Nat
        /\ UNCHANGED health \/ health' = [s \in Src |-> Unknown]
    BY <1>1, <1>10 DEF RestartAts, Second, vars
  <2>2. TypeOK' /\ SessionsSumUp'
    <3>1. health' \in [Src -> [status : Status \union {"unknown"}, id : Int \X Int]]
      <4>1. Unknown \in [status : Status \union {"unknown"}, id : Int \X Int]
        BY DEF Unknown
      <4> QED
        BY <2>1, <4>1 DEF TypeOK
    <3>2. TypeOK'
      BY <2>1, <3>1 DEF TypeOK, nodeVars, guardVars
    <3>3. SessionsSumUp'
      BY <2>1 DEF SessionsSumUp, guardVars, Last
    <3> QED
      BY <3>2, <3>3
  <2>3. NothingInvented'
    <3>1. \A id : \A x \in Src : BuiltBefore(x, id)' <=> BuiltBefore(x, id)
      BY <1>8, <2>1 DEF nodeVars
    <3>2. \A m \in wire : m.src \in Src
      BY <1>1 DEF MessageType
    <3> QED
      BY <2>1, <3>1, <3>2 DEF NothingInvented, nodeVars, guardVars
  <2>4. HealthBehind'
    <3> SUFFICES ASSUME NEW x \in Src
                 PROVE  /\ \A m \in retained[x] \union node[x].will : m.body \in Status
                        /\ health'[x] # Unknown =>
                             /\ BuiltBefore(x, health'[x].id)
                             /\ session[x] # NoSession =>
                                  health'[x].id = Last(x) \/ Feed!Before(health'[x].id, Last(x))
                             /\ session[x] = NoSession =>
                                  \A m \in wire : m.src = x /\ m.body \notin Status
                                                   => Feed!Before(health'[x].id, Id(m))
      BY <1>8, <2>1 DEF HealthBehind, Feed!Before, nodeVars, guardVars, Last
    <3>1. health'[x] = health[x] \/ health'[x] = Unknown
      BY <2>1
    <3> QED
      BY <3>1 DEF HealthBehind
  <2> QED
    BY <2>2, <2>3, <2>4
<1> QED
  BY <1>3, <1>4, <1>5, <1>6, <1>7, <1>9, <1>10 DEF Next

-----------------------------------------------------------------------------
\* The invariant of the uplink: the one session and the bounded cache of ids
\* the ReplayGuard keeps stand for everything that passed in this life of the
\* gateway (replay.ts:100-121), nothing is ahead of the device that built it,
\* and no health is newer than what passed.
THEOREM FieldInvHolds == Spec => []FieldInv
  BY InitField, StepField, PTL DEF Spec

\* The guard shuts nobody out (replay.ts:75-121): the newest message of a
\* device comes after the session, so it is accepted if it is fresh and new.
THEOREM NewestAcceptedHolds == Spec => []NewestAccepted
PROOF
<1>1. FieldInv => NewestAccepted
  <2> SUFFICES ASSUME FieldInv, NEW m \in wire, Id(m) = Built(m.src), ~Stale(m),
                      Id(m) \notin admitted[m.src]
               PROVE  Check(m) = "accept"
    BY DEF NewestAccepted
  <2>1. m \in MessageType /\ m.src \in Src /\ Built(m.src) \in Ids
    BY IdType, BuiltType DEF FieldInv, TypeOK
  <2>2. session[m.src] # NoSession => Feed!Before(Last(m.src), Id(m))
    <3> SUFFICES ASSUME session[m.src] # NoSession
                 PROVE  Feed!Before(Last(m.src), Id(m))
      OBVIOUS
    <3>1. Last(m.src) \in admitted[m.src]
      BY <2>1 DEF FieldInv, SessionsSumUp
    <3> QED
      BY <2>1, <3>1 DEF FieldInv, NothingInvented, BuiltBefore
  <2> QED
    BY <2>1, <2>2, NewerIsAccepted DEF FieldInv
<1> QED
  BY <1>1, FieldInvHolds, PTL

\* While the gateway knows a device, what ats-core shows of its health does not
\* go back to an earlier report (ats-core/main.ts:225-229).
THEOREM HealthNeverGoesBackHolds == Spec => HealthNeverGoesBack
PROOF
<1> DEFINE Forward == \A s \in Src :
                        session[s] # NoSession /\ Unknown \notin {health[s], health'[s]}
                          => health'[s] = health[s] \/ Feed!Before(health[s].id, health'[s].id)
<1>1. FieldInv /\ [Next]_vars => [Forward]_vars
  <2> SUFFICES ASSUME FieldInv, Next, NEW s \in Src, session[s] # NoSession,
                      health[s] # Unknown, health'[s] # Unknown, health'[s] # health[s]
               PROVE  Feed!Before(health[s].id, health'[s].id)
    OBVIOUS
  <2>1. PICK m \in wire, again \in BOOLEAN : Receive(m, again)
    BY DEF Next, StartNode, Report, StopNode, CrashNode, PublishWill, Reconnect,
           CrashGateway, StartGateway, RestartAts, Second
  <2>2. /\ m \in MessageType /\ m.src = s /\ Id(m) \in Ids
        /\ Feed!Before(Last(s), Id(m)) /\ health'[s].id = Id(m)
    <3>1. m \in MessageType /\ m.src \in Src /\ Id(m) \in Ids
      BY <2>1, ReceiveFacts, IdType
    <3>2. /\ session[m.src] # NoSession => Feed!Before(Last(m.src), Id(m))
          /\ health' = [health EXCEPT ![m.src] = [status |-> m.body, id |-> Id(m)]]
      BY <2>1, ReceiveFacts
    <3>3. m.src = s
      BY <3>2
    <3> QED
      BY <3>1, <3>2, <3>3 DEF FieldInv, TypeOK
  <2>3. health[s].id = Last(s) \/ Feed!Before(health[s].id, Last(s))
    BY DEF FieldInv, HealthBehind
  <2>4. /\ health[s] \in [status : Status \union {"unknown"}, id : Int \X Int]
        /\ session[s] \in [boot : Int, lastSeq : Int, order : Seq(Nat \X Nat)]
    BY DEF FieldInv, TypeOK
  <2>5. health[s].id \in Int \X Int /\ Last(s) \in Int \X Int /\ Id(m) \in Int \X Int
    BY <2>2, <2>4 DEF Last, Ids
  <2> QED
    BY <2>2, <2>3, <2>5, BeforeOrder
<1> QED
  BY <1>1, FieldInvHolds, PTL DEF Spec, HealthNeverGoesBack

\* The gateway implements the feed it promises (replay.ts:1-28): a message that
\* passes is an Admit of its device, a new life of the gateway a Forget, and no
\* other step touches what has passed.
THEOREM ImplementsOrderedFeedHolds == Spec => ImplementsOrderedFeed
PROOF
<1>1. Init => Feed!FeedInit
  BY DEF Init, Feed!FeedInit
<1>2. FieldInv /\ [Next]_vars => [(\E s \in Src : Feed!Admit(s)) \/ Feed!Forget]_admitted
  <2> SUFFICES ASSUME FieldInv, [Next]_vars, admitted' # admitted
               PROVE  (\E s \in Src : Feed!Admit(s)) \/ Feed!Forget
    OBVIOUS
  <2>1. CASE \E m \in wire, again \in BOOLEAN : Receive(m, again)
    <3>1. PICK m \in wire, again \in BOOLEAN : Receive(m, again)
      BY <2>1
    <3> DEFINE s == m.src
    <3>2. /\ m \in MessageType /\ s \in Src /\ Id(m) \in Ids
          /\ session[s] # NoSession => Feed!Before(Last(s), Id(m))
          /\ admitted' = [admitted EXCEPT ![s] = @ \union {Id(m)}]
      BY <3>1, ReceiveFacts, IdType
    <3>3. ASSUME NEW d \in admitted[s]
          PROVE  Feed!Before(d, Id(m))
      <4>1. session[s] # NoSession /\ (d = Last(s) \/ Feed!Before(d, Last(s)))
        BY <3>2 DEF FieldInv, SessionsSumUp
      <4>2. Last(s) \in admitted[s]
        BY <3>2, <4>1 DEF FieldInv, SessionsSumUp
      <4>3. d \in Int \X Int /\ Last(s) \in Int \X Int /\ Id(m) \in Int \X Int
        BY <3>2, <4>2 DEF FieldInv, TypeOK, Ids
      <4> QED
        BY <3>2, <4>1, <4>3, BeforeOrder
    <3>4. Id(m) \in admitted'[s]
      BY <3>2 DEF FieldInv, TypeOK
    <3> QED
      BY <3>2, <3>3, <3>4 DEF Feed!Admit
  <2>2. CASE StartGateway
    BY <2>2 DEF StartGateway, Feed!Forget
  <2>3. Next
    BY DEF vars, guardVars
  <2> QED
    BY <2>1, <2>2, <2>3 DEF Next, StartNode, Report, StopNode, CrashNode, PublishWill,
       Reconnect, CrashGateway, RestartAts, Second, guardVars
<1> QED
  BY <1>1, <1>2, FieldInvHolds, PTL DEF Spec, ImplementsOrderedFeed, Feed!FeedSpec
-----------------------------------------------------------------------------
(* What the edge node sees, before it has anything to send.                *)

\* Sets of natural numbers have a least member.
LEMMA LeastNatural ==
    ASSUME NEW S \in SUBSET Nat, S # {}
    PROVE  \E n \in S : \A m \in S : n <= m
PROOF
<1>1. PICK n \in S : \A m \in S : <<m, n>> \notin OpToRel(<, Nat)
  BY NatLessThanWellFounded, WFMin
<1>2. \A m \in S : ~(m < n)
  BY <1>1 DEF OpToRel
<1> QED
  BY <1>2

LEMMA IdFacts ==
    /\ MaxTracks \in Nat
    /\ \A id \in TrackId : id \in Nat \ {0} /\ id <= MaxTracks
    /\ \A id \in Nat \ {0} : id <= MaxTracks => id \in TrackId
BY VisionAssumption DEF TrackId

\* What a track takes depends on what those before it took.
LEMMA AssociateLocal ==
    ASSUME NEW boxes, NEW f, NEW g, NEW id, \A j \in 1..(id - 1) : f[j] = g[j]
    PROVE  Associate(boxes, f, id) = Associate(boxes, g, id)
PROOF
<1>1. {f[j] : j \in 1..(id - 1)} = {g[j] : j \in 1..(id - 1)}
  OBVIOUS
<1> QED
  BY <1>1, Zenon DEF Associate

\* It is one box at most, of those they left.
LEMMA AssociateFacts ==
    ASSUME NEW boxes, DOMAIN boxes \in SUBSET Nat, NEW f, NEW id
    PROVE  /\ Associate(boxes, f, id) \in SUBSET DOMAIN boxes
           /\ \A j \in 1..(id - 1) : Associate(boxes, f, id) \cap f[j] = {}
           /\ \A k, l \in Associate(boxes, f, id) : k = l
           /\ Associate(boxes, f, id) # {} => id \in DOMAIN tracks
PROOF
<1> DEFINE free == DOMAIN boxes \ UNION {f[j] : j \in 1..(id - 1)}
           match == BestMatch(tracks[id], boxes, free)
<1>1. match \subseteq free
  BY DEF BestMatch
<1>2. ASSUME NEW k \in match, NEW l \in match PROVE k <= l
  BY <1>2 DEF BestMatch
<1>3. ASSUME NEW k \in match, NEW l \in match PROVE k = l
  <2>1. k \in Nat /\ l \in Nat
    BY <1>1
  <2>2. k <= l /\ l <= k
    BY <1>2
  <2> HIDE DEF match
  <2> QED
    BY <2>1, <2>2
<1>4. \A j \in 1..(id - 1) : free \cap f[j] = {}
  OBVIOUS
<1> HIDE DEF match, free
<1>5. Associate(boxes, f, id) = IF id \in DOMAIN tracks THEN match ELSE {}
  BY Zenon DEF Associate, match, free
<1>6. free \subseteq DOMAIN boxes
  BY DEF free
<1> QED
  BY <1>1, <1>3, <1>4, <1>5, <1>6

\* The loop over the tracks, as far as the n-th.
MatchesTo(boxes, n, f) == f = [id \in 1..n |-> Associate(boxes, f, id)]

LEMMA MatchesExist ==
    ASSUME NEW boxes, DOMAIN boxes \in SUBSET Nat
    PROVE  \A n \in 0..MaxTracks : \E f : MatchesTo(boxes, n, f)
PROOF
<1> DEFINE Without == {n \in 0..MaxTracks : ~ \E f : MatchesTo(boxes, n, f)}
<1> SUFFICES ASSUME Without # {} PROVE FALSE
  OBVIOUS
<1>0. Without \in SUBSET Nat /\ MaxTracks \in Nat
  BY IdFacts
<1>1. PICK n \in Without : \A m \in Without : n <= m
  <2> HIDE DEF Without
  <2> QED
    BY <1>0, LeastNatural
<1>2. n # 0
  <2>1. MatchesTo(boxes, 0, <<>>)
    BY DEF MatchesTo
  <2> QED
    BY <2>1
<1>3. n \in Nat \ {0} /\ n <= MaxTracks
  BY <1>0, <1>2
<1>4. PICK f : MatchesTo(boxes, n - 1, f)
  <2>1. n - 1 \in 0..MaxTracks /\ ~(n <= n - 1)
    BY <1>0, <1>3
  <2>2. n - 1 \notin Without
    BY <1>1, <2>1, Zenon
  <2> QED
    BY <2>1, <2>2, Zenon
<1> DEFINE g == [id \in 1..n |-> IF id = n THEN Associate(boxes, f, n) ELSE f[id]]
<1>5. \A j \in 1..(n - 1) : g[j] = f[j]
  BY <1>3
<1>6. ASSUME NEW id \in 1..n PROVE g[id] = Associate(boxes, g, id)
  <2>1. \A j \in 1..(id - 1) : f[j] = g[j]
    BY <1>3, <1>5
  <2>2. Associate(boxes, f, id) = Associate(boxes, g, id)
    BY <2>1, AssociateLocal
  <2>3. g[id] = Associate(boxes, f, id)
    <3>1. CASE id = n
      BY <3>1
    <3>2. CASE id # n
      <4>1. id \in 1..(n - 1)
        BY <1>3, <3>2
      <4>2. f[id] = Associate(boxes, f, id)
        BY <1>4, <4>1 DEF MatchesTo
      <4> QED
        BY <1>5, <4>1, <4>2
    <3> QED
      BY <3>1, <3>2
  <2> QED
    BY <2>2, <2>3
<1>7. g = [id \in 1..n |-> g[id]]
  OBVIOUS
<1>8. MatchesTo(boxes, n, g)
  <2> HIDE DEF g
  <2> QED
    BY <1>6, <1>7 DEF MatchesTo
<1> QED
  BY <1>8

\* The loop: what each track takes, given what those before it took.
LEMMA MatchesDefined ==
    ASSUME NEW boxes, DOMAIN boxes \in SUBSET Nat
    PROVE  Matches(boxes)
             = [id \in TrackId |-> Associate(boxes, Matches(boxes), id)]
PROOF
<1>1. PICK f : MatchesTo(boxes, MaxTracks, f)
  <2>1. MaxTracks \in 0..MaxTracks
    BY IdFacts
  <2> QED
    BY <2>1, MatchesExist
<1>2. f = [id \in TrackId |-> Associate(boxes, f, id)]
  BY <1>1 DEF MatchesTo, TrackId
<1> DEFINE P(m) == m = [id \in TrackId |-> Associate(boxes, m, id)]
<1>3. Matches(boxes) = CHOOSE m : P(m)
  BY DEF Matches
<1> QED
  BY <1>2, <1>3

\* No box is taken twice, and only known tracks match.
LEMMA MatchFacts ==
    ASSUME NEW boxes, DOMAIN boxes \in SUBSET Nat, NEW m, m = Matches(boxes)
    PROVE  /\ \A id \in TrackId : /\ m[id] \in SUBSET DOMAIN boxes
                                  /\ \A k, l \in m[id] : k = l
                                  /\ m[id] # {} => id \in DOMAIN tracks
           /\ \A i, j \in TrackId : i # j => m[i] \cap m[j] = {}
PROOF
<1>1. ASSUME NEW id \in TrackId PROVE m[id] = Associate(boxes, m, id)
  BY MatchesDefined
<1>2. ASSUME NEW i \in TrackId, NEW j \in TrackId, i < j PROVE m[i] \cap m[j] = {}
  <2>1. i \in 1..(j - 1)
    BY <1>2, IdFacts
  <2> QED
    BY <1>1, <2>1, AssociateFacts
<1>3. ASSUME NEW i \in TrackId, NEW j \in TrackId, i # j PROVE m[i] \cap m[j] = {}
  <2>1. i < j \/ j < i
    BY <1>3, IdFacts
  <2> QED
    BY <1>2, <2>1
<1>4. ASSUME NEW id \in TrackId
      PROVE  /\ m[id] \in SUBSET DOMAIN boxes
             /\ \A k, l \in m[id] : k = l
             /\ m[id] # {} => id \in DOMAIN tracks
  BY <1>1, AssociateFacts
<1> QED
  BY <1>3, <1>4

-----------------------------------------------------------------------------
\* The rank of a number in a set counts it off from nought, with no gaps.
RankIn(F, k) == Cardinality({j \in F : j < k})

LEMMA RankFacts ==
    ASSUME NEW F \in SUBSET Nat, IsFiniteSet(F)
    PROVE  /\ Cardinality(F) \in Nat
           /\ \A k \in F : RankIn(F, k) \in Nat /\ RankIn(F, k) < Cardinality(F)
           /\ \A k, l \in F : RankIn(F, k) = RankIn(F, l) => k = l
           /\ \A r \in Nat : r < Cardinality(F) => \E k \in F : RankIn(F, k) = r
PROOF
<1> DEFINE Below(k) == {j \in F : j < k}
<1>0. Cardinality(F) \in Nat
  BY FS_CardinalityType
<1>1. ASSUME NEW k \in F, NEW S \in SUBSET F, Below(k) \subseteq S, k \in S
      PROVE  RankIn(F, k) \in Nat /\ RankIn(F, k) < Cardinality(S)
  <2>1. IsFiniteSet(S) /\ Cardinality(S) \in Nat
    BY FS_Subset, FS_CardinalityType
  <2>2. Below(k) \in SUBSET (S \ {k})
    BY <1>1
  <2>3. IsFiniteSet(S \ {k}) /\ Cardinality(S \ {k}) = Cardinality(S) - 1
    BY <1>1, <2>1, FS_RemoveElement
  <2>4. IsFiniteSet(Below(k)) /\ Cardinality(Below(k)) <= Cardinality(S \ {k})
    <3> HIDE DEF Below
    <3> QED
      BY <2>2, <2>3, FS_Subset
  <2>5. Cardinality(Below(k)) \in Nat
    <3> HIDE DEF Below
    <3> QED
      BY <2>4, FS_CardinalityType
  <2> QED
    BY <2>1, <2>3, <2>4, <2>5 DEF RankIn
<1>2. ASSUME NEW k \in F PROVE RankIn(F, k) \in Nat /\ RankIn(F, k) < Cardinality(F)
  BY <1>1
<1>3. ASSUME NEW k \in F, NEW l \in F, k < l PROVE RankIn(F, k) < RankIn(F, l)
  <2>1. Below(k) \subseteq Below(l) /\ k \in Below(l) /\ Below(l) \in SUBSET F
    <3>1. \A j \in F : j < k => j < l
      BY <1>3
    <3> QED
      BY <1>3, <3>1
  <2>2. RankIn(F, k) < Cardinality(Below(l))
    <3> HIDE DEF Below
    <3> QED
      BY <2>1, <1>1
  <2> QED
    BY <2>2 DEF RankIn
<1>4. ASSUME NEW k \in F, NEW l \in F, RankIn(F, k) = RankIn(F, l) PROVE k = l
  <2>1. ~(k < l) /\ ~(l < k)
    BY <1>2, <1>3, <1>4
  <2> QED
    BY <2>1
<1>5. ASSUME NEW r \in Nat, r < Cardinality(F) PROVE \E k \in F : RankIn(F, k) = r
  <2> DEFINE C == 0..(Cardinality(F) - 1)
             f == [k \in F |-> RankIn(F, k)]
  <2>1. f \in [F -> C]
    BY <1>0, <1>2
  <2>2. f \in Injection(F, C)
    BY <1>4, <2>1 DEF Injection, IsInjective
  <2>3. IsFiniteSet(C) /\ Cardinality(C) = Cardinality(F)
    <3>1. Cardinality(F) - 1 \in Int
      BY <1>0
    <3>2. IsFiniteSet(C) /\ Cardinality(C) = IF 0 > Cardinality(F) - 1 THEN 0
                                              ELSE (Cardinality(F) - 1) - 0 + 1
      BY <3>1, FS_Interval
    <3> HIDE DEF C
    <3> QED
      BY <1>0, <3>2
  <2>4. f \in Surjection(F, C)
    <3> HIDE DEF f, C
    <3> QED
      BY <2>2, <2>3, FS_Injection
  <2>5. r \in C
    BY <1>0, <1>5
  <2>6. \E k \in F : f[k] = r
    <3> HIDE DEF f, C
    <3> QED
      BY <2>4, <2>5 DEF Surjection
  <2> QED
    BY <2>6
<1> QED
  BY <1>0, <1>2, <1>4, <1>5

\* takes tells of every track which box it has: each box belongs to one track.
Carries(boxes, takes) ==
    /\ \A id \in TrackId : /\ takes[id] \in SUBSET DOMAIN boxes
                           /\ \A k, l \in takes[id] : k = l
    /\ \A i, j \in TrackId : i # j => takes[i] \cap takes[j] = {}
    /\ \A k \in DOMAIN boxes : \E id \in TrackId : k \in takes[id]
WithBox(takes) == {id \in TrackId : takes[id] # {}}

\* Tracks have ids given out already.
IdsGiven ==
    /\ nextId \in 1..(MaxTracks + 1)
    /\ DOMAIN tracks \subseteq TrackId
    /\ \A id \in TrackId : id >= nextId => id \notin DOMAIN tracks

LEMMA TakesFacts ==
    ASSUME IdsGiven, NEW boxes \in Seq(Box),
           NEW m, m = Matches(boxes), NEW left, left = Unmatched(boxes, m),
           nextId + Cardinality(left) <= MaxTracks + 1,
           NEW takes, takes = Takes(m, left)
    PROVE  /\ Cardinality(left) \in Nat
           /\ Carries(boxes, takes)
           /\ \A id \in WithBox(takes) : /\ id < nextId => id \in DOMAIN tracks
                                         /\ id < nextId + Cardinality(left)
PROOF
<1>0. DOMAIN boxes = 1..Len(boxes) /\ Len(boxes) \in Nat /\ DOMAIN boxes \in SUBSET Nat
  OBVIOUS
<1>1. left \in SUBSET DOMAIN boxes /\ \A id \in TrackId : left \cap m[id] = {}
  BY DEF Unmatched
<1>2. \A k \in DOMAIN boxes : k \in left \/ \E id \in TrackId : k \in m[id]
  BY DEF Unmatched
<1>3. left \in SUBSET Nat /\ IsFiniteSet(left)
  <2>1. IsFiniteSet(1..Len(boxes))
    BY <1>0, FS_Interval
  <2>2. left \in SUBSET (1..Len(boxes))
    BY <1>0, <1>1
  <2>3. IsFiniteSet(left)
    BY <2>1, <2>2, FS_Subset
  <2> QED
    BY <1>0, <1>1, <2>3
<1>4. /\ Cardinality(left) \in Nat
      /\ \A k \in left : RankIn(left, k) \in Nat /\ RankIn(left, k) < Cardinality(left)
      /\ \A k, l \in left : RankIn(left, k) = RankIn(left, l) => k = l
  BY <1>3, RankFacts
<1>5. nextId \in Nat \ {0} /\ MaxTracks \in Nat
  BY IdFacts DEF IdsGiven
<1>6. /\ \A id \in TrackId : /\ m[id] \in SUBSET DOMAIN boxes
                             /\ \A k, l \in m[id] : k = l
                             /\ m[id] # {} => id \in DOMAIN tracks
      /\ \A i, j \in TrackId : i # j => m[i] \cap m[j] = {}
  BY <1>0, MatchFacts
<1>7. ASSUME NEW id \in TrackId
      PROVE  takes[id] = IF id < nextId THEN m[id]
                         ELSE {k \in left : id - nextId = RankIn(left, k)}
  <2>1. takes = [i \in TrackId |->
                   IF i < nextId THEN m[i]
                   ELSE {k \in left : i - nextId = Cardinality({j \in left : j < k})}]
    BY DEF Takes
  <2>2. takes[id] = IF id < nextId THEN m[id]
                    ELSE {k \in left : id - nextId = Cardinality({j \in left : j < k})}
    BY <2>1, Zenon
  <2> QED
    BY <2>2, Zenon DEF RankIn
<1>8. ASSUME NEW id \in TrackId, id < nextId PROVE takes[id] = m[id]
  BY <1>7, <1>8
<1>9. ASSUME NEW id \in TrackId, ~(id < nextId)
      PROVE  takes[id] = {k \in left : id - nextId = RankIn(left, k)}
  BY <1>7, <1>9
<1>10. ASSUME NEW id \in TrackId
       PROVE  /\ takes[id] \in SUBSET DOMAIN boxes
              /\ \A k, l \in takes[id] : k = l
  <2>1. CASE id < nextId
    <3>1. takes[id] = m[id]
      BY <1>8, <2>1
    <3>2. m[id] \in SUBSET DOMAIN boxes /\ \A k, l \in m[id] : k = l
      BY <1>6
    <3> QED
      BY <3>1, <3>2
  <2>2. CASE ~(id < nextId)
    BY <1>1, <1>4, <1>9, <2>2
  <2> QED
    BY <2>1, <2>2
<1>11. ASSUME NEW i \in TrackId, NEW j \in TrackId, NEW k \in takes[i], k \in takes[j]
       PROVE  i = j
  <2>1. CASE i < nextId /\ j < nextId
    BY <1>6, <1>8, <1>11, <2>1
  <2>2. CASE ~(i < nextId) /\ ~(j < nextId)
    <3>1. i - nextId = RankIn(left, k) /\ j - nextId = RankIn(left, k)
      BY <1>9, <1>11, <2>2
    <3>2. i \in Nat /\ j \in Nat
      BY IdFacts
    <3> QED
      BY <1>5, <3>1, <3>2
  <2>3. ASSUME NEW a \in TrackId, NEW b \in TrackId, a < nextId, ~(b < nextId)
        PROVE  takes[a] \cap takes[b] = {}
    <3>1. takes[a] = m[a] /\ takes[b] \subseteq left
      BY <1>8, <1>9, <2>3
    <3> QED
      BY <1>1, <3>1
  <2> QED
    BY <1>11, <2>1, <2>2, <2>3
<1>12. ASSUME NEW k \in DOMAIN boxes PROVE \E id \in TrackId : k \in takes[id]
  <2>1. CASE \E id \in TrackId : k \in m[id]
    <3>1. PICK id \in TrackId : k \in m[id]
      BY <2>1
    <3>2. id \in DOMAIN tracks
      BY <1>6, <3>1
    <3>3. id < nextId
      BY <1>5, <3>2, IdFacts DEF IdsGiven
    <3> QED
      BY <1>8, <3>1, <3>3
  <2>2. CASE k \in left
    <3> DEFINE id == nextId + RankIn(left, k)
    <3>1. RankIn(left, k) \in Nat /\ RankIn(left, k) < Cardinality(left)
      BY <1>4, <2>2
    <3>2. id \in Nat \ {0} /\ id <= MaxTracks /\ ~(id < nextId) /\ id - nextId = RankIn(left, k)
      BY <1>4, <1>5, <3>1
    <3>3. id \in TrackId
      BY <3>2, IdFacts
    <3> HIDE DEF id
    <3> QED
      BY <1>9, <2>2, <3>2, <3>3
  <2> QED
    BY <1>2, <2>1, <2>2
<1>13. ASSUME NEW id \in TrackId, takes[id] # {}
       PROVE  /\ id < nextId => id \in DOMAIN tracks
              /\ id < nextId + Cardinality(left)
  <2>1. CASE id < nextId
    BY <1>4, <1>5, <1>6, <1>8, <1>13, <2>1, IdFacts
  <2>2. CASE ~(id < nextId)
    <3>1. PICK k \in left : id - nextId = RankIn(left, k)
      BY <1>9, <1>13, <2>2
    <3>2. RankIn(left, k) \in Nat /\ RankIn(left, k) < Cardinality(left) /\ id \in Nat
      BY <1>4, IdFacts
    <3> QED
      BY <1>4, <1>5, <2>2, <3>1, <3>2
  <2> QED
    BY <2>1, <2>2
<1>14. Carries(boxes, takes)
  BY <1>10, <1>11, <1>12 DEF Carries
<1> QED
  BY <1>4, <1>13, <1>14 DEF WithBox

\* As many tracks have a box as there are boxes.
LEMMA CarriesCounts ==
    ASSUME NEW boxes \in Seq(Box), NEW takes, Carries(boxes, takes)
    PROVE  Cardinality(WithBox(takes)) = Len(boxes)
PROOF
<1> DEFINE K == DOMAIN boxes
           f == [k \in K |-> CHOOSE id \in TrackId : k \in takes[id]]
<1>1. ASSUME NEW k \in K PROVE f[k] \in TrackId /\ k \in takes[f[k]]
  BY DEF Carries
<1>2. ASSUME NEW k \in K PROVE f[k] \in WithBox(takes)
  <2> HIDE DEF f
  <2> QED
    BY <1>1 DEF WithBox
<1>3. f \in [K -> WithBox(takes)]
  BY <1>2
<1>4. ASSUME NEW k \in K, NEW l \in K, f[k] = f[l] PROVE k = l
  <2> HIDE DEF f
  <2>1. f[k] \in TrackId /\ k \in takes[f[k]] /\ l \in takes[f[k]]
    BY <1>1, <1>4
  <2> QED
    BY <2>1 DEF Carries
<1>5. ASSUME NEW id \in WithBox(takes) PROVE \E k \in K : f[k] = id
  <2>1. PICK k \in K : k \in takes[id]
    BY DEF Carries, WithBox
  <2>2. f[k] \in TrackId /\ k \in takes[f[k]] /\ id \in TrackId
    BY <1>1 DEF WithBox
  <2> HIDE DEF f
  <2>3. f[k] = id
    BY <2>1, <2>2 DEF Carries
  <2> QED
    BY <2>3
<1>6. f \in Bijection(K, WithBox(takes))
  <2> HIDE DEF f, K
  <2> QED
    BY <1>3, <1>4, <1>5 DEF Bijection, Injection, Surjection, IsInjective
<1>7. ExistsBijection(K, WithBox(takes))
  <2> HIDE DEF f, K
  <2> QED
    BY <1>6 DEF ExistsBijection
<1>8. IsFiniteSet(K) /\ Cardinality(K) = Len(boxes)
  <2>1. Len(boxes) \in Nat /\ K = 1..Len(boxes)
    OBVIOUS
  <2>2. IsFiniteSet(1..Len(boxes))
        /\ Cardinality(1..Len(boxes)) = IF 1 > Len(boxes) THEN 0 ELSE Len(boxes) - 1 + 1
    BY <2>1, FS_Interval
  <2> HIDE DEF K
  <2> QED
    BY <2>1, <2>2
<1> HIDE DEF K
<1> QED
  BY <1>7, <1>8, FS_Bijection

TracksTyped == tracks \in [DOMAIN tracks -> Track]

\* What update makes of one track.
LEMMA TrackAfterFacts ==
    ASSUME IdsGiven, TracksTyped, NEW boxes \in Seq(Box), NEW t \in Nat,
           NEW id \in TrackId, NEW taken \in SUBSET DOMAIN boxes, \A k, l \in taken : k = l,
           taken # {} /\ id < nextId => id \in DOMAIN tracks,
           taken = {} => id \in DOMAIN tracks
    PROVE  LET tr == TrackAfter(boxes, taken, id, t) IN
           /\ Retained(tr) => tr \in Track
           /\ \A k \in taken : tr.box = boxes[k] /\ tr.misses = 0 /\ Retained(tr)
           /\ taken = {} => tr.misses # 0
PROOF
<1> DEFINE tr == TrackAfter(boxes, taken, id, t)
<1>1. MaxMisses \in Nat
  BY VisionAssumption
<1>2. \A k \in DOMAIN boxes : boxes[k] \in Box
  OBVIOUS
<1>3. ASSUME id \in DOMAIN tracks
      PROVE  tracks[id] \in [box : Box, first : Nat, last : Nat, misses : 0..MaxMisses]
  BY <1>3 DEF TracksTyped, Track
<1>4. CASE taken = {}
  <2>1. tr = [tracks[id] EXCEPT !.misses = @ + 1]
    BY <1>4, Zenon DEF TrackAfter, Missed
  <2>2. tracks[id] \in [box : Box, first : Nat, last : Nat, misses : 0..MaxMisses]
    BY <1>3, <1>4
  <2>3. tr.misses # 0 /\ (tr.misses <= MaxMisses => tr \in Track)
    <3> HIDE DEF tr
    <3> QED
      BY <1>1, <2>1, <2>2 DEF Track
  <2> QED
    BY <1>4, <2>3 DEF Retained
<1>5. ASSUME NEW k \in taken, id < nextId
      PROVE  tr.box = boxes[k] /\ tr.misses = 0 /\ tr \in Track
  <2>1. k = CHOOSE l \in taken : TRUE
    BY <1>5
  <2>2. tr = [tracks[id] EXCEPT !.box = boxes[k], !.last = t, !.misses = 0]
    BY <1>5, <2>1 DEF TrackAfter, Seen
  <2>3. PICK old \in [box : Box, first : Nat, last : Nat, misses : 0..MaxMisses] :
               old = tracks[id]
    BY <1>3, <1>5
  <2>4. tr = [old EXCEPT !.box = boxes[k], !.last = t, !.misses = 0]
    BY <2>2, <2>3, Zenon
  <2> HIDE DEF tr
  <2>5. tr = [box |-> boxes[k], first |-> old.first, last |-> t, misses |-> 0]
    BY <2>4
  <2> QED
    BY <1>1, <1>2, <2>3, <2>5 DEF Track
<1>6. ASSUME NEW k \in taken, ~(id < nextId)
      PROVE  tr.box = boxes[k] /\ tr.misses = 0 /\ tr \in Track
  <2>1. k = CHOOSE l \in taken : TRUE
    BY <1>6
  <2>2. tr = [box |-> boxes[k], first |-> t, last |-> t, misses |-> 0]
    BY <1>6, <2>1 DEF TrackAfter, Opened
  <2> HIDE DEF tr
  <2> QED
    BY <1>1, <1>2, <1>6, <2>2 DEF Track
<1>7. ASSUME NEW k \in taken
      PROVE  tr.box = boxes[k] /\ tr.misses = 0 /\ tr \in Track /\ Retained(tr)
  <2> HIDE DEF tr
  <2> QED
    BY <1>1, <1>5, <1>6 DEF Retained
<1> HIDE DEF tr
<1>8. /\ Retained(tr) => tr \in Track
      /\ \A k \in taken : tr.box = boxes[k] /\ tr.misses = 0 /\ Retained(tr)
      /\ taken = {} => tr.misses # 0
  BY <1>4, <1>7 DEF tr
<1> QED
  BY <1>8 DEF tr

\* What update leaves: a track seen for each that has a box, and of the others
\* those that may still be missed.
LEMMA UpdatedFacts ==
    ASSUME IdsGiven, TracksTyped, NEW boxes \in Seq(Box), NEW t \in Nat,
           NEW takes, Carries(boxes, takes),
           \A id \in WithBox(takes) : id < nextId => id \in DOMAIN tracks,
           NEW ts, ts = Updated(boxes, takes, t)
    PROVE  /\ DOMAIN ts \subseteq DOMAIN tracks \union WithBox(takes)
           /\ ts \in [DOMAIN ts -> Track]
           /\ {id \in DOMAIN ts : ts[id].misses = 0} = WithBox(takes)
           /\ \A id \in WithBox(takes) : \A k \in takes[id] : ts[id].box = boxes[k]
PROOF
<1> DEFINE known == DOMAIN tracks \union WithBox(takes)
           after(id) == TrackAfter(boxes, takes[id], id, t)
<1>1. known \subseteq TrackId
  BY DEF IdsGiven, WithBox
<1>2. ts = [id \in {i \in known : Retained(after(i))} |-> after(id)]
  <2> DEFINE aft == [id \in known |-> after(id)]
  <2>1. ts = [id \in {i \in known : Retained(aft[i])} |-> aft[id]]
    BY Zenon DEF Updated, WithBox
  <2>2. \A i \in known : aft[i] = after(i)
    OBVIOUS
  <2> HIDE DEF aft, after
  <2> QED
    BY <2>1, <2>2
<1>3. ASSUME NEW id \in known
      PROVE  /\ Retained(after(id)) => after(id) \in Track
             /\ \A k \in takes[id] : /\ after(id).box = boxes[k] /\ after(id).misses = 0
                                     /\ Retained(after(id))
             /\ takes[id] = {} => after(id).misses # 0
  <2>1. /\ id \in TrackId /\ takes[id] \in SUBSET DOMAIN boxes
        /\ \A k, l \in takes[id] : k = l
    BY <1>1 DEF Carries
  <2>2. /\ takes[id] # {} /\ id < nextId => id \in DOMAIN tracks
        /\ takes[id] = {} => id \in DOMAIN tracks
    BY <2>1 DEF WithBox
  <2> QED
    BY <2>1, <2>2, TrackAfterFacts
<1> HIDE DEF after
<1>4. DOMAIN ts = {i \in known : Retained(after(i))} /\ \A id \in DOMAIN ts : ts[id] = after(id)
  BY <1>2
<1>5. WithBox(takes) \subseteq DOMAIN ts
  BY <1>3, <1>4 DEF WithBox
<1>6. \A id \in WithBox(takes) : ts[id].misses = 0 /\ \A k \in takes[id] : ts[id].box = boxes[k]
  BY <1>3, <1>4, <1>5 DEF WithBox
<1>7. \A id \in DOMAIN ts : ts[id].misses = 0 => id \in WithBox(takes)
  BY <1>1, <1>3, <1>4 DEF WithBox
<1>8. {id \in DOMAIN ts : ts[id].misses = 0} = WithBox(takes)
  BY <1>5, <1>6, <1>7
<1>9. ts \in [DOMAIN ts -> Track]
  BY <1>2, <1>3, <1>4
<1> QED
  BY <1>4, <1>6, <1>8, <1>9

-----------------------------------------------------------------------------
\* What was announced of a track, published of it and seen of it agree.
StoriesKept ==
    \A id \in TrackId :
        /\ announced[id] = "none" => told[id] = <<>>
        /\ announced[id] # "none" => told[id] # <<>> /\ told[id][1] = "onset"
        /\ announced[id] = "onset" => id \in unbroken

\* Whoever is seen inside the gauge has been announced, once the warm-up is over.
InsideAnnounced ==
    now > WarmUp => \A c \in Current : Intrudes(tracks[c].box) => announced[c] # "none"

\* In the warm-up nothing has been.
WarmUpSilent == now <= WarmUp => \A id \in TrackId : announced[id] = "none"

VisionInv == FrameCarried /\ StoriesKept /\ InsideAnnounced /\ WarmUpSilent

LEMMA InitVision == VisionInit => VisionInv
PROOF
<1> SUFFICES ASSUME VisionInit PROVE VisionInv
  OBVIOUS
<1>1. MaxTracks \in Nat /\ MaxMisses \in Nat
  BY VisionAssumption
<1>2. DOMAIN tracks = {} /\ tracks \in [{} -> Track] /\ frame = <<>>
  BY DEF VisionInit
<1>3. VisionTypeOK
  BY <1>1, <1>2 DEF VisionInit, VisionTypeOK
<1>4. Current = {}
  BY <1>2 DEF Current
<1>5. Cardinality(Current) = Len(frame)
  BY <1>2, <1>4, FS_EmptySet
<1>6. FrameCarried
  BY <1>2, <1>3, <1>4, <1>5 DEF FrameCarried, VisionInit
<1> QED
  BY <1>4, <1>6 DEF VisionInv, StoriesKept, InsideAnnounced, WarmUpSilent, VisionInit

\* A frame: every box goes to one track, known or new.
LEMMA ProcessTracks ==
    ASSUME VisionTypeOK, IdsGiven,
           NEW boxes \in Frames, Process(boxes)
    PROVE  \E takes :
             /\ Carries(boxes, takes)
             /\ Current' = WithBox(takes)
             /\ \A id \in WithBox(takes) : \A k \in takes[id] : tracks'[id].box = boxes[k]
             /\ DOMAIN tracks' \subseteq TrackId
             /\ tracks' \in [DOMAIN tracks' -> Track]
             /\ nextId' \in Nat /\ nextId <= nextId' /\ nextId' <= MaxTracks + 1
             /\ \A id \in DOMAIN tracks' : id < nextId'
PROOF
<1> DEFINE m == Matches(boxes)
           left == Unmatched(boxes, m)
           takes == Takes(m, left)
<1>1. boxes \in Seq(Box)
  BY VisionAssumption
<1>2. /\ nextId + Cardinality(left) <= MaxTracks + 1
      /\ nextId' = nextId + Cardinality(left)
      /\ tracks' = Updated(boxes, takes, FrameTime(now + 1))
  BY DEF Process
<1> HIDE DEF m, left, takes
<1>3. /\ Cardinality(left) \in Nat
      /\ Carries(boxes, takes)
      /\ \A id \in WithBox(takes) : /\ id < nextId => id \in DOMAIN tracks
                                    /\ id < nextId + Cardinality(left)
  BY <1>1, <1>2, TakesFacts DEF m, left, takes
<1>4. FrameTime(now + 1) \in Nat /\ TracksTyped
  BY VisionAssumption DEF VisionTypeOK, TracksTyped, FrameTime
<1>5. /\ DOMAIN tracks' \subseteq DOMAIN tracks \union WithBox(takes)
      /\ tracks' \in [DOMAIN tracks' -> Track]
      /\ {id \in DOMAIN tracks' : tracks'[id].misses = 0} = WithBox(takes)
      /\ \A id \in WithBox(takes) : \A k \in takes[id] : tracks'[id].box = boxes[k]
  BY <1>1, <1>2, <1>3, <1>4, UpdatedFacts
<1>6. Current' = WithBox(takes)
  BY <1>5 DEF Current
<1>7. DOMAIN tracks' \subseteq TrackId
  BY <1>5 DEF WithBox, IdsGiven
<1>8. nextId \in Nat /\ MaxTracks \in Nat
  BY VisionAssumption DEF IdsGiven
<1>9. \A id \in DOMAIN tracks' : id < nextId'
  <2> SUFFICES ASSUME NEW id \in DOMAIN tracks' PROVE id < nextId'
    OBVIOUS
  <2>1. id \in Nat
    BY <1>7, IdFacts
  <2>2. CASE id \in DOMAIN tracks
    <3>1. id < nextId
      BY <1>7, <1>8, <2>1, <2>2 DEF IdsGiven
    <3> QED
      BY <1>2, <1>3, <1>8, <2>1, <3>1
  <2>3. CASE id \in WithBox(takes)
    BY <1>2, <1>3, <2>3
  <2> QED
    BY <1>5, <2>2, <2>3
<1>10. nextId' \in Nat /\ nextId <= nextId' /\ nextId' <= MaxTracks + 1
  BY <1>2, <1>3, <1>8
<1> QED
  BY <1>3, <1>5, <1>6, <1>7, <1>9, <1>10

\* What is announced of a track in a frame, from what was and what is seen.
LEMMA AnnouncedFacts ==
    ASSUME VisionTypeOK, NEW ts, NEW id \in TrackId, NEW new, new = Announced(ts, id)
    PROVE  /\ new \in State \union {"none"}
           /\ new = "none" => announced[id] = "none" /\ id \notin Intruding(ts)
           /\ new = "onset" => id \in Intruding(ts) /\ announced[id] \in {"none", "onset"}
           /\ new = "sustained" => announced[id] \in {"onset", "sustained"}
                                   /\ id \in Intruding(ts) 
           /\ new = "cleared" /\ announced[id] # "cleared"
                => announced[id] \in {"onset", "sustained"} /\ id \notin Intruding(ts)
           /\ announced[id] = "none" => new \in {"none", "onset"}
BY DEF Announced, VisionTypeOK, State

IntrudingOf(ts) == {id \in DOMAIN ts : ts[id].misses = 0 /\ Intrudes(ts[id].box)}

\* The warm-up is over: a test of now that holds or fails in any state.
Announcing == ~(now < WarmUp)

\* In the warm-up nothing changes what is announced.
LEMMA WarmUpStories ==
    ASSUME NEW boxes \in Frames, Process(boxes), ~Announcing
    PROVE  announced' = announced /\ told' = told
BY DEF Process, Announcing

\* What goes on inside the gauge, in the warm-up too.
LEMMA UnbrokenFacts ==
    ASSUME NEW boxes \in Frames, Process(boxes)
    PROVE  /\ unbroken' = {id \in IntrudingOf(tracks') : announced[id] = "none" \/ id \in unbroken}
           /\ Intruding(tracks') = IntrudingOf(tracks')
PROOF
<1>1. unbroken' = {id \in IntrudingOf(tracks') : announced[id] = "none" \/ id \in unbroken}
  BY DEF Process, IntrudingOf
<1>2. Intruding(tracks') = IntrudingOf(tracks')
  BY DEF IntrudingOf, Intruding, Assessed, Intrudes
<1> QED
  BY <1>1, <1>2

\* A frame's announcements, track by track.
LEMMA ProcessStories ==
    ASSUME VisionTypeOK, NEW boxes \in Frames, Process(boxes), Announcing
    PROVE  /\ announced' \in [TrackId -> State \union {"none"}]
           /\ told' \in [TrackId -> Seq(State)]
           /\ \A id \in TrackId :
                /\ announced'[id] = Announced(tracks', id)
                /\ told'[id] = IF Published(tracks', id) THEN Append(told[id], announced'[id])
                               ELSE told[id]
                /\ id \in unbroken' <=> /\ id \in Intruding(tracks')
                                        /\ announced[id] = "none" \/ id \in unbroken
           /\ Intruding(tracks') = IntrudingOf(tracks')
PROOF
<1>1. announced' = [id \in TrackId |-> Announced(tracks', id)]
  BY DEF Process, Announcing
<1>2. told' = [id \in TrackId |-> IF Published(tracks', id)
                                    THEN Append(told[id], Announced(tracks', id))
                                    ELSE told[id]]
  BY DEF Process, Announcing
<1>3. unbroken' = {id \in IntrudingOf(tracks') : announced[id] = "none" \/ id \in unbroken}
  BY UnbrokenFacts
<1>4. Intruding(tracks') = IntrudingOf(tracks')
  BY UnbrokenFacts
<1>5. ASSUME NEW id \in TrackId
      PROVE  /\ announced'[id] = Announced(tracks', id)
             /\ told'[id] = IF Published(tracks', id) THEN Append(told[id], announced'[id])
                            ELSE told[id]
             /\ id \in unbroken' <=> /\ id \in Intruding(tracks')
                                     /\ announced[id] = "none" \/ id \in unbroken
  <2>1. announced'[id] = Announced(tracks', id)
    BY <1>1, Zenon
  <2>2. told'[id] = IF Published(tracks', id) THEN Append(told[id], Announced(tracks', id))
                    ELSE told[id]
    BY <1>2, Zenon
  <2> QED
    BY <1>3, <1>4, <2>1, <2>2
<1>6. \A id \in TrackId : announced'[id] \in State \union {"none"}
  BY <1>5, AnnouncedFacts
<1>7. announced' \in [TrackId -> State \union {"none"}]
  BY <1>1, <1>6
<1>8. ASSUME NEW id \in TrackId PROVE told'[id] \in Seq(State)
  <2>1. told[id] \in Seq(State)
    BY DEF VisionTypeOK
  <2>2. CASE Published(tracks', id)
    <3>1. announced'[id] # announced[id]
      BY <1>5, <2>2 DEF Published
    <3>2. announced'[id] \in State
      BY <1>5, <1>6, <3>1, AnnouncedFacts
    <3>3. told'[id] = Append(told[id], announced'[id])
      BY <1>5, <2>2
    <3> QED
      BY <2>1, <3>2, <3>3
  <2> QED
    BY <1>5, <2>1, <2>2
<1>9. told' \in [TrackId -> Seq(State)]
  BY <1>2, <1>8
<1> QED
  BY <1>4, <1>5, <1>7, <1>9

\* A change other than to cleared is published.
LEMMA ToldFacts ==
    ASSUME VisionTypeOK, NEW boxes \in Frames, Process(boxes), Announcing,
           NEW id \in TrackId
    PROVE  /\ told'[id] \in {told[id], Append(told[id], announced'[id])}
           /\ announced'[id] = announced[id] => told'[id] = told[id]
           /\ announced'[id] # announced[id] /\ announced'[id] # "cleared"
                => told'[id] = Append(told[id], announced'[id])
BY ProcessStories DEF Published

LEMMA StepStories ==
    ASSUME VisionInv, NEW boxes \in Frames, Process(boxes)
    PROVE  StoriesKept'
PROOF
<1>0. VisionTypeOK
  BY DEF VisionInv, FrameCarried
<1>1. ASSUME NEW id \in TrackId, Announcing
      PROVE  /\ announced'[id] = "none" => told'[id] = <<>>
             /\ announced'[id] # "none" => told'[id] # <<>> /\ told'[id][1] = "onset"
             /\ announced'[id] = "onset" => id \in unbroken'
  <2>1. /\ announced[id] = "none" => told[id] = <<>>
        /\ announced[id] # "none" => told[id] # <<>> /\ told[id][1] = "onset"
        /\ announced[id] = "onset" => id \in unbroken
    BY DEF VisionInv, StoriesKept
  <2>2. told[id] \in Seq(State)
    BY <1>0 DEF VisionTypeOK
  <2>3. /\ announced'[id] = Announced(tracks', id)
        /\ id \in unbroken' <=> /\ id \in Intruding(tracks')
                                /\ announced[id] = "none" \/ id \in unbroken
    BY <1>0, <1>1, ProcessStories
  <2>4. /\ announced'[id] = "none" => announced[id] = "none"
        /\ announced'[id] = "onset" => id \in Intruding(tracks')
                                       /\ announced[id] \in {"none", "onset"}
        /\ announced[id] = "none" => announced'[id] \in {"none", "onset"}
    BY <1>0, <2>3, AnnouncedFacts
  <2>5. /\ told'[id] \in {told[id], Append(told[id], announced'[id])}
        /\ announced'[id] = announced[id] => told'[id] = told[id]
        /\ announced'[id] # announced[id] /\ announced'[id] # "cleared"
             => told'[id] = Append(told[id], announced'[id])
    BY <1>0, <1>1, ToldFacts
  <2>6. announced'[id] = "none" => told'[id] = <<>>
    BY <2>1, <2>4, <2>5
  <2>7. announced'[id] = "onset" => id \in unbroken'
    BY <2>1, <2>3, <2>4
  <2>8. ASSUME announced[id] # "none" PROVE told'[id] # <<>> /\ told'[id][1] = "onset"
    BY <2>1, <2>2, <2>5, <2>8
  <2>9. ASSUME announced[id] = "none", announced'[id] # "none"
        PROVE  told'[id] # <<>> /\ told'[id][1] = "onset"
    <3>1. announced'[id] = "onset" /\ told[id] = <<>> /\ told'[id] = Append(told[id], "onset")
      BY <2>1, <2>4, <2>5, <2>9
    <3> QED
      BY <3>1
  <2> QED
    BY <2>6, <2>7, <2>8, <2>9
<1>2. CASE ~Announcing
  <2>1. announced' = announced /\ told' = told
    BY <1>2, WarmUpStories
  <2>2. \A id \in TrackId : announced[id] = "none"
    BY <1>0, <1>2, VisionAssumption DEF VisionInv, WarmUpSilent, Announcing, VisionTypeOK
  <2> QED
    BY <2>1, <2>2 DEF VisionInv, StoriesKept
<1>3. CASE Announcing
  BY <1>1, <1>3 DEF StoriesKept
<1> QED
  BY <1>2, <1>3

LEMMA StepVision ==
    ASSUME VisionInv, NEW boxes \in Frames, Process(boxes)
    PROVE  VisionInv'
PROOF
<1>1. /\ VisionTypeOK
      /\ \A id \in TrackId : id >= nextId => id \notin DOMAIN tracks /\ told[id] = <<>>
  BY DEF VisionInv, FrameCarried
<1>2. IdsGiven
  BY <1>1 DEF IdsGiven, VisionTypeOK
<1>3. PICK takes :
        /\ Carries(boxes, takes)
        /\ Current' = WithBox(takes)
        /\ \A id \in WithBox(takes) : \A k \in takes[id] : tracks'[id].box = boxes[k]
        /\ DOMAIN tracks' \subseteq TrackId
        /\ tracks' \in [DOMAIN tracks' -> Track]
        /\ nextId' \in Nat /\ nextId <= nextId' /\ nextId' <= MaxTracks + 1
        /\ \A id \in DOMAIN tracks' : id < nextId'
  BY <1>1, <1>2, ProcessTracks
<1>4. frame' = boxes /\ now' = now + 1 /\ boxes \in Seq(Box)
  BY VisionAssumption DEF Process
<1>5. nextId \in Nat \ {0} /\ MaxTracks \in Nat
  BY <1>2, IdFacts DEF IdsGiven
<1>6. /\ announced' \in [TrackId -> State \union {"none"}]
      /\ told' \in [TrackId -> Seq(State)]
      /\ Intruding(tracks') = IntrudingOf(tracks')
      /\ Announcing => \A id \in TrackId : announced'[id] = Announced(tracks', id)
      /\ ~Announcing => announced' = announced /\ told' = told
  <2>1. Intruding(tracks') = IntrudingOf(tracks')
    BY UnbrokenFacts
  <2>2. CASE Announcing
    BY <1>1, <2>1, <2>2, ProcessStories
  <2>3. CASE ~Announcing
    <3>1. announced' = announced /\ told' = told
      BY <2>3, WarmUpStories
    <3> QED
      BY <1>1, <2>1, <2>3, <3>1 DEF VisionTypeOK
  <2> QED
    BY <2>2, <2>3
<1>7. VisionTypeOK'
  <2>1. now' \in Nat /\ nextId' \in 1..(MaxTracks + 1)
    BY <1>1, <1>3, <1>4, <1>5 DEF VisionTypeOK
  <2>2. unbroken' \subseteq IntrudingOf(tracks')
    BY UnbrokenFacts
  <2>3. unbroken' \subseteq TrackId
    BY <1>3, <2>2 DEF IntrudingOf
  <2> QED
    BY <1>3, <1>4, <1>6, <2>1, <2>3 DEF VisionTypeOK
<1>8. ASSUME NEW k \in DOMAIN boxes PROVE \E c \in Current' : tracks'[c].box = boxes[k]
  <2>1. PICK id \in TrackId : k \in takes[id]
    BY <1>3 DEF Carries
  <2>2. id \in WithBox(takes)
    BY <2>1 DEF WithBox
  <2> QED
    BY <1>3, <2>1, <2>2
<1>9. ASSUME NEW c \in Current' PROVE \E k \in DOMAIN boxes : tracks'[c].box = boxes[k]
  <2>1. c \in WithBox(takes)
    BY <1>3
  <2>2. PICK k \in takes[c] : k \in DOMAIN boxes
    BY <1>3, <2>1 DEF WithBox, Carries
  <2> QED
    BY <1>3, <2>1, <2>2
<1>10. Cardinality(Current') = Len(boxes)
  BY <1>3, <1>4, CarriesCounts
<1>11. ASSUME NEW id \in TrackId, id >= nextId'
       PROVE  id \notin DOMAIN tracks' /\ told'[id] = <<>>
  <2>1. id \in Nat /\ id >= nextId
    BY <1>3, <1>5, <1>11, IdFacts
  <2>2. id \notin DOMAIN tracks'
    BY <1>3, <1>11, <2>1
  <2>3. told[id] = <<>>
    BY <1>1, <2>1
  <2>4. announced[id] = "none"
    BY <2>3 DEF VisionInv, StoriesKept
  <2>5. id \notin Intruding(tracks')
    BY <1>6, <2>2 DEF IntrudingOf
  <2>6. announced'[id] = "none"
    BY <1>1, <1>6, <2>4, <2>5, AnnouncedFacts
  <2>7. told'[id] = told[id]
    BY <1>1, <1>6, <2>4, <2>6, ToldFacts
  <2> QED
    BY <2>2, <2>3, <2>7
<1>12. FrameCarried'
  BY <1>4, <1>7, <1>8, <1>9, <1>10, <1>11 DEF FrameCarried
<1>13. InsideAnnounced'
  <2> SUFFICES ASSUME now' > WarmUp, NEW c \in Current', Intrudes(tracks'[c].box)
               PROVE  announced'[c] # "none"
    BY DEF InsideAnnounced, Intrudes, InRange, GaugeMargin,
           NearestLateral, Smaller, Abs
  <2>0. Announcing
    BY <1>1, <1>4, VisionAssumption DEF Announcing, VisionTypeOK
  <2>1. c \in DOMAIN tracks' /\ tracks'[c].misses = 0
    BY DEF Current
  <2>2. c \in TrackId /\ c \in Intruding(tracks')
    BY <1>3, <1>6, <2>1 DEF IntrudingOf
  <2> QED
    BY <1>1, <1>6, <2>0, <2>2, AnnouncedFacts
<1>14. StoriesKept'
  BY StepStories
<1>15. WarmUpSilent'
  <2> SUFFICES ASSUME now' <= WarmUp PROVE \A id \in TrackId : announced'[id] = "none"
    BY DEF WarmUpSilent
  <2>1. now <= WarmUp /\ ~Announcing
    BY <1>1, <1>4, VisionAssumption DEF Announcing, VisionTypeOK
  <2> QED
    BY <1>6, <2>1 DEF VisionInv, WarmUpSilent
<1> QED
  BY <1>12, <1>13, <1>14, <1>15 DEF VisionInv

LEMMA VisionHolds == VisionSpec => []VisionInv
PROOF
<1>1. VisionInv /\ [VisionNext]_visionVars => VisionInv'
  <2> SUFFICES ASSUME VisionInv, [VisionNext]_visionVars PROVE VisionInv'
    OBVIOUS
  <2>1. CASE UNCHANGED visionVars
    BY <2>1 DEF visionVars, VisionInv, FrameCarried, VisionTypeOK, Current,
                StoriesKept, InsideAnnounced, WarmUpSilent
  <2>2. CASE VisionNext
    BY <2>2, StepVision DEF VisionNext
  <2> QED
    BY <2>1, <2>2
<1> QED
  BY <1>1, InitVision, PTL DEF VisionSpec

\* Association loses no object and doubles none, however tracks compete for
\* boxes, and no id is given out twice: for any detector, any overlap of boxes
\* and any number of misses a track survives (tracker.py:66-101).
THEOREM FrameCarriedHolds == VisionSpec => []FrameCarried
PROOF
<1>1. VisionInv => FrameCarried
  BY DEF VisionInv
<1> QED
  BY <1>1, VisionHolds, PTL

\* Once the warm-up is over, whatever stands inside the gauge belongs to a track
\* whose onset was published (edge_node.py:353-369).
THEOREM IntrusionToldHolds == VisionSpec => []IntrusionTold
PROOF
<1>1. VisionInv => IntrusionTold
  <2> SUFFICES ASSUME VisionInv, now > WarmUp, NEW k \in DOMAIN frame, Intrudes(frame[k])
               PROVE  \E c \in Current : /\ tracks[c].box = frame[k]
                                         /\ \E j \in DOMAIN told[c] : told[c][j] = "onset"
    BY DEF IntrusionTold
  <2>1. PICK c \in Current : tracks[c].box = frame[k]
    BY DEF VisionInv, FrameCarried
  <2>2. c \in TrackId /\ told[c] \in Seq(State)
    BY DEF VisionInv, FrameCarried, VisionTypeOK, Current
  <2>3. announced[c] # "none"
    BY <2>1 DEF VisionInv, InsideAnnounced
  <2>4. told[c] # <<>> /\ told[c][1] = "onset"
    BY <2>2, <2>3 DEF VisionInv, StoriesKept
  <2>5. 1 \in DOMAIN told[c]
    BY <2>2, <2>4
  <2> QED
    BY <2>1, <2>4, <2>5
<1> QED
  BY <1>1, VisionHolds, PTL

\* What a frame publishes of a track follows from what was seen of it.
LEMMA ProcessStory ==
    ASSUME VisionInv, NEW boxes \in Frames, Process(boxes),
           NEW id \in TrackId, told'[id] # told[id]
    PROVE  TellsStory(id)
PROOF
<1>0. VisionTypeOK /\ FrameCarried' /\ Announcing
  BY StepVision, WarmUpStories DEF VisionInv, FrameCarried
<1>1. /\ told'[id] = Append(told[id], announced'[id])
      /\ announced'[id] # announced[id]
      /\ announced'[id] = "cleared" => id \in Assessed(tracks')
  BY <1>0, ProcessStories DEF Published
<1>2. told[id] \in Seq(State)
  BY <1>0 DEF VisionTypeOK
<1>3. Latest(told'[id]) = announced'[id]
  BY <1>1, <1>2 DEF Latest
<1>4. /\ announced[id] = "none" => told[id] = <<>>
      /\ announced[id] # "none" => told[id] # <<>>
      /\ announced[id] = "onset" => id \in unbroken
  BY DEF VisionInv, StoriesKept
<1>5. /\ announced'[id] = Announced(tracks', id)
      /\ id \in unbroken' <=> /\ id \in Intruding(tracks')
                              /\ announced[id] = "none" \/ id \in unbroken
  BY <1>0, ProcessStories
<1>6. /\ announced'[id] \in State \union {"none"}
      /\ announced'[id] = "none" => announced[id] = "none"
      /\ announced'[id] = "onset" => announced[id] \in {"none", "onset"}
      /\ announced'[id] = "sustained" => announced[id] \in {"onset", "sustained"}
                                         /\ id \in Intruding(tracks')
      /\ announced'[id] = "cleared" /\ announced[id] # "cleared"
           => announced[id] \in {"onset", "sustained"} /\ id \notin Intruding(tracks')
  BY <1>0, <1>5, AnnouncedFacts
<1>7. CASE announced'[id] = "onset"
  BY <1>1, <1>3, <1>4, <1>6, <1>7 DEF TellsStory
<1>8. CASE announced'[id] = "sustained"
  <2>1. id \in unbroken \cap unbroken'
    BY <1>1, <1>4, <1>5, <1>6, <1>8
  <2> QED
    BY <1>3, <1>8, <2>1 DEF TellsStory
<1>9. CASE announced'[id] = "cleared"
  <2>1. told[id] # <<>>
    BY <1>1, <1>4, <1>6, <1>9
  <2>2. /\ id \in DOMAIN tracks' /\ tracks'[id].misses = 0
        /\ ~Intrudes(tracks'[id].box)
    BY <1>1, <1>6, <1>9 DEF Assessed, Intruding
  <2>3. id \in Current'
    BY <2>2 DEF Current
  <2>4. \E k \in DOMAIN frame' : tracks'[id].box = frame'[k]
    BY <1>0, <2>3 DEF FrameCarried
  <2> QED
    BY <1>3, <1>9, <2>1, <2>2, <2>4 DEF TellsStory
<1> QED
  BY <1>1, <1>6, <1>7, <1>8, <1>9 DEF State

\* What is published of a track tells its story: persistence only of an object
\* seen inside in every frame since its onset, release only of one seen outside
\* in that frame (edge_node.py:352-378, pipeline.py:64-80).
THEOREM StoryTrueHolds == VisionSpec => StoryTrue
PROOF
<1>1. VisionInv /\ [VisionNext]_visionVars
        => [\A id \in TrackId : TellsStory(id)]_visionVars
  <2> SUFFICES ASSUME VisionInv, VisionNext, NEW id \in TrackId,
                      told'[id] # told[id]
               PROVE  TellsStory(id)
    BY DEF TellsStory
  <2> QED
    BY ProcessStory DEF VisionNext
<1> QED
  BY <1>1, VisionHolds, PTL DEF VisionSpec, StoryTrue
=============================================================================
