--------------------------- MODULE FieldAdmission ---------------------------
(***************************************************************************)
(* The uplink from the field: edge nodes (edge/jetson_sim/edge_node.py),   *)
(* the field broker with its retained messages and last wills, the         *)
(* admission pipeline and the ReplayGuard of the ingest-gateway            *)
(* (services/ingest-gateway/src, packages/contracts/src/replay.ts) and     *)
(* the health table of ats-core behind it.                                 *)
(*                                                                         *)
(* A message is known by its boot session and sequence number, which stand *)
(* for its unique id too.  What the stages without memory find wrong with  *)
(* it is its flaw.  Clocks agree, in seconds.                              *)
(***************************************************************************)
EXTENDS Integers, Sequences, FiniteSets

CONSTANTS Src,          \* the edge nodes
          MaxAge,       \* maxAgeMs of the ReplayGuard
          IdCacheSize,  \* ids the ReplayGuard remembers
          RateLimit,    \* rateLimitPerSec
          Flaws,        \* flaws of messages a node may be made to send
          Reported,     \* statuses of its heartbeats while it runs
          MaxClock,     \* bound on time
          MaxSeq,       \* bound on the messages of one boot session
          MaxWire       \* bound on messages on their way to the gateway

\* The stages before the rate limiter and those after it.
BeforeRate == {"oversize", "malformed_json", "schema", "unknown_topic",
               "src_topic_mismatch", "unknown_device", "revoked_device"}
AfterRate == {"zone_not_allowed", "type_not_allowed", "integrity_class_not_allowed",
              "missing_signature", "bad_signature"}
Status == {"ok", "degraded", "fault", "offline"}

ASSUME FieldAssumption ==
    /\ {MaxAge, IdCacheSize, RateLimit, MaxClock, MaxSeq, MaxWire} \subseteq Nat
    /\ Flaws \subseteq BeforeRate \union AfterRate
    /\ Reported \subseteq Status

VARIABLES
    clock,
    node,      \* [Src -> [state, boot, seq, will]]; state: "up", "lost" (the
               \* broker has not noticed yet) or "off"
    retained,  \* [Src -> the set of the message retained under the node's hb topic]
    wire,      \* messages on their way from the field broker to the gateway
    up,        \* the gateway runs
    session,   \* [Src -> SourceState of the ReplayGuard, or NoSession]
    rate,      \* [Src -> RateState of the pipeline]
    health,    \* [Src -> what ats-core last heard: [status, id], or Unknown]
    admitted   \* history: [Src -> what has passed in this life of the gateway]

nodeVars == <<node, retained>>
guardVars == <<session, rate, admitted>>
vars == <<clock, nodeVars, wire, up, guardVars, health>>

NoSession == [boot |-> -1, lastSeq |-> -1, order |-> <<>>]
NoRate == [windowStart |-> -1, count |-> 0]
Unknown == [status |-> "unknown", id |-> <<-1, -1>>]

Id(m) == <<m.boot, m.seq>>
Message(s, boot, seq, body, flaw) ==
    [src |-> s, boot |-> boot, seq |-> seq, ts |-> clock, body |-> body, flaw |-> flaw]

-----------------------------------------------------------------------------
\* The broker passes on what arrives, if the gateway is connected: its session
\* is clean, nothing is kept for it.
PublishAll(M) == IF up THEN wire \union M ELSE wire

\* EdgeNode.__init__: the boot session is the time of the start, and building
\* the last will takes the first sequence number.
StartNode(s) ==
    /\ node[s].state = "off"
    /\ node[s].boot < clock
    /\ node' = [node EXCEPT ![s] =
                  [state |-> "up", boot |-> clock, seq |-> 1,
                   will |-> {Message(s, clock, 1, "offline", "none")}]]
    /\ UNCHANGED <<clock, retained, wire, up, guardVars, health>>

\* envelope_message and publish.
Send(s, body, flaw) ==
    LET m == Message(s, node[s].boot, node[s].seq + 1, body, flaw) IN
    /\ node[s].seq < MaxSeq
    /\ Cardinality(wire) < MaxWire
    /\ wire' = PublishAll({m})
    /\ retained' = IF body \in Status THEN [retained EXCEPT ![s] = {m}] ELSE retained

\* heartbeat, intrusion, and what the spoof scenario sends.
Report(s) ==
    /\ node[s].state = "up"
    /\ \/ \E status \in Reported : Send(s, status, "none")
       \/ \E flaw \in Flaws \union {"none"} : Send(s, "intrusion", flaw)
    /\ node' = [node EXCEPT ![s].seq = @ + 1]
    /\ UNCHANGED <<clock, up, guardVars, health>>

\* stop: a last heartbeat, and a disconnection that cancels the will.
StopNode(s) ==
    /\ node[s].state = "up"
    /\ Send(s, "offline", "none")
    /\ node' = [node EXCEPT ![s].state = "off", ![s].seq = @ + 1]
    /\ UNCHANGED <<clock, up, guardVars, health>>

CrashNode(s) ==
    /\ node[s].state = "up"
    /\ node' = [node EXCEPT ![s].state = "lost"]
    /\ UNCHANGED <<clock, retained, wire, up, guardVars, health>>

\* The keepalive runs out: the broker publishes the will.
PublishWill(s) ==
    /\ node[s].state = "lost"
    /\ Cardinality(wire) < MaxWire
    /\ wire' = PublishAll(node[s].will)
    /\ retained' = [retained EXCEPT ![s] = node[s].will]
    /\ node' = [node EXCEPT ![s].state = "off"]
    /\ UNCHANGED <<clock, up, guardVars, health>>

-----------------------------------------------------------------------------
Stale(m) == clock - m.ts > MaxAge

\* Mutant: the first boot seen is kept.
MutCheckOneBoot(m) ==
    LET st == session[m.src] IN
    CASE Stale(m) -> "stale"
      [] OTHER -> IF st = NoSession \/ (m.boot = st.boot /\ m.seq > st.lastSeq)
                  THEN "accept" ELSE "replayed_seq"

\* Mutant: the ids remembered are the only guard within a session.
MutCheckIdsOnly(m) ==
    LET st == session[m.src] IN
    CASE Stale(m) -> "stale"
      [] ~Stale(m) /\ \E k \in DOMAIN st.order : st.order[k] = Id(m) -> "duplicate"
      [] OTHER -> IF m.boot < st.boot THEN "stale_boot" ELSE "accept"

\* Mutant: a message of an earlier boot is taken.
MutCheckAnyBoot(m) ==
    LET st == session[m.src] IN
    CASE Stale(m) -> "stale"
      [] OTHER -> IF m.boot = st.boot /\ m.seq <= st.lastSeq THEN "replayed_seq" ELSE "accept"

\* ReplayGuard.check: a source without a session opens one at the boot the
\* message names, so what is not stale is accepted.
Check(m) ==
    LET st == session[m.src] IN
    CASE Stale(m) -> "stale"
      [] ~Stale(m) /\ \E k \in DOMAIN st.order : st.order[k] = Id(m) -> "duplicate"
      [] OTHER -> IF st = NoSession \/ m.boot > st.boot THEN "accept"
                  ELSE IF m.boot < st.boot THEN "stale_boot"
                  ELSE IF m.seq <= st.lastSeq THEN "replayed_seq" ELSE "accept"

\* Mutant: a new boot does not restart the count.
MutRememberedCount(m) ==
    LET old == session[m.src] IN
    [boot |-> m.boot, lastSeq |-> IF m.seq > old.lastSeq THEN m.seq ELSE old.lastSeq,
     order |-> Append(old.order, Id(m))]

\* The session as an accepted message leaves it; the cache of ids is FIFO and
\* outlives a change of boot.
Remembered(m) ==
    LET order == Append(session[m.src].order, Id(m)) IN
    [boot |-> m.boot, lastSeq |-> m.seq,
     order |-> IF Len(order) > IdCacheSize THEN Tail(order) ELSE order]

\* The rate window with one more message; a count past the limit is not told
\* from another.
Counted(s) ==
    IF rate[s] = NoRate \/ clock - rate[s].windowStart >= 1
    THEN [windowStart |-> clock, count |-> 1]
    ELSE [rate[s] EXCEPT !.count = IF @ > RateLimit THEN @ ELSE @ + 1]

\* AdmissionPipeline.admit: the stage that refuses, or "none".
Stage(m) ==
    IF m.flaw \in BeforeRate THEN m.flaw
    ELSE IF Counted(m.src).count > RateLimit THEN "rate_limited"
    ELSE IF m.flaw # "none" THEN m.flaw
    ELSE IF Check(m) # "accept" THEN "replay" ELSE "none"

\* field.on('message'), and ats-core's onHealth at the end of the route.  With
\* QoS 1 the message may come again.
Receive(m, again) ==
    LET s == m.src
        passes == Stage(m) = "none"
    IN
    /\ up
    /\ m \in wire
    /\ wire' = IF again THEN wire ELSE wire \ {m}
    /\ rate' = IF m.flaw \in BeforeRate THEN rate ELSE [rate EXCEPT ![s] = Counted(s)]
    /\ session' = IF passes THEN [session EXCEPT ![s] = Remembered(m)] ELSE session
    /\ admitted' = IF passes THEN [admitted EXCEPT ![s] = @ \union {Id(m)}] ELSE admitted
    /\ health' = IF passes /\ m.body \in Status
                 THEN [health EXCEPT ![s] = [status |-> m.body, id |-> Id(m)]]
                 ELSE health
    /\ UNCHANGED <<clock, nodeVars, up>>

\* A connection of the gateway to the field broker brings the retained
\* messages; what was on its way is gone.
Reconnect ==
    /\ up
    /\ wire' = UNION {retained[s] : s \in Src}
    /\ UNCHANGED <<clock, nodeVars, up, guardVars, health>>

CrashGateway ==
    /\ up
    /\ up' = FALSE
    /\ wire' = {}
    /\ UNCHANGED <<clock, nodeVars, guardVars, health>>

StartGateway ==
    /\ ~up
    /\ up' = TRUE
    /\ wire' = UNION {retained[s] : s \in Src}
    /\ session' = [s \in Src |-> NoSession]
    /\ rate' = [s \in Src |-> NoRate]
    /\ admitted' = [s \in Src |-> {}]
    /\ UNCHANGED <<clock, nodeVars, health>>

RestartAts ==
    /\ health' = [s \in Src |-> Unknown]
    /\ UNCHANGED <<clock, nodeVars, wire, up, guardVars>>

Second ==
    /\ clock < MaxClock
    /\ clock' = clock + 1
    /\ UNCHANGED <<nodeVars, wire, up, guardVars, health>>

-----------------------------------------------------------------------------
Init ==
    /\ clock = 1
    /\ node = [s \in Src |-> [state |-> "off", boot |-> 0, seq |-> 0, will |-> {}]]
    /\ retained = [s \in Src |-> {}]
    /\ wire = {}
    /\ up = TRUE
    /\ session = [s \in Src |-> NoSession]
    /\ rate = [s \in Src |-> NoRate]
    /\ health = [s \in Src |-> Unknown]
    /\ admitted = [s \in Src |-> {}]

Next ==
    \/ \E s \in Src : StartNode(s) \/ Report(s) \/ StopNode(s) \/ CrashNode(s) \/ PublishWill(s)
    \/ \E m \in wire, again \in BOOLEAN : Receive(m, again)
    \/ Reconnect \/ CrashGateway \/ StartGateway \/ RestartAts \/ Second

Spec == Init /\ [][Next]_vars

-----------------------------------------------------------------------------
Last(s) == <<session[s].boot, session[s].lastSeq>>
Built(s) == <<node[s].boot, node[s].seq>>
Feed == INSTANCE OrderedFeed

MessageType ==
    [src : Src, boot : Nat, seq : Nat, ts : Nat,
     body : Status \union {"intrusion"}, flaw : Flaws \union {"none"}]

TypeOK ==
    /\ clock \in Nat /\ up \in BOOLEAN
    /\ node \in [Src -> [state : {"up", "lost", "off"}, boot : Nat, seq : Nat,
                         will : SUBSET MessageType]]
    /\ retained \in [Src -> SUBSET MessageType] /\ wire \subseteq MessageType
    /\ session \in [Src -> [boot : Int, lastSeq : Int, order : Seq(Nat \X Nat)]]
    /\ rate \in [Src -> [windowStart : Int, count : Nat]]
    /\ health \in [Src -> [status : Status \union {"unknown"}, id : Int \X Int]]
    /\ admitted \in [Src -> SUBSET (Nat \X Nat)]

\* What passed is summed up by the session: nothing that passed comes after its
\* last message, and the ids remembered are ids that passed.
SessionsSumUp ==
    \A s \in Src :
        /\ Len(session[s].order) <= IdCacheSize
        /\ \A k \in DOMAIN session[s].order : session[s].order[k] \in admitted[s]
        /\ session[s] = NoSession => admitted[s] = {}
        /\ session[s] # NoSession =>
              /\ Last(s) \in admitted[s]
              /\ \A d \in admitted[s] : d = Last(s) \/ Feed!Before(d, Last(s))

\* Nothing is anywhere that its device has not built.
BuiltBefore(s, id) == id = Built(s) \/ Feed!Before(id, Built(s))

NothingInvented ==
    /\ \A m \in wire : BuiltBefore(m.src, Id(m))
    /\ \A s \in Src :
          /\ \A m \in retained[s] : m.src = s /\ BuiltBefore(s, Id(m))
          /\ \A d \in admitted[s] : BuiltBefore(s, d)
          /\ \A m \in node[s].will : m.src = s /\ BuiltBefore(s, Id(m))

\* What ats-core knows of a device's health is not newer than the session; with
\* no session, nothing but heartbeats older than what it knows can come first.
HealthBehind ==
    \A s \in Src :
        /\ \A m \in retained[s] \union node[s].will : m.body \in Status
        /\ health[s] # Unknown =>
              /\ BuiltBefore(s, health[s].id)
              /\ session[s] # NoSession => health[s].id = Last(s) \/ Feed!Before(health[s].id, Last(s))
              /\ session[s] = NoSession =>
                    \A m \in wire : m.src = s /\ m.body \notin Status => Feed!Before(health[s].id, Id(m))

\* The invariant: types, a guard whose one session and bounded cache of ids
\* stand for everything that passed in this life of the gateway (replay.ts:
\* 100-121), no message nor session ahead of the device, and no health newer
\* than what passed.
FieldInv == TypeOK /\ SessionsSumUp /\ NothingInvented /\ HealthBehind

\* The guard that stops replays shuts nobody out: whatever restarts, reorders
\* and refusals went before, the newest message of a device is accepted if it
\* is fresh and has not passed already (replay.ts:75-121).
NewestAccepted ==
    \A m \in wire :
        Id(m) = Built(m.src) /\ ~Stale(m) /\ Id(m) \notin admitted[m.src]
            => Check(m) = "accept"

\* While the gateway knows a device, the picture ats-core has of its health
\* never goes back to an earlier report (ats-core/main.ts:225-229).
HealthNeverGoesBack ==
    [][\A s \in Src :
          session[s] # NoSession /\ Unknown \notin {health[s], health'[s]}
              => health'[s] = health[s] \/ Feed!Before(health[s].id, health'[s].id)]_vars

\* The gateway implements the feed it promises: at most once, in the order the
\* device built, in one life (replay.ts:1-28).
ImplementsOrderedFeed == Feed!FeedSpec

\* The comment of edge_node.py:127-130: if the node falls, the broker publishes
\* this offline, so that a dead camera is not silence.  Then the will of a
\* node's last session would pass the gateway when it comes.
WillAdmitted ==
    \A m \in wire :
        m \in node[m.src].will /\ node[m.src].state = "off" /\ Id(m) \notin admitted[m.src]
            => Check(m) = "accept"
=============================================================================
