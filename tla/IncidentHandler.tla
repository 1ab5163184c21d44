--------------------------- MODULE IncidentHandler ---------------------------
(***************************************************************************)
(* What an ats-core instance does with a track intrusion and with the      *)
(* operator's confirmation: IntrusionHandler                               *)
(* (services/ats-core/src/intrusion.ts) over the topology, with the        *)
(* inhibitions TspController keeps for it.  Pure functions of the          *)
(* instance's memory; IncidentDesk runs them.                              *)
(*                                                                         *)
(* SafetyGuard asks no more than class "basic" of the three effects this   *)
(* path has (alarm, advisory restriction, revoked priority), so it refuses *)
(* none of them to any evidence.                                           *)
(***************************************************************************)
EXTENDS Naturals

CONSTANTS Section,       \* the sections of the topology
          Crossing,      \* the signalled crossings
          NoCrossing,    \* the crossing of a section that has none
          NextOf,        \* TrackSection.next
          CrossingOf     \* TrackSection.crossing_id

ASSUME TopologyAssumption ==
    /\ NextOf \in [Section -> Section]
    /\ CrossingOf \in [Section -> Crossing \union {NoCrossing}]
    /\ NoCrossing \notin Crossing

\* A normalised detection: whether its confidence reaches the threshold of its
\* class, whether it is urgent (a person, or inside the gauge) and whether it
\* has lasted MIN_DWELL_MS.  Section may be one the topology lacks.
DetectionOf(sections) ==
    [section : sections, state : {"onset", "sustained", "cleared"},
     confident : BOOLEAN, urgent : BOOLEAN, persistent : BOOLEAN]

\* Sections from which a train reaches a section of S next.
Previous(S) == {s \in Section : NextOf[s] \in S}

\* upstreamOf(s, 2).
UpstreamOf(s) ==
    LET one == Previous({s}) \ {s}
        two == Previous(one) \ (one \union {s})
    IN one \union two

CrossingsOf(s) == {CrossingOf[x] : x \in {s} \union UpstreamOf(s)} \ {NoCrossing}

\* The detection passes every filter and is not a 'cleared', which is only a
\* candidate for release and changes nothing.
IsIncident(d) ==
    /\ d.confident
    /\ d.section \in Section
    /\ d.state # "cleared"
    /\ d.urgent \/ d.persistent

RestrictionKind(d) == IF d.urgent THEN "advisory_hold" ELSE "advisory_speed_limit"

\* The memory of an instance: the open incidents, each with the crossings it
\* inhibited, and the crossings whose priority is suspended.
Empty == [open |-> [s \in {} |-> {}], inhibited |-> {}]

\* Mutant: a 'cleared' from the edge reopens the section.
MutHandledReopens(core, d) ==
    IF IsIncident(d)
    THEN [open |-> [s \in DOMAIN core.open \union {d.section} |->
                      IF s = d.section THEN CrossingsOf(s) ELSE core.open[s]],
          inhibited |-> core.inhibited \union CrossingsOf(d.section)]
    ELSE IF d.state = "cleared"
    THEN [core EXCEPT !.open = [s \in DOMAIN core.open \ {d.section} |-> core.open[s]]]
    ELSE core

\* handle(msg): an incident is opened, or kept open, and priority is suspended
\* at the crossings of its section and of the two before it.
Handled(core, d) ==
    IF IsIncident(d)
    THEN [open |-> [s \in DOMAIN core.open \union {d.section} |->
                      IF s = d.section THEN CrossingsOf(s) ELSE core.open[s]],
          inhibited |-> core.inhibited \union CrossingsOf(d.section)]
    ELSE core

\* Mutant: the incident is closed and its inhibitions are forgotten.
MutClearedKeepsInhibited(core, s) ==
    IF s \in DOMAIN core.open
    THEN [core EXCEPT !.open = [x \in DOMAIN core.open \ {s} |-> core.open[x]]]
    ELSE core

\* operatorClear(s): the only way an incident is closed.
Cleared(core, s) ==
    IF s \in DOMAIN core.open
    THEN [open |-> [x \in DOMAIN core.open \ {s} |-> core.open[x]],
          inhibited |-> core.inhibited \ core.open[s]]
    ELSE core
=============================================================================
