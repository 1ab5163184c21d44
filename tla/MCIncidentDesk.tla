--------------------------- MODULE MCIncidentDesk ---------------------------
(***************************************************************************)
(* IncidentDesk over line 2, as services/ats-core/src/topology.ts:44-60    *)
(* has it: a one-way loop of seven sections, five of them with a crossing. *)
(***************************************************************************)
EXTENDS IncidentDesk

CONSTANTS a, b,                                  \* two ats-core instances
          S11, S12, S13, S14, S15, S16, S17,     \* L2-S11 to L2-S17
          S99,                                   \* a section nobody knows
          AnaCosta, FGlicerio, CamposMello, JoaoPessoa, Constituicao

MCInstance == {a, b}

Loop == <<S11, S12, S13, S14, S15, S16, S17>>
Exits == <<AnaCosta, FGlicerio, CamposMello, JoaoPessoa, NoCrossing, NoCrossing, Constituicao>>

MCSection == {Loop[k] : k \in 1..7}
MCCrossing == {Exits[k] : k \in 1..7} \ {NoCrossing}
Position(s) == CHOOSE k \in 1..7 : Loop[k] = s
MCNextOf == [s \in MCSection |-> Loop[(Position(s) % 7) + 1]]
MCCrossingOf == [s \in MCSection |-> Exits[Position(s)]]

Seen(s, state, urgent, persistent) ==
    [section |-> s, state |-> state, confident |-> TRUE, urgent |-> urgent,
     persistent |-> persistent]

\* A person on a section, debris there and on the section before it (which
\* shares crossings with it and has one without a crossing behind it), the
\* first reported clear, a glimpse, and an unknown section.
MCDetections == {Seen(S12, "onset", TRUE, FALSE), Seen(S12, "sustained", FALSE, TRUE),
                 Seen(S11, "onset", FALSE, TRUE), Seen(S12, "cleared", TRUE, FALSE),
                 Seen(S11, "onset", FALSE, FALSE), Seen(S99, "onset", TRUE, FALSE)}
=============================================================================
