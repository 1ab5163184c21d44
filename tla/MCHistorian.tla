----------------------------- MODULE MCHistorian -----------------------------
(***************************************************************************)
(* Two sections, an operator and a pool of two connections: queries      *)
(* overtake one another, clearings cross detections, a message comes twice *)
(* and the historian restarts once.                                        *)
(***************************************************************************)
EXTENDS Historian, TLC
CONSTANTS s1, s2
MCSection == {s1, s2}
MCOperator == {"ana"}
Symmetry == Permutations(MCSection)
=============================================================================
