---------------------------- MODULE MCEdgeVision ----------------------------
(***************************************************************************)
(* Frames of up to two boxes out of four: two inside the gauge and one     *)
(* just outside it, each overlapping the others, and one inside but out of *)
(* range, which overlaps the nearer ones too.  A box may move or vanish    *)
(* between frames, and reappear.  The first frame is the warm-up's.        *)
(***************************************************************************)
EXTENDS EdgeVision
MCBox(lo, lon) == [lo |-> lo, hi |-> lo + 3, lon |-> lon]
MCBoxes == {MCBox(0, 1), MCBox(1, 1), MCBox(2, 1), MCBox(0, 2)}
MCFrames == {<<>>} \union {<<b>> : b \in MCBoxes}
            \union ({<<b, c>> : b \in MCBoxes, c \in MCBoxes} \ {<<b, b>> : b \in MCBoxes})
=============================================================================
