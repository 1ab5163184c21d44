----------------------------- MODULE MCTspLoop -----------------------------
(***************************************************************************)
(* TspLoop with two replicas and a crossing whose plan is standardPhases   *)
(* scaled down: a VLT and a cross phase, every duration a few seconds.     *)
(***************************************************************************)
EXTENDS TspLoop

CONSTANTS a, b

Timing(min, max, split) ==
    [minGreen |-> min, maxGreen |-> max, yellow |-> 1, allRed |-> 1, splitGreen |-> split]
MCPlan == <<Timing(1, 2, 1), Timing(1, 2, 2)>>

MCInstance == {a, b}

At(crossing, eta, delay, class) ==
    [crossing |-> crossing, eta |-> eta, delay |-> delay, class |-> class]

\* Late trains past the crossing, near it and far from it, and one for each
\* reason not to ask.
MCPositions ==
    {At(TRUE, -2, 1, "sil2"), At(TRUE, 0, 1, "sil2"), At(TRUE, 1, 1, "sil2"), At(TRUE, 2, 1, "sil4"),
     At(FALSE, 0, 1, "sil2"), At(TRUE, 0, 0, "sil2"), At(TRUE, 0, 1, "basic")}
=============================================================================
