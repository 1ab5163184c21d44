------------------------- MODULE MCSignalController -------------------------
(***************************************************************************)
(* SignalController with the timing plan every emulated controller runs    *)
(* (standardPhases, services/ntcip-emulator/src/main.ts:49-56).            *)
(***************************************************************************)
EXTENDS SignalController

Timing(min, max, split) ==
    [minGreen |-> min, maxGreen |-> max, yellow |-> 3, allRed |-> 2, splitGreen |-> split]

\* The VLT, the cross street, pedestrians and turning traffic.
MCPlan == <<Timing(8, 45, 22), Timing(12, 50, 28), Timing(7, 25, 12)>>
=============================================================================
