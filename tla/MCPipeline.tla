----------------------------- MODULE MCPipeline -----------------------------
(***************************************************************************)
(* Small instances of Pipeline: five stages and four programs of twelve    *)
(* instructions.  All branch from 2 to 5, over instructions that are       *)
(* fetched for nothing.  The first loops; the second falls into the system *)
(* call at 10 and the third branches to it, and both start over after it;  *)
(* the fourth runs off the memory.  Every instruction but a branch may     *)
(* stall in every stage from the one of the branches on.  The conditions   *)
(* of the theorems hold, CallsDrain with 7 = (5 - 2) * 2 + 1.              *)
(***************************************************************************)
EXTENDS Pipeline, TLC

MCTargets == {(2 :> 5) @@ (5 :> 0), 2 :> 5, (2 :> 5) @@ (5 :> 10), (2 :> 5) @@ (5 :> 11)}
MCMayStall == [s \in 2..5 |-> IF s < 3 THEN {} ELSE {0, 1, 3, 4, 6, 7, 8, 9, 11}]
MCSysCalls == {10}
MCReturn == 0

ASSUME MCConditions ==
    InOrder => BranchesBeforeStalls /\ NoCallBehindBranch /\ CallsDrain
=============================================================================
