------------------------------ MODULE MCLinear ------------------------------
(***************************************************************************)
(* PipelineRun over the small custom policy.                               *)
(***************************************************************************)
EXTENDS PipelineProperties, LinearPolicy, ExecutionCycleWalk

CONSTANTS LoopCap

LinearCap == [c \in LinearCounters |-> LoopCap]

ASSUME LinearWalkAssumption ==
  \A p \in Phases :
    ExecutionCycleCounter[p] = resolve_execution_cycle_loop_counter(p)

(***************************************************************************)
(* The custom policy has the shapes the theorems of PipelineMoveProofs ask *)
(* for.                                                                    *)
(***************************************************************************)
ASSUME LinearShape ==
  /\ RecoverableShape
  /\ NoCleanupShape
  /\ OverrideWay({"commit"})
  /\ {"commit"} \cap ClosingCommits = {}
  /\ BudgetShape

=============================================================================
