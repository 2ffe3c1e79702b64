------------------------- MODULE ExecutionCycleWalk -------------------------
(***************************************************************************)
(* resolve_execution_cycle_loop_counter of ralph/pipeline/progress.py: the *)
(* walk along the success transitions that finds the analysis phase which  *)
(* loops back to the phase the walk started from.  The other modules take  *)
(* its result as the constant ExecutionCycleCounter; the models assume the *)
(* two equal.                                                              *)
(***************************************************************************)
EXTENDS PipelinePolicy

RECURSIVE walk(_, _, _)
walk(origin, current, visited) ==
  IF current \in visited
  THEN NONE
  ELSE IF /\ Role[current] = "analysis"
          /\ LoopCounter[current] # NONE
          /\ OnLoopback[current] = origin
       THEN LoopCounter[current]
       ELSE walk(origin, OnSuccess[current], visited \cup {current})

resolve_execution_cycle_loop_counter(p) == walk(p, p, {})

=============================================================================
