------------------------------ MODULE Handoffs ------------------------------
(***************************************************************************)
(* Where a route really leads (ralph/pipeline/handoffs.py): looping phases *)
(* whose budget is spent are passed over, and a commit that closes a cycle *)
(* is routed by the budget and the verdict of that cycle.                  *)
(***************************************************************************)
EXTENDS Progress

(***************************************************************************)
(* A recorded verdict outranks an outcome no phase has pronounced.         *)
(***************************************************************************)
stamp_if_unrecorded(s, outcome) ==
  IF s.pending_cycle_outcome = NONE
  THEN [s EXCEPT !.pending_cycle_outcome = outcome]
  ELSE s

is_exhausted(s, p) ==
  /\ LoopCounter[p] # NONE
  /\ should_skip_reentry(s.loop_iterations[LoopCounter[p]], Cap[LoopCounter[p]])

(***************************************************************************)
(* resolve_exhausted_analysis_bypass: one turn of its loop, and the loop,  *)
(* which takes at most two turns (BypassDepthAssumption).                  *)
(***************************************************************************)
bypass_exhausted_phase(b) ==
  IF is_exhausted(b.state, b.target)
  THEN [state |-> stamp_if_unrecorded(
                    with_loop_iteration(b.state, LoopCounter[b.target], 0),
                    declared_forward_cycle_outcome(b.target)),
        target |-> OnSuccess[b.target],
        skipped |-> b.skipped \cup {b.target}]
  ELSE b

resolve_exhausted_analysis_bypass(s, candidate) ==
  bypass_exhausted_phase(
    bypass_exhausted_phase(
      [state |-> s, target |-> candidate, skipped |-> {}]))

commit_closes_a_cycle(p) == p \in ClosingCommits

\* Mutant: allows one cycle too many
compute_budget_state_late(s) ==
  IF s.iteration <= BudgetCap THEN "remaining" ELSE "no_review"

compute_budget_state(s) ==
  IF s.iteration < BudgetCap THEN "remaining" ELSE "no_review"

(***************************************************************************)
(* The candidate outcomes in order: the recorded one, or none at all and   *)
(* then the forward outcome.                                               *)
(***************************************************************************)
post_commit_route(s) ==
  LET routes == PostCommitRoute[s.phase][compute_budget_state(s)] IN
  IF routes[s.pending_cycle_outcome] = NONE /\ s.pending_cycle_outcome = NONE
  THEN routes[Forward]
  ELSE routes[s.pending_cycle_outcome]

resolve_post_commit_phase(s) ==
  IF s.post_commit_phase_override # NONE
  THEN s.post_commit_phase_override
  ELSE IF commit_closes_a_cycle(s.phase) /\ post_commit_route(s) # NONE
       THEN post_commit_route(s)
       ELSE OnSuccess[s.phase]

=============================================================================
