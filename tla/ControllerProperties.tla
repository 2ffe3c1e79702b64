------------------------ MODULE ControllerProperties ------------------------
(***************************************************************************)
(* What the recovery controller promises.                                  *)
(***************************************************************************)
EXTENDS RecoveryController

(***************************************************************************)
(* Demotion is earned and remembered: an agent is spent exactly when its   *)
(* unproductive attempts have reached the limit, and cools down only after *)
(* a full streak of them, whichever of the invocation, the reducer and the *)
(* controller charged them (AgentFailureLedger.record).                    *)
(***************************************************************************)
DemotionIsEarned ==
  \A a \in Agents :
    /\ ledger[a].is_spent <=> ledger[a].total >= total_limit
    /\ ledger[a].cooldown # NoDeadline =>
         ledger[a].consecutive >= consecutive_limit /\ ~ledger[a].is_spent

(***************************************************************************)
(* Recovery is bounded: neither the cycles nor the epochs ever pass their  *)
(* bound, wherever the count was raised (_handle_retry_progression calls   *)
(* itself the funnel where the cap has to fire).                           *)
(***************************************************************************)
RecoveryIsBounded ==
  cycle_count <= cycle_cap /\ epoch <= MAX_RECOVERY_EPOCHS

(***************************************************************************)
(* A running agent is one in good standing: no agent runs while a cooldown,*)
(* an outage or a spent allowance rules it out, although these were looked *)
(* at when it was selected and time and charges have passed since          *)
(* (_prepare_pipeline_step_dispatch, preferred_agent_index).               *)
(***************************************************************************)
RunningAgentIsEligible ==
  control = "running" =>
    /\ is_agent_available(ledger, tracker, current)
    /\ current \notin spent_agents

(***************************************************************************)
(* A spent agent stays spent: record forgives everything on a valid        *)
(* artifact, but no path runs a spent agent again to produce one.  This is *)
(* what agent_failure_ledger.py:5 and docs/agents/broken-agent-detection.md*)
(* :60 say ("permanently"), and the contrary of what controller.py:105-108 *)
(* says ("There is NEVER a state where we skip an agent permanently.  All  *)
(* agents are recoverable"), repeated in CONTRIBUTING.md:425 and 485.      *)
(***************************************************************************)
SpentIsForGood ==
  [][\A a \in Agents : ledger[a].is_spent => ledger'[a].is_spent]_controller_vars

(***************************************************************************)
(* A phase that keeps failing is given up: the run does not go round in    *)
(* retries, fallovers, waits and re-entries for ever.                      *)
(***************************************************************************)
FailingPhaseIsGivenUp == []<>(control \in {"stopped", "elsewhere"})

=============================================================================
