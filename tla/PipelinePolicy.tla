--------------------------- MODULE PipelinePolicy ---------------------------
(***************************************************************************)
(* The compiled pipeline policy: the phase graph, the loop and budget      *)
(* counters, the post-commit routes and the two timeboxes that the         *)
(* reducer reads (ralph/policy/models.py, ralph/policy/defaults/           *)
(* pipeline.toml).  Every other module takes the policy from here, so a    *)
(* theorem holds for every policy that satisfies the assumptions below.    *)
(*                                                                         *)
(* Names are strings, as in the code; NONE is Python's None.  Seconds are  *)
(* counted in abstract units.  The policy tracks one budget counter (the   *)
(* bundled one is `iteration').                                            *)
(***************************************************************************)
EXTENDS Integers, FiniteSets

NONE == "none"

CONSTANTS
  Phases,               \* names of the declared phases, terminals included
  entry_phase,
  terminal_phase,       \* the success terminal
  failed_route,         \* recovery.failed_route, the failure terminal
  Role,                 \* PhaseDefinition.role
  OnSuccess,            \* transitions.on_success
  OnLoopback,           \* transitions.on_loopback, or NONE
  WorkflowFallback,     \* workflow_fallback.target, or NONE
  LoopCounters,         \* names of the declared loop counters
  Cap,                  \* loop_counters[c].default_max
  LoopCounter,          \* loop_policy.iteration_state_field, or NONE
  LoopResets,           \* loop_resets of a commit phase
  Decisions,            \* decision vocabulary of the analysis artifacts
  Route,                \* decisions.get(d); its target is NONE if undeclared
  Outcomes,             \* cycle outcomes
  Statuses,             \* statuses of an execution result
  ResultOverride,       \* result_status_post_commit.get(status), or NONE
  GateUpstream,         \* invocation_gate.upstream_execution_phase, or NONE
  GateMinimum,          \* invocation_gate.minimum_elapsed_seconds
  AlwaysInvoke,         \* invocation_gate.always_invoke_statuses
  ExecutionCycleCounter,\* resolve_execution_cycle_loop_counter, or NONE
  ClosingCommits,       \* commit phases governed by the budget counter
  Lifecycle,            \* the ones declared in lifecycle_phases
  SkippedAdvances,      \* the ones with skipped_advances_progress
  BudgetCap,            \* budget_counters.iteration.default_max
  PostCommitRoute,      \* first matching post_commit_routes entry, or NONE
  CommitRecoveryPhase,  \* _resolve_commit_recovery_phase, or NONE
  HasCycleTimebox, cycle_timebox,
  HasDevelopmentTimebox, development_timebox,
  cycle_cap             \* recovery.cycle_cap

Roles == {"execution", "analysis", "commit_cleanup", "commit", "terminal"}

BudgetStates == {"remaining", "no_review"}

OrNone(S) == S \cup {NONE}

DecisionRoutes ==
  [target : OrNone(Phases), reset_loop : BOOLEAN, cycle_outcome : OrNone(Outcomes)]

CycleTimeboxPolicies ==
  [duration_seconds : Nat, start_source : Phases, start_entry : Phases,
   guarded_entry : Phases, end_entry : Phases, finalization_target : Phases,
   finalization_cycle_outcome : OrNone(Outcomes)]

DevelopmentTimeboxPolicies ==
  [warning_seconds : Nat, start_entry : Phases, guarded_entry : Phases,
   end_entry : Phases, finalization_target : Phases]

ASSUME NamesAssumption ==
  /\ NONE \notin Phases \cup LoopCounters \cup Outcomes \cup Statuses
  /\ {entry_phase, terminal_phase, failed_route} \subseteq Phases
  /\ "completed" \in Decisions \cap Outcomes
  /\ "failed" \in Statuses

ASSUME GraphAssumption ==
  /\ Role \in [Phases -> Roles]
  /\ OnSuccess \in [Phases -> Phases]
  /\ OnLoopback \in [Phases -> OrNone(Phases)]
  /\ WorkflowFallback \in [Phases -> OrNone(Phases)]
  /\ Role[terminal_phase] = "terminal" /\ Role[failed_route] = "terminal"
  /\ Route \in [Phases -> [Decisions -> DecisionRoutes]]
  /\ \A p \in Phases, d \in Decisions :
       Route[p][d].target = NONE => Route[p][d].cycle_outcome = NONE
  /\ ResultOverride \in [Phases -> [Statuses -> OrNone(Phases)]]
  /\ CommitRecoveryPhase \in [Phases -> OrNone(Phases)]
  /\ \A p \in Phases : CommitRecoveryPhase[p] # p

ASSUME CountersAssumption ==
  /\ Cap \in [LoopCounters -> Nat]
  /\ LoopCounter \in [Phases -> OrNone(LoopCounters)]
  /\ LoopResets \in [Phases -> SUBSET LoopCounters]
  /\ ExecutionCycleCounter \in [Phases -> OrNone(LoopCounters)]
  /\ GateUpstream \in [Phases -> OrNone(Phases)]
  /\ GateMinimum \in Nat
  /\ AlwaysInvoke \subseteq Statuses

ASSUME BudgetAssumption ==
  /\ ClosingCommits \subseteq {p \in Phases : Role[p] = "commit"}
  /\ Lifecycle \subseteq ClosingCommits
  /\ SkippedAdvances \subseteq ClosingCommits
  /\ BudgetCap \in Nat \ {0}
  /\ PostCommitRoute \in
       [ClosingCommits -> [BudgetStates -> [OrNone(Outcomes) -> OrNone(Phases)]]]
  /\ cycle_cap \in Nat \ {0}

ASSUME TimeboxAssumption ==
  /\ HasCycleTimebox \in BOOLEAN
  /\ HasDevelopmentTimebox \in BOOLEAN
  /\ cycle_timebox \in CycleTimeboxPolicies
  /\ development_timebox \in DevelopmentTimeboxPolicies

(***************************************************************************)
(* At most two looping phases follow each other along the success          *)
(* transitions.  The bundled graph's longest chain is development_analysis *)
(* followed by development_final_commit_cleanup.                           *)
(***************************************************************************)
ASSUME BypassDepthAssumption ==
  \A p \in Phases :
    LoopCounter[p] # NONE /\ LoopCounter[OnSuccess[p]] # NONE
      => LoopCounter[OnSuccess[OnSuccess[p]]] = NONE

Forward == "completed"

GateUpstreams == {GateUpstream[p] : p \in Phases} \ {NONE}

(***************************************************************************)
(* The outcome a phase stamps on its forward exit, or NONE.                *)
(***************************************************************************)
declared_forward_cycle_outcome(p) == Route[p][Forward].cycle_outcome

TerminalStates == {p \in Phases : Role[p] = "terminal"}

=============================================================================
