---------------------------- MODULE PolicyShapes ----------------------------
(***************************************************************************)
(* What a policy must look like for the properties that depend on its      *)
(* graph.  Policy validation (ralph/policy/models.py) does not ask for all *)
(* of it, so these are hypotheses of the theorems and not assumptions of   *)
(* the model; the bundled policy is checked to have them.                  *)
(***************************************************************************)
EXTENDS PipelineRun

(***************************************************************************)
(* A set of phases that no deadline and no exhausted phase leads out of:   *)
(* an advance aimed into it lands in it.                                   *)
(***************************************************************************)
Closed(W) ==
  /\ HasCycleTimebox /\ cycle_timebox.guarded_entry \in W
       => cycle_timebox.finalization_target \in W
  /\ HasDevelopmentTimebox /\ development_timebox.guarded_entry \in W
       => development_timebox.finalization_target \in W
  /\ \A p \in W \cap Phases : LoopCounter[p] # NONE => OnSuccess[p] \in W

(***************************************************************************)
(* The outcomes a cycle can be given: by a decision of analysis, on the    *)
(* forward exit of a phase, or by the cycle deadline.                      *)
(***************************************************************************)
Pronounced ==
  {Route[p][d].cycle_outcome : p \in Phases, d \in Decisions}
  \cup IF HasCycleTimebox THEN {cycle_timebox.finalization_cycle_outcome} ELSE {}

(***************************************************************************)
(* A run has somewhere to go back to: neither the entry nor a phase that a *)
(* deadline guards is a terminal, and a plan may be missing twice in a row *)
(* before the failed route.  (With a cycle_cap of 1 the second missing     *)
(* plan leads from the failed route to the failed route while the loop     *)
(* still goes on.)                                                         *)
(***************************************************************************)
RecoverableShape ==
  /\ entry_phase \notin TerminalStates
  /\ HasCycleTimebox => cycle_timebox.guarded_entry \notin TerminalStates
  /\ HasDevelopmentTimebox => development_timebox.guarded_entry \notin TerminalStates
  /\ cycle_cap >= MAX_RECOVERY_EPOCHS - 1

(***************************************************************************)
(* No cleanup phase carries a prepared message from one commit to another. *)
(***************************************************************************)
NoCleanupShape == \A p \in Phases : Role[p] # "commit_cleanup"

(***************************************************************************)
(* The way of a pending route: from where it is set up, by a result or by  *)
(* the development deadline, the phases of W lead only to each other until *)
(* a commit among them uses it up.                                         *)
(***************************************************************************)
OverrideWay(W) ==
  /\ W \subseteq Phases
  /\ Closed(W)
  /\ W \cap (RequiresPlan \cup {entry_phase}) = {}
  /\ HasCycleTimebox => cycle_timebox.guarded_entry # failed_route
  /\ HasDevelopmentTimebox =>
       /\ development_timebox.guarded_entry # failed_route
       /\ development_timebox.finalization_target \in W
  /\ \A p \in ReportsResult :
       (\E status \in Statuses : ResultOverride[p][status] # NONE)
         => OnSuccess[p] \in W
  /\ \A p \in W :
       /\ Role[p] \in {"commit_cleanup", "commit"}
       /\ Role[p] = "commit_cleanup" => OnSuccess[p] \in W
       /\ {OnLoopback[p], WorkflowFallback[p], CommitRecoveryPhase[p]}
            \subseteq OrNone(W)

(***************************************************************************)
(* Where a commit that closes a cycle leads, by the budget left and the    *)
(* verdict (resolve_post_commit_phase, no route pending).                  *)
(***************************************************************************)
after_closing(p, budget, outcome) ==
  LET routes == PostCommitRoute[p][budget]
      route == IF routes[outcome] = NONE /\ outcome = NONE
               THEN routes[Forward] ELSE routes[outcome]
  IN  IF route # NONE THEN route ELSE OnSuccess[p]

SuccessTerminals == TerminalStates \ {failed_route}

Underway == Phases \ SuccessTerminals

(***************************************************************************)
(* Only a commit that closes the last cycle leads to a success terminal,   *)
(* whatever verdict was pronounced on that cycle.                          *)
(***************************************************************************)
BudgetShape ==
  /\ Closed(Underway) /\ Closed(SuccessTerminals)
  /\ entry_phase \in Underway
  /\ HasCycleTimebox => cycle_timebox.finalization_target \in Underway
  /\ HasDevelopmentTimebox =>
       {development_timebox.finalization_target,
        OnSuccess[development_timebox.end_entry]} \subseteq Underway
  /\ ReportsResult \cap ClosingCommits = {}
  /\ \A p \in Underway :
       /\ p \in ClosingCommits => GateUpstream[p] = NONE
       /\ p \notin ClosingCommits => OnSuccess[p] \in Underway
       /\ {OnLoopback[p], WorkflowFallback[p], CommitRecoveryPhase[p]}
            \subseteq OrNone(Underway)
       /\ \A d \in Decisions : Route[p][d].target \in OrNone(Underway)
       /\ \A status \in Statuses : ResultOverride[p][status] \in OrNone(Underway)
  /\ \A p \in SuccessTerminals : GateUpstream[p] # NONE => OnSuccess[p] \in SuccessTerminals
  /\ \A p \in ClosingCommits, outcome \in OrNone(Pronounced) :
       /\ after_closing(p, "remaining", outcome) \in Underway
       /\ after_closing(p, "no_review", outcome) \in SuccessTerminals

(***************************************************************************)
(* The deadlines lead away from the phases they guard, and give them time  *)
(* (warning_seconds may be declared as 0; duration_seconds may not).       *)
(***************************************************************************)
DeadlineShape ==
  /\ HasCycleTimebox =>
       /\ cycle_timebox.duration_seconds > 0
       /\ cycle_timebox.guarded_entry \notin
            {entry_phase, failed_route, cycle_timebox.finalization_target}
  /\ HasDevelopmentTimebox =>
       /\ development_timebox.warning_seconds > 0
       /\ development_timebox.guarded_entry # development_timebox.finalization_target
  /\ HasCycleTimebox /\ HasDevelopmentTimebox =>
       /\ cycle_timebox.guarded_entry # development_timebox.finalization_target
       /\ cycle_timebox.start_source \notin
            {cycle_timebox.guarded_entry, development_timebox.guarded_entry}

(***************************************************************************)
(* Whose work loop counter c counts: it is charged only in the phases of   *)
(* S, a run starts in them, and they lead only to each other until c is    *)
(* reset.                                                                  *)
(***************************************************************************)
KeepsWithin(c, S) ==
  /\ S \subseteq Phases \ {failed_route}
  /\ S # {} => entry_phase \in S /\ LoopCounter[entry_phase] # c
  /\ \A p \in Phases \ S : LoopCounter[p] # c /\ ExecutionCycleCounter[p] # c
  /\ \A p \in Phases :
       GateUpstream[p] # NONE => ExecutionCycleCounter[GateUpstream[p]] # c
  /\ HasCycleTimebox =>
       /\ cycle_timebox.guarded_entry \notin S
       /\ LoopCounter[cycle_timebox.finalization_target] # c
  /\ HasDevelopmentTimebox =>
       /\ development_timebox.guarded_entry \notin S
       /\ LoopCounter[development_timebox.finalization_target] # c
  /\ \A p \in S :
       /\ Role[p] \in {"execution", "analysis"}
       /\ LoopCounter[p] \in {NONE, c}
       /\ LoopCounter[p] = c => ExecutionCycleCounter[p] # c
       /\ Role[p] = "execution" \/ p \in ReportsResult => OnSuccess[p] \in S
       /\ WorkflowFallback[p] \in OrNone(S)
       /\ \A d \in Decisions :
            \/ Route[p][d].target \in OrNone(S)
            \/ LoopCounter[p] = c /\ Route[p][d].reset_loop

(***************************************************************************)
(* A phase that charges a loop when it fails has no fallback to go on in.  *)
(***************************************************************************)
ChargedPhasesFail ==
  \A p \in Phases : ExecutionCycleCounter[p] # NONE => WorkflowFallback[p] = NONE

(***************************************************************************)
(* A commit that closes a cycle leaves nothing of it: every loop counter   *)
(* is reset by it, or kept within phases of its own long before; the cycle *)
(* timer ends in it; no pending route leads through it; and what follows   *)
(* is entered as it is.                                                    *)
(***************************************************************************)
CleanShape(W, Span) ==
  /\ OverrideWay(W) /\ W \cap ClosingCommits = {}
  /\ ChargedPhasesFail
  /\ \A c \in LoopCounters :
       \/ \A p \in ClosingCommits : c \in LoopResets[p]
       \/ KeepsWithin(c, Span[c])
  /\ HasCycleTimebox
  /\ ClosingCommits \subseteq {cycle_timebox.end_entry}
  /\ cycle_timebox.start_source \notin ClosingCommits
  /\ \A p \in ClosingCommits, budget \in BudgetStates, outcome \in OrNone(Outcomes) :
       LET next == after_closing(p, budget, outcome)
       IN  /\ LoopCounter[next] = NONE /\ GateUpstream[next] = NONE
           /\ next # cycle_timebox.guarded_entry
           /\ HasDevelopmentTimebox => next # development_timebox.guarded_entry

Gated(p) == GateUpstream[p] # NONE

(***************************************************************************)
(* Where the loop of a gated analysis has ended: in the phase its success  *)
(* leads to, or in the next one if that is passed over as exhausted.       *)
(***************************************************************************)
Beyond(p) ==
  {OnSuccess[p]}
  \cup IF LoopCounter[OnSuccess[p]] # NONE THEN {OnSuccess[OnSuccess[p]]} ELSE {}

(***************************************************************************)
(* Of the phases L of a loop, those that may be entered from outside: the  *)
(* gated analysis itself, and work that no development deadline guards.    *)
(***************************************************************************)
Beside(g, L) ==
  {g} \cup (Phases \ L)
  \cup {p \in L : /\ Role[p] = "execution"
                  /\ HasDevelopmentTimebox => p # development_timebox.guarded_entry}

(***************************************************************************)
(* The one gated analysis g of the loop L: its counter is its own, charged *)
(* besides only by failed work of L and reset only with the cycle; only a  *)
(* commit leads to it, and with no development timer running; it decides   *)
(* for more work or for what lies beyond; and what leads into the loop     *)
(* from outside starts it with work.                                       *)
(***************************************************************************)
GatedLoop(g, L) ==
  /\ g \in L /\ L \subseteq Phases
  /\ Role[g] = "analysis" /\ Role[entry_phase] = "execution"
  /\ \A p \in L : Role[p] \in {"execution", "analysis"}
  /\ \A p \in ReportsResult : Role[p] = "execution"
  /\ LoopCounter[g] # NONE
  /\ \A p \in Phases :
       /\ Gated(p) <=> p = g
       /\ LoopCounter[p] = LoopCounter[g] => p = g
       /\ ExecutionCycleCounter[p] = LoopCounter[g] => p \in L /\ Role[p] = "execution"
       /\ LoopCounter[g] \in LoopResets[p] => p \in Lifecycle \cup SkippedAdvances
  /\ ExecutionCycleCounter[GateUpstream[g]] = LoopCounter[g]
  /\ WorkflowFallback[g] = NONE
  /\ \A d \in Decisions :
       \/ Route[g][d].target = OnSuccess[g]
       \/ /\ Route[g][d].target \in Phases /\ ~Route[g][d].reset_loop
          /\ Role[Route[g][d].target] = "execution"
          /\ LoopCounter[Route[g][d].target] = NONE

EntersGated(g) ==
  /\ \A p \in Phases :
       /\ g \notin {OnLoopback[p], WorkflowFallback[p], CommitRecoveryPhase[p]}
       /\ \A d \in Decisions : Route[p][d].target # g
       /\ OnSuccess[p] = g =>
            /\ Role[p] = "commit" /\ LoopCounter[p] = NONE
            /\ HasDevelopmentTimebox => p = development_timebox.end_entry
  /\ \A p \in ClosingCommits, budget \in BudgetStates, outcome \in OrNone(Outcomes) :
       PostCommitRoute[p][budget][outcome] # g

EntersLoop(g, L) ==
  /\ Closed(Beside(g, L))
  /\ \A p \in Phases \ L :
       /\ {OnSuccess[p], OnLoopback[p], WorkflowFallback[p], CommitRecoveryPhase[p]}
            \subseteq OrNone(Beside(g, L))
       /\ \A d \in Decisions : Route[p][d].target \in OrNone(Beside(g, L))
       /\ p \in ReportsResult => \A status \in Statuses : ResultOverride[p][status] = NONE
  /\ \A p \in ClosingCommits, budget \in BudgetStates, outcome \in OrNone(Outcomes) :
       PostCommitRoute[p][budget][outcome] \in OrNone(Beside(g, L))

GatedShape(g, L, W) ==
  /\ RecoverableShape /\ ChargedPhasesFail
  /\ OverrideWay(W) /\ W \cap ClosingCommits = {}
  /\ GatedLoop(g, L) /\ EntersGated(g) /\ EntersLoop(g, L)
  /\ Closed(Beyond(g)) /\ Beyond(g) \cap ({g, failed_route} \cup L \cup W) = {}
  /\ HasCycleTimebox =>
       /\ cycle_timebox.guarded_entry \in L
       /\ Role[cycle_timebox.guarded_entry] = "execution"
       /\ cycle_timebox.finalization_target \in Beyond(g)
  /\ HasDevelopmentTimebox =>
       /\ development_timebox.guarded_entry \in L
       /\ Role[development_timebox.guarded_entry] = "execution"
       /\ development_timebox.start_entry # g
       /\ Role[development_timebox.end_entry] = "commit"
       /\ \A p \in W : Role[p] = "commit" => p = development_timebox.end_entry

=============================================================================
