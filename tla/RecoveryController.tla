------------------------- MODULE RecoveryController -------------------------
(***************************************************************************)
(* The recovery controller (ralph/recovery/controller.py) at work on one   *)
(* phase: the run loop selects an agent of the phase's chain, the agent    *)
(* ends, and a failure is retried, handed to another agent, waited out or  *)
(* turned into a failed phase, which the run loop re-enters or gives up    *)
(* on.  Between any two steps time passes.                                 *)
(***************************************************************************)
EXTENDS AgentHealth

CONSTANTS
  cycle_cap,        \* recovery.cycle_cap
  ProducesResult,   \* the phase is one whose success the ledger is told of
  MaxVisits         \* bound on the times the run comes back to the phase

ASSUME ControllerAssumption ==
  /\ cycle_cap \in Nat \ {0}
  /\ ProducesResult \in BOOLEAN
  /\ MaxVisits \in Nat

VARIABLES
  ledger, tracker,
  spent_agents,     \* _spent_agents of the phase
  current,          \* chain.current_index
  control,          \* where the run loop is
  delay,            \* time left of a wait
  cycle_count,      \* recovery_cycle_count
  epoch,            \* recovery_epoch
  visits

health == <<ledger, tracker, spent_agents>>
controller_vars == <<ledger, tracker, spent_agents, current, control, delay,
          cycle_count, epoch, visits>>

Places == {"elsewhere", "dispatch", "running", "waiting", "failed", "stopped"}

ControllerTypeOK ==
  /\ ledger \in [Agents -> LedgerEntries]
  /\ tracker \in [Agents -> TrackerEntries]
  /\ spent_agents \in SUBSET Agents
  /\ current \in Agents
  /\ control \in Places
  /\ delay \in Nat
  /\ cycle_count \in Nat
  /\ epoch \in Nat
  /\ visits \in 0..MaxVisits

ControllerInit ==
  /\ ledger = [a \in Agents |-> NewEntry]
  /\ tracker = [a \in Agents |-> NewTracked]
  /\ spent_agents = {}
  /\ current = 1
  /\ control = "dispatch"
  /\ delay = 0
  /\ cycle_count = 0
  /\ epoch = 0
  /\ visits = 0

MAX_RECOVERY_EPOCHS == 3

(***************************************************************************)
(* Time passes for every deadline at once; only what counts is a step.     *)
(***************************************************************************)
Tick ==
  /\ ledger' = [a \in Agents |-> [ledger[a] EXCEPT !.cooldown = Passing(@)]]
  /\ tracker' = [a \in Agents |-> [tracker[a] EXCEPT !.until = Passing(@)]]
  /\ delay' = Passing(delay)
  /\ <<ledger', tracker', delay'>> # <<ledger, tracker, delay>>
  /\ UNCHANGED <<spent_agents, current, control, cycle_count, epoch, visits>>

-----------------------------------------------------------------------------
(***************************************************************************)
(* The run loop.                                                           *)
(***************************************************************************)
selection == preferred_agent_index(ledger, tracker, spent_agents)

\* _reselect_preferred_agent
reselected == IF selection = NoAgent THEN current ELSE selection

\* Mutant: runs the agent selected earlier
DispatchStale ==
  /\ control = "dispatch"
  /\ selection # NoAgent
  /\ control' = "running"
  /\ UNCHANGED <<health, current, delay, cycle_count, epoch, visits>>

(***************************************************************************)
(* Each invocation selects afresh.  With nobody to select the run exits to *)
(* the failed route.                                                       *)
(***************************************************************************)
Dispatch ==
  /\ control = "dispatch"
  /\ selection # NoAgent
  /\ current' = selection
  /\ control' = "running"
  /\ UNCHANGED <<health, delay, cycle_count, epoch, visits>>

NobodyToDispatch ==
  /\ control = "dispatch"
  /\ selection = NoAgent
  /\ control' = "failed"
  /\ epoch' = epoch + 1
  /\ UNCHANGED <<health, current, delay, cycle_count, visits>>

Resume ==
  /\ control = "waiting"
  /\ delay = 0
  /\ current' = reselected
  /\ control' = "dispatch"
  /\ UNCHANGED <<health, delay, cycle_count, epoch, visits>>

\* Mutant: does not look at the epoch
requires_intervention_by_ledger ==
  \/ \A a \in Agents : status(ledger[a]) # "eligible"
  \/ cycle_count >= cycle_cap

requires_intervention ==
  \/ epoch >= MAX_RECOVERY_EPOCHS
  \/ \A a \in Agents : status(ledger[a]) # "eligible"
  \/ cycle_count >= cycle_cap

Stop ==
  /\ control = "failed"
  /\ requires_intervention
  /\ control' = "stopped"
  /\ UNCHANGED <<health, current, delay, cycle_count, epoch, visits>>

Reenter ==
  /\ control = "failed"
  /\ ~requires_intervention
  /\ current' = 1
  /\ control' = "dispatch"
  /\ UNCHANGED <<health, delay, cycle_count, epoch, visits>>

(***************************************************************************)
(* The run comes back to the phase later, and may have to wait to enter.   *)
(***************************************************************************)
Enter ==
  /\ control = "elsewhere"
  /\ visits < MaxVisits
  /\ visits' = visits + 1
  /\ current' = reselected
  /\ IF agents_now_available(ledger, tracker) = {}
     THEN /\ control' = "waiting"
          /\ delay' = earliest_available_wait(ledger, tracker)
     ELSE control' = "dispatch" /\ UNCHANGED delay
  /\ UNCHANGED <<health, cycle_count, epoch>>

-----------------------------------------------------------------------------
(***************************************************************************)
(* What an invocation ends in.                                             *)
(***************************************************************************)
Succeeds ==
  /\ control = "running"
  /\ ledger' = IF ProducesResult
               THEN [ledger EXCEPT ![current] = record(@, TRUE, FALSE)]
               ELSE ledger
  /\ tracker' = reset_backoff(tracker, current)
  /\ spent_agents' = {}
  /\ control' = "elsewhere"
  /\ epoch' = 0
  /\ UNCHANGED <<current, delay, cycle_count, visits>>

Charge(workspace_changed) ==
  ledger' = [ledger EXCEPT ![current] = record(@, FALSE, workspace_changed)]

sole_demoted == ChainLength = 1 /\ is_demoted(ledger'[current])

\* note_retry_exhaustion of an agent the ledger just spent
noted_exhaustion ==
  IF ledger'[current].is_spent /\ ChainLength > 1
  THEN spent_agents \cup {current} ELSE spent_agents

FailPhase(counted) ==
  /\ control' = "failed"
  /\ epoch' = epoch + 1
  /\ cycle_count' = IF counted THEN cycle_count + 1 ELSE cycle_count
  /\ UNCHANGED <<current, delay>>

GoOn(agent) ==
  /\ current' = agent
  /\ control' = "dispatch"
  /\ UNCHANGED <<delay, cycle_count, epoch>>

Wait(duration) ==
  /\ control' = "waiting"
  /\ delay' = duration
  /\ UNCHANGED <<current, cycle_count, epoch>>

(***************************************************************************)
(* _handle_retry_progression: a wait of no length is a failed phase.       *)
(***************************************************************************)
RetryProgression(spent) ==
  LET next == preferred_agent_index(ledger', tracker', spent)
      wait == earliest_available_wait(ledger', tracker')
  IN  \/ /\ next # NoAgent
         /\ GoOn(next)
         /\ spent_agents' = spent
      \/ /\ next = NoAgent /\ wait > 0
         /\ Wait(wait)
         /\ spent_agents' = spent
      \/ /\ next = NoAgent /\ wait = 0
         /\ FailPhase(TRUE)
         /\ spent_agents' = {}

SoleAgentDemoted ==
  /\ FailPhase(TRUE)
  /\ spent_agents' = {}

(***************************************************************************)
(* Environmental, artifact-validation and ambiguous failures.              *)
(***************************************************************************)
TechnicalFailure ==
  /\ control = "running"
  /\ \E workspace_changed \in BOOLEAN : Charge(workspace_changed)
  /\ UNCHANGED tracker
  /\ IF sole_demoted THEN SoleAgentDemoted ELSE RetryProgression(noted_exhaustion)
  /\ UNCHANGED visits

AgentFailure ==
  /\ control = "running"
  /\ \E workspace_changed \in BOOLEAN : Charge(workspace_changed)
  /\ IF sole_demoted
     THEN UNCHANGED tracker /\ SoleAgentDemoted
     ELSE /\ \/ UNCHANGED tracker
             \/ tracker' = mark_unavailable(tracker, current)
          /\ RetryProgression(noted_exhaustion)
  /\ UNCHANGED visits

UserConfigFailure ==
  /\ control = "running"
  /\ \E workspace_changed \in BOOLEAN : Charge(workspace_changed)
  /\ IF sole_demoted
     THEN UNCHANGED tracker /\ SoleAgentDemoted
     ELSE /\ \/ UNCHANGED tracker
             \/ tracker' = mark_unavailable(tracker, current)
          /\ FailPhase(FALSE)
          /\ spent_agents' = {}
  /\ UNCHANGED visits

(***************************************************************************)
(* Failures the reducer applies itself: with nobody available it waits,    *)
(* for no time at all if no deadline is known, and it fails the phase      *)
(* without ending the round of spent_agents.                               *)
(***************************************************************************)
ApplySelection(spent) ==
  LET next == preferred_agent_index(ledger', tracker', spent)
      wait == earliest_available_wait(ledger', tracker')
  IN  /\ spent_agents' = spent
      /\ \/ next # NoAgent /\ GoOn(next)
         \/ /\ next = NoAgent
            /\ agents_now_available(ledger', tracker') = {}
            /\ Wait(wait)
         \/ /\ next = NoAgent
            /\ agents_now_available(ledger', tracker') # {}
            /\ FailPhase(FALSE)

UncapturedFailure ==
  /\ control = "running"
  /\ \E workspace_changed \in BOOLEAN : Charge(workspace_changed)
  /\ UNCHANGED tracker
  /\ IF sole_demoted
     THEN FailPhase(FALSE) /\ UNCHANGED spent_agents
     ELSE ApplySelection(noted_exhaustion)
  /\ UNCHANGED visits

SkipsSameAgent ==
  /\ control = "running"
  /\ UNCHANGED <<ledger, tracker>>
  /\ ApplySelection(spent_agents \cup {current})
  /\ UNCHANGED visits

(***************************************************************************)
(* Attempts inside one invocation are charged as they fail.  The agent     *)
(* tries again in its session while it is eligible; when the invocation    *)
(* gives up, or the attempt demotes the agent, the failure is applied as   *)
(* already charged.                                                        *)
(***************************************************************************)
RetriesInSession ==
  /\ control = "running"
  /\ \E workspace_changed \in BOOLEAN : Charge(workspace_changed)
  /\ ~is_demoted(ledger'[current])
  /\ UNCHANGED <<tracker, spent_agents, current, control, delay, cycle_count,
                 epoch, visits>>

ChargedFailure ==
  /\ control = "running"
  /\ \E workspace_changed \in BOOLEAN : Charge(workspace_changed)
  /\ UNCHANGED tracker
  /\ ApplySelection(noted_exhaustion)
  /\ UNCHANGED visits

-----------------------------------------------------------------------------
Fails ==
  \/ TechnicalFailure \/ AgentFailure \/ UserConfigFailure
  \/ UncapturedFailure \/ ChargedFailure \/ SkipsSameAgent

Proceed ==
  \/ Dispatch \/ NobodyToDispatch \/ Resume \/ Stop \/ Reenter \/ Enter
  \/ Succeeds \/ Fails \/ RetriesInSession

Ended ==
  /\ control = "stopped" \/ (control = "elsewhere" /\ visits = MaxVisits)
  /\ UNCHANGED controller_vars

ControllerNext == Tick \/ Proceed \/ Ended

ControllerSpec == ControllerInit /\ [][ControllerNext]_controller_vars

(***************************************************************************)
(* Time goes on, and the loop and the invocations it starts do not hang.   *)
(***************************************************************************)
ControllerFairSpec == ControllerSpec /\ WF_controller_vars(Tick) /\ WF_controller_vars(Proceed)

=============================================================================
