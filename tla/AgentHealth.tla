---------------------------- MODULE AgentHealth ----------------------------
(***************************************************************************)
(* Who may run: the failure ledger (ralph/recovery/agent_failure_ledger.py)*)
(* counts unproductive attempts, the unavailability tracker (ralph/        *)
(* recovery/agent_unavailability_tracker.py) times out an agent whose      *)
(* service is down, and the selection (ralph/recovery/agent_selection.py)  *)
(* picks from the chain of one phase.                                      *)
(*                                                                         *)
(* Agents are their indexes in the chain, in order of priority.  A         *)
(* deadline is the time left to it; it stays at zero, elapsed but not yet  *)
(* cleared, until the code next looks at it.                               *)
(***************************************************************************)
EXTENDS Integers, FiniteSets

CONSTANTS
  ChainLength,
  consecutive_limit, total_limit,
  base_cooldown, max_cooldown,      \* of the ledger, backoff factor 2
  base_backoff, max_backoff         \* of the tracker

ASSUME HealthAssumption ==
  /\ ChainLength \in Nat \ {0}
  /\ consecutive_limit \in Nat \ {0}
  /\ total_limit \in Nat \ {0}
  /\ base_cooldown \in Nat \ {0}
  /\ max_cooldown \in Nat /\ base_cooldown <= max_cooldown
  /\ base_backoff \in Nat \ {0}
  /\ max_backoff \in Nat /\ base_backoff <= max_backoff

Agents == 1..ChainLength

NoAgent == 0

NoDeadline == -1

Deadlines == Nat \cup {NoDeadline}

Least(S) == CHOOSE n \in S : \A m \in S : n <= m

Lesser(m, n) == IF m <= n THEN m ELSE n

\* A duration, which is max once it gets longer
Capped(duration, max) == Least({duration, max} \cap 1..max)

Passing(deadline) == IF deadline > 0 THEN deadline - 1 ELSE deadline

-----------------------------------------------------------------------------
(***************************************************************************)
(* The ledger: an entry per agent.                                         *)
(***************************************************************************)
LedgerEntries ==
  [consecutive : Nat, total : Nat, cooldown : Deadlines,
   cooldown_count : Nat, is_spent : BOOLEAN]

NewEntry ==
  [consecutive |-> 0, total |-> 0, cooldown |-> NoDeadline,
   cooldown_count |-> 0, is_spent |-> FALSE]

sync_cooldown_expiry(e) ==
  IF ~e.is_spent /\ e.cooldown = 0
  THEN [e EXCEPT !.cooldown = NoDeadline, !.consecutive = 0]
  ELSE e

status(e) ==
  IF e.is_spent THEN "spent"
  ELSE IF sync_cooldown_expiry(e).cooldown = NoDeadline THEN "eligible"
       ELSE "cooldown"

cooldown_duration(count) ==
  Capped(base_cooldown * 2 ^ Lesser(count, 30), max_cooldown)

\* Mutant: an attempt that changed the workspace counts for nothing
charged_unless_changed(e, workspace_changed) ==
  IF workspace_changed
  THEN [e EXCEPT !.consecutive = 0]
  ELSE [e EXCEPT !.consecutive = @ + 1, !.total = @ + 1]

charged(e, workspace_changed) ==
  [e EXCEPT !.consecutive = IF workspace_changed THEN 0 ELSE @ + 1,
            !.total = @ + 1]

\* Mutant: one attempt more than the limit
demoted_late(e) ==
  IF e.total > total_limit
  THEN [e EXCEPT !.is_spent = TRUE, !.cooldown = NoDeadline]
  ELSE IF e.consecutive >= consecutive_limit
       THEN [e EXCEPT !.cooldown = cooldown_duration(e.cooldown_count),
                      !.cooldown_count = @ + 1]
       ELSE e

demoted(e) ==
  IF e.total >= total_limit
  THEN [e EXCEPT !.is_spent = TRUE, !.cooldown = NoDeadline]
  ELSE IF e.consecutive >= consecutive_limit
       THEN [e EXCEPT !.cooldown = cooldown_duration(e.cooldown_count),
                      !.cooldown_count = @ + 1]
       ELSE e

record(e, artifact_valid, workspace_changed) ==
  IF artifact_valid
  THEN NewEntry
  ELSE demoted(charged(sync_cooldown_expiry(e), workspace_changed))

\* Did the attempt just recorded demote the agent?
is_demoted(e) == e.total >= total_limit \/ e.consecutive >= consecutive_limit

-----------------------------------------------------------------------------
(***************************************************************************)
(* The tracker: a deadline per agent, and the number of backoffs so far,   *)
(* which outlives it.                                                      *)
(***************************************************************************)
TrackerEntries == [until : Deadlines, attempts : Nat]

NewTracked == [until |-> NoDeadline, attempts |-> 0]

bit_length(n) == Least({n} \cup {k \in 0..n : 2 ^ k > n})

saturated_attempt == bit_length((max_backoff - 1) \div base_backoff)

prune_expired(t) ==
  [a \in Agents |->
     IF t[a].until = 0 THEN [t[a] EXCEPT !.until = NoDeadline] ELSE t[a]]

mark_unavailable(t, agent) ==
  LET attempt == Lesser(t[agent].attempts, saturated_attempt)
  IN  [prune_expired(t) EXCEPT ![agent] =
         [until |-> Capped(base_backoff * 2 ^ attempt, max_backoff),
          attempts |-> Lesser(attempt + 1, saturated_attempt)]]

reset_backoff(t, agent) == [t EXCEPT ![agent] = NewTracked]

-----------------------------------------------------------------------------
\* Mutant: takes a spent agent for one that is not cooling down
is_agent_available_if_warm(l, t, a) ==
  status(l[a]) # "cooldown" /\ t[a].until <= 0

(***************************************************************************)
(* What the two say together.                                              *)
(***************************************************************************)
is_agent_available(l, t, a) == status(l[a]) = "eligible" /\ t[a].until <= 0

agents_now_available(l, t) == {a \in Agents : is_agent_available(l, t, a)}

preferred_agent_index(l, t, spent) ==
  LET selectable == agents_now_available(l, t) \ spent
  IN  IF selectable = {} THEN NoAgent ELSE Least(selectable)

(***************************************************************************)
(* Waits, with 0 for none.  The tracker gives up at the first agent it has *)
(* no entry for, the ledger at the first that is eligible.                 *)
(***************************************************************************)
shortest(waits) == IF waits = {} THEN 0 ELSE Least(waits)

tracker_wait(t) ==
  IF \E a \in Agents : t[a].until = NoDeadline
  THEN 0
  ELSE shortest({t[a].until : a \in {b \in Agents : t[b].until > 0}})

\* Mutant: waits for spent agents too
ledger_wait_for_all(l) ==
  IF \E a \in Agents : status(l[a]) = "eligible"
  THEN 0
  ELSE shortest({l[a].cooldown : a \in Agents})

ledger_wait(l) ==
  IF \E a \in Agents : status(l[a]) = "eligible"
  THEN 0
  ELSE shortest({l[a].cooldown : a \in {b \in Agents : ~l[b].is_spent}})

earliest_available_wait(l, t) ==
  IF agents_now_available(l, t) # {}
  THEN 0
  ELSE shortest({tracker_wait(t), ledger_wait(l)} \ {0})

=============================================================================
