--------------------------- MODULE WorkerProofs ---------------------------
(***************************************************************************)
(* Proofs about what keeps work going when agents fail: the recovery       *)
(* controller (ControllerProperties) and the fan-out of a phase over its   *)
(* work units (FanOut).                                                    *)
(***************************************************************************)
EXTENDS ControllerProperties, FanOut, FiniteSetTheorems, WellFoundedInduction, TLAPS

\* Zenon is tried on every leaf that names no prover; a leaf that needs
\* arithmetic or equality of records asks for SMT.
USE Zenon

-----------------------------------------------------------------------------
(***************************************************************************)
(* The recovery controller, for every chain, every limit and every cap.    *)
(***************************************************************************)
-----------------------------------------------------------------------------
(***************************************************************************)
(* The operators of AgentHealth.                                           *)
(***************************************************************************)

\* Least, which selection and the waits rest on, is the minimum it is meant
\* to be.
LEMMA LeastIsMinimum ==
  ASSUME NEW S \in SUBSET Nat, S # {}
  PROVE  Least(S) \in S /\ \A m \in S : Least(S) <= m
<1>1. OpToRel(<, Nat) = {p \in Nat \X Nat : p[1] < p[2]}
  BY DEF OpToRel
<1>2. IsWellFoundedOn({p \in Nat \X Nat : p[1] < p[2]}, Nat)
  BY <1>1, NatLessThanWellFounded
<1>3. \E n \in S : \A m \in S : ~ <<m, n>> \in {p \in Nat \X Nat : p[1] < p[2]}
  BY <1>2, WFMin
<1>4. PICK n \in S : \A m \in S : ~ <<m, n>> \in {p \in Nat \X Nat : p[1] < p[2]}
  BY <1>3
<1>5. ASSUME NEW m \in S PROVE n <= m
  <2>1. <<m, n>>[1] = m /\ <<m, n>>[2] = n /\ <<m, n>> \in Nat \X Nat
    OBVIOUS
  <2>2. ~ m < n
    BY <1>4, <2>1
  <2> QED BY SMTT(30), <2>2
<1> QED BY <1>5 DEF Least

\* A capped duration is positive and within its cap, whatever it was
\* (agent_unavailability_tracker.mark_unavailable, agent_failure_ledger.record).
LEMMA CappedIsWithin ==
  ASSUME NEW d, NEW max \in Nat \ {0}
  PROVE  Capped(d, max) \in 1..max
<1>1. {d, max} \cap 1..max \in SUBSET Nat
  BY SMTT(30)
<1>2. {d, max} \cap 1..max # {}
  BY SMTT(30)
<1> QED BY <1>1, <1>2, LeastIsMinimum DEF Capped

\* The saturated backoff attempt is a natural number.
LEMMA SaturatedAttemptType == saturated_attempt \in Nat
<1> DEFINE n == (max_backoff - 1) \div base_backoff
<1>1. n \in Nat
  BY SMTT(30), HealthAssumption
<1>2. {n} \cup {k \in 0..n : 2 ^ k > n} \in SUBSET Nat
  BY SMTT(30), <1>1
<1>3. {n} \cup {k \in 0..n : 2 ^ k > n} # {}
  OBVIOUS
<1> QED BY <1>2, <1>3, LeastIsMinimum DEF saturated_attempt, bit_length

\* Whom preferred_agent_index picks may run, and has allowance left.
LEMMA SelectionIsEligible ==
  ASSUME NEW l, NEW t, NEW spent,
         preferred_agent_index(l, t, spent) # NoAgent
  PROVE  LET a == preferred_agent_index(l, t, spent)
         IN  a \in Agents /\ is_agent_available(l, t, a) /\ a \notin spent
<1> DEFINE selectable == agents_now_available(l, t) \ spent
<1>1. selectable \in SUBSET Nat
  BY SMTT(30), HealthAssumption DEF agents_now_available, Agents
<1>2. selectable # {}
  BY DEF preferred_agent_index
<1>3. Least(selectable) \in selectable
  BY <1>1, <1>2, LeastIsMinimum
<1>4. preferred_agent_index(l, t, spent) = Least(selectable)
  BY <1>2 DEF preferred_agent_index
<1> QED BY <1>3, <1>4 DEF agents_now_available

\* The waits are durations: a missing deadline never gets into one.
LEMMA WaitType ==
  ASSUME NEW l \in [Agents -> LedgerEntries], NEW t \in [Agents -> TrackerEntries]
  PROVE  earliest_available_wait(l, t) \in Nat
<1>1. ASSUME NEW W \in SUBSET Nat PROVE shortest(W) \in Nat
  BY LeastIsMinimum DEF shortest
<1>2. tracker_wait(t) \in Nat
  <2>1. {t[a].until : a \in {b \in Agents : t[b].until > 0}} \in SUBSET Nat
    BY SMTT(30) DEF TrackerEntries, Deadlines, NoDeadline
  <2> QED BY <2>1, <1>1 DEF tracker_wait
<1>3. ledger_wait(l) \in Nat
  <2>1. CASE \E a \in Agents : status(l[a]) = "eligible"
    BY <2>1 DEF ledger_wait
  <2>2. CASE ~ \E a \in Agents : status(l[a]) = "eligible"
    <3>1. ASSUME NEW a \in Agents, ~l[a].is_spent PROVE l[a].cooldown \in Nat
      BY <2>2, <3>1 DEF status, sync_cooldown_expiry, LedgerEntries, Deadlines
    <3>2. {l[a].cooldown : a \in {b \in Agents : ~l[b].is_spent}} \in SUBSET Nat
      BY <3>1
    <3> QED BY <2>2, <3>2, <1>1 DEF ledger_wait
  <2> QED BY <2>1, <2>2
<1>4. {tracker_wait(t), ledger_wait(l)} \ {0} \in SUBSET Nat
  BY <1>2, <1>3
<1> QED BY <1>1, <1>4 DEF earliest_available_wait

\* AgentFailureLedger.record returns an entry.
LEMMA RecordType ==
  ASSUME NEW e \in LedgerEntries, NEW valid \in BOOLEAN, NEW changed \in BOOLEAN
  PROVE  record(e, valid, changed) \in LedgerEntries
<1>1. NewEntry \in LedgerEntries
  BY DEF NewEntry, LedgerEntries, Deadlines
<1>2. sync_cooldown_expiry(e) \in LedgerEntries
  BY DEF sync_cooldown_expiry, LedgerEntries, Deadlines
<1>3. ASSUME NEW f \in LedgerEntries PROVE charged(f, changed) \in LedgerEntries
  <2> DEFINE streak == IF changed THEN 0 ELSE f.consecutive + 1
  <2>1. f.consecutive \in Nat /\ f.total + 1 \in Nat
    BY SMTT(30) DEF LedgerEntries
  <2>2. streak \in Nat
    BY SMTT(30), <2>1
  <2>3. charged(f, changed) = [f EXCEPT !.consecutive = streak, !.total = f.total + 1]
    BY DEF charged
  <2> HIDE DEF streak
  <2> QED BY <2>1, <2>2, <2>3 DEF LedgerEntries
<1>4. ASSUME NEW f \in LedgerEntries PROVE demoted(f) \in LedgerEntries
  <2>1. cooldown_duration(f.cooldown_count) \in Deadlines
    BY SMTT(30), CappedIsWithin, HealthAssumption DEF cooldown_duration, Deadlines
  <2>2. CASE f.total >= total_limit
    BY <2>2 DEF demoted, LedgerEntries, Deadlines
  <2>3. CASE ~ f.total >= total_limit /\ f.consecutive >= consecutive_limit
    <3>1. f.cooldown_count + 1 \in Nat
      BY SMTT(30) DEF LedgerEntries
    <3>2. demoted(f) = [f EXCEPT !.cooldown = cooldown_duration(f.cooldown_count),
                                 !.cooldown_count = f.cooldown_count + 1]
      BY <2>3 DEF demoted
    <3> QED BY <2>1, <3>1, <3>2 DEF LedgerEntries
  <2>4. CASE ~ f.total >= total_limit /\ ~ f.consecutive >= consecutive_limit
    BY <2>4 DEF demoted
  <2> QED BY <2>2, <2>3, <2>4
<1> QED BY <1>1, <1>2, <1>3, <1>4 DEF record

\* The operations of the tracker return a tracker.
LEMMA TrackerType ==
  ASSUME NEW t \in [Agents -> TrackerEntries], NEW a \in Agents
  PROVE  /\ mark_unavailable(t, a) \in [Agents -> TrackerEntries]
         /\ reset_backoff(t, a) \in [Agents -> TrackerEntries]
<1>1. prune_expired(t) \in [Agents -> TrackerEntries]
  BY DEF prune_expired, TrackerEntries, Deadlines
<1> DEFINE attempt == Lesser(t[a].attempts, saturated_attempt)
<1>2. attempt \in Nat /\ Lesser(attempt + 1, saturated_attempt) \in Nat
  BY SMTT(30), SaturatedAttemptType DEF Lesser, TrackerEntries
<1>3. Capped(base_backoff * 2 ^ attempt, max_backoff) \in Deadlines
  BY SMTT(30), CappedIsWithin, HealthAssumption DEF Deadlines
<1>4. mark_unavailable(t, a) \in [Agents -> TrackerEntries]
  BY <1>1, <1>2, <1>3 DEF mark_unavailable, TrackerEntries
<1>5. reset_backoff(t, a) \in [Agents -> TrackerEntries]
  BY DEF reset_backoff, NewTracked, TrackerEntries, Deadlines
<1> QED BY <1>4, <1>5

-----------------------------------------------------------------------------
(***************************************************************************)
(* The inductive invariant.  A charge keeps demotion earned only if the    *)
(* agent charged was in good standing, which is what RunningAgentIsEligible*)
(* says; the bounds hold only because the loop re-enters a failed phase    *)
(* with budget left, which WithinBudget adds.                              *)
(***************************************************************************)
WithinBudget ==
  control \notin {"failed", "stopped"} =>
    cycle_count < cycle_cap /\ epoch < MAX_RECOVERY_EPOCHS

IInv ==
  /\ ControllerTypeOK
  /\ DemotionIsEarned
  /\ RunningAgentIsEligible
  /\ RecoveryIsBounded
  /\ WithinBudget

Earned(e) ==
  /\ e.is_spent <=> e.total >= total_limit
  /\ e.cooldown # NoDeadline => e.consecutive >= consecutive_limit /\ ~e.is_spent

\* record keeps the demotion of an eligible agent earned, and leaves the
\* agent eligible unless it reports the demotion.
LEMMA RecordIsEarned ==
  ASSUME NEW e \in LedgerEntries, NEW changed \in BOOLEAN,
         status(e) = "eligible", Earned(e)
  PROVE  LET r == record(e, FALSE, changed)
         IN  Earned(r) /\ (~is_demoted(r) => status(r) = "eligible")
<1> DEFINE s == sync_cooldown_expiry(e)
           c == charged(s, changed)
<1>1. /\ s \in LedgerEntries
      /\ ~s.is_spent /\ s.cooldown = NoDeadline
  BY DEF status, sync_cooldown_expiry, LedgerEntries, Deadlines
<1>2. /\ ~c.is_spent /\ c.cooldown = NoDeadline
      /\ c.consecutive \in Nat /\ c.total \in Nat
      /\ c \in [consecutive : Nat, total : Nat, cooldown : Deadlines,
                cooldown_count : Nat, is_spent : BOOLEAN]
  <2> HIDE DEF s
  <2> DEFINE streak == IF changed THEN 0 ELSE s.consecutive + 1
  <2>1. s.consecutive \in Nat /\ s.total + 1 \in Nat
    BY SMTT(30), <1>1 DEF LedgerEntries
  <2>2. streak \in Nat
    BY SMTT(30), <2>1
  <2>3. c = [s EXCEPT !.consecutive = streak, !.total = s.total + 1]
    BY DEF charged
  <2> HIDE DEF streak, c
  <2> QED BY <1>1, <2>1, <2>2, <2>3 DEF LedgerEntries
<1>3. record(e, FALSE, changed) = demoted(c)
  BY DEF record
<1>4. cooldown_duration(c.cooldown_count) \in Nat
  BY SMTT(30), CappedIsWithin, HealthAssumption DEF cooldown_duration
<1> HIDE DEF s, c
<1>5. Earned(demoted(c))
  <2>1. CASE c.total >= total_limit
    BY <1>2, <2>1 DEF demoted, Earned
  <2>2. CASE ~ c.total >= total_limit /\ c.consecutive >= consecutive_limit
    BY <1>2, <1>4, <2>2 DEF demoted, Earned
  <2>3. CASE ~ c.total >= total_limit /\ ~ c.consecutive >= consecutive_limit
    BY <1>2, <2>3 DEF demoted, Earned
  <2> QED BY <2>1, <2>2, <2>3
<1>6. ~is_demoted(demoted(c)) => status(demoted(c)) = "eligible"
  BY <1>2 DEF demoted, is_demoted, status, sync_cooldown_expiry, NoDeadline
<1> QED BY <1>3, <1>5, <1>6

-----------------------------------------------------------------------------
\* A failed attempt of the running agent is charged to it alone, keeps every
\* demotion earned, and takes no agent's spent mark away.
LEMMA ChargeStep ==
  ASSUME IInv, control = "running",
         \E workspace_changed \in BOOLEAN : Charge(workspace_changed)
  PROVE  /\ ledger' \in [Agents -> LedgerEntries]
         /\ DemotionIsEarned'
         /\ \A a \in Agents : ledger[a].is_spent => ledger'[a].is_spent
         /\ ~is_demoted(ledger'[current]) => status(ledger'[current]) = "eligible"
<1>1. PICK w \in BOOLEAN : Charge(w)
  OBVIOUS
<1> DEFINE r == record(ledger[current], FALSE, w)
<1>2. /\ current \in Agents
      /\ ledger \in [Agents -> LedgerEntries]
      /\ status(ledger[current]) = "eligible"
      /\ \A a \in Agents : Earned(ledger[a])
  BY DEF IInv, ControllerTypeOK, RunningAgentIsEligible, is_agent_available,
         DemotionIsEarned, Earned
<1>3. r \in LedgerEntries
  BY <1>2, RecordType
<1>4. Earned(r) /\ (~is_demoted(r) => status(r) = "eligible")
  BY <1>2, RecordIsEarned
<1>5. ledger' = [ledger EXCEPT ![current] = r]
  BY <1>1 DEF Charge
<1>6. ~ledger[current].is_spent
  BY <1>2 DEF status
<1> HIDE DEF r
<1>7. \A a \in Agents : Earned(ledger'[a])
  BY <1>2, <1>4, <1>5
<1> QED BY <1>2, <1>3, <1>4, <1>5, <1>6, <1>7 DEF DemotionIsEarned, Earned

\* What is left of a failing step once it has charged the agent: it goes on,
\* waits or fails the phase, within the budget.
Settled ==
  /\ spent_agents' \in SUBSET Agents
  /\ current' \in Agents
  /\ control' \in {"dispatch", "waiting", "failed"}
  /\ delay' \in Nat
  /\ cycle_count' \in Nat
  /\ epoch' \in Nat
  /\ RecoveryIsBounded'
  /\ WithinBudget'

\* Each way a failure is settled ends in a place of the run loop, in a round
\* and with a wait of the right type.
LEMMA SettlingSteps ==
  ASSUME IInv, control = "running",
         ledger' \in [Agents -> LedgerEntries], tracker' \in [Agents -> TrackerEntries]
  PROVE  /\ \A counted \in BOOLEAN :
              FailPhase(counted) /\ spent_agents' \in SUBSET Agents => Settled
         /\ \A spent \in SUBSET Agents : RetryProgression(spent) => Settled
         /\ \A spent \in SUBSET Agents : ApplySelection(spent) => Settled
<1> USE DEF IInv, ControllerTypeOK, Settled, RecoveryIsBounded, WithinBudget
<1>1. ASSUME NEW counted \in BOOLEAN, FailPhase(counted),
             spent_agents' \in SUBSET Agents
      PROVE  Settled
  BY SMTT(30), <1>1, ControllerAssumption DEF FailPhase, MAX_RECOVERY_EPOCHS
<1>2. ASSUME NEW a \in Agents, GoOn(a), spent_agents' \in SUBSET Agents
      PROVE  Settled
  BY <1>2 DEF GoOn
<1>3. ASSUME NEW d \in Nat, Wait(d), spent_agents' \in SUBSET Agents
      PROVE  Settled
  BY <1>3 DEF Wait
<1>4. earliest_available_wait(ledger', tracker') \in Nat
  BY WaitType
<1>5. ASSUME NEW spent \in SUBSET Agents,
             preferred_agent_index(ledger', tracker', spent) # NoAgent
      PROVE  preferred_agent_index(ledger', tracker', spent) \in Agents
  BY <1>5, SelectionIsEligible
<1> HIDE DEF IInv, ControllerTypeOK, Settled, RecoveryIsBounded, WithinBudget
<1>6. ASSUME NEW spent \in SUBSET Agents, RetryProgression(spent)
      PROVE  Settled
  BY <1>1, <1>2, <1>3, <1>4, <1>5, <1>6 DEF RetryProgression
<1>7. ASSUME NEW spent \in SUBSET Agents, ApplySelection(spent)
      PROVE  Settled
  BY <1>1, <1>2, <1>3, <1>4, <1>5, <1>7 DEF ApplySelection
<1> QED BY <1>1, <1>6, <1>7

\* A failing step that settles keeps the whole invariant.
LEMMA SettledKeepsIInv ==
  ASSUME IInv, Settled, DemotionIsEarned',
         ledger' \in [Agents -> LedgerEntries], tracker' \in [Agents -> TrackerEntries],
         visits' = visits
  PROVE  IInv'
<1>1. ControllerTypeOK'
  BY DEF IInv, ControllerTypeOK, Settled, Places
<1>2. RunningAgentIsEligible'
  BY DEF Settled, RunningAgentIsEligible
<1> QED BY <1>1, <1>2 DEF IInv, Settled

\* Time takes no standing away: deadlines only run out.
LEMMA TickStep == ASSUME IInv, Tick PROVE IInv'
<1>1. /\ ledger' = [a \in Agents |-> [ledger[a] EXCEPT !.cooldown = Passing(@)]]
      /\ tracker' = [a \in Agents |-> [tracker[a] EXCEPT !.until = Passing(@)]]
      /\ delay' = Passing(delay)
      /\ UNCHANGED <<spent_agents, current, control, cycle_count, epoch, visits>>
  BY DEF Tick
<1>2. /\ ledger \in [Agents -> LedgerEntries]
      /\ tracker \in [Agents -> TrackerEntries]
      /\ current \in Agents /\ delay \in Nat
  BY DEF IInv, ControllerTypeOK
<1>3. \A d \in Deadlines : Passing(d) \in Deadlines
  BY SMTT(30) DEF Passing, Deadlines, NoDeadline
<1>4. ledger' \in [Agents -> LedgerEntries]
  BY <1>1, <1>2, <1>3 DEF LedgerEntries
<1>5. tracker' \in [Agents -> TrackerEntries]
  BY <1>1, <1>2, <1>3 DEF TrackerEntries
<1>6. ControllerTypeOK'
  BY SMTT(30), <1>1, <1>2, <1>4, <1>5 DEF IInv, ControllerTypeOK, Passing
<1>7. \A a \in Agents :
        /\ ledger'[a].is_spent = ledger[a].is_spent
        /\ ledger'[a].total = ledger[a].total
        /\ ledger'[a].consecutive = ledger[a].consecutive
        /\ ledger[a].cooldown = NoDeadline => ledger'[a].cooldown = NoDeadline
        /\ ledger[a].cooldown = 0 => ledger'[a].cooldown = 0
        /\ tracker[a].until <= 0 => tracker'[a].until <= 0
  <2> TAKE a \in Agents
  <2>1. ledger[a] \in LedgerEntries /\ tracker[a] \in TrackerEntries
    BY <1>2
  <2>2. /\ ledger'[a] = [ledger[a] EXCEPT !.cooldown = Passing(ledger[a].cooldown)]
        /\ tracker'[a] = [tracker[a] EXCEPT !.until = Passing(tracker[a].until)]
    BY <1>1
  <2>3. /\ ledger'[a].is_spent = ledger[a].is_spent
        /\ ledger'[a].total = ledger[a].total
        /\ ledger'[a].consecutive = ledger[a].consecutive
        /\ ledger'[a].cooldown = Passing(ledger[a].cooldown)
        /\ tracker'[a].until = Passing(tracker[a].until)
    BY <2>1, <2>2 DEF LedgerEntries, TrackerEntries
  <2>4. tracker[a].until \in Deadlines
    BY <2>1 DEF TrackerEntries
  <2>5. tracker[a].until <= 0 => Passing(tracker[a].until) <= 0
    BY SMTT(30), <2>4 DEF Passing, Deadlines, NoDeadline
  <2> QED BY SMTT(30), <2>3, <2>5 DEF Passing, NoDeadline
<1>8. DemotionIsEarned'
  BY <1>7 DEF IInv, DemotionIsEarned
<1>9. RunningAgentIsEligible'
  <2>1. SUFFICES ASSUME control = "running"
                 PROVE  /\ is_agent_available(ledger', tracker', current)
                        /\ current \notin spent_agents
    BY <1>1 DEF RunningAgentIsEligible
  <2>2. /\ status(ledger[current]) = "eligible" /\ tracker[current].until <= 0
        /\ current \notin spent_agents
    BY <2>1 DEF IInv, RunningAgentIsEligible, is_agent_available
  <2>3. ~ledger[current].is_spent /\ ledger[current].cooldown \in {0, NoDeadline}
    BY <1>2, <2>2 DEF status, sync_cooldown_expiry, LedgerEntries, NoDeadline
  <2>4. ~ledger'[current].is_spent /\ ledger'[current].cooldown \in {0, NoDeadline}
    BY <1>2, <1>7, <2>3
  <2>5. status(ledger'[current]) = "eligible"
    BY <1>2, <1>4, <2>4 DEF status, sync_cooldown_expiry, LedgerEntries, NoDeadline
  <2> QED BY <1>2, <1>7, <2>2, <2>5 DEF is_agent_available
<1>10. RecoveryIsBounded' /\ WithinBudget'
  BY <1>1 DEF IInv, RecoveryIsBounded, WithinBudget
<1> QED BY <1>6, <1>8, <1>9, <1>10 DEF IInv

\* The steps of the run loop leave the ledger and the tracker alone.
LEMMA LoopStep ==
  ASSUME IInv,
         Dispatch \/ NobodyToDispatch \/ Resume \/ Stop \/ Reenter \/ Enter
  PROVE  IInv'
<1> USE DEF IInv, ControllerTypeOK, DemotionIsEarned, RunningAgentIsEligible,
            RecoveryIsBounded, WithinBudget, Places, health
<1>1. reselected \in Agents
  BY SelectionIsEligible DEF reselected, selection
<1>2. CASE Dispatch
  <2>1. /\ selection \in Agents
        /\ is_agent_available(ledger, tracker, selection)
        /\ selection \notin spent_agents
    BY <1>2, SelectionIsEligible DEF Dispatch, selection
  <2> QED BY <1>2, <2>1 DEF Dispatch
<1>3. CASE NobodyToDispatch
  BY SMTT(30), <1>3 DEF NobodyToDispatch, MAX_RECOVERY_EPOCHS
<1>4. CASE Resume
  BY <1>1, <1>4 DEF Resume
<1>5. CASE Stop
  BY <1>5 DEF Stop
<1>6. CASE Reenter
  <2>1. 1 \in Agents
    BY SMTT(30), HealthAssumption DEF Agents
  <2> QED BY SMTT(30), <1>6, <2>1, ControllerAssumption
          DEF Reenter, requires_intervention, MAX_RECOVERY_EPOCHS
<1>7. CASE Enter
  <2>1. earliest_available_wait(ledger, tracker) \in Nat
    BY WaitType
  <2> QED BY SMTT(30), <1>1, <1>7, <2>1, ControllerAssumption DEF Enter
<1> QED BY <1>2, <1>3, <1>4, <1>5, <1>6, <1>7

\* A valid artifact clears the record of the agent that ran, which was not
\* spent.
LEMMA SuccessStep ==
  ASSUME IInv, Succeeds
  PROVE  /\ IInv'
         /\ \A a \in Agents : ledger[a].is_spent => ledger'[a].is_spent
<1>1. /\ ledger \in [Agents -> LedgerEntries] /\ current \in Agents
      /\ tracker \in [Agents -> TrackerEntries]
      /\ status(ledger[current]) = "eligible"
  BY DEF IInv, ControllerTypeOK, Succeeds, RunningAgentIsEligible, is_agent_available
<1>2. NewEntry \in LedgerEntries /\ ~NewEntry.is_spent
      /\ NewEntry.cooldown = NoDeadline /\ NewEntry.total = 0
  BY DEF NewEntry, LedgerEntries, Deadlines
<1>3. ledger' = ledger \/ ledger' = [ledger EXCEPT ![current] = NewEntry]
  BY DEF Succeeds, record
<1>4. ledger' \in [Agents -> LedgerEntries] /\ DemotionIsEarned'
  BY SMTT(30), <1>1, <1>2, <1>3, HealthAssumption DEF IInv, DemotionIsEarned
<1>5. tracker' \in [Agents -> TrackerEntries]
  BY <1>1, TrackerType DEF Succeeds
<1>6. IInv'
  <2>1. /\ control = "running" /\ control' = "elsewhere" /\ epoch' = 0
        /\ spent_agents' = {}
        /\ UNCHANGED <<current, delay, cycle_count, visits>>
    BY DEF Succeeds
  <2>2. ControllerTypeOK'
    BY <1>4, <1>5, <2>1 DEF IInv, ControllerTypeOK, Places
  <2>3. RunningAgentIsEligible'
    BY <2>1 DEF RunningAgentIsEligible
  <2>4. RecoveryIsBounded' /\ WithinBudget'
    BY SMTT(30), <2>1 DEF IInv, RecoveryIsBounded, WithinBudget, MAX_RECOVERY_EPOCHS
  <2> QED BY <1>4, <2>2, <2>3, <2>4 DEF IInv
<1>7. ~ledger[current].is_spent
  BY <1>1 DEF status
<1>8. \A a \in Agents : ledger[a].is_spent => ledger'[a].is_spent
  BY <1>1, <1>3, <1>7
<1> QED BY <1>6, <1>8

\* Every failure keeps the invariant, whoever applies it.
LEMMA FailureStep ==
  ASSUME IInv, Fails \/ RetriesInSession
  PROVE  /\ IInv'
         /\ \A a \in Agents : ledger[a].is_spent => ledger'[a].is_spent
<1>1. /\ control = "running" /\ current \in Agents
      /\ tracker \in [Agents -> TrackerEntries]
      /\ spent_agents \in SUBSET Agents
  BY DEF IInv, ControllerTypeOK, Fails, RetriesInSession, TechnicalFailure, AgentFailure,
         UserConfigFailure, UncapturedFailure, ChargedFailure, SkipsSameAgent
<1>2. noted_exhaustion \in SUBSET Agents /\ spent_agents \cup {current} \in SUBSET Agents
      /\ {} \in SUBSET Agents
  BY <1>1 DEF noted_exhaustion
<1>3. mark_unavailable(tracker, current) \in [Agents -> TrackerEntries]
  BY <1>1, TrackerType
<1>4. CASE SkipsSameAgent
  <2>1. ledger' = ledger /\ tracker' = tracker /\ visits' = visits
        /\ ApplySelection(spent_agents \cup {current})
    BY <1>4 DEF SkipsSameAgent
  <2>2. ledger' \in [Agents -> LedgerEntries] /\ DemotionIsEarned'
    BY <2>1 DEF IInv, ControllerTypeOK, DemotionIsEarned
  <2>3. Settled
    BY <1>1, <1>2, <2>1, <2>2, SettlingSteps
  <2> QED BY <1>1, <2>1, <2>2, <2>3, SettledKeepsIInv
<1>5. CASE RetriesInSession
  <2>1. \E workspace_changed \in BOOLEAN : Charge(workspace_changed)
    BY <1>5 DEF RetriesInSession
  <2>2. /\ ledger' \in [Agents -> LedgerEntries] /\ DemotionIsEarned'
        /\ \A a \in Agents : ledger[a].is_spent => ledger'[a].is_spent
        /\ status(ledger'[current]) = "eligible"
    BY <1>1, <1>5, <2>1, ChargeStep DEF RetriesInSession
  <2> QED BY <1>1, <1>5, <2>2
          DEF RetriesInSession, IInv, ControllerTypeOK, RunningAgentIsEligible,
              is_agent_available, RecoveryIsBounded, WithinBudget
<1>6. CASE TechnicalFailure \/ AgentFailure \/ UserConfigFailure
           \/ UncapturedFailure \/ ChargedFailure
  <2>1. \E workspace_changed \in BOOLEAN : Charge(workspace_changed)
    BY <1>6 DEF TechnicalFailure, AgentFailure, UserConfigFailure,
                UncapturedFailure, ChargedFailure
  <2>2. /\ ledger' \in [Agents -> LedgerEntries] /\ DemotionIsEarned'
        /\ \A a \in Agents : ledger[a].is_spent => ledger'[a].is_spent
    BY <1>1, <2>1, ChargeStep
  <2>3. tracker' \in [Agents -> TrackerEntries] /\ visits' = visits
    BY <1>1, <1>3, <1>6 DEF TechnicalFailure, AgentFailure, UserConfigFailure,
                            UncapturedFailure, ChargedFailure
  <2>4. /\ \A counted \in BOOLEAN :
             FailPhase(counted) /\ spent_agents' \in SUBSET Agents => Settled
        /\ RetryProgression(noted_exhaustion) => Settled
        /\ ApplySelection(noted_exhaustion) => Settled
    BY <1>1, <1>2, <2>2, <2>3, SettlingSteps
  <2>5. Settled
    BY <1>1, <1>2, <1>6, <2>4
       DEF TechnicalFailure, AgentFailure, UserConfigFailure,
           UncapturedFailure, ChargedFailure, SoleAgentDemoted
  <2> QED BY <2>2, <2>3, <2>5, SettledKeepsIInv
<1> QED BY <1>4, <1>5, <1>6 DEF Fails

-----------------------------------------------------------------------------
\* The invariant holds initially.
LEMMA InitIInv == ASSUME ControllerInit PROVE IInv
<1>1. NewEntry \in LedgerEntries /\ NewTracked \in TrackerEntries /\ 1 \in Agents
  BY SMTT(30), HealthAssumption
     DEF NewEntry, LedgerEntries, Deadlines, NewTracked, TrackerEntries, Agents
<1>2. ControllerTypeOK
  BY SMTT(30), <1>1, ControllerAssumption DEF ControllerInit, ControllerTypeOK, Places
<1>3. DemotionIsEarned
  BY SMTT(30), HealthAssumption DEF ControllerInit, DemotionIsEarned, NewEntry
<1>4. RunningAgentIsEligible /\ RecoveryIsBounded /\ WithinBudget
  BY SMTT(30), ControllerAssumption
     DEF ControllerInit, RunningAgentIsEligible, RecoveryIsBounded, WithinBudget,
         MAX_RECOVERY_EPOCHS
<1> QED BY <1>2, <1>3, <1>4 DEF IInv

\* Every step keeps the invariant, and no step takes a spent mark away.
LEMMA NextIInv ==
  ASSUME IInv, [ControllerNext]_controller_vars
  PROVE  /\ IInv'
         /\ \A a \in Agents : ledger[a].is_spent => ledger'[a].is_spent
<1>1. CASE Tick
  <2>1. \A a \in Agents : ledger'[a].is_spent = ledger[a].is_spent
    BY <1>1 DEF Tick, IInv, ControllerTypeOK, LedgerEntries
  <2> QED BY <1>1, <2>1, TickStep
<1>2. CASE Dispatch \/ NobodyToDispatch \/ Resume \/ Stop \/ Reenter \/ Enter
  <2>1. ledger' = ledger
    BY <1>2 DEF Dispatch, NobodyToDispatch, Resume, Stop, Reenter, Enter, health
  <2> QED BY <1>2, <2>1, LoopStep
<1>3. CASE Succeeds
  BY <1>3, SuccessStep
<1>4. CASE Fails \/ RetriesInSession
  BY <1>4, FailureStep
<1>5. CASE UNCHANGED controller_vars
  BY <1>5 DEF controller_vars, IInv, ControllerTypeOK, DemotionIsEarned, RunningAgentIsEligible,
              RecoveryIsBounded, WithinBudget
<1> QED BY <1>1, <1>2, <1>3, <1>4, <1>5 DEF ControllerNext, Proceed, Ended

\* The inductive invariant holds of every behaviour of the controller.
THEOREM Invariance == ControllerSpec => []IInv
BY InitIInv, NextIInv, PTL DEF ControllerSpec

\* Type correctness of the recovery controller.
THEOREM TypeCorrect == ControllerSpec => []ControllerTypeOK
BY Invariance, PTL DEF IInv

\* Demotion is earned, for every chain and every pair of limits: the ledger
\* spends an agent exactly at total_limit and cools it only after a full
\* streak, although three parts of the code charge it.
THEOREM DemotionEarned == ControllerSpec => []DemotionIsEarned
BY Invariance, PTL DEF IInv

\* No agent runs while a cooldown, an outage or a spent allowance rules it
\* out, for every chain.
THEOREM RunningEligible == ControllerSpec => []RunningAgentIsEligible
BY Invariance, PTL DEF IInv

\* Neither the recovery cycles nor the epochs pass their bound, for every
\* cycle cap.
THEOREM RecoveryBounded == ControllerSpec => []RecoveryIsBounded
BY Invariance, PTL DEF IInv

\* A spent agent stays spent: the success that would forgive it cannot come
\* from an agent that does not run.
THEOREM SpentStays == ControllerSpec => SpentIsForGood
<1>1. IInv /\ [ControllerNext]_controller_vars =>
        [\A a \in Agents : ledger[a].is_spent => ledger'[a].is_spent]_controller_vars
  BY NextIInv
<1> QED BY <1>1, Invariance, PTL DEF ControllerSpec, SpentIsForGood

-----------------------------------------------------------------------------
(***************************************************************************)
(* The fan-out.  For every plan of work units, in any number and with any  *)
(* dependencies and scopes: dependencies come first, scopes stay disjoint, *)
(* the workers stay within their cap, only complete work is integrated, and *)
(* the checkpoint implements the board of finished units.                  *)
(***************************************************************************)
Succeeded(w) == {u \in Units : w[u] = "succeeded"}

\* What the worker states call SUCCEEDED has delivered, and so have the units
\* it depends on: in memory, in the checkpoint and in the one resumed from.
Sound(w) ==
    /\ Succeeded(w) \subseteq finished
    /\ \A u \in Succeeded(w) : Deps[u] \subseteq Succeeded(w)

RecordInv == Sound(ws) /\ Sound(saved.ws) /\ Sound(resumed.ws)

\* The checkpoint may be behind the state of the run, never before it.
SavedInv ==
    /\ mode # "down" /\ phase = "dev" =>
         saved.phase \in {"none", "dev"} /\ Succeeded(saved.ws) \subseteq Succeeded(ws)
    /\ mode = "wave" => phase = "dev"
    /\ mode = "verify" => phase = "next" /\ saved.phase # "failed"

\* The coordinator's books during a wave.
WaveInv ==
    /\ mode # "wave" => running = {}
    /\ mode = "wave" =>
         /\ todo = Unfinished(ws) /\ todo # {}
         /\ running \cap completed = {}
         /\ completed \subseteq finished
         /\ \A u \in Units : outcome[u] = IF u \in completed THEN "succeeded"
                                          ELSE IF u \in running THEN "running" ELSE "none"
         /\ \A u \in running \cup completed : Deps[u] \cap todo \subseteq completed
    /\ \A i \in 1 .. Len(queue) : queue[i] \in running /\ queue[i] \in finished
    /\ \A i, j \in 1 .. Len(queue) : queue[i] = queue[j] => i = j

Inv == TypeOK /\ RecordInv /\ SavedInv /\ WaveInv /\ DisjointScopes

LEMMA InitInv == Init => Inv
<1> SUFFICES ASSUME Init PROVE Inv
  OBVIOUS
<1> USE Plan DEF Init, NoWorkers, NoCheckpoint
<1>1. TypeOK
  <2>1. saved \in Checkpoints /\ resumed \in Checkpoints
    BY DEF Checkpoints, Phases, Statuses
  <2>0. queue \in Seq(Units)
    BY SMTT(30)
  <2>2. faults \in 0 .. MaxFaults
    BY SMTT(30)
  <2> QED
    BY <2>0, <2>1, <2>2 DEF TypeOK, Phases, Statuses
<1>2. RecordInv /\ SavedInv
  BY DEF RecordInv, SavedInv, Sound, Succeeded
<1>3. WaveInv /\ DisjointScopes
  BY SMTT(30) DEF WaveInv, DisjointScopes
<1> QED
  BY <1>1, <1>2, <1>3 DEF Inv

\* What schedule_next_wave returns: units of the wave that are neither complete
\* nor running, with their dependencies complete and their scopes apart.
LEMMA NextWaveFacts ==
    ASSUME NEW units \in SUBSET Units, NEW done \in SUBSET Units, NEW run \in SUBSET Units,
           NEW S \in SUBSET Units, IsNextWave(S, units, done, run)
    PROVE  /\ S \subseteq units \ (done \cup run)
           /\ \A u \in S : Deps[u] \cap units \subseteq done
           /\ \A u \in S : Conflicts[u] \cap run = {}
           /\ \A u, v \in S : u # v => v \notin Conflicts[u]
<1>1. /\ S \subseteq units \ (done \cup run)
      /\ \A u \in S : Deps[u] \cap units \subseteq done
  BY DEF IsNextWave, Ready
<1>2. \A u \in S : Conflicts[u] \cap (run \cup Below(S, u)) = {}
  BY DEF IsNextWave
<1>3. ASSUME NEW u \in S, NEW v \in S, u # v PROVE v \notin Conflicts[u]
  <2>1. u < v \/ v < u
    BY SMTT(30), <1>3, Plan
  <2>2. CASE v < u
    BY <1>2, <2>2 DEF Below
  <2>3. CASE u < v
    BY <1>2, <2>3, Plan DEF Below
  <2> QED
    BY <2>1, <2>2, <2>3
<1> QED
  BY <1>1, <1>2, <1>3

LEMMA StartWaveStep ==
    ASSUME Inv, StartWave
    PROVE  Inv'
<1>1. PICK S \in SUBSET Units :
         /\ IsNextWave(S, Unfinished(ws), {}, {})
         /\ StartWorkers(S, {}, {})
         /\ outcome' = [u \in Units |-> IF u \in S THEN "running" ELSE "none"]
  BY DEF StartWave
<1>2. /\ S \subseteq Unfinished(ws)
      /\ \A u \in S : Deps[u] \cap Unfinished(ws) = {}
      /\ \A u, v \in S : u # v => v \notin Conflicts[u]
  <2> DEFINE units == Unfinished(ws)
             none == {}
  <2>1. units \in SUBSET Units /\ none \in SUBSET Units
    BY DEF Unfinished
  <2>2. IsNextWave(S, units, none, none)
    BY <1>1
  <2>3. /\ S \subseteq units \ (none \cup none)
        /\ \A u \in S : Deps[u] \cap units \subseteq none
        /\ \A u, v \in S : u # v => v \notin Conflicts[u]
    <3> HIDE DEF units, none
    <3> QED
      BY SMTT(30), <2>1, <2>2, NextWaveFacts
  <2> QED
    BY <2>3
<1>3. running' = S /\ completed' = {} /\ queue' = <<>> /\ todo' = Unfinished(ws)
  BY <1>1 DEF StartWorkers, StartWave
<1>4. ws' \in [Units -> Statuses] /\ Succeeded(ws)' = Succeeded(ws)
  BY DEF StartWave, Inv, TypeOK, Statuses, Resumed, Succeeded
<1>5. Unfinished(ws)' = Unfinished(ws)
  BY <1>4 DEF StartWave, Resumed, Unfinished
<1>7. TypeOK'
  <2>1. outcome' \in [Units -> Statuses]
    BY <1>1 DEF Statuses
  <2> QED
    BY SMTT(30), <1>2, <1>3, <1>4, <2>1 DEF StartWave, Inv, TypeOK, Unfinished
<1>8. RecordInv'
  <2>1. Succeeded(ws') = Succeeded(ws)
    BY <1>4
  <2> QED BY <2>1 DEF StartWave, Inv, RecordInv, Sound, Succeeded
<1>9. SavedInv'
  <2>1. Succeeded(ws') = Succeeded(ws)
    BY <1>4
  <2> QED BY <2>1 DEF StartWave, Inv, SavedInv, Succeeded
<1>10. WaveInv'
  BY SMTT(30), <1>1, <1>2, <1>3, <1>5 DEF StartWave, WaveInv, Inv, TypeOK
<1>11. DisjointScopes'
  BY <1>2, <1>3 DEF DisjointScopes
<1> QED
  BY <1>7, <1>8, <1>9, <1>10, <1>11 DEF Inv

LEMMA WorkerSucceedsStep ==
    ASSUME Inv, NEW u \in Units, WorkerSucceeds(u)
    PROVE  Inv'
<1> USE DEF WorkerSucceeds, Inv
<1>1. u \in running /\ \A i \in 1 .. Len(queue) : queue[i] # u
  BY SMTT(30) DEF Working, Queued, TypeOK
<1>2. TypeOK'
  BY SMTT(30) DEF TypeOK
<1>3. RecordInv' /\ SavedInv'
  BY DEF RecordInv, SavedInv, Sound, Succeeded
<1>4. WaveInv'
  <2>1. queue \in Seq(Units) /\ queue' = Append(queue, u) /\ u \in finished'
    BY DEF TypeOK
  <2>2. \A i \in 1 .. Len(queue') : queue'[i] \in running' /\ queue'[i] \in finished'
    BY SMTT(30), <1>1, <2>1 DEF WaveInv
  <2>3. \A i, j \in 1 .. Len(queue') : queue'[i] = queue'[j] => i = j
    BY SMTT(30), <1>1, <2>1 DEF WaveInv
  <2> QED
    BY <2>2, <2>3 DEF WaveInv, Unfinished
<1>5. DisjointScopes'
  BY DEF DisjointScopes
<1> QED
  BY <1>2, <1>3, <1>4, <1>5

LEMMA TakeResultStep ==
    ASSUME Inv, TakeResult
    PROVE  Inv'
<1> DEFINE u == Head(queue)
           done == completed \cup {u}
           run == running \ {u}
<1>1. PICK S \in SUBSET Units :
         /\ IsNextWave(S, todo, done, run)
         /\ StartWorkers(S, done, run)
         /\ outcome' = [v \in Units |-> IF v = u THEN "succeeded"
                                        ELSE IF v \in S THEN "running" ELSE outcome[v]]
  BY DEF TakeResult
<1>2. queue \in Seq(Units) /\ queue # <<>> /\ u = queue[1] /\ 1 \in 1 .. Len(queue)
  BY SMTT(30) DEF TakeResult, Inv, TypeOK
<1>3. u \in running /\ u \in finished /\ u \in Units /\ u \in todo
  BY SMTT(30), <1>2 DEF Inv, TypeOK, WaveInv
<1>4. mode = "wave" /\ todo \subseteq Units /\ running \subseteq todo /\ completed \subseteq todo
  BY DEF TakeResult, Inv, TypeOK
<1>5. /\ S \subseteq todo \ (done \cup run)
      /\ \A v \in S : Deps[v] \cap todo \subseteq done
      /\ \A v \in S : Conflicts[v] \cap run = {}
      /\ \A v, w \in S : v # w => w \notin Conflicts[v]
  <2>1. todo \in SUBSET Units /\ done \in SUBSET Units /\ run \in SUBSET Units
    BY <1>3, <1>4
  <2> HIDE DEF done, run
  <2> QED
    BY SMTT(30), <1>1, <2>1, NextWaveFacts
<1>6. running' = run \cup S /\ completed' = done
  BY <1>1 DEF StartWorkers
<1>8. /\ queue' \in Seq(Units) /\ Len(queue') = Len(queue) - 1
      /\ \A i \in 1 .. Len(queue') : queue'[i] = queue[i + 1] /\ i + 1 \in 1 .. Len(queue)
  BY SMTT(30), <1>2 DEF TakeResult
<1>9. TypeOK'
  <2>1. outcome' \in [Units -> Statuses]
    BY <1>1 DEF Inv, TypeOK, Statuses
  <2> QED
    BY <1>3, <1>4, <1>5, <1>6, <1>8, <2>1 DEF TakeResult, Inv, TypeOK
<1>10. RecordInv' /\ SavedInv'
  BY DEF TakeResult, Inv, RecordInv, SavedInv, Sound, Succeeded
<1>11. \A i \in 1 .. Len(queue') : queue'[i] \in run /\ queue'[i] \in finished
  BY SMTT(30), <1>2, <1>8 DEF Inv, WaveInv
<1>12. \A i, j \in 1 .. Len(queue') : queue'[i] = queue'[j] => i = j
  <2>1. \A i, j \in 1 .. Len(queue) : queue[i] = queue[j] => i = j
    BY DEF TakeResult, Inv, WaveInv
  <2>2. Len(queue') \in Nat
    BY SMTT(30), <1>2, <1>8
  <2> HIDE DEF Inv
  <2> QED BY SMTT(30), <1>8, <2>1, <2>2
<1>13. \A v \in Units : outcome'[v] = IF v \in completed' THEN "succeeded"
                                      ELSE IF v \in running' THEN "running" ELSE "none"
  BY <1>1, <1>3, <1>4, <1>5, <1>6 DEF Inv, WaveInv
<1>14. WaveInv'
  <2>1. \A v \in running' \cup completed' : Deps[v] \cap todo' \subseteq completed'
    BY <1>3, <1>4, <1>5, <1>6 DEF TakeResult, Inv, WaveInv
  <2>2. running' \cap completed' = {} /\ completed' \subseteq finished'
    BY <1>3, <1>4, <1>5, <1>6 DEF TakeResult, Inv, WaveInv
  <2>3. todo' = Unfinished(ws)' /\ todo' # {} /\ mode' = "wave"
    BY <1>4 DEF TakeResult, Inv, WaveInv, Unfinished
  <2> QED
    BY <1>6, <1>11, <1>12, <1>13, <2>1, <2>2, <2>3 DEF TakeResult, WaveInv
<1>15. DisjointScopes'
  BY <1>4, <1>5, <1>6, Plan DEF Inv, DisjointScopes
<1> QED
  BY <1>9, <1>10, <1>14, <1>15 DEF Inv

\* What a failed wave records: the units recorded before, and those completed.
LEMMA FailedWaveRecords ==
    ASSUME Inv, NEW u \in Units, WorkerFails(u)
    PROVE  /\ ws' \in [Units -> Statuses]
           /\ saved' = [phase |-> "dev", ws |-> ws'] \/ saved' = saved
           /\ Succeeded(ws') = Succeeded(ws) \cup completed
           /\ u \notin Succeeded(ws')
<1>1. PICK B \in SUBSET Units :
         /\ IsBlocked(B, todo \ (running \cup completed), running)
         /\ ws' = Reduced([v \in Units |-> IF v \in running \cup B THEN "failed"
                                           ELSE outcome[v]])
         /\ saved' = [phase |-> "dev", ws |-> ws'] \/ saved' = saved
  BY DEF WorkerFails, Advance, SaveOrLog
<1>2. B \cap completed = {} /\ B \cap Succeeded(ws) = {}
  BY <1>1 DEF IsBlocked, Inv, WaveInv, WorkerFails, Unfinished, Succeeded
<1>3. u \in running /\ u \notin completed /\ u \notin Succeeded(ws) /\ mode = "wave"
  BY DEF WorkerFails, Working, Inv, TypeOK, WaveInv, Unfinished, Succeeded
<1>4. \A v \in Units :
         ws'[v] = IF v \in running \cup B THEN "failed"
                  ELSE IF v \in completed THEN "succeeded"
                  ELSE IF ws[v] = "none" THEN "pending" ELSE ws[v]
  BY <1>1, <1>3 DEF Reduced, Seeded, Inv, TypeOK, WaveInv
<1>5. ws' \in [Units -> Statuses]
  <2>1. DOMAIN ws' = Units /\ ws' = [v \in Units |-> ws'[v]]
    BY <1>1 DEF Reduced
  <2>2. \A v \in Units : ws'[v] \in Statuses
    BY <1>4 DEF Statuses, Inv, TypeOK
  <2> QED
    BY <2>1, <2>2
<1>6. running \cap completed = {} /\ running \cap Succeeded(ws) = {}
  BY ZenonT(30), <1>3 DEF Inv, TypeOK, WaveInv, Unfinished, Succeeded
<1>7. Succeeded(ws') = Succeeded(ws) \cup completed
  BY <1>2, <1>3, <1>4, <1>6 DEF Succeeded, Inv, TypeOK
<1> QED
  BY <1>1, <1>3, <1>5, <1>7

\* Recorded and completed units together keep their dependencies with them.
LEMMA CompletedClosed ==
    ASSUME Inv, mode = "wave"
    PROVE  \A v \in Succeeded(ws) \cup completed : Deps[v] \subseteq Succeeded(ws) \cup completed
BY Plan DEF Inv, TypeOK, RecordInv, Sound, WaveInv, Unfinished, Succeeded

\* A save writes a checkpoint or leaves the old one, within the bound on faults.
LEMMA SaveType ==
    ASSUME TypeOK, NEW p \in Phases, NEW w \in [Units -> Statuses], NEW n \in {0, 1}, SaveOrLog(p, w, n)
    PROVE  saved' \in Checkpoints /\ faults' \in 0 .. MaxFaults
<1>1. saved' \in Checkpoints
  <2>1. [phase |-> p, ws |-> w] \in Checkpoints
    BY DEF Checkpoints
  <2> QED BY <2>1 DEF SaveOrLog, TypeOK
<1>2. PICK m \in {0, 1, 2} : Faults(m)
  BY SMTT(30) DEF SaveOrLog
<1>3. faults' \in 0 .. MaxFaults
  BY SMTT(30), <1>2, Plan DEF Faults, TypeOK
<1> QED BY <1>1, <1>3

\* What a save records is sound if the state is.
LEMMA SavedSound ==
    ASSUME Inv, NEW p, NEW w, NEW n, SaveOrLog(p, w, n), finished' = finished, Sound(w)
    PROVE  Sound(saved.ws)'
<1>1. saved'.ws = w \/ saved' = saved
  BY SMTT(30) DEF SaveOrLog
<1> QED BY <1>1 DEF Inv, RecordInv, Sound, Succeeded

LEMMA WorkerFailsStep ==
    ASSUME Inv, NEW u \in Units, WorkerFails(u)
    PROVE  Inv'
<1>1. /\ ws' \in [Units -> Statuses]
      /\ Succeeded(ws') = Succeeded(ws) \cup completed
      /\ saved' = [phase |-> "dev", ws |-> ws'] \/ saved' = saved
  BY FailedWaveRecords
<1>2. /\ phase' = "dev" /\ mode' = "idle" /\ mode = "wave" /\ resumed' = resumed /\ finished' = finished
      /\ SaveOrLog("dev", ws', 1)
  BY DEF WorkerFails, Advance
<1>3. TypeOK'
  <2>1. saved' \in Checkpoints /\ faults' \in 0 .. MaxFaults
    BY <1>1, <1>2, SaveType DEF Phases, Inv
  <2>2. outcome' \in [Units -> Statuses] /\ queue' \in Seq(Units)
    BY SMTT(30) DEF WorkerFails, EndWave, NoWorkers, Statuses
  <2> QED
    BY <1>1, <1>2, <2>1, <2>2 DEF WorkerFails, EndWave, Inv, TypeOK, Phases
<1>4. RecordInv'
  <2>1. completed \subseteq finished
    BY <1>2 DEF Inv, WaveInv
  <2>2. \A v \in Succeeded(ws') : Deps[v] \subseteq Succeeded(ws')
    BY <1>1, <1>2, CompletedClosed
  <2>3. Succeeded(ws') \subseteq finished
    BY <1>1, <2>1 DEF Inv, RecordInv, Sound
  <2>4. Sound(ws')
    BY <2>2, <2>3 DEF Sound
  <2>5. Sound(saved.ws)'
    BY <1>2, <2>4, SavedSound
  <2> QED
    BY <1>2, <2>2, <2>3, <2>5 DEF RecordInv, Sound, Succeeded, Inv
<1>5. SavedInv'
  <2>1. saved.phase \in {"none", "dev"} /\ Succeeded(saved.ws) \subseteq Succeeded(ws)
    BY <1>2 DEF Inv, SavedInv
  <2>2. saved' = saved \/ (saved'.phase = "dev" /\ saved'.ws = ws')
    BY SMTT(30), <1>1
  <2>3. saved'.phase \in {"none", "dev"} /\ Succeeded(saved'.ws) \subseteq Succeeded(ws')
    BY <1>1, <2>1, <2>2
  <2> QED BY <1>2, <2>3 DEF SavedInv, Succeeded
<1>6. WaveInv' /\ DisjointScopes'
  BY SMTT(30), <1>2 DEF WorkerFails, EndWave, WaveInv, DisjointScopes
<1> QED
  BY <1>3, <1>4, <1>5, <1>6 DEF Inv

LEMMA AllWorkersCompleteStep ==
    ASSUME Inv, AllWorkersComplete
    PROVE  Inv'
<1> USE DEF AllWorkersComplete, EndWave, Advance
<1>0. NoWorkers \in [Units -> Statuses] /\ Succeeded(NoWorkers) = {} /\ Sound(NoWorkers)
  BY DEF NoWorkers, Statuses, Succeeded, Sound
<1>1. /\ ws' = NoWorkers /\ phase' = "next" /\ mode' \in {"idle", "verify"} /\ mode = "wave"
      /\ finished' = finished /\ resumed' = resumed /\ SaveOrLog("next", NoWorkers, 0)
  OBVIOUS
<1>2. TypeOK'
  <2>1. saved' \in Checkpoints /\ faults' \in 0 .. MaxFaults
    BY <1>0, <1>1, SaveType DEF Phases, Inv
  <2>2. integrated' \in BOOLEAN /\ mode' \in {"idle", "wave", "verify", "down"}
    BY DEF Inv, TypeOK
  <2>3. outcome' \in [Units -> Statuses] /\ queue' \in Seq(Units)
    BY SMTT(30), <1>0
  <2> QED
    BY <1>0, <2>1, <2>2, <2>3 DEF Inv, TypeOK, Phases
<1>3. RecordInv' /\ SavedInv'
  <2>1. Sound(saved.ws)'
    BY <1>0, <1>1, SavedSound
  <2>2. saved.phase # "failed"
    BY <1>1 DEF Inv, SavedInv
  <2>3. saved'.phase # "failed"
    BY SMTT(30), <1>1, <2>2 DEF SaveOrLog
  <2>4. Sound(ws)' /\ Sound(resumed.ws)'
    BY <1>0, <1>1 DEF Inv, RecordInv, Sound, Succeeded
  <2>5. RecordInv'
    BY <2>1, <2>4 DEF RecordInv
  <2>6. SavedInv'
    BY <1>1, <2>3 DEF SavedInv
  <2> QED BY <2>5, <2>6
<1>4. WaveInv' /\ DisjointScopes'
  BY SMTT(30) DEF WaveInv, DisjointScopes
<1> QED
  BY <1>2, <1>3, <1>4 DEF Inv

LEMMA WaveErrsStep ==
    ASSUME Inv, WaveErrs
    PROVE  Inv'
<1>1. PICK p \in {"dev", "failed"} : Advance(p, ws) /\ SaveOrLog(p, ws, 1)
  BY DEF WaveErrs
<1>2. /\ ws' = ws /\ phase' = p /\ mode' = "idle" /\ mode = "wave"
      /\ finished' = finished /\ resumed' = resumed
  BY <1>1 DEF WaveErrs, Advance
<1>3. TypeOK'
  <2>1. saved' \in Checkpoints /\ faults' \in 0 .. MaxFaults
    BY <1>1, SaveType DEF Phases, Inv, TypeOK
  <2>2. outcome' \in [Units -> Statuses] /\ queue' \in Seq(Units)
    BY SMTT(30) DEF WaveErrs, EndWave, NoWorkers, Statuses
  <2> QED
    BY <1>2, <2>1, <2>2 DEF WaveErrs, EndWave, Inv, TypeOK, Phases
<1>4. RecordInv'
  <2>1. Sound(saved.ws)'
    BY <1>1, <1>2, SavedSound DEF Inv, RecordInv
  <2> QED BY <1>2, <2>1 DEF Inv, RecordInv, Sound, Succeeded
<1>5. SavedInv'
  <2>1. saved.phase \in {"none", "dev"} /\ Succeeded(saved.ws) \subseteq Succeeded(ws)
    BY <1>2 DEF Inv, SavedInv
  <2>2. CASE p = "dev"
    <3>1. saved'.phase \in {"none", "dev"} /\ Succeeded(saved'.ws) \subseteq Succeeded(ws)
      <4>1. saved' = saved \/ (saved'.phase = "dev" /\ saved'.ws = ws)
        BY SMTT(30), <1>1, <2>2 DEF SaveOrLog
      <4> QED BY <2>1, <4>1
    <3> QED BY <1>2, <3>1 DEF SavedInv, Succeeded
  <2>3. CASE p = "failed"
    BY <1>2, <2>3 DEF SavedInv
  <2> QED BY <2>2, <2>3
<1>6. WaveInv' /\ DisjointScopes'
  BY SMTT(30), <1>2 DEF WaveErrs, EndWave, WaveInv, DisjointScopes
<1> QED
  BY <1>3, <1>4, <1>5, <1>6 DEF Inv

LEMMA VerificationStep ==
    ASSUME Inv, VerificationPasses \/ VerificationFails
    PROVE  Inv'
<1>1. /\ ws' = ws /\ mode' = "idle" /\ phase' \in {"next", "failed"}
      /\ finished' = finished /\ resumed' = resumed
      /\ SaveOrLog(phase', ws, 0) \/ SaveOrLog(phase', ws, 1)
  BY SMTT(30) DEF VerificationPasses, VerificationFails, Advance, Inv, SavedInv
<1>2. TypeOK'
  <2>1. saved' \in Checkpoints /\ faults' \in 0 .. MaxFaults
    BY <1>1, SaveType DEF Phases, Inv, TypeOK
  <2>3. verified' \in BOOLEAN /\ integrated' \in BOOLEAN
    BY DEF VerificationPasses, VerificationFails, Inv, TypeOK
  <2> QED
    BY <1>1, <2>1, <2>3
       DEF VerificationPasses, VerificationFails, wave, Inv, TypeOK, Phases
<1>3. RecordInv'
  <2>1. Sound(saved.ws)'
    BY <1>1, SavedSound DEF Inv, RecordInv
  <2> QED BY <1>1, <2>1 DEF Inv, RecordInv, Sound, Succeeded
<1>4. SavedInv'
  BY <1>1 DEF SavedInv
<1>5. WaveInv' /\ DisjointScopes'
  BY <1>1 DEF VerificationPasses, VerificationFails, wave, Inv, WaveInv, DisjointScopes
<1> QED
  BY <1>2, <1>3, <1>4, <1>5 DEF Inv

\* The end of a process, with the checkpoint as it is or as it was resumed from.
LEMMA EndsStep ==
    ASSUME Inv, Crash \/ InterruptAtCli
    PROVE  Inv'
<1>0. NoWorkers \in [Units -> Statuses] /\ Succeeded(NoWorkers) = {} /\ NoCheckpoint \in Checkpoints
  BY DEF NoWorkers, Statuses, Succeeded, NoCheckpoint, Checkpoints
<1>1. Ends /\ (saved' = saved \/ saved' = resumed)
  BY DEF Crash, InterruptAtCli
<1>2. /\ ws' = NoWorkers /\ phase' = "dev" /\ mode' = "down" /\ resumed' = NoCheckpoint
      /\ finished' = finished
  BY <1>1 DEF Ends, Advance
<1>3. TypeOK'
  <2>1. faults' \in 0 .. MaxFaults
    BY SMTT(30), <1>1, Plan DEF Ends, Faults, Inv, TypeOK
  <2>2. outcome' \in [Units -> Statuses] /\ queue' \in Seq(Units)
    BY SMTT(30), <1>0, <1>1 DEF Ends, EndWave
  <2>3. saved' \in Checkpoints
    BY <1>1 DEF Inv, TypeOK
  <2> QED
    BY <1>0, <1>1, <1>2, <2>1, <2>2, <2>3 DEF Ends, EndWave, Inv, TypeOK, Phases
<1>4. RecordInv'
  <2>1. resumed'.ws = NoWorkers
    BY <1>2 DEF NoCheckpoint
  <2> QED BY <1>0, <1>1, <1>2, <2>1 DEF Inv, RecordInv, Sound, Succeeded
<1>5. SavedInv'
  BY <1>2 DEF SavedInv
<1>6. WaveInv' /\ DisjointScopes'
  BY SMTT(30), <1>1, <1>2 DEF Ends, EndWave, WaveInv, DisjointScopes
<1> QED
  BY <1>3, <1>4, <1>5, <1>6 DEF Inv

LEMMA RestartStep ==
    ASSUME Inv, Restart
    PROVE  Inv'
<1>1. /\ ws' = saved.ws /\ phase' = (IF saved.phase = "none" THEN "dev" ELSE saved.phase)
      /\ saved' = saved /\ resumed' = saved /\ mode' = "idle" /\ mode = "down" /\ finished' = finished
  BY DEF Restart, Advance
<1>2. saved.ws \in [Units -> Statuses] /\ saved.phase \in Phases \cup {"none"}
  BY DEF Inv, TypeOK, Checkpoints
<1>3. TypeOK'
  BY <1>1, <1>2 DEF Restart, wave, Inv, TypeOK, Phases
<1>4. RecordInv' /\ SavedInv'
  BY <1>1, <1>2 DEF Inv, RecordInv, SavedInv, Sound, Succeeded, Phases
<1>5. WaveInv' /\ DisjointScopes'
  BY SMTT(30), <1>1 DEF Restart, wave, Inv, WaveInv, DisjointScopes
<1> QED
  BY <1>3, <1>4, <1>5 DEF Inv

LEMMA StutterStep == Inv /\ UNCHANGED vars => Inv'
BY SMTT(30) DEF Inv, TypeOK, RecordInv, Sound, SavedInv, WaveInv, DisjointScopes, Succeeded, Unfinished, vars,
       wave

(***************************************************************************)
(* The inductive invariant: the books of the coordinator, the in-memory    *)
(* and the saved worker states agree with what the workers delivered.      *)
(***************************************************************************)
THEOREM FanOutInvariance == Spec => []Inv
<1>1. Inv /\ [Next]_vars => Inv'
  BY StartWaveStep, WorkerSucceedsStep, TakeResultStep, AllWorkersCompleteStep,
     WorkerFailsStep, WaveErrsStep, VerificationStep, EndsStep, RestartStep, StutterStep
     DEF Next, Work
<1> QED
  BY InitInv, <1>1, PTL DEF Spec

(***************************************************************************)
(* No worker runs before the units it depends on have delivered, whatever  *)
(* the plan, and over all waves and restarts (_resume_fan_out_state).      *)
(***************************************************************************)
THEOREM FanOutDependencies == Spec => []DependenciesFirst
<1>1. Inv => DependenciesFirst
  BY Plan DEF Inv, TypeOK, RecordInv, Sound, WaveInv, DependenciesFirst, Unfinished, Succeeded
<1> QED
  BY <1>1, FanOutInvariance, PTL

(***************************************************************************)
(* Workers that run together never own a common path, whatever the plan    *)
(* (schedule_next_wave).                                                   *)
(***************************************************************************)
THEOREM FanOutDisjoint == Spec => []DisjointScopes
BY FanOutInvariance, PTL DEF Inv

(***************************************************************************)
(* The checkpoint implements the board for every plan and through failed   *)
(* saves, crashes and restarts: finished units are recorded with their     *)
(* dependencies, and the phase is left when all are recorded; only an      *)
(* interrupt at the CLI takes the record back, to what the run began with. *)
(***************************************************************************)
THEOREM FanOutImplementsBoard == Spec => ImplementsBoard
<1>1. Init => Board!Init
  <2> SUFFICES ASSUME Init PROVE Board!Init
    OBVIOUS
  <2>1. saved.phase = "none" /\ saved.ws = NoWorkers /\ resumed = saved
    BY DEF Init, NoCheckpoint
  <2>2. RecordedIn(saved) = {} /\ RecordedIn(resumed) = {}
    BY <2>1 DEF RecordedIn, NoWorkers
  <2> QED BY <2>1, <2>2 DEF Board!Init, Board!Nothing
<1>2. Inv /\ [Next]_vars => [Board!Next]_(Board!board)
  <2> SUFFICES ASSUME Inv, [Next]_vars PROVE Board!Next \/ UNCHANGED Board!board
    OBVIOUS
  <2>1. ASSUME saved' = saved, resumed' = resumed PROVE UNCHANGED Board!board
    BY <2>1 DEF Board!board, RecordedIn
  <2>2. ASSUME resumed' = resumed, saved.phase \in {"none", "dev"}, saved'.phase = "dev",
               Succeeded(saved.ws) \subseteq Succeeded(saved'.ws), Succeeded(saved'.ws) # Units,
               \A v \in Succeeded(saved'.ws) : Deps[v] \subseteq Succeeded(saved'.ws)
        PROVE  Board!Next
    <3>1. RecordedIn(saved) = Succeeded(saved.ws) /\ RecordedIn(saved') = Succeeded(saved'.ws)
      BY <2>2 DEF RecordedIn, Succeeded
    <3>2. RecordedIn(saved') \in SUBSET Units
      BY <3>1 DEF Succeeded
    <3> QED
      BY <2>2, <3>1, <3>2 DEF Board!Next, Board!Record, Board!Closed, RecordedIn
  <2>3. ASSUME resumed' = resumed, saved.phase \in {"none", "dev"}, saved'.phase = "next"
        PROVE  Board!Next
    <3>1. RecordedIn(saved') = Units /\ RecordedIn(saved) \subseteq Units
      BY <2>3 DEF RecordedIn
    <3>2. \A v \in Units : Deps[v] \subseteq Units
      BY Plan
    <3> QED
      BY <2>3, <3>1, <3>2 DEF Board!Next, Board!Record, Board!Closed, RecordedIn
  <2>4. ASSUME resumed' = resumed, saved'.phase = "failed" PROVE Board!Next
    BY <2>4 DEF Board!Next, Board!GiveUp, RecordedIn
  <2>5. ASSUME NEW u \in Units, WorkerFails(u) PROVE Board!Next \/ UNCHANGED Board!board
    <3>1. /\ saved' = [phase |-> "dev", ws |-> ws'] \/ saved' = saved
          /\ Succeeded(ws') = Succeeded(ws) \cup completed
          /\ u \notin Succeeded(ws')
      BY <2>5, FailedWaveRecords
    <3>2. saved.phase \in {"none", "dev"} /\ mode = "wave" /\ Succeeded(saved.ws) \subseteq Succeeded(ws)
      BY <2>5 DEF WorkerFails, Inv, SavedInv
    <3>3. resumed' = resumed
      BY <2>5 DEF WorkerFails
    <3>4. CASE saved' = [phase |-> "dev", ws |-> ws']
      <4>1. saved'.phase = "dev" /\ saved'.ws = ws'
        BY <3>4
      <4>2. \A v \in Succeeded(ws') : Deps[v] \subseteq Succeeded(ws')
        BY <3>1, <3>2, CompletedClosed
      <4>3. Succeeded(saved.ws) \subseteq Succeeded(ws') /\ Succeeded(ws') # Units
        BY <3>1, <3>2
      <4> QED
        BY <2>2, <3>2, <3>3, <4>1, <4>2, <4>3
    <3> QED
      BY <2>1, <3>1, <3>3, <3>4
  <2>6. CASE AllWorkersComplete
    <3>1. saved.phase \in {"none", "dev"} /\ resumed' = resumed /\ (saved'.phase = "next" \/ saved' = saved)
      <4>1. mode = "wave" /\ resumed' = resumed /\ SaveOrLog("next", NoWorkers, 0)
        BY <2>6 DEF AllWorkersComplete
      <4>2. saved.phase \in {"none", "dev"}
        BY <4>1 DEF Inv, SavedInv
      <4>3. saved'.phase = "next" \/ saved' = saved
        BY SMTT(30), <4>1 DEF SaveOrLog
      <4> QED BY <4>1, <4>2, <4>3
    <3> QED
      BY <2>1, <2>3, <3>1
  <2>7. CASE WaveErrs
    <3>1. PICK p \in {"dev", "failed"} : saved' = [phase |-> p, ws |-> ws] \/ saved' = saved
      BY <2>7 DEF WaveErrs, SaveOrLog
    <3>2. /\ saved.phase \in {"none", "dev"} /\ Succeeded(saved.ws) \subseteq Succeeded(ws)
          /\ resumed' = resumed
      BY <2>7 DEF WaveErrs, Inv, SavedInv
    <3>3. Succeeded(ws) # Units /\ \A v \in Succeeded(ws) : Deps[v] \subseteq Succeeded(ws)
      BY <2>7 DEF WaveErrs, Inv, WaveInv, RecordInv, Sound, Unfinished, Succeeded
    <3>4. CASE saved' = [phase |-> p, ws |-> ws]
      <4>1. saved'.phase = p /\ saved'.ws = ws
        BY <3>4
      <4> QED
        BY <2>2, <2>4, <3>1, <3>2, <3>3, <4>1
    <3> QED
      BY <2>1, <3>1, <3>2, <3>4
  <2>8. CASE VerificationPasses
    <3>1. /\ saved.phase \in {"none", "dev", "next"} /\ resumed' = resumed
          /\ saved'.phase = "next" \/ saved' = saved
      <4>1. mode = "verify" /\ resumed' = resumed /\ SaveOrLog(phase, ws, 0)
        BY <2>8 DEF VerificationPasses
      <4>2. saved.phase # "failed" /\ phase = "next" /\ saved \in Checkpoints
        BY <4>1 DEF Inv, SavedInv, TypeOK
      <4>3. saved.phase \in {"none", "dev", "next"}
        BY <4>2 DEF Checkpoints, Phases
      <4>4. saved'.phase = "next" \/ saved' = saved
        BY SMTT(30), <4>1, <4>2 DEF SaveOrLog
      <4> QED BY <4>1, <4>3, <4>4
    <3>2. CASE saved.phase = "next" /\ saved'.phase = "next"
      BY <3>1, <3>2 DEF Board!board, RecordedIn
    <3> QED
      BY <2>1, <2>3, <3>1, <3>2
  <2>9. CASE VerificationFails
    <3>1. resumed' = resumed /\ (saved'.phase = "failed" \/ saved' = saved)
      BY SMTT(30), <2>9 DEF VerificationFails, SaveOrLog
    <3> QED
      BY <2>1, <2>4, <3>1
  <2>10. CASE Restart
    BY <2>10 DEF Restart, Board!Next, Board!Resume, RecordedIn
  <2>11. ASSUME resumed' = NoCheckpoint
         PROVE  [recorded |-> RecordedIn(resumed'), stage |-> resumed'.phase] = Board!Nothing
    BY SMTT(30), <2>11 DEF NoCheckpoint, RecordedIn, NoWorkers, Board!Nothing
  <2>12. CASE Crash
    BY <2>11, <2>12 DEF Crash, Ends, Board!Next, Board!Stop, RecordedIn
  <2>13. CASE InterruptAtCli
    <3>1. resumed' = NoCheckpoint /\ saved' = resumed /\ resumed.phase # "none"
      BY <2>13 DEF InterruptAtCli, Ends
    <3>2. Board!Interrupt
      <4> DEFINE base == [recorded |-> RecordedIn(resumed), stage |-> resumed.phase]
      <4>1. base.recorded = RecordedIn(resumed) /\ base.stage = resumed.phase
        OBVIOUS
      <4>2. RecordedIn(saved)' = RecordedIn(resumed) /\ saved'.phase = resumed.phase
        BY <3>1 DEF RecordedIn
      <4> QED
        BY <2>11, <3>1, <4>1, <4>2 DEF Board!Interrupt
    <3> QED BY <3>2 DEF Board!Next
  <2> QED
    BY <2>1, <2>5, <2>6, <2>7, <2>8, <2>9, <2>10, <2>12, <2>13
       DEF Next, Work, StartWave, WorkerSucceeds, TakeResult, vars
<1> QED
  BY <1>1, <1>2, FanOutInvariance, PTL DEF Spec, ImplementsBoard, Board!Spec

-----------------------------------------------------------------------------
\* A set of naturals that is not empty has a smallest member.
LEMMA NatMinimum ==
    ASSUME NEW S \in SUBSET Nat, S # {}
    PROVE  \E n \in S : \A m \in S : n <= m
<1> DEFINE less == {p \in Nat \X Nat : p[1] < p[2]}
<1>1. IsWellFoundedOn(less, Nat)
  BY NatLessThanWellFounded DEF OpToRel
<1>2. PICK n \in S : \A m \in S : ~ <<m, n>> \in less
  <2> HIDE DEF less
  <2> QED
    BY <1>1, WFMin
<1>3. ASSUME NEW m \in S PROVE n <= m
  <2>1. <<m, n>>[1] = m /\ <<m, n>>[2] = n /\ <<m, n>> \in Nat \X Nat
    OBVIOUS
  <2>2. ~ m < n
    BY <1>2, <2>1
  <2> QED
    BY SMTT(30), <2>2
<1> QED
  BY <1>3

\* A set of units fits into k slots if each of them finds fewer than k before
\* it: schedule_next_wave never counts the whole selection.
LEMMA SelectionFits ==
    ASSUME NEW S \in SUBSET Units, NEW k \in Nat,
           \A u \in S : IsFiniteSet(Below(S, u)) /\ Cardinality(Below(S, u)) < k
    PROVE  IsFiniteSet(S) /\ Cardinality(S) <= k
<1>1. CASE S = {}
  BY SMTT(30), <1>1, FS_EmptySet
<1>2. CASE S # {}
  <2> DEFINE Free(u) == k - Cardinality(Below(S, u))
             frees == {Free(u) : u \in S}
  <2>0. \A u \in S : u \in Nat /\ ~ u < u
    BY SMTT(30), Plan
  <2>1. \A u \in S : Cardinality(Below(S, u)) \in Nat
    BY FS_CardinalityType
  <2>2. frees \in SUBSET Nat /\ frees # {}
    BY SMTT(30), <1>2, <2>1
  <2>3. PICK n \in frees : \A m \in frees : n <= m
    <3> HIDE DEF frees
    <3> QED
      BY <2>2, NatMinimum
  <2>4. PICK last \in S : n = Free(last)
    OBVIOUS
  <2>5. ASSUME NEW u \in S PROVE ~ last < u
    <3>1. SUFFICES ASSUME last < u PROVE FALSE
      OBVIOUS
    <3> DEFINE B == Below(S, last)
    <3>2. last \notin B /\ B \cup {last} \subseteq Below(S, u)
      <4>1. \A v \in S : v < last => v < u
        BY SMTT(30), <2>0, <3>1
      <4> QED
        BY <2>0, <3>1, <4>1 DEF Below
    <3>3. /\ IsFiniteSet(B \cup {last})
          /\ Cardinality(B \cup {last}) = Cardinality(B) + 1
      BY <3>2, FS_AddElement
    <3>4. Cardinality(B \cup {last}) <= Cardinality(Below(S, u))
      BY <3>2, FS_Subset
    <3>5. Free(last) <= Free(u)
      BY <2>3, <2>4
    <3> QED
      BY SMTT(30), <2>1, <3>3, <3>4, <3>5
  <2> DEFINE B == Below(S, last)
  <2>6. S = B \cup {last} /\ last \notin B
    <3>1. \A v \in S : v < last \/ v = last
      BY SMTT(30), <2>0, <2>5
    <3> QED
      BY <2>0, <3>1 DEF Below
  <2>7. IsFiniteSet(B) /\ Cardinality(B) \in Nat /\ Cardinality(B) < k
    BY <2>1
  <2> HIDE DEF B
  <2>8. /\ IsFiniteSet(B \cup {last})
        /\ Cardinality(B \cup {last}) = Cardinality(B) + 1
    BY <2>6, <2>7, FS_AddElement
  <2>9. IsFiniteSet(S) /\ Cardinality(S) = Cardinality(B) + 1
    BY <2>6, <2>8
  <2> QED
    BY SMTT(30), <2>7, <2>9
<1> QED
  BY <1>1, <1>2

\* There are finitely many units before a unit.
LEMMA BelowFinite ==
    ASSUME NEW S \in SUBSET Units, NEW u \in S
    PROVE  IsFiniteSet(Below(S, u))
<1>1. u \in Nat /\ Below(S, u) \subseteq 0 .. u
  <2>1. \A v \in S : v \in Nat
    BY Plan
  <2>2. \A v \in S : v < u => v \in 0 .. u
    BY SMTT(30), <2>1
  <2> QED
    BY <2>1, <2>2 DEF Below
<1>2. IsFiniteSet(0 .. u)
  BY SMTT(30), <1>1, FS_Interval
<1> QED
  BY <1>1, <1>2, FS_Subset

\* The workers of a pool within its cap and the units selected next to them
\* are within it together.
LEMMA NextWaveWithinCap ==
    ASSUME NEW units, NEW done, NEW run, NEW S \in SUBSET Units,
           IsNextWave(S, units, done, run),
           IsFiniteSet(run), Cardinality(run) <= MaxWorkers
    PROVE  IsFiniteSet(run \cup S) /\ Cardinality(run \cup S) <= MaxWorkers
<1>1. Cardinality(run) \in Nat /\ MaxWorkers \in Nat
  BY FS_CardinalityType, Plan
<1>2. Slots(run) \in Nat /\ Slots(run) = MaxWorkers - Cardinality(run)
  BY SMTT(30), <1>1 DEF Slots
<1>3. \A u \in S : IsFiniteSet(Below(S, u)) /\ Cardinality(Below(S, u)) < Slots(run)
  BY BelowFinite DEF IsNextWave
<1>4. IsFiniteSet(S) /\ Cardinality(S) <= Slots(run)
  BY <1>2, <1>3, SelectionFits
<1>5. IsFiniteSet(run \cup S) /\ Cardinality(run \cup S) \in Nat /\ Cardinality(S) \in Nat
  BY <1>4, FS_Union, FS_CardinalityType
<1>6. Cardinality(run \cup S) <= Cardinality(run) + Cardinality(S)
  <2>1. Cardinality(run \cup S) = Cardinality(run) + Cardinality(S) - Cardinality(run \cap S)
    BY <1>4, FS_Union
  <2>2. Cardinality(run \cap S) \in Nat
    BY <1>4, FS_Intersection, FS_CardinalityType
  <2> QED
    BY SMTT(30), <1>1, <1>5, <2>1, <2>2
<1> QED
  BY SMTT(30), <1>1, <1>2, <1>4, <1>5, <1>6

CapInv == IsFiniteSet(running) /\ WorkerCap

(***************************************************************************)
(* The coordinator never runs more workers than max_parallel_workers,      *)
(* whatever the plan and however results, failures and crashes fall.       *)
(***************************************************************************)
THEOREM FanOutCap == Spec => []WorkerCap
<1>1. Cardinality({}) <= MaxWorkers /\ IsFiniteSet({})
  BY SMTT(30), Plan, FS_EmptySet
<1>2. Init => CapInv
  BY <1>1 DEF Init, CapInv, WorkerCap
<1>3. CapInv /\ [Next]_vars => CapInv'
  <2> SUFFICES ASSUME CapInv, [Next]_vars PROVE CapInv'
    OBVIOUS
  <2>1. CASE StartWave
    <3>1. PICK S \in SUBSET Units : IsNextWave(S, Unfinished(ws), {}, {}) /\ running' = {} \cup S
      BY <2>1 DEF StartWave, StartWorkers
    <3> QED
      BY <1>1, <3>1, NextWaveWithinCap DEF CapInv, WorkerCap
  <2>2. CASE TakeResult
    <3> DEFINE done == completed \cup {Head(queue)}
               run == running \ {Head(queue)}
    <3>1. PICK S \in SUBSET Units : IsNextWave(S, todo, done, run) /\ running' = run \cup S
      BY <2>2 DEF TakeResult, StartWorkers
    <3>2. IsFiniteSet(run) /\ Cardinality(run) <= MaxWorkers
      <4>1. IsFiniteSet(run) /\ Cardinality(run) <= Cardinality(running)
        BY FS_Subset DEF CapInv
      <4>2. Cardinality(run) \in Nat /\ Cardinality(running) \in Nat /\ MaxWorkers \in Nat
        BY <4>1, FS_CardinalityType, Plan DEF CapInv
      <4> QED
        BY SMTT(30), <4>1, <4>2 DEF CapInv, WorkerCap
    <3> HIDE DEF done, run
    <3> QED
      BY <3>1, <3>2, NextWaveWithinCap DEF CapInv, WorkerCap
  <2>3. ASSUME running' = {} PROVE CapInv'
    BY <1>1, <2>3 DEF CapInv, WorkerCap
  <2>4. ASSUME running' = running PROVE CapInv'
    BY <2>4 DEF CapInv, WorkerCap
  <2> QED
    BY <2>1, <2>2, <2>3, <2>4
       DEF Next, Work, AllWorkersComplete, WorkerSucceeds, WorkerFails, WaveErrs,
           VerificationPasses, VerificationFails, Crash, InterruptAtCli, Ends, Restart, EndWave, vars, wave
<1>4. CapInv => WorkerCap
  BY DEF CapInv
<1> QED
  BY <1>2, <1>3, <1>4, PTL DEF Spec

\* The verification runs only after every unit has delivered.
VerifyInv == mode = "verify" => finished = Units

LEMMA CompleteIsDelivered ==
    ASSUME Inv, AllWorkersComplete
    PROVE  finished = Units
<1>1. mode = "wave" /\ \A u \in Units : Reduced(outcome)[u] = "succeeded"
  BY DEF AllWorkersComplete
<1>2. ASSUME NEW u \in Units PROVE u \in finished
  <2>1. CASE outcome[u] = "none"
    BY <1>1, <2>1 DEF Reduced, Seeded, Inv, RecordInv, Sound, Succeeded
  <2>2. CASE outcome[u] # "none"
    <3>1. outcome[u] = "succeeded"
      BY <1>1, <2>2 DEF Reduced
    <3> QED
      BY <1>1, <3>1 DEF Inv, WaveInv
  <2> QED
    BY <2>1, <2>2
<1> QED
  BY <1>2 DEF Inv, TypeOK

(***************************************************************************)
(* The changes are integrated only when every unit has delivered and the   *)
(* verification the policy asks for has passed, whatever the plan          *)
(* (execute_fan_out_wave, on_successful_completion).                       *)
(***************************************************************************)
THEOREM FanOutIntegrated == Spec => IntegratedIsComplete
<1>1. Init => VerifyInv
  BY DEF Init, VerifyInv
<1>2. Inv /\ VerifyInv /\ [Next]_vars => VerifyInv'
  <2> SUFFICES ASSUME Inv, VerifyInv, [Next]_vars PROVE VerifyInv'
    OBVIOUS
  <2>1. CASE AllWorkersComplete
    BY <2>1, CompleteIsDelivered DEF AllWorkersComplete, VerifyInv
  <2> QED
    BY <2>1 DEF VerifyInv, Next, Work, StartWave, TakeResult, WorkerSucceeds, WorkerFails,
                WaveErrs, VerificationPasses, VerificationFails, Crash, InterruptAtCli, Ends, Restart, vars
<1>3. /\ Inv /\ VerifyInv /\ [Next]_vars
      => [integrated' # integrated => finished = Units /\ (verify => verified')]_vars
  <2> SUFFICES ASSUME Inv, VerifyInv, [Next]_vars, integrated' # integrated
               PROVE  finished = Units /\ (verify => verified')
    OBVIOUS
  <2>1. AllWorkersComplete \/ VerificationPasses
    BY DEF Next, Work, StartWave, TakeResult, WorkerSucceeds, WorkerFails, WaveErrs,
           VerificationFails, Crash, InterruptAtCli, Ends, Restart, vars
  <2>2. CASE AllWorkersComplete
    BY <2>2, CompleteIsDelivered DEF AllWorkersComplete
  <2>3. CASE VerificationPasses
    BY <2>3 DEF VerificationPasses, VerifyInv
  <2> QED
    BY <2>1, <2>2, <2>3
<1> QED
  BY <1>1, <1>2, <1>3, FanOutInvariance, PTL DEF Spec, IntegratedIsComplete

-----------------------------------------------------------------------------
\* In a wave with units left, one of them waits for no other unit of the wave:
\* otherwise dispatchable_work_units would not have reached them.
LEMMA SomeUnitIsReady ==
    ASSUME NEW units \in SUBSET Units, NEW done \in SUBSET units, done # units
    PROVE  Ready(units, done, {}) # {}
<1> SUFFICES ASSUME Ready(units, done, {}) = {} PROVE FALSE
  OBVIOUS
<1> DEFINE S == done \cup (Units \ units)
<1>1. \A u \in units \ done : ~ Deps[u] \cap units \subseteq done
  BY DEF Ready
<1>2. HasReachable(S)
  BY <1>1, Plan DEF HasReachable
<1>3. S \in SUBSET Units
  OBVIOUS
<1>4. S = Units
  <2> HIDE DEF S
  <2> QED
    BY <1>2, <1>3, Dispatched DEF DispatchableUnits
<1> QED
  BY <1>4

\* schedule_next_wave with no worker running selects a unit if one is left:
\* the first ready one, before which nothing takes a slot or a path.
LEMMA EmptyPoolIsFilled ==
    ASSUME NEW units \in SUBSET Units, NEW done \in SUBSET units, done # units,
           NEW S \in SUBSET Units, IsNextWave(S, units, done, {})
    PROVE  S # {}
<1> SUFFICES ASSUME S = {} PROVE FALSE
  OBVIOUS
<1>1. Ready(units, done, {}) \in SUBSET Nat /\ Ready(units, done, {}) # {}
  BY SomeUnitIsReady, Plan DEF Ready
<1>2. PICK u \in Ready(units, done, {}) : TRUE
  BY <1>1
<1>3. Below(S, u) = {} /\ Cardinality(Below(S, u)) = 0
  BY FS_EmptySet DEF Below
<1>4. Slots({}) = MaxWorkers /\ 0 < MaxWorkers
  BY SMTT(30), Plan, FS_EmptySet DEF Slots
<1> QED
  BY <1>2, <1>3, <1>4 DEF IsNextWave

\* A checkpoint of this phase has units left.
Left(c) == c.phase \in {"none", "dev"} => Unfinished(c.ws) # {}
StuckInv == NeverStuck /\ Left(saved) /\ Left(resumed)

LEMMA StuckStep ==
    ASSUME Inv, StuckInv, [Next]_vars
    PROVE  StuckInv'
<1> USE DEF StuckInv, NeverStuck, Left
<1>1. CASE StartWave
  <2> DEFINE units == Unfinished(ws)
             none == {}
  <2>1. PICK S \in SUBSET Units : IsNextWave(S, units, none, {}) /\ running' = S
    BY <1>1 DEF StartWave, StartWorkers
  <2>2. units \in SUBSET Units /\ units # {} /\ todo' = units
    BY <1>1 DEF StartWave, Unfinished
  <2>3. S # {}
    <3>1. none \in SUBSET units /\ none # units
      BY <2>2
    <3> HIDE DEF units, none
    <3> QED
      BY <2>1, <2>2, <3>1, EmptyPoolIsFilled
  <2> QED
    BY <1>1, <2>1, <2>2, <2>3 DEF StartWave, Unfinished
<1>2. CASE TakeResult
  <2> DEFINE u == Head(queue)
             done == completed \cup {u}
             run == running \ {u}
  <2>1. PICK S \in SUBSET Units : /\ IsNextWave(S, todo, done, run)
                                  /\ running' = run \cup S /\ completed' = done
    BY <1>2 DEF TakeResult, StartWorkers
  <2>2. queue \in Seq(Units) /\ queue # <<>> /\ u = queue[1] /\ 1 \in 1 .. Len(queue)
    BY SMTT(30), <1>2 DEF TakeResult, Inv, TypeOK
  <2>3. todo \in SUBSET Units /\ done \in SUBSET todo
    BY SMTT(30), <2>2 DEF Inv, TypeOK, WaveInv
  <2>4. running' # {} \/ completed' = todo
    <3> SUFFICES ASSUME run = {}, done # todo PROVE S # {}
      BY <2>1
    <3>1. IsNextWave(S, todo, done, {})
      BY <2>1
    <3> HIDE DEF done, run
    <3> QED
      BY <2>3, <3>1, EmptyPoolIsFilled
  <2> QED
    BY <1>2, <2>4 DEF TakeResult, Unfinished
<1>3. ASSUME NEW u \in Units, WorkerFails(u) PROVE StuckInv'
  <2>1. (saved' = [phase |-> "dev", ws |-> ws'] \/ saved' = saved) /\ u \notin Succeeded(ws')
    BY <1>3, FailedWaveRecords
  <2>3. saved'.ws = ws' \/ saved' = saved
    BY SMTT(30), <2>1
  <2>2. (saved'.ws = ws' \/ saved' = saved) /\ u \in Unfinished(ws') /\ mode' = "idle" /\ resumed' = resumed
    BY <1>3, <2>1, <2>3 DEF Unfinished, Succeeded, WorkerFails
  <2> QED
    BY <2>2 DEF Unfinished
<1>4. CASE WaveErrs
  <2>1. Unfinished(ws) # {}
    BY <1>4 DEF WaveErrs, Inv, WaveInv
  <2>2. ws' = ws /\ (saved'.ws = ws \/ saved' = saved) /\ mode' = "idle" /\ resumed' = resumed
    BY SMTT(30), <1>4 DEF WaveErrs, Advance, SaveOrLog
  <2> QED
    BY <2>1, <2>2 DEF Unfinished
<1>5. ASSUME AllWorkersComplete \/ VerificationPasses \/ VerificationFails PROVE StuckInv'
  <2>1. /\ phase' \in {"next", "failed"} /\ mode' \in {"idle", "verify"} /\ resumed' = resumed
        /\ saved'.phase \in {"next", "failed"} \/ saved' = saved
    BY SMTT(30), <1>5 DEF AllWorkersComplete, VerificationPasses, VerificationFails, Advance, SaveOrLog, Inv, SavedInv
  <2> QED
    BY <2>1 DEF Unfinished
<1>6. PICK x \in Units : TRUE
  BY Dispatched
<1>7. CASE Crash \/ InterruptAtCli
  <2>1. /\ resumed'.ws = NoWorkers /\ mode' = "down" /\ (saved' = saved \/ saved' = resumed)
    BY SMTT(30), <1>7 DEF Crash, InterruptAtCli, Ends, NoCheckpoint
  <2>2. x \in Unfinished(NoWorkers)
    BY <1>6 DEF Unfinished, NoWorkers
  <2> QED
    BY <2>1, <2>2 DEF Unfinished
<1>8. CASE Restart
  BY <1>8 DEF Restart, Advance, Unfinished
<1>9. ASSUME NEW u \in Units, WorkerSucceeds(u) PROVE StuckInv'
  BY <1>9 DEF WorkerSucceeds, Unfinished
<1>10. CASE UNCHANGED vars
  BY <1>10 DEF vars, wave, Unfinished
<1> QED
  BY <1>1, <1>2, <1>3, <1>4, <1>5, <1>7, <1>8, <1>9, <1>10 DEF Next, Work

(***************************************************************************)
(* The coordinator never reports ALL_WORKERS_COMPLETE with units left, and *)
(* a phase entered again has units to run, for every plan that is fanned   *)
(* out: dispatchable_work_units refuses the plans whose units wait for     *)
(* each other, and that is the only reason a wave could stand still.       *)
(***************************************************************************)
THEOREM FanOutNeverStuck == Spec => []NeverStuck
<1>1. Init => StuckInv
  <2>1. PICK u \in Units : TRUE
    BY Dispatched
  <2> QED
    BY SMTT(30), <2>1 DEF Init, StuckInv, NeverStuck, Left, Unfinished, NoWorkers, NoCheckpoint
<1>2. StuckInv => NeverStuck
  BY DEF StuckInv
<1> QED
  BY <1>1, <1>2, StuckStep, FanOutInvariance, PTL DEF Spec

(***************************************************************************)
(* Type correctness of the wave and of the checkpoint, for every plan: the *)
(* coordinator's running and completed units stay units of its wave.       *)
(***************************************************************************)
THEOREM FanOutTypeCorrect == Spec => []TypeOK
BY FanOutInvariance, PTL DEF Inv
===========================================================================
