------------------------------ MODULE WorkBoard ------------------------------
(***************************************************************************)
(* What a parallel phase promises of the record that survives a run: the   *)
(* set of finished work units only grows, never holds a unit before the    *)
(* units it depends on, and the phase is left for the next one exactly     *)
(* when every unit is in it.  Giving up, before or after, ends the record. *)
(* An interrupt puts back the record the run was resumed from.             *)
(***************************************************************************)
CONSTANTS Units, Deps

VARIABLES recorded,   \* the units recorded as finished
          stage,      \* "none" before the first record, "dev", "next" or "failed"
          base        \* the record the run was resumed from

board == <<recorded, stage, base>>

Closed(S) == \A u \in S : Deps[u] \subseteq S
Nothing == [recorded |-> {}, stage |-> "none"]

Init == recorded = {} /\ stage = "none" /\ base = Nothing

Record ==
    /\ stage \in {"none", "dev"}
    /\ \E S \in SUBSET Units :
         /\ recorded \subseteq S
         /\ Closed(S)
         /\ recorded' = S
         /\ stage' = IF S = Units THEN "next" ELSE "dev"
    /\ UNCHANGED base

GiveUp ==
    /\ stage' = "failed"
    /\ recorded' = {}
    /\ UNCHANGED base

Resume ==
    /\ base' = [recorded |-> recorded, stage |-> stage]
    /\ UNCHANGED <<recorded, stage>>

Stop ==
    /\ base' = Nothing
    /\ UNCHANGED <<recorded, stage>>

Interrupt ==
    /\ base.stage # "none"
    /\ recorded' = base.recorded /\ stage' = base.stage
    /\ base' = Nothing

Next == Record \/ GiveUp \/ Resume \/ Stop \/ Interrupt

Spec == Init /\ [][Next]_board
=============================================================================
