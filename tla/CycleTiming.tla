---------------------------- MODULE CycleTiming ----------------------------
(***************************************************************************)
(* The two timeboxes (ralph/pipeline/cycle_timing.py).  The cycle timebox  *)
(* runs from accepted plan to final commit, the development timebox from   *)
(* development to its commit.  Both are enforced only where a route is     *)
(* taken, against the clocks rt sampled for that step.                     *)
(***************************************************************************)
EXTENDS Handoffs

RoutingTimings == [total : Nat, development : Nat]

(***************************************************************************)
(* A CycleTimeboxDecision.                                                 *)
(***************************************************************************)
pass_through(s, target) ==
  [state |-> s, target |-> target, redirected |-> FALSE, started |-> FALSE]

started(s) ==
  [s EXCEPT !.cycle_timebox_active = TRUE,
            !.cycle_timebox_consumed_seconds = 0]

apply_cycle_timebox(s, target, rt) ==
  LET ct == cycle_timebox IN
  IF /\ HasCycleTimebox
     /\ ~s.cycle_timebox_active
     /\ s.phase = ct.start_source
     /\ target = ct.start_entry
  THEN [pass_through(started(s), target) EXCEPT !.started = TRUE]
  ELSE IF /\ HasCycleTimebox
          /\ s.cycle_timebox_active
          /\ target = ct.guarded_entry
          /\ rt.total >= ct.duration_seconds
       THEN [pass_through(stamp_if_unrecorded(s, ct.finalization_cycle_outcome),
                          ct.finalization_target) EXCEPT !.redirected = TRUE]
       ELSE pass_through(s, target)

apply_development_timebox(s, target, rt) ==
  LET dt == development_timebox IN
  IF HasDevelopmentTimebox /\ ~s.dev_timebox_active /\ target = dt.start_entry
  THEN [pass_through([s EXCEPT !.dev_timebox_active = TRUE,
                               !.dev_timebox_consumed_seconds = 0], target)
          EXCEPT !.started = TRUE]
  ELSE IF /\ HasDevelopmentTimebox
          /\ s.dev_timebox_active
          /\ target = dt.guarded_entry
          /\ rt.development >= dt.warning_seconds
       THEN [pass_through([s EXCEPT !.post_commit_phase_override =
                             IF Role[dt.end_entry] = "commit"
                             THEN OnSuccess[dt.end_entry] ELSE @],
                          dt.finalization_target) EXCEPT !.redirected = TRUE]
       ELSE pass_through(s, target)

(***************************************************************************)
(* The cycle timer keeps its reading when it stops, for the report; the    *)
(* development timer is zeroed.                                            *)
(***************************************************************************)
conclude_cycle_on_route_out_of_cycle(s, next) ==
  IF HasCycleTimebox /\ next = cycle_timebox.end_entry
  THEN [s EXCEPT !.cycle_timebox_active = FALSE]
  ELSE s

conclude_development_timebox_on_route_out_of_development(s, next) ==
  IF /\ HasDevelopmentTimebox
     /\ s.dev_timebox_active
     /\ next = development_timebox.end_entry
  THEN [s EXCEPT !.dev_timebox_active = FALSE,
                 !.dev_timebox_consumed_seconds = 0]
  ELSE s

start_cycle_for_bypassed_start_source(s, target, skipped) ==
  IF /\ HasCycleTimebox
     /\ ~s.cycle_timebox_active
     /\ target = cycle_timebox.start_entry
     /\ cycle_timebox.start_source \in skipped
  THEN started(s)
  ELSE s

=============================================================================
