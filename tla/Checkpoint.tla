----------------------------- MODULE Checkpoint -----------------------------
(***************************************************************************)
(* The checkpoint of a run: who writes which file, and which file a run    *)
(* started with --resume reads (ralph/pipeline/checkpoint.py, the saves of *)
(* runner.py, run_loop.py and fan_out.py, and cli/commands/run.py).        *)
(*                                                                         *)
(* A pipeline state is the number of steps that led to it; a step that is  *)
(* repeated counts again.                                                  *)
(***************************************************************************)
EXTENDS Naturals

CONSTANTS MaxSteps,   \* bound on the steps of a run
          Absent      \* no checkpoint, no state

States == 0 .. MaxSteps

\* checkpoint.py's CHECKPOINT_PATH, and runner.py's _checkpoint_path(scope).
DefaultPath == "agent"
RunnerPath == "root"
Paths == {DefaultPath, RunnerPath}

NoSave == [path |-> DefaultPath, state |-> Absent]

VARIABLES mode,      \* "down", "up", or "leaving" after an interrupt
          resume,    \* this process was started with --resume
          initial,   \* request.initial_state
          state,     \* the state of the run loop
          staged,    \* a save between its staging file and the replace
          disk,      \* the checkpoint files
          last,      \* history: the last state published
          promised   \* history: what last was when this process started

vars == <<mode, resume, initial, state, staged, disk, last, promised>>

Init ==
    /\ mode = "down" /\ resume = FALSE
    /\ initial = Absent /\ state = 0
    /\ staged = NoSave
    /\ disk = [p \in Paths |-> Absent]
    /\ promised = Absent /\ last = Absent

-----------------------------------------------------------------------------
(* _load_configuration: a changed prompt clears the generated state under  *)
(* .agent/, then --resume loads the checkpoint; a corrupt or missing one   *)
(* is None, and _resolve_initial_state creates a first state.              *)

FirstState(s) == IF s = Absent THEN 0 ELSE s

Begin(files, wanted) ==
    /\ mode = "down"
    /\ mode' = "up"
    /\ resume' = wanted
    /\ disk' = files
    /\ initial' = IF wanted THEN files[DefaultPath] ELSE Absent
    /\ state' = FirstState(initial')
    /\ UNCHANGED staged

Start ==
    /\ \E wanted \in BOOLEAN : Begin(disk, wanted)
    /\ promised' = last
    /\ UNCHANGED last

StartWithNewPrompt ==
    /\ \E wanted \in BOOLEAN : Begin([disk EXCEPT ![DefaultPath] = Absent], wanted)
    /\ promised' = Absent /\ last' = Absent

-----------------------------------------------------------------------------
(* save: the serialized state goes to a staging file of its own, which the *)
(* replace makes the checkpoint; a failing save is logged.                 *)

Stage(path, s) == staged' = [path |-> path, state |-> s]

Leave == mode' = IF mode = "leaving" THEN "down" ELSE mode

Replace ==
    /\ staged # NoSave
    /\ disk' = [disk EXCEPT ![staged.path] = staged.state]
    /\ last' = staged.state
    /\ staged' = NoSave
    /\ Leave
    /\ UNCHANGED <<resume, initial, state, promised>>

SaveFails ==
    /\ staged # NoSave
    /\ staged' = NoSave
    /\ Leave
    /\ UNCHANGED <<resume, initial, state, disk, promised, last>>

SaveNextState(path) ==
    /\ mode = "up" /\ staged = NoSave
    /\ state < MaxSteps
    /\ state' = state + 1
    /\ Stage(path, state + 1)
    /\ UNCHANGED <<mode, resume, initial, disk, promised, last>>

\* A step of the run loop: run_one_step, its recovery, the inline effects.
StepEnds == SaveNextState(RunnerPath)

\* A wave of parallel workers, which saves by itself (dispatch by fan-out only).
WaveEnds == SaveNextState(DefaultPath)

\* A keyboard interrupt in the loop saves the state the loop has reached.
InterruptInLoop ==
    /\ mode = "up" /\ staged = NoSave
    /\ mode' = "leaving"
    /\ Stage(RunnerPath, state)
    /\ UNCHANGED <<resume, initial, state, disk, promised, last>>

\* One outside the loop saves the state the run was resumed from, if any.
InterruptAtCli ==
    /\ mode = "up" /\ staged = NoSave
    /\ mode' = IF initial = Absent THEN "down" ELSE "leaving"
    /\ staged' = IF initial = Absent THEN NoSave ELSE [path |-> DefaultPath, state |-> initial]
    /\ UNCHANGED <<resume, initial, state, disk, promised, last>>

Crash ==
    /\ mode # "down"
    /\ mode' = "down"
    /\ staged' = NoSave
    /\ UNCHANGED <<resume, initial, state, disk, promised, last>>

Next ==
    \/ Start \/ StartWithNewPrompt
    \/ StepEnds \/ WaveEnds \/ Replace \/ SaveFails
    \/ InterruptInLoop \/ InterruptAtCli \/ Crash

Spec == Init /\ [][Next]_vars

-----------------------------------------------------------------------------
(***************************************************************************)
(* A run started with --resume continues from the last state that was      *)
(* saved ("so a run can continue from the last completed step after an     *)
(* interruption or crash", docs/sphinx/recovery.md).  The code does not    *)
(* keep this: the run loop saves to checkpoint.json in the workspace root, *)
(* and _load_configuration reads .agent/checkpoint.json.                   *)
(***************************************************************************)
ResumesLastSave == mode = "up" /\ resume => FirstState(initial) = FirstState(promised)
=============================================================================
