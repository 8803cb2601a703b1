------------------------- MODULE RTDEControlInterface -------------------------
(***************************************************************************)
(* The command channel of RTDEControlInterface: a register mailbox between *)
(* the host and the control script (spec 4.4). Only the class header is   *)
(* in the source (script_client.cpp lines 203-987): it gives the          *)
(* handshake values UR_CONTROLLER_RDY_FOR_CMD / UR_CONTROLLER_DONE_WITH_CMD*)
(* and the timeouts; the request/response steps come from spec 4.4.       *)
(*                                                                         *)
(* Host (one caller thread, sendCommand):                                  *)
(*   wait until the snapshot shows RDY_FOR_CMD (bounded by                 *)
(*   UR_GET_READY_TIMEOUT), send the command frame, poll the snapshot until*)
(*   DONE_WITH_CMD (bounded by UR_EXECUTION_TIMEOUT), send the clear frame *)
(*   (NOOP = 0), return.                                                   *)
(* Controller: applies input frames in order, one per tick.                *)
(* Control script: RDY -> executes the command -> DONE -> RDY once the     *)
(* command register reads NOOP again.                                      *)
(* An async move (moveJ(..., async = true), movePath(path, true)) is      *)
(* acknowledged with DONE as soon as its motion starts; the script then   *)
(* publishes the waypoint index in output_int_register(base+1) and -1     *)
(* once the motion is left, at its end or when a later command (stopJ)    *)
(* takes the controller out of it (spec 4.4, scenario 4).                 *)
(* Receive loop: copies output_int_register(base+0) and (base+1) into the *)
(* snapshot, both from one output frame.                                   *)
(*                                                                         *)
(* sendCustomScript (header lines 307-338): stopScript, upload of the     *)
(* custom program in its place; the program writes RDY_FOR_CMD to output  *)
(* register 0 when it starts and DONE_WITH_CMD when it ends; the host     *)
(* waits for both, then re-uploads the control script (reuploadScript).   *)
(* Replacing the program stops a running motion; the control script       *)
(* writes progress -1 when it starts.                                      *)
(*                                                                         *)
(* A frame carries the command code and, as a ghost, the number of the    *)
(* call that wrote it; the script sees only the code.                      *)
(***************************************************************************)
EXTENDS Integers, Sequences

CONSTANTS
    Waypoints,  \* number of waypoints of an async motion
    MaxCalls,   \* bound on the number of calls the caller makes
    OutboxCap,  \* bound on input frames written and not yet applied
    TimeoutCalls, \* the calls whose wait for the controller may expire
    CustomCalls \* the calls that may be sendCustomScript

VARIABLES
    hpc,        \* host: "idle", "rdy" (waiting for RDY_FOR_CMD), "wait" (for DONE),
                \* or in sendCustomScript: "cstart", "cwait", "creup"
    code,       \* code of the current call
    async,      \* async flag of the current call
    calls,      \* ghost: number of calls made; the current call is `calls`
    result,     \* "none", "ok" or "fail": how the last call returned
    outbox,     \* input frames sent and not yet applied by the controller
    inReg,      \* input_int_register(base+0) on the controller, with its ghost call
    outReg,     \* output_int_register(base+0) written by the control script
    snapshot,   \* the host's copy of output_int_register(base+0) (robot_state_)
    progress,   \* output_int_register(base+1): async progress, -1 when none
    snapProgress, \* the host's copy of it (getAsyncOperationProgress)
    spc,        \* program: control script "boot", "ready", "exec", "done";
                \* custom program "cboot", "cbody", "cdone" (DONE written), "cend"
    running,    \* the frame whose command the script is executing
    executed    \* ghost: the calls whose command the script has executed

vars == <<hpc, code, async, calls, result, outbox, inReg, outReg, snapshot,
          progress, snapProgress, spc, running, executed>>

UR_CONTROLLER_RDY_FOR_CMD == 1
UR_CONTROLLER_DONE_WITH_CMD == 2
NOOP == 0
MOVEJ == 1
STOPJ == 16
Codes == {MOVEJ, STOPJ}
\* The entry points: moveJ/movePath with or without async, and stopJ.
CallArgs == {<<MOVEJ, FALSE>>, <<MOVEJ, TRUE>>, <<STOPJ, FALSE>>}
NoProgress == -1
ControlStates == {"boot", "ready", "exec", "done"}

Frame(c, a, i) == [code |-> c, async |-> a, call |-> i]
Frames == [code : Codes \cup {NOOP}, async : BOOLEAN, call : 0..MaxCalls]

TypeOK ==
    /\ hpc \in {"idle", "rdy", "wait", "cstart", "cwait", "creup"}
    /\ code \in Codes \cup {NOOP}
    /\ async \in BOOLEAN
    /\ calls \in 0..MaxCalls
    /\ result \in {"none", "ok", "fail"}
    /\ outbox \in Seq(Frames)
    /\ inReg \in Frames
    /\ outReg \in {0, UR_CONTROLLER_RDY_FOR_CMD, UR_CONTROLLER_DONE_WITH_CMD}
    /\ snapshot \in {0, UR_CONTROLLER_RDY_FOR_CMD, UR_CONTROLLER_DONE_WITH_CMD}
    /\ spc \in ControlStates \cup {"cboot", "cbody", "cdone", "cend"}
    /\ progress \in {NoProgress} \cup 0..(Waypoints - 1)
    /\ snapProgress \in {NoProgress} \cup 0..(Waypoints - 1)
    /\ running \in Frames
    /\ executed \subseteq 1..MaxCalls

Init ==
    /\ hpc = "idle"
    /\ code = NOOP
    /\ async = FALSE
    /\ calls = 0
    /\ result = "none"
    /\ outbox = <<>>
    /\ inReg = Frame(NOOP, FALSE, 0)
    /\ outReg = 0
    /\ snapshot = 0
    /\ progress = NoProgress
    /\ snapProgress = NoProgress
    /\ spc = "boot"
    /\ running = Frame(NOOP, FALSE, 0)
    /\ executed = {}

Controller == <<inReg, outReg, progress, spc, running, executed>>
Host == <<hpc, code, async, calls, result>>
Snapshot == <<snapshot, snapProgress>>

\* The caller invokes a command (moveJ, movePath, stopJ): sendCommand begins.
Call(c, a) ==
    /\ hpc = "idle"
    /\ calls < MaxCalls
    /\ hpc' = "rdy"
    /\ code' = c
    /\ async' = a
    /\ calls' = calls + 1
    /\ UNCHANGED <<result, outbox>> /\ UNCHANGED Snapshot /\ UNCHANGED Controller

SendCommand ==
    /\ hpc = "rdy"
    /\ snapshot = UR_CONTROLLER_RDY_FOR_CMD
    /\ Len(outbox) < OutboxCap
    /\ outbox' = Append(outbox, Frame(code, async, calls))
    /\ hpc' = "wait"
    /\ UNCHANGED <<code, async, calls, result>> /\ UNCHANGED Snapshot /\ UNCHANGED Controller

\* The wait for RDY_FOR_CMD expires (UR_GET_READY_TIMEOUT): the call fails.
ReadyTimeout ==
    /\ hpc = "rdy"
    /\ hpc' = "idle"
    /\ result' = "fail"
    /\ UNCHANGED <<code, async, calls, outbox>> /\ UNCHANGED Snapshot /\ UNCHANGED Controller

\* Mutant: the clear frame echoes DONE_WITH_CMD instead of writing NOOP.
CommandDoneEchoesDone ==
    /\ hpc = "wait"
    /\ snapshot = UR_CONTROLLER_DONE_WITH_CMD
    /\ Len(outbox) < OutboxCap
    /\ outbox' = Append(outbox, Frame(UR_CONTROLLER_DONE_WITH_CMD, FALSE, 0))
    /\ hpc' = "idle"
    /\ result' = "ok"
    /\ UNCHANGED <<code, async, calls>> /\ UNCHANGED Snapshot /\ UNCHANGED Controller

\* The snapshot shows DONE_WITH_CMD: send the clear frame and return true.
CommandDone ==
    /\ hpc = "wait"
    /\ snapshot = UR_CONTROLLER_DONE_WITH_CMD
    /\ Len(outbox) < OutboxCap
    /\ outbox' = Append(outbox, Frame(NOOP, FALSE, 0))
    /\ hpc' = "idle"
    /\ result' = "ok"
    /\ UNCHANGED <<code, async, calls>> /\ UNCHANGED Snapshot /\ UNCHANGED Controller

\* The wait for DONE_WITH_CMD expires (UR_EXECUTION_TIMEOUT): return false,
\* with no clear frame (spec 4.4 and 7 name none).
ExecutionTimeout ==
    /\ hpc = "wait"
    /\ calls \in TimeoutCalls
    /\ hpc' = "idle"
    /\ result' = "fail"
    /\ UNCHANGED <<code, async, calls, outbox>> /\ UNCHANGED Snapshot /\ UNCHANGED Controller

\* A controller tick applies the oldest input frame to the registers.
ApplyFrame ==
    /\ outbox # <<>>
    /\ inReg' = Head(outbox)
    /\ outbox' = Tail(outbox)
    /\ UNCHANGED Host /\ UNCHANGED Snapshot
    /\ UNCHANGED <<outReg, progress, spc, running, executed>>

\* The control script starts, reports no motion and reports ready.
ScriptStart ==
    /\ spc = "boot"
    /\ spc' = "ready"
    /\ outReg' = UR_CONTROLLER_RDY_FOR_CMD
    /\ progress' = NoProgress
    /\ UNCHANGED <<outbox, inReg, running, executed>>
    /\ UNCHANGED Host /\ UNCHANGED Snapshot

\* A command arrives during an async motion: the controller leaves the
\* motion first (stopJ aborts it, scenario 4) and progress reads -1.
ScriptLeaveMotion ==
    /\ spc = "ready"
    /\ inReg.code # NOOP
    /\ progress # NoProgress
    /\ progress' = NoProgress
    /\ UNCHANGED <<outbox, inReg, outReg, spc, running, executed>>
    /\ UNCHANGED Host /\ UNCHANGED Snapshot

\* The script reads a synchronous command and starts executing it.
ScriptAccept ==
    /\ spc = "ready"
    /\ inReg.code # NOOP
    /\ progress = NoProgress
    /\ ~inReg.async
    /\ spc' = "exec"
    /\ running' = inReg
    /\ UNCHANGED <<outbox, inReg, outReg, progress, executed>>
    /\ UNCHANGED Host /\ UNCHANGED Snapshot

\* The script reads an async move: its motion starts at waypoint 0 and the
\* command is acknowledged with DONE at once.
ScriptStartMotion ==
    /\ spc = "ready"
    /\ inReg.code # NOOP
    /\ progress = NoProgress
    /\ inReg.async
    /\ spc' = "done"
    /\ progress' = 0
    /\ outReg' = UR_CONTROLLER_DONE_WITH_CMD
    /\ executed' = executed \cup {inReg.call}
    /\ UNCHANGED <<outbox, inReg, running>>
    /\ UNCHANGED Host /\ UNCHANGED Snapshot

\* Mutant: the command completes but the script never writes DONE_WITH_CMD.
ScriptFinishNoDone ==
    /\ spc = "exec"
    /\ spc' = "done"
    /\ executed' = executed \cup {running.call}
    /\ UNCHANGED <<outbox, inReg, outReg, progress, running>>
    /\ UNCHANGED Host /\ UNCHANGED Snapshot

\* A synchronous command completes: the script writes DONE_WITH_CMD.
ScriptFinish ==
    /\ spc = "exec"
    /\ spc' = "done"
    /\ executed' = executed \cup {running.call}
    /\ outReg' = UR_CONTROLLER_DONE_WITH_CMD
    /\ UNCHANGED <<outbox, inReg, progress, running>>
    /\ UNCHANGED Host /\ UNCHANGED Snapshot

\* The command register reads NOOP again: the script reports ready.
ScriptRearm ==
    /\ spc = "done"
    /\ inReg.code = NOOP
    /\ spc' = "ready"
    /\ outReg' = UR_CONTROLLER_RDY_FOR_CMD
    /\ UNCHANGED <<outbox, inReg, progress, running, executed>>
    /\ UNCHANGED Host /\ UNCHANGED Snapshot

\* The async motion reaches its next waypoint.
MotionAdvance ==
    /\ spc \in ControlStates
    /\ progress \in 0..(Waypoints - 2)
    /\ progress' = progress + 1
    /\ UNCHANGED <<outbox, inReg, outReg, spc, running, executed>>
    /\ UNCHANGED Host /\ UNCHANGED Snapshot

\* The async motion passes its last waypoint and ends.
MotionEnd ==
    /\ spc \in ControlStates
    /\ progress = Waypoints - 1
    /\ progress' = NoProgress
    /\ UNCHANGED <<outbox, inReg, outReg, spc, running, executed>>
    /\ UNCHANGED Host /\ UNCHANGED Snapshot

\* sendCustomScript: stopScript, then the script client uploads the custom
\* program, which replaces the control script on the controller.
CallCustom ==
    /\ hpc = "idle"
    /\ calls < MaxCalls
    /\ calls + 1 \in CustomCalls
    /\ hpc' = "cstart"
    /\ code' = NOOP
    /\ async' = FALSE
    /\ calls' = calls + 1
    /\ spc' = "cboot"
    /\ running' = Frame(NOOP, FALSE, calls + 1)
    /\ UNCHANGED <<result, outbox, inReg, outReg, progress, executed>>
    /\ UNCHANGED Snapshot

\* The custom program starts: write_output_integer_register(0, 1).
CustomReady ==
    /\ spc = "cboot"
    /\ spc' = "cbody"
    /\ outReg' = UR_CONTROLLER_RDY_FOR_CMD
    /\ UNCHANGED <<outbox, inReg, progress, running, executed>>
    /\ UNCHANGED Host /\ UNCHANGED Snapshot

\* The body runs, then write_output_integer_register(0, 2); the program is
\* still running.  Assumed: the body outlasts one output sample, so a host
\* still waiting for the start has seen RDY_FOR_CMD (README, timing).
CustomFinish ==
    /\ spc = "cbody"
    /\ hpc # "cstart"
    /\ spc' = "cdone"
    /\ outReg' = UR_CONTROLLER_DONE_WITH_CMD
    /\ executed' = executed \cup {running.call}
    /\ UNCHANGED <<outbox, inReg, progress, running>>
    /\ UNCHANGED Host /\ UNCHANGED Snapshot

\* The custom program reaches its end and stops.
CustomExit ==
    /\ spc = "cdone"
    /\ spc' = "cend"
    /\ UNCHANGED <<outbox, inReg, outReg, progress, running, executed>>
    /\ UNCHANGED Host /\ UNCHANGED Snapshot

\* The host sees the custom program's RDY_FOR_CMD: it has started.
CustomStarted ==
    /\ hpc = "cstart"
    /\ snapshot = UR_CONTROLLER_RDY_FOR_CMD
    /\ hpc' = "cwait"
    /\ UNCHANGED <<code, async, calls, result, outbox>>
    /\ UNCHANGED Snapshot /\ UNCHANGED Controller

\* The host sees DONE_WITH_CMD: the custom program has run.
CustomDone ==
    /\ hpc = "cwait"
    /\ snapshot = UR_CONTROLLER_DONE_WITH_CMD
    /\ hpc' = "creup"
    /\ UNCHANGED <<code, async, calls, result, outbox>>
    /\ UNCHANGED Snapshot /\ UNCHANGED Controller

\* A wait of sendCustomScript, for the program's start or for its DONE,
\* expires: it returns false and the header names no reupload. The custom
\* program may still run, as a command does after ExecutionTimeout, so the
\* waits of the calls in TimeoutCalls only may expire.
CustomTimeout ==
    /\ hpc \in {"cstart", "cwait"}
    /\ calls \in TimeoutCalls
    /\ hpc' = "idle"
    /\ result' = "fail"
    /\ UNCHANGED <<code, async, calls, outbox>>
    /\ UNCHANGED Snapshot /\ UNCHANGED Controller

\* reuploadScript: the control script is uploaded again only if no script
\* is running on the controller; sendCustomScript returns true.
Reupload ==
    /\ hpc = "creup"
    /\ hpc' = "idle"
    /\ result' = "ok"
    /\ \/ spc = "cend" /\ spc' = "boot"
       \/ spc # "cend" /\ UNCHANGED spc
    /\ UNCHANGED <<code, async, calls, outbox, inReg, outReg, progress,
                   running, executed>>
    /\ UNCHANGED Snapshot

\* The receive loop decodes an output frame into the snapshot: both
\* registers come from the same frame.
ReceiveOutput ==
    /\ Snapshot # <<outReg, progress>>
    /\ snapshot' = outReg
    /\ snapProgress' = progress
    /\ UNCHANGED <<outbox>> /\ UNCHANGED Host /\ UNCHANGED Controller

HostStep ==
    \/ SendCommand \/ ReadyTimeout \/ CommandDone \/ ExecutionTimeout
    \/ CustomStarted \/ CustomDone \/ CustomTimeout \/ Reupload

ScriptStep ==
    \/ ScriptStart \/ ScriptLeaveMotion \/ ScriptAccept \/ ScriptStartMotion
    \/ ScriptFinish \/ ScriptRearm \/ CustomReady \/ CustomFinish \/ CustomExit

MotionStep == MotionAdvance \/ MotionEnd

Next ==
    \/ \E ca \in CallArgs : Call(ca[1], ca[2])
    \/ CallCustom
    \/ HostStep
    \/ ApplyFrame
    \/ ScriptStep
    \/ MotionStep
    \/ ReceiveOutput

\* The host thread, once in sendCommand, keeps polling; the controller ticks
\* at a fixed rate; the script runs each command to its end; the receive loop
\* streams every tick; a started motion runs on. The caller is never forced to call.
Fairness ==
    /\ WF_vars(HostStep)
    /\ WF_vars(ApplyFrame)
    /\ WF_vars(ScriptStep)
    /\ WF_vars(MotionStep)
    /\ WF_vars(ReceiveOutput)

Spec == Init /\ [][Next]_vars /\ Fairness

-----------------------------------------------------------------------------
(* Properties *)

ABS == INSTANCE CommandChannel WITH active <- (hpc # "idle")

\* The register handshake implements the command channel's promise: a call
\* returns true only after the script executed that call's command, and the
\* script executes each call's command at most once and in call order.
Refines == ABS!Spec

\* Every sendCommand returns: the host's polling loop reaches DONE_WITH_CMD
\* (or a timeout) once the controller, the script and the receive loop run.
CommandReturns == (hpc # "idle") ~> (hpc = "idle")

=============================================================================
