# TLA+ models of ur_rtde (receive, I/O and script clients)

This directory holds TLA+ specifications of the parts of ur_rtde whose source is
in `src/`:

- `src/src/rtde_receive_interface.cpp`: `RTDEReceiveInterface`.
- `src/unnamed/part_000`: `RTDEIOInterface`.
- `src/src/script_client.cpp`: `ScriptClient`. The file also carries the headers
  `rtde_control_interface.h` (lines 203-987) and `rtde_io_interface.h`
  (lines 988-1074).

The files also include TLC configurations that check these specifications.
`PROJECT.json` lists the components, the runs, the mutants, the map from each
definition to the source lines it models, the findings and the hazards.

## 1. Inventory

### Components, their state and operations

| Component | State kept | Operations (state-changing) |
|---|---|---|
| **RTDE session** (class `RTDE`, not in `src/`; spec 4.2) | connection state, socket, recipes | connect, negotiateProtocolVersion, sendOutputSetup/sendInputSetup, sendStart, send, receiveData, disconnect |
| **Frame codec** (not in `src/`; spec 4.1) | none | pack/unpack of RTDE packages |
| **Receive interface** `RTDEReceiveInterface` | `rtde_`, `robot_state_`, `stop_thread`, `th_` (the receive thread) | constructor, `disconnect`, `reconnect`, `setupRecipes`, `receiveCallback` (thread body), `isConnected`, about 90 getters that read `robot_state_` |
| **I/O facade** `RTDEIOInterface` | `rtde_`, `robot_state_`; recipes 1-5 on the controller | constructor, destructor, `reconnect`, `setStandardDigitalOut`, `setToolDigitalOut`, `setSpeedSlider`, `setAnalogOutputVoltage/Current`, `isProgramRunning`, `sendCommand` |
| **Script client** `ScriptClient` | `socket_`, `conn_state_`, `script_file_name_`, controller version | `connect`, `disconnect`, `isConnected`, `sendScriptCommand`, `setScriptFile`, `sendScript()` (with the `$` version filter), `sendScript(file)` |
| **Command channel** `RTDEControlInterface` (header only in `src/`; spec 4.4) | register window (offset 0 or 24), `stop_thread_`, `th_`, script client | request/acknowledge over input/output registers |
| **Path / async progress** (example `src/unnamed/part_001`) | local waypoint | polls `getAsyncOperationProgress` |

### How they interact

All three interfaces own an RTDE session to the controller. The receive
interface runs a background thread that decodes output packages into
`robot_state_`, and the user thread reads them with the getters. The I/O facade
has no thread of its own. Each setter writes one input package with a mask, and
the controller applies it on its next tick. `isProgramRunning` decodes a package
from the socket in the caller's thread. The control interface and the I/O
facade share the controller's input integer registers: the control interface
uses a window of registers 0-23 or 24-47 (`inIntReg`, header lines 862-865), and
the I/O facade is meant to use register 20. The script client uploads the
control script that serves the command channel. Before the upload it removes
the lines that need a newer controller.

### Hard behaviours

- **Threads.** A user thread and every receive thread ever spawned share
  `rtde_`, `stop_thread` and `robot_state_` without locks. `reconnect()` spawns a
  new thread without joining the old one.
- **Blocking reads.** `th_->interrupt()` does not wake a read blocked on a
  socket, and `disconnect()` closes the socket only after `join()`.
- **Lost connections.** Both interfaces must notice a broken link.
  - The receive thread's catch disconnects the session.
  - `sendCommand` disconnects, reconnects and calls itself again, with no bound.
- **Lost writes.** A package written just before the link breaks is dropped,
  yet the setter returns true.
- **Stale reads.** `isProgramRunning` returns the oldest buffered package.
- **Bit arithmetic.** Masks come from `uint8_t(pow(2, id))`, exact for the
  documented ids 0-7. Analog type bits come from a constant.
- **`size_t` arithmetic** in the script filter (`find(...) - n + 1`).
- **Exceptions** from `at()`, `stoi` and `boost::asio::connect` reach the caller
  partway through an operation.

### Properties each component needs

- **Receive:**
  - frames are applied to `robot_state_` in the order they were read;
  - after `reconnect()` the snapshot follows the new connection;
  - a broken link is eventually reported;
  - `disconnect()` returns.
- **I/O:**
  - each output holds the level last requested, and writes to other outputs
    preserve it;
  - the analog domain matches the call;
  - resends are bounded;
  - program-state reads are fresh.
- **Script:**
  - the filter terminates;
  - the filter equals the line-oriented reference.
- **Command channel:**
  - a call returns true only after its own command was executed;
  - commands execute at most once and in call order;
  - every call returns.

## 2. Modules

| Module | Models | MC module |
|---|---|---|
| `RTDEReceiveInterface` | receive interface, its receive threads and the getters, with the session from spec 4.2 | `MCRTDEReceiveInterface` (`MaxThreads = 3`) |
| `RTDEIOInterface` | I/O facade plus the controller applying input packages and streaming output packages (spec 4.6) | `MCRTDEIOInterface` |
| `ScriptClient` | script client, the `$` filter one loop iteration per step, with a recursive reference filter | `MCScriptClient` |
| `CommandChannel` | abstract promise of the command channel: calls, executions, results | (instantiated by `RTDEControlInterface`) |
| `RTDEControlInterface` | register handshake of the command channel (spec 4.4) with the header's handshake values and timeouts | `MCRTDEControlInterface` |

### RTDEReceiveInterface

The variables are:

- `session`, the state of `rtde_`;
- `link`;
- `conn`, a socket generation that each connect increments;
- `snapshot`, the generation of the last decoded frame, which abstracts
  `robot_state_`;
- `stop_thread` and `th`;
- per-thread `pc` and `sock`, the socket a thread is blocked on;
- `inflight` (threads that read a frame and have not applied it, in read order)
  and `stale` (threads whose frame was overtaken by a later-read one);
- `upc`, where the user thread is, and `got`, what the last getter returned.

The user actions split `disconnect()` and `reconnect()` at their blocking or
shared-state steps:

- `Construct`;
- `Disconnect`, then `JoinReturns`, then `CloseSession`;
- `ReconnectStart`, then `ReconnectClearStop`, then `ReconnectSpawn`;
- `Get`, one getter (lines 185-338, all alike: one read of `robot_state_`),
  and `GetDigitalOutState(id)`, whose `bitset<64>::test` throws for id >= 64
  (the `Thrown` result).

The thread actions follow `receiveCallback()`:
- `LoopTest`;
- `ReadFrame`, where `receiveData` reads a frame;
- `ApplyFrame`, where it is decoded into `robot_state_`;
- `ReceiveError`, `HandleError` and `SetStop`.

Reading and applying are separate steps because two threads can sit between
them at once. `LinkFails` is the environment. A link fails with an error
(`"down"`: reads throw). Where the constant `HalfOpen` is TRUE, it may also
die silently (`"silent"`: a peer that vanished without a reset). Then a read
of the current socket blocks (`ReadBlocked`) until the socket is closed.

### RTDEIOInterface

Each setter builds an `RTDE::RobotCommand` (`NewCmd`, `AnalogCmd`), using
`MaskOf` (the `uint8_t` cast of `pow(2, id)`), and begins a call (`Invoke`).
Output ids range over what the header documents: `[0:7]` for standard outputs
(line 1023) and `[0:1]` for tool and analog outputs. `stdOut` is the 8-bit
standard output field.

`SendCommand` models `try { send; return true; }` and its catch:
1. `outbox` holds packages written and not yet applied.
2. A write on a dead link sets `lost`.
3. The catch disconnects.

`SendReconnect` is `reconnect(); sendCommand(cmd)`. The `depth` variable counts
the self-calls. After a reconnect, the return value is a nondeterministic
boolean, because the function flows off its end.

`Construct` sets recipe 5 up with register 2 and `Reconnect` with register 20,
as the code does.

The controller side comes from spec 4.6:
- `ControllerApply` performs masked writes (`MaskedWrite`) and sets the analog
  type bit of each output.
- `ControllerEmit` appends the program bit to `inbox`, the host's socket buffer.
- `ProgramToggles` and `LinkFails` are the environment.

### ScriptClient

A script is a sequence over a small alphabet. `FilterStep` is one iteration of
the `while (n != npos)` loop, with every branch the code has:
- no `$` left;
- `at()` out of range;
- a blank version character, which returns false;
- a non-digit, where `stoi` throws;
- keep the line, which blanks the marker (`BlankMarker`);
- erase the line (`Erase` with `LineEraseCount`, taken modulo `2^SizeBits`).

`RefFilter` is an independent recursive definition of the line-oriented
filter of spec 4.7/9. It is used only by `FilterMatchesReference`.

### CommandChannel and RTDEControlInterface

Only the class header of `RTDEControlInterface` is in `src/`
(`script_client.cpp` 203-987). It gives `UR_CONTROLLER_RDY_FOR_CMD` (1),
`UR_CONTROLLER_DONE_WITH_CMD` (2) and the timeouts. The steps come from
spec 4.4.

`CommandChannel` is what a caller is promised:
- calls are numbered in order, and one is in progress at a time;
- `Execute(i)` runs a called command once, and only if it is newer than every
  command already run;
- `ReturnOk` needs the current call's command to have run;
- `ReturnFail` may happen at any time.

`RTDEControlInterface` has four actors:
- **Host thread (`sendCommand`).**
  - `Call(c, a)` begins a call: `moveJ`/`movePath` with or without `async`, or
    `stopJ` (the header's entry points, lines 364-436).
  - `SendCommand` waits until the snapshot shows RDY, then writes the command
    frame.
  - `CommandDone` waits for DONE, then writes the clear frame (NOOP) and
    returns true.
  - `ReadyTimeout` and `ExecutionTimeout` return false.
- **Controller.** `ApplyFrame` applies input frames in order.
- **Control script.**
  - `ScriptStart` starts the script.
  - `ScriptAccept` and `ScriptFinish` run a synchronous command and write DONE.
  - `ScriptStartMotion` acknowledges an async move with DONE as its motion
    starts, and sets progress (`output_int_register(base+1)`) to 0.
  - `MotionAdvance` and `MotionEnd` count the waypoints, then write -1.
  - `ScriptLeaveMotion` ends a running motion when another command arrives
    (scenario 4: `stopJ` aborts it).
  - `ScriptRearm` goes back to RDY once the command register reads NOOP.
- **Receive loop.** `ReceiveOutput` copies both output registers from one
  frame into the snapshot.
- **`sendCustomScript`** (header lines 300-338, with the inline script of its
  doc comment as the protocol):
  - `CallCustom` stops the control script and uploads the custom program in
    its place (`spc = "cboot"`). The motion counter stops with the program
    (`MotionAdvance`/`MotionEnd` need the control script), and `ScriptStart`
    writes progress -1 when the control script comes back.
  - `CustomReady` is `write_output_integer_register(0, 1)`; `CustomFinish` is
    the body followed by `write_output_integer_register(0, 2)`.
  - The host waits for RDY (`CustomStarted`), then for DONE (`CustomDone`), and
    `Reupload` (`reuploadScript`) uploads the control script only if no
    script is running (header lines 302-303), and returns true. The doc
    example writes DONE before its `end`, so `CustomFinish` leaves the program
    running (`"cdone"`) and `CustomExit` ends it.
    `CustomTimeout` returns false from either wait.
  - The constant `CustomCalls` names the calls that may be `sendCustomScript`.

A frame carries the code and, as a ghost, the number of the call that wrote it.
The ghost `executed` records the calls the script has run. An async move counts as run once its motion has started, which is what its DONE acknowledges. The refinement
mapping is the identity on `calls`, `executed` and `result`, plus
`active <- hpc # "idle"`. `Refines == ABS!Spec` is checked as a PROPERTY.

## 3. Runs

| Run | Expect | Checks | Shows |
|---|---|---|---|
| `receive_pass` | pass | LossDetected, DisconnectReturns | up to 3 threads, getters included, links that fail with an error: a loss that a running receive thread is reading is reported; `disconnect()` returns |
| `receive_in_order` | violation | SnapshotInOrder | after `reconnect()` the old thread also reads the new socket; a frame read earlier is applied after a later one |
| `receive_resumes` | violation | SnapshotResumes | the old thread's `stop_thread = true` stops the new thread; the snapshot stops following the connection |
| `receive_hang` | violation | DisconnectReturns | a link that dies without a reset leaves the receive thread blocked in its read; `disconnect()` joins it before closing the socket and never returns (deadlock checking is off: the system really stops) |
| `io_pass` | pass | TypeOK, DigitalOutputsMatch | outputs 0 and 1 keep their last requested level through nested reconnects, as long as no written package was dropped (`lost` never resets, so after a drop the invariant is silent) |
| `io_analog_domain` | violation | AnalogDomainMatches | voltage on output 1 sets bit 0, not bit 1 |
| `io_resend_bound` | violation | ResendBounded | two reconnects within one `sendCommand` |
| `io_program_state` | violation | ProgramStateFresh | with two packages buffered, `isProgramRunning` returns the older one's bit |
| `script_pass` | pass | TypeOK, FilterMatchesReference, FilterTerminates | every newline-terminated script of up to 6 characters is filtered as the reference says, and the loop ends |
| `script_terminates` | violation | FilterTerminates | `"$355"` (a too-new marker, no newline) loops forever |
| `control_pass` | pass | TypeOK, Refines, CommandReturns | four calls (sync or async `moveJ`, `stopJ`, or `sendCustomScript` as the first or last call), only the last of which may time out: the handshake refines `CommandChannel` and every call returns |
| `control_timeout` | violation | Refines | after a DONE timeout, the next call is acknowledged by the old command's DONE and returns true unexecuted |

Three earlier properties are not run; they are recorded as hazards in
`PROJECT.json`:
- a register collision in the I/O constructor (a literal);
- `isConnected()` after a failed re-connect (one exception path);
- a read before the first frame (a timing assumption).

Some checks were dropped because they restated the model or went beyond the
code's contract:
- The receive module's `TypeOK` is still defined but not run, because no
  plausible bug in `rtde_receive_interface.cpp` breaks it.
- The claim that `stopJ` leaves progress at -1 restated a guard of
  `ScriptAccept`. Besides, `stopJ` is void, and the repository reads progress
  through a separate `RTDEReceiveInterface`.
- The claim that the control script comes back after `sendCustomScript`
  restated `Reupload`'s assignment. With the header's running-script check
  it no longer holds (section 4).
- The output-8 run used an id outside the documented `[0:7]`.

Every property of a passing run has a mutant in `PROJECT.json`: a plausible bug
in a mapped definition, which TLC catches. Examples:
- a receive loop that does not test `stop_thread`;
- a marker blanked by inserting before erasing;
- a command frame sent without waiting for RDY;
- a clear frame that echoes DONE;
- a script that finishes a command without writing DONE.

### Bounds and why they suffice

- **Receive: `MaxThreads = 3`.** This covers the constructor plus two
  reconnects. Two reconnects are needed for an old thread to outlive a newer one
  while a third is running. The getters are read with ids 0 and 64, which are
  the two sides of the `bitset<64>` bound.
- **I/O:**
  - Outputs `{0, 1}` let a write to one output disturb the other.
  - There is one tool output, one analog output (both analog outputs for the
    domain run), one speed and one ratio. Their values are not what the
    properties distinguish.
  - The inbox holds one package in `io_pass` and two in `io_program_state`:
    an older and a fresher one, which is what the stale read needs.
  - The outbox holds at most one package and the depth is at most 2
    (`StateBound`), enough for a reconnect inside a reconnect.
- **Script:**
  - The alphabet is `$`, newline, space, `3` and `5`. The controller is version
    5.3, so `$ 53` is kept and `$ 55` is erased.
  - Scripts are every text of up to 6 characters that ends with a newline
    (4 characters for the termination violation). Six characters hold a
    plain line followed by a marker line (`"\n$ 55\n"`).
  - `size_t` is 8 bits wide. The wrap only needs `npos - n + 1` to overflow.
- **Command channel:**
  - There are three kinds of call (`moveJ`, async `moveJ`, and `stopJ`),
    four calls, and motions of two waypoints. Two waypoints are enough for
    progress to advance once before it ends or is aborted.
  - At most two frames are in flight: a command frame and a clear frame, or two
    command frames after a timeout.
  - The stale acknowledgement needs two calls, so four calls leave room for
    recovery attempts after it.
  - `TimeoutCalls` names the calls whose DONE wait may expire. In
    `control_pass` it is only the last call, so the action fires but no call
    follows it. In `control_timeout` it is every call. A custom call's waits
    may expire only for the calls in `TimeoutCalls`: the custom program may
    still run after the timeout, just as a command does.
  - `CustomCalls` is `{1, 4}`. A custom script comes first, before any command
    frame exists, and last, after which no command is sent. It also replaces a
    running async motion. Between two commands TLC finds a hazard that the run
    cap leaves no violation run for (section 4). `control_timeout` has no
    custom calls, so its trace is the command timeout its finding describes.
- **Timing assumption.** `CustomFinish` waits until the host has seen the
  custom program's RDY: the script body is assumed to outlast one output
  sample. Without this, a short body overwrites RDY with DONE unseen, and the
  host waits until `UR_GET_READY_TIMEOUT` although the script ran (a hazard in
  `PROJECT.json`).

### Fairness

- **Receive threads.** Each is weakly fair: the OS schedules them and the
  controller streams frames at 125/500 Hz.
- **User thread.** Once it has begun `disconnect()` or `reconnect()` it
  finishes the call (weak fairness on `JoinReturns`, `CloseSession`,
  `ReconnectClearStop`, `ReconnectSpawn`). It is never forced to begin one or
  to call a getter.
- **`LinkFails`** is not fair.
- **Script client.** `FilterStep` and `WriteScript` are weakly fair, because
  the caller's thread runs `sendScript()` to its end.
- **I/O model.** No fairness: it is checked only for safety.
- **Command channel.** Weak fairness holds on four things:
  - the host's polling inside `sendCommand` (it loops until an answer or a
    timeout);
  - the controller's tick (`ApplyFrame`);
  - the control script and a started motion, which runs on to its end;
  - the receive loop, which streams every tick.

  The caller is never forced to call.

## 4. Not modelled (yet)

- **Frame codec and RTDE session internals.** They are not in `src/`. The
  session enters the models as the connection states of spec 4.2.
- **Command channel, beyond the handshake and async progress.** The missing
  parts are:
  - payload and return registers;
  - the window offset (0 or 24);
  - argument validation;
  - path serialisation into script text.
- **The example's progress loops (`part_001`).** The first loop,
  `while (progress < 0)`, ends only if the receive interface's snapshot shows a
  waypoint index before the motion ends. That holds only under a timing
  assumption: the motion outlasts a 10 ms poll. An untimed model would report
  a hang that a real path of several waypoints does not show, so the loops are
  left out and recorded as a hazard.
- **Getter internals.** The getters are one atomic read each, because
  `RobotState` locks (spec 5). A field-by-field torn read is not modelled.
- **`sendCustomScript` between two commands.** The control script's startup
  code is not in `src/`, and spec 4.4 does not say whether the script ignores
  a command already present when it starts. The model lets it read whatever
  the command register holds. So when a custom call follows a command whose
  clear frame is still in flight, the re-uploaded script runs the old command
  again and TLC reports a `Refines` violation. Nothing in `src/` shows the
  real script doing this, so `CustomCalls` keeps custom calls away from that
  case instead of reporting it.
- **The reuploadScript race.** `Reupload` models the header's "only if a
  script is not already running". After a custom script, the upload is
  skipped if the program has written DONE but not yet ended, and the control
  script never returns. TLC shows this with a liveness check. All twelve run
  slots are taken, so it is recorded as a hazard.
- **`sendCustomScriptFunction`, `sendCustomScriptFile`,
  `setCustomScriptFile`.** These do text assembly and file I/O, and reach the
  controller through the same upload as `sendCustomScript`.
- **I/O destructor and `verifyValueIsWithin`.** The helper is never called, so
  the speed and ratios are not range-checked.
- **Dashboard client.**

## 5. Plan for later sittings

1. **Composition.** I/O facade plus command channel on the same register file,
   checking that neither overwrites the other's registers (offset 0 and 24).
2. **Codec.** Pack/unpack as operators, checked for round-trip over bounded
   values.
3. **Custom scripts.** If a run slot frees up, check that the control
   script comes back after `sendCustomScript` (the `reuploadScript` race), and
   `CommandReturns` without the timing assumption in `CustomFinish`. These
   are the `sendCustomScript` hazards that `PROJECT.json` records.
