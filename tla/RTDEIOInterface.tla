---------------------------- MODULE RTDEIOInterface ----------------------------
(***************************************************************************)
(* RTDEIOInterface (src/unnamed/part_000): writes the robot's digital,     *)
(* tool, speed-slider and analog outputs through fixed RTDE input recipes, *)
(* reads the program-running bit, and on a failed send reconnects and      *)
(* sends again (sendCommand).  One user thread calls the interface; the    *)
(* controller applies each input package it receives on its next tick and  *)
(* streams output packages into the host's socket buffer, which only       *)
(* isProgramRunning() reads.  The controller side and the RTDE session are *)
(* taken from spec.md (sections 4.2, 4.6, 5).                              *)
(***************************************************************************)
EXTENDS Naturals, Sequences, Bitwise

CONSTANTS
    OutIds,         \* output_id values passed to setStandardDigitalOut
    ToolIds,        \* output_id values passed to setToolDigitalOut
    AnalogIds,      \* output_id values passed to setAnalogOutput*
    Speeds,         \* speed values passed to setSpeedSlider
    Ratios,         \* voltage/current ratios passed to setAnalogOutput*
    InboxCap,       \* output packages the host socket buffers before the controller blocks
    NoValue,        \* model value: no level requested / a RobotCommand field left unset
    Thrown          \* model value: the call ended with an exception

\* The ranges the header documents (script_client.cpp 1023, 1030, 1043, 1050).
ASSUME /\ OutIds \subseteq 0..7 /\ ToolIds \subseteq 0..1 /\ AnalogIds \subseteq 0..1
       /\ InboxCap \in Nat \ {0}

VARIABLES
    session,        \* rtde_: "NONE" before the constructor, "DISCONNECTED" or "STARTED"
    link,           \* "up" while the TCP connection under rtde_ works
    analogReg,      \* the int register input recipe 5 was set up with
    outbox,         \* input packages written to the socket, not yet applied
    lost,           \* an input package written by a call that returned was dropped
    stdOut,         \* the standard digital outputs 0-7, an 8-bit field
    toolOut,        \* tool digital output bits
    slider,         \* speed slider fraction
    analog,         \* analog[i]: <<domain, value>> of standard analog output i
    program,        \* the controller runs a program (robot_status_bits bit 1)
    inbox,          \* output packages (their program-running bit) buffered on the host
    requested,      \* requested[i]: level of the last setStandardDigitalOut(i, _) that returned
    domain,         \* domain[i]: 1 (voltage) or 0 (current) of the last setAnalogOutput*(i, _) that returned
    upc,            \* where the user thread is
    call,           \* the user's current call
    cmd,            \* RTDE::RobotCommand being sent by sendCommand
    depth,          \* nesting depth of sendCommand's self-call
    result          \* value the last call returned, or Thrown

vars == <<session, link, analogReg, outbox, lost, stdOut, toolOut, slider, analog,
          program, inbox, requested, domain, upc, call, cmd, depth, result>>

NoLevel == NoValue
Unset   == NoValue

Cmds == [recipe : 2..5, reg : {2, 20}, mask : 0..255, value : 0..255 \cup Speeds,
         type : 0..1, out : [0..1 -> Ratios \cup {Unset}]]

TypeOK ==
    /\ session \in {"NONE", "DISCONNECTED", "STARTED"}
    /\ link \in {"up", "down"}
    /\ analogReg \in {2, 20}
    /\ outbox \in Seq(Cmds)
    /\ lost \in BOOLEAN
    /\ stdOut \in 0..255 /\ toolOut \in 0..255
    /\ slider \in Speeds \cup {0}
    /\ analog \in [0..1 -> (0..1) \X (Ratios \cup {0, Unset})]
    /\ program \in BOOLEAN
    /\ inbox \in Seq(BOOLEAN)
    /\ requested \in [OutIds -> BOOLEAN \cup {NoLevel}]
    /\ upc \in {"construct", "idle", "send", "reconnect"}
    /\ depth \in Nat
    /\ domain \in [AnalogIds -> {0, 1, NoValue}]
    /\ result \in BOOLEAN \cup {Thrown, NoValue}

-----------------------------------------------------------------------------
(* Helpers.                                                                *)

\* static_cast<uint8_t>(std::pow(2.0, output_id)): exact for the documented
\* ids, all below 8.
MaskOf(id) == 2 ^ id

Bit(x, i) == (x \div (2 ^ i)) % 2 = 1

\* The controller's masked write of an 8-bit output field (spec 4.6):
\* bits in mask take their value from value, the others are preserved.
MaskedWrite(old, mask, value) == (old & (255 - mask)) | (value & mask)

Streaming == session = "STARTED" /\ link = "up"

\* rtde_->connect(); negotiateProtocolVersion(); sendOutputSetup; five
\* sendInputSetup calls; robot_state_ = new RobotState; sendStart().
\* A fresh socket: nothing buffered in either direction.
SetUp(reg) ==
    /\ session' = "STARTED"
    /\ link' = "up"
    /\ analogReg' = reg
    /\ outbox' = <<>>
    /\ inbox' = <<>>
    /\ lost' = (lost \/ outbox # <<>>)

NewCmd(recipe, mask, value) ==
    [recipe |-> recipe, reg |-> IF recipe = 5 THEN analogReg ELSE 20,
     mask |-> mask, value |-> value, type |-> 0, out |-> [i \in 0..1 |-> Unset]]

\* call and cmd while no call is in progress
NoCall == [name |-> "none", id |-> 0, level |-> NoLevel]
NoCmd  == [recipe |-> 2, reg |-> 20, mask |-> 0, value |-> 0, type |-> 0,
           out |-> [i \in 0..1 |-> Unset]]

\* Begin a call that ends in sendCommand(c).
Invoke(name, id, level, c) ==
    /\ upc = "idle"
    /\ call' = [name |-> name, id |-> id, level |-> level]
    /\ cmd' = c
    /\ depth' = 0
    /\ upc' = "send"
    /\ UNCHANGED <<session, link, analogReg, outbox, lost, stdOut, toolOut, slider,
                   analog, program, inbox, requested, domain, result>>

Init ==
    /\ session = "NONE"
    /\ link = "down"
    /\ analogReg = 20
    /\ outbox = <<>>
    /\ lost = FALSE
    /\ stdOut = 0 /\ toolOut = 0 /\ slider = 0
    /\ analog = [i \in 0..1 |-> <<0, 0>>]
    /\ program = FALSE
    /\ inbox = <<>>
    /\ requested = [i \in OutIds |-> NoLevel]
    /\ domain = [i \in AnalogIds |-> NoValue]
    /\ upc = "construct"
    /\ call = NoCall
    /\ cmd = NoCmd
    /\ depth = 0
    /\ result = NoValue

-----------------------------------------------------------------------------
(* The user thread.                                                        *)

\* RTDEIOInterface::RTDEIOInterface: recipe 5 is set up with
\* input_int_register_2.
Construct ==
    /\ upc = "construct"
    /\ SetUp(2)
    /\ upc' = "idle"
    /\ UNCHANGED <<stdOut, toolOut, slider, analog, program, requested, domain,
                   call, cmd, depth, result>>

\* reconnect() called by the user: recipe 5 is set up with
\* input_int_register_20; returns true.  connect() may throw.
Reconnect ==
    /\ upc = "idle"
    /\ session # "NONE"
    /\ \/ /\ SetUp(20)
          /\ result' = TRUE
       \/ /\ result' = Thrown
          /\ UNCHANGED <<session, link, analogReg, outbox, inbox, lost>>
    /\ UNCHANGED <<stdOut, toolOut, slider, analog, program, requested, domain,
                   upc, call, cmd, depth>>

\* Mutant: the mask selects every standard output, not just output_id.
SetStandardDigitalOutAllMask(id, level) ==
    Invoke("std", id, level, NewCmd(2, 255, IF level THEN MaskOf(id) ELSE 0))

SetStandardDigitalOut(id, level) ==
    Invoke("std", id, level, NewCmd(2, MaskOf(id), IF level THEN MaskOf(id) ELSE 0))

SetToolDigitalOut(id, level) ==
    Invoke("tool", id, level, NewCmd(3, MaskOf(id), IF level THEN MaskOf(id) ELSE 0))

\* Mutant: the speed is sent as a percentage instead of a fraction.
SetSpeedSliderPercent(speed) ==
    Invoke("slider", 0, NoLevel, NewCmd(4, 1, speed * 100))

\* speed_slider_mask = 1; speed_slider_fraction = speed (not range-checked).
SetSpeedSlider(speed) ==
    Invoke("slider", 0, NoLevel, NewCmd(4, 1, speed))

\* std_analog_output_type_ = type for either output; the ratio goes to the
\* field of output_id.
AnalogCmd(id, type, ratio) ==
    [NewCmd(5, MaskOf(id), 0) EXCEPT !.type = type, !.out[id] = ratio]

SetAnalogOutputVoltage(id, ratio) ==
    Invoke("voltage", id, NoLevel, AnalogCmd(id, 1, ratio))

SetAnalogOutputCurrent(id, ratio) ==
    Invoke("current", id, NoLevel, AnalogCmd(id, 0, ratio))

\* isProgramRunning(): rtde_->receiveData(robot_state_) decodes the oldest
\* output package the socket holds, and the call returns its bit 1.
IsProgramRunning ==
    /\ upc = "idle"
    /\ session # "NONE"
    /\ \/ /\ inbox # <<>>
          /\ result' = Head(inbox)
          /\ inbox' = Tail(inbox)
       \/ /\ inbox = <<>>
          /\ ~Streaming
          /\ result' = Thrown
          /\ UNCHANGED inbox
    /\ UNCHANGED <<session, link, analogReg, outbox, lost, stdOut, toolOut, slider,
                   analog, program, requested, domain, upc, call, cmd, depth>>

\* sendCommand returns after rtde_->send(cmd) succeeded.  Only the outermost
\* call returns true: after a reconnect the function flows off its end
\* without a return statement, so the caller sees an indeterminate bool.
Returned ==
    /\ upc' = "idle"
    /\ call' = NoCall
    /\ cmd' = NoCmd
    /\ depth' = 0
    /\ result' \in IF depth = 0 THEN {TRUE} ELSE BOOLEAN
    /\ requested' = IF call.name = "std"
                      THEN [requested EXCEPT ![call.id] = call.level]
                      ELSE requested
    /\ domain' = CASE call.name = "voltage" -> [domain EXCEPT ![call.id] = 1]
                    [] call.name = "current" -> [domain EXCEPT ![call.id] = 0]
                    [] OTHER -> domain

\* sendCommand: try { rtde_->send(cmd); return true; }.  On a broken link
\* the write may still land in the kernel buffer and be dropped with it.
SendCommand ==
    /\ upc = "send"
    /\ \/ /\ Streaming
          /\ outbox' = Append(outbox, cmd)
          /\ Returned
          /\ UNCHANGED <<session, lost>>
       \/ /\ session = "STARTED" /\ link = "down"
          /\ lost' = TRUE
          /\ Returned
          /\ UNCHANGED <<session, outbox>>
       \* catch: if (rtde_->isConnected()) rtde_->disconnect();
       \/ /\ ~Streaming
          /\ session' = "DISCONNECTED"
          /\ upc' = "reconnect"
          /\ UNCHANGED <<outbox, lost, requested, domain, result, call, cmd, depth>>
    /\ UNCHANGED <<link, analogReg, stdOut, toolOut, slider, analog, program, inbox>>

\* if (!rtde_->isConnected()) { reconnect(); sendCommand(cmd); }: the
\* self-call has no bound.  An exception from connect() leaves the call.
SendReconnect ==
    /\ upc = "reconnect"
    /\ \/ /\ SetUp(20)
          /\ depth' = depth + 1
          /\ upc' = "send"
          /\ UNCHANGED <<result, call, cmd>>
       \/ /\ result' = Thrown
          /\ upc' = "idle"
          /\ call' = NoCall
          /\ cmd' = NoCmd
          /\ depth' = 0
          /\ UNCHANGED <<session, link, analogReg, outbox, inbox, lost>>
    /\ UNCHANGED <<stdOut, toolOut, slider, analog, program, requested, domain>>

-----------------------------------------------------------------------------
(* The controller.                                                         *)

\* Apply the oldest input package on the next tick (spec 4.6).
Apply(c) ==
    CASE c.recipe = 2 -> /\ stdOut' = MaskedWrite(stdOut, c.mask, c.value)
                         /\ UNCHANGED <<toolOut, slider, analog>>
      [] c.recipe = 3 -> /\ toolOut' = MaskedWrite(toolOut, c.mask, c.value)
                         /\ UNCHANGED <<stdOut, slider, analog>>
      [] c.recipe = 4 -> /\ slider' = IF c.mask = 1 THEN c.value ELSE slider
                         /\ UNCHANGED <<stdOut, toolOut, analog>>
      \* standard_analog_output_type: bit i is the domain of output i
      \* (RTDE guide: 0 = current, 1 = voltage).
      [] c.recipe = 5 -> /\ analog' = [i \in 0..1 |->
                                        IF Bit(c.mask, i)
                                          THEN <<IF Bit(c.type, i) THEN 1 ELSE 0,
                                                 IF c.out[i] = Unset THEN 0 ELSE c.out[i]>>
                                          ELSE analog[i]]
                         /\ UNCHANGED <<stdOut, toolOut, slider>>

ControllerApply ==
    /\ Streaming
    /\ outbox # <<>>
    /\ Apply(Head(outbox))
    /\ outbox' = Tail(outbox)
    /\ UNCHANGED <<session, link, analogReg, lost, program, inbox, requested, domain,
                   upc, call, cmd, depth, result>>

\* One output package per tick, until the host's socket buffer is full.
ControllerEmit ==
    /\ Streaming
    /\ Len(inbox) < InboxCap
    /\ inbox' = Append(inbox, program)
    /\ UNCHANGED <<session, link, analogReg, outbox, lost, stdOut, toolOut, slider,
                   analog, program, requested, domain, upc, call, cmd, depth, result>>

\* A program is started or stopped on the controller.
ProgramToggles ==
    /\ program' = ~program
    /\ UNCHANGED <<session, link, analogReg, outbox, lost, stdOut, toolOut, slider,
                   analog, inbox, requested, domain, upc, call, cmd, depth, result>>

\* The connection breaks; packages in flight to the controller are dropped.
LinkFails ==
    /\ Streaming
    /\ link' = "down"
    /\ outbox' = <<>>
    /\ lost' = (lost \/ outbox # <<>>)
    /\ UNCHANGED <<session, analogReg, stdOut, toolOut, slider, analog, program,
                   inbox, requested, domain, upc, call, cmd, depth, result>>

-----------------------------------------------------------------------------

UserStep ==
    \/ Construct
    \/ Reconnect
    \/ \E id \in OutIds, l \in BOOLEAN : SetStandardDigitalOut(id, l)
    \/ \E id \in ToolIds, l \in BOOLEAN : SetToolDigitalOut(id, l)
    \/ \E s \in Speeds : SetSpeedSlider(s)
    \/ \E id \in AnalogIds, r \in Ratios : SetAnalogOutputVoltage(id, r)
    \/ \E id \in AnalogIds, r \in Ratios : SetAnalogOutputCurrent(id, r)
    \/ IsProgramRunning
    \/ SendCommand
    \/ SendReconnect

Next ==
    \/ UserStep
    \/ ControllerApply
    \/ ControllerEmit
    \/ ProgramToggles
    \/ LinkFails

Spec == Init /\ [][Next]_vars

-----------------------------------------------------------------------------
(* Properties.                                                             *)

\* Once every package written by a returned setStandardDigitalOut has been
\* applied, and none was dropped, each output bit holds the level of the
\* last call for that output, and the mask-plus-value writes of calls for
\* other outputs have preserved it.
DigitalOutputsMatch ==
    (outbox = <<>> /\ ~lost) =>
        \A i \in OutIds : requested[i] # NoLevel => (Bit(stdOut, i) <=> requested[i])

\* Once applied, setAnalogOutputVoltage(i, _) leaves output i in the voltage
\* domain and setAnalogOutputCurrent(i, _) in the current domain.
AnalogDomainMatches ==
    (outbox = <<>> /\ ~lost) =>
        \A i \in AnalogIds : domain[i] # NoValue => analog[i][1] = domain[i]

\* sendCommand reconnects at most once per call (spec 9: bound the retries).
ResendBounded == depth <= 1

\* isProgramRunning() returns the program bit of the freshest package the
\* host holds when it is called (spec 4.3: the reader consumes the freshest),
\* not of an older one still buffered on the socket.
ProgramStateFresh ==
    [][IsProgramRunning /\ inbox # <<>> => result' = inbox[Len(inbox)]]_vars

=============================================================================
