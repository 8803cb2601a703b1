---------------------------- MODULE CommandChannel ----------------------------
(***************************************************************************)
(* What the command channel of RTDEControlInterface promises its caller   *)
(* (spec 4.4, 7): calls are made one at a time; the controller executes a *)
(* called command at most once, and commands in the order they were       *)
(* called; a call reports success only if its own command was executed;   *)
(* a call may fail (time out) whether or not its command runs later.      *)
(* Calls are numbered 1, 2, ... in the order they are made.               *)
(***************************************************************************)
EXTENDS Naturals

CONSTANT MaxCalls

VARIABLES
    calls,      \* number of calls made so far; the current or last call is `calls`
    active,     \* a call is in progress
    executed,   \* the calls whose command the controller has executed
    result      \* "none", or how the last call ended: "ok" or "fail"

absvars == <<calls, active, executed, result>>

Init ==
    /\ calls = 0
    /\ active = FALSE
    /\ executed = {}
    /\ result = "none"

Call ==
    /\ ~active
    /\ calls < MaxCalls
    /\ calls' = calls + 1
    /\ active' = TRUE
    /\ UNCHANGED <<executed, result>>

\* The controller executes call i: one that was made, not yet executed, and
\* newer than every call already executed.
Execute(i) ==
    /\ i \in 1..calls
    /\ \A j \in executed : j < i
    /\ executed' = executed \cup {i}
    /\ UNCHANGED <<calls, active, result>>

ReturnOk ==
    /\ active
    /\ calls \in executed
    /\ active' = FALSE
    /\ result' = "ok"
    /\ UNCHANGED <<calls, executed>>

ReturnFail ==
    /\ active
    /\ active' = FALSE
    /\ result' = "fail"
    /\ UNCHANGED <<calls, executed>>

Next == Call \/ (\E i \in 1..MaxCalls : Execute(i)) \/ ReturnOk \/ ReturnFail

Spec == Init /\ [][Next]_absvars

=============================================================================
