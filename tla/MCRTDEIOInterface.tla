------------------------- MODULE MCRTDEIOInterface -------------------------
(* RTDEIOInterface for TLC: two standard digital outputs, one of the other kinds, a control interface
   with its register window at offset 0, and retries bounded for the search. *)
EXTENDS RTDEIOInterface

MCOutIds == {0, 1}
MCToolIds == {0}
MCAnalogIds == {0}
MCAnalogIdsBoth == {0, 1}
MCSpeeds == {1}
MCRatios == {1}
MCInboxCap == 1
\* Two packages buffered: an older and a fresher one.
MCInboxCapTwo == 2
MCMaxDepth == 2

\* Search bound: sendCommand's self-call depth and the queues.
StateBound == depth <= MCMaxDepth /\ Len(outbox) <= 1
=============================================================================
