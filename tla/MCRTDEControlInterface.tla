------------------------ MODULE MCRTDEControlInterface ------------------------
(* RTDEControlInterface for TLC: moveJ with and without async and stopJ, two-waypoint motions,
   four calls, room for a command frame and a clear frame in flight. *)
EXTENDS RTDEControlInterface

MCWaypoints == 2
MCMaxCalls == 4
MCOutboxCap == 2
\* Only the last call's wait for DONE may expire: no call follows a timeout.
MCLastCallTimesOut == {MCMaxCalls}
\* Any call's wait for DONE may expire.
MCAnyCallTimesOut == 1..MCMaxCalls
\* sendCustomScript as the first call, before any command frame, and as the
\* last, after which no command is sent (README: a custom script between
\* commands).
MCFirstLastCustom == {1, MCMaxCalls}
\* No call is sendCustomScript.
MCNoCustom == {}
=============================================================================
