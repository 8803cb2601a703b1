----------------------- MODULE MCRTDEReceiveInterface -----------------------
(* RTDEReceiveInterface for TLC: the constructor's thread plus two
   reconnects, enough for a stale receive thread to meet a fresh one. *)
EXTENDS RTDEReceiveInterface

MCMaxThreads == 3
=============================================================================
