---------------------------- MODULE MCStopWatch ----------------------------
(***************************************************************************)
(* StopWatch with microseconds of six bits: two or three delays wrap the    *)
(* clock around.                                                           *)
(***************************************************************************)
EXTENDS StopWatch
=============================================================================
