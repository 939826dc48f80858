---------------------------- MODULE MCFindMain ----------------------------
(* Starting points on the command line or from -files0-from. *)
EXTENDS FindMain

MCFindOutcomes == {"ok", "open_fail", "read_fail", "close_fail"}
=============================================================================
