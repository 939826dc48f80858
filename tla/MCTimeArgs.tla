---------------------------- MODULE MCTimeArgs ----------------------------
(* time_t of 6 bits, days of 12 s, minutes of 3 s, arguments in eighths. *)
(* Today starts at 6, or at 25, within a day of the largest time_t (31).  *)
EXTENDS TimeArgs

MCNums == -24..40
MCDayStarts == {[sec |-> 6, nsec |-> 0], [sec |-> 6, nsec |-> 3], [sec |-> 25, nsec |-> 0]}

(* Today starting at 6 only: the end of today (17) fits in time_t, so an *)
(* overflow can only come from origin - offset.                          *)
MCFarDayStarts == {[sec |-> 6, nsec |-> 0]}
=============================================================================
