------------------------------ MODULE MCDayStart ----------------------------
(* A 12-second day; start_time in the third day; zones at UTC+0 or UTC+2 *)
(* before and after a switch in that day or the day before.              *)
EXTENDS DayStart

MCStartTimes == {26, 31}
MCZones == [before : {0, 2}, after : {0, 2}, switch : {20, 25}]
=============================================================================
