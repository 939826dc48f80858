----------------------------- MODULE MCParseArgs ----------------------------
(* The bounds of the component runs, for the composed parser. *)
EXTENDS ParseArgs, Integers, TLC

MCNums == -24..40
MCDayStarts == {[sec |-> 6, nsec |-> 0], [sec |-> 6, nsec |-> 3]}
MCArgChars == {"+", "-", " ", "0", "1", "5", "c", "k", "x", "f", "d", "D", ","}
MCPermChars == {"-", "/", "+", "=", "0", "7", "u", "w", "x", "X", ","}
(* Two users: "x" (uid 3) and "5" (uid 1), a name that is also a number. *)
MCPasswd == (<<"x">> :> 3) @@ (<<"5">> :> 1)
MCStartTimes == {26, 31}
MCZones == [before : {0, 2}, after : {0, 2}, switch : {20, 25}]
=============================================================================
