------------------------------ MODULE MCNumArgs -----------------------------
(* Alphabets for the numeric and the type-letter arguments. *)
EXTENDS NumArgs, TLC

MCNumberChars == {"+", "-", " ", "0", "1", "5", "c", "k", "x"}
MCTypeChars == {"f", "d", "D", ",", "x"}
MCArgChars == MCNumberChars \cup MCTypeChars

(* Two users: "x" (uid 3) and "5" (uid 1), a name that is also a number. *)
MCPasswd == (<<"x">> :> 3) @@ (<<"5">> :> 1)
=============================================================================
