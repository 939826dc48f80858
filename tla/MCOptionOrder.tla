--------------------------- MODULE MCOptionOrder ----------------------------
(* OptionOrder for TLC: expressions of up to MaxTokens option words. *)
EXTENDS OptionOrder
=============================================================================
