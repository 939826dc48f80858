----------------------------- MODULE MCFtsFind -----------------------------
(* A starting point r with two subdirectories that both hold something, *)
(* the first one two levels deep:  r/a/b/f2 and r/c/f1.                *)
EXTENDS FtsFind

CONSTANTS r, a, b, c, f1, f2

MCNode == {r, a, b, c, f1, f2}
MCDir == {r, a, b, c}
MCParent == (a :> r) @@ (c :> r) @@ (b :> a) @@ (f2 :> b) @@ (f1 :> c)

(* -1 stands for "-maxdepth not given". *)
MCMaxDepthChoices == {-1, 1, 2}
MCNoMaxDepth == {-1}
=============================================================================
