------------------------------ MODULE PermArgs ------------------------------
(***************************************************************************)
(* The argument of -perm, in src/find/parser.c: parse_perm.  A leading   *)
(* '-' asks for at least the bits, '/' for any of them; the rest of the  *)
(* argument is a mode that gnulib's mode_compile reads, octal or         *)
(* symbolic, and mode_adjust applies to a mode with no bits, once for a  *)
(* file and once for a directory (perm_val[0] and perm_val[1]).          *)
(*                                                                         *)
(* Modes are sets of bits <<class, permission>> for the classes u, g, o  *)
(* and the permissions w and x (r behaves as w and is left out; so are   *)
(* the set-id and sticky bits).  The octal digits tried are 0 and 7;     *)
(* the symbolic forms are built from the who letter u (no who letter     *)
(* means all classes, the umask being 0), the operators + - =, the       *)
(* permissions w, x and X, the copy form u, and ','.  mode_compile,      *)
(* mode_adjust (gnulib) and pred_perm (pred.c) are not in src; they are  *)
(* modelled from their documentation.                                    *)
(***************************************************************************)
EXTENDS Naturals, SequencesExt

CONSTANTS
  Alphabet,   \* characters arguments are made of
  ArgLen      \* longest argument tried

Classes == <<"u", "g", "o">>
Bits == {"u", "g", "o"} \X {"w", "x"}
OctalDigits == {"0", "7"}
Ops == {"+", "-", "="}

VARIABLES
  input,   \* [present, arg]: the argument, or the end of argv
  result   \* [status, kind, val]; status "none" before

vars == <<input, result>>

Rejected(status) == [status |-> status, kind |-> "EXACT", val |-> <<{}, {}>>]

(* mode_compile, octal: the last digit gives o, the one before g, the    *)
(* one before that u; the whole mode is set ('=' on every bit).          *)
OctalMode(ds) ==
  {b \in Bits : \E k \in DOMAIN ds :
                  /\ ds[k] = "7" /\ Len(ds) - k + 1 <= 3
                  /\ b[1] = Classes[3 - (Len(ds) - k)]}

NewChange(op, who) == [op |-> op, who |-> who, perms |-> {}, copy |-> FALSE]

(* One character of a symbolic mode: the state is where the clause is    *)
(* ("who", "op" right after an operator, "perm" after permissions,       *)
(* "copied" after a copy letter, "bad").                                 *)
SymStep(st, c) ==
  LET last == Len(st.changes) IN
  CASE st.state = "bad" -> st
    [] st.state = "who" /\ c = "u" -> [st EXCEPT !.who = {"u"}]
    [] c \in Ops -> [st EXCEPT !.state = "op", !.changes = Append(@, NewChange(c, st.who))]
    [] st.state \in {"op", "perm"} /\ c \in {"w", "x", "X"} ->
         [st EXCEPT !.state = "perm", !.changes[last].perms = @ \cup {c}]
    [] st.state = "op" /\ c = "u" ->
         [st EXCEPT !.state = "copied", !.changes[last].copy = TRUE]
    [] st.state # "who" /\ c = "," -> [st EXCEPT !.state = "who", !.who = {}]
    [] OTHER -> [st EXCEPT !.state = "bad"]

(* mode_compile (mode_string): NULL ([ok |-> FALSE]) or the changes. *)
ModeCompile(s) ==
  IF s # <<>> /\ s[1] \in OctalDigits
  THEN IF \A k \in DOMAIN s : s[k] \in OctalDigits
       THEN [ok |-> TRUE, octal |-> TRUE, mode |-> OctalMode(s), changes |-> <<>>]
       ELSE [ok |-> FALSE, octal |-> FALSE, mode |-> {}, changes |-> <<>>]
  ELSE LET st == FoldLeft(SymStep, [state |-> "who", who |-> {}, changes |-> <<>>], s) IN
       [ok |-> st.state \in {"op", "perm", "copied"}, octal |-> FALSE, mode |-> {},
        changes |-> st.changes]

Affected(ch) == IF ch.who = {} THEN Bits ELSE {b \in Bits : b[1] \in ch.who}

(* The bits one change sets, clears or assigns, given the mode so far:   *)
(* X is x when the file is a directory or some x bit is already set; u  *)
(* copies the u bits to every class.                                    *)
ChangeValue(ch, m, dir) ==
  LET perms == IF ch.copy THEN {p \in {"w", "x"} : <<"u", p>> \in m}
               ELSE (ch.perms \ {"X"})
                    \cup (IF "X" \in ch.perms /\ (dir \/ \E b \in m : b[2] = "x")
                          THEN {"x"} ELSE {})
  IN  {b \in Affected(ch) : b[2] \in perms}

ApplyChange(m, ch, dir) ==
  LET v == ChangeValue(ch, m, dir) IN
  CASE ch.op = "+" -> m \cup v
    [] ch.op = "-" -> m \ v
    [] OTHER       -> (m \ Affected(ch)) \cup v

(* mode_adjust (0, dir, 0, change, NULL). *)
ModeAdjust(c, dir) ==
  IF c.octal THEN c.mode
  ELSE FoldLeft(LAMBDA m, ch : ApplyChange(m, ch, dir), {}, c.changes)

First(s) == IF s = <<>> THEN "NUL" ELSE s[1]

(* Mutant: the file's and the directory's values are stored swapped. *)
ParsePermSwapped(i) ==
  LET s     == i.arg
      start == IF First(s) \in {"-", "/"} THEN 2 ELSE 1
      kind  == CASE First(s) = "-" -> "AT_LEAST" [] First(s) = "/" -> "ANY" [] OTHER -> "EXACT"
      c     == ModeCompile(SubSeq(s, start, Len(s)))
      val   == <<ModeAdjust(c, TRUE), ModeAdjust(c, FALSE)>>
  IN  CASE ~i.present -> Rejected("missing")
        [] ~c.ok \/ (First(s) = "+" /\ Len(s) >= 2 /\ s[2] \in OctalDigits) ->
             Rejected("fatal_invalid_mode")
        [] First(s) = "/" /\ val[1] = {} /\ val[2] = {} ->
             [status |-> "warn_perm_000", kind |-> "AT_LEAST", val |-> val]
        [] OTHER -> [status |-> "ok", kind |-> kind, val |-> val]

(* parse_perm: the prefix picks the kind and is skipped; an invalid mode *)
(* or "+" and an octal digit is fatal; /000 (no bits for files or for    *)
(* directories) is warned about and becomes -000.                        *)
ParsePerm(i) ==
  LET s     == i.arg
      start == IF First(s) \in {"-", "/"} THEN 2 ELSE 1
      kind  == CASE First(s) = "-" -> "AT_LEAST" [] First(s) = "/" -> "ANY" [] OTHER -> "EXACT"
      c     == ModeCompile(SubSeq(s, start, Len(s)))
      val   == <<ModeAdjust(c, FALSE), ModeAdjust(c, TRUE)>>
  IN  CASE ~i.present -> Rejected("missing")
        [] ~c.ok \/ (First(s) = "+" /\ Len(s) >= 2 /\ s[2] \in OctalDigits) ->
             Rejected("fatal_invalid_mode")
        [] First(s) = "/" /\ val[1] = {} /\ val[2] = {} ->
             [status |-> "warn_perm_000", kind |-> "AT_LEAST", val |-> val]
        [] OTHER -> [status |-> "ok", kind |-> kind, val |-> val]

Inputs ==
  [present : {TRUE}, arg : BoundedSeq(Alphabet, ArgLen)] \cup
  [present : {FALSE}, arg : {<<>>}]

Init == input \in Inputs /\ result = Rejected("none")

ParseArgument ==
  /\ result = Rejected("none")
  /\ result' = ParsePerm(input)
  /\ UNCHANGED input

Spec == Init /\ [][ParseArgument]_vars

-----------------------------------------------------------------------------
Kinds == {"EXACT", "AT_LEAST", "ANY"}

(* The result; TypeOK adds the input, which no step changes. *)
ResultOK ==
  /\ result.status \in {"none", "missing", "fatal_invalid_mode", "ok", "warn_perm_000"}
  /\ result.kind \in Kinds /\ result.val \in (SUBSET Bits) \X (SUBSET Bits)

TypeOK == input \in Inputs /\ ResultOK

(* pred_perm (pred.c): the value for the kind of file, then all bits,    *)
(* any bit (or none asked for), or exactly the bits.                     *)
PredPerm(r, m, dir) ==
  LET v == r.val[IF dir THEN 2 ELSE 1] IN
  CASE r.kind = "AT_LEAST" -> v \subseteq m
    [] r.kind = "ANY"      -> v = {} \/ v \cap m # {}
    [] OTHER               -> m = v

(* The manual: -perm MODE matches exactly MODE, -perm -MODE all of its   *)
(* bits, -perm /MODE any of them, and every file when MODE has none.     *)
Documented(prefix, v, m) ==
  CASE prefix = "-" -> v \subseteq m
    [] prefix = "/" -> v = {} \/ v \cap m # {}
    [] OTHER        -> m = v

(* -perm accepts exactly an octal or symbolic mode after an optional '-' *)
(* or '/', and never '+' and an octal number; the test it builds then    *)
(* matches, for a file and for a directory, every mode as the manual     *)
(* says, with the mode computed for that kind of file (X gives x to a    *)
(* directory only).  This covers parse_perm's prefix, the /000 rewrite   *)
(* and the order of perm_val[0] and perm_val[1].                         *)
PermAsDocumented ==
  result.status # "none" /\ input.present =>
    LET s    == input.arg
        p    == First(s)
        c    == ModeCompile(SubSeq(s, IF p \in {"-", "/"} THEN 2 ELSE 1, Len(s)))
        good == c.ok /\ ~(p = "+" /\ Len(s) >= 2 /\ s[2] \in OctalDigits)
        vf   == ModeAdjust(c, FALSE)
        vd   == ModeAdjust(c, TRUE)
    IN  /\ (result.status \in {"ok", "warn_perm_000"}) = good
        /\ good => \A m \in SUBSET Bits :
                    /\ PredPerm(result, m, FALSE) = Documented(p, vf, m)
                    /\ PredPerm(result, m, TRUE) = Documented(p, vd, m)
=============================================================================
