------------------------------ MODULE ExecArgs ------------------------------
(***************************************************************************)
(* The parsing of -exec, -execdir, -ok and -okdir in src/find/parser.c:   *)
(* insert_exec_ok, which scans the words after the primary for the        *)
(* terminator and counts the {} in them, and check_path_safety, which     *)
(* splits $PATH at ':' for -execdir and -okdir.                           *)
(*                                                                         *)
(* A word of argv is a token: "semi" (exactly ";"), "plus" (exactly "+"), *)
(* "braces" (exactly "{}"), "embedded" (contains "{}", e.g. "x{}") or     *)
(* "word" (anything else).  The end of argv (NULL) is the end of the      *)
(* sequence.  $PATH is unset or a string over ':', '/' and '.'.           *)
(***************************************************************************)
EXTENDS Naturals, SequencesExt

CONSTANTS
  ArgvLen,    \* longest list of words after the primary tried
  PathLen,    \* longest $PATH tried
  Funcs       \* the primaries tried, a subset of the four below

ASSUME ArgvLen \in Nat /\ PathLen \in Nat
ASSUME Funcs \subseteq {"exec", "execdir", "ok", "okdir"}

VARIABLES
  input,               \* the primary, its words, $PATH, environment size
  ok_prompt_stdin,     \* options.ok_prompt_stdin
  ignore_readdir_race, \* options.ignore_readdir_race
  result               \* what insert_exec_ok made of it; status "none" before

vars == <<input, ok_prompt_stdin, ignore_readdir_race, result>>

Tokens == {"semi", "plus", "braces", "embedded", "word"}
PathChars == {":", "/", "."}

HasBraces(t) == t \in {"braces", "embedded"}
IsDirFunc(f) == f \in {"execdir", "okdir"}

(* splitstring (lib/splitstring.c): the length of the field at pos. *)
RECURSIVE FieldLength(_, _)
FieldLength(p, pos) ==
  IF pos > Len(p) \/ p[pos] = ":" THEN 0 ELSE 1 + FieldLength(p, pos + 1)

(* Mutant: an empty field is taken to be an absolute directory. *)
RECURSIVE PathVerdictEmptyOk(_, _)
PathVerdictEmptyOk(p, pos) ==
  LET len == FieldLength(p, pos) IN
  CASE len = 1 /\ p[pos] = "."      -> "fatal_cwd_in_path"
    [] len > 0 /\ p[pos] # "/"      -> "fatal_relative_path"
    [] pos + len > Len(p)           -> "safe"
    [] OTHER                        -> PathVerdictEmptyOk(p, pos + len + 1)

(* check_path_safety: the do-while over the fields of $PATH from pos on. *)
RECURSIVE PathVerdict(_, _)
PathVerdict(p, pos) ==
  LET len == FieldLength(p, pos) IN
  CASE len = 0 \/ (len = 1 /\ p[pos] = ".") -> "fatal_cwd_in_path"
    [] p[pos] # "/"                         -> "fatal_relative_path"
    [] pos + len > Len(p)                   -> "safe"
    [] OTHER                                -> PathVerdict(p, pos + len + 1)

CheckPathSafety(path) == IF ~path.set THEN "safe" ELSE PathVerdict(path.text, 1)

(* Mutant: "+" ends the command after any word, not only after "{}". *)
RECURSIVE ScanAnyPlus(_, _, _, _, _, _)
ScanAnyPlus(a, allowPlus, isDir, e, prev, count) ==
  CASE e > Len(a) \/ a[e] = "semi"        -> [end |-> e, multiple |-> FALSE, count |-> count]
    [] allowPlus /\ a[e] = "plus"         -> [end |-> e, multiple |-> TRUE, count |-> count]
    [] HasBraces(a[e]) /\ e = 1 /\ isDir  -> [end |-> e, multiple |-> FALSE, count |-> -1]
    [] OTHER -> ScanAnyPlus(a, allowPlus, isDir, e + 1, a[e] = "braces",
                            IF HasBraces(a[e]) THEN count + 1 ELSE count)

(* The for loop of insert_exec_ok from index e (start is 1): stop at ";" *)
(* or the end of argv, or at "+" right after "{}" where + is allowed;    *)
(* count the words that contain "{}".  count -1 is the fatal error for   *)
(* {} in the utility name of -execdir and -okdir.                        *)
RECURSIVE Scan(_, _, _, _, _, _)
Scan(a, allowPlus, isDir, e, prev, count) ==
  CASE e > Len(a) \/ a[e] = "semi"           -> [end |-> e, multiple |-> FALSE, count |-> count]
    [] allowPlus /\ prev /\ a[e] = "plus"    -> [end |-> e, multiple |-> TRUE, count |-> count]
    [] HasBraces(a[e]) /\ e = 1 /\ isDir     -> [end |-> e, multiple |-> FALSE, count |-> -1]
    [] OTHER -> Scan(a, allowPlus, isDir, e + 1, a[e] = "braces",
                     IF HasBraces(a[e]) THEN count + 1 ELSE count)

(* Mutant: the word after the terminator is skipped as well. *)
NextArgSkipsTwo(a, e) == IF e > Len(a) THEN e ELSE e + 2

(* The new *arg_ptr: past the terminator, or at the end of argv. *)
NextArg(a, e) == IF e > Len(a) THEN e ELSE e + 1

Rejected(status) ==
  [status |-> status, multiple |-> FALSE, args |-> <<>>, next |-> 0]

(* insert_exec_ok (action, entry, argv, arg_ptr), from the word after    *)
(* the primary.  Fatal errors exit; "missing" is the false return.       *)
InsertExecOk(i) ==
  LET a         == i.argv
      allowPlus == i.func \in {"exec", "execdir"}
      s         == Scan(a, allowPlus, IsDirFunc(i.func), 1, FALSE, 0)
      pathCheck == IF IsDirFunc(i.func) THEN CheckPathSafety(i.path) ELSE "safe"
  IN  CASE a = <<>>                        -> Rejected("missing")
        [] pathCheck # "safe"              -> Rejected(pathCheck)
        [] s.count = -1                    -> Rejected("fatal_utility_braces")
        [] s.end = 1 \/ s.end > Len(a)     -> Rejected("missing")
        [] s.multiple /\ s.count > 1       -> Rejected("fatal_plus_braces")
        [] s.multiple /\ a[s.end - 1] # "braces" -> Rejected("fatal_plus_embedded")
        [] ~i.env_fits                     -> Rejected("fatal_environment")
        [] OTHER -> [status   |-> "ok",
                     multiple |-> s.multiple,
                     args     |-> SubSeq(a, 1, s.end - IF s.multiple THEN 2 ELSE 1),
                     next     |-> NextArg(a, s.end)]

Paths == {[set |-> FALSE, text |-> <<>>]} \cup
         {[set |-> TRUE, text |-> t] : t \in BoundedSeq(PathChars, PathLen)}

Inputs ==
  [func : Funcs, argv : BoundedSeq(Tokens, ArgvLen), path : Paths,
   env_fits : BOOLEAN]

Init ==
  /\ input \in Inputs
  /\ ok_prompt_stdin \in BOOLEAN
  /\ ignore_readdir_race \in BOOLEAN
  /\ result = Rejected("none")

(* parse_exec, parse_execdir, parse_ok and parse_okdir.  The options are *)
(* set before the scan, so they stay set whatever its outcome.           *)
ParseExecOk ==
  /\ result = Rejected("none")
  /\ result' = InsertExecOk(input)
  /\ ok_prompt_stdin' = (ok_prompt_stdin \/ (input.argv # <<>> /\ input.func \in {"ok", "okdir"}))
  /\ ignore_readdir_race' = (ignore_readdir_race /\ ~(input.argv # <<>> /\ IsDirFunc(input.func)))
  /\ UNCHANGED input

Spec == Init /\ [][ParseExecOk]_vars

-----------------------------------------------------------------------------
(* The options and the result; TypeOK adds the input, which no step   *)
(* changes.                                                              *)
ResultOK ==
  /\ ok_prompt_stdin \in BOOLEAN /\ ignore_readdir_race \in BOOLEAN
  /\ result.multiple \in BOOLEAN /\ result.args \in Seq(Tokens)
  /\ result.next \in 0..(ArgvLen + 1)

TypeOK == input \in Inputs /\ ResultOK

(* The reference reading of spec sections 3 and 4.D.  A terminator is a *)
(* ";" word, or for -exec and -execdir a "+" word right after "{}".     *)
Terminators(i) ==
  {p \in DOMAIN i.argv :
     \/ i.argv[p] = "semi"
     \/ /\ i.func \in {"exec", "execdir"} /\ p > 1
        /\ i.argv[p] = "plus" /\ i.argv[p - 1] = "braces"}

(* The fields of $PATH: the text between consecutive separators. *)
Fields(p) ==
  LET cuts == {0, Len(p) + 1} \cup {k \in DOMAIN p : p[k] = ":"} IN
  {[from |-> c[1] + 1, len |-> c[2] - c[1] - 1] :
     c \in {<<u, v>> \in cuts \X cuts : u < v /\ ~\E w \in cuts : u < w /\ w < v}}

Insecure(p, fld) == fld.len = 0 \/ p[fld.from] # "/"
NamesCwd(p, fld) == fld.len = 0 \/ (fld.len = 1 /\ p[fld.from] = ".")

(* For -execdir and -okdir, spec section 6: a $PATH with ".", an empty   *)
(* field or a relative directory is fatal; check_path_safety reports the *)
(* first such field, as the current directory when it is empty or ".".  *)
PathCheckAsSpecified ==
  result.status # "none" /\ IsDirFunc(input.func) /\ input.argv # <<>> /\ input.path.set =>
    LET p   == input.path.text
        bad == {fld \in Fields(p) : Insecure(p, fld)}
    IN  /\ (bad # {}) = (result.status \in {"fatal_cwd_in_path", "fatal_relative_path"})
        /\ bad # {} =>
             \E fld \in bad :
               /\ \A g \in bad : fld.from <= g.from
               /\ NamesCwd(p, fld) = (result.status = "fatal_cwd_in_path")

(* The command is accepted exactly when it is well formed: a terminator *)
(* after a non-empty command; with "+", "{}" appears once, as the last  *)
(* word; no {} in the utility name of -execdir and -okdir.  The recipe  *)
(* then holds the words before the first terminator (without the "{}"   *)
(* for "+"), and parsing resumes after the terminator.                  *)
ExecRecipeAsSpecified ==
  result.status # "none" /\ input.argv # <<>> /\ input.env_fits /\
  (IsDirFunc(input.func) => CheckPathSafety(input.path) = "safe") =>
    LET a     == input.argv
        ts    == Terminators(input)
        p     == Min(ts)
        plus  == a[p] = "plus"
        braced == {k \in 1..(p - 1) : HasBraces(a[k])}
        wellFormed ==
          /\ ts # {} /\ p > 1
          /\ IsDirFunc(input.func) => ~HasBraces(a[1])
          /\ plus => braced = {p - 1}
    IN  /\ (result.status = "ok") = wellFormed
        /\ result.status = "ok" =>
             /\ result.multiple = plus
             /\ result.args = SubSeq(a, 1, p - IF plus THEN 2 ELSE 1)
             /\ result.next = p + 1
=============================================================================
