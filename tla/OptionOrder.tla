---------------------------- MODULE OptionOrder -----------------------------
(***************************************************************************)
(* The options of the expression that change global settings, in the     *)
(* order the parser meets them (src/find/parser.c), the check of option  *)
(* combinations after parsing (check_option_combinations), and the checks *)
(* of -files0-from at the start of process_all_startpoints                *)
(* (src/find/ftsfind.c).                                                  *)
(*                                                                         *)
(* A word of the expression is a token naming its primary; "files0_stdin" *)
(* is -files0-from -, "files0_samefile" a file that is also standard     *)
(* input (/dev/stdin, or FILE with < FILE), "files0_file" another file.   *)
(***************************************************************************)
EXTENDS Naturals, SequencesExt

CONSTANTS
  MaxTokens   \* longest expression tried

Files0Tokens == {"files0_stdin", "files0_samefile", "files0_file"}
Tokens == {"delete", "depth", "d", "prune", "execdir", "ok", "okdir",
           "ignore_race", "noignore_race"} \cup Files0Tokens

VARIABLES
  tokens,               \* the expression, in order
  argv_starting_points, \* starting points were named before the expression
  idx,                  \* the next token to parse
  do_dir_first,         \* options.do_dir_first
  explicit_depth,       \* options.explicit_depth
  ignore_readdir_race,  \* options.ignore_readdir_race
  ok_prompt_stdin,      \* options.ok_prompt_stdin
  files0_from,          \* options.files0_from: "none" or the kind of file
  seen_delete,          \* a -delete predicate is in the list
  seen_prune,           \* a -prune predicate is in the list
  phase                 \* "parse", "startpoints", "search" or "fatal"

vars == <<tokens, argv_starting_points, idx, do_dir_first, explicit_depth,
          ignore_readdir_race, ok_prompt_stdin, files0_from, seen_delete,
          seen_prune, phase>>

options == <<do_dir_first, explicit_depth, ignore_readdir_race, ok_prompt_stdin,
             files0_from>>

Parsing(t) == phase = "parse" /\ idx <= Len(tokens) /\ tokens[idx] \in t

(* set_option_defaults (util.c): breadth-first, races reported. *)
Init ==
  /\ tokens \in BoundedSeq(Tokens, MaxTokens)
  /\ argv_starting_points \in BOOLEAN
  /\ idx = 1
  /\ do_dir_first = TRUE /\ explicit_depth = FALSE
  /\ ignore_readdir_race = FALSE /\ ok_prompt_stdin = FALSE
  /\ files0_from = "none"
  /\ seen_delete = FALSE /\ seen_prune = FALSE
  /\ phase = "parse"

(* parse_delete: -delete implies -depth. *)
ParseDelete ==
  /\ Parsing({"delete"})
  /\ do_dir_first' = FALSE /\ seen_delete' = TRUE /\ idx' = idx + 1
  /\ UNCHANGED <<tokens, argv_starting_points, explicit_depth, ignore_readdir_race,
                 ok_prompt_stdin, files0_from, seen_prune, phase>>

(* Mutant: -d turns on depth-first order without recording it as explicit. *)
ParseDepthImplicitD ==
  /\ Parsing({"depth", "d"})
  /\ do_dir_first' = FALSE /\ explicit_depth' = (explicit_depth \/ tokens[idx] = "depth")
  /\ idx' = idx + 1
  /\ UNCHANGED <<tokens, argv_starting_points, ignore_readdir_race, ok_prompt_stdin,
                 files0_from, seen_delete, seen_prune, phase>>

(* parse_depth, and parse_d which calls it after its warning. *)
ParseDepth ==
  /\ Parsing({"depth", "d"})
  /\ do_dir_first' = FALSE /\ explicit_depth' = TRUE /\ idx' = idx + 1
  /\ UNCHANGED <<tokens, argv_starting_points, ignore_readdir_race, ok_prompt_stdin,
                 files0_from, seen_delete, seen_prune, phase>>

ParsePrune ==
  /\ Parsing({"prune"})
  /\ seen_prune' = TRUE /\ idx' = idx + 1
  /\ UNCHANGED <<tokens, argv_starting_points, do_dir_first, explicit_depth,
                 ignore_readdir_race, ok_prompt_stdin, files0_from, seen_delete, phase>>

(* insert_exec_ok for a well-formed command (ExecArgs models the scan):  *)
(* -ok and -okdir read answers from stdin; -execdir and -okdir turn off  *)
(* ignore_readdir_race.                                                  *)
ParseExecOk ==
  /\ Parsing({"execdir", "ok", "okdir"})
  /\ ok_prompt_stdin' = (ok_prompt_stdin \/ tokens[idx] \in {"ok", "okdir"})
  /\ ignore_readdir_race' = (ignore_readdir_race /\ tokens[idx] = "ok")
  /\ idx' = idx + 1
  /\ UNCHANGED <<tokens, argv_starting_points, do_dir_first, explicit_depth,
                 files0_from, seen_delete, seen_prune, phase>>

(* parse_ignore_race and parse_noignore_race. *)
ParseIgnoreRace ==
  /\ Parsing({"ignore_race", "noignore_race"})
  /\ ignore_readdir_race' = (tokens[idx] = "ignore_race")
  /\ idx' = idx + 1
  /\ UNCHANGED <<tokens, argv_starting_points, do_dir_first, explicit_depth,
                 ok_prompt_stdin, files0_from, seen_delete, seen_prune, phase>>

(* parse_files0_from: the last one given wins. *)
ParseFiles0From ==
  /\ Parsing(Files0Tokens)
  /\ files0_from' = tokens[idx]
  /\ idx' = idx + 1
  /\ UNCHANGED <<tokens, argv_starting_points, do_dir_first, explicit_depth,
                 ignore_readdir_race, ok_prompt_stdin, seen_delete, seen_prune, phase>>

(* check_option_combinations: -delete with -prune needs an explicit -depth. *)
CheckOptionCombinations ==
  /\ phase = "parse" /\ idx > Len(tokens)
  /\ phase' = IF seen_prune /\ seen_delete /\ ~explicit_depth THEN "fatal" ELSE "startpoints"
  /\ UNCHANGED <<tokens, argv_starting_points, idx, options, seen_delete, seen_prune>>

(* process_all_startpoints before the loop: -files0-from excludes other  *)
(* starting points, and -ok/-okdir when the list comes from stdin; a     *)
(* file that cannot be opened is fatal.                                  *)
Files0FromChecks ==
  /\ phase = "startpoints"
  /\ \E opened \in BOOLEAN :
       phase' = IF \/ files0_from # "none" /\ argv_starting_points
                   \/ files0_from = "files0_stdin" /\ ok_prompt_stdin
                   \/ files0_from \in {"files0_samefile", "files0_file"} /\ ~opened
                   \/ files0_from = "files0_samefile" /\ ok_prompt_stdin
                THEN "fatal" ELSE "search"
  /\ UNCHANGED <<tokens, argv_starting_points, idx, options, seen_delete, seen_prune>>

Next ==
  \/ ParseDelete \/ ParseDepth \/ ParsePrune \/ ParseExecOk \/ ParseIgnoreRace
  \/ ParseFiles0From \/ CheckOptionCombinations \/ Files0FromChecks

Spec == Init /\ [][Next]_vars

-----------------------------------------------------------------------------
(* The parse state; TypeOK adds the expression, which no step changes. *)
StateOK ==
  /\ argv_starting_points \in BOOLEAN
  /\ idx \in 1..(Len(tokens) + 1)
  /\ {do_dir_first, explicit_depth, ignore_readdir_race, ok_prompt_stdin,
      seen_delete, seen_prune} \subseteq BOOLEAN
  /\ files0_from \in {"none"} \cup Files0Tokens
  /\ phase \in {"parse", "startpoints", "search", "fatal"}

TypeOK == tokens \in BoundedSeq(Tokens, MaxTokens) /\ StateOK

Has(t) == \E k \in DOMAIN tokens : tokens[k] \in t

(* The last of the tokens in t, or dflt when there is none. *)
LastOf(t, dflt) ==
  LET ks == {k \in DOMAIN tokens : tokens[k] \in t} IN
  IF ks = {} THEN dflt ELSE tokens[Max(ks)]

(* The conflicts of spec section 4.D: -delete with -prune unless -depth  *)
(* (or -d) was given; -files0-from with starting points on the command  *)
(* line; -ok or -okdir when the list of starting points comes from      *)
(* standard input, by "-" or by a file that is standard input.          *)
Conflict ==
  \/ Has({"delete"}) /\ Has({"prune"}) /\ ~Has({"depth", "d"})
  \/ Has(Files0Tokens) /\ argv_starting_points
  \/ LastOf(Files0Tokens, "none") \in {"files0_stdin", "files0_samefile"}
     /\ Has({"ok", "okdir"})

(* Whatever order the options come in (-delete also turns on depth-first *)
(* order, -d is the deprecated -depth), check_option_combinations and     *)
(* process_all_startpoints reject exactly the conflicting commands; the  *)
(* only other way to stop is a -files0-from file that cannot be opened.  *)
OptionConflictsRejected ==
  phase \in {"search", "fatal"} =>
    /\ Conflict => phase = "fatal"
    /\ phase = "fatal" /\ LastOf(Files0Tokens, "none") \in {"none", "files0_stdin"}
       => Conflict

(* Spec section 4.D: -ignore_readdir_race and -noignore_race are global *)
(* options; the search runs with the setting of the last one given,     *)
(* wherever it stands in the expression.                                *)
IgnoreRaceAsGiven ==
  phase = "search" =>
    ignore_readdir_race = (LastOf({"ignore_race", "noignore_race"}, "noignore_race")
                           = "ignore_race")
=============================================================================
