----------------------------- MODULE FindParser -----------------------------
(***************************************************************************)
(* The dispatch of the words of the expression, in src/find/parser.c:     *)
(* find_parser looks each word up in parse_table (an 8-character word     *)
(* beginning "-newer" is -newerXY), found_parser checks where it stands   *)
(* and remembers the first word that is not an option, and the primary's *)
(* parse function runs.  The words are taken one primary at a time, as   *)
(* build_expression_tree (tree.c, not in src) does; the arguments of the *)
(* primaries are not words of this model, except that the last word may *)
(* lack its argument.  -warn and -nowarn change options.warnings for the *)
(* words after them; POSIXLY_CORRECT silences the warnings of            *)
(* should_issue_warnings.                                                 *)
(***************************************************************************)
EXTENDS Naturals, SequencesExt

CONSTANTS
  MaxWords   \* longest expression tried

(* parse_table's type of each word: ARG_OPTION, ARG_POSITIONAL_OPTION,    *)
(* ARG_TEST, ARG_PUNCTUATION, ARG_NOOP ("---noop", the table's "--noop"  *)
(* after the dash is skipped), ARG_SPECIAL_PARSE (-newerXY), or no entry. *)
NewerWords == {"-newermt", "-newerBm", "-newertm"}
EntryType ==
  ("-maxdepth" :> "option") @@ ("-warn" :> "posopt") @@ ("-nowarn" :> "posopt")
  @@ ("-name" :> "test") @@ ("(" :> "punct") @@ ("-(" :> "punct")
  @@ ("---noop" :> "noop") @@ ("-bogus" :> "none")
  @@ [w \in NewerWords |-> "special"]
Words == DOMAIN EntryType

(* The letters X and Y of a -newerXY word. *)
NewerLetters == ("-newermt" :> <<"m", "t">>) @@ ("-newerBm" :> <<"B", "m">>)
                @@ ("-newertm" :> <<"t", "m">>)

VARIABLES
  input,               \* [words, posixly_correct, tty, birth, argless]
  result,              \* "parse", "ok", or the error that ended the parse
  arg,                 \* the index of the next word
  warnings,            \* options.warnings
  first_nonoption_arg, \* the index of the first non-option word, or 0
  warned,              \* <<option, first non-option>> of each warning issued
  dashed               \* the words warned about as dashed operators

vars == <<input, result, arg, warnings, first_nonoption_arg, warned, dashed>>

(* set_option_defaults (util.c) turns warnings on when standard input is *)
(* a terminal; parse_begin_user_args forgets any earlier non-option.     *)
Init ==
  /\ input \in [words : BoundedSeq(Words, MaxWords), posixly_correct : BOOLEAN,
                tty : BOOLEAN, birth : BOOLEAN, argless : BOOLEAN]
  /\ result = "parse" /\ arg = 1
  /\ warnings = input.tty
  /\ first_nonoption_arg = 0 /\ warned = {} /\ dashed = {}

Word == input.words[arg]
Parsing(types) == result = "parse" /\ arg <= Len(input.words) /\ EntryType[Word] \in types

ShouldIssueWarnings == ~input.posixly_correct /\ warnings

(* The last word is a primary that takes an argument, and has none. *)
TakesArg == {"-maxdepth", "-name"} \cup NewerWords
Missing == arg = Len(input.words) /\ input.argless /\ Word \in TakesArg

(* Mutant: every non-option word is remembered, not only the first. *)
RememberNonOptionLast == first_nonoption_arg' = arg

(* found_parser for a word that is neither an option nor a positional    *)
(* option: the first such word is remembered.                            *)
RememberNonOption ==
  first_nonoption_arg' = IF first_nonoption_arg = 0 THEN arg ELSE first_nonoption_arg

(* find_parser: no entry (return NULL at the end of find_parser), or   *)
(* -noop trapped by found_parser (return NULL): "unknown predicate".    *)
UnknownPredicate ==
  /\ Parsing({"none", "noop"})
  /\ result' = "unknown"
  /\ UNCHANGED <<input, arg, warnings, first_nonoption_arg, warned, dashed>>

(* found_parser for a global option: a warning naming the first         *)
(* non-option word, if there was one and warnings are on; then the parse *)
(* function, which fails without its argument ("missing").               *)
ParseOption ==
  /\ Parsing({"option"})
  /\ warned' = IF first_nonoption_arg # 0 /\ ShouldIssueWarnings
               THEN warned \cup {<<arg, first_nonoption_arg>>} ELSE warned
  /\ IF Missing THEN result' = "missing" /\ UNCHANGED arg
                 ELSE arg' = arg + 1 /\ UNCHANGED result
  /\ UNCHANGED <<input, warnings, first_nonoption_arg, dashed>>

(* parse_warn and parse_nowarn. *)
ParseWarn ==
  /\ Parsing({"posopt"})
  /\ warnings' = (Word = "-warn")
  /\ arg' = arg + 1
  /\ UNCHANGED <<input, result, first_nonoption_arg, warned, dashed>>

(* A test or an operator.  find_parser warns, whatever options.warnings, *)
(* about '!', ',', '(' and ')' written with a leading dash.              *)
ParseNonOption ==
  /\ Parsing({"test", "punct"})
  /\ RememberNonOption
  /\ dashed' = IF Word = "-(" THEN dashed \cup {arg} ELSE dashed
  /\ IF Missing THEN result' = "missing" /\ UNCHANGED arg
                 ELSE arg' = arg + 1 /\ UNCHANGED result
  /\ UNCHANGED <<input, warnings, warned>>

(* Mutant: -newertY is not singled out. *)
ParseNewerXYAnyX ==
  /\ Parsing({"special"})
  /\ RememberNonOption
  /\ LET x == NewerLetters[Word][1]
         y == NewerLetters[Word][2] IN
     \E resolves \in BOOLEAN :
       CASE ~input.birth /\ "B" \in {x, y} -> result' = "invalid" /\ UNCHANGED arg
         [] Missing -> result' = "fatal" /\ UNCHANGED arg
         [] ~resolves -> result' = "fatal" /\ UNCHANGED arg
         [] OTHER -> arg' = arg + 1 /\ UNCHANGED result
  /\ UNCHANGED <<input, warnings, warned, dashed>>

(* parse_newerXY after found_parser remembered the word.  Without a      *)
(* birth time in struct stat, B is refused; so are X = t and letters     *)
(* outside "aBcmt": the parse function fails ("invalid").  A missing     *)
(* argument is fatal; so are a date parse_datetime cannot read, a file   *)
(* options.xstat cannot stat, and a birth time get_stat_Ytime cannot     *)
(* obtain.                                                               *)
ParseNewerXY ==
  /\ Parsing({"special"})
  /\ RememberNonOption
  /\ LET x == NewerLetters[Word][1]
         y == NewerLetters[Word][2] IN
     \E resolves \in BOOLEAN :
       CASE ~input.birth /\ "B" \in {x, y} -> result' = "invalid" /\ UNCHANGED arg
         [] x = "t" -> result' = "invalid" /\ UNCHANGED arg
         [] Missing -> result' = "fatal" /\ UNCHANGED arg
         [] ~resolves -> result' = "fatal" /\ UNCHANGED arg
         [] OTHER -> arg' = arg + 1 /\ UNCHANGED result
  /\ UNCHANGED <<input, warnings, warned, dashed>>

(* Every word parsed. *)
Finish ==
  /\ result = "parse" /\ arg > Len(input.words)
  /\ result' = "ok"
  /\ UNCHANGED <<input, arg, warnings, first_nonoption_arg, warned, dashed>>

Next == UnknownPredicate \/ ParseOption \/ ParseWarn \/ ParseNonOption \/ ParseNewerXY
        \/ Finish

Spec == Init /\ [][Next]_vars

-----------------------------------------------------------------------------
Results == {"parse", "ok", "unknown", "missing", "invalid", "fatal"}

StateOK ==
  /\ result \in Results /\ arg \in 1..(Len(input.words) + 1)
  /\ warnings \in BOOLEAN /\ first_nonoption_arg \in 0..Len(input.words)
  /\ warned \subseteq (1..Len(input.words)) \X (1..Len(input.words))
  /\ dashed \subseteq 1..Len(input.words)

TypeOK == input.words \in BoundedSeq(Words, MaxWords) /\ StateOK

W(k) == input.words[k]

(* The words find_parser has looked up: all before arg, and the word     *)
(* that ended the parse with an error.                                   *)
LookedUp == IF result \in {"parse", "ok"} THEN 1..(arg - 1) ELSE 1..arg

NonOption(k) == EntryType[W(k)] \in {"test", "punct", "special"}

(* Warnings are on at word k: no POSIXLY_CORRECT, and the last -warn or  *)
(* -nowarn before it, or a terminal on standard input if there is none.  *)
WarningsOnAt(k) ==
  LET ps == {j \in 1..(k - 1) : EntryType[W(j)] = "posopt"} IN
  /\ ~input.posixly_correct
  /\ IF ps = {} THEN input.tty ELSE W(Max(ps)) = "-warn"

(* Spec 4.D: a global option after a test draws a warning, and -warn and *)
(* -nowarn, being positional, decide it for the words after them only.   *)
(* found_parser counts every word that is not an option (a test, an      *)
(* operator such as '(', or -newerXY; not -warn) and names the first one *)
(* in the warning, whatever came between; find_parser warns about a      *)
(* dashed '(' even under -nowarn or POSIXLY_CORRECT.                      *)
WarningsAsSpecified ==
  /\ warned = {<<k, Min({j \in 1..(k - 1) : NonOption(j)})>> :
                k \in {k \in LookedUp : /\ EntryType[W(k)] = "option"
                                       /\ WarningsOnAt(k)
                                       /\ \E j \in 1..(k - 1) : NonOption(j)}}
  /\ dashed = {k \in LookedUp : W(k) = "-("}

(* The manual's -newerXY: X is one of a, B, c, m; Y one of a, B, c, m, t; *)
(* B only where the system records birth times.                           *)
NewerValid(w) ==
  LET x == NewerLetters[w][1]
      y == NewerLetters[w][2] IN
  /\ x \in {"a", "B", "c", "m"} /\ y \in {"a", "B", "c", "m", "t"}
  /\ input.birth \/ "B" \notin {x, y}

(* The expression is accepted only if every word names a primary (the    *)
(* internal -noop is refused), every -newerXY word is valid, and the last *)
(* primary has its argument; a parse function fails ("invalid") only on   *)
(* an invalid -newerXY word, and an error stops at the first bad word.    *)
ExpressionAcceptedAsDocumented ==
  /\ result = "ok" =>
       /\ \A k \in DOMAIN input.words :
            /\ EntryType[W(k)] \notin {"none", "noop"}
            /\ W(k) \in NewerWords => NewerValid(W(k))
       /\ ~(input.argless /\ Len(input.words) > 0 /\ W(Len(input.words)) \in TakesArg)
  /\ result = "invalid" => W(arg) \in NewerWords /\ ~NewerValid(W(arg))
=============================================================================
