------------------------------ MODULE ParseArgs -----------------------------
(***************************************************************************)
(* The parse functions that convert the argument words of one primary,   *)
(* composed under the dispatch of the parser table: find_parser names the *)
(* primary, and the primary's parse function converts what follows it.   *)
(* Each parse function is a component module used through INSTANCE; they *)
(* share the parser's variables (the words, the result, and the global   *)
(* options -exec and -ok change).  The options that change global        *)
(* settings are parsed as a sequence of words (OptionOrder), the         *)
(* sequence in which those words take effect.  print_quoted, the one    *)
(* conversion of a string on the way out, joins them: like a parse       *)
(* function it is a function of its input, checked over every input.     *)
(***************************************************************************)
EXTENDS Naturals, Sequences

CONSTANTS
  \* TimeArgs
  Width, DaySecs, MinSecs, Quantum, NsPerSec, FracLimit, Nums, DayStarts, Builds,
  \* NumArgs
  Primaries, Alphabet, ArgLen, UMax, IntMax, Unsupported, UidMax, Passwd,
  \* ExecArgs
  ArgvLen, PathLen, Funcs,
  \* OptionOrder
  MaxTokens,
  \* PrintQuoted
  BufSize, NameLen, Styles,
  \* PermArgs
  PermAlphabet, PermArgLen,
  \* SameFile
  MaxRenames,
  \* FindParser, DayStart
  MaxWords,
  \* DayStart
  StartTimes, Zones

VARIABLES
  parser,              \* the parse function the table chose for the primary
  input,               \* the primary's argument words, in its parser's terms
  result,              \* what the parse function made of them
  ok_prompt_stdin,     \* options.ok_prompt_stdin
  ignore_readdir_race, \* options.ignore_readdir_race
  \* the other variables of OptionOrder
  tokens, argv_starting_points, idx, do_dir_first, explicit_depth, files0_from,
  seen_delete, seen_prune, phase,
  \* the other variables of SameFile
  name, pc, st, fd, resolved, renames,
  \* the other variables of FindParser
  arg, warnings, first_nonoption_arg, warned, dashed,
  \* the other variables of DayStart
  pos, cur_day_start, full_days

optionVars == <<tokens, argv_starting_points, idx, do_dir_first, explicit_depth,
                files0_from, seen_delete, seen_prune, phase>>

sameFileVars == <<name, pc, st, fd, resolved, renames>>

dispatchVars == <<arg, warnings, first_nonoption_arg, warned, dashed>>

dayStartVars == <<pos, cur_day_start, full_days>>

vars == <<parser, input, result, ok_prompt_stdin, ignore_readdir_race, optionVars,
          sameFileVars, dispatchVars, dayStartVars>>

T == INSTANCE TimeArgs
N == INSTANCE NumArgs
E == INSTANCE ExecArgs
O == INSTANCE OptionOrder
Q == INSTANCE PrintQuoted
P == INSTANCE PermArgs WITH Alphabet <- PermAlphabet, ArgLen <- PermArgLen
S == INSTANCE SameFile
D == INSTANCE FindParser
Y == INSTANCE DayStart

Parsers == {"time", "number", "perm", "exec", "options", "quote", "samefile",
            "dispatch", "daystart"}

(* The option words are not parsed when one primary's argument is. *)
NoOptionWords ==
  /\ tokens = <<>> /\ argv_starting_points = FALSE /\ idx = 1
  /\ do_dir_first = TRUE /\ explicit_depth = FALSE /\ files0_from = "none"
  /\ seen_delete = FALSE /\ seen_prune = FALSE /\ phase = "parse"

(* No file is named to -samefile when another primary is parsed. *)
NoSameFile ==
  /\ name = "none" /\ pc = "done" /\ st = "none" /\ fd = "none"
  /\ resolved = {} /\ renames = 0

(* The words of the expression are not dispatched when one primary's    *)
(* argument is parsed.                                                    *)
NoDispatch ==
  /\ arg = 1 /\ warnings = FALSE /\ first_nonoption_arg = 0
  /\ warned = {} /\ dashed = {}

(* No -daystart or time test is parsed in order when another primary is. *)
NoDayStart == pos = 1 /\ cur_day_start = 0 /\ full_days = FALSE

(* Neither the option words nor -exec's options are touched. *)
Untouched ==
  /\ NoOptionWords /\ ok_prompt_stdin = FALSE /\ ignore_readdir_race = FALSE

(* Only -exec and the option words read or change the options. *)
Init ==
  \/ parser = "time" /\ T!Init /\ Untouched /\ NoSameFile /\ NoDispatch /\ NoDayStart
  \/ parser = "number" /\ N!Init /\ Untouched /\ NoSameFile /\ NoDispatch /\ NoDayStart
  \/ parser = "perm" /\ P!Init /\ Untouched /\ NoSameFile /\ NoDispatch /\ NoDayStart
  \/ parser = "exec" /\ E!Init /\ NoOptionWords /\ NoSameFile /\ NoDispatch /\ NoDayStart
  \/ parser = "options" /\ O!Init /\ input = "none" /\ result = "none" /\ NoSameFile
     /\ NoDispatch /\ NoDayStart
  \/ parser = "quote" /\ Q!Init /\ Untouched /\ NoSameFile /\ NoDispatch /\ NoDayStart
  \/ parser = "samefile" /\ S!Init /\ Untouched /\ NoDispatch /\ NoDayStart
  \/ parser = "dispatch" /\ D!Init /\ Untouched /\ NoSameFile /\ NoDayStart
  \/ parser = "daystart" /\ Y!Init /\ Untouched /\ NoSameFile /\ NoDispatch

(* parse_time, parse_amin/cmin/mmin. *)
ParseTime ==
  /\ parser = "time" /\ T!Parse
  /\ UNCHANGED <<parser, ok_prompt_stdin, ignore_readdir_race, optionVars, sameFileVars,
                 dispatchVars, dayStartVars>>

(* parse_links/parse_size/parse_type/parse_maxdepth/parse_user and the  *)
(* other typed arguments.                                                 *)
ParseNumber ==
  /\ parser = "number" /\ N!ParseArgument
  /\ UNCHANGED <<parser, ok_prompt_stdin, ignore_readdir_race, optionVars, sameFileVars,
                 dispatchVars, dayStartVars>>

(* parse_perm. *)
ParsePerm ==
  /\ parser = "perm" /\ P!ParseArgument
  /\ UNCHANGED <<parser, ok_prompt_stdin, ignore_readdir_race, optionVars, sameFileVars,
                 dispatchVars, dayStartVars>>

(* parse_exec, parse_execdir, parse_ok, parse_okdir. *)
ParseExec ==
  /\ parser = "exec" /\ E!ParseExecOk
  /\ UNCHANGED <<parser, optionVars, sameFileVars, dispatchVars, dayStartVars>>

(* The option words, the checks after parsing and those of              *)
(* process_all_startpoints.                                              *)
ParseOptions ==
  /\ parser = "options" /\ O!Next
  /\ UNCHANGED <<parser, input, result, sameFileVars, dispatchVars, dayStartVars>>

(* print_quoted on a file name. *)
PrintName ==
  /\ parser = "quote" /\ Q!PrintName
  /\ UNCHANGED <<parser, ok_prompt_stdin, ignore_readdir_race, optionVars, sameFileVars,
                 dispatchVars, dayStartVars>>

(* parse_samefile, one system call at a time, with renames over the name. *)
ParseSameFile ==
  /\ parser = "samefile" /\ S!Next
  /\ UNCHANGED <<parser, ok_prompt_stdin, ignore_readdir_race, optionVars, dispatchVars,
                 dayStartVars>>

(* find_parser and found_parser on each word of the expression, -warn    *)
(* and -nowarn, and parse_newerXY.                                        *)
ParseWords ==
  /\ parser = "dispatch" /\ D!Next
  /\ UNCHANGED <<parser, ok_prompt_stdin, ignore_readdir_race, optionVars, sameFileVars,
                 dayStartVars>>

(* parse_daystart, parse_time and do_parse_xmin, in the order of their   *)
(* words.                                                                 *)
ParseDayStart ==
  /\ parser = "daystart" /\ Y!Next
  /\ UNCHANGED <<parser, ok_prompt_stdin, ignore_readdir_race, optionVars, sameFileVars,
                 dispatchVars>>

Next == ParseTime \/ ParseNumber \/ ParsePerm \/ ParseExec \/ ParseOptions \/ PrintName
        \/ ParseSameFile \/ ParseWords \/ ParseDayStart

Spec == Init /\ [][Next]_vars

-----------------------------------------------------------------------------
(* The inputs are drawn from the components' Inputs by Init and never   *)
(* change, so the type invariant checks the options and the results.    *)
TypeOK ==
  /\ parser \in Parsers
  /\ ok_prompt_stdin \in BOOLEAN /\ ignore_readdir_race \in BOOLEAN
  /\ parser = "number" => N!ResultOK
  /\ parser = "perm" => P!ResultOK
  /\ parser = "exec" => E!ResultOK
  /\ parser = "options" => O!StateOK
  /\ parser = "quote" => Q!ResultOK
  /\ parser = "samefile" => S!TypeOK
  /\ parser # "options" => NoOptionWords
  /\ parser = "dispatch" => D!StateOK
  /\ parser # "samefile" => NoSameFile
  /\ parser # "dispatch" => NoDispatch
  /\ parser = "daystart" => Y!StateOK
  /\ parser # "daystart" => NoDayStart

(* The properties of the components, each on the primaries it is about;  *)
(* they are stated and explained in TimeArgs, NumArgs and ExecArgs.       *)

(* get_relative_timestamp: an in-range reference time is exact. *)
ReferenceTimeExact == parser = "time" => T!ReferenceTimeExact

(* get_relative_timestamp: no overflow is reported for a time that fits. *)
NoSpuriousOverflow == parser = "time" => T!NoSpuriousOverflow

(* insert_num/parse_size: well-formed numbers are read as spec 4.D says. *)
NumberAsSpecified == parser = "number" => N!NumberAsSpecified

(* insert_type: exactly the valid lists of type letters are accepted. *)
TypeListAsSpecified == parser = "number" => N!TypeListAsSpecified

(* parse_user: a known name is that user, before it is read as a number; *)
(* a decimal ID is accepted exactly when it fits in uid_t.                 *)
UserAsSpecified == parser = "number" => N!UserAsSpecified

(* insert_depthspec: exactly the decimal numbers that fit in an int are  *)
(* accepted as -maxdepth and -mindepth limits.                           *)
DepthAsSpecified == parser = "number" => N!DepthAsSpecified

(* parse_perm: exactly the valid modes are accepted, and the test then   *)
(* matches files and directories as the manual says.                     *)
PermAsDocumented == parser = "perm" => P!PermAsDocumented

(* insert_exec_ok: exactly the well-formed commands are accepted. *)
ExecRecipeAsSpecified == parser = "exec" => E!ExecRecipeAsSpecified

(* check_path_safety: exactly the unsafe $PATH values are fatal. *)
PathCheckAsSpecified == parser = "exec" => E!PathCheckAsSpecified

(* check_option_combinations and process_all_startpoints: exactly the   *)
(* conflicting combinations of options are rejected, in any order.       *)
OptionConflictsRejected == parser = "options" => O!OptionConflictsRejected

(* print_quoted: on a terminal the whole name is printed, quoted, with   *)
(* '?' for control characters, whatever its length against BUFSIZ.      *)
PrintedAsQuoted == parser = "quote" => Q!PrintedAsQuoted

(* print_quoted: the NUL after the quoted text stays inside the buffer. *)
WritesInBounds == parser = "quote" => Q!WritesInBounds

(* parse_samefile: the descriptor held is that of the file recorded. *)
HeldFileIsRecorded == parser = "samefile" => S!HeldFileIsRecorded

(* parse_samefile: the file recorded is one NAME denoted during the parse. *)
RecordedFileWasNamed == parser = "samefile" => S!RecordedFileWasNamed

(* found_parser: a global option after a non-option word is warned about *)
(* as -warn, -nowarn and POSIXLY_CORRECT say, naming the first such word.*)
WarningsAsSpecified == parser = "dispatch" => D!WarningsAsSpecified

(* find_parser/parse_newerXY: only expressions of known primaries and    *)
(* valid -newerXY words, each with its argument, are accepted.           *)
ExpressionAcceptedAsDocumented == parser = "dispatch" => D!ExpressionAcceptedAsDocumented

(* parse_daystart/parse_time/do_parse_xmin: a time test measures from a  *)
(* day before start_time, or, after any number of -daystart, from the    *)
(* beginning of today, shifted as its primary says.                       *)
TimeOriginsPositional == parser = "daystart" => Y!TimeOriginsPositional
=============================================================================
