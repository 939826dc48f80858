------------------------------ MODULE FindMain ------------------------------
(***************************************************************************)
(* main() and process_all_startpoints() of src/find/ftsfind.c: the loop   *)
(* over the starting points (from the command line or -files0-from), the  *)
(* find() call for each, and the cleanup() that runs the "-exec ... {} +" *)
(* command lines still being built when the walk is over.                 *)
(*                                                                         *)
(* A starting point is a token: "name", "empty" (a zero-length name),     *)
(* "expr" (the first word of the expression, argv only) or "readerr" (the *)
(* stream of -files0-from fails, AI_ERR_READ).  find() is abstracted to   *)
(* how it ends and to whether the walk appended anything to the batch;    *)
(* FtsFind models one find() in detail.  The batch (buildcmd, not in src) *)
(* runs a command line when MaxArgs arguments are pending.                *)
(***************************************************************************)
EXTENDS Naturals, SequencesExt

CONSTANTS
  MaxStarts,      \* longest list of starting points tried
  Files0Choices,  \* values tried for "-files0-from was given"
  FindOutcomes,   \* how a find() may end (see Find)
  MaxArgs         \* arguments one command line of the batch holds

ASSUME MaxStarts \in Nat /\ Files0Choices \subseteq BOOLEAN /\ MaxArgs \in Nat \ {0}
ASSUME FindOutcomes \subseteq {"ok", "open_fail", "read_fail", "close_fail"}

VARIABLES
  files0,       \* options.files0_from # NULL
  args,         \* the starting-point tokens, in order
  idx,          \* position of argv_iter in args
  ok,           \* the local ok of process_all_startpoints
  phase,        \* "startpoints", "main" (the loop is over), "done", "fatal"
  exit_failure, \* state.exit_status = EXIT_FAILURE
  pending,      \* arguments of the "-exec ... {} +" command line being built
  executed,     \* history: command lines run, in order
  pushed,       \* history: arguments appended, in order
  searched,     \* history: starting points handed to find() (0 is ".")
  aborted       \* history: a find() returned false

vars == <<files0, args, idx, ok, phase, exit_failure, pending, executed, pushed,
          searched, aborted>>

Final == {"done", "fatal"}

ArgvTokens == {"name", "empty", "expr"}
Files0Tokens == {"name", "empty", "readerr"}

(* looks_like_expression on argv[0]: did the command line name starting  *)
(* points at all?  Otherwise find(".") is the whole search.              *)
ArgvStartingPoints == args # <<>> /\ args[1] # "expr"

(* Mutant: the command line is run only once it is over-full. *)
PushArgLate(a) ==
  /\ executed' = IF Len(pending) > MaxArgs THEN Append(executed, pending) ELSE executed
  /\ pending' = Append(IF Len(pending) > MaxArgs THEN <<>> ELSE pending, a)
  /\ pushed' = Append(pushed, a)

(* bc_push_arg for "-exec ... {} +": run the full command line first. *)
PushArg(a) ==
  /\ executed' = IF Len(pending) = MaxArgs THEN Append(executed, pending) ELSE executed
  /\ pending' = Append(IF Len(pending) = MaxArgs THEN <<>> ELSE pending, a)
  /\ pushed' = Append(pushed, a)

(* find(arg): fts_open may fail ("cannot search", true), fts_read may end *)
(* with errno set or fts_close may fail (false: the working directory    *)
(* may not be restored).  Every failure sets EXIT_FAILURE.  A search that *)
(* opened may have matched files and appended them to the batch.          *)
Find(a, out, hit) ==
  /\ searched' = Append(searched, a)
  /\ exit_failure' = (exit_failure \/ out # "ok")
  /\ IF hit THEN PushArg(a) ELSE UNCHANGED <<pending, executed, pushed>>
  /\ aborted' = (aborted \/ out \in {"read_fail", "close_fail"})

FindReturns(out) == out \in {"ok", "open_fail"}

(* No starting point on the command line: return find("."). *)
DefaultStartPoint ==
  /\ phase = "startpoints" /\ ~files0 /\ ~ArgvStartingPoints
  /\ \E out \in FindOutcomes, hit \in BOOLEAN :
       /\ hit => out # "open_fail"
       /\ Find(0, out, hit)
       /\ ok' = FindReturns(out)
  /\ phase' = "main"
  /\ UNCHANGED <<files0, args, idx>>

InLoop == phase = "startpoints" /\ (files0 \/ ArgvStartingPoints)

(* argv_iter returns NULL with AI_ERR_EOF. *)
EndOfStartPoints ==
  /\ InLoop /\ idx > Len(args)
  /\ phase' = "main"
  /\ UNCHANGED <<files0, args, idx, ok, exit_failure, pending, executed, pushed,
                 searched, aborted>>

(* argv_iter returns NULL with AI_ERR_READ. *)
ReadError ==
  /\ InLoop /\ idx <= Len(args) /\ args[idx] = "readerr"
  /\ exit_failure' = TRUE
  /\ ok' = FALSE
  /\ phase' = "main"
  /\ UNCHANGED <<files0, args, idx, pending, executed, pushed, searched, aborted>>

(* Mutant: a zero-length name ends the list of starting points. *)
EmptyNameStops ==
  /\ InLoop /\ idx <= Len(args) /\ args[idx] = "empty"
  /\ exit_failure' = TRUE
  /\ ok' = FALSE
  /\ phase' = "main"
  /\ UNCHANGED <<files0, args, idx, pending, executed, pushed, searched, aborted>>

(* Mutant: a zero-length name is diagnosed without EXIT_FAILURE. *)
EmptyNameSilent ==
  /\ InLoop /\ idx <= Len(args) /\ args[idx] = "empty"
  /\ ok' = FALSE
  /\ idx' = idx + 1
  /\ UNCHANGED <<files0, args, phase, exit_failure, pending, executed, pushed,
                 searched, aborted>>

(* A zero-length name is diagnosed, sets EXIT_FAILURE and ok = false,  *)
(* and the loop continues with the next name.                          *)
EmptyName ==
  /\ InLoop /\ idx <= Len(args) /\ args[idx] = "empty"
  /\ exit_failure' = TRUE
  /\ ok' = FALSE
  /\ idx' = idx + 1
  /\ UNCHANGED <<files0, args, phase, pending, executed, pushed, searched, aborted>>

(* On the command line, the first word of the expression ends the list. *)
ExpressionReached ==
  /\ InLoop /\ ~files0 /\ idx <= Len(args) /\ args[idx] = "expr"
  /\ phase' = "main"
  /\ UNCHANGED <<files0, args, idx, ok, exit_failure, pending, executed, pushed,
                 searched, aborted>>

(* find(file_name); a false return ends the loop with ok = false. *)
SearchStartPoint ==
  /\ InLoop /\ idx <= Len(args) /\ args[idx] = "name"
  /\ \E out \in FindOutcomes, hit \in BOOLEAN :
       /\ hit => out # "open_fail"
       /\ Find(idx, out, hit)
       /\ IF FindReturns(out)
          THEN idx' = idx + 1 /\ UNCHANGED <<ok, phase>>
          ELSE ok' = FALSE /\ phase' = "main" /\ UNCHANGED idx
  /\ UNCHANGED <<files0, args>>

(* With ok and -files0-from, a stream error (ferror or fclose) is fatal: *)
(* error (EXIT_FAILURE, ...) exits at once.                               *)
StreamError ==
  /\ phase = "main" /\ ok /\ files0
  /\ phase' = "fatal"
  /\ exit_failure' = TRUE
  /\ UNCHANGED <<files0, args, idx, ok, pending, executed, pushed, searched, aborted>>

(* main(): cleanup() runs the pending command line only when           *)
(* process_all_startpoints returned true.                              *)
MainEnd ==
  /\ phase = "main"
  /\ IF ok
     THEN /\ executed' = IF pending = <<>> THEN executed ELSE Append(executed, pending)
          /\ pending' = <<>>
     ELSE UNCHANGED <<executed, pending>>
  /\ phase' = "done"
  /\ UNCHANGED <<files0, args, idx, ok, exit_failure, pushed, searched, aborted>>

Init ==
  /\ files0 \in Files0Choices
  /\ args \in BoundedSeq(IF files0 THEN Files0Tokens ELSE ArgvTokens, MaxStarts)
  /\ idx = 1
  /\ ok = TRUE
  /\ phase = "startpoints"
  /\ exit_failure = FALSE
  /\ pending = <<>>
  /\ executed = <<>>
  /\ pushed = <<>>
  /\ searched = <<>>
  /\ aborted = FALSE

Next ==
  \/ DefaultStartPoint \/ EndOfStartPoints \/ ReadError \/ EmptyName
  \/ ExpressionReached \/ SearchStartPoint \/ StreamError \/ MainEnd

Spec == Init /\ [][Next]_vars

-----------------------------------------------------------------------------
TypeOK ==
  /\ files0 \in BOOLEAN /\ ok \in BOOLEAN /\ exit_failure \in BOOLEAN
  /\ args \in Seq(ArgvTokens \cup Files0Tokens)
  /\ idx \in 1..(Len(args) + 1)
  /\ phase \in {"startpoints", "main"} \cup Final
  /\ pending \in Seq(0..MaxStarts) /\ Len(pending) <= MaxArgs
  /\ pushed \in Seq(0..MaxStarts) /\ searched \in Seq(0..MaxStarts)

ExecutedArgs == FlattenSeq(executed)

(* The positions of the names before the first token that ends the list. *)
Names ==
  IF ~files0 /\ ~ArgvStartingPoints THEN <<0>>
  ELSE LET ends == {i \in DOMAIN args : args[i] \in {"expr", "readerr"}}
           stop == IF ends = {} THEN Len(args) + 1 ELSE Min(ends)
       IN  SetToSortSeq({i \in 1..(stop - 1) : args[i] = "name"}, <)

(* Every starting point before the expression (or the read error) is    *)
(* searched, in order, past any zero-length name; only a find() that    *)
(* could not restore the working directory ends the list early.         *)
EveryStartPointSearched ==
  phase \in Final =>
    /\ IsPrefix(searched, Names)
    /\ searched # Names => aborted

(* Arguments appended to "-exec ... {} +" are never dropped silently:    *)
(* when find ends with some of them not run, its exit status is failure. *)
BatchLostOnlyWithFailure ==
  phase \in Final /\ ExecutedArgs # pushed => exit_failure

(* Spec sections 4.H and 6: at program end all pending batches are run,  *)
(* and an empty starting-point name does not end processing.  With every *)
(* find() succeeding, nothing should be left unrun at the end.           *)
FlushedAtProgramEnd ==
  phase = "done" /\ ~aborted => ExecutedArgs = pushed
=============================================================================
