------------------------------ MODULE FtsFind ------------------------------
(***************************************************************************)
(* The traversal driver of find (src/find/ftsfind.c) for one starting      *)
(* point: the loop of find() around fts_read, consider_visiting, visit,    *)
(* left_dir/inside_dir, and the -execdir batches that the loop flushes on  *)
(* every change of level, followed by the cleanup that main() runs.        *)
(*                                                                         *)
(* The expression evaluator (apply_predicate) is not in src/; it is a      *)
(* nondeterministic choice of its two effects the driver reacts to: a      *)
(* -prune that sets state.stop_at_current_level, and a "-execdir ... {} +" *)
(* that appends the entry to the pending batch.                           *)
(***************************************************************************)
EXTENDS FtsWalk, Integers, SequencesExt

CONSTANTS
  MaxDepthChoices,   \* values tried for -maxdepth (-1: not given)
  MinDepthChoices,   \* values tried for -mindepth
  PruneUsed,         \* the expression contains -prune
  ExecdirUsed,       \* the expression contains -execdir ... {} +
  MaxArgs            \* arguments one command line of a batch holds

ASSUME MaxDepthChoices \subseteq Int /\ MinDepthChoices \subseteq Nat
ASSUME PruneUsed \in BOOLEAN /\ ExecdirUsed \in BOOLEAN /\ MaxArgs \in Nat \ {0}

VARIABLES
  phase,        \* "read": about to call fts_read; "consider": ent is being
                \* processed; "cleanup": fts_read returned NULL; "done"
  options,      \* maxdepth, mindepth, do_dir_first, ignore_readdir_race
  prev_depth,   \* static prev_depth of ftsfind.c
  level,        \* local level of find(): the level of the previous entry
  curr_fd,      \* static curr_fd: "closed" (-1), "AT_FDCWD" or a dup of d
  cwd_dir_fd,   \* state.cwd_dir_fd
  dupsOpen,     \* dup_cloexec calls made minus close calls made
  exit_failure, \* state.exit_status = EXIT_FAILURE
  stop_at_current_level,
  execdirs_outstanding,
  pending,      \* arguments of the -execdir batch being built
  batchDir,     \* directory recorded for the batch (record_exec_dir)
  executed,     \* history: batches run, [dir, args], in order
  pushed,       \* history: every argument appended, in order
  evaluated,    \* history: entries the expression was applied to
  pruned,       \* history: directories on which -prune took effect
  met           \* history: entries fts_read returned

findVars == <<phase, options, prev_depth, level, curr_fd, cwd_dir_fd, dupsOpen,
              exit_failure, stop_at_current_level, execdirs_outstanding>>
batchVars == <<pending, batchDir, executed, pushed>>
histVars == <<evaluated, pruned, met>>
vars == <<ftsVars, findVars, batchVars, histVars>>

NoDepth == -1   \* INT_MIN: below every level fts reports

Options ==
  [maxdepth : MaxDepthChoices, mindepth : MinDepthChoices,
   do_dir_first : BOOLEAN, ignore_readdir_race : BOOLEAN]

Level(e) == Depth(e.node)

(* complete_pending_execdirs: run the pending batch, if any, in the     *)
(* directory recorded for it.                                           *)
RunBatch(exec, pend) ==
  IF pend = <<>> THEN exec ELSE Append(exec, [dir |-> batchDir, args |-> pend])

(* Mutant: close whatever curr_fd holds, AT_FDCWD included. *)
LeftDirFdClosesAny(fd) == IF fd = "closed" THEN fd ELSE "closed"

(* left_dir: close the duplicated descriptor, if one is held. *)
LeftDirFd(fd) == IF fd \in {"closed", "AT_FDCWD"} THEN fd ELSE "closed"

(* Mutant: test curr_fd == -1 instead of curr_fd < 0 (AT_FDCWD kept). *)
InsideDirFdOnlyClosed(fd, dirFd) == IF fd = "closed" THEN dirFd ELSE fd

(* inside_dir(dir_fd): duplicate dir_fd unless a descriptor is held. *)
InsideDirFd(fd, dirFd) == IF fd \in {"closed", "AT_FDCWD"} THEN dirFd ELSE fd
DupMade(fd, dirFd) == fd \in {"closed", "AT_FDCWD"} /\ dirFd # "AT_FDCWD"

(* symlink_loop(ent->fts_accpath): a fresh stat fails with ELOOP. *)
SymlinkLoop(e) == fault[e.node] \in {"ns_loop", "slnone_loop"}

Race(e) == IsENOENT(e) /\ options.ignore_readdir_race

(* The error branches of consider_visiting: a diagnostic that sets the  *)
(* exit status (ReportsError) and an early return (ReturnsEarly).       *)
(* Mutant: the race exemption of FTS_NS also covers a starting point. *)
ReportsErrorRaceAtRoot(e) ==
  CASE e.info \in {"ERR", "DC"} -> TRUE
    [] e.info = "DNR"           -> ~Race(e)
    [] e.info = "SLNONE"        -> SymlinkLoop(e)
    [] e.info = "NS"            -> SymlinkLoop(e) \/ ~Race(e)
    [] OTHER                    -> FALSE

ReportsError(e) ==
  CASE e.info \in {"ERR", "DC"} -> TRUE
    [] e.info = "DNR"           -> ~Race(e)
    [] e.info = "SLNONE"        -> SymlinkLoop(e)
    [] e.info = "NS"            -> Level(e) = 0 \/ SymlinkLoop(e) \/ ~Race(e)
    [] OTHER                    -> FALSE

ReturnsEarly(e) ==
  CASE e.info \in {"ERR", "DC"} -> TRUE
    [] e.info = "DNR"           -> Race(e) \/ options.do_dir_first
    [] e.info = "SLNONE"        -> SymlinkLoop(e)
    [] e.info = "NS"            -> Level(e) = 0 \/ SymlinkLoop(e) \/ Race(e)
    [] OTHER                    -> FALSE

(* isdir: S_ISDIR of the mode fts or the directory entry gave, or a     *)
(* directory fts_info.  A failed stat leaves mode 0.                     *)
IsDir(e) == (e.node \in Dir /\ e.info # "NS") \/ e.info \in {"D", "DP", "DC"}

(* Mutant: the post-order report is not ignored without -depth. *)
IgnoredKeepsDP(e) ==
  \/ options.maxdepth >= 0 /\ Level(e) > options.maxdepth
  \/ e.info = "D" /\ ~options.do_dir_first
  \/ Level(e) < options.mindepth

Ignored(e) ==
  \/ options.maxdepth >= 0 /\ Level(e) > options.maxdepth
  \/ e.info = "D" /\ ~options.do_dir_first
  \/ e.info = "DP" /\ options.do_dir_first
  \/ Level(e) < options.mindepth

(* impl_pred_exec for -execdir ... {} +: record the directory when the  *)
(* batch is empty, append the base name (running a full batch first).   *)
PushExecdir(e, pend, exec) ==
  LET full == Len(pend) = MaxArgs IN
  /\ batchDir' = IF pend = <<>> THEN CwdFd(e) ELSE batchDir
  /\ executed' = IF full THEN RunBatch(exec, pend) ELSE exec
  /\ pending' = Append(IF full THEN <<>> ELSE pend, e.node)
  /\ pushed' = Append(pushed, e.node)
  /\ execdirs_outstanding' = TRUE

(* Mutant: flush the -execdir batches only when the walk goes deeper. *)
FlushOnDescent(e) == execdirs_outstanding /\ Level(e) > level

(* find(): a batch outstanding and the level changed since the previous *)
(* entry: complete_pending_execdirs before the entry is considered.    *)
FlushDue(e) == execdirs_outstanding /\ Level(e) # level

(* Mutant: FTS_AGAIN for every directory, stat'ed or not. *)
NeedsRestatAny(e) == ~ReturnsEarly(e) /\ IsDir(e)

(* A directory fts did not stat (FTS_NSOK) is asked for again. *)
NeedsRestat(e) == ~ReturnsEarly(e) /\ IsDir(e) /\ e.info = "NSOK"

(* Mutant: -maxdepth N descends into directories at depth N. *)
SkipAtMaxdepthLate(e) == options.maxdepth >= 0 /\ Level(e) > options.maxdepth

(* fts_set(FTS_SKIP) when the entry is at -maxdepth. *)
SkipAtMaxdepth(e) == options.maxdepth >= 0 /\ Level(e) >= options.maxdepth

(* Mutant: the flag is never reset at FTS_DP. *)
NextStopNoReset(e, stop, prune) ==
  IF ReturnsEarly(e) \/ NeedsRestat(e) THEN stop ELSE stop \/ prune

(* state.stop_at_current_level after the entry: set by -prune in visit, *)
(* reset when the directory is left (FTS_DP).                            *)
NextStop(e, stop, prune) ==
  IF ReturnsEarly(e) \/ NeedsRestat(e) THEN stop
  ELSE IF e.info = "DP" THEN FALSE
  ELSE stop \/ prune

(* consider_visiting calls visit, which evaluates the expression, unless *)
(* it returned early, asked for the entry again, or ignores it.          *)
Visits(e) == ~ReturnsEarly(e) /\ ~NeedsRestat(e) /\ ~Ignored(e)

FtsReadStep ==
  /\ phase = "read"
  /\ FtsRead
  /\ phase' = IF ent' = NoEnt THEN "cleanup" ELSE "consider"
  /\ met' = IF ent' = NoEnt THEN met ELSE met \cup {ent'}
  /\ UNCHANGED <<options, prev_depth, level, curr_fd, cwd_dir_fd, dupsOpen,
                 exit_failure, stop_at_current_level, execdirs_outstanding,
                 batchVars, evaluated, pruned>>

(* One iteration of the loop of find() (the flush of -execdir batches on *)
(* a change of level) and consider_visiting, with visit, on ent.         *)
ConsiderVisiting ==
  /\ phase = "consider"
  /\ LET e        == ent
         flush    == FlushDue(e)
         pend1    == IF flush THEN <<>> ELSE pending
         exec1    == IF flush THEN RunBatch(executed, pending) ELSE executed
         out1     == execdirs_outstanding /\ ~flush
         leave    == e.info = "DP" \/ Level(e) > prev_depth \/ Level(e) = 0
         fd1      == IF leave THEN LeftDirFd(curr_fd) ELSE curr_fd
         visitNow == Visits(e)
     IN
     /\ level' = Level(e)
     /\ prev_depth' = Level(e)
     /\ curr_fd' = InsideDirFd(fd1, CwdFd(e))
     /\ cwd_dir_fd' = CwdFd(e)
     /\ dupsOpen' = dupsOpen - (IF fd1 # curr_fd THEN 1 ELSE 0)
                             + (IF DupMade(fd1, CwdFd(e)) THEN 1 ELSE 0)
     /\ exit_failure' = (exit_failure \/ ReportsError(e))
     /\ \E prune \in BOOLEAN, push \in BOOLEAN :
          /\ prune => /\ visitNow /\ PruneUsed /\ options.do_dir_first
                      /\ e.node \in Dir /\ e.info # "NS"
          /\ push => visitNow /\ ExecdirUsed
          /\ FtsSet(CASE NeedsRestat(e) -> "again"
                       [] ~ReturnsEarly(e) /\ (SkipAtMaxdepth(e) \/
                            (visitNow /\ (stop_at_current_level \/ prune))) -> "skip"
                       [] OTHER -> "none")
          /\ stop_at_current_level' = NextStop(e, stop_at_current_level, prune)
          /\ evaluated' = IF visitNow THEN Append(evaluated, e) ELSE evaluated
          /\ pruned' = IF prune THEN pruned \cup {e.node} ELSE pruned
          /\ IF push
             THEN PushExecdir(e, pend1, exec1)
             ELSE /\ pending' = pend1 /\ executed' = exec1
                  /\ execdirs_outstanding' = out1
                  /\ UNCHANGED <<batchDir, pushed>>
  /\ phase' = "read"
  /\ UNCHANGED <<ent, stack, todo, fault, options, met>>

(* Mutant: main() leaves without running cleanup(). *)
CleanupSkipped ==
  /\ phase = "cleanup"
  /\ phase' = "done"
  /\ UNCHANGED <<ftsVars, options, prev_depth, level, curr_fd, cwd_dir_fd,
                 dupsOpen, exit_failure, stop_at_current_level,
                 execdirs_outstanding, batchVars, histVars>>

(* main(): process_all_startpoints returned true, so cleanup() runs the *)
(* batches still pending.                                                *)
Cleanup ==
  /\ phase = "cleanup"
  /\ executed' = RunBatch(executed, pending)
  /\ pending' = <<>>
  /\ execdirs_outstanding' = FALSE
  /\ phase' = "done"
  /\ UNCHANGED <<ftsVars, options, prev_depth, level, curr_fd, cwd_dir_fd,
                 dupsOpen, exit_failure, stop_at_current_level, batchDir,
                 pushed, histVars>>

Init ==
  /\ FtsOpen
  /\ phase = "read"
  /\ options \in Options
  /\ prev_depth = NoDepth
  /\ level = NoDepth
  /\ curr_fd = "AT_FDCWD"      \* find() starts with inside_dir(AT_FDCWD)
  /\ cwd_dir_fd = "AT_FDCWD"
  /\ dupsOpen = 0
  /\ exit_failure = FALSE
  /\ stop_at_current_level = FALSE
  /\ execdirs_outstanding = FALSE
  /\ pending = <<>>
  /\ batchDir = "AT_FDCWD"
  /\ executed = <<>>
  /\ pushed = <<>>
  /\ evaluated = <<>>
  /\ pruned = {}
  /\ met = {}

Next == FtsReadStep \/ ConsiderVisiting \/ Cleanup

(* find runs on one thread: every step it can take, it takes. *)
Spec == Init /\ [][Next]_vars /\ WF_vars(Next)

-----------------------------------------------------------------------------
TypeOK ==
  /\ phase \in {"read", "consider", "cleanup", "done"}
  /\ options \in Options
  /\ ent \in [node : Node, info : {"none", "D", "DP", "F", "DNR", "ERR", "DC",
                                    "NS", "NSOK", "SLNONE"}]
  /\ instr \in {"none", "skip", "again"}
  /\ prev_depth \in Int /\ level \in Int
  /\ curr_fd \in {"closed", "AT_FDCWD"} \cup Dir
  /\ cwd_dir_fd \in {"AT_FDCWD"} \cup Dir
  /\ dupsOpen \in Nat
  /\ exit_failure \in BOOLEAN /\ stop_at_current_level \in BOOLEAN
  /\ pending \in Seq(Node) /\ pushed \in Seq(Node)
  /\ pruned \subseteq Dir

Evaluated == {evaluated[i].node : i \in DOMAIN evaluated}

(* The directory a file lives in, as a descriptor of find. *)
ContainingDir(n) == IF n = Root THEN "AT_FDCWD" ELSE Parent[n]

InDepthBounds(n) ==
  /\ options.maxdepth >= 0 => Depth(n) <= options.maxdepth
  /\ Depth(n) >= options.mindepth

(* A node the file system serves without a fault, nor any directory above. *)
Clean(n) == \A x \in {n} \cup Ancestors(n) : fault[x] \in {"ok", "nostat"}

(* Each file is evaluated at most once, and a directory before everything *)
(* under it by default, after everything under it with -depth: the D/DP,  *)
(* DNR and FTS_AGAIN reports of one directory never both reach visit().   *)
EvaluationOrder ==
  \A i, j \in DOMAIN evaluated :
    /\ i # j => evaluated[i].node # evaluated[j].node
    /\ evaluated[i].node \in Ancestors(evaluated[j].node)
         => (i < j <=> options.do_dir_first)

(* -maxdepth caps descent (fts never reports a file below it), -mindepth *)
(* keeps shallower files from evaluation, and nothing under a directory  *)
(* on which -prune took effect is evaluated: the fts_set(FTS_SKIP) calls *)
(* of consider_visiting and visit.                                       *)
DepthAndPruneRespected ==
  /\ \A m \in met : options.maxdepth >= 0 => Depth(m.node) <= options.maxdepth
  /\ \A n \in Evaluated : InDepthBounds(n) /\ Ancestors(n) \cap pruned = {}

(* When the walk is over, every fault-free file within the depth bounds  *)
(* and not under a pruned directory has been evaluated: no stale         *)
(* stop_at_current_level, no lost FTS_AGAIN, no skip too early.          *)
AllReachableEvaluated ==
  phase = "done" =>
    \A n \in Node :
      Clean(n) /\ InDepthBounds(n) /\ Ancestors(n) \cap pruned = {} => n \in Evaluated

(* The exit status is EXIT_FAILURE exactly when some file met had a     *)
(* problem: a cycle, an fts error, a symbolic link loop, a directory not *)
(* read or a file not stat'ed, except a file that vanished (ENOENT) under *)
(* -ignore_readdir_race: a directory anywhere, a non-directory below a   *)
(* starting point (a starting point named on the command line that is    *)
(* gone is always an error).  This is the stat/readdir race of           *)
(* ftsfind.c: the error status must neither be lost nor set by it.       *)
ExcusedVanish(m) ==
  /\ IsENOENT(m) /\ options.ignore_readdir_race
  /\ (m.info = "DNR" \/ Level(m) > 0)
Problem(m) ==
  \/ m.info \in {"DC", "ERR"}
  \/ SymlinkLoop(m)
  \/ m.info \in {"DNR", "NS"} /\ ~ExcusedVanish(m)
ExitStatusReflectsErrors ==
  phase = "done" => (exit_failure <=> \E m \in met : Problem(m))

(* Whenever an entry is processed, curr_fd is a duplicate of the         *)
(* directory fts works in (or AT_FDCWD at the top), and it is the only   *)
(* descriptor find has duplicated and not closed.                        *)
CurrFdTracksCwd ==
  /\ phase = "read" /\ ent # NoEnt => curr_fd = CwdFd(ent)
  /\ dupsOpen = IF curr_fd \in Dir THEN 1 ELSE 0

ExecutedArgs == FlattenSeq([k \in DOMAIN executed |-> executed[k].args])

(* Every -execdir batch runs in the directory of all its arguments, and  *)
(* the batches run so far followed by the pending one are exactly the    *)
(* arguments appended, in order.                                        *)
ExecdirBatchesSound ==
  /\ \A k \in DOMAIN executed :
       \A i \in DOMAIN executed[k].args :
         ContainingDir(executed[k].args[i]) = executed[k].dir
  /\ ExecutedArgs \o pending = pushed

(* Spec section 8, scenario 2: with "find -L a -print" and a/loop -> a, *)
(* stdout lists a and a/loop.  That is, an entry fts reports as a cycle *)
(* (FTS_DC) within the depth bounds is evaluated like any other file.   *)
CycleEntryEvaluated ==
  phase = "done" =>
    \A m \in met : m.info = "DC" /\ InDepthBounds(m.node) => m.node \in Evaluated

(* find terminates, and every argument appended to an -execdir batch has *)
(* run by then.                                                          *)
Termination == <>(phase = "done")
AllExecdirsRun == <>[](phase = "done" /\ ExecutedArgs = pushed)
=============================================================================
