# TLA+ models of findutils' `find` driver

This directory holds TLA+ specifications of the parts of `find` that are in
`src/`. They are checked with TLC. The parts are:

- the traversal driver `src/find/ftsfind.c`;
- the command-line parser `src/find/parser.c`;
- the file-system type lookup `src/find/fstype.c`;
- `src/lib/printquoted.c`, `src/lib/fdleak.h` and `src/find/finddata.c`.

Code the driver calls but that is not in `src/` is modelled from `spec.md` and
marked `spec_modelled` in `PROJECT.json`. That code is gnulib fts, the
expression evaluator, the exec batcher (buildcmd) and `util.c`'s `cleanup`.

## 1. The system

### Parts and how they interact

| part | source | state it keeps | operations |
|---|---|---|---|
| fts walker (gnulib) | not in src | the stack of entered directories, the children still to return, the `fts_set` instruction on the last entry | `fts_open`, `fts_read`, `fts_set(SKIP/AGAIN)`, `fts_close` |
| traversal driver | `ftsfind.c` 67-545 | `prev_depth`, `curr_fd` (a dup of `fts_cwd_fd`), `state.cwd_dir_fd`, `state.exit_status`, `state.stop_at_current_level`, `state.execdirs_outstanding`, the local `level` of `find()` | the `fts_read` loop of `find()`, `consider_visiting`, `visit`, `left_dir`/`inside_dir`, `symlink_loop` |
| start points / main | `ftsfind.c` 547-807 | `ok`, the argv or `-files0-from` iterator, `exit_status` | `process_all_startpoints`, `find()` per start point, `cleanup()` in `main()` |
| evaluator and exec batcher | not in src | the pending `-exec`/`-execdir ... {} +` argument list and its directory | `apply_predicate`; `-prune` sets `stop_at_current_level`; `-execdir +` appends and records the directory; `complete_pending_execdirs`; `cleanup` |
| parser | `parser.c` | `options` (depth bounds, `do_dir_first`, `ignore_readdir_race`, ...), the predicate list | one `parse_*` per primary; numeric, time, type and `-exec` argument scanners; `check_option_combinations` |
| file-system type | `fstype.c` | a one-entry cache: `current_fstype`, `current_dev`, `fstype_known` | `filesystem_type`, `filesystem_type_uncached` |
| quoting | `printquoted.c` | none (a stack or heap buffer per call) | `print_quoted` |
| fd leak check, globals | `fdleak.h`, `finddata.c` | none of their own | declarations, definitions |

The parts work together as follows.

- `main` parses the command line into `options` and an expression tree.
  `process_all_startpoints` then calls `find()` once for each starting point.
- `find()` opens fts and hands every entry to `consider_visiting`.
  - That function keeps `curr_fd` and `prev_depth` in step with fts.
  - It turns the error reports (FTS_ERR, DNR, DC, SLNONE, NS) into
    diagnostics and the exit status.
  - It asks fts to stat an FTS_NSOK directory again.
  - It applies `-maxdepth`, `-mindepth` and `-depth`.
  - It calls `visit`, which evaluates the expression and passes a `-prune`
    back to fts as FTS_SKIP.
- Between entries, `find()` runs the pending `-execdir` batches whenever
  `fts_level` changes.
- After the last start point, `main` calls `cleanup()`, which runs the
  command lines still pending. It does so only when
  `process_all_startpoints` returned true.

### The hard behaviours

`find` is single-threaded. What is hard is the protocol between the driver
and fts:

- the order of D, DP, DNR and AGAIN reports;
- a flag (`stop_at_current_level`) that lives from one entry to a later one;
- descriptor bookkeeping that spans entries;
- a batch flushed on a level change;
- error paths that decide whether cleanup runs at all.

The file system can fail independently for any node. A file can vanish
between readdir and stat, a directory can be unreadable or unenterable, a
symbolic link can dangle or loop, and a directory can close a cycle. On the
parsing side the hazards are numeric: conversions at the edge of `time_t`.

### Properties per part

- **Traversal driver.**
  - Every file is evaluated at most once.
  - A directory is evaluated before its contents without `-depth`, and after
    them with `-depth`.
  - Depth bounds and `-prune` are respected.
  - Every fault-free reachable file is evaluated.
  - The exit status reflects the errors met.
  - `curr_fd` tracks fts's working directory without leaking.
  - The walk terminates.
  - `-execdir` batches each run in one directory, in order, and all of them
    run.
- **Start points.**
  - Every start point up to the expression is searched, past empty names.
  - Batched arguments are never dropped with exit status 0.
  - The spec's "all pending batches run at program end" is checked as a
    violation run.
- **Parser, time arguments.** A reference time that fits in `time_t` is
  exactly origin minus offset, and an overflow is reported only when it does
  not fit. The converse (every overflow is diagnosed) is a violation run.
- **Parser, `-daystart`.** A time test measures from a day before
  `start_time`, or, after any number of `-daystart` before it, from the
  beginning of today, while the zone's UTC offset is steady. That it is the
  beginning of today on the day the offset changes is a violation run.
- **Parser, `-exec` family.** Exactly the well-formed commands are accepted,
  with the recipe built from the words before the first terminator; for
  `-execdir`/`-okdir`, exactly the unsafe `$PATH` values are fatal.
- **Parser, numbers and type letters.** Every well-formed `+N`/`-N`/`N` is read
  with its value, comparison and unit; exactly the lists of distinct supported
  type letters are accepted; exactly the decimal `-maxdepth`/`-mindepth`
  values that fit in an `int` are accepted; a `-user` name in the database
  is found before the argument is read as an ID, and an ID that does not fit
  in `uid_t` is refused. That only well-formed numbers are
  accepted is a violation run.
- **Parser, `-perm`.** Exactly the valid modes are accepted, and the test
  built matches files and directories as the manual says.
- **print_quoted.** On a terminal the whole name is printed, quoted, with `?`
  for control characters, and every byte stored stays in its buffer, on both
  sides of `BUFSIZ`.
- **Parser, option order.** Exactly the conflicting commands of spec 4.D are
  rejected, whatever order the options come in. That `-ignore_readdir_race`
  holds as given whatever follows it is a violation run.
- **Parser, `-samefile`.** With other processes renaming files over the
  name between the stat, the open and the second stat, the descriptor kept
  is that of the file recorded, and the file recorded is one the name
  denoted during the parse.
- **Parser, dispatch.** A global option after a non-option word is warned
  about exactly as `-warn`, `-nowarn` and `POSIXLY_CORRECT` decide, naming
  the first non-option word; only expressions of known primaries with valid
  `-newerXY` words and their arguments are accepted.
- **fstype.** The cached lookup refines an abstract lookup that returns the
  type of the file's file system or "unknown" (refinement via `INSTANCE ...
  WITH`), while other processes mount and unmount file systems; with
  shadowed mounts, or device numbers reused, the refinement fails.

## 2. Modules

| module | models | kind |
|---|---|---|
| `FtsWalk` | gnulib fts as the driver sees it (spec 4.A) | environment, spec_modelled |
| `FtsFind` | `find()`'s loop, `consider_visiting`, `visit`, `left_dir`/`inside_dir`, the -execdir flush, `cleanup` | EXTENDS `FtsWalk` |
| `MCFtsFind` | the tree `r/a/b/f2`, `r/c/f1` and the option sets for TLC | MC module |
| `FindMain` | `process_all_startpoints` and `main()`, with each `find()` abstracted to how it ends | standalone |
| `MCFindMain` | the set of `find()` outcomes | MC module |
| `TimeArgs` | `get_comp_type`, `get_relative_timestamp`, `parse_time`, `do_parse_xmin`, `parse_used` | standalone |
| `ExecArgs` | `insert_exec_ok`'s scan and checks, `check_path_safety` | standalone |
| `NumArgs` | `get_comp_type`, `get_num`, `insert_num`, `parse_size`, `insert_type`, `insert_depthspec`, `parse_user` | standalone |
| `PermArgs` | `parse_perm`, with gnulib's `mode_compile`/`mode_adjust` and `pred_perm` | standalone |
| `PrintQuoted` | `print_quoted` | standalone |
| `OptionOrder` | the parsers of the global options in order, `check_option_combinations`, the `-files0-from` checks of `process_all_startpoints` | standalone |
| `FsTypeLookup` | what a file-system type lookup promises | abstract specification |
| `FsType` | `filesystem_type` and `filesystem_type_uncached` (FSTYPE_MNTENT) | refines `FsTypeLookup` |
| `SameFile` | `parse_samefile`, `collect_arg_stat_info`, the choice of `options.xstat`, with renames over the name | standalone |
| `DayStart` | `parse_daystart` and the origins `parse_time` and `do_parse_xmin` take from it, in word order | standalone |
| `MCDayStart` | start times and time zones | MC module |
| `FindParser` | `find_parser`, `found_parser`, `should_issue_warnings`, `parse_warn`/`parse_nowarn`, `parse_newerXY` | standalone |
| `ParseArgs` | the parse functions above, `print_quoted` and the word dispatch under the parser's table | composition (INSTANCE) |
| `MCParseArgs`, `MCTimeArgs`, `MCNumArgs`, `MCOptionOrder`, `MCFsType` | constants for TLC | MC modules |

### FtsWalk

`FtsWalk` is the fts walker, modelled from the spec because it is gnulib code.

- **State.**
  - `ent` is the entry last returned.
  - `instr` is the `fts_set` instruction on that entry.
  - `stack` is the list of entered directories.
  - `todo` is, for each directory, the children not yet returned.
- **Faults.** `fault` fixes, for each node, how the file system misbehaves.
  It is chosen in `Init` with at most `MaxFaults` faulty nodes. The faults:
  - `nostat`: reported as FTS_NSOK;
  - `dnr`, `dnr_gone`: the directory cannot be read (EACCES or ENOENT);
  - `err`: the directory cannot be entered;
  - `cycle`: the directory closes a loop;
  - `ns`, `ns_gone`, `ns_loop`: stat fails with EACCES, ENOENT or ELOOP;
  - `slnone`, `slnone_loop`: a dangling or looping symbolic link.
- **`FtsRead`.**
  - It returns the children of a directory in any order.
  - It follows a D report with the children, then DP.
  - It turns D into DP under FTS_SKIP.
  - It returns an entry again under FTS_AGAIN.
  - It follows D with DNR (unreadable) or ERR (unenterable) and then no DP.

### FtsFind

`FtsFind` models the driver. Each piece of state is a variable with the
source's name: `prev_depth`, `level`, `curr_fd`, `cwd_dir_fd`,
`exit_failure` (`state.exit_status`), `stop_at_current_level`,
`execdirs_outstanding`, `pending` and `batchDir`.

`dupsOpen` counts the `dup_cloexec` calls minus the `close` calls.

History variables record what the checks need:
- `evaluated`: the entries `visit` applied the expression to;
- `pruned`: the directories on which `-prune` took effect;
- `met`: every entry fts returned;
- `executed`, `pushed`: the batches run and the arguments appended.

There are three actions:

- `FtsReadStep` is one call of `fts_read`.
- `ConsiderVisiting` is one loop iteration of `find()` together with the whole
  of `consider_visiting` and `visit`. It covers the flush on a level change,
  `left_dir`/`inside_dir`, every error branch in the code's order, FTS_AGAIN,
  the maxdepth SKIP, the ignore rules, `visit` and the DP reset.
  - The evaluator is not in src. It is a nondeterministic choice of its two
    effects on the driver: a `-prune` (only with `do_dir_first`, and only on a
    directory) and an `-execdir ... {} +` append.
- `Cleanup` is `main()` calling `cleanup()` once fts has returned NULL.

The decisions that bugs are likely in are named operators, so that a mutant
can replace exactly one of them:

| operator | decision |
|---|---|
| `FlushDue` | flush the batch on a level change |
| `NeedsRestat` | FTS_AGAIN |
| `SkipAtMaxdepth` | SKIP at maxdepth |
| `Ignored` | the ignore rules |
| `NextStop` | `stop_at_current_level` |
| `ReportsError` / `ReturnsEarly` | the error branches |
| `LeftDirFd`, `InsideDirFd` | the descriptor |

### FindMain

`FindMain` models `process_all_startpoints` and `main()`.

- **Start points.** The starting points are a sequence of tokens:
  - `name`;
  - `empty`: a zero-length name;
  - `expr`: the first word of the expression, on the command line only;
  - `readerr`: `AI_ERR_READ`, with `-files0-from` only.
- **find().** Each call ends in one of four ways, chosen from `FindOutcomes`:
  - `ok`;
  - `open_fail`: "cannot search"; find() returns true;
  - `read_fail`: fts_read ends with errno set; find() returns false;
  - `close_fail`: fts_close fails; find() returns false.

  A search that opened may append its start point to the `-exec ... {} +`
  command line.
- **Actions.** There is one action for each branch of the loop:
  - `DefaultStartPoint`, `EndOfStartPoints`, `ReadError`, `EmptyName`,
    `ExpressionReached` and `SearchStartPoint`;
  - `StreamError`, the fatal `-files0-from` stream check;
  - `MainEnd`, where `cleanup()` runs only if `ok`.

### TimeArgs

`-atime`/`-ctime`/`-mtime` (in days) and `-amin`/`-cmin`/`-mmin` (in
minutes). An argument is a prefix, a form (number, text `strtod` rejects,
`nan`) and a number `Num / Quantum`, so that `modf`'s fraction is exact.
`time_t` has `Width` bits and its sums wrap (`Wrap`). The conversion of an
out-of-range double to `time_t` is undefined; `ToTimeT` chooses among what the
builds give (x86-64: the smallest `time_t`; AArch64: saturation). The one
action `Parse` is the whole of `parse_time`, `do_parse_xmin` or `parse_used`
for one input. `parse_used` counts its days back from an origin of zero
(the reference time is a delta between access and status change), and
there an argument `strtod` rejects is fatal rather than refused.

### DayStart

`-daystart` is a positional option: it moves `options.cur_day_start`, which
the time tests after it read. The model keeps the words `-daystart`,
`-mtime`, `-mtime -N` and `-mmin` in order, with `start_time`, a time zone
and whether `localtime` succeeds. A zone is a UTC offset before and after
one switch time: a fixed zone, or a change of daylight saving. `Init` is
`set_option_defaults` (`cur_day_start = start_time - DAYSECS`,
`full_days = false`). `ParseDaystart` is `parse_daystart`: under the
`full_days` guard it adds a day and subtracts `localtime`'s time of day of
the result, or the UTC time of day when `localtime` returns NULL.
`ParseTime` takes `cur_day_start` as the origin, a day less a second later
for `-mtime -N` (COMP_LT); `DoParseXmin` takes it a day later. What
`get_relative_timestamp` then does with the origin is `TimeArgs`.

### ExecArgs

A word after `-exec`/`-execdir`/`-ok`/`-okdir` is a token: exactly `;`,
exactly `+`, exactly `{}`, a word containing `{}`, or any other word. `Scan`
is the `for` loop of `insert_exec_ok` as a RECURSIVE operator; `PathVerdict`
is the do-while of `check_path_safety` over the `:` fields of `$PATH`.
`InsertExecOk` keeps the code's order of checks: the `$PATH` check, `{}` in
the utility name, a missing command or terminator, two `{}` or an embedded
`{}` with `+`, and an environment too large for `bc_init`. The action
`ParseExecOk` also sets `ok_prompt_stdin` and clears `ignore_readdir_race`
before the scan, as the code does, so they stay set whatever its outcome.
The properties compare the result with a reference reading of spec 4.D and
section 6 written with sets (`Terminators`, `Fields`), not with recursion.

### NumArgs

An argument is a string over a small alphabet, and `uintmax_t` holds
`0..UMax`. `Xstrtoumax` is gnulib's `xstrtoumax` (not in src), written from
its documented behaviour: it skips blanks, rejects `-`, lets `strtoumax` take
one `+`, and fails on overflow or trailing characters. `GetCompType`,
`GetNum`, `InsertNum`, `ParseSize` (the unit letter is cut off first) and
`TypeList` (the loop of `insert_type`, RECURSIVE) follow the source.
`InsertDepthspec` is `-maxdepth`/`-mindepth`: the `strspn` over the decimal
digits must span the whole argument, and `SafeAtoi` (util.c, from its
documentation: `strtol`, fatal on no digits, a suffix or a value outside
`int`, whose top is `IntMax`) reads it. `ParseUser` is `-user`: the
argument is looked up in the user database `Passwd` (a constant: `getpwnam`
and `endpwent` change nothing the parser reads) before `Xstrtoumax` reads
it as an ID, which must not exceed `UID_T_MAX` (`UidMax`). `-group` is the
same code with `getgrnam` and `GID_T_MAX`.

### PermArgs

A `-perm` argument is a string over `- / + = 0 7 u w x X ,`. Modes are sets of
bits `<<class, permission>>` over `u`, `g`, `o` and `w`, `x` (`r` behaves as
`w`). `ModeCompile` and `ModeAdjust` are gnulib's `mode_compile` and
`mode_adjust` from their documentation: an octal mode of the digits 0 and 7,
or symbolic clauses read one character at a time (`SymStep`) with the who
letter `u`, the operators, the permissions `w`, `x`, `X`, and the copy form
`u`. `ParsePerm` is the whole of `parse_perm`: the prefix picks EXACT,
AT_LEAST or ANY, `mode_adjust` gives the value for a file and for a
directory, an invalid mode or `+` and an octal digit is fatal, and `/` with
no bits in either value is warned about and becomes AT_LEAST. `PredPerm` is
the test of `pred.c`, and `Documented` is the manual's reading.

### PrintQuoted

A name is a sequence of `a` (printable), `q` (the quote character) and `nl` (a
control character). `Quote` is gnulib's `quotearg` for the styles `literal`,
`escape` and `shell_always`; `Stored` is what `quotearg_buffer` leaves in a
buffer of a given size (its first bytes), `QmarkChars` is `qmark_chars`.
`PrintQuoted` is the whole function: the stack buffer of `BufSize` when the
quoted length is below it, otherwise a heap buffer of `len + 1` quoted into
again; then `qmark_chars`, the NUL at `buf[len]` (in bounds exactly when
`len` is below the buffer's size) and `fprintf`. Text that no call wrote is
printed as `undef`.

### ParseArgs

`ParseArgs` composes the parse functions as the parser table does: `parser`
is the function the table picked for a primary, and each component runs
through `INSTANCE` on the shared `input` and `result` and on the options
`-exec`/`-ok` change (`ok_prompt_stdin`, `ignore_readdir_race`), which
`OptionOrder` reads and writes too. One action per branch (`ParseTime`,
`ParseNumber`, `ParsePerm`, `ParseExec`, `ParseOptions`, `PrintName`,
`ParseSameFile`, `ParseWords`, `ParseDayStart`) is that component's step with the other
variables unchanged; `NoOptionWords`, `NoSameFile`, `NoDispatch` and
`NoDayStart` hold the own variables of `OptionOrder`, `SameFile`,
`FindParser` and `DayStart` still when
another function runs. The type
invariant uses each component's `ResultOK` (or `StateOK`), without the
membership of `input` in the component's `Inputs`: `Init` draws the input from
there and no step changes it, and a zero-arity operator reached through
`INSTANCE` would be evaluated again in every state.

### SameFile

`name` is what the argument is bound to now: the file `A`, the file `B`, a
symbolic link to `B` whose own inode is `L`, or nothing. `input` holds
whether the argument is present, the symlink policy (`-P`, `-L`, `-H`) and
whether `O_NOFOLLOW` exists. `pc` steps through `CollectArgStatInfo` (the
first `options.xstat`, and the choice to open or not), `OpenCloexec`, and
`RecheckStep` (`fstat` of the descriptor, the second stat, the race checks
that close the descriptor under `-P` without `O_NOFOLLOW`). `Rename` is
another process binding the name to something else between any two of these
calls, up to `MaxRenames` times; `resolved` records every identity the name
had under the policy. `result` is what the predicate keeps: the status, the
identity compared with, and the file whose descriptor stays open.

### FindParser

The expression is a sequence of words, each with its `parse_table` type
(`EntryType`): `-maxdepth` (option), `-warn`/`-nowarn` (positional
options), `-name` (test), `(` and `-(` (punctuation), `---noop` (the
internal `--noop` entry), an unknown word, and three `-newerXY` words
(`mt`, `Bm`, `tm`). `Init` also chooses `POSIXLY_CORRECT`, whether standard
input is a terminal (the initial `options.warnings`), whether the build
records birth times, and whether the last word lacks its argument. One
action per kind of word: `UnknownPredicate` (no entry, or `-noop` trapped
by `found_parser`), `ParseOption` (the warning naming
`first_nonoption_arg`), `ParseWarn`, `ParseNonOption` (the first non-option
word remembered; the dashed-operator warning), `ParseNewerXY` (every exit
of `parse_newerXY` in its order, with an unreadable date or file as a
choice) and `Finish`. `warned` records each warning as the pair of the
option's and the named word's positions.

### OptionOrder

The expression is a sequence of option words: `-delete`, `-depth`, `-d`,
`-prune`, `-execdir`, `-ok`, `-okdir`, `-ignore_readdir_race`,
`-noignore_race`, and `-files0-from` naming `-`, a file that is standard
input, or another file. Together with whether starting points came first, it
is chosen in `Init`. One action per parser (`ParseDelete`, `ParseDepth`,
`ParsePrune`, `ParseExecOk`, `ParseIgnoreRace`, `ParseFiles0From`) changes
`options` as the code does. `CheckOptionCombinations` runs after the last
word. `Files0FromChecks` is the start of `process_all_startpoints`, with a
failed `fopen` as a choice.

### FsTypeLookup and FsType

`FsTypeLookup` is the promise: each call answers, for the device asked about,
the type of that entry of the mount table, or "unknown".

`FsType` models the code on GNU/Linux. The mount table is a sequence of
entries `[dir, type, devopt, dev]`, mounted on the directories of a small
tree, later entries on top of earlier ones; `dev` is the file system's
`st_dev`. Other processes change the table between calls, up to
`MaxChanges` times: `Umount` removes an entry with nothing mounted under it,
and `Mount` appends one whose device number is the next unused one
(`next_dev`) or, with `ReuseDevs`, the lowest free one, as the kernel does
for anonymous devices. `StatMountPoint` is `stat()` of a mount point: EACCES for the
directories in `eacces`, ENOENT for a mount point hidden by a later mount and
absent from the file system that hides it (`present`), otherwise the device of
the topmost file system covering it. `ScanMounts` is the `getmntent` loop, and
`FilesystemType` is one call with its one-entry cache. `FsType` maps `table`
to `mounts`, `file_dev` to `asked`, its call counter to `calls` and a fatal
exit to `running`, and checks `Lookup!Spec` as a property. `FsTypeLookup`
counts the calls, so that a repeated stale answer is a step it must allow,
not a stutter; a mount change is its `MountChange` step, and a fatal exit
its `Exit`.

## 3. Runs

| run | module | cfg | expect |
|---|---|---|---|
| walk | `MCFtsFind` | `FtsFindAll.cfg` | pass |
| loop_entry | `MCFtsFind` | `FtsFindLoop.cfg` | violation |
| startpoints | `MCFindMain` | `FindMainStartpoints.cfg` | pass |
| empty_name | `MCFindMain` | `FindMainEmptyName.cfg` | violation |
| parse_args | `MCParseArgs` | `ParseArgsAll.cfg` | pass |
| time_overflow | `MCTimeArgs` | `TimeArgsOverflow.cfg` | violation |
| day_start | `MCDayStart` | `DayStartDST.cfg` | violation |
| num_lenient | `MCNumArgs` | `NumArgsLenient.cfg` | violation |
| ignore_race_order | `MCOptionOrder` | `OptionOrderIgnoreRace.cfg` | violation |
| fs_flat | `MCFsType` | `FsTypeFlat.cfg` | pass |
| fs_shadowed | `MCFsType` | `FsTypeShadowed.cfg` | violation |
| fs_exit | `MCFsType` | `FsTypeExit.cfg` | violation |

**walk** (506,596 states, under 2 minutes). It covers every single-node
fault, `-maxdepth` ∈ {none, 1, 2}, `-mindepth` ∈ {0, 1}, `-depth` on and off,
`ignore_readdir_race` on and off, every placement of `-prune`, and
`-execdir ... {} +` with command lines of two arguments. Its properties:

- `EvaluationOrder`: each file is evaluated at most once, and a directory
  comes before its contents without `-depth` and after them with `-depth`.
- `DepthAndPruneRespected`: nothing deeper than maxdepth is returned, and
  nothing shallower than mindepth or under a pruned directory is evaluated.
- `AllReachableEvaluated`: at the end, every fault-free file within the bounds
  and not under a pruned directory has been evaluated.
- `ExitStatusReflectsErrors`: at the end, the exit status is failure exactly
  when some file met had a problem: a cycle, an fts error, a symbolic link
  loop, or a directory not read or a file not stat'ed. A file that vanished
  (ENOENT) under `-ignore_readdir_race` is excused if it is a directory, or a
  non-directory below a starting point. This covers the readdir/stat race of
  `ftsfind.c:283-284` and `336-337`, both when the error must be kept and when
  it must not be set.
- `CurrFdTracksCwd`: `curr_fd` is `fts_cwd_fd`, and exactly one duplicate is
  open.
- `ExecdirBatchesSound`: all arguments of a batch live in the batch's
  directory, and the batches run so far plus the pending one are exactly the
  appended arguments, in order. This is the order half of spec P6.
- `Termination` and `AllExecdirsRun` (liveness): the walk ends, and every
  appended argument eventually runs.

**loop_entry** (violation). Spec scenario 2 says `find -L a -print` with
`a/loop -> a` prints `a/loop`. The code returns on FTS_DC before `visit`
(`ftsfind.c:295-300`), so the cycle entry is never evaluated. GNU find 4.9.0
behaves the same: it prints `a`, a loop diagnostic, and exits 1.

**startpoints** (4,053 states). It covers up to four starting points,
on the command line and from `-files0-from`, and every `find()` outcome. Its
properties:

- `EveryStartPointSearched`: the starting points before the expression are
  searched in order, past empty names. Only a `find()` that returned false
  cuts the list.
- `BatchLostOnlyWithFailure`: if arguments are left unrun, the exit status is
  failure.

**empty_name** (violation). Here every `find()` succeeds. An empty name sets
`ok = false` (`ftsfind.c:681`), so `main()` skips `cleanup()` and the pending
`-exec +` command line never runs. This contradicts spec sections 4.H and 6.
GNU find 4.9.0 shows it:

- `find '' d -type f -exec echo RUN {} +` prints only the diagnostic.
- `find d -type f -exec echo RUN {} +` prints `RUN d/b d/a`.

**parse_args** (783,768 states, about 25 s). Every parse function of
`ParseArgs` over its own bounds, in one run. Its properties:

- `ReferenceTimeExact` (TimeArgs): when origin − offset fits in `time_t`, the
  argument is accepted and the reference time is exactly that instant,
  nanosecond carry included, with the comparison inverted. `time_t` has 6
  bits, a day 12 s and a minute 3 s; arguments run over −3..5 in eighths, so
  offsets reach past both ends of `time_t`; both builds, every prefix, all
  three callers (`-used` from an origin of zero), `cur_day_start` at 6 s
  with 0 or 3 eighths of a second.
- `NoSpuriousOverflow` (TimeArgs): "arithmetic overflow" only when the result
  does not fit.
- `NumberAsSpecified`, `TypeListAsSpecified`, `DepthAsSpecified` (NumArgs),
  over every argument of up to four characters of digits, signs, a blank,
  unit and type letters and `,`; `UMax = 15`, `IntMax = 11`. A well-formed
  number that fits is read with its comparison, value and block size, and one
  that does not fit is rejected; exactly the lists of distinct supported
  letters separated by single commas are accepted; exactly the decimal depth
  values up to `IntMax` are accepted, and `" 5"`, `"+5"` and `"12"` are not.
- `UserAsSpecified` (NumArgs), over the same arguments with the users `x`
  (uid 3) and `5` (uid 1) and `UID_T_MAX = 13`: as POSIX says for
  `-user uname`, a name in the database is that user, even the name `5`,
  and a decimal integer that names no user is that ID when it fits in
  `uid_t` (`11`) and is refused when it does not (`15`), never narrowed.
  `xstrtoumax` also takes `" 5"` and `"+5"` as IDs, the leniency
  num_lenient shows for `-links`.
- `PermAsDocumented` (PermArgs), over every `-perm` argument of up to four
  characters: exactly the valid modes are accepted, never `+` and an octal
  digit, and the test then matches every mode of a file and of a directory as
  the manual says for its prefix, with the value `mode_adjust` gives that kind
  of file. The manual's "every file" for `/` with no bits holds because
  `pred_perm` matches every file under ANY with an empty value: `/u+X` leaves
  files with no bits and directories with `u+x`, is not rewritten, and
  matches all files (GNU find 4.9.0: `find f -perm /u+X` prints a 644 file).
- `ExecRecipeAsSpecified`, `PathCheckAsSpecified` (ExecArgs), for all four
  primaries, every list of up to three words and every `$PATH` of up to
  three characters over `:`, `/`, `.`: exactly the well-formed commands are
  accepted, the recipe holds the words before the first terminator (without
  the `{}` for `+`) and parsing resumes after it; exactly the `$PATH` values
  with an empty, `.` or relative field are fatal, and the first such field
  picks the message.
- `OptionConflictsRejected` (OptionOrder), every expression of up to three
  option words, with and without command-line starting points: `-delete` with
  `-prune` but no `-depth`/`-d`, `-files0-from` with starting points, and
  `-files0-from` from standard input with `-ok`/`-okdir` are rejected, and,
  apart from a file that cannot be opened, nothing else is.
- `PrintedAsQuoted`, `WritesInBounds` (PrintQuoted), every name of up to four
  characters in three styles, on a terminal and not, with `BUFSIZ = 4`, so
  that the quoted text is shorter than, exactly as long as, and longer than
  the stack buffer: the output is the whole quoted name with `?` for control
  characters, and the NUL lands inside the buffer.
- `HeldFileIsRecorded`, `RecordedFileWasNamed` (SameFile), under every
  symlink policy, with and without `O_NOFOLLOW`, each binding of the name at
  the start and up to two renames between the system calls: the descriptor
  kept open is that of the file whose identity is recorded, and under `-P`
  the recorded file is never the target of a link `open(2)` followed.
- `WarningsAsSpecified`, `ExpressionAcceptedAsDocumented` (FindParser),
  every expression of up to three words with every combination of
  `POSIXLY_CORRECT`, a terminal, birth times and a missing last argument:
  the warnings issued are exactly those for an option after a non-option
  word while warnings are on at that word, each naming the first
  non-option word, plus the dashed `-(` ones, which ignore `-nowarn`; an
  expression is accepted only with known primaries, valid `-newerXY` words
  and the last argument present, and `-newerXY` is the only word refused
  as invalid. Spec 4.D says a global option after a *test* draws the
  warning; the code counts operators too, so `-warn \( -maxdepth 0 \)`
  warns (seen on GNU find 4.9.0). The property states what the code does.
- `TimeOriginsPositional` (DayStart), every sequence of up to three
  `-daystart`, `-mtime`, `-mtime -N` and `-mmin` words, `start_time` 26 or
  31 in a 12-second day, offsets 0 or 2 before and after a switch at 20 or
  25, with `localtime` failing or not: where the offset was steady for the
  day before `start_time` (in UTC when `localtime` fails), a test measures
  from `start_time - DAYSECS` if no `-daystart` precedes it, and otherwise
  from the beginning of today, however many `-daystart` there are; shifted
  by `DAYSECS - 1` for `-mtime -N` and by `DAYSECS` for `-mmin`. The last
  shift means that after `-daystart`, `-mmin` measures from the *end* of
  today: `find f -daystart -mmin -1` does not match a file just touched,
  and `-daystart -mmin +1` does (GNU find 4.9.0), while the manual says
  `-daystart` measures from the beginning of today. The property states
  what the code does; the run slots are used for the findings below.

**time_overflow** (violation). Spec sections 6 and 7 call time overflow
fatal. On x86-64 an offset before the smallest `time_t` converts to that
value, which passes the sign test at `parser.c:3065`. The cfg starts today
at 6 s (`MCFarDayStarts`), so the end of today fits and the trace is this
case: `-mtime -34/8` from the origin 17 is −34, converted to −32, accepted
with no diagnostic. GNU find 4.9.0 runs `find /tmp -maxdepth 0 -mtime 1e15`
silently with exit status 0.

**End-of-today wrap** (no run). `parse_time` checks the end-of-today origin
at `parser.c:3130` by comparing two copies of the same sum, so the check
never fires. With `DayStarts <- MCDayStarts` (today at 25 s, within a day
of the top of the 6-bit `time_t`) and `Nums = {0}` in the same cfg, TLC
reports `-mtime -0` accepted with a reference time of −28, the origin
having wrapped. It is a hazard with a note: a 64-bit day that close to the
largest `time_t` does not happen, and the run keeps the case seen on the
installed find.

**day_start** (violation). The manual says `-daystart` measures times
"from the beginning of today". `parse_daystart` adds a day to
`cur_day_start`, which gives `start_time`, and subtracts the local time of
day of `start_time` (`parser.c:884`). That is local midnight only if the UTC
offset did not change since then. TLC's trace has `start_time` 26, offset 0
before 25 and 2 from then on: the local day 2 began at 24, and `-daystart`
gives 22. GNU find 4.9.0, at 02:42 standard time on 9 November 2026 with
`TZ='STD0DST-1,M3.1.0,M11.2.1/0:30'` (summer time ends at 00:30), after
`touch -d '2026-11-08 23:20 UTC' f` (00:20 summer time, today):

- `find f -daystart -mtime 0` prints nothing;
- `find f -daystart -mtime 1` prints `f`.

**Reference times not normalised** (no run). `strtod` accepts a second sign
(`-mmin --0.01`), `modf` then gives a negative fraction, and the one-way
carry at `parser.c:3072` leaves `tv_nsec` negative. `ReferenceTimeNormalized`
in `TimeArgs` states the invariant, and `tlc -config TimeArgsNormalized.cfg
MCTimeArgs` finds it violated. The cfg is not among the runs: this was seen
in the model only, and its slot went to `day_start`, which reproduces on the
installed find.

**num_lenient** (violation). Spec 4.D and 7 admit only `+N`, `-N` and `N`.
`get_num` hands the rest to `xstrtoumax`, which skips blanks and lets
`strtoumax` take a second sign: `" 0"`, `"++1"`, `"-+5"` are accepted. GNU
find 4.9.0: `find /tmp -maxdepth 0 -links ++1` prints `/tmp`.

**ignore_race_order** (violation). `insert_exec_ok` sets
`ignore_readdir_race = false` for `-execdir` and `-okdir` (`parser.c:2826`).
`-ignore_readdir_race -execdir CMD ;` therefore searches with races reported,
while `-execdir CMD ; -ignore_readdir_race` ignores them. Spec 4.D lists
`-ignore_readdir_race` as a global option.

**fs_flat** (274,016 states, about 11 s). Mount tables of one to three
entries over `/`, `/d` and `/d/e`, two types, `ignore` entries, `dev=`
options, EACCES on mount points, three calls, and up to two mounts or
unmounts by other processes with fresh device numbers. No mount point is
hidden by a later mount. `ReturnsTypeOfFileSystem` is `FsTypeLookup!Spec` under the
mapping: every answer, from the cache or the table, is the type of the file's
file system or "unknown".

**fs_shadowed** (violation). The same property with any table. For
`/` ext4 then `/` tmpfs, `stat("/")` gives the tmpfs device, so the first
entry matches it and a file on tmpfs is reported as ext4 (`fstype.c:287`).
On Linux `rootfs` under the real root is this case. The installed find 4.9.0
uses gnulib's mountlist instead and could not show it. This cfg also lets
unmounted device numbers be reused (`ReuseDevs = TRUE`); TLC reports the
shadow trace first. With `ReuseDevs = TRUE` in `FsTypeFlat.cfg` the property
fails on the stale cache (`fstype.c:215`): a file on ext4 device 2 is
looked up, device 2 is unmounted and a tmpfs mount gets number 2, and the
cached "ext4" is returned for a file on tmpfs. `fstype_known` is the only
invalidation, and nothing resets it on a remount.

**fs_exit** (violation, `LookupNeverExits`). For `/` ext4, `/d/e` ext4, `/d`
ext4, where `/d/e` does not exist in the file system mounted on `/d`,
`stat("/d/e")` fails with ENOENT and `error (1, ...)` ends find at the first
`-fstype` test of a file on the last entry (`fstype.c:282`). Spec section 6
says fstype returns a name or "unknown".

### Mutants

Each property of a passing run has a mutant in `PROJECT.json`. A mutant is a
plausible bug in one mapped operator, written just before that operator, that
TLC must catch. The bugs are:

- `left_dir` closing AT_FDCWD;
- not ignoring DP;
- `>` for `>=` at maxdepth;
- no DP reset of `stop_at_current_level`;
- the race exemption of FTS_NS also covering a starting point;
- `curr_fd == -1` for `curr_fd < 0`;
- FTS_AGAIN on every directory;
- a flush only on descent;
- no `cleanup()`;
- a batch that runs only when over-full;
- an empty name ending the loop;
- an empty name not setting the exit status;
- the +/- prefix recognised but not skipped;
- the borrow of a negative fraction keeping the seconds;
- the overflow test `< 0` taken as `<= 0`;
- a depth argument read without the `strspn` check;
- the file's and the directory's `-perm` values swapped;
- the stack buffer used while `len <= BUFSIZ`;
- the heap buffer allocated but not quoted into;
- a type list ending on `,` accepted;
- `+` ending a command after any word, not only after `{}`;
- the word after the terminator skipped too;
- an empty `$PATH` field taken as an absolute directory;
- a type not found returned as NULL instead of "unknown";
- the cached name returned for any device;
- `-d` not recorded as an explicit `-depth`;
- `parse_samefile` keeping the descriptor without comparing identities;
- `st = fst` under every symlink policy;
- every non-option word remembered, not only the first;
- `-newertY` not refused;
- `-daystart` moving the origin each time it is given;
- `-user` reading a number before looking the name up.

### Bounds, and why they are enough

- **The tree `r/{a/{b/{f2}}, c/{f1}}`.** It has four directories on three
  levels, with two sibling directories that both have contents.
  - Siblings at the same level separated by a deeper subtree are the case the
    level-change flush has to get right.
  - A pruned directory followed by a sibling directory with contents is the
    case a stale `stop_at_current_level` would break.
  - Depth 3 lets `-maxdepth 1` and `2` cut inside the tree.
  - Siblings come in any order, so every interleaving of a subtree with its
    siblings is explored.
- **One faulty node at a time** (`MaxFaults = 1`). The driver handles each
  entry's report on its own, so two faults interact only through the exit
  status and `stop_at_current_level`, and those are covered by single faults.
- **Batches of two.** With two arguments per command line, the
  "full → run first" path happens inside one directory.
- **Four starting points.** That is enough for an empty name between two good
  ones, followed by the expression.
- **Time arguments.** A 6-bit `time_t` (−32..31), a 12-second day and
  arguments in eighths reach both ends of `time_t` within one or two units,
  with fractions of both signs. The arithmetic is the same at 64 bits; only
  where it wraps changes.
- **Up to three `-exec` words and `$PATH` of three characters.** `{} {} +`,
  `x{} +`, `{} + ;` and a leading `{}` all fit; `$PATH` reaches leading,
  trailing and doubled `:`, `.`, and a relative field after a good one.
- **Arguments of four characters, `UMax = 15`.** Two-digit values overflow,
  the prefix, a second sign, a blank and a unit letter fit together, and
  type lists reach a duplicate, a missing and a trailing `,`.
- **`-perm` arguments of four characters over eleven symbols.** `-u+X`,
  `/u=w`, `u+w,`, `/000`, `+07` and the copy form `=u` fit; modes of the six
  bits `u,g,o × w,x` tell the kinds of test apart, and both a file and a
  directory are tried against every mode.
- **Depth values up to `IntMax = 11`.** Two-digit arguments both fit (`10`)
  and overflow (`12`), next to a blank, a sign and a suffix.
- **Names of four characters, `BUFSIZ = 4`.** In `shell_always` style a name
  of two characters is quoted to exactly four, so the boundary `len = BUFSIZ`
  is reached, as are shorter and longer texts.
- **Three option words.** Every conflict needs at most three words
  (`-delete -prune -d`, `-files0-from - -ok` and so on), in every order.
- **Three mount entries on a three-directory chain, three calls, two
  changes.** That is enough for a shadowed entry, an `ignore` entry, a
  `dev=` entry, an EACCES mount point, a hit and a miss of the cache, a
  device met again after another one, and an unmount followed by a mount
  that takes the freed device number.
- **Two renames in `-samefile`.** The procedure has three system calls;
  two renames put a different binding under any two of them, including
  a link, then a file, then back.
- **Three words in the dispatch.** A non-option, a `-nowarn` and an option;
  an option, a non-option and another option; `(` before an option; and a
  `-newerXY` word after, before or at the end, each fit in three words.
- **`-daystart` in a 12-second day.** `start_time` 26 and 31 lie in the
  third day (24..35), early and late. An offset of 2 is up to a sixth of a
  day, and a switch at 20 (yesterday, within the day before `start_time`)
  or 25 (today, before `start_time`) puts the change between local midnight
  and `start_time`, while the zones with equal offsets are fixed zones.
  Three words hold two `-daystart` before a test, and a test before and
  after one.

### Fairness

`Spec` of `FtsFind` has `WF_vars(Next)`. `find` is one thread, and in every
non-final state exactly one of its steps is enabled: the next `fts_read`, the
processing of the entry, or cleanup. Weak fairness says only that the program
does not stop in the middle. The other modules check no liveness
and have no fairness: each parse is a bounded sequence of steps (in `ParseArgs` one step of
the chosen function, or the few steps of the option words, of `-samefile`
or of the word dispatch), and the property of `FsType`
is the safety part of `FsTypeLookup!Spec`.

## 4. What is not modelled, and why

- **fts internals.** The fd cache, the cycle table, `-xdev` and the
  FTS_LOGICAL/FTS_PHYSICAL choice are not modelled. fts is not in `src/`.
  The model keeps only what the driver observes.
- **`digest_mode`** (`util.c`, not in src), which can make
  `consider_visiting` return after a failed re-stat under `-L`.
- **Debug output.** `get_fts_info_name` and the diagnostics' wording.
- **Evaluator semantics.** `-quit` is one example. The spec says it sets a
  flag the walker observes, but no such flag exists in `ftsfind.c`; `-quit`
  is implemented in `pred.c`, which is not in src.
- **`printquoted.c`** in a multibyte locale: `qmark_chars` is modelled for
  single-byte characters, where each unprintable byte becomes one `?`.
- **`fdleak.h`** has declarations only.
- **`finddata.c`** holds the globals, which are variables here.
- **fstype on other systems.** Only the FSTYPE_MNTENT branch (GNU/Linux)
  is modelled; the other `#if` branches are not compiled there.
  `parser.c:1088` calls `filesystem_type` with two arguments while
  `fstype.c:208` defines it with three: this copy of the tree would not link
  as is.
- **`-perm` details.** The read bits (they behave as the write bits), the
  set-id and sticky bits, the who letters `g`, `o` and `a`, and the
  `est_success_rate` guesses, which only tune the evaluation order.
- **The other primaries** that only build one predicate from their argument
  (`-name`, `-regex`, `-newer`, `-printf`, ...): their work is in
  gnulib or in formatting. `-newerXY` is modelled for its checks; the
  date `parse_datetime` reads is a choice of readable or not.
- **`-fstype` at `-O2`.** `parse_fstype` asks `is_used_fs_type` (not in
  this `fstype.c`) whether the type is in the mount table at parse time and
  substitutes `-false` if not, as spec 4.E prescribes; a file system of that
  type mounted during the search, which `FsType` lets happen, is then never
  matched. It is listed as a hazard; no code of it is in `src/`.
- **The spec's warning rule as a violation run.** The code warns after an
  operator too (see parse_args); all runs are in use, so this divergence is
  stated in the README and in the property's comment, not as a run.

## 5. Plan for the next sittings

Done: `FtsWalk`/`FtsFind`, `FindMain`, `TimeArgs`, `ExecArgs`, `NumArgs`
(with `insert_depthspec`), `PermArgs`, `PrintQuoted`, `OptionOrder`,
`FsTypeLookup`/`FsType` with remounts, `SameFile`, `FindParser`, `DayStart`, and their
composition in `ParseArgs`. Left:

1. **Composition of the walk.** Compose `FindMain` with `FtsFind`, so that
   each `find()` is a full walk and the `-exec +` batch spans start points,
   and put `OptionOrder` in front of it, so that the options the walk reads
   (`ignore_readdir_race`, `do_dir_first`, the depth bounds from
   `InsertDepthspec`) come from parsing.
2. **Larger dispatch.** Let the words of `FindParser` carry the arguments
   the parse functions read, so that one expression runs through
   `found_parser` and the component parse functions in turn.
