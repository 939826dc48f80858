------------------------------ MODULE SameFile ------------------------------
(***************************************************************************)
(* -samefile NAME, in src/find/parser.c: parse_samefile.  The parser       *)
(* stats NAME (collect_arg_stat_info), opens it to hold the file and keep  *)
(* its inode number from being reused, fstats the descriptor and stats     *)
(* NAME again, and records the device and inode number the test compares  *)
(* with, and the descriptor it holds.  Meanwhile another process may       *)
(* rename other files over NAME: each system call sees the name as it is   *)
(* at that moment.                                                         *)
(*                                                                         *)
(* NAME is bound to the regular file "A", the regular file "B", a         *)
(* symbolic link to "B" (whose own inode is "L"), or nothing.  The         *)
(* symlink policy is -P, -L or -H; O_NOFOLLOW may or may not be available *)
(* (options.open_nofollow_available).  options.xstat is lstat under -P and *)
(* stat under -L; under -H it is stat for command-line arguments          *)
(* (util.c, not in src: state.curdepth is 0 while parsing).               *)
(***************************************************************************)
EXTENDS Naturals

CONSTANTS
  MaxRenames   \* renames over NAME while it is parsed

Bindings == {"A", "B", "lnk", "none"}
Policies == {"P", "L", "H"}
Files == {"A", "B", "L"}

VARIABLES
  input,    \* [present, policy, nofollow]: the argument and the options
  result,   \* [status, ino, fd]: the predicate's samefileid; status "none" before
  name,     \* what NAME is bound to now
  pc,       \* the next step of parse_samefile: "start", "open", "recheck", "done"
  st,       \* the identity in st, or "none"
  fd,       \* the file the descriptor holds, or "none"
  resolved, \* every identity options.xstat would give for NAME so far
  renames   \* renames so far

vars == <<input, result, name, pc, st, fd, resolved, renames>>

(* lstat (), stat () and options.xstat of NAME: the identity, or ENOENT. *)
LStat(b) == CASE b = "none" -> "ENOENT" [] b = "lnk" -> "L" [] OTHER -> b
FollowStat(b) == IF b = "lnk" THEN "B" ELSE LStat(b)
XStat(policy, b) == IF policy = "P" THEN LStat(b) ELSE FollowStat(b)

(* open_cloexec (filename, openflags): the file opened, or "fail". *)
OpenFile(b, nofollow) ==
  CASE b = "none"              -> "fail"
    [] b = "lnk" /\ nofollow   -> "fail"   \* ELOOP
    [] b = "lnk"               -> "B"
    [] OTHER                   -> b

Done(status, ino, held) == [status |-> status, ino |-> ino, fd |-> held]

(* O_NOFOLLOW is added to openflags under -P when it is available. *)
NoFollow == input.policy = "P" /\ input.nofollow

(* -P without O_NOFOLLOW: open(2) may follow a link, so st is checked. *)
Checked == input.policy = "P" /\ ~input.nofollow

Init ==
  /\ input \in [present : BOOLEAN, policy : Policies, nofollow : BOOLEAN]
  /\ name \in Bindings
  /\ result = Done("none", "none", "none")
  /\ pc = "start" /\ st = "none" /\ fd = "none"
  /\ resolved = {XStat(input.policy, name)} /\ renames = 0

(* The choice of fd after the first stat: -2, do not open, for a        *)
(* symbolic link under -P without O_NOFOLLOW; else -1, open it.          *)
OpenDecision(x) == IF Checked /\ x = "L" THEN "do_not_open" ELSE "open"

(* collect_arg_stat_info: no argument, or options.xstat failing (fatal), *)
(* or st and the choice of fd.  Not opening records st with fd -2.       *)
CollectArgStatInfo ==
  /\ pc = "start"
  /\ LET x == XStat(input.policy, name) IN
     CASE ~input.present ->
            result' = Done("missing", "none", "none") /\ pc' = "done" /\ UNCHANGED st
       [] x = "ENOENT" ->
            result' = Done("fatal", "none", "none") /\ pc' = "done" /\ UNCHANGED st
       [] OpenDecision(x) = "do_not_open" ->
            result' = Done("ok", x, "none") /\ pc' = "done" /\ st' = x
       [] OTHER ->
            pc' = "open" /\ st' = x /\ UNCHANGED result
  /\ UNCHANGED <<input, name, fd, resolved, renames>>

(* open_cloexec; a failed open leaves fd -1 and records st. *)
OpenCloexec ==
  /\ pc = "open"
  /\ LET o == OpenFile(name, NoFollow) IN
     IF o = "fail"
     THEN result' = Done("ok", st, "none") /\ pc' = "done" /\ UNCHANGED fd
     ELSE fd' = o /\ pc' = "recheck" /\ UNCHANGED result
  /\ UNCHANGED <<input, name, st, resolved, renames>>

(* Mutant: the descriptor is kept whenever the second stat is not a link. *)
RecheckNoIdentity(fstat_fails) ==
  LET x == XStat(input.policy, name) IN
  CASE fstat_fails \/ x = "ENOENT" -> Done("fatal", "none", "none")
    [] Checked /\ x = "L"          -> Done("ok", x, "none")
    [] Checked                     -> Done("ok", x, fd)
    [] OTHER                       -> Done("ok", fd, fd)

(* Mutant: st = fst whatever the symlink policy. *)
RecheckAlwaysFst(fstat_fails) ==
  LET x == XStat(input.policy, name) IN
  IF fstat_fails \/ x = "ENOENT" THEN Done("fatal", "none", "none") ELSE Done("ok", fd, fd)

(* fstat (fd, &fst), which gives the identity of the file held, then      *)
(* options.xstat of NAME again: a fatal error if either fails.  Under -P  *)
(* without O_NOFOLLOW the race is lost if NAME is now a link or another   *)
(* file than the one held: close (fd), fd = -1, and st is kept.           *)
(* Otherwise st = fst.                                                    *)
Recheck(fstat_fails) ==
  LET x == XStat(input.policy, name) IN
  CASE fstat_fails \/ x = "ENOENT" -> Done("fatal", "none", "none")
    [] Checked /\ x = "L"          -> Done("ok", x, "none")
    [] Checked /\ x = fd           -> Done("ok", x, fd)
    [] Checked                     -> Done("ok", x, "none")
    [] OTHER                       -> Done("ok", fd, fd)

RecheckStep ==
  /\ pc = "recheck"
  /\ \E fstat_fails \in BOOLEAN :
       LET r == Recheck(fstat_fails) IN
       /\ result' = r /\ st' = r.ino
       /\ fd' = r.fd
  /\ pc' = "done"
  /\ UNCHANGED <<input, name, resolved, renames>>

(* Another process renames a file over NAME, or removes it. *)
Rename ==
  /\ pc # "done" /\ renames < MaxRenames
  /\ \E b \in Bindings \ {name} :
       /\ name' = b
       /\ resolved' = resolved \cup {XStat(input.policy, b)}
  /\ renames' = renames + 1
  /\ UNCHANGED <<input, result, pc, st, fd>>

Next == CollectArgStatInfo \/ OpenCloexec \/ RecheckStep \/ Rename

Spec == Init /\ [][Next]_vars

-----------------------------------------------------------------------------
(* The result; TypeOK adds the state of the parse. *)
ResultOK ==
  /\ result.status \in {"none", "missing", "fatal", "ok"}
  /\ result.ino \in Files \cup {"none"} /\ result.fd \in Files \cup {"none"}

TypeOK ==
  /\ ResultOK /\ name \in Bindings /\ pc \in {"start", "open", "recheck", "done"}
  /\ st \in Files \cup {"none"} /\ fd \in Files \cup {"none"}
  /\ resolved \subseteq Files \cup {"ENOENT"} /\ renames \in 0..MaxRenames

(* The descriptor parse_samefile keeps open, so that the inode number of  *)
(* the file cannot be reused while find runs, holds the very file whose   *)
(* device and inode number -samefile compares with, however files were    *)
(* renamed over NAME between the stat, the open and the second stat.      *)
HeldFileIsRecorded == result.status = "ok" /\ result.fd # "none" => result.fd = result.ino

(* The file -samefile compares with is one that NAME denoted, under the   *)
(* symlink policy, at some moment of the parse: under -P never the target *)
(* of a link open(2) followed.                                            *)
RecordedFileWasNamed == result.status = "ok" => result.ino \in resolved
=============================================================================
