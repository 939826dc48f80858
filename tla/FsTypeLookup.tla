---------------------------- MODULE FsTypeLookup ----------------------------
(***************************************************************************)
(* What filesystem_type promises its caller, the -fstype test (spec       *)
(* section 6, collaborator contract): for a file on a mounted file system *)
(* the short name of that file system's type, or "unknown", whatever was  *)
(* mounted or unmounted before.  mounts is the mount table, a sequence of *)
(* entries with their type and device number dev.                         *)
(***************************************************************************)
EXTENDS Naturals, Sequences

VARIABLES
  mounts,  \* the mount table, a sequence of [dir, type, devopt]
  asked,   \* st_dev of the file of the last call
  answer,  \* the last name returned; "none" before the first call
  calls,   \* the calls made
  running  \* FALSE once a call has ended find instead of returning

Init == asked = 0 /\ answer = "none" /\ calls = 0 /\ running = TRUE

(* One call for a file on file system dev. *)
Lookup ==
  /\ running /\ running' = TRUE /\ calls' = calls + 1
  /\ \E i \in DOMAIN mounts :
       asked' = mounts[i].dev /\ answer' \in {mounts[i].type, "unknown"}
  /\ UNCHANGED mounts

(* The system mounts or unmounts a file system. *)
MountChange == running /\ mounts' # mounts /\ UNCHANGED <<asked, answer, calls, running>>

(* A call that ends find, about which the contract says nothing. *)
Exit == running /\ running' = FALSE /\ calls' = calls + 1 /\ UNCHANGED <<mounts, asked, answer>>

Spec == Init /\ [][Lookup \/ MountChange \/ Exit]_<<mounts, asked, answer, calls, running>>
=============================================================================
