------------------------------- MODULE FsType -------------------------------
(***************************************************************************)
(* src/find/fstype.c as built on GNU/Linux (FSTYPE_MNTENT): the one-entry *)
(* cache of filesystem_type, keyed by st_dev, in front of                 *)
(* filesystem_type_uncached, which reads the mount table in order and     *)
(* returns the type of the first entry whose device number is that of    *)
(* the file.  An entry's device number is taken from a "dev=" mount       *)
(* option or from stat() of its mount point.                              *)
(*                                                                         *)
(* Entries are mounted on directories of Dirs, later entries on top of   *)
(* earlier ones, and each has the device number st_dev gives its files.  *)
(* stat() of a path resolves into the last entry mounted on it or on one *)
(* of its ancestors.  Between calls the system may unmount a file system *)
(* nothing is mounted under, or mount a new one; the kernel gives it a   *)
(* device number never used before or, with ReuseDevs, the lowest one    *)
(* not in use, as it does for the anonymous devices of tmpfs and proc.   *)
(***************************************************************************)
EXTENDS Naturals, SequencesExt

CONSTANTS
  Dirs,         \* directories that serve as mount points
  Root,         \* "/"
  Parent,       \* the parent of every directory but Root
  Types,        \* file-system type names, MNTTYPE_IGNORE not among them
  MountTables,  \* the mount tables tried, as sequences of [dir, type, devopt]
  MaxQueries,   \* calls of filesystem_type in one run
  MaxChanges,   \* mounts and unmounts during one run
  ReuseDevs     \* whether a new mount may get a device number freed before

ASSUME Root \in Dirs /\ "ignore" \notin Types /\ MaxQueries \in Nat
       /\ MaxChanges \in Nat /\ ReuseDevs \in BOOLEAN

VARIABLES
  table,           \* the mount table, a sequence of [dir, type, devopt, dev]
  next_dev,        \* the lowest device number never given out
  changes,         \* mounts and unmounts so far
  eacces,          \* mount points whose stat() fails with EACCES
  present,         \* mount points that exist in the file system they resolve into
  current_fstype,  \* the static current_fstype: "NULL" or a name
  current_dev,     \* the static current_dev
  fstype_known,    \* the static fstype_known
  file_dev,        \* statp->st_dev of the last call that returned
  answer,          \* the name the last call returned
  queries,         \* calls made
  phase            \* "run", or how error (1, ...) exited: "fatal_setmntent",
                   \* "fatal_stat"

vars == <<table, next_dev, changes, eacces, present, current_fstype, current_dev, fstype_known,
          file_dev, answer, queries, phase>>

RECURSIVE IsAncestorOrSelf(_, _)
IsAncestorOrSelf(x, p) == x = p \/ (p # Root /\ IsAncestorOrSelf(x, Parent[p]))

(* The entry whose file system a path resolves into. *)
Covering(t, p) ==
  CHOOSE i \in DOMAIN t : /\ IsAncestorOrSelf(t[i].dir, p)
                          /\ \A j \in DOMAIN t : IsAncestorOrSelf(t[j].dir, p) => j <= i

(* stat (mnt->mnt_dir): EACCES, ENOENT, or the st_dev of what it finds. *)
StatMountPoint(t, p) ==
  LET top == Covering(t, p) IN
  CASE p \in eacces                   -> [err |-> "EACCES", dev |-> 0]
    [] t[top].dir = p \/ p \in present -> [err |-> "none", dev |-> t[top].dev]
    [] OTHER                           -> [err |-> "ENOENT", dev |-> 0]

(* The while loop over getmntent from entry i: skip MNTTYPE_IGNORE, take *)
(* the device number from "dev=" or stat(), skip a mount point stat()    *)
(* may not search (EACCES), exit on any other stat() error, stop at the  *)
(* first entry whose device number is dev.                               *)
RECURSIVE ScanMounts(_, _, _)
ScanMounts(t, i, dev) ==
  IF i > Len(t) THEN "NULL"
  ELSE IF t[i].type = "ignore" THEN ScanMounts(t, i + 1, dev)
  ELSE IF t[i].devopt THEN IF t[i].dev = dev THEN t[i].type ELSE ScanMounts(t, i + 1, dev)
  ELSE LET st == StatMountPoint(t, t[i].dir) IN
       CASE st.err = "EACCES" -> ScanMounts(t, i + 1, dev)
         [] st.err = "ENOENT" -> "fatal"
         [] st.dev = dev      -> t[i].type
         [] OTHER         -> ScanMounts(t, i + 1, dev)

(* Mutant: a type not found is returned as NULL, not "unknown". *)
FilesystemTypeUncachedNoFallback(dev, opened) ==
  LET type == ScanMounts(table, 1, dev) IN
  CASE ~opened       -> [phase |-> "fatal_setmntent", name |-> "NULL", known |-> FALSE]
    [] type = "fatal" -> [phase |-> "fatal_stat", name |-> "NULL", known |-> FALSE]
    [] OTHER          -> [phase |-> "run", name |-> type, known |-> type # "NULL"]

(* filesystem_type_uncached: setmntent may fail (fatal); an entry not    *)
(* found is "unknown" and leaves fstype_known 0.                          *)
FilesystemTypeUncached(dev, opened) ==
  LET type == ScanMounts(table, 1, dev) IN
  CASE ~opened        -> [phase |-> "fatal_setmntent", name |-> "NULL", known |-> FALSE]
    [] type = "fatal" -> [phase |-> "fatal_stat", name |-> "NULL", known |-> FALSE]
    [] type = "NULL"  -> [phase |-> "run", name |-> "unknown", known |-> FALSE]
    [] OTHER          -> [phase |-> "run", name |-> type, known |-> TRUE]

(* Mutant: the cached name is returned whatever the device. *)
CacheHitAnyDev(dev) == current_fstype # "NULL" /\ fstype_known

(* The cached name is returned for the same device, if it was known. *)
CacheHit(dev) == current_fstype # "NULL" /\ fstype_known /\ dev = current_dev

(* The entries a file can be found on: not shadowed by a later mount on *)
(* the same directory or above it.                                      *)
Visible(t) == {i \in DOMAIN t : t[i].type # "ignore" /\ Covering(t, t[i].dir) = i}

(* A table of MountTables with device numbers 1, 2, ... in order. *)
Unnumbered(t) == [i \in DOMAIN t |-> [dir |-> t[i].dir, type |-> t[i].type, devopt |-> t[i].devopt]]

DevsInUse == {table[i].dev : i \in DOMAIN table}

Init ==
  /\ \E t \in MountTables : table = [i \in DOMAIN t |-> t[i] @@ [dev |-> i]]
  /\ next_dev = Len(table) + 1 /\ changes = 0
  /\ eacces \in SUBSET (Dirs \ {Root})
  /\ present \in SUBSET (Dirs \ {Root})
  /\ current_fstype = "NULL" /\ current_dev = 0 /\ fstype_known = FALSE
  /\ file_dev = 0 /\ answer = "none" /\ queries = 0 /\ phase = "run"

(* filesystem_type (path, relpath, statp) for a file on file system dev. *)
FilesystemType ==
  /\ phase = "run" /\ queries < MaxQueries
  /\ queries' = queries + 1
  /\ \E v \in Visible(table) :
       LET dev == table[v].dev IN
       IF CacheHit(dev)
       THEN /\ answer' = current_fstype /\ file_dev' = dev
            /\ UNCHANGED <<current_fstype, current_dev, fstype_known, phase>>
       ELSE \E opened \in BOOLEAN :
              LET r == FilesystemTypeUncached(dev, opened) IN
              /\ current_dev' = dev
              /\ current_fstype' = r.name
              /\ fstype_known' = r.known
              /\ answer' = IF r.phase = "run" THEN r.name ELSE answer
              /\ file_dev' = IF r.phase = "run" THEN dev ELSE file_dev
              /\ phase' = r.phase
  /\ UNCHANGED <<table, next_dev, changes, eacces, present>>

(* umount: a file system with nothing mounted on or under its mount point. *)
Umount ==
  /\ phase = "run" /\ changes < MaxChanges
  /\ \E i \in 2..Len(table) :
       /\ \A j \in DOMAIN table : j > i => ~IsAncestorOrSelf(table[i].dir, table[j].dir)
       /\ table' = RemoveAt(table, i)
  /\ changes' = changes + 1
  /\ UNCHANGED <<next_dev, eacces, present, current_fstype, current_dev, fstype_known,
                 file_dev, answer, queries, phase>>

(* mount: a new file system on top of the table, with a fresh device     *)
(* number or, with ReuseDevs, the lowest one free.                       *)
Mount ==
  /\ phase = "run" /\ changes < MaxChanges
  /\ \E e \in [dir : Dirs, type : Types \cup {"ignore"}, devopt : BOOLEAN] :
       LET dev == IF ReuseDevs THEN CHOOSE d \in 1..next_dev :
                                      /\ d \notin DevsInUse
                                      /\ \A c \in 1..next_dev \ DevsInUse : d <= c
                  ELSE next_dev
       IN  /\ Append(Unnumbered(table), e) \in MountTables
           /\ table' = Append(table, e @@ [dev |-> dev])
           /\ next_dev' = IF dev = next_dev THEN next_dev + 1 ELSE next_dev
  /\ changes' = changes + 1
  /\ UNCHANGED <<eacces, present, current_fstype, current_dev, fstype_known,
                 file_dev, answer, queries, phase>>

Next == FilesystemType \/ Umount \/ Mount

Spec == Init /\ [][Next]_vars

-----------------------------------------------------------------------------
TypeOK ==
  /\ current_fstype \in Types \cup {"NULL", "unknown"}
  /\ answer \in Types \cup {"none", "unknown"}
  /\ current_dev \in 0..next_dev /\ file_dev \in 0..next_dev
  /\ \A i \in DOMAIN table : table[i].dev \in 1..(next_dev - 1)
  /\ fstype_known \in BOOLEAN /\ queries \in 0..MaxQueries
  /\ phase \in {"run", "fatal_setmntent", "fatal_stat"}

Lookup == INSTANCE FsTypeLookup WITH mounts <- table, asked <- file_dev,
                                    calls <- queries, running <- (phase = "run")

(* Every name filesystem_type returns, from the cache or from the mount  *)
(* table, is the type of the file system the file is on, or "unknown",   *)
(* whatever was mounted and unmounted since an earlier call:             *)
(* the cached implementation refines the contract of FsTypeLookup.       *)
ReturnsTypeOfFileSystem == Lookup!Spec

(* Spec section 6: fstype returns a name or "unknown".  Reading the mount *)
(* table never makes find exit, except when the table cannot be opened.  *)
LookupNeverExits == phase # "fatal_stat"
=============================================================================
