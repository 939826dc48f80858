------------------------------ MODULE MCFsType ------------------------------
(* Mount points "/", "/d" and "/d/e"; up to three mounted file systems of *)
(* two types, with or without a "dev=" option, and MNTTYPE_IGNORE.       *)
EXTENDS FsType

MCDirs == {"/", "d", "e"}
MCParent == [x \in {"d", "e"} |-> IF x = "d" THEN "/" ELSE "d"]
MCTypes == {"ext4", "tmpfs"}

MCEntries == [dir : MCDirs, type : MCTypes \cup {"ignore"}, devopt : BOOLEAN]

(* The first entry is the root file system. *)
MCAllTables ==
  {t \in UNION {[1..n -> MCEntries] : n \in 1..3} :
     t[1].dir = "/" /\ t[1].type # "ignore"}

(* Tables where no file system is mounted over another one's mount point *)
(* or over a directory above it.                                         *)
MCFlatTables == {t \in MCAllTables : \A i \in DOMAIN t : Covering(t, t[i].dir) = i}
=============================================================================
