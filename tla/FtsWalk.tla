------------------------------ MODULE FtsWalk ------------------------------
(***************************************************************************)
(* The fts(3) directory walker that ftsfind.c drives (gnulib, not part of  *)
(* this repository; modelled from spec section 4.A, PathWalker).           *)
(*                                                                         *)
(* One starting point is walked depth first.  A directory is reported as  *)
(* D on the way in and DP on the way out; anything else is reported once. *)
(* Entries of a directory come in no fixed order.  The caller may mark    *)
(* the entry just returned with fts_set: SKIP (do not descend) or AGAIN   *)
(* (return it once more, now stat'ed).  What can go wrong with a node is  *)
(* fixed per behaviour by the function fault, chosen in Init.             *)
(***************************************************************************)
EXTENDS Naturals, Sequences, FiniteSets

CONSTANTS
  Node,       \* the files of the tree (model values)
  Root,       \* the starting point
  Parent,     \* [Node \ {Root} -> Node]: the containing directory
  Dir,        \* the nodes that are directories
  MaxFaults   \* at most this many nodes have a fault in one behaviour

ASSUME Root \in Node /\ Dir \subseteq Node /\ Root \in Dir
ASSUME Parent \in [Node \ {Root} -> Dir]
ASSUME MaxFaults \in Nat

VARIABLES
  ent,     \* the entry fts_read returned last: [node, info], or NoEnt
  instr,   \* fts_set instruction recorded on ent: "none", "skip", "again"
  stack,   \* directories fts has descended into, outermost first
  todo,    \* todo[d]: children of an entered directory d not yet returned
  fault    \* fault[n]: how the file system misbehaves for n (constant)

ftsVars == <<ent, instr, stack, todo, fault>>

NoEnt == [node |-> Root, info |-> "none"]

Children(d) == {c \in Node \ {Root} : Parent[c] = d}

RECURSIVE Depth(_)
Depth(n) == IF n = Root THEN 0 ELSE Depth(Parent[n]) + 1

RECURSIVE Ancestors(_)
Ancestors(n) == IF n = Root THEN {} ELSE {Parent[n]} \cup Ancestors(Parent[n])

(* Faults of a directory: "nostat" is reported as NSOK (type known from  *)
(* the directory entry only), "dnr"/"dnr_gone" cannot be read (EACCES or *)
(* ENOENT), "err" cannot be entered, "cycle" is a loop back to an        *)
(* ancestor, "ns"/"ns_gone"/"ns_loop" fail to stat (EACCES, ENOENT,      *)
(* ELOOP).  Faults of other files: "nostat", the stat failures, and      *)
(* "slnone"/"slnone_loop", a dangling symbolic link, or one in a loop.   *)
DirFaults  == {"nostat", "dnr", "dnr_gone", "err", "cycle", "ns", "ns_gone", "ns_loop"}
FileFaults == {"nostat", "ns", "ns_gone", "ns_loop", "slnone", "slnone_loop"}
RootFaults == {"dnr", "err", "ns", "ns_gone"}

FaultsOf(n) ==
  IF n = Root THEN RootFaults ELSE IF n \in Dir THEN DirFaults ELSE FileFaults

FaultAssignments ==
  {f \in [Node -> {"ok"} \cup DirFaults \cup FileFaults] :
     /\ \A n \in Node : f[n] \in {"ok"} \cup FaultsOf(n)
     /\ Cardinality({n \in Node : f[n] # "ok"}) <= MaxFaults}

(* fts_info of the first report of node n. *)
FirstInfo(n) ==
  CASE fault[n] \in {"ns", "ns_gone", "ns_loop"}   -> "NS"
    [] fault[n] = "nostat"                         -> "NSOK"
    [] fault[n] = "cycle"                          -> "DC"
    [] fault[n] \in {"slnone", "slnone_loop"}      -> "SLNONE"
    [] n \in Dir                                   -> "D"
    [] OTHER                                       -> "F"

Entry(n, info) == [node |-> n, info |-> info]

(* ENOENT is the error of the entry: the file vanished under the walk. *)
IsENOENT(e) == fault[e.node] \in {"ns_gone", "dnr_gone"}

(* The directory fts works in while it reports e (fts_cwd_fd). *)
CwdFd(e) == IF e.node = Root THEN "AT_FDCWD" ELSE Parent[e.node]

FtsOpen ==
  /\ fault \in FaultAssignments
  /\ ent = NoEnt
  /\ instr = "none"
  /\ stack = <<>>
  /\ todo = [d \in Dir |-> {}]

(* Return the next child of the innermost entered directory, or leave   *)
(* that directory with its DP report, or end the walk.                  *)
NextAfterLeaf ==
  IF stack = <<>>
  THEN /\ ent' = NoEnt /\ UNCHANGED <<stack, todo>>
  ELSE LET d == stack[Len(stack)] IN
       IF todo[d] # {}
       THEN \E c \in todo[d] :
              /\ ent' = Entry(c, FirstInfo(c))
              /\ todo' = [todo EXCEPT ![d] = @ \ {c}]
              /\ UNCHANGED stack
       ELSE /\ ent' = Entry(d, "DP")
            /\ stack' = SubSeq(stack, 1, Len(stack) - 1)
            /\ UNCHANGED todo

(* FTS_AGAIN: the entry is returned once more, stat'ed this time. *)
Restated(e) ==
  IF e.info = "NSOK" THEN IF e.node \in Dir THEN "D" ELSE "F" ELSE e.info

(* fts_read: the first call returns the starting point. *)
FtsRead ==
  /\ instr' = "none"
  /\ UNCHANGED fault
  /\ IF ent = NoEnt
     THEN /\ ent' = Entry(Root, FirstInfo(Root)) /\ UNCHANGED <<stack, todo>>
     ELSE CASE instr = "again" ->
                 /\ ent' = Entry(ent.node, Restated(ent))
                 /\ UNCHANGED <<stack, todo>>
            [] ent.info = "D" /\ instr = "skip" ->
                 /\ ent' = Entry(ent.node, "DP") /\ UNCHANGED <<stack, todo>>
            [] ent.info = "D" /\ fault[ent.node] \in {"dnr", "dnr_gone"} ->
                 /\ ent' = Entry(ent.node, "DNR") /\ UNCHANGED <<stack, todo>>
            [] ent.info = "D" /\ fault[ent.node] = "err" ->
                 /\ ent' = Entry(ent.node, "ERR") /\ UNCHANGED <<stack, todo>>
            [] ent.info = "D" /\ Children(ent.node) = {} ->
                 /\ ent' = Entry(ent.node, "DP") /\ UNCHANGED <<stack, todo>>
            [] ent.info = "D" ->
                 \E c \in Children(ent.node) :
                   /\ ent' = Entry(c, FirstInfo(c))
                   /\ stack' = Append(stack, ent.node)
                   /\ todo' = [todo EXCEPT ![ent.node] = Children(ent.node) \ {c}]
            [] OTHER -> NextAfterLeaf

(* fts_set on the entry just returned. *)
FtsSet(i) == instr' = i
=============================================================================
