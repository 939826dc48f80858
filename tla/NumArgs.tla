------------------------------ MODULE NumArgs -------------------------------
(***************************************************************************)
(* The typed arguments of -links/-inum/-uid/-gid (insert_num), -size      *)
(* (parse_size), -type/-xtype (insert_type), -maxdepth/-mindepth          *)
(* (insert_depthspec) and -user (parse_user) in src/find/parser.c, with   *)
(* the helpers collect_arg, get_comp_type and get_num.  An argument is a  *)
(* string over a small alphabet; uintmax_t holds 0..UMax.  get_num reads  *)
(* the number with gnulib's xstrtoumax (base 10, no suffixes), which is   *)
(* not in src: it skips leading blanks, rejects '-', lets strtoumax take  *)
(* one '+', and fails on overflow or on any character after the digits.  *)
(***************************************************************************)
EXTENDS Naturals, SequencesExt

CONSTANTS
  Primaries,    \* the primaries tried: "links", "size", "type"
  Alphabet,     \* characters arguments are made of
  ArgLen,       \* longest argument tried
  UMax,         \* largest uintmax_t
  IntMax,       \* largest int
  Unsupported,  \* type letters the build rejects (no S_IFDOOR: "D")
  UidMax,       \* UID_T_MAX
  Passwd        \* the user database: getpwnam's pw_uid of each name

Digit == [c \in {"0", "1", "5"} |-> CASE c = "0" -> 0 [] c = "1" -> 1 [] OTHER -> 5]
SizeSuffix == [c \in {"b", "c", "w", "k"} |->
                 CASE c = "b" -> 512 [] c = "c" -> 1 [] c = "w" -> 2 [] OTHER -> 1024]
TypeLetters == {"b", "c", "d", "f", "l", "p", "s", "D"}

ASSUME Primaries \subseteq {"links", "size", "type", "maxdepth", "user"}
ASSUME UMax \in Nat /\ IntMax \in Nat /\ UidMax \in 0..UMax
ASSUME Unsupported \subseteq TypeLetters

VARIABLES
  input,   \* the primary and its argument (present = FALSE: end of argv)
  result   \* what the parser made of it; status "none" before

vars == <<input, result>>

(* The first position at or after i whose character is not in S. *)
Skip(s, i, S) ==
  LET k == SelectInSubSeq(s, i, Len(s), LAMBDA c : c \notin S)
  IN  IF k = 0 THEN Len(s) + 1 ELSE k

Value(ds) == FoldLeft(LAMBDA acc, c : acc * 10 + Digit[c], 0, ds)

(* xstrtoumax (s, &pend, 10, &num, ""): [ok, num]. *)
Xstrtoumax(s) ==
  LET b    == Skip(s, 1, {" "})
      sign == b <= Len(s) /\ s[b] = "+"
      d    == IF sign THEN b + 1 ELSE b
      e    == Skip(s, d, DOMAIN Digit)
  IN  CASE b <= Len(s) /\ s[b] = "-" -> [ok |-> FALSE, num |-> 0]
        [] e = d                     -> [ok |-> FALSE, num |-> 0]
        [] Value(SubSeq(s, d, e - 1)) > UMax -> [ok |-> FALSE, num |-> 0]
        [] e <= Len(s)               -> [ok |-> FALSE, num |-> 0]
        [] OTHER -> [ok |-> TRUE, num |-> Value(SubSeq(s, d, e - 1))]

(* Mutant: the prefix is recognised but not skipped. *)
GetCompTypeNoAdvance(s) ==
  CASE s # <<>> /\ s[1] = "+" -> [kind |-> "GT", rest |-> s]
    [] s # <<>> /\ s[1] = "-" -> [kind |-> "LT", rest |-> s]
    [] OTHER                  -> [kind |-> "EQ", rest |-> s]

(* get_comp_type: an optional '+' or '-' and what follows it. *)
GetCompType(s) ==
  CASE s # <<>> /\ s[1] = "+" -> [kind |-> "GT", rest |-> Tail(s)]
    [] s # <<>> /\ s[1] = "-" -> [kind |-> "LT", rest |-> Tail(s)]
    [] OTHER                  -> [kind |-> "EQ", rest |-> s]

(* get_num (str, &num, &comp_type). *)
GetNum(s) ==
  LET c == GetCompType(s)
      x == Xstrtoumax(c.rest)
  IN  [ok |-> x.ok, kind |-> c.kind, num |-> x.num]

Result(status, kind, num, blksize, types, next) ==
  [status |-> status, kind |-> kind, num |-> num, blksize |-> blksize,
   types |-> types, next |-> next]

Rejected(status) == Result(status, "EQ", 0, 0, {}, 0)

(* insert_num: collect_arg, then get_num; a bad number is fatal. *)
InsertNum(i) ==
  LET g == GetNum(i.arg) IN
  CASE ~i.present -> Rejected("missing")
    [] ~g.ok      -> Rejected("fatal_non_numeric")
    [] OTHER      -> Result("ok", g.kind, g.num, 0, {}, 1)

(* parse_size: the last character picks the block size and is cut off  *)
(* (in place, in argv); a digit there means 512-byte blocks.            *)
ParseSize(i) ==
  LET s      == i.arg
      last   == s[Len(s)]
      body   == IF last \in DOMAIN SizeSuffix THEN Front(s) ELSE s
      blk    == IF last \in DOMAIN SizeSuffix THEN SizeSuffix[last] ELSE 512
      g      == GetNum(body)
  IN  CASE ~i.present                                 -> Rejected("missing")
        [] s = <<>>                                   -> Rejected("fatal_null")
        [] last \notin DOMAIN SizeSuffix \cup DOMAIN Digit -> Rejected("fatal_size_type")
        [] ~g.ok                                      -> Rejected("fatal_invalid")
        [] OTHER -> Result("ok", g.kind, g.num, blk, {}, 1)

(* Mutant: a list ending on ',' is accepted. *)
RECURSIVE TypeListTrailingComma(_, _, _)
TypeListTrailingComma(s, k, seen) ==
  LET c == s[k] IN
  CASE c \notin TypeLetters   -> Rejected("fatal_unknown_type")
    [] c \in Unsupported      -> Rejected("fatal_unsupported_type")
    [] c \in seen             -> Rejected("fatal_duplicate_type")
    [] k = Len(s)             -> Result("ok", "EQ", 0, 0, seen \cup {c}, 1)
    [] s[k + 1] # ","         -> Rejected("fatal_separator")
    [] k + 1 = Len(s)         -> Result("ok", "EQ", 0, 0, seen \cup {c}, 1)
    [] OTHER                  -> TypeListTrailingComma(s, k + 2, seen \cup {c})

(* The loop of insert_type from position k: a letter, not seen before,  *)
(* then the end or ',' and another letter.                              *)
RECURSIVE TypeList(_, _, _)
TypeList(s, k, seen) ==
  LET c == s[k] IN
  CASE c \notin TypeLetters   -> Rejected("fatal_unknown_type")
    [] c \in Unsupported      -> Rejected("fatal_unsupported_type")
    [] c \in seen             -> Rejected("fatal_duplicate_type")
    [] k = Len(s)             -> Result("ok", "EQ", 0, 0, seen \cup {c}, 1)
    [] s[k + 1] # ","         -> Rejected("fatal_separator")
    [] k + 1 = Len(s)         -> Rejected("fatal_trailing_comma")
    [] OTHER                  -> TypeList(s, k + 2, seen \cup {c})

(* insert_type (argv, arg_ptr, entry, pred_type). *)
InsertType(i) ==
  CASE ~i.present    -> Rejected("missing")
    [] i.arg = <<>>  -> Rejected("fatal_empty_type")
    [] OTHER         -> TypeList(i.arg, 1, {})

(* safe_atoi (util.c, not in src): strtol in base 10 (leading blanks, a *)
(* sign, digits); no digits, a suffix, or a value outside int is fatal.  *)
SafeAtoi(s) ==
  LET b   == Skip(s, 1, {" "})
      sgn == b <= Len(s) /\ s[b] \in {"+", "-"}
      d   == IF sgn THEN b + 1 ELSE b
      e   == Skip(s, d, DOMAIN Digit)
      v   == (IF sgn /\ s[b] = "-" THEN -1 ELSE 1) * Value(SubSeq(s, d, e - 1))
  IN  CASE e = d                            -> [ok |-> FALSE, num |-> 0]
        [] v > IntMax \/ v < -IntMax - 1    -> [ok |-> FALSE, num |-> 0]
        [] e <= Len(s)                      -> [ok |-> FALSE, num |-> 0]
        [] OTHER                            -> [ok |-> TRUE, num |-> v]

(* Mutant: the argument goes to safe_atoi without the strspn check. *)
InsertDepthspecNoSpan(i) ==
  LET a == SafeAtoi(i.arg) IN
  CASE ~i.present        -> Rejected("missing")
    [] a.ok /\ a.num >= 0 -> Result("ok", "EQ", a.num, 0, {}, 1)
    [] OTHER             -> Rejected("fatal_depth")

(* insert_depthspec: only digits, at least one, then safe_atoi; a        *)
(* negative limit, or anything else, is fatal.                            *)
InsertDepthspec(i) ==
  LET span == Skip(i.arg, 1, DOMAIN Digit) - 1     \* strspn (depthstr, digits)
      a    == SafeAtoi(i.arg)
  IN  CASE ~i.present                                -> Rejected("missing")
        [] span > 0 /\ span = Len(i.arg) /\ ~a.ok    -> Rejected("fatal_range")
        [] span > 0 /\ span = Len(i.arg) /\ a.num >= 0 -> Result("ok", "EQ", a.num, 0, {}, 1)
        [] OTHER                                     -> Rejected("fatal_depth")

(* Mutant: the argument is read as a number before it is looked up. *)
ParseUserNumberFirst(i) ==
  LET x == Xstrtoumax(i.arg) IN
  CASE ~i.present                 -> Rejected("missing")
    [] x.ok /\ x.num <= UidMax    -> Result("ok", "EQ", x.num, 0, {}, 1)
    [] i.arg \in DOMAIN Passwd    -> Result("ok", "EQ", Passwd[i.arg], 0, {}, 1)
    [] OTHER                      -> Rejected("fatal_user")

(* parse_user (parse_group is the same with getgrnam and GID_T_MAX):     *)
(* getpwnam first; a name it does not find is read with xstrtoumax, and  *)
(* one that fails, or exceeds UID_T_MAX, is fatal.                        *)
ParseUser(i) ==
  LET x == Xstrtoumax(i.arg) IN
  CASE ~i.present                 -> Rejected("missing")
    [] i.arg \in DOMAIN Passwd    -> Result("ok", "EQ", Passwd[i.arg], 0, {}, 1)
    [] x.ok /\ x.num <= UidMax    -> Result("ok", "EQ", x.num, 0, {}, 1)
    [] OTHER                      -> Rejected("fatal_user")

Inputs ==
  [primary : Primaries, present : {TRUE}, arg : BoundedSeq(Alphabet, ArgLen)] \cup
  [primary : Primaries, present : {FALSE}, arg : {<<>>}]

Init == input \in Inputs /\ result = Rejected("none")

(* parse_links, parse_size, parse_type, parse_maxdepth or parse_user on   *)
(* the argument.                                                          *)
ParseArgument ==
  /\ result = Rejected("none")
  /\ result' = CASE input.primary = "links" -> InsertNum(input)
                 [] input.primary = "size"  -> ParseSize(input)
                 [] input.primary = "type"  -> InsertType(input)
                 [] input.primary = "user"  -> ParseUser(input)
                 [] OTHER                   -> InsertDepthspec(input)
  /\ UNCHANGED input

Spec == Init /\ [][ParseArgument]_vars

-----------------------------------------------------------------------------
(* The result's fields; TypeOK adds the input, which no step changes. *)
ResultOK ==
  result.status = "ok" =>
       /\ result.kind \in {"GT", "LT", "EQ"} /\ result.num \in 0..UMax \cup 0..IntMax
       /\ result.blksize \in {0} \cup {SizeSuffix[c] : c \in DOMAIN SizeSuffix}
       /\ result.types \subseteq TypeLetters \ Unsupported
       /\ result.next = 1

TypeOK == input \in Inputs /\ ResultOK

(* Spec section 4.D: a number is +N, -N or N, for greater, less, equal. *)
WellFormed(s) ==
  LET b == IF s # <<>> /\ s[1] \in {"+", "-"} THEN 2 ELSE 1 IN
  b <= Len(s) /\ \A k \in b..Len(s) : s[k] \in DOMAIN Digit

SpecKind(s) == CASE s[1] = "+" -> "GT" [] s[1] = "-" -> "LT" [] OTHER -> "EQ"

SpecValue(s) == Value(SubSeq(s, IF s[1] \in {"+", "-"} THEN 2 ELSE 1, Len(s)))

(* The number of a -size argument: without its unit letter, if any. *)
NumberPart(i) ==
  IF i.primary = "size" /\ i.arg # <<>> /\ i.arg[Len(i.arg)] \in DOMAIN SizeSuffix
  THEN Front(i.arg) ELSE i.arg

(* Every well-formed number (with a unit letter for -size) that fits in  *)
(* uintmax_t is accepted with its comparison, its value and its unit;   *)
(* one that does not fit is rejected.                                    *)
NumberAsSpecified ==
  result.status # "none" /\ input.present /\ input.primary \in {"links", "size"} /\
  WellFormed(NumberPart(input)) =>
    LET n == NumberPart(input) IN
    IF SpecValue(n) <= UMax
    THEN /\ result.status = "ok"
         /\ result.kind = SpecKind(n) /\ result.num = SpecValue(n)
         /\ input.primary = "size" =>
              result.blksize = IF n = input.arg THEN 512 ELSE SizeSuffix[Last(input.arg)]
    ELSE result.status # "ok"

(* Spec sections 4.D and 7: a malformed number is a fatal parse error;  *)
(* only +N, -N and N are accepted.                                      *)
OnlyWellFormedNumbers ==
  result.status = "ok" /\ input.primary \in {"links", "size"} => WellFormed(NumberPart(input))

(* Spec section 4.D: type letters b/c/d/f/l/p/s/D, separated by ','.     *)
(* The argument is accepted exactly when it lists distinct letters the  *)
(* build supports, one per item, and the test then matches those types. *)
TypeListAsSpecified ==
  result.status # "none" /\ input.present /\ input.primary = "type" =>
    LET s     == input.arg
        items == {k \in DOMAIN s : k % 2 = 1}
        good  == /\ Len(s) % 2 = 1
                 /\ \A k \in items : s[k] \in TypeLetters \ Unsupported
                 /\ \A k \in DOMAIN s \ items : s[k] = ","
                 /\ \A j, k \in items : j # k => s[j] # s[k]
    IN  /\ (result.status = "ok") = good
        /\ good => result.types = {s[k] : k \in items}

(* Spec section 4.D and the diagnostic of insert_depthspec: the argument *)
(* of -maxdepth and -mindepth is a decimal number.  Exactly the strings  *)
(* of digits whose value fits in an int are accepted, as that value; a   *)
(* sign or a blank, which strtol inside safe_atoi would take, is not.    *)
DepthAsSpecified ==
  result.status # "none" /\ input.present /\ input.primary = "maxdepth" =>
    LET s    == input.arg
        good == s # <<>> /\ (\A k \in DOMAIN s : s[k] \in DOMAIN Digit) /\ Value(s) <= IntMax
    IN  /\ (result.status = "ok") = good
        /\ good => result.num = Value(s)

(* POSIX find, -user uname: a name the user database holds is that      *)
(* user; a decimal integer it does not hold is read as a user ID.        *)
(* parse_user looks the name up before it tries the number, so a user   *)
(* named "5" is found by name, and an ID above UID_T_MAX is refused,     *)
(* never narrowed into uid_t.                                            *)
UserAsSpecified ==
  result.status # "none" /\ input.present /\ input.primary = "user" =>
    LET s       == input.arg
        decimal == s # <<>> /\ \A k \in DOMAIN s : s[k] \in DOMAIN Digit
    IN  /\ s \in DOMAIN Passwd => result.status = "ok" /\ result.num = Passwd[s]
        /\ s \notin DOMAIN Passwd /\ decimal =>
             /\ (result.status = "ok") = (Value(s) <= UidMax)
             /\ result.status = "ok" => result.num = Value(s)
=============================================================================
