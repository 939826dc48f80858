----------------------------- MODULE PrintQuoted -----------------------------
(***************************************************************************)
(* src/lib/printquoted.c: print_quoted, which -print, -fprint, -ls and    *)
(* -printf use for file names.  On a terminal the name is quoted by       *)
(* gnulib's quotearg_buffer into a stack buffer of BufSize (BUFSIZ)       *)
(* bytes or, when that is too small, quoted again into a heap buffer of  *)
(* the length quotearg_buffer reported plus one; qmark_chars replaces    *)
(* what is still unprintable by '?', a NUL is stored after the text, and *)
(* fprintf prints up to that NUL.  Elsewhere the name is printed as is.  *)
(*                                                                         *)
(* A name is a sequence of "a" (printable), "q" (the quote character)    *)
(* and "nl" (a control character).  quotearg_buffer and qmark_chars are  *)
(* not in src; they are modelled by their contracts: quotearg_buffer     *)
(* stores the first size bytes of the quoted text, a NUL after it if     *)
(* there is room, and returns the full length; qmark_chars, in a         *)
(* single-byte locale, replaces each unprintable byte in place.          *)
(***************************************************************************)
EXTENDS Naturals, SequencesExt

CONSTANTS
  BufSize,   \* BUFSIZ
  NameLen,   \* longest name tried
  Styles     \* quoting styles tried: "literal", "escape", "shell_always"

Chars == {"a", "q", "nl"}

VARIABLES
  input,   \* [tty, style, name]: dest_is_tty, the quoting style, s
  result   \* [status, out, in_bounds]; status "none" before the call

vars == <<input, result>>

(* The quoted text of a name in each style (gnulib quotearg). *)
Quote(style, s) ==
  CASE style = "literal" -> s
    [] style = "escape"  ->
         FlattenSeq([k \in DOMAIN s |-> IF s[k] = "nl" THEN <<"\\", "n">> ELSE <<s[k]>>])
    [] OTHER ->   \* '...', an embedded quote written as '\''
         <<"q">> \o FlattenSeq([k \in DOMAIN s |->
                                 IF s[k] = "q" THEN <<"q", "\\", "q", "q">> ELSE <<s[k]>>])
               \o <<"q">>

(* quotearg_buffer (buf, size, s, -1, qopts): what lands in the buffer. *)
Stored(size, q) == SubSeq(q, 1, Min({Len(q), size}))

(* qmark_chars (buf, len). *)
QmarkChars(t) == ReplaceAll(t, "nl", "?")

Printing(out, in_bounds) == [status |-> "ok", out |-> out, in_bounds |-> in_bounds]

NotYet == [status |-> "none", out |-> <<>>, in_bounds |-> TRUE]

(* The text fprintf prints from a buffer: all len bytes if the buffer   *)
(* holds them, otherwise bytes nobody wrote ("undef").                  *)
Printed(stored, len) == IF Len(stored) = len THEN QmarkChars(stored) ELSE <<"undef">>

(* Mutant: the stack buffer is used while len <= sizeof smallbuf. *)
PrintQuotedAtLimit(i) ==
  IF ~i.tty THEN Printing(i.name, TRUE)
  ELSE LET q    == Quote(i.style, i.name)
           len  == Len(q)
           size == IF len <= BufSize THEN BufSize ELSE len + 1
       IN  Printing(Printed(Stored(size, q), len), len < size)

(* Mutant: the heap buffer is allocated but not quoted into again. *)
PrintQuotedNoRequote(i) ==
  IF ~i.tty THEN Printing(i.name, TRUE)
  ELSE LET q    == Quote(i.style, i.name)
           len  == Len(q)
           size == IF len < BufSize THEN BufSize ELSE len + 1
       IN  Printing(IF len < BufSize THEN Printed(Stored(size, q), len) ELSE <<"undef">>,
                    len < size)

(* print_quoted: the stack buffer when len < sizeof smallbuf, else       *)
(* xmalloc (len + 1) and quotearg_buffer again; buf[len] = 0 is in the   *)
(* buffer exactly when len < its size.                                   *)
PrintQuoted(i) ==
  IF ~i.tty THEN Printing(i.name, TRUE)
  ELSE LET q    == Quote(i.style, i.name)
           len  == Len(q)
           size == IF len < BufSize THEN BufSize ELSE len + 1
       IN  Printing(Printed(Stored(size, q), len), len < size)

Inputs == [tty : BOOLEAN, style : Styles, name : BoundedSeq(Chars, NameLen)]

Init == input \in Inputs /\ result = NotYet

PrintName ==
  /\ result = NotYet
  /\ result' = PrintQuoted(input)
  /\ UNCHANGED input

Spec == Init /\ [][PrintName]_vars

-----------------------------------------------------------------------------
(* The result; TypeOK adds the input, which no step changes. *)
ResultOK ==
  result.status = "ok" =>
    /\ result.in_bounds \in BOOLEAN
    /\ result.out \in Seq(Chars \cup {"\\", "n", "?", "undef"})

TypeOK == input \in Inputs /\ ResultOK

(* Spec section 4.G: on a terminal, the whole name is printed in the     *)
(* chosen quoting style with every control character left by the style  *)
(* replaced by '?', however the length of the quoted text compares with  *)
(* BUFSIZ; elsewhere the name is printed unchanged.                      *)
PrintedAsQuoted ==
  result.status = "ok" =>
    result.out = IF input.tty THEN QmarkChars(Quote(input.style, input.name))
                 ELSE input.name

(* Every byte print_quoted stores, the terminating NUL included, lies    *)
(* within the buffer it stores into.                                     *)
WritesInBounds == result.status = "ok" => result.in_bounds
=============================================================================
