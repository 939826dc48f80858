------------------------------ MODULE TimeArgs ------------------------------
(***************************************************************************)
(* The conversion of a time argument into a reference time, in            *)
(* src/find/parser.c: get_comp_type, get_relative_timestamp, and its     *)
(* callers parse_time (-atime/-ctime/-mtime, in days), do_parse_xmin      *)
(* (-amin/-cmin/-mmin, in minutes) and parse_used (-used, in days from an *)
(* origin of zero).                                                       *)
(*                                                                         *)
(* Scaling: time_t has Width bits; a day is DaySecs seconds and a minute  *)
(* MinSecs.  The number the user writes after the +/- prefix is           *)
(* Num / Quantum, and nanoseconds are counted in units of 1/NsPerSec s    *)
(* with NsPerSec = Quantum, so that modf's fraction is exact.  As with a  *)
(* double, only offsets of fewer than FracLimit seconds carry a fraction; *)
(* larger ones are whole seconds.                                         *)
(*                                                                         *)
(* The conversion of a double outside the range of time_t is undefined;   *)
(* it is modelled by what the builds produce: x86-64 (cvttsd2si) gives    *)
(* the smallest time_t, AArch64 (fcvtzs) saturates.  Signed overflow of   *)
(* time_t arithmetic wraps.                                               *)
(***************************************************************************)
EXTENDS Integers

CONSTANTS
  Width,      \* bits of time_t
  DaySecs,    \* DAYSECS
  MinSecs,    \* seconds per minute
  Quantum,    \* the argument is Num / Quantum
  NsPerSec,   \* nanosec_per_sec, in the model's unit
  FracLimit,  \* offsets with a fraction are below this many seconds
  Nums,       \* numerators tried for the argument
  DayStarts,  \* values tried for options.cur_day_start, [sec, nsec]
  Builds      \* subset of {"x86_64", "aarch64"}

ASSUME NsPerSec = Quantum /\ Quantum > 0 /\ Width > 1
ASSUME Builds \subseteq {"x86_64", "aarch64"}

VARIABLES
  input,   \* the argument and the program state it is parsed in
  result   \* what the parser made of it; status "none" before

vars == <<input, result>>

TMin == -(2 ^ (Width - 1))
TMax == 2 ^ (Width - 1) - 1

(* Two's complement wrap-around of a signed sum. *)
Wrap(v) == ((v - TMin) % (2 ^ Width)) + TMin

(* modf: the integral part, rounded toward zero. *)
Trunc(a, b) == IF a >= 0 THEN a \div b ELSE -((-a) \div b)

(* The argument forms: a number, text strtod rejects, and "nan". *)
Forms == {"num", "bad", "nan"}

(* Arguments with a fraction of a second stay within FracLimit seconds. *)
Inputs ==
  {i \in [caller : {"time", "xmin", "used"}, prefix : {"+", "-", ""}, form : Forms,
          num : Nums, start : DayStarts] :
     LET unit == IF i.caller = "xmin" THEN MinSecs ELSE DaySecs IN
     /\ i.form # "num" => i.num = 0
     /\ (i.num * unit) % Quantum # 0 => i.num * unit < Quantum * FracLimit
                                   /\ -(i.num * unit) < Quantum * FracLimit}

(* get_comp_type: the optional + or - prefix. *)
GetCompType(prefix) ==
  CASE prefix = "+" -> "GT" [] prefix = "-" -> "LT" [] OTHER -> "EQ"

(* get_relative_timestamp inverts the sense of the comparison. *)
Inverted(k) == CASE k = "LT" -> "GT" [] k = "GT" -> "LT" [] OTHER -> "EQ"

(* (time_t) of a double holding the whole number v. *)
ToTimeT(build, v) ==
  CASE TMin <= v /\ v <= TMax -> v
    [] build = "x86_64"       -> TMin
    [] OTHER                  -> IF v > TMax THEN TMax ELSE TMin

(* Mutant: the test reads "seconds <= 0". *)
OverflowDetectedAtZero(originSec, sec, seconds) ==
  (originSec < sec) # (seconds <= 0)

(* The overflow test after the subtraction. *)
OverflowDetected(originSec, sec, seconds) ==
  (originSec < sec) # (seconds < 0)

(* Mutant: the carry adds a second's nanoseconds but keeps tv_sec. *)
BorrowKeepsSec(sec, nsec) ==
  IF nsec < 0 THEN [sec |-> sec, nsec |-> nsec + NsPerSec]
  ELSE [sec |-> sec, nsec |-> nsec]

(* The carry when origin.tv_nsec < nanosec. *)
Borrow(sec, nsec) ==
  IF nsec < 0 THEN [sec |-> Wrap(sec - 1), nsec |-> nsec + NsPerSec]
  ELSE [sec |-> sec, nsec |-> nsec]

Rejected(status) == [status |-> status, kind |-> "EQ", sec |-> 0, nsec |-> 0]

(* get_relative_timestamp (str, result, origin, sec_per_unit, ...). *)
GetRelativeTimestamp(i, origin, unit, build) ==
  LET scaled  == i.num * unit                  \* offset * sec_per_unit
      seconds == Trunc(scaled, Quantum)
      nanosec == scaled - seconds * Quantum    \* fraction, with the sign
      sec     == ToTimeT(build, origin.sec - seconds)
      ts      == Borrow(sec, origin.nsec - nanosec)
  IN  CASE i.form = "bad" -> Rejected("invalid")
        [] i.form = "nan" -> Rejected("fatal_nan")
        [] OverflowDetected(origin.sec, sec, seconds) -> Rejected("fatal_overflow")
        [] OTHER -> [status |-> "ok", kind |-> Inverted(GetCompType(i.prefix)),
                     sec |-> ts.sec, nsec |-> ts.nsec]

(* parse_time: "-n" days count from the end of today; the overflow test *)
(* compares two copies of the same signed sum.                          *)
ParseTime(i, build) ==
  LET later    == GetCompType(i.prefix) = "LT"
      expected == Wrap(i.start.sec + DaySecs - 1)
      origin   == IF later THEN [i.start EXCEPT !.sec = Wrap(@ + DaySecs - 1)]
                  ELSE i.start
  IN  IF later /\ expected # origin.sec THEN Rejected("fatal_today")
      ELSE GetRelativeTimestamp(i, origin, DaySecs, build)

(* do_parse_xmin: minutes count from the end of today. *)
DoParseXmin(i, build) ==
  GetRelativeTimestamp(i, [i.start EXCEPT !.sec = Wrap(@ + DaySecs)], MinSecs, build)

(* parse_used: the offset is a delta, counted from an origin of zero;   *)
(* an argument strtod rejects is fatal here ("Invalid argument").        *)
ParseUsed(i, build) ==
  LET r == GetRelativeTimestamp(i, [sec |-> 0, nsec |-> 0], DaySecs, build) IN
  IF r.status = "invalid" THEN Rejected("fatal_used") ELSE r

Init == input \in Inputs /\ result = Rejected("none")

Parse ==
  /\ result = Rejected("none")
  /\ \E build \in Builds :
       result' = CASE input.caller = "time" -> ParseTime(input, build)
                   [] input.caller = "xmin" -> DoParseXmin(input, build)
                   [] OTHER                 -> ParseUsed(input, build)
  /\ UNCHANGED input

Spec == Init /\ [][Parse]_vars

-----------------------------------------------------------------------------
Unit(i) == IF i.caller = "xmin" THEN MinSecs ELSE DaySecs

(* The origin the reference time counts back from, in exact arithmetic. *)
IdealOrigin(i) ==
  CASE i.caller = "used" -> 0
    [] i.caller = "xmin" -> i.start.sec + DaySecs
    [] OTHER -> i.start.sec + (IF GetCompType(i.prefix) = "LT" THEN DaySecs - 1 ELSE 0)

IdealNsec(i) == IF i.caller = "used" THEN 0 ELSE i.start.nsec

(* origin - offset in exact arithmetic, in units of 1/NsPerSec s. *)
IdealTime(i) == IdealOrigin(i) * NsPerSec + IdealNsec(i) - i.num * Unit(i)

(* The whole seconds of origin - offset, before the carry, in exact     *)
(* arithmetic: what the subtraction would give without a time_t limit.  *)
IdealSeconds(i) == IdealOrigin(i) - Trunc(i.num * Unit(i), Quantum)

Representable(i) == TMin <= IdealSeconds(i) /\ IdealSeconds(i) <= TMax

(* When origin - offset fits in time_t, the parser accepts the argument *)
(* and the reference time is exactly that instant (the carry of the     *)
(* nanoseconds included), with the comparison inverted.                 *)
ReferenceTimeExact ==
  result.status # "none" /\ input.form = "num" /\ Representable(input) =>
    /\ result.status = "ok"
    /\ result.sec * NsPerSec + result.nsec = IdealTime(input)
    /\ result.kind = Inverted(GetCompType(input.prefix))

(* The parser stops with "arithmetic overflow" only when origin - offset *)
(* really does not fit in time_t.                                        *)
NoSpuriousOverflow ==
  result.status # "none" /\ result.status = "fatal_overflow" => ~Representable(input)

OriginFits(i) == TMin <= IdealOrigin(i) /\ IdealOrigin(i) <= TMax

(* Spec sections 6 and 7: arithmetic overflow in a time computation is a *)
(* fatal error.  A numeric argument whose origin (the end of today of    *)
(* parse_time and do_parse_xmin) or origin - offset does not fit in      *)
(* time_t must stop the parser.                                          *)
OverflowDiagnosed ==
  result.status # "none" /\ input.form = "num"
  /\ ~(OriginFits(input) /\ Representable(input)) =>
    result.status \in {"fatal_overflow", "fatal_today"}

(* The reference time is a normalised timespec: the carry at the end of *)
(* get_relative_timestamp leaves 0 <= tv_nsec < one second.             *)
ReferenceTimeNormalized ==
  result.status # "none" /\ result.status = "ok" => 0 <= result.nsec /\ result.nsec < NsPerSec
=============================================================================
