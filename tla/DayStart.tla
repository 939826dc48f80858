------------------------------ MODULE DayStart ------------------------------
(***************************************************************************)
(* -daystart and the time tests around it, in src/find/parser.c.  The     *)
(* origin a time test measures from is options.cur_day_start, which       *)
(* set_option_defaults (util.c, not in src) makes start_time minus a day, *)
(* and which parse_daystart moves, once (options.full_days), to the start  *)
(* of the local day: it adds a day, asks localtime for the time of day    *)
(* and subtracts it.  parse_time takes the origin as it is, a day less a  *)
(* second later for -mtime -N; do_parse_xmin a day later.  What           *)
(* get_relative_timestamp then does with the origin is TimeArgs.          *)
(*                                                                         *)
(* Times are whole seconds from the epoch (tv_nsec, which parse_daystart  *)
(* sets to 0, is left out).  The time zone is a UTC offset that changes   *)
(* once, at a switch time: a fixed zone, or a change of daylight saving.  *)
(***************************************************************************)
EXTENDS Integers, SequencesExt

CONSTANTS
  MaxWords,    \* longest expression tried
  DaySecs,     \* DAYSECS, seconds in a day
  StartTimes,  \* values of options.start_time
  Zones        \* time zones, as [before, after, switch]

Words == {"-daystart", "-mtime", "-mtime -", "-mmin"}
TimeWords == Words \ {"-daystart"}

VARIABLES
  input,          \* [words, start, zone, localtime_ok]
  result,         \* {the origin} given to each time test, {} for the others
  pos,            \* the index of the next word
  cur_day_start,  \* options.cur_day_start.tv_sec
  full_days       \* options.full_days

vars == <<input, result, pos, cur_day_start, full_days>>

(* The UTC offset at time t, and localtime's tm_hour, tm_min, tm_sec as  *)
(* seconds into the local day.  localtime returns NULL only for a time   *)
(* whose year does not fit in an int: the model lets it fail or not.     *)
Offset(z, t) == IF t < z.switch THEN z.before ELSE z.after
LocalSecs(z, t) == (t + Offset(z, t)) % DaySecs
LocalDay(z, t) == (t + Offset(z, t)) \div DaySecs

Init ==
  /\ input \in [words : BoundedSeq(Words, MaxWords), start : StartTimes,
                zone : Zones, localtime_ok : BOOLEAN]
  /\ result = [k \in DOMAIN input.words |-> {}]
  /\ pos = 1
  /\ cur_day_start = input.start - DaySecs
  /\ full_days = FALSE

Parsing(ws) == pos <= Len(input.words) /\ input.words[pos] \in ws

(* Mutant: -daystart moves the origin each time it is given. *)
ParseDaystartEachTime ==
  /\ Parsing({"-daystart"})
  /\ LET t == cur_day_start + DaySecs IN
     cur_day_start' = t - (IF input.localtime_ok THEN LocalSecs(input.zone, t)
                                                 ELSE t % DaySecs)
  /\ full_days' = TRUE
  /\ pos' = pos + 1
  /\ UNCHANGED <<input, result>>

(* parse_daystart: the first -daystart adds a day and subtracts the      *)
(* local time of day of the result (its UTC time of day when localtime   *)
(* fails); later ones change nothing.                                     *)
ParseDaystart ==
  /\ Parsing({"-daystart"})
  /\ IF full_days
     THEN UNCHANGED <<cur_day_start, full_days>>
     ELSE LET t == cur_day_start + DaySecs IN
          /\ cur_day_start' = t - (IF input.localtime_ok THEN LocalSecs(input.zone, t)
                                                         ELSE t % DaySecs)
          /\ full_days' = TRUE
  /\ pos' = pos + 1
  /\ UNCHANGED <<input, result>>

(* parse_time: origin = cur_day_start, moved to the end of that day for  *)
(* a comparison that get_comp_type reads as COMP_LT (-mtime -N).         *)
ParseTime ==
  /\ Parsing({"-mtime", "-mtime -"})
  /\ result' = [result EXCEPT ![pos] =
                  {cur_day_start + (IF input.words[pos] = "-mtime -" THEN DaySecs - 1 ELSE 0)}]
  /\ pos' = pos + 1
  /\ UNCHANGED <<input, cur_day_start, full_days>>

(* do_parse_xmin (-amin, -cmin, -mmin): origin = cur_day_start + DAYSECS. *)
DoParseXmin ==
  /\ Parsing({"-mmin"})
  /\ result' = [result EXCEPT ![pos] = {cur_day_start + DaySecs}]
  /\ pos' = pos + 1
  /\ UNCHANGED <<input, cur_day_start, full_days>>

Next == ParseDaystart \/ ParseTime \/ DoParseXmin

Spec == Init /\ [][Next]_vars

-----------------------------------------------------------------------------
StateOK ==
  /\ DOMAIN result = DOMAIN input.words
  /\ \A k \in DOMAIN result : \A o, p \in result[k] : o = p /\ o \in Int
  /\ pos \in 1..(Len(input.words) + 1)
  /\ cur_day_start \in Int /\ full_days \in BOOLEAN

TypeOK == input.words \in BoundedSeq(Words, MaxWords) /\ StateOK

UTC == [before |-> 0, after |-> 0, switch |-> 0]

(* The first second of the local day (in zone z) that start_time is in. *)
BeginningOfToday(z) ==
  LET s == input.start IN
  Min({m \in (s - 2 * DaySecs)..s : LocalDay(z, m) = LocalDay(z, s)})

(* The zone's offset did not change in the day before start_time. *)
OffsetSteady(z) ==
  \A t \in (input.start - DaySecs)..input.start : Offset(z, t) = Offset(z, input.start)

DaystartBefore(k) == \E j \in 1..(k - 1) : input.words[j] = "-daystart"

(* Where each test puts its origin relative to the start of the period. *)
Shift(w) == CASE w = "-mtime" -> 0 [] w = "-mtime -" -> DaySecs - 1 [] w = "-mmin" -> DaySecs

(* Spec 4.D: -daystart is positional.  A time test measures from 24 hours *)
(* before start_time unless a -daystart comes before it, however many,   *)
(* and then from the beginning of today (in UTC when localtime fails):   *)
(* the one cur_day_start that parse_daystart's full_days guard leaves,   *)
(* shifted by parse_time or do_parse_xmin.  This holds when the UTC      *)
(* offset did not change during the day.                                 *)
TimeOriginsPositional ==
  LET z == IF input.localtime_ok THEN input.zone ELSE UTC IN
  OffsetSteady(z) =>
    \A k \in DOMAIN result : \A o \in result[k] :
      o = Shift(input.words[k])
          + IF DaystartBefore(k) THEN BeginningOfToday(z) ELSE input.start - DaySecs

(* The find manual: -daystart measures times "from the beginning of      *)
(* today".  The time of day parse_daystart subtracts is that of          *)
(* start_time; on a day whose UTC offset changed since local midnight,   *)
(* the result is off by the change.                                      *)
DayStartIsBeginningOfToday ==
  \A k \in DOMAIN result : \A o \in result[k] :
    DaystartBefore(k) /\ input.localtime_ok =>
      o = Shift(input.words[k]) + BeginningOfToday(input.zone)
=============================================================================
