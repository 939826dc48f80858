\* -daystart with the time tests around it, in zones whose UTC offset
\* changes before start_time on its day or the day before.
CONSTANTS
  MaxWords = 3
  DaySecs = 12
  StartTimes <- MCStartTimes
  Zones <- MCZones
SPECIFICATION Spec
INVARIANT DayStartIsBeginningOfToday
\* The parser stops after the last word.
CHECK_DEADLOCK FALSE
