\* Every argument form, prefix and caller, built for x86-64 (the build GNU find
\* 4.9.0 was observed on), with today starting far from the top of time_t, so
\* that the end-of-today origin of parse_time (parser.c:3130) cannot wrap.
CONSTANTS
  Width = 6
  DaySecs = 12
  MinSecs = 3
  Quantum = 8
  NsPerSec = 8
  FracLimit = 4
  Nums <- MCNums
  DayStarts <- MCFarDayStarts
  Builds = {"x86_64"}
SPECIFICATION Spec
\* The parser stops once it has converted the argument.
CHECK_DEADLOCK FALSE
INVARIANT OverflowDiagnosed
