\* Every argument form, prefix and caller, on both builds.
CONSTANTS
  Width = 6
  DaySecs = 12
  MinSecs = 3
  Quantum = 8
  NsPerSec = 8
  FracLimit = 4
  Nums <- MCNums
  DayStarts <- MCDayStarts
  Builds = {"x86_64", "aarch64"}
SPECIFICATION Spec
\* The parser stops once it has converted the argument.
CHECK_DEADLOCK FALSE
INVARIANT ReferenceTimeNormalized
