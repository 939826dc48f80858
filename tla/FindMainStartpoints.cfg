\* Up to four starting points, every way find() can end, command line
\* and -files0-from, command lines of two arguments.
CONSTANTS
  MaxStarts = 4
  Files0Choices = {FALSE, TRUE}
  FindOutcomes <- MCFindOutcomes
  MaxArgs = 2
SPECIFICATION Spec
\* find exits once main() returns or a fatal error is reported.
CHECK_DEADLOCK FALSE
INVARIANT TypeOK
INVARIANT EveryStartPointSearched
INVARIANT BatchLostOnlyWithFailure
