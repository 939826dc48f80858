\* Every find() succeeds; the command line may hold a zero-length name.
CONSTANTS
  MaxStarts = 3
  Files0Choices = {FALSE}
  FindOutcomes = {"ok"}
  MaxArgs = 2
SPECIFICATION Spec
\* find exits once main() returns.
CHECK_DEADLOCK FALSE
INVARIANT FlushedAtProgramEnd
