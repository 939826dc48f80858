\* -ignore_readdir_race followed by -execdir or -okdir.
CONSTANTS
  MaxTokens = 2
SPECIFICATION Spec
INVARIANT IgnoreRaceAsGiven
CHECK_DEADLOCK FALSE
