\* -links over every argument of up to four characters.
CONSTANTS
  Primaries = {"links"}
  Alphabet <- MCNumberChars
  ArgLen = 4
  UMax = 15
  IntMax = 11
  Unsupported = {"D"}
  UidMax = 13
  Passwd <- MCPasswd
SPECIFICATION Spec
INVARIANT OnlyWellFormedNumbers
\* One parse per argument: the parser goes on with the next primary.
CHECK_DEADLOCK FALSE
