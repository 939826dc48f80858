\* Each parse function over its component's bounds: time_t of 6 bits with
\* arguments in eighths on both builds; every argument of up to four
\* characters for -links, -size, -type, -maxdepth (int up to 11),
\* -user (uid_t up to 13, users "x" and "5"), and
\* for -perm; up to three -exec words and a $PATH of up to three
\* characters; every expression of up to three option words, with and
\* without starting points on the command line; print_quoted on every
\* name of up to four characters in three styles, with BUFSIZ 4, so that
\* the quoted text is shorter than, as long as, and longer than BUFSIZ;
\* -samefile under every symlink policy, with and without O_NOFOLLOW, and
\* up to two renames over the name between its system calls; every
\* expression of up to three words (an option, -warn, -nowarn, a test,
\* '(' with and without a dash, -noop, an unknown word, three -newerXY
\* words) with and without POSIXLY_CORRECT, a terminal, birth times and
\* the last argument; every sequence of up to three -daystart, -mtime,
\* -mtime -N and -mmin words, in a 12-second day with start_time in the
\* third day (26 or 31) and UTC offsets 0 or 2 before and after a switch
\* at 20 (yesterday) or 25 (today).
CONSTANTS
  Width = 6
  DaySecs = 12
  MinSecs = 3
  Quantum = 8
  NsPerSec = 8
  FracLimit = 4
  Nums <- MCNums
  DayStarts <- MCDayStarts
  Builds = {"x86_64", "aarch64"}
  Primaries = {"links", "size", "type", "maxdepth", "user"}
  Alphabet <- MCArgChars
  ArgLen = 4
  UMax = 15
  IntMax = 11
  Unsupported = {"D"}
  UidMax = 13
  Passwd <- MCPasswd
  ArgvLen = 3
  PathLen = 3
  Funcs = {"exec", "execdir", "ok", "okdir"}
  MaxTokens = 3
  BufSize = 4
  NameLen = 4
  Styles = {"literal", "escape", "shell_always"}
  PermAlphabet <- MCPermChars
  PermArgLen = 4
  MaxRenames = 2
  MaxWords = 3
  StartTimes <- MCStartTimes
  Zones <- MCZones
SPECIFICATION Spec
INVARIANT TypeOK
INVARIANT ReferenceTimeExact
INVARIANT NoSpuriousOverflow
INVARIANT NumberAsSpecified
INVARIANT TypeListAsSpecified
INVARIANT DepthAsSpecified
INVARIANT UserAsSpecified
INVARIANT PermAsDocumented
INVARIANT ExecRecipeAsSpecified
INVARIANT PathCheckAsSpecified
INVARIANT OptionConflictsRejected
INVARIANT PrintedAsQuoted
INVARIANT WritesInBounds
INVARIANT HeldFileIsRecorded
INVARIANT RecordedFileWasNamed
INVARIANT WarningsAsSpecified
INVARIANT ExpressionAcceptedAsDocumented
INVARIANT TimeOriginsPositional
\* One parse per primary, and the option words end in "search" or "fatal":
\* the parser goes on with the next primary, or find starts the search.
CHECK_DEADLOCK FALSE
