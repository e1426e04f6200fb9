CONSTANTS
  PatternLength = 5
  TextLength = 5
  Pattern <- MCPattern
  Text <- MCText
SPECIFICATION Spec
CHECK_DEADLOCK FALSE
INVARIANTS MatchesExactly
PROPERTIES Terminates
