SPECIFICATION Spec
CONSTANTS
  Char = {a, b}
  NL = NL
  Fill = Fill
  MaxLen = 3
  MaxEdits = 2
  MaxOther = 1
INVARIANTS TypeOK ServerInStep LateAgrees
CHECK_DEADLOCK FALSE
