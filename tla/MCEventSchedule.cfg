SPECIFICATION Spec
CONSTANTS
  ksmps = 200
  Starts = {99, 300}
  Lengths = {101, 300}
  Extras = {0, 1}
  Delays = {0, 1}
  MaxNotes = 2
  MaxRt = 2
  MaxSections = 2
  MaxPeriods = 4
INVARIANTS LengthKept
PROPERTIES Punctual NoSpin
CHECK_DEADLOCK FALSE
