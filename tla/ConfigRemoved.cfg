\* The file is removed and created again.
CONSTANTS
  Openers = {o1}
  Creators = {c1}
  Removes = TRUE
  MaxChanges = 2
  Free = free
SPECIFICATION SafetySpec
INVARIANTS DefaultIsFallback
CHECK_DEADLOCK FALSE
