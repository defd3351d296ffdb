\* Files opened at the same time in a server without a workspace, while the
\* config file is written.
CONSTANTS
  Openers = {o1, o2, o3}
  Creators = {}
  Removes = FALSE
  MaxChanges = 3
  Free = free
SPECIFICATION Spec
PROPERTIES OpenReturns
CHECK_DEADLOCK FALSE
