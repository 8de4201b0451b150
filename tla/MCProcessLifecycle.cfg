SPECIFICATION Spec
CONSTANTS
  Requests = {r1, r2}
CHECK_DEADLOCK FALSE
INVARIANT WorkHasWhatItUses
INVARIANT NothingIsCut
PROPERTY ShutdownEnds
