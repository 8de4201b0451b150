CONSTANTS
  s1 = s1
  s2 = s2
  Writers = {s1, s2}
  PageSize = 1
  MaxClock = 2
  MaxEntries = 4
SPECIFICATION Spec
INVARIANT NothingIsLostBetweenPages
