\* Two checks at a time, on two processes whose clocks differ by one.
CONSTANTS
  ip = ip
  p = p
  q = q
  c1 = c1
  c2 = c2
  Checks = {c1, c2}
  Processes = {p, q}
  Keys = {ip}
  Asks <- MCAsks
  Limit <- MCLimit
  Window <- MCWindow
  Ahead <- MCAhead
  MaxAhead = 1
  MaxDelay = 1
  Draws = {1, 2}
  MaxTime = 6
  None = None
SPECIFICATION Spec
SYMMETRY MCSymmetry
INVARIANT WindowLimit
PROPERTIES RefusedOnlyWhenUsed
