SPECIFICATION Spec
CONSTANTS
  c1 = c1
  c2 = c2
  c3 = c3
  t1 = t1
  t2 = t2
  o1 = o1
  m1 = m1
  m2 = m2
  k1 = k1
  p1 = p1
  w1 = w1
  s1 = s1
  Nil = Nil
  None = Nil
  Nobody = Nil
  Unset = Nil
  Candidates = {c1}
  ZeroDTE = {}
  Life <- SameDayLife
  Contracts = {"sized"}
  Kept <- MoneyStates
  MaxDay = 0
  MaxCrashes = 1
  Trades = {t1}
  Openers = {o1}
  Monitors = {}
  Closers = {}
  Taggers = {k1}
  Proposals = {p1}
  Clerks = {w1}
  Scanners = {s1}
  PickLimit = 0
INVARIANTS
  MoneyStateAudited
  ApprovedByHuman
CHECK_DEADLOCK FALSE
