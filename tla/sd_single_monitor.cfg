SPECIFICATION FairSpec
CONSTANTS
  c1 = c1
  c2 = c2
  c3 = c3
  t1 = t1
  t2 = t2
  o1 = o1
  m1 = m1
  m2 = m2
  k1 = k1
  p1 = p1
  w1 = w1
  s1 = s1
  Nil = Nil
  None = Nil
  Nobody = Nil
  Unset = Nil
  Candidates = {c1}
  ZeroDTE = {}
  Life <- SameDayLife
  Contracts = {"sized"}
  Kept <- MoneyStates
  MaxDay = 1
  MaxCrashes = 1
  Trades = {t1, t2}
  Openers = {o1}
  Monitors = {m1}
  Closers = {}
  Taggers = {}
  Proposals = {}
  Clerks = {}
  Scanners = {s1}
  PickLimit = 0
INVARIANTS
  BooksAgree
PROPERTIES
  ImplementsBook
  OrphansMirrored
  ExpiredSettled
CHECK_DEADLOCK FALSE
