SPECIFICATION Spec
CONSTANTS
  r1 = r1
  r2 = r2
  u1 = u1
  u2 = u2
  l1 = l1
  x = x
  y = y
  s1 = s1
  s2 = s2
  q1 = q1
  q2 = q2
  c1 = c1
  c2 = c2
  v1 = v1
  v2 = v2
  Authorities = {r1, r2}
  Apis = {x, y}
  Updaters = {u1, u2}
  Listers = {l1}
  Tables <- MCTables
  Wants <- MCWants
  MaxRenames = 1
  Servers = {s1, s2}
  Requests = {q1, q2}
  Seconds = {3}
  Ahead <- MCAhead
  MaxTime = 4
  Ids = {c1, c2}
  Answers = {"right", "wrong"}
  Verifiers = {v1, v2}
SYMMETRY Symmetry
INVARIANTS ListedFresh Survives OneAttempt
PROPERTIES Replaced
CHECK_DEADLOCK FALSE
