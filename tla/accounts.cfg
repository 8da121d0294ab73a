SPECIFICATION Spec
CONSTANTS
  Ids = {u1, u2}
  Tokens = {t1, t2, t3}
  Clients = {c1, c2}
  Handlers = {p1, p2}
  u1 = u1
  u2 = u2
  t1 = t1
  t2 = t2
  t3 = t3
  c1 = c1
  c2 = c2
  p1 = p1
  p2 = p2
  None = None
  TTL = 1
  MaxClock = 1
  Forms <- MCForms
SYMMETRY AccountsSymmetry
INVARIANTS
  AccountsInv
  SignUpExclusive
  CookieUsable
PROPERTIES
  RotatedStaysRotated
  KeepsSessions
