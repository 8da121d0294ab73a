SPECIFICATION Spec
CONSTANTS
  t1 = t1
  t2 = t2
  r1 = r1
  r2 = r2
  u1 = u1
  p1 = p1
  p2 = p2
  Tickets = {t1, t2}
  Reservations = {r1, r2}
  Users = {u1}
  Readers = {p1, p2}
  NoReservation = NoReservation
  NoUser = NoUser
  HoldTime = 1
  MaxClock = 2
SYMMETRY ReadsSymmetry
INVARIANTS
  ReadsInv
  ShownWhole
  HistoryNeverGoesBack
