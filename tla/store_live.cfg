SPECIFICATION LiveSpec
CONSTANTS
  t1 = t1
  t2 = t2
  t3 = t3
  r1 = r1
  r2 = r2
  r3 = r3
  A = A
  B = B
  h1 = h1
  h2 = h2
  c1 = c1
  c2 = c2
  u1 = u1
  u2 = u2
  Tickets = {t1, t2}
  Reservations = {r1, r2}
  Users = {u1}
  NoReservation = NoReservation
  NoUser = NoUser
  Creators = {c1, c2}
  Callers = {h1}
  Sweepers = {s1}
  Grade <- LiveGrades
  Requests <- LiveRequests
  MaxSeats = 2
  IntMax = 7
  HoldTime = 1
  MaxClock = 2
PROPERTIES
  TransactionsEnd
  LapsedHoldSettled
