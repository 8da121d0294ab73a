SPECIFICATION ServiceSpec
CONSTANTS
  t1 = t1
  t2 = t2
  r1 = r1
  r2 = r2
  u1 = u1
  c1 = c1
  s1 = s1
  p1 = p1
  A = A
  Tickets = {t1, t2}
  Reservations = {r1, r2}
  Users = {u1}
  NoReservation = NoReservation
  NoUser = NoUser
  Creators = {c1}
  Callers = {}
  Sweepers = {s1}
  Readers = {p1}
  Grade <- OneGrade
  Requests <- BookOneOrTwo
  MaxSeats = 2
  IntMax = 7
  HoldTime = 1
  MaxClock = 2
INVARIANT
  ExpiredStaysExpired
