-------------------------- MODULE ReservationReads --------------------------
(***************************************************************************)
(* GET /api/reservations and GET /api/reservations/{id} beside the booking *)
(* operations of Bookings: what a user is shown while holds run out, are   *)
(* purchased, taken over and swept.                                        *)
(*                                                                         *)
(* Each endpoint runs one SELECT, which reads one committed state.  The    *)
(* history then compares the clock with what it has read, twice, and is    *)
(* answered later still: other operations may have changed the tables in   *)
(* between, and other answers may have been given.                         *)
(***************************************************************************)
EXTENDS Bookings

CONSTANT Readers  \* handlers of the two endpoints

VARIABLES
  read,        \* per handler: the rows it has read and not answered yet
  answer,      \* the reservations of the latest answer (history)
  listed,      \* the latest answer is one of GET /api/reservations (history)
  expiredSeen, \* reservations that some answer has shown as expired (history)
  seenBefore   \* those among them when the latest answer's statuses were
               \* decided (history)

readVars == <<read, answer, listed, expiredSeen, seenBefore>>
answers == <<answer, listed, expiredSeen, seenBefore>>
vars == <<clock, tables, readVars>>

(* seen is expiredSeen at the moment that decides the statuses of the      *)
(* answer: the service's clock read for the history, the SELECT for GET by *)
(* id.  It is a history of the request, which the code does not keep.      *)
IdleRead == [pc |-> "idle", rows |-> {}, seen |-> {}]

Init ==
  /\ TablesInit
  /\ read = [p \in Readers |-> IdleRead]
  /\ answer = {}
  /\ listed = FALSE
  /\ expiredSeen = {}
  /\ seenBefore = {}

-----------------------------------------------------------------------------
(* The tickets of r with their status. *)
TicketRows(r) == {<<t, tstatus[t]>> : t \in Held(r)}

(* FROM reservations JOIN tickets, grouped by the reservation.  One that   *)
(* holds no ticket is not among the rows.                                  *)
JoinRows(R, u) ==
  {[id |-> r, status |-> rstatus[r], expiresAt |-> expiresAt[r], tickets |-> TicketRows(r)] :
     r \in {s \in R : owner[s] = u /\ Held(s) # {}}}

(* Faulty variants: the status as it was read; the tickets read by a       *)
(* statement of their own.                                                 *)
StoredStatus(row, now) == row.status
TicketsReadLater(row) == TicketRows(row.id)

EffectiveStatus(row, now) ==
  IF row.status = "pending" /\ now > row.expiresAt THEN "expired" ELSE row.status

(* The tickets appended while the rows are scanned. *)
ScannedTickets(row) == row.tickets

(* A row of the history after the loop over the rows, which already marks  *)
(* the holds that have run out.                                            *)
Scanned(row, now) ==
  [row EXCEPT !.status = IF row.status = "pending" /\ row.expiresAt < now
                         THEN "expired" ELSE row.status,
              !.tickets = ScannedTickets(row)]

(* A row as the service answers it. *)
Effective(row, now) == [row EXCEPT !.status = EffectiveStatus(row, now)]

(* The SELECT of the history.  Without a row the answer is ErrNotFound.    *)
GetUserReservations(p, u) ==
  /\ read[p].pc = "idle"
  /\ JoinRows(Reservations, u) # {}
  /\ read' = [read EXCEPT ![p] =
       [pc |-> "list", rows |-> JoinRows(Reservations, u), seen |-> {}]]
  /\ UNCHANGED <<clock, tables, answers>>

ScanRows(p) ==
  /\ read[p].pc = "list"
  /\ read' = [read EXCEPT ![p] =
       [pc |-> "scanned",
        rows |-> {Scanned(row, clock) : row \in read[p].rows},
        seen |-> {}]]
  /\ UNCHANGED <<clock, tables, answers>>

(* The service reads the clock again and applies EffectiveStatus. *)
MarkExpired(p) ==
  /\ read[p].pc = "scanned"
  /\ read' = [read EXCEPT ![p] =
       [pc |-> "marked",
        rows |-> {Effective(row, clock) : row \in read[p].rows},
        seen |-> expiredSeen]]
  /\ UNCHANGED <<clock, tables, answers>>

(* respondJSON: the rows of handler p are sent as they are now. *)
Answer(p, list) ==
  /\ read' = [read EXCEPT ![p] = IdleRead]
  /\ answer' = read[p].rows
  /\ listed' = list
  /\ expiredSeen' =
       expiredSeen \cup {row.id : row \in {x \in read[p].rows : x.status = "expired"}}
  /\ seenBefore' = read[p].seen
  /\ UNCHANGED <<clock, tables>>

AnswerList(p) == read[p].pc = "marked" /\ Answer(p, TRUE)

(* The SELECT of one reservation. *)
GetReservationByID(p, r, u) ==
  /\ read[p].pc = "idle"
  /\ JoinRows({r}, u) # {}
  /\ read' = [read EXCEPT ![p] =
       [pc |-> "one", rows |-> JoinRows({r}, u), seen |-> expiredSeen]]
  /\ UNCHANGED <<clock, tables, answers>>

(* The rows are answered as they were read. *)
AnswerOne(p) == read[p].pc = "one" /\ Answer(p, FALSE)

(* An error while the rows are read, or the client is gone. *)
FailRead(p) ==
  /\ read[p].pc # "idle"
  /\ read' = [read EXCEPT ![p] = IdleRead]
  /\ UNCHANGED <<clock, tables, answers>>

Write == BookingNext /\ UNCHANGED readVars

List(p) ==
  \/ \E u \in Users : GetUserReservations(p, u)
  \/ ScanRows(p)
  \/ MarkExpired(p)
  \/ AnswerList(p)
  \/ FailRead(p)

ByID(p) ==
  \/ \E r \in Reservations, u \in Users : GetReservationByID(p, r, u)
  \/ AnswerOne(p)
  \/ FailRead(p)

Next == Write \/ \E p \in Readers : List(p) \/ ByID(p)

Spec == Init /\ [][Next]_vars

-----------------------------------------------------------------------------
(* What an answer shows of a reservation is one committed state of it,     *)
(* whatever happened since it was read: a hold that is shown as running    *)
(* has every ticket it was granted, all of them reserved; a purchase has   *)
(* the tickets that its answer listed, all of them sold; a hold shown as   *)
(* expired has only tickets that it was granted.  GET by id may show a     *)
(* hold that has run out as pending, with fewer tickets.                   *)
With(T, status) == {<<t, status>> : t \in T}

ShownWhole ==
  \A row \in answer :
    /\ row.status = "pending" /\ listed => row.tickets = With(granted[row.id], "reserved")
    /\ row.status = "confirmed" => row.tickets = With(bought[row.id], "sold")
    /\ row.status \in {"pending", "expired"} =>
         row.tickets # {} /\ row.tickets \subseteq With(granted[row.id], "reserved")

(* A hold that some answer has shown as expired is not shown as pending by *)
(* a GET /api/reservations for which the service reads its clock after     *)
(* that answer (reservation_service.go:149): one that is sent after it, or *)
(* one that overlaps it with rows that were read, and found unexpired,     *)
(* before.  An answer that comes after the clock read of a request that is *)
(* not answered yet may show a hold as expired that the other one then     *)
(* shows as pending.                                                       *)
HistoryNeverGoesBack ==
  listed => \A row \in answer : row.status = "pending" => row.id \notin seenBefore

(* The same of both endpoints, where a GET by id counts from its SELECT.   *)
(* StoreReads refutes it: read by id, a reservation is shown with its      *)
(* stored status (reservation_service.go:179).                             *)
ExpiredStaysExpired ==
  \A row \in answer : row.status = "pending" => row.id \notin seenBefore

-----------------------------------------------------------------------------
(* The inductive invariant. *)
RowType ==
  [id : Reservations, status : ReservationStatus, expiresAt : Nat,
   tickets : SUBSET (Tickets \X TicketStatus)]

ReadsTypeOK ==
  /\ read \in [Readers -> [pc : {"idle", "list", "scanned", "marked", "one"},
                            rows : SUBSET RowType, seen : SUBSET Reservations]]
  /\ answer \subseteq RowType
  /\ listed \in BOOLEAN
  /\ expiredSeen \subseteq Reservations
  /\ seenBefore \subseteq Reservations

(* What stays true of a row that was read in a committed state.            *)
RowOK(row) ==
  /\ rstatus[row.id] # "none"
  /\ row.expiresAt = expiresAt[row.id]
  /\ row.status = "pending" =>
       row.tickets = With(granted[row.id], "reserved") \/ row.expiresAt < clock
  /\ row.status = "confirmed" =>
       /\ row.tickets = With(bought[row.id], "sold")
       /\ rstatus[row.id] \in {"confirmed", "cancelled"}
  /\ row.status = "expired" => row.expiresAt < clock
  /\ row.status \in {"pending", "expired"} =>
       row.tickets # {} /\ row.tickets \subseteq With(granted[row.id], "reserved")

(* A hold that the service has left as pending had not run out at the time *)
(* the service read: it was whole then, and no answer had shown it as      *)
(* expired.                                                                *)
MarkedOK(rows, seen) ==
  \A row \in rows :
    row.status = "pending" => /\ row.tickets = With(granted[row.id], "reserved")
                              /\ row.id \notin seen

ReadsInv ==
  /\ BookingInv
  /\ ReadsTypeOK
  /\ \A p \in Readers : \A row \in read[p].rows : RowOK(row)
  /\ \A p \in Readers : read[p].pc = "marked" => MarkedOK(read[p].rows, read[p].seen)
  /\ \A row \in answer : RowOK(row)
  /\ ShownWhole
  /\ HistoryNeverGoesBack
  /\ \A r \in expiredSeen : rstatus[r] # "none" /\ expiresAt[r] < clock
=============================================================================
