----------------------- MODULE ReservationReads_proofs -----------------------
(***************************************************************************)
(* Proofs about ReservationReads, for all its constants: what an answer    *)
(* shows is a committed state, and the history never goes back.            *)
(***************************************************************************)
EXTENDS ReservationReads, Bookings_proofs

-----------------------------------------------------------------------------
(* The writes leave what is known of a row true.                           *)
WritesKeepRows ==
  /\ clock <= clock'
  /\ \A r \in Reservations :
       rstatus[r] # "none" =>
         /\ rstatus'[r] # "none"
         /\ expiresAt'[r] = expiresAt[r]
         /\ granted'[r] = granted[r]
         /\ rstatus[r] \in {"confirmed", "cancelled"} =>
              bought'[r] = bought[r] /\ rstatus'[r] \in {"confirmed", "cancelled"}

LEMMA WriteKeepsRows == BookingInv /\ BookingNext => WritesKeepRows
<1> SUFFICES ASSUME BookingInv, BookingNext PROVE WritesKeepRows
  OBVIOUS
<1> USE DEF BookingInv, TablesTypeOK, WritesKeepRows
<1>1. ASSUME NEW r \in Reservations, NEW u \in Users, NEW T \in SUBSET Tickets,
             NEW deadline \in HoldTime .. (clock + HoldTime), Reserve(r, u, T, deadline)
      PROVE  WritesKeepRows
  BY <1>1 DEF Reserve
<1>2. ASSUME NEW r \in Reservations, Purchase(r)
      PROVE  WritesKeepRows
  BY <1>2 DEF Purchase
<1>3. ASSUME NEW r \in Reservations, Cancel(r)
      PROVE  WritesKeepRows
  BY <1>3 DEF Cancel, Release
<1>4. ASSUME NEW R \in SUBSET Reservations, Expire(R)
      PROVE  WritesKeepRows
  BY <1>4 DEF Expire, Release, LapsedAt
<1>5. CASE ClockTick
  BY <1>5 DEF ClockTick, tables
<1> QED  BY <1>1, <1>2, <1>3, <1>4, <1>5 DEF BookingNext

(* A row stays what it was.                                                *)
LEMMA RowStays ==
  ASSUME NEW row \in RowType, RowOK(row), BookingInv, BookingInv', WritesKeepRows
  PROVE  RowOK(row)'
<1>1. row.id \in Reservations /\ row.expiresAt \in Nat
  BY DEF RowType
<1>2. clock \in Nat /\ clock' \in Nat
  BY DEF BookingInv, TablesTypeOK
<1> QED  BY <1>1, <1>2 DEF RowOK, WritesKeepRows, With

(* A row that is read now is a committed state of its reservation.         *)
LEMMA JoinedRowOK ==
  ASSUME BookingInv, NEW R \in SUBSET Reservations, NEW u \in Users, NEW row \in JoinRows(R, u)
  PROVE  row \in RowType /\ RowOK(row)
<1> PICK r \in R : /\ Held(r) # {}
                   /\ row = [id |-> r, status |-> rstatus[r], expiresAt |-> expiresAt[r],
                             tickets |-> TicketRows(r)]
  BY DEF JoinRows
<1>1. r \in Reservations /\ r # NoReservation
  BY NullAssumption
<1>2. \A t \in Held(r) : t \in Tickets /\ holder[t] = r /\ tstatus[t] \in TicketStatus
                         /\ tstatus[t] # "available"
  BY <1>1 DEF Held, BookingInv, TablesTypeOK, BookingConsistent
<1>3. \A t \in Held(r) : \/ tstatus[t] = "reserved" /\ rstatus[r] = "pending"
                         \/ tstatus[t] = "sold" /\ rstatus[r] = "confirmed"
  BY <1>2 DEF TicketStatus, BookingInv, BookingConsistent
<1>4. row \in RowType
  BY <1>1, <1>2 DEF RowType, TicketRows, BookingInv, TablesTypeOK
<1>5. rstatus[r] = "pending" => /\ TicketRows(r) = With(Held(r), "reserved")
                                /\ TicketRows(r) # {}
                                /\ TicketRows(r) \subseteq With(granted[r], "reserved")
  BY <1>1, <1>3 DEF TicketRows, With, BookingInv, HeldWithinGrant
<1>6. rstatus[r] = "confirmed" => TicketRows(r) = With(bought[r], "sold")
  BY <1>1, <1>3 DEF TicketRows, With, BookingInv, BoughtIsHeld
<1>7. rstatus[r] = "pending" => Held(r) = granted[r] \/ expiresAt[r] < clock
  BY <1>1 DEF BookingInv, HoldProtected, TablesTypeOK
<1>8. rstatus[r] \in {"pending", "confirmed"}
  BY <1>3
<1> QED  BY <1>1, <1>4, <1>5, <1>6, <1>7, <1>8 DEF RowOK

(* Marking a row as expired, in the loop over the rows and in the service. *)
LEMMA ScannedOK ==
  ASSUME NEW row \in RowType, RowOK(row), BookingInv
  PROVE  Scanned(row, clock) \in RowType /\ RowOK(Scanned(row, clock))
<1> DEFINE status == IF row.status = "pending" /\ row.expiresAt < clock
                     THEN "expired" ELSE row.status
<1>1. Scanned(row, clock) = [id |-> row.id, status |-> status, expiresAt |-> row.expiresAt,
                             tickets |-> row.tickets]
  <2>1. row.tickets \in SUBSET (Tickets \X TicketStatus)
    BY DEF RowType
  <2>2. Scanned(row, clock) = [row EXCEPT !.status = status, !.tickets = row.tickets]
    BY Zenon DEF Scanned, ScannedTickets
  <2> HIDE DEF status
  <2> QED  BY <2>1, <2>2 DEF RowType
<1>2. status \in ReservationStatus
  BY DEF RowType, ReservationStatus
<1> HIDE DEF status
<1>3. Scanned(row, clock) \in RowType
  BY <1>1, <1>2 DEF RowType
<1>4. \/ status = row.status
      \/ row.status = "pending" /\ row.expiresAt < clock /\ status = "expired"
  BY DEF status
<1> QED  BY <1>1, <1>3, <1>4 DEF RowOK

LEMMA EffectiveOK ==
  ASSUME NEW row \in RowType, RowOK(row), BookingInv
  PROVE  /\ Effective(row, clock) \in RowType
         /\ RowOK(Effective(row, clock))
         /\ Effective(row, clock).status = "pending" => ~(row.expiresAt < clock)
<1> DEFINE status == EffectiveStatus(row, clock)
<1>1. Effective(row, clock) = [id |-> row.id, status |-> status, expiresAt |-> row.expiresAt,
                               tickets |-> row.tickets]
  BY DEF Effective, RowType
<1>2. status \in ReservationStatus
  BY DEF EffectiveStatus, RowType, ReservationStatus
<1>3. clock \in Nat /\ row.expiresAt \in Nat
  BY DEF RowType, BookingInv, TablesTypeOK
<1>4. /\ \/ status = row.status
         \/ row.status = "pending" /\ row.expiresAt < clock /\ status = "expired"
      /\ status = "pending" => ~(row.expiresAt < clock)
  BY <1>3 DEF EffectiveStatus
<1> HIDE DEF status
<1>5. Effective(row, clock) \in RowType
  BY <1>1, <1>2 DEF RowType
<1> QED  BY <1>1, <1>4, <1>5 DEF RowOK

-----------------------------------------------------------------------------
LEMMA ReadsInitInv == Init => ReadsInv
<1> SUFFICES ASSUME Init PROVE ReadsInv
  OBVIOUS
<1>1. BookingInv
  BY BookingInitInv DEF Init
<1> QED  BY <1>1 DEF Init, IdleRead, ReadsInv, ReadsTypeOK, ShownWhole, HistoryNeverGoesBack

LEMMA WriteInv == ReadsInv /\ Write => ReadsInv'
<1> SUFFICES ASSUME ReadsInv, Write PROVE ReadsInv'
  OBVIOUS
<1>1. BookingInv /\ BookingInv' /\ WritesKeepRows
  BY BookingNextInv, WriteKeepsRows DEF ReadsInv, Write
<1>2. UNCHANGED <<read, answer, listed, expiredSeen, seenBefore>>
  BY DEF Write, readVars
<1>3. ReadsTypeOK'
  BY <1>2 DEF ReadsInv, ReadsTypeOK
<1>4. \A p \in Readers : \A row \in read[p].rows : row \in RowType /\ RowOK(row)
  BY DEF ReadsInv, ReadsTypeOK
<1>5. (\A p \in Readers : \A row \in read[p].rows : RowOK(row))'
  BY <1>1, <1>2, <1>4, RowStays
<1>6. \A row \in answer : row \in RowType /\ RowOK(row)
  BY DEF ReadsInv, ReadsTypeOK
<1>7. (\A row \in answer : RowOK(row))'
  BY <1>1, <1>2, <1>6, RowStays
<1>8. ShownWhole'
  <2> SUFFICES ASSUME NEW row \in answer
               PROVE  /\ row.status = "pending" /\ listed =>
                           row.tickets = With(granted'[row.id], "reserved")
                      /\ row.status = "confirmed" => row.tickets = With(bought'[row.id], "sold")
                      /\ row.status \in {"pending", "expired"} =>
                           /\ row.tickets # {}
                           /\ row.tickets \subseteq With(granted'[row.id], "reserved")
    BY <1>2 DEF ShownWhole, With
  <2>1. row.id \in Reservations /\ granted'[row.id] = granted[row.id]
    BY <1>1, <1>6 DEF RowType, RowOK, WritesKeepRows
  <2>2. row.status = "confirmed" => bought'[row.id] = bought[row.id]
    BY <1>1, <1>6, <2>1 DEF RowOK, WritesKeepRows
  <2> QED  BY <2>1, <2>2 DEF ReadsInv, ShownWhole
<1>9. (\A p \in Readers : read[p].pc = "marked" => MarkedOK(read[p].rows, read[p].seen))'
  <2> SUFFICES ASSUME NEW p \in Readers, read[p].pc = "marked", NEW row \in read[p].rows,
                      row.status = "pending"
               PROVE  /\ row.tickets = With(granted'[row.id], "reserved")
                      /\ row.id \notin read[p].seen
    BY <1>2 DEF MarkedOK, With
  <2>1. granted'[row.id] = granted[row.id]
    BY <1>1, <1>4 DEF RowType, RowOK, WritesKeepRows
  <2> QED  BY <2>1 DEF ReadsInv, MarkedOK
<1>10. HistoryNeverGoesBack'
  BY <1>2 DEF ReadsInv, HistoryNeverGoesBack
<1>11. (\A r \in expiredSeen : rstatus[r] # "none" /\ expiresAt[r] < clock)'
  <2> SUFFICES ASSUME NEW r \in expiredSeen
               PROVE  rstatus'[r] # "none" /\ expiresAt'[r] < clock'
    BY <1>2
  <2>1. r \in Reservations /\ rstatus[r] # "none" /\ expiresAt[r] < clock
    BY DEF ReadsInv, ReadsTypeOK
  <2> QED  BY <1>1, <2>1 DEF WritesKeepRows, BookingInv, TablesTypeOK
<1> QED  BY <1>1, <1>3, <1>5, <1>7, <1>8, <1>9, <1>10, <1>11 DEF ReadsInv

(* A step of a handler that answers nothing.                               *)
LEMMA ReadOnlyInv ==
  ASSUME ReadsInv, NEW p \in Readers,
         NEW pc \in {"idle", "list", "scanned", "marked", "one"}, NEW rows \in SUBSET RowType,
         NEW seen \in SUBSET Reservations,
         \A row \in rows : RowOK(row),
         pc = "marked" => MarkedOK(rows, seen),
         read' = [read EXCEPT ![p] = [pc |-> pc, rows |-> rows, seen |-> seen]],
         UNCHANGED <<clock, tables, answers>>
  PROVE  ReadsInv'
<1>1. BookingInv'
  BY BookingNextInv DEF ReadsInv, bvars
<1>2. ReadsTypeOK'
  BY DEF ReadsInv, ReadsTypeOK, answers
<1>3. \A q \in Readers : \A row \in read'[q].rows : RowOK(row)
  BY DEF ReadsInv, ReadsTypeOK
<1>4. (\A q \in Readers : \A row \in read[q].rows : RowOK(row))'
  BY <1>3 DEF RowOK, With, tables
<1>5. \A q \in Readers : read'[q].pc = "marked" => MarkedOK(read'[q].rows, read'[q].seen)
  BY DEF ReadsInv, ReadsTypeOK
<1>6. (\A q \in Readers : read[q].pc = "marked" => MarkedOK(read[q].rows, read[q].seen))'
  BY <1>5 DEF MarkedOK, With, tables
<1> QED  BY <1>1, <1>2, <1>4, <1>6
         DEF ReadsInv, RowOK, ShownWhole, HistoryNeverGoesBack, With, tables, answers

LEMMA QueryInv ==
  ASSUME ReadsInv, NEW p \in Readers, NEW R \in SUBSET Reservations, NEW u \in Users,
         NEW pc \in {"list", "one"}, NEW seen \in SUBSET Reservations,
         read' = [read EXCEPT ![p] = [pc |-> pc, rows |-> JoinRows(R, u), seen |-> seen]],
         UNCHANGED <<clock, tables, answers>>
  PROVE  ReadsInv'
<1>1. \A row \in JoinRows(R, u) : row \in RowType /\ RowOK(row)
  BY JoinedRowOK DEF ReadsInv
<1> QED  BY <1>1, ReadOnlyInv

LEMMA ScanRowsInv == ASSUME ReadsInv, NEW p \in Readers, ScanRows(p) PROVE ReadsInv'
<1> DEFINE rows == {Scanned(row, clock) : row \in read[p].rows}
<1>1. \A row \in read[p].rows : row \in RowType /\ RowOK(row)
  BY DEF ReadsInv, ReadsTypeOK
<1>2. \A row \in rows : row \in RowType /\ RowOK(row)
  BY <1>1, ScannedOK DEF ReadsInv
<1>3. /\ read' = [read EXCEPT ![p] = [pc |-> "scanned", rows |-> rows, seen |-> {}]]
      /\ UNCHANGED <<clock, tables, answers>>
  BY DEF ScanRows
<1>4. rows \in SUBSET RowType /\ {} \in SUBSET Reservations
  BY <1>2
<1> HIDE DEF rows
<1> QED  BY <1>2, <1>3, <1>4, ReadOnlyInv

(* What the service leaves as pending has not run out at its time; what    *)
(* has been shown as expired had.                                          *)
LEMMA MarkExpiredInv == ASSUME ReadsInv, NEW p \in Readers, MarkExpired(p) PROVE ReadsInv'
<1> DEFINE rows == {Effective(row, clock) : row \in read[p].rows}
           seen == expiredSeen
<1>1. \A row \in read[p].rows : row \in RowType /\ RowOK(row)
  BY DEF ReadsInv, ReadsTypeOK
<1>2. \A row \in read[p].rows : Effective(row, clock).expiresAt = row.expiresAt
  BY <1>1 DEF Effective, RowType
<1>3. \A row \in rows : /\ row \in RowType /\ RowOK(row)
                        /\ row.status = "pending" => ~(row.expiresAt < clock)
  BY <1>1, <1>2, EffectiveOK DEF ReadsInv
<1>4. /\ read' = [read EXCEPT ![p] = [pc |-> "marked", rows |-> rows, seen |-> seen]]
      /\ UNCHANGED <<clock, tables, answers>>
  BY DEF MarkExpired
<1>5. seen \in SUBSET Reservations /\ \A r \in seen : expiresAt[r] < clock
  BY DEF ReadsInv, ReadsTypeOK
<1> HIDE DEF rows, seen
<1>6. MarkedOK(rows, seen)
  BY <1>3, <1>5 DEF MarkedOK, RowOK
<1> QED  BY <1>3, <1>4, <1>5, <1>6, ReadOnlyInv

LEMMA FailReadInv == ASSUME ReadsInv, NEW p \in Readers, FailRead(p) PROVE ReadsInv'
<1>1. /\ read' = [read EXCEPT ![p] = [pc |-> "idle", rows |-> {}, seen |-> {}]]
      /\ UNCHANGED <<clock, tables, answers>>
  BY DEF FailRead, IdleRead
<1>2. /\ {} \in SUBSET RowType /\ \A row \in {} : RowOK(row)
      /\ {} \in SUBSET Reservations
  OBVIOUS
<1> QED  BY <1>1, <1>2, ReadOnlyInv

(* An answer whose rows are as they were read, and, if it is one of the    *)
(* history, as the service has marked them.                                *)
LEMMA AnswerInv ==
  ASSUME ReadsInv, NEW p \in Readers, NEW list \in BOOLEAN,
         list => MarkedOK(read[p].rows, read[p].seen),
         Answer(p, list)
  PROVE  ReadsInv'
<1> DEFINE rows == read[p].rows
           seen == read[p].seen
           expired == {row.id : row \in {x \in rows : x.status = "expired"}}
<1>1. /\ read' = [read EXCEPT ![p] = IdleRead]
      /\ answer' = rows
      /\ listed' = list
      /\ expiredSeen' = expiredSeen \cup expired
      /\ seenBefore' = seen
      /\ UNCHANGED <<clock, tables>>
  BY DEF Answer
<1>2. /\ \A row \in rows : row \in RowType /\ RowOK(row)
      /\ seen \subseteq Reservations
      /\ list => MarkedOK(rows, seen)
  BY DEF ReadsInv, ReadsTypeOK
<1>3. \A r \in expired : r \in Reservations /\ rstatus[r] # "none" /\ expiresAt[r] < clock
  BY <1>2 DEF RowOK, RowType
<1> HIDE DEF rows, seen, expired
<1>4. BookingInv'
  BY <1>1, BookingNextInv DEF ReadsInv, bvars
<1>5. ReadsTypeOK'
  BY <1>1, <1>2, <1>3 DEF ReadsInv, ReadsTypeOK, IdleRead
<1>6. \A q \in Readers : \A row \in read'[q].rows : RowOK(row)
  BY <1>1 DEF ReadsInv, ReadsTypeOK, IdleRead
<1>7. (\A q \in Readers : \A row \in read[q].rows : RowOK(row))'
  BY <1>1, <1>6 DEF RowOK, With, tables
<1>8. \A q \in Readers : read'[q].pc = "marked" => MarkedOK(read'[q].rows, read'[q].seen)
  BY <1>1 DEF ReadsInv, ReadsTypeOK, IdleRead
<1>9. (\A q \in Readers : read[q].pc = "marked" => MarkedOK(read[q].rows, read[q].seen))'
  BY <1>1, <1>8 DEF MarkedOK, With, tables
<1>10. (\A row \in answer : RowOK(row))'
  BY <1>1, <1>2 DEF RowOK, With, tables
<1>11. ShownWhole'
  BY <1>1, <1>2 DEF ShownWhole, RowOK, MarkedOK, With, tables
<1>12. \A r \in expiredSeen \cup expired : rstatus[r] # "none" /\ expiresAt[r] < clock
  BY <1>3 DEF ReadsInv
<1>13. HistoryNeverGoesBack'
  BY <1>1, <1>2 DEF HistoryNeverGoesBack, MarkedOK
<1> QED  BY <1>1, <1>4, <1>5, <1>7, <1>9, <1>10, <1>11, <1>12, <1>13 DEF ReadsInv, tables

LEMMA AnswerListInv == ASSUME ReadsInv, NEW p \in Readers, AnswerList(p) PROVE ReadsInv'
BY AnswerInv DEF AnswerList, ReadsInv

LEMMA AnswerOneInv == ASSUME ReadsInv, NEW p \in Readers, AnswerOne(p) PROVE ReadsInv'
BY AnswerInv DEF AnswerOne

LEMMA ReadsNextInv == ReadsInv /\ [Next]_vars => ReadsInv'
<1> SUFFICES ASSUME ReadsInv, [Next]_vars PROVE ReadsInv'
  OBVIOUS
<1>1. CASE Write
  BY <1>1, WriteInv
<1>2. ASSUME NEW p \in Readers, List(p) PROVE ReadsInv'
  <2>1. ASSUME NEW u \in Users, GetUserReservations(p, u) PROVE ReadsInv'
    <3>1. {} \in SUBSET Reservations /\ Reservations \in SUBSET Reservations
      OBVIOUS
    <3> QED  BY <2>1, <3>1, QueryInv DEF GetUserReservations
  <2> QED  BY <1>2, <2>1, ScanRowsInv, MarkExpiredInv, AnswerListInv, FailReadInv DEF List
<1>3. ASSUME NEW p \in Readers, ByID(p) PROVE ReadsInv'
  <2>1. ASSUME NEW r \in Reservations, NEW u \in Users, GetReservationByID(p, r, u) PROVE ReadsInv'
    BY <2>1, QueryInv DEF GetReservationByID, ReadsInv, ReadsTypeOK
  <2> QED  BY <1>3, <2>1, AnswerOneInv, FailReadInv DEF ByID
<1>4. CASE UNCHANGED vars
  <2>1. BookingInv'
    BY <1>4, BookingNextInv DEF ReadsInv, bvars, vars
  <2> QED  BY <1>4, <2>1 DEF ReadsInv, ReadsTypeOK, RowOK, MarkedOK, ShownWhole,
              HistoryNeverGoesBack, With, vars, tables, readVars
<1> QED  BY <1>1, <1>2, <1>3, <1>4 DEF Next

(* The inductive invariant of the reads.                                   *)
THEOREM ReadsInvariant == Spec => []ReadsInv
BY ReadsInitInv, ReadsNextInv, PTL DEF Spec

(* An answer of either endpoint shows a committed state of a reservation.  *)
THEOREM ReadsShowWhole == Spec => []ShownWhole
BY ReadsInvariant, PTL DEF ReadsInv

(* The history never shows a hold as pending if an answer had shown it as  *)
(* expired when the service read the clock for it.                         *)
THEOREM ReadsNeverGoBack == Spec => []HistoryNeverGoesBack
BY ReadsInvariant, PTL DEF ReadsInv
=============================================================================
