-------------------------- MODULE StoreReads_proofs --------------------------
(***************************************************************************)
(* The readers of ReservationReads may be proved about beside Bookings,    *)
(* for the store looks to them like Bookings.                              *)
(***************************************************************************)
EXTENDS StoreReads, ReservationStore_proofs

Proved == INSTANCE ReservationReads_proofs

(* Readers touch no table and no transaction. *)
LEMMA ReadsLeaveStore ==
  [ServiceNext]_serviceVars => [Next]_vars
  BY DEF ServiceNext, StoreStep, ReadStep, serviceVars, vars, tables, Reads!List, Reads!ByID,
     Reads!GetUserReservations, Reads!ScanRows, Reads!MarkExpired, Reads!AnswerList,
     Reads!FailRead, Reads!GetReservationByID, Reads!AnswerOne, Reads!Answer, Reads!tables

(* So the store's invariant holds of the service. *)
LEMMA ServiceStoreInv == ServiceSpec => []StoreInv
<1>1. ServiceSpec => Spec
  BY ReadsLeaveStore, PTL DEF ServiceSpec, ServiceInit, Spec
<1> QED  BY <1>1, StoreInvariant, PTL

(* The operations of the instance Reads are those of Bookings. *)
LEMMA ReadsWriteIsBookings ==
  BookingNext /\ UNCHANGED readVars => Reads!Write
  BY DEF tables, BookingNext, Reserve, Purchase, Release, Cancel, Expire, ClockTick,
     LapsedAt, Held, Bookable, Reads!BookingNext, Reads!Reserve, Reads!Purchase,
     Reads!Release, Reads!Cancel, Reads!Expire, Reads!ClockTick, Reads!LapsedAt,
     Reads!Held, Reads!Bookable, Reads!tables, Reads!Write, readVars, Reads!readVars

LEMMA ServiceStep == StoreInv /\ [ServiceNext]_serviceVars => [Reads!Next]_(Reads!vars)
<1> SUFFICES ASSUME StoreInv, [ServiceNext]_serviceVars PROVE [Reads!Next]_(Reads!vars)
  OBVIOUS
<1>1. CASE StoreStep
  <2>1. [BookingNext]_bvars
    BY <1>1, StepKeepsPromise DEF StoreStep
  <2>2. CASE BookingNext
    BY <1>1, <2>2, ReadsWriteIsBookings DEF StoreStep, Reads!Next
  <2>3. CASE UNCHANGED bvars
    BY <1>1, <2>3 DEF StoreStep, bvars, tables, readVars, Reads!vars, Reads!tables, Reads!readVars
  <2> QED  BY <2>1, <2>2, <2>3
<1>2. ASSUME NEW p \in Readers, ReadStep(p) PROVE Reads!Next
  BY <1>2 DEF ReadStep, Reads!Next
<1>3. CASE UNCHANGED serviceVars
  BY <1>3 DEF serviceVars, vars, tables, readVars, Reads!vars, Reads!tables, Reads!readVars
<1> QED  BY <1>1, <1>2, <1>3 DEF ServiceNext

(* The service implements ReservationReads: its readers see bookings,      *)
(* purchases, cancellations and sweeps in whole steps only.                *)
THEOREM ServiceReadsOperations == ServiceSpec => ReadsSeeOperations
<1>1. ServiceInit => Reads!Init
  BY DEF ServiceInit
<1> QED  BY <1>1, ServiceStep, ServiceStoreInv, PTL DEF ServiceSpec, ReadsSeeOperations, Reads!Spec

(* The module whose theorems are used is the module that is implemented. *)
LEMMA SameReaders ==
  /\ Reads!Init => Proved!Init
  /\ [Reads!Next]_(Reads!vars) => [Proved!Next]_(Proved!vars)
  /\ Proved!ShownWhole => AnswersWhole
  /\ Proved!HistoryNeverGoesBack => AnswersNeverGoBack
<1>1. Reads!Init => Proved!Init
  BY DEF Reads!Init, Reads!TablesInit, Reads!IdleRead, Proved!Init, Proved!TablesInit,
     Proved!IdleRead
<1>2. Reads!Write => Proved!Write
  BY DEF Reads!Write, Reads!BookingNext, Reads!Reserve, Reads!Purchase, Reads!Release,
     Reads!Cancel, Reads!Expire, Reads!ClockTick, Reads!LapsedAt, Reads!Held, Reads!Bookable,
     Reads!tables, Reads!readVars, Proved!Write, Proved!BookingNext, Proved!Reserve,
     Proved!Purchase, Proved!Release, Proved!Cancel, Proved!Expire, Proved!ClockTick,
     Proved!LapsedAt, Proved!Held, Proved!Bookable, Proved!tables, Proved!readVars
<1>3. \A R, u : Reads!JoinRows(R, u) = Proved!JoinRows(R, u)
  BY DEF Reads!JoinRows, Reads!TicketRows, Reads!Held, Proved!JoinRows, Proved!TicketRows,
     Proved!Held
<1>4. \A row, now : /\ Reads!Scanned(row, now) = Proved!Scanned(row, now)
                    /\ Reads!Effective(row, now) = Proved!Effective(row, now)
  BY DEF Reads!Scanned, Reads!ScannedTickets, Reads!Effective, Reads!EffectiveStatus,
     Proved!Scanned, Proved!ScannedTickets, Proved!Effective, Proved!EffectiveStatus
<1>5. \A p, list : Reads!Answer(p, list) = Proved!Answer(p, list)
  BY DEF Reads!Answer, Reads!IdleRead, Reads!tables, Proved!Answer, Proved!IdleRead,
     Proved!tables
<1>6. ASSUME NEW p \in Readers, Reads!List(p) PROVE Proved!List(p)
  BY <1>3, <1>4, <1>5, <1>6
     DEF Reads!List, Reads!GetUserReservations, Reads!ScanRows, Reads!MarkExpired,
     Reads!AnswerList, Reads!FailRead, Reads!IdleRead, Reads!tables, Reads!answers,
     Proved!List, Proved!GetUserReservations, Proved!ScanRows, Proved!MarkExpired,
     Proved!AnswerList, Proved!FailRead, Proved!IdleRead, Proved!tables, Proved!answers
<1>7. ASSUME NEW p \in Readers, Reads!ByID(p) PROVE Proved!ByID(p)
  BY <1>3, <1>5, <1>7
     DEF Reads!ByID, Reads!GetReservationByID, Reads!AnswerOne, Reads!FailRead, Reads!IdleRead,
     Reads!tables, Reads!answers, Proved!ByID, Proved!GetReservationByID, Proved!AnswerOne,
     Proved!FailRead, Proved!IdleRead, Proved!tables, Proved!answers
<1>8. [Reads!Next]_(Reads!vars) => [Proved!Next]_(Proved!vars)
  BY <1>2, <1>6, <1>7 DEF Reads!Next, Proved!Next, Reads!vars, Reads!tables, Reads!readVars,
     Proved!vars, Proved!tables, Proved!readVars
<1>9. /\ Proved!ShownWhole => AnswersWhole
      /\ Proved!HistoryNeverGoesBack => AnswersNeverGoBack
  BY DEF AnswersWhole, Reads!ShownWhole, Reads!With, Proved!ShownWhole, Proved!With,
     AnswersNeverGoBack, Reads!HistoryNeverGoesBack, Proved!HistoryNeverGoesBack
<1> QED  BY <1>1, <1>8, <1>9

LEMMA ServiceSteps == ServiceSpec => Proved!Spec
<1>1. ServiceInit => Proved!Init
  BY SameReaders DEF ServiceInit
<1>2. StoreInv /\ [ServiceNext]_serviceVars => [Proved!Next]_(Proved!vars)
  BY ServiceStep, SameReaders
<1> QED  BY <1>1, <1>2, ServiceStoreInv, PTL DEF ServiceSpec, Proved!Spec

(* So every answer shows a committed state of each reservation. *)
THEOREM ServiceAnswersWhole == ServiceSpec => []AnswersWhole
<1>1. Proved!Spec => []Proved!ShownWhole
  BY Proved!ReadsShowWhole, NullAssumption, TimeAssumption, PTL
<1> QED  BY <1>1, ServiceSteps, SameReaders, PTL

(* And the history never takes back that a hold has expired, once the      *)
(* service reads the clock after the answer that said so.                  *)
THEOREM ServiceNeverGoesBack == ServiceSpec => []AnswersNeverGoBack
<1>1. Proved!Spec => []Proved!HistoryNeverGoesBack
  BY Proved!ReadsNeverGoBack, NullAssumption, TimeAssumption, PTL
<1> QED  BY <1>1, ServiceSteps, SameReaders, PTL
================================================================================
