----------------------- MODULE ReservationStore_proofs -----------------------
(***************************************************************************)
(* The transactions of ReservationStore keep the promise of Bookings, for  *)
(* any number of rows, requests, handlers and sweepers.                    *)
(***************************************************************************)
EXTENDS ReservationStore, Bookings_proofs, FiniteSetTheorems, WellFoundedInduction

-----------------------------------------------------------------------------
(* Type correctness *)

LEMMA IdleTypes == IdleCreate \in CreateType /\ IdleUpdate \in UpdateType
  BY DEF IdleCreate, IdleUpdate, CreateType, UpdateType

(* Setting one field of a typed record to a value of its type. *)
LEMMA CreateFields ==
  ASSUME NEW c \in CreateType
  PROVE  /\ \A v \in {"idle", "admitted", "open"} : [c EXCEPT !.pc = v] \in CreateType
         /\ \A v \in Users : [c EXCEPT !.user = v] \in CreateType
         /\ \A v \in Requests : [c EXCEPT !.seats = v] \in CreateType
         /\ \A v \in Nat : [c EXCEPT !.next = v] \in CreateType
         /\ \A v \in Nat : [c EXCEPT !.expiresAt = v] \in CreateType
         /\ \A v \in Nat : [c EXCEPT !.now = v] \in CreateType
         /\ \A v \in SUBSET Reservations : [c EXCEPT !.lapsed = v] \in CreateType
         /\ \A v \in SUBSET Tickets : [c EXCEPT !.scan = v] \in CreateType
         /\ \A v \in SUBSET Tickets : [c EXCEPT !.got = v] \in CreateType
         /\ \A v \in SUBSET Tickets : [c EXCEPT !.picked = v] \in CreateType
         /\ \A v \in SUBSET Tickets : [c EXCEPT !.locked = v] \in CreateType
  BY DEF CreateType

LEMMA UpdateFields ==
  ASSUME NEW x \in UpdateType
  PROVE  /\ \A v \in {"idle", "open", "running"} : [x EXCEPT !.pc = v] \in UpdateType
         /\ \A v \in {"purchase", "cancel", "expire"} : [x EXCEPT !.op = v] \in UpdateType
         /\ \A v \in Users : [x EXCEPT !.user = v] \in UpdateType
         /\ \A v \in Reservations : [x EXCEPT !.rid = v] \in UpdateType
         /\ \A v \in Nat : [x EXCEPT !.now = v] \in UpdateType
         /\ \A v \in SUBSET Reservations : [x EXCEPT !.pend = v] \in UpdateType
         /\ \A v \in SUBSET Reservations : [x EXCEPT !.hit = v] \in UpdateType
         /\ \A v \in SUBSET (Tickets \X Reservations) : [x EXCEPT !.rows = v] \in UpdateType
         /\ \A v \in SUBSET Tickets : [x EXCEPT !.done = v] \in UpdateType
         /\ \A v \in SUBSET Reservations : [x EXCEPT !.rlocked = v] \in UpdateType
         /\ \A v \in SUBSET Tickets : [x EXCEPT !.tlocked = v] \in UpdateType
  BY ZenonT(30) DEF UpdateType

LEMMA InitTypeOK == Init => TypeOK
<1> SUFFICES ASSUME Init PROVE TypeOK
  OBVIOUS
<1>1. TablesTypeOK
  BY DEF Init, TablesInit, TablesTypeOK, TicketStatus, ReservationStatus
<1>2. create \in [Creators -> CreateType] /\ update \in [Updaters -> UpdateType]
  BY IdleTypes DEF Init
<1> QED BY <1>1, <1>2 DEF TypeOK

(* A step of one call or one transaction leaves the tables alone. *)
LEMMA CreateOnlyTypeOK ==
  ASSUME TypeOK, NEW p \in Creators, NEW x \in CreateType,
         create' = [create EXCEPT ![p] = x], UNCHANGED <<clock, tables, update>>
  PROVE  TypeOK'
<1>1. TablesTypeOK'
  BY DEF TypeOK, TablesTypeOK, tables
<1>2. create' \in [Creators -> CreateType] /\ update' \in [Updaters -> UpdateType]
  BY DEF TypeOK
<1> QED BY <1>1, <1>2 DEF TypeOK

LEMMA UpdateOnlyTypeOK ==
  ASSUME TypeOK, NEW p \in Updaters, NEW x \in UpdateType,
         update' = [update EXCEPT ![p] = x], UNCHANGED <<clock, tables, create>>
  PROVE  TypeOK'
<1>1. TablesTypeOK'
  BY DEF TypeOK, TablesTypeOK, tables
<1>2. create' \in [Creators -> CreateType] /\ update' \in [Updaters -> UpdateType]
  BY DEF TypeOK
<1> QED BY <1>1, <1>2 DEF TypeOK

LEMMA CreateStepTypeOK ==
  ASSUME TypeOK, NEW p \in Creators,
         \/ \E u \in Users, seats \in Requests : AdmitCreate(p, u, seats)
         \/ CreateStep(p)
         \/ AbortCreate(p)
  PROVE  TypeOK'
<1>0. create[p] \in CreateType /\ clock \in Nat
  BY DEF TypeOK, TablesTypeOK
<1>1. ASSUME NEW u \in Users, NEW seats \in Requests, AdmitCreate(p, u, seats)
      PROVE  TypeOK'
  <2>1. [IdleCreate EXCEPT !.pc = "admitted", !.user = u, !.seats = seats,
                           !.expiresAt = clock + HoldTime] \in CreateType
    <3>1. clock + HoldTime \in Nat
      BY <1>0, TimeAssumption
    <3> QED BY <3>1, IdleTypes, CreateFields
  <2> QED BY <1>1, <2>1, CreateOnlyTypeOK DEF AdmitCreate
<1>2. CASE BeginCreate(p)
  <2>1. [create[p] EXCEPT !.pc = "open", !.now = clock] \in CreateType
    BY <1>0, CreateFields
  <2> QED BY <1>2, <2>1, CreateOnlyTypeOK DEF BeginCreate
<1>3. CASE SelectAvailableTickets(p)
  <2>1. create[p].next + 1 \in Nat /\ Chosen(p) \in SUBSET Tickets
    BY <1>0 DEF CreateType, Chosen
  <2>2. \A lapsed \in SUBSET Reservations, scan \in SUBSET Tickets :
          [create[p] EXCEPT !.next = create[p].next + 1, !.lapsed = lapsed,
                            !.scan = scan, !.got = {}, !.picked = Chosen(p)] \in CreateType
    BY <1>0, <2>1, CreateFields
  <2> QED BY <1>3, <2>2, CreateOnlyTypeOK DEF SelectAvailableTickets
<1>4. ASSUME NEW t \in Tickets, LockTicket(p, t)
      PROVE  TypeOK'
  <2>1. create[p].scan \in SUBSET Tickets /\ create[p].locked \in SUBSET Tickets
        /\ create[p].got \in SUBSET Tickets
    BY <1>0 DEF CreateType
  <2> DEFINE got == create[p].got \cup {s \in {t} : Bookable(s, create[p].lapsed)}
  <2>2. [create[p] EXCEPT !.scan = create[p].scan \ {t},
                          !.locked = create[p].locked \cup {t},
                          !.got = got] \in CreateType
    <3>1. got \in SUBSET Tickets
      BY <2>1
    <3> HIDE DEF got
    <3> QED BY <1>0, <2>1, <3>1, CreateFields, ZenonT(30)
  <2> QED BY <1>4, <2>2, CreateOnlyTypeOK DEF LockTicket
<1>5. CASE GiveUpCreate(p) \/ AbortCreate(p)
  BY <1>5, IdleTypes, CreateOnlyTypeOK DEF GiveUpCreate, AbortCreate
<1>6. ASSUME NEW r \in Reservations, CommitCreate(p, r)
      PROVE  TypeOK'
  <2>1. Chosen(p) \subseteq Tickets /\ create[p].user \in Users \cup {NoUser}
        /\ create[p].expiresAt \in Nat
    BY <1>0 DEF Chosen, CreateType
  <2>2. TablesTypeOK'
    BY <1>6, <2>1 DEF CommitCreate, TypeOK, TablesTypeOK, TicketStatus, ReservationStatus
  <2> QED BY <1>6, <2>2, IdleTypes DEF CommitCreate, TypeOK
<1> QED BY <1>1, <1>2, <1>3, <1>4, <1>5, <1>6 DEF CreateStep

LEMMA UpdateStepTypeOK ==
  ASSUME TypeOK, NEW p \in Updaters,
         \/ \E u \in Users, r \in Reservations : BeginPurchase(p, u, r) \/ BeginCancel(p, u, r)
         \/ ExpiredReservations(p)
         \/ UpdateStep(p)
         \/ AbortUpdate(p)
  PROVE  TypeOK'
<1>0. update[p] \in UpdateType /\ clock \in Nat
  BY DEF TypeOK, TablesTypeOK
<1>1. ASSUME NEW u \in Users, NEW r \in Reservations, NEW op \in {"purchase", "cancel"},
             BeginUpdate(p, op, u, r)
      PROVE  TypeOK'
  <2>1. [IdleUpdate EXCEPT !.pc = "open", !.op = op, !.user = u, !.rid = r,
                           !.now = clock] \in UpdateType
    BY <1>0, IdleTypes, UpdateFields
  <2> QED BY <1>1, <2>1, UpdateOnlyTypeOK DEF BeginUpdate
<1>2. ASSUME NEW x \in UpdateType, Execute(p, x), UNCHANGED <<clock, tables, create>>
      PROVE  TypeOK'
  <2>1. \A pend \in SUBSET Reservations, rows \in SUBSET (Tickets \X Reservations) :
          [x EXCEPT !.pc = "running", !.pend = pend, !.rows = rows] \in UpdateType
    BY UpdateFields
  <2>2. \A P \in SUBSET Reservations :
          {row \in Tickets \X P : holder[row[1]] = row[2]} \in SUBSET (Tickets \X Reservations)
    OBVIOUS
  <2> QED BY <1>2, <2>1, <2>2, UpdateOnlyTypeOK DEF Execute
<1>3. CASE ExpiredReservations(p)
  <2>1. [IdleUpdate EXCEPT !.op = "expire", !.now = clock] \in UpdateType
    BY <1>0, IdleTypes, UpdateFields
  <2> QED BY <1>2, <1>3, <2>1 DEF ExpiredReservations
<1>4. CASE ExecuteUpdate(p)
  BY <1>0, <1>2, <1>4 DEF ExecuteUpdate
<1>5. ASSUME NEW r \in Reservations, UpdateReservation(p, r)
      PROVE  TypeOK'
  <2> DEFINE hit == update[p].hit \cup {s \in {r} : Matches(update[p], s)}
  <2>1. update[p].pend \in SUBSET Reservations /\ update[p].rlocked \in SUBSET Reservations
        /\ hit \in SUBSET Reservations
    BY <1>0 DEF UpdateType
  <2>2. [update[p] EXCEPT !.pend = update[p].pend \ {r},
                          !.rlocked = update[p].rlocked \cup {r},
                          !.hit = hit] \in UpdateType
    <3> HIDE DEF hit
    <3> QED BY <1>0, <2>1, UpdateFields
  <2> QED BY <1>5, <2>2, UpdateOnlyTypeOK DEF UpdateReservation
<1>6. ASSUME NEW t \in Tickets, NEW r \in Reservations, UpdateTicket(p, t, r)
      PROVE  TypeOK'
  <2> DEFINE done == update[p].done \cup {s \in {t} : StillHeld(s, r)}
  <2>1. /\ update[p].rows \in SUBSET (Tickets \X Reservations)
        /\ update[p].tlocked \in SUBSET Tickets
        /\ done \in SUBSET Tickets
    BY <1>0 DEF UpdateType
  <2>2. [update[p] EXCEPT !.rows = update[p].rows \ {<<t, r>>},
                          !.tlocked = update[p].tlocked \cup {t},
                          !.done = done] \in UpdateType
    <3> HIDE DEF done
    <3> QED BY <1>0, <2>1, UpdateFields, ZenonT(30)
  <2> QED BY <1>6, <2>2, UpdateOnlyTypeOK DEF UpdateTicket
<1>7. CASE GiveUpUpdate(p) \/ AbortUpdate(p)
  BY <1>7, IdleTypes, UpdateOnlyTypeOK DEF GiveUpUpdate, AbortUpdate
<1>8. CASE CommitPurchase(p)
  <2>1. update[p].done \subseteq Tickets
    BY <1>0 DEF UpdateType
  <2>2. TablesTypeOK'
    BY <1>8, <2>1 DEF CommitPurchase, PurchasedStatus, TypeOK, TablesTypeOK, TicketStatus,
       ReservationStatus
  <2> QED BY <1>8, <2>2, IdleTypes DEF CommitPurchase, TypeOK
<1>9. ASSUME ReleaseTickets(p), rstatus' \in [Reservations -> ReservationStatus]
      PROVE  TypeOK'
  <2>1. TablesTypeOK'
    BY <1>9 DEF ReleaseTickets, WithoutReservation, TypeOK, TablesTypeOK, TicketStatus
  <2> QED BY <1>9, <2>1, IdleTypes DEF ReleaseTickets, TypeOK
<1>10. CASE CommitCancel(p)
  BY <1>9, <1>10 DEF CommitCancel, TypeOK, TablesTypeOK, ReservationStatus
<1>11. CASE CommitSweep(p)
  BY <1>9, <1>11 DEF CommitSweep, TypeOK, TablesTypeOK, ReservationStatus
<1> QED BY <1>1, <1>3, <1>4, <1>5, <1>6, <1>7, <1>8, <1>10, <1>11
        DEF UpdateStep, BeginPurchase, BeginCancel

LEMMA NextTypeOK == TypeOK /\ [Next]_vars => TypeOK'
<1> SUFFICES ASSUME TypeOK, [Next]_vars PROVE TypeOK'
  OBVIOUS
<1>1. CASE Tick \/ UNCHANGED vars
  BY <1>1 DEF Tick, vars, tables, TypeOK, TablesTypeOK
<1>2. CASE Next
  BY <1>1, <1>2, CreateStepTypeOK, UpdateStepTypeOK DEF Next
<1> QED BY <1>1, <1>2

(* Rows and transactions keep their types. *)
THEOREM StoreTypeCorrect == Spec => []TypeOK
  BY InitTypeOK, NextTypeOK, PTL DEF Spec

-----------------------------------------------------------------------------
(* What one transaction's commit leaves to the others *)

(* A step that changes the tickets T and the reservations R.  Every ticket *)
(* of a reservation of R is in T, and no existing reservation gains one.   *)
ChangesOnly(T, R) ==
  /\ clock' = clock
  /\ \A t \in Tickets \ T :
       tstatus'[t] = tstatus[t] /\ holder'[t] = holder[t] /\ holder[t] \notin R
  /\ \A t \in Tickets, s \in Reservations :
       holder'[t] = s => holder[t] = s \/ rstatus[s] = "none"
  /\ \A s \in Reservations :
       rstatus[s] # "none" => /\ rstatus'[s] # "none"
                              /\ owner'[s] = owner[s]
                              /\ expiresAt'[s] = expiresAt[s]
                              /\ s \notin R => rstatus'[s] = rstatus[s]

(* A call whose locked tickets are not changed still knows what it knew. *)
LEMMA OtherCreate ==
  ASSUME TypeOK, BookingInv, NEW T, NEW R, ChangesOnly(T, R),
         NEW q \in Creators, create'[q] = create[q], CreateOK(create[q]),
         create[q].locked \cap T = {}
  PROVE  CreateOK(create[q])'
<1> DEFINE c == create[q]
<1>1. c \in CreateType
  BY DEF TypeOK
<1>2. /\ c.now <= clock'
      /\ c.expiresAt <= clock' + HoldTime
      /\ c.pc # "idle" => c.user \in Users
      /\ c.pc # "open" => c.next = 0 /\ c.got = {} /\ c.picked = {} /\ c.locked = {}
      /\ c.picked \cup c.got \subseteq c.locked
  BY DEF CreateOK, ChangesOnly
<1>3. \A s \in c.lapsed : rstatus'[s] # "none" /\ expiresAt'[s] < c.now
  BY <1>1 DEF CreateOK, ChangesOnly, CreateType
<1>4. ASSUME NEW t \in c.picked \cup c.got
      PROVE  \/ tstatus'[t] = "available"
             \/ /\ tstatus'[t] = "reserved"
                /\ holder'[t] \in Reservations
                /\ rstatus'[holder'[t]] = "pending"
                /\ expiresAt'[holder'[t]] < c.now
  <2>1. t \in Tickets \ T
    BY <1>1, <1>2 DEF CreateType
  <2>2. tstatus'[t] = tstatus[t] /\ holder'[t] = holder[t] /\ holder[t] \notin R
    BY <2>1 DEF ChangesOnly
  <2>3. Bookable(t, {s \in Reservations : LapsedAt(s, c.now)})
    BY DEF CreateOK
  <2> QED BY <2>2, <2>3 DEF Bookable, LapsedAt, ChangesOnly
<1> QED BY <1>2, <1>3, <1>4 DEF CreateOK, Bookable, LapsedAt

LEMMA OtherUpdate ==
  ASSUME TypeOK, BookingInv, NEW T, NEW R, ChangesOnly(T, R),
         NEW q \in Updaters, update'[q] = update[q], UpdateOK(q, update[q]),
         update[q].tlocked \cap T = {}, update[q].rlocked \cap R = {}
  PROVE  UpdateOK(q, update[q])'
<1> DEFINE x == update[q]
<1>1. /\ x \in UpdateType
      /\ x.hit \subseteq Reservations /\ x.pend \subseteq Reservations
      /\ x.done \subseteq Tickets
  BY DEF TypeOK, UpdateType
<1>2. /\ x.now <= clock'
      /\ x.pc # "running" => /\ x.pend = {} /\ x.hit = {} /\ x.rows = {}
                             /\ x.done = {} /\ x.rlocked = {} /\ x.tlocked = {}
      /\ x.pc # "idle" /\ q \in Callers => x.op # "expire" /\ x.rid \in Reservations
      /\ x.pc # "idle" /\ q \in Sweepers => x.op = "expire"
      /\ x.hit \subseteq x.rlocked
      /\ x.done \subseteq x.tlocked
  BY DEF UpdateOK, ChangesOnly
<1>3. \A r \in x.pend \cup x.hit : rstatus[r] # "none" /\ rstatus'[r] # "none"
  BY <1>1 DEF UpdateOK, ChangesOnly
<1>4. \A r \in x.hit : Matches(x, r) /\ rstatus'[r] = rstatus[r] /\ owner'[r] = owner[r]
                       /\ expiresAt'[r] = expiresAt[r]
  BY <1>1, <1>2, <1>3 DEF UpdateOK, ChangesOnly
<1>5. \A r \in x.hit : Matches(x, r)'
  BY <1>4 DEF Matches, OwnRow, PurchasableAt, Swept, LapsedAt
<1>6. \A t \in Tickets :
        holder'[t] \in x.pend \cup x.hit => <<t, holder'[t]>> \in x.rows \/ t \in x.done
  <2> SUFFICES ASSUME NEW t \in Tickets, holder'[t] \in x.pend \cup x.hit
               PROVE  <<t, holder'[t]>> \in x.rows \/ t \in x.done
    OBVIOUS
  <2>1. holder'[t] \in Reservations /\ rstatus[holder'[t]] # "none"
    BY <1>1, <1>3
  <2>2. holder[t] = holder'[t]
    BY <2>1 DEF ChangesOnly
  <2> QED BY <2>2 DEF UpdateOK
<1>7. \A t \in x.done : holder'[t] \in x.hit
  BY <1>1, <1>2 DEF UpdateOK, ChangesOnly
<1> QED BY <1>2, <1>3, <1>5, <1>6, <1>7 DEF UpdateOK

LEMMA IdleOK ==
  ASSUME TypeOK
  PROVE  CreateOK(IdleCreate) /\ \A q \in Updaters : UpdateOK(q, IdleUpdate)
  BY TimeAssumption DEF TypeOK, TablesTypeOK, CreateOK, UpdateOK, IdleCreate, IdleUpdate

(* A process keeps its locks, or takes one that is free. *)
LEMMA LocksStayExclusive ==
  ASSUME LocksExclusive, NEW p \in Processes,
         \A q \in Processes \ {p} : TicketLocks(q)' = TicketLocks(q),
         \A q \in Updaters \ {p} : update'[q].rlocked = update[q].rlocked,
         \A t \in TicketLocks(p)' : t \in TicketLocks(p) \/ TicketFree(p, t),
         p \in Updaters => \A r \in update'[p].rlocked :
                             r \in update[p].rlocked \/ ReservationFree(p, r)
  PROVE  LocksExclusive'
<1>1. ASSUME NEW q \in Processes \ {p} PROVE TicketLocks(p)' \cap TicketLocks(q)' = {}
  <2>1. TicketLocks(p) \cap TicketLocks(q) = {}
    BY DEF LocksExclusive
  <2>2. \A t : TicketFree(p, t) => t \notin TicketLocks(q)
    BY DEF TicketFree, Processes
  <2> QED BY <2>1, <2>2
<1>2. \A s, q \in Processes : s # q => (TicketLocks(s) \cap TicketLocks(q))' = {}
  BY <1>1 DEF LocksExclusive
<1>3. ASSUME NEW q \in Updaters \ {p}, p \in Updaters
      PROVE  update'[p].rlocked \cap update'[q].rlocked = {}
  <2>1. update[p].rlocked \cap update[q].rlocked = {}
    BY <1>3 DEF LocksExclusive
  <2>2. \A r : ReservationFree(p, r) => r \notin update[q].rlocked
    BY DEF ReservationFree
  <2> QED BY <1>3, <2>1, <2>2
<1>4. \A s, q \in Updaters : s # q => update'[s].rlocked \cap update'[q].rlocked = {}
  BY <1>3 DEF LocksExclusive
<1> QED BY <1>2, <1>4 DEF LocksExclusive

-----------------------------------------------------------------------------
(* Every step keeps the invariant *)

(* A step that changes one call only. *)
LEMMA CreateOnlyInv ==
  ASSUME StoreInv, TypeOK', NEW p \in Creators,
         UNCHANGED <<clock, tables, update>>,
         \A q \in Creators \ {p} : create'[q] = create[q],
         CreateOK(create[p])',
         \A t \in create'[p].locked : t \in create[p].locked \/ TicketFree(p, t)
  PROVE  StoreInv'
<1>1. BookingInv'
  BY BookingNextInv DEF StoreInv, bvars
<1>2. ChangesOnly({}, {})
  BY DEF ChangesOnly, tables
<1>3. ASSUME NEW q \in Creators PROVE CreateOK(create[q])'
  BY <1>2, OtherCreate DEF StoreInv
<1>4. ASSUME NEW q \in Updaters PROVE UpdateOK(q, update[q])'
  BY <1>2, OtherUpdate DEF StoreInv
<1>5. LocksExclusive'
  BY LocksStayExclusive, ProcessAssumption DEF StoreInv, Processes, TicketLocks
<1> QED BY <1>1, <1>3, <1>4, <1>5 DEF StoreInv

(* A step that changes one transaction of a caller or sweeper only. *)
LEMMA UpdateOnlyInv ==
  ASSUME StoreInv, TypeOK', NEW p \in Updaters,
         UNCHANGED <<clock, tables, create>>,
         \A q \in Updaters \ {p} : update'[q] = update[q],
         UpdateOK(p, update[p])',
         \A t \in update'[p].tlocked : t \in update[p].tlocked \/ TicketFree(p, t),
         \A r \in update'[p].rlocked : r \in update[p].rlocked \/ ReservationFree(p, r)
  PROVE  StoreInv'
<1>1. BookingInv'
  BY BookingNextInv DEF StoreInv, bvars
<1>2. ChangesOnly({}, {})
  BY DEF ChangesOnly, tables
<1>3. ASSUME NEW q \in Creators PROVE CreateOK(create[q])'
  BY <1>2, OtherCreate DEF StoreInv
<1>4. ASSUME NEW q \in Updaters PROVE UpdateOK(q, update[q])'
  BY <1>2, OtherUpdate DEF StoreInv
<1>5. LocksExclusive'
  BY LocksStayExclusive, ProcessAssumption DEF StoreInv, Processes, TicketLocks
<1> QED BY <1>1, <1>3, <1>4, <1>5 DEF StoreInv

(* A commit: an operation of Bookings on rows that the transaction locked. *)
LEMMA CreateCommitInv ==
  ASSUME StoreInv, TypeOK', [BookingNext]_bvars, NEW p \in Creators,
         ChangesOnly(create[p].locked, {}),
         create' = [create EXCEPT ![p] = IdleCreate], UNCHANGED update
  PROVE  StoreInv'
<1>1. BookingInv'
  BY BookingNextInv DEF StoreInv
<1>2. \A q \in Creators \ {p} : create[q].locked \cap create[p].locked = {}
  BY ProcessAssumption DEF StoreInv, LocksExclusive, Processes, TicketLocks
<1>3. \A q \in Updaters : update[q].tlocked \cap create[p].locked = {}
  BY ProcessAssumption DEF StoreInv, LocksExclusive, Processes, TicketLocks
<1>4. ASSUME NEW q \in Creators PROVE CreateOK(create[q])'
  <2>1. CASE q = p
    <3>1. create'[q] = IdleCreate
      BY <2>1 DEF StoreInv, TypeOK
    <3> QED BY <3>1, TimeAssumption DEF TypeOK, TablesTypeOK, CreateOK, IdleCreate
  <2>2. CASE q # p
    BY <1>2, <2>2, OtherCreate DEF StoreInv, TypeOK
  <2> QED BY <2>1, <2>2
<1>5. ASSUME NEW q \in Updaters PROVE UpdateOK(q, update[q])'
  BY <1>3, OtherUpdate DEF StoreInv
<1>6. LocksExclusive'
  <2>1. create'[p].locked = {} /\ \A q \in Creators \ {p} : create'[q] = create[q]
    BY DEF StoreInv, TypeOK, IdleCreate
  <2> QED BY <2>1, LocksStayExclusive, ProcessAssumption
          DEF StoreInv, Processes, TicketLocks
<1> QED BY <1>1, <1>4, <1>5, <1>6 DEF StoreInv

LEMMA UpdateCommitInv ==
  ASSUME StoreInv, TypeOK', [BookingNext]_bvars, NEW p \in Updaters,
         ChangesOnly(update[p].done, update[p].hit),
         update' = [update EXCEPT ![p] = IdleUpdate], UNCHANGED create
  PROVE  StoreInv'
<1>1. BookingInv'
  BY BookingNextInv DEF StoreInv
<1>0. update[p].done \subseteq update[p].tlocked /\ update[p].hit \subseteq update[p].rlocked
  BY DEF StoreInv, UpdateOK
<1>2. \A q \in Creators : create[q].locked \cap update[p].done = {}
  BY <1>0, ProcessAssumption DEF StoreInv, LocksExclusive, Processes, TicketLocks
<1>3. \A q \in Updaters \ {p} : /\ update[q].tlocked \cap update[p].done = {}
                               /\ update[q].rlocked \cap update[p].hit = {}
  BY <1>0, ProcessAssumption DEF StoreInv, LocksExclusive, Processes, TicketLocks
<1>4. ASSUME NEW q \in Creators PROVE CreateOK(create[q])'
  BY <1>2, OtherCreate DEF StoreInv
<1>5. ASSUME NEW q \in Updaters PROVE UpdateOK(q, update[q])'
  <2>1. CASE q = p
    <3>1. update'[q] = IdleUpdate
      BY <2>1 DEF StoreInv, TypeOK
    <3> QED BY <3>1 DEF TypeOK, TablesTypeOK, UpdateOK, IdleUpdate
  <2>2. CASE q # p
    BY <1>3, <2>2, OtherUpdate DEF StoreInv, TypeOK
  <2> QED BY <2>1, <2>2
<1>6. LocksExclusive'
  <2>1. /\ update'[p].tlocked = {} /\ update'[p].rlocked = {}
        /\ \A q \in Updaters \ {p} : update'[q] = update[q]
    BY DEF StoreInv, TypeOK, IdleUpdate
  <2> QED BY <2>1, LocksStayExclusive, ProcessAssumption
          DEF StoreInv, Processes, TicketLocks
<1> QED BY <1>1, <1>4, <1>5, <1>6 DEF StoreInv

LEMMA InitStoreInv == Init => StoreInv
<1> SUFFICES ASSUME Init PROVE StoreInv
  OBVIOUS
<1>1. TypeOK /\ BookingInv
  BY InitTypeOK, BookingInitInv DEF Init
<1>2. \A p \in Creators : CreateOK(create[p])
  BY <1>1, IdleOK DEF Init
<1>3. \A p \in Updaters : UpdateOK(p, update[p])
  BY <1>1, IdleOK DEF Init
<1>4. LocksExclusive
  BY DEF Init, LocksExclusive, TicketLocks, Processes, IdleCreate, IdleUpdate
<1> QED BY <1>1, <1>2, <1>3, <1>4 DEF StoreInv

(* CreateReservation up to its COMMIT. *)
LEMMA AdmitCreateInv ==
  ASSUME StoreInv, TypeOK', NEW p \in Creators, NEW u \in Users, NEW seats \in Requests,
         AdmitCreate(p, u, seats)
  PROVE  StoreInv'
<1>1. create'[p] = [IdleCreate EXCEPT !.pc = "admitted", !.user = u, !.seats = seats,
                                      !.expiresAt = clock + HoldTime]
  BY DEF StoreInv, TypeOK, AdmitCreate
<1>2. CreateOK(create[p])'
  BY <1>1, TimeAssumption DEF CreateOK, IdleCreate, StoreInv, TypeOK, TablesTypeOK, AdmitCreate
<1>3. create'[p].locked = {}
  BY <1>1 DEF IdleCreate
<1>4. \A q \in Creators \ {p} : create'[q] = create[q]
  BY DEF AdmitCreate, StoreInv, TypeOK
<1> QED BY <1>2, <1>3, <1>4, CreateOnlyInv DEF AdmitCreate

LEMMA BeginCreateInv ==
  ASSUME StoreInv, TypeOK', NEW p \in Creators, BeginCreate(p)
  PROVE  StoreInv'
<1>1. /\ create[p] \in CreateType
      /\ create'[p].pc = "open"
      /\ create'[p].user = create[p].user
      /\ create'[p].expiresAt = create[p].expiresAt
      /\ create'[p].now = clock
      /\ create'[p].lapsed = create[p].lapsed
      /\ create'[p].got = create[p].got
      /\ create'[p].picked = create[p].picked
      /\ create'[p].locked = create[p].locked
  BY DEF StoreInv, TypeOK, BeginCreate, CreateType
<1>2. /\ create[p].pc = "admitted" /\ CreateOK(create[p]) /\ UNCHANGED <<clock, tables>>
      /\ clock \in Nat
  BY DEF BeginCreate, StoreInv, TypeOK, TablesTypeOK
<1>3. create[p].got = {} /\ create[p].picked = {}
  BY <1>2 DEF CreateOK
<1>4. \A s \in create[p].lapsed : rstatus[s] # "none" /\ expiresAt[s] < clock
  BY <1>1, <1>2 DEF CreateOK, CreateType, StoreInv, TypeOK, TablesTypeOK
<1>5. CreateOK(create[p])'
  BY <1>1, <1>2, <1>3, <1>4 DEF CreateOK, tables
<1>6. \A q \in Creators \ {p} : create'[q] = create[q]
  BY DEF BeginCreate, StoreInv, TypeOK
<1> QED BY <1>1, <1>5, <1>6, CreateOnlyInv DEF BeginCreate

LEMMA SelectAvailableTicketsInv ==
  ASSUME StoreInv, TypeOK', NEW p \in Creators, SelectAvailableTickets(p)
  PROVE  StoreInv'
<1> DEFINE lapsed == {r \in Reservations : LapsedAt(r, create[p].now)}
<1>1. /\ create[p] \in CreateType
      /\ create'[p].pc = create[p].pc
      /\ create'[p].user = create[p].user
      /\ create'[p].expiresAt = create[p].expiresAt
      /\ create'[p].now = create[p].now
      /\ create'[p].lapsed = lapsed
      /\ create'[p].got = {}
      /\ create'[p].picked = create[p].picked \cup create[p].got
      /\ create'[p].locked = create[p].locked
  BY ZenonT(30) DEF StoreInv, TypeOK, SelectAvailableTickets, CreateType, Chosen
<1>2. create[p].pc = "open" /\ CreateOK(create[p]) /\ UNCHANGED <<clock, tables>>
  BY DEF SelectAvailableTickets, StoreInv
<1>3. \A s \in lapsed : rstatus[s] # "none" /\ expiresAt[s] < create[p].now
  BY DEF LapsedAt
<1>4. CreateOK(create[p])'
  BY <1>1, <1>2, <1>3 DEF CreateOK, tables, Bookable, LapsedAt
<1>5. \A q \in Creators \ {p} : create'[q] = create[q]
  BY DEF SelectAvailableTickets, StoreInv, TypeOK
<1> QED BY <1>1, <1>4, <1>5, CreateOnlyInv DEF SelectAvailableTickets

(* The row lock: a ticket the scan returns is free, or its hold is one of  *)
(* the snapshot's lapsed ones and, the tables being consistent, pending.   *)
LEMMA LockTicketInv ==
  ASSUME StoreInv, TypeOK', NEW p \in Creators, NEW t \in Tickets, LockTicket(p, t)
  PROVE  StoreInv'
<1>1. /\ create[p] \in CreateType
      /\ create'[p].pc = create[p].pc
      /\ create'[p].user = create[p].user
      /\ create'[p].expiresAt = create[p].expiresAt
      /\ create'[p].now = create[p].now
      /\ create'[p].lapsed = create[p].lapsed
      /\ create'[p].got = create[p].got \cup {s \in {t} : Bookable(s, create[p].lapsed)}
      /\ create'[p].picked = create[p].picked
      /\ create'[p].locked = create[p].locked \cup {t}
  BY DEF StoreInv, TypeOK, LockTicket, CreateType
<1>2. /\ create[p].pc = "open" /\ CreateOK(create[p]) /\ UNCHANGED <<clock, tables>>
      /\ TicketFree(p, t)
  BY DEF LockTicket, StoreInv
<1>3. Bookable(t, create[p].lapsed)
      => Bookable(t, {s \in Reservations : LapsedAt(s, create[p].now)})
  <2> SUFFICES ASSUME tstatus[t] = "reserved", holder[t] \in create[p].lapsed
               PROVE  holder[t] \in Reservations /\ LapsedAt(holder[t], create[p].now)
    BY DEF Bookable
  <2>1. rstatus[holder[t]] = "pending"
    BY DEF StoreInv, BookingInv, BookingConsistent
  <2> QED BY <1>1, <1>2, <2>1 DEF CreateOK, CreateType, LapsedAt
<1>4. CreateOK(create[p])'
  <2>1. \A s \in create'[p].picked \cup create'[p].got :
          Bookable(s, {r \in Reservations : LapsedAt(r, create[p].now)})
    BY <1>1, <1>2, <1>3 DEF CreateOK
  <2>2. \A s \in create'[p].picked \cup create'[p].got :
          Bookable(s, {r \in Reservations : LapsedAt(r, create[p].now)})'
    BY <1>1, <1>2, <2>1 DEF Bookable, LapsedAt, tables
  <2>3. /\ create'[p].picked \cup create'[p].got \subseteq create'[p].locked
        /\ \A s \in create'[p].lapsed :
             rstatus'[s] # "none" /\ expiresAt'[s] < create'[p].now
    BY <1>1, <1>2 DEF CreateOK, tables
  <2> QED BY <1>1, <1>2, <2>2, <2>3 DEF CreateOK, tables
<1>5. \A q \in Creators \ {p} : create'[q] = create[q]
  BY DEF LockTicket, StoreInv, TypeOK
<1> QED BY <1>1, <1>2, <1>4, <1>5, CreateOnlyInv DEF LockTicket

LEMMA EndCreateInv ==
  ASSUME StoreInv, TypeOK', NEW p \in Creators, GiveUpCreate(p) \/ AbortCreate(p)
  PROVE  StoreInv'
<1>1. create' = [create EXCEPT ![p] = IdleCreate] /\ UNCHANGED <<clock, tables, update>>
  BY DEF GiveUpCreate, AbortCreate
<1>2. create'[p] = IdleCreate /\ \A q \in Creators \ {p} : create'[q] = create[q]
  BY <1>1 DEF StoreInv, TypeOK
<1>3. CreateOK(create[p])'
  BY <1>1, <1>2, TimeAssumption DEF CreateOK, IdleCreate, StoreInv, TypeOK, TablesTypeOK
<1>4. create'[p].locked = {}
  BY <1>2 DEF IdleCreate
<1> QED BY <1>1, <1>2, <1>3, <1>4, CreateOnlyInv

(* The COMMIT of CreateReservation is a Reserve of what the call chose.    *)
LEMMA CommitCreateReserves ==
  ASSUME StoreInv, NEW p \in Creators, NEW r \in Reservations, CommitCreate(p, r)
  PROVE  /\ create[p].user \in Users /\ Chosen(p) \in SUBSET Tickets
         /\ create[p].expiresAt \in HoldTime .. (clock + HoldTime)
         /\ Reserve(r, create[p].user, Chosen(p), create[p].expiresAt)
<1>1. /\ create[p] \in CreateType /\ CreateOK(create[p]) /\ create[p].pc = "open"
      /\ clock \in Nat /\ expiresAt \in [Reservations -> Nat]
  BY DEF StoreInv, TypeOK, TablesTypeOK, CommitCreate, AllServed
<1>2. /\ create[p].user \in Users /\ Chosen(p) \in SUBSET Tickets
      /\ create[p].expiresAt \in HoldTime .. (clock + HoldTime)
  BY <1>1, TimeAssumption DEF CreateOK, CreateType, Chosen
<1>3. \A s \in Reservations : LapsedAt(s, create[p].now) => LapsedAt(s, clock)
  BY <1>1 DEF CreateOK, CreateType, LapsedAt
<1>4. \A t \in Chosen(p) : Bookable(t, {s \in Reservations : LapsedAt(s, clock)})
  BY <1>1, <1>3 DEF CreateOK, Chosen, Bookable
<1> QED BY <1>2, <1>4 DEF CommitCreate, Reserve

LEMMA CommitCreateInv ==
  ASSUME StoreInv, TypeOK', NEW p \in Creators, NEW r \in Reservations, CommitCreate(p, r)
  PROVE  StoreInv'
<1>1. BookingNext
  BY CommitCreateReserves DEF BookingNext
<1>2. Chosen(p) \subseteq create[p].locked
  BY DEF StoreInv, CreateOK, Chosen
<1>3. ChangesOnly(create[p].locked, {})
  BY <1>2 DEF ChangesOnly, CommitCreate, StoreInv, TypeOK, TablesTypeOK
<1> QED BY <1>1, <1>3, CreateCommitInv DEF CommitCreate

(* A purchase, cancellation or sweep up to its COMMIT. *)
LEMMA BeginUpdateInv ==
  ASSUME StoreInv, TypeOK', NEW p \in Updaters, NEW op \in {"purchase", "cancel"},
         NEW u \in Users, NEW r \in Reservations, BeginUpdate(p, op, u, r)
  PROVE  StoreInv'
<1>1. update'[p] = [IdleUpdate EXCEPT !.pc = "open", !.op = op, !.user = u, !.rid = r,
                                      !.now = clock]
  BY DEF StoreInv, TypeOK, BeginUpdate
<1>2. UpdateOK(p, update[p])'
  BY <1>1, ProcessAssumption
     DEF UpdateOK, IdleUpdate, StoreInv, TypeOK, TablesTypeOK, BeginUpdate
<1>3. update'[p].tlocked = {} /\ update'[p].rlocked = {}
  BY <1>1 DEF IdleUpdate
<1>4. \A q \in Updaters \ {p} : update'[q] = update[q]
  BY DEF BeginUpdate, StoreInv, TypeOK
<1> QED BY <1>2, <1>3, <1>4, UpdateOnlyInv DEF BeginUpdate

(* The snapshot offers every ticket of the reservations it offers. *)
LEMMA ExecuteInv ==
  ASSUME StoreInv, TypeOK', NEW p \in Updaters, NEW x \in UpdateType,
         Execute(p, x), UNCHANGED <<clock, tables, create>>, UpdateOK(p, x),
         x.pc # "running", p \in Callers => x.op # "expire" /\ x.rid \in Reservations,
         p \in Sweepers => x.op = "expire"
  PROVE  StoreInv'
<1> DEFINE pend == {r \in Reservations : Matches(x, r)}
<1>1. /\ update'[p].pc = "running"
      /\ update'[p].op = x.op
      /\ update'[p].rid = x.rid
      /\ update'[p].now = x.now
      /\ update'[p].pend = pend
      /\ update'[p].hit = {}
      /\ update'[p].rows = {row \in Tickets \X pend : holder[row[1]] = row[2]}
      /\ update'[p].done = {}
      /\ update'[p].rlocked = {}
      /\ update'[p].tlocked = {}
  BY ZenonT(30) DEF Execute, StoreInv, TypeOK, UpdateType, UpdateOK
<1>2. \A r \in pend : rstatus[r] # "none"
  BY DEF Matches, PurchasableAt, Swept, LapsedAt
<1>3. \A t \in Tickets : holder[t] \in pend => <<t, holder[t]>> \in update'[p].rows
  BY <1>1
<1>4. UpdateOK(p, update[p])'
  <2> HIDE DEF pend
  <2> QED BY <1>1, <1>2, <1>3 DEF UpdateOK, tables
<1>5. \A q \in Updaters \ {p} : update'[q] = update[q]
  BY DEF Execute, StoreInv, TypeOK
<1> QED BY <1>1, <1>4, <1>5, UpdateOnlyInv

LEMMA ExecuteUpdateInv ==
  ASSUME StoreInv, TypeOK', NEW p \in Updaters, ExecuteUpdate(p)
  PROVE  StoreInv'
<1>1. /\ update[p] \in UpdateType /\ UpdateOK(p, update[p]) /\ update[p].pc = "open"
      /\ Execute(p, update[p]) /\ UNCHANGED <<clock, tables, create>>
  BY DEF StoreInv, TypeOK, ExecuteUpdate
<1>2. /\ p \in Callers => update[p].op # "expire" /\ update[p].rid \in Reservations
      /\ p \in Sweepers => update[p].op = "expire"
  BY <1>1 DEF UpdateOK
<1> QED BY <1>1, <1>2, ExecuteInv

LEMMA ExpiredReservationsInv ==
  ASSUME StoreInv, TypeOK', NEW p \in Updaters, ExpiredReservations(p)
  PROVE  StoreInv'
<1> DEFINE x == [IdleUpdate EXCEPT !.op = "expire", !.now = clock]
<1>1. x \in UpdateType /\ UpdateOK(p, x) /\ x.pc # "running" /\ x.op = "expire"
  <2>1. clock \in Nat
    BY DEF StoreInv, TypeOK, TablesTypeOK
  <2>2. x \in UpdateType
    BY <2>1, IdleTypes, UpdateFields
  <2>3. /\ x.pc = "idle" /\ x.op = "expire" /\ x.now = clock /\ x.pend = {} /\ x.hit = {}
        /\ x.rows = {} /\ x.done = {} /\ x.rlocked = {} /\ x.tlocked = {}
    BY DEF IdleUpdate
  <2> HIDE DEF x
  <2> QED BY <2>1, <2>2, <2>3 DEF UpdateOK
<1>2. Execute(p, x) /\ UNCHANGED <<clock, tables, create>> /\ p \in Sweepers /\ p \notin Callers
  BY ProcessAssumption DEF ExpiredReservations
<1> HIDE DEF x
<1> QED BY <1>1, <1>2, ExecuteInv

LEMMA UpdateReservationInv ==
  ASSUME StoreInv, TypeOK', NEW p \in Updaters, NEW r \in Reservations,
         UpdateReservation(p, r)
  PROVE  StoreInv'
<1> DEFINE x == update[p]
<1>1. /\ x \in UpdateType
      /\ update'[p].pc = x.pc
      /\ update'[p].op = x.op
      /\ update'[p].user = x.user
      /\ update'[p].rid = x.rid
      /\ update'[p].now = x.now
      /\ update'[p].pend = x.pend \ {r}
      /\ update'[p].hit = x.hit \cup {s \in {r} : Matches(x, s)}
      /\ update'[p].rows = x.rows
      /\ update'[p].done = x.done
      /\ update'[p].rlocked = x.rlocked \cup {r}
      /\ update'[p].tlocked = x.tlocked
  <2> DEFINE hit == x.hit \cup {s \in {r} : Matches(x, s)}
  <2>1. x \in UpdateType /\ update \in [Updaters -> UpdateType]
    BY DEF StoreInv, TypeOK
  <2>2. update' = [update EXCEPT ![p] = [x EXCEPT !.pend = x.pend \ {r},
                                                  !.rlocked = x.rlocked \cup {r},
                                                  !.hit = hit]]
    BY DEF UpdateReservation
  <2> HIDE DEF hit
  <2>3. update'[p] = [x EXCEPT !.pend = x.pend \ {r}, !.rlocked = x.rlocked \cup {r},
                               !.hit = hit]
    BY <2>1, <2>2
  <2> QED BY <2>1, <2>3 DEF UpdateType, hit
<1>2. /\ UpdateOK(p, x) /\ UNCHANGED <<clock, tables>> /\ ReservationFree(p, r)
      /\ x.pc = "running" /\ r \in x.pend
  BY DEF UpdateReservation, StoreInv
<1>3. \A s \in update'[p].hit : Matches(x, s)
  BY <1>1, <1>2 DEF UpdateOK
<1>4. \A s \in update'[p].hit : Matches(update[p], s)'
  BY <1>1, <1>2, <1>3 DEF Matches, OwnRow, PurchasableAt, Swept, LapsedAt, tables
<1>5. UpdateOK(p, update[p])'
  BY <1>1, <1>2, <1>4 DEF UpdateOK, tables
<1>6. \A q \in Updaters \ {p} : update'[q] = update[q]
  BY DEF UpdateReservation, StoreInv, TypeOK
<1> QED BY <1>1, <1>2, <1>5, <1>6, UpdateOnlyInv DEF UpdateReservation

LEMMA UpdateTicketInv ==
  ASSUME StoreInv, TypeOK', NEW p \in Updaters, NEW t \in Tickets, NEW r \in Reservations,
         UpdateTicket(p, t, r)
  PROVE  StoreInv'
<1> DEFINE x == update[p]
<1>1. /\ x \in UpdateType
      /\ update'[p].pc = x.pc
      /\ update'[p].op = x.op
      /\ update'[p].user = x.user
      /\ update'[p].rid = x.rid
      /\ update'[p].now = x.now
      /\ update'[p].pend = x.pend
      /\ update'[p].hit = x.hit
      /\ update'[p].rows = x.rows \ {<<t, r>>}
      /\ update'[p].done = x.done \cup {s \in {t} : StillHeld(s, r)}
      /\ update'[p].rlocked = x.rlocked
      /\ update'[p].tlocked = x.tlocked \cup {t}
  <2>1. x \in UpdateType
    BY DEF StoreInv, TypeOK
  <2> DEFINE done == x.done \cup {s \in {t} : StillHeld(s, r)}
  <2>2. update'[p] = [x EXCEPT !.rows = x.rows \ {<<t, r>>}, !.tlocked = x.tlocked \cup {t},
                               !.done = done]
    BY DEF StoreInv, TypeOK, UpdateTicket
  <2> QED  BY <2>1, <2>2, ZenonT(30) DEF UpdateType
<1>2. /\ UpdateOK(p, x) /\ UNCHANGED <<clock, tables>> /\ TicketFree(p, t)
      /\ x.pc = "running" /\ r \in x.hit
  BY DEF UpdateTicket, StoreInv
<1>3. \A s \in update'[p].hit : Matches(update[p], s)'
  BY <1>1, <1>2 DEF UpdateOK, Matches, OwnRow, PurchasableAt, Swept, LapsedAt, tables
<1>4. \A s \in Tickets : holder[s] \in x.pend \cup x.hit =>
        <<s, holder[s]>> \in update'[p].rows \/ s \in update'[p].done
  BY <1>1, <1>2 DEF UpdateOK, StillHeld
<1>5. \A s \in update'[p].done : holder[s] \in x.hit
  BY <1>1, <1>2 DEF UpdateOK, StillHeld
<1>6. update'[p].done \subseteq update'[p].tlocked
  BY <1>1, <1>2 DEF UpdateOK
<1>7. UpdateOK(p, update[p])'
  BY <1>1, <1>2, <1>3, <1>4, <1>5, <1>6 DEF UpdateOK, tables
<1>8. \A q \in Updaters \ {p} : update'[q] = update[q]
  BY DEF UpdateTicket, StoreInv, TypeOK
<1> QED BY <1>1, <1>2, <1>7, <1>8, UpdateOnlyInv DEF UpdateTicket

LEMMA EndUpdateInv ==
  ASSUME StoreInv, TypeOK', NEW p \in Updaters, GiveUpUpdate(p) \/ AbortUpdate(p)
  PROVE  StoreInv'
<1>1. update' = [update EXCEPT ![p] = IdleUpdate] /\ UNCHANGED <<clock, tables, create>>
  BY DEF GiveUpUpdate, AbortUpdate
<1>2. update'[p] = IdleUpdate /\ \A q \in Updaters \ {p} : update'[q] = update[q]
  BY <1>1 DEF StoreInv, TypeOK
<1>3. UpdateOK(p, update[p])'
  BY <1>1, <1>2 DEF UpdateOK, IdleUpdate, StoreInv, TypeOK, TablesTypeOK
<1>4. update'[p].tlocked = {} /\ update'[p].rlocked = {}
  BY <1>2 DEF IdleUpdate
<1> QED BY <1>1, <1>2, <1>3, <1>4, UpdateOnlyInv

(* A statement that has visited everything it has to visit has updated all *)
(* the tickets of the reservations it updated, and no others.              *)
LEMMA FinishedHasAll ==
  ASSUME StoreInv, NEW p \in Updaters, Finished(p)
  PROVE  /\ update[p].done = {t \in Tickets : holder[t] \in update[p].hit}
         /\ update[p].hit \subseteq Reservations
<1>1. update[p] \in UpdateType /\ UpdateOK(p, update[p])
  BY DEF StoreInv, TypeOK
<1>2. \A t \in Tickets : holder[t] \in update[p].hit => t \in update[p].done
  BY <1>1 DEF UpdateOK, Finished
<1>3. update[p].done \subseteq Tickets /\ \A t \in update[p].done : holder[t] \in update[p].hit
  BY <1>1 DEF UpdateOK, UpdateType
<1> QED BY <1>1, <1>2, <1>3 DEF UpdateType

(* A request's statement updates no reservation but the request's. *)
LEMMA OnlyRequested ==
  ASSUME StoreInv, NEW p \in Updaters, Finished(p), update[p].op # "expire", Affected(p)
  PROVE  /\ update[p].rid \in Reservations
         /\ update[p].hit = {update[p].rid}
         /\ update[p].done = Held(update[p].rid)
         /\ Matches(update[p], update[p].rid)
<1>1. UpdateOK(p, update[p])
  BY DEF StoreInv
<1>2. \A r \in update[p].hit : r = update[p].rid /\ Matches(update[p], r)
  BY <1>1 DEF UpdateOK, Matches, OwnRow
<1>3. update[p].hit # {}
  BY FinishedHasAll DEF Affected
<1> QED BY <1>2, <1>3, FinishedHasAll DEF Held

(* The three commits are operations of Bookings. *)
LEMMA CommitPurchasePurchases ==
  ASSUME StoreInv, NEW p \in Updaters, CommitPurchase(p)
  PROVE  update[p].rid \in Reservations /\ Purchase(update[p].rid)
<1>1. /\ update[p].rid \in Reservations
      /\ update[p].done = Held(update[p].rid)
      /\ Matches(update[p], update[p].rid)
  BY OnlyRequested DEF CommitPurchase
<1>2. rstatus[update[p].rid] = "pending"
  BY <1>1 DEF CommitPurchase, Matches, PurchasableAt
<1> QED BY <1>1, <1>2 DEF CommitPurchase, PurchasedStatus, Affected, Purchase

LEMMA CommitCancelCancels ==
  ASSUME StoreInv, NEW p \in Updaters, CommitCancel(p)
  PROVE  update[p].rid \in Reservations /\ Cancel(update[p].rid)
<1>1. /\ update[p].rid \in Reservations
      /\ update[p].done = Held(update[p].rid)
      /\ Matches(update[p], update[p].rid)
  BY OnlyRequested DEF CommitCancel
<1>2. rstatus[update[p].rid] \in {"pending", "confirmed"}
  BY <1>1 DEF CommitCancel, Matches, PurchasableAt
<1>3. Release({update[p].rid})
  BY <1>1 DEF CommitCancel, ReleaseTickets, WithoutReservation, Release, Held
<1> QED BY <1>1, <1>2, <1>3 DEF CommitCancel, Affected, Cancel

LEMMA CommitSweepExpires ==
  ASSUME StoreInv, NEW p \in Updaters, CommitSweep(p)
  PROVE  update[p].hit \in SUBSET Reservations /\ Expire(update[p].hit)
<1>1. /\ update[p].hit \in SUBSET Reservations
      /\ update[p].done = {t \in Tickets : holder[t] \in update[p].hit}
  BY FinishedHasAll DEF CommitSweep
<1>2. \A r \in update[p].hit : LapsedAt(r, update[p].now)
  BY DEF StoreInv, UpdateOK, Matches, Swept, CommitSweep
<1>3. /\ update[p].now \in Nat /\ clock \in Nat /\ update[p].now <= clock
      /\ expiresAt \in [Reservations -> Nat]
  BY DEF StoreInv, TypeOK, TablesTypeOK, UpdateType, UpdateOK
<1>4. \A r \in update[p].hit : LapsedAt(r, clock)
  BY <1>1, <1>2, <1>3 DEF LapsedAt
<1>5. Release(update[p].hit)
  BY <1>1 DEF CommitSweep, ReleaseTickets, WithoutReservation, Release
<1> QED BY <1>1, <1>4, <1>5 DEF CommitSweep, Expire

(* A commit changes the rows its statement updated and no others. *)
LEMMA CommitUpdateInv ==
  ASSUME StoreInv, TypeOK', NEW p \in Updaters,
         CommitPurchase(p) \/ CommitCancel(p) \/ CommitSweep(p)
  PROVE  StoreInv'
<1>1. BookingNext
  BY CommitPurchasePurchases, CommitCancelCancels, CommitSweepExpires DEF BookingNext
<1>2. /\ update[p].done = {t \in Tickets : holder[t] \in update[p].hit}
      /\ update[p].hit \subseteq Reservations
  BY FinishedHasAll DEF CommitPurchase, CommitCancel, CommitSweep
<1>3. /\ holder \in [Tickets -> Reservations \cup {NoReservation}]
      /\ rstatus \in [Reservations -> ReservationStatus]
  BY DEF StoreInv, TypeOK, TablesTypeOK
<1>4. CASE CommitPurchase(p)
  <2>1. update[p].hit = {update[p].rid}
    BY <1>4, OnlyRequested DEF CommitPurchase
  <2>2. ChangesOnly(update[p].done, update[p].hit)
    BY <1>2, <1>3, <1>4, <2>1 DEF ChangesOnly, CommitPurchase, PurchasedStatus
  <2> QED BY <1>1, <1>4, <2>2, UpdateCommitInv DEF CommitPurchase
<1>5. ASSUME ReleaseTickets(p), NEW status \in {"cancelled", "expired"},
             rstatus' = [r \in Reservations |->
                           IF r \in update[p].hit THEN status ELSE rstatus[r]]
      PROVE  StoreInv'
  <2>1. ChangesOnly(update[p].done, update[p].hit)
    BY <1>2, <1>3, <1>5, NullAssumption DEF ChangesOnly, ReleaseTickets, WithoutReservation
  <2> QED BY <1>1, <1>5, <2>1, UpdateCommitInv DEF ReleaseTickets
<1>6. CASE CommitCancel(p)
  <2>1. update[p].hit = {update[p].rid}
    BY <1>6, OnlyRequested DEF CommitCancel
  <2>2. rstatus' = [r \in Reservations |->
                     IF r \in update[p].hit THEN "cancelled" ELSE rstatus[r]]
    BY <1>3, <1>6, <2>1 DEF CommitCancel
  <2> QED BY <1>5, <1>6, <2>2 DEF CommitCancel
<1>7. CASE CommitSweep(p)
  <2>1. rstatus' = [r \in Reservations |->
                     IF r \in update[p].hit THEN "expired" ELSE rstatus[r]]
    BY <1>7 DEF CommitSweep
  <2> QED BY <1>5, <1>7, <2>1 DEF CommitSweep
<1> QED BY <1>4, <1>6, <1>7

LEMMA TickInv == StoreInv /\ TypeOK' /\ Tick => StoreInv'
<1> SUFFICES ASSUME StoreInv, TypeOK', Tick PROVE StoreInv'
  OBVIOUS
<1>1. BookingNext
  BY DEF Tick, ClockTick, BookingNext, tables
<1>2. BookingInv'
  BY <1>1, BookingNextInv DEF StoreInv
<1>3. UNCHANGED <<tables, create, update>> /\ clock' = clock + 1 /\ clock \in Nat
  BY DEF Tick, StoreInv, TypeOK, TablesTypeOK
<1>4. ASSUME NEW p \in Creators PROVE CreateOK(create[p])'
  <2>1. create[p] \in CreateType /\ CreateOK(create[p])
    BY DEF StoreInv, TypeOK
  <2>2. create[p].now <= clock' /\ create[p].expiresAt <= clock' + HoldTime
    BY <1>3, <2>1, TimeAssumption DEF CreateOK, CreateType
  <2> QED BY <1>3, <2>1, <2>2 DEF CreateOK, Bookable, LapsedAt, tables
<1>5. ASSUME NEW p \in Updaters PROVE UpdateOK(p, update[p])'
  <2>1. update[p] \in UpdateType /\ UpdateOK(p, update[p])
    BY DEF StoreInv, TypeOK
  <2>2. update[p].now <= clock'
    BY <1>3, <2>1 DEF UpdateOK, UpdateType
  <2> QED BY <1>3, <2>1, <2>2 DEF UpdateOK, Matches, OwnRow, PurchasableAt, Swept, LapsedAt, tables
<1>6. LocksExclusive'
  BY <1>3 DEF StoreInv, LocksExclusive, TicketLocks
<1> QED BY <1>2, <1>4, <1>5, <1>6 DEF StoreInv

LEMMA NextStoreInv == StoreInv /\ [Next]_vars => StoreInv'
<1> SUFFICES ASSUME StoreInv, [Next]_vars PROVE StoreInv'
  OBVIOUS
<1>1. TypeOK'
  BY NextTypeOK DEF StoreInv
<1>2. ASSUME NEW p \in Creators,
             \/ \E u \in Users, seats \in Requests : AdmitCreate(p, u, seats)
             \/ CreateStep(p)
             \/ AbortCreate(p)
      PROVE  StoreInv'
  BY <1>1, <1>2, AdmitCreateInv, BeginCreateInv, SelectAvailableTicketsInv, LockTicketInv,
     EndCreateInv, CommitCreateInv DEF CreateStep
<1>3. ASSUME NEW p \in Updaters,
             \/ \E u \in Users, r \in Reservations :
                   BeginPurchase(p, u, r) \/ BeginCancel(p, u, r)
             \/ ExpiredReservations(p)
             \/ UpdateStep(p)
             \/ AbortUpdate(p)
      PROVE  StoreInv'
  BY <1>1, <1>3, BeginUpdateInv, ExecuteUpdateInv, ExpiredReservationsInv,
     UpdateReservationInv, UpdateTicketInv, EndUpdateInv, CommitUpdateInv
     DEF UpdateStep, BeginPurchase, BeginCancel
<1>4. CASE Tick
  BY <1>1, <1>4, TickInv
<1>5. CASE UNCHANGED vars
  <2>1. UNCHANGED <<clock, tables, create, update>>
    BY <1>5 DEF vars
  <2>2. BookingInv'
    BY <2>1, BookingNextInv DEF StoreInv, bvars
  <2>3. \A p \in Creators : CreateOK(create[p])'
    BY <2>1 DEF StoreInv, CreateOK, Bookable, LapsedAt, tables
  <2>4. \A p \in Updaters : UpdateOK(p, update[p])'
    BY <2>1 DEF StoreInv, UpdateOK, Matches, OwnRow, PurchasableAt, Swept, LapsedAt, tables
  <2>5. LocksExclusive'
    BY <2>1 DEF StoreInv, LocksExclusive, TicketLocks
  <2> QED BY <1>1, <2>2, <2>3, <2>4, <2>5 DEF StoreInv
<1> QED BY <1>2, <1>3, <1>4, <1>5 DEF Next

(* The inductive invariant holds in every state. *)
THEOREM StoreInvariant == Spec => []StoreInv
  BY InitStoreInv, NextStoreInv, PTL DEF Spec

(* The tables agree with each other, whatever transactions interleave. *)
THEOREM StoreConsistent == Spec => []BookingConsistent
  BY StoreInvariant, PTL DEF StoreInv, BookingInv

(* A hold keeps its tickets until its deadline. *)
THEOREM StoreProtectsHolds == Spec => []HoldProtected
  BY StoreInvariant, PTL DEF StoreInv, BookingInv

(* Two confirmed reservations never share a ticket, and a confirmed one    *)
(* keeps what its purchase answered.                                       *)
THEOREM StoreSellsOnce == Spec => []NoDoubleSale
<1>1. StoreInv => NoDoubleSale
  BY BookingInvSellsOnce DEF StoreInv
<1> QED BY <1>1, StoreInvariant, PTL

-----------------------------------------------------------------------------
(* Counting: the service's loop over the entries of a request *)

(* Induction on the natural numbers, for a set instead of a predicate: the *)
(* least number outside the set would have a predecessor inside.           *)
LEMMA SetInduction ==
  ASSUME NEW S, 0 \in S, \A n \in Nat : n \in S => n + 1 \in S
  PROVE  Nat \subseteq S
<1> SUFFICES ASSUME Nat \ S # {} PROVE FALSE
  OBVIOUS
<1> DEFINE T == Nat \ S
           R == OpToRel(<, Nat)
<1>1. T \subseteq Nat /\ T # {}
  OBVIOUS
<1>2. IsWellFoundedOn(R, Nat)
  BY NatLessThanWellFounded
<1>3. \A x, y \in Nat : <<x, y>> \in R <=> x < y
  BY DEF OpToRel
<1> HIDE DEF T, R
<1>4. PICK x \in T : \A y \in T : ~(<<y, x>> \in R)
  BY <1>1, <1>2, WFMin
<1>5. x \in Nat /\ x # 0
  BY <1>1, <1>4 DEF T
<1>6. x - 1 \in Nat /\ x - 1 < x
  BY <1>5
<1>7. x - 1 \in S
  BY <1>1, <1>3, <1>4, <1>5, <1>6 DEF T
<1>8. x \in S
  BY <1>5, <1>6, <1>7
<1> QED BY <1>4, <1>8 DEF T

(* f is the loop's totals for the first n entries. *)
IsTotal(f, seats, n) ==
  f = [m \in 0 .. n |-> IF m = 0 THEN 0 ELSE f[m - 1] + seats[m].quantity]

LEMMA TotalExists ==
  ASSUME NEW seats
  PROVE  \A n \in Nat : \E f : IsTotal(f, seats, n)
<1> DEFINE S == {n \in Nat : \E f : IsTotal(f, seats, n)}
<1>1. 0 \in S
  <2>1. IsTotal([m \in 0 .. 0 |-> 0], seats, 0)
    BY DEF IsTotal
  <2> QED BY <2>1
<1>2. ASSUME NEW n \in Nat, n \in S PROVE n + 1 \in S
  <2>1. PICK f : IsTotal(f, seats, n)
    BY <1>2
  <2> DEFINE g == [m \in 0 .. (n + 1) |->
                     IF m = n + 1 THEN f[n] + seats[n + 1].quantity ELSE f[m]]
  <2>2. \A m \in 0 .. n : f[m] = IF m = 0 THEN 0 ELSE f[m - 1] + seats[m].quantity
    BY <2>1 DEF IsTotal
  <2>3. ASSUME NEW m \in 0 .. (n + 1)
        PROVE  g[m] = IF m = 0 THEN 0 ELSE g[m - 1] + seats[m].quantity
    <3>1. CASE m = n + 1
      BY <3>1
    <3>2. CASE m # n + 1
      BY <3>2, <2>2
    <3> QED BY <3>1, <3>2
  <2>4. IsTotal(g, seats, n + 1)
    BY <2>3 DEF IsTotal
  <2> QED BY <2>4
<1> HIDE DEF S
<1>3. Nat \subseteq S
  BY <1>1, <1>2, SetInduction
<1> QED BY <1>3 DEF S

(* The recursive definition of TotalSeats defines what it says. *)
LEMMA TotalSeatsValues ==
  ASSUME NEW seats, Len(seats) \in Nat
  PROVE  /\ TotalSeats(seats)[0] = 0
         /\ \A n \in 1 .. Len(seats) :
              TotalSeats(seats)[n] = TotalSeats(seats)[n - 1] + seats[n].quantity
<1> DEFINE f == TotalSeats(seats)
<1>1. \E g : IsTotal(g, seats, Len(seats))
  BY TotalExists
<1>2. IsTotal(CHOOSE g : IsTotal(g, seats, Len(seats)), seats, Len(seats))
  BY <1>1
<1>3. f = CHOOSE g : IsTotal(g, seats, Len(seats))
  BY DEF TotalSeats, IsTotal
<1> HIDE DEF f
<1>4. f = [m \in 0 .. Len(seats) |-> IF m = 0 THEN 0 ELSE f[m - 1] + seats[m].quantity]
  BY <1>2, <1>3 DEF IsTotal
<1>5. f[0] = 0 /\ \A n \in 1 .. Len(seats) : f[n] = f[n - 1] + seats[n].quantity
  BY <1>4
<1> QED BY <1>5 DEF f

(* An int that has not overflowed is the number itself. *)
LEMMA AsIntSmall ==
  ASSUME NEW n \in 0 .. IntMax
  PROVE  AsInt(n) = n
<1> DEFINE M == 2 * (IntMax + 1)
           a == n + IntMax + 1
<1>1. a \in 0 .. (M - 1) /\ M \in Nat \ {0}
  BY LimitAssumption
<1>2. \A x, m : m \in Nat \ {0} /\ x \in 0 .. (m - 1) => x % m = x
  OBVIOUS
<1> HIDE DEF M, a
<1>3. a % M = a
  BY <1>1, <1>2
<1>4. IntMax \in Nat
  BY LimitAssumption
<1> QED BY <1>3, <1>4 DEF AsInt, M, a

(* The types of a request's entries. *)
LEMMA RequestEntries ==
  ASSUME NEW seats \in Requests
  PROVE  /\ Len(seats) \in Nat
         /\ DOMAIN seats = 1 .. Len(seats)
         /\ \A i \in 1 .. Len(seats) : seats[i].quantity \in Int
<1> DEFINE E == [grade : {Grade[t] : t \in Tickets}, quantity : (-(IntMax + 1)) .. IntMax]
<1>1. seats \in Seq(E)
  BY RequestAssumption
<1>2. \A e \in E : e.quantity \in Int
  BY LimitAssumption
<1> HIDE DEF E
<1>3. \A i \in 1 .. Len(seats) : seats[i] \in E
  BY <1>1
<1> QED BY <1>1, <1>2, <1>3

-----------------------------------------------------------------------------
(* A grant matches its request and the limit *)

LEMMA OneTimesMore ==
  ASSUME NEW a \in Nat, NEW b \in Nat, a > 0
  PROVE  (a - 1) * b + b = a * b /\ (a - 1) * b \in Nat /\ a * b \in Nat
<1>1. PICK z \in Nat : a = z + 1
  BY a - 1 \in Nat
<1>2. z * b \in Nat /\ (z + 1) * b = z * b + b
  OBVIOUS
<1>3. a - 1 = z
  BY <1>1
<1> QED BY <1>1, <1>2, <1>3

(* What a call has chosen when its current SELECT has been served. *)
LEMMA ChosenCount ==
  ASSUME NEW c \in CreateType, GrantOK(c), c.pc = "open", c.next > 0,
         Cardinality(c.got) = Limit(c)
  PROVE  /\ TotalSeats(c.seats)[c.next]
              \in Cardinality(c.picked \cup c.got) .. (c.next * Cardinality(Tickets))
         /\ NamesGradesOnce(c.seats)
              => Cardinality(c.picked \cup c.got) = TotalSeats(c.seats)[c.next]
<1> DEFINE asked == TotalSeats(c.seats)[c.next - 1]
           quantity == c.seats[c.next].quantity
           N == Cardinality(Tickets)
           before == (c.next - 1) * N
           after == c.next * N
<1>1. /\ c.seats \in Requests /\ c.next \in 1 .. Len(c.seats) /\ Len(c.seats) \in Nat
      /\ DOMAIN c.seats = 1 .. Len(c.seats)
      /\ quantity \in Int
  BY RequestEntries DEF GrantOK, CreateType
<1>2. /\ IsFiniteSet(c.picked) /\ Cardinality(c.picked) \in Nat
      /\ IsFiniteSet(c.got) /\ Cardinality(c.got) \in Nat /\ Cardinality(c.got) <= N
      /\ N \in Nat
  BY BodyAssumption, FS_Subset, FS_CardinalityType DEF CreateType
<1>3. /\ asked \in Cardinality(c.picked) .. before
      /\ NamesGradesOnce(c.seats) => Cardinality(c.picked) = asked
  BY DEF GrantOK
<1>4. Cardinality(c.got) = quantity
  BY DEF Limit
<1>5. TotalSeats(c.seats)[c.next] = asked + quantity
  BY <1>1, TotalSeatsValues
<1>6. Cardinality(c.picked \cup c.got)
        = Cardinality(c.picked) + Cardinality(c.got) - Cardinality(c.picked \cap c.got)
  BY <1>2, FS_Union
<1>7. Cardinality(c.picked \cap c.got) \in Nat
  BY <1>2, FS_Intersection, FS_CardinalityType
<1>8. before + N = after /\ before \in Nat /\ after \in Nat
  <2>1. c.next \in Nat /\ N \in Nat
    BY <1>1, <1>2
  <2> HIDE DEF N
  <2> QED BY <2>1, OneTimesMore
<1>9. ASSUME NamesGradesOnce(c.seats)
      PROVE  Cardinality(c.picked \cap c.got) = 0
  <2>1. ASSUME NEW t \in c.picked, t \in c.got
        PROVE  FALSE
    <3>1. Grade[t] = c.seats[c.next].grade
      BY <1>1, <2>1 DEF GrantOK
    <3>2. PICK i \in 1 .. (c.next - 1) : Grade[t] = c.seats[i].grade
      BY DEF GrantOK
    <3>3. i \in 1 .. Len(c.seats) /\ i # c.next
      BY <1>1, <3>2
    <3> QED BY <1>1, <1>9, <3>1, <3>2, <3>3 DEF NamesGradesOnce
  <2>2. c.picked \cap c.got = {}
    BY <2>1
  <2> QED BY <2>2, FS_EmptySet
<1> HIDE DEF asked, quantity, N, before, after
<1>10. TotalSeats(c.seats)[c.next] \in Cardinality(c.picked \cup c.got) .. after
  BY <1>1, <1>2, <1>3, <1>4, <1>5, <1>6, <1>7, <1>8
<1>11. NamesGradesOnce(c.seats)
         => Cardinality(c.picked \cup c.got) = TotalSeats(c.seats)[c.next]
  BY <1>1, <1>2, <1>3, <1>4, <1>5, <1>6, <1>9
<1> QED BY <1>10, <1>11 DEF after, N

(* A step that grants nothing and changes at most call p. *)
LEMMA GrantStep ==
  ASSUME GrantInv, TypeOK', NEW p \in Creators, granted' = granted,
         \A q \in Creators \ {p} : create'[q] = create[q],
         GrantOK(create'[p])
  PROVE  GrantInv'
<1>1. \A q \in Creators : GrantOK(create'[q])
  BY DEF GrantInv
<1>2. GrantWithinLimit'
  BY DEF GrantInv, GrantWithinLimit
<1> QED BY <1>1, <1>2 DEF GrantInv

LEMMA IdleGrantOK == GrantOK(IdleCreate)
<1>1. Len(IdleCreate.seats) = 0
  BY DEF IdleCreate
<1> QED BY <1>1 DEF IdleCreate, GrantOK

LEMMA InitGrantInv == Init => GrantInv
<1> SUFFICES ASSUME Init PROVE GrantInv
  OBVIOUS
<1>1. \A p \in Creators : GrantOK(create[p])
  BY IdleGrantOK DEF Init
<1>2. \A r \in Reservations : Cardinality(granted[r]) = 0
  BY FS_EmptySet DEF Init, TablesInit
<1>3. GrantWithinLimit
  BY <1>2, LimitAssumption DEF GrantWithinLimit
<1> QED BY <1>1, <1>3, InitTypeOK DEF GrantInv

LEMMA AdmitCreateGrant ==
  ASSUME GrantInv, TypeOK', NEW p \in Creators, NEW u \in Users, NEW seats \in Requests,
         AdmitCreate(p, u, seats)
  PROVE  GrantInv'
<1>1. create'[p] = [IdleCreate EXCEPT !.pc = "admitted", !.user = u, !.seats = seats,
                                      !.expiresAt = clock + HoldTime]
  BY DEF GrantInv, TypeOK, AdmitCreate
<1>2. /\ create'[p].pc = "admitted" /\ create'[p].seats = seats /\ create'[p].next = 0
      /\ create'[p].scan = {} /\ create'[p].got = {} /\ create'[p].picked = {}
  BY <1>1 DEF IdleCreate
<1>3. Admissible(seats) /\ Len(seats) \in Nat
  BY RequestEntries DEF AdmitCreate
<1>4. GrantOK(create'[p])
  BY <1>2, <1>3 DEF GrantOK
<1>5. \A q \in Creators \ {p} : create'[q] = create[q]
  BY DEF AdmitCreate, GrantInv, TypeOK
<1> QED BY <1>4, <1>5, GrantStep DEF AdmitCreate, tables

LEMMA BeginCreateGrant ==
  ASSUME GrantInv, TypeOK', NEW p \in Creators, BeginCreate(p)
  PROVE  GrantInv'
<1>1. /\ create[p] \in CreateType /\ GrantOK(create[p]) /\ create[p].pc = "admitted"
      /\ create'[p] = [create[p] EXCEPT !.pc = "open", !.now = clock]
  BY DEF GrantInv, TypeOK, BeginCreate
<1>2. /\ create'[p].pc = "open" /\ create'[p].seats = create[p].seats
      /\ create'[p].next = create[p].next /\ create'[p].scan = create[p].scan
      /\ create'[p].got = create[p].got /\ create'[p].picked = create[p].picked
  BY <1>1 DEF CreateType
<1>3. GrantOK(create'[p])
  BY <1>1, <1>2 DEF GrantOK, Limit
<1>4. \A q \in Creators \ {p} : create'[q] = create[q]
  BY DEF BeginCreate, GrantInv, TypeOK
<1> QED BY <1>3, <1>4, GrantStep DEF BeginCreate, tables

(* The next SELECT adds the entry that was served to what is asked for.    *)
LEMMA SelectAvailableTicketsGrant ==
  ASSUME GrantInv, TypeOK', NEW p \in Creators, SelectAvailableTickets(p)
  PROVE  GrantInv'
<1> DEFINE c == create[p]
           d == create'[p]
           N == Cardinality(Tickets)
<1>1. /\ c \in CreateType /\ GrantOK(c) /\ c.pc = "open" /\ c.next < Len(c.seats)
      /\ Cardinality(c.got) = Limit(c) /\ c.next \in Nat
  BY DEF GrantInv, TypeOK, SelectAvailableTickets, Served, CreateType
<1>2. /\ d.pc = "open" /\ d.seats = c.seats /\ d.next = c.next + 1
      /\ \A t \in d.scan : Grade[t] = c.seats[c.next + 1].grade
      /\ d.got = {} /\ d.picked = c.picked \cup c.got
  BY <1>1 DEF GrantInv, TypeOK, SelectAvailableTickets, CreateType, Chosen
<1>3. /\ c.seats \in Requests /\ Admissible(c.seats) /\ Len(c.seats) \in Nat
      /\ DOMAIN c.seats = 1 .. Len(c.seats)
      /\ c.seats[c.next + 1].quantity \in Int
      /\ N \in Nat
  BY <1>1, RequestEntries, BodyAssumption, FS_CardinalityType DEF GrantOK
<1>4. Cardinality(d.got) = 0 /\ Limit(d) > 0
  BY <1>1, <1>2, <1>3, FS_EmptySet DEF Limit, Admissible
<1>5. /\ TotalSeats(c.seats)[c.next] \in Cardinality(d.picked) .. (c.next * N)
      /\ NamesGradesOnce(c.seats) => Cardinality(d.picked) = TotalSeats(c.seats)[c.next]
  <2>1. CASE c.next > 0
    BY <1>1, <1>2, <2>1, ChosenCount
  <2>2. CASE c.next = 0
    <3>1. d.picked = {} /\ Cardinality(d.picked) = 0
      BY <1>1, <1>2, <2>2, FS_EmptySet DEF GrantOK
    <3>2. TotalSeats(c.seats)[0] = 0
      BY <1>3, TotalSeatsValues
    <3>3. 0 * N = 0
      BY <1>3
    <3> QED BY <2>2, <3>1, <3>2, <3>3
  <2> QED BY <1>1, <2>1, <2>2
<1>6. \A t \in d.picked : \E i \in 1 .. c.next : Grade[t] = c.seats[i].grade
  <2>1. ASSUME NEW t \in c.picked PROVE \E i \in 1 .. c.next : Grade[t] = c.seats[i].grade
    BY <1>1 DEF GrantOK
  <2>2. ASSUME NEW t \in c.got PROVE \E i \in 1 .. c.next : Grade[t] = c.seats[i].grade
    <3>1. c.next > 0
      BY <1>1 DEF GrantOK
    <3>2. Grade[t] = c.seats[c.next].grade
      BY <1>1, <3>1 DEF GrantOK
    <3> QED BY <1>1, <3>1, <3>2
  <2> QED BY <1>2, <2>1, <2>2
<1>7. \A q \in Creators \ {p} : create'[q] = create[q]
  BY DEF SelectAvailableTickets, GrantInv, TypeOK
<1>8. UNCHANGED granted
  BY DEF SelectAvailableTickets, tables
<1> HIDE DEF c, d, N
<1>9. GrantOK(d)
  <2>1. d.next - 1 = c.next /\ d.next # 0 /\ d.next <= Len(d.seats)
    BY <1>1, <1>2, <1>3
  <2>2. TotalSeats(d.seats)[d.next - 1]
          \in Cardinality(d.picked) .. ((d.next - 1) * Cardinality(Tickets))
    BY <1>2, <1>5, <2>1 DEF N
  <2>3. NamesGradesOnce(d.seats) => Cardinality(d.picked) = TotalSeats(d.seats)[d.next - 1]
    BY <1>2, <1>5, <2>1
  <2>4. Cardinality(d.got) <= Limit(d)
    <3>1. Limit(d) \in Int
      BY <1>1, <1>2, <1>3, <2>1 DEF Limit
    <3> QED BY <1>4, <3>1
  <2>5. \A t \in d.picked : \E i \in 1 .. (d.next - 1) : Grade[t] = d.seats[i].grade
    BY <1>2, <1>6, <2>1
  <2>6. \A t \in d.scan \cup d.got : Grade[t] = d.seats[d.next].grade
    BY <1>2
  <2> QED BY <1>2, <1>3, <2>1, <2>2, <2>3, <2>4, <2>5, <2>6 DEF GrantOK
<1> QED BY <1>7, <1>8, <1>9, GrantStep DEF d

(* The scan returns one more row of the entry's grade, and only while it   *)
(* has returned fewer than the entry asks for.                             *)
LEMMA LockTicketGrant ==
  ASSUME GrantInv, TypeOK', NEW p \in Creators, NEW t \in Tickets, LockTicket(p, t)
  PROVE  GrantInv'
<1> DEFINE c == create[p]
           d == create'[p]
<1>1. /\ c \in CreateType /\ GrantOK(c) /\ c.pc = "open" /\ t \in c.scan
      /\ Cardinality(c.got) # Limit(c)
  BY DEF GrantInv, TypeOK, LockTicket, Served
<1>2. /\ d.pc = c.pc /\ d.seats = c.seats /\ d.next = c.next
      /\ d.scan \subseteq c.scan
      /\ d.got = c.got \cup {s \in {t} : Bookable(s, c.lapsed)}
      /\ d.picked = c.picked
  BY DEF GrantInv, TypeOK, LockTicket, CreateType
<1>3. c.next > 0
  <2>1. SUFFICES ASSUME c.next = 0 PROVE FALSE
    BY <1>1 DEF CreateType
  <2>2. Cardinality(c.got) = 0 /\ Limit(c) = 0
    BY <1>1, <2>1, FS_EmptySet DEF GrantOK, Limit
  <2> QED BY <1>1, <2>2
<1>4. /\ IsFiniteSet(c.got) /\ Cardinality(c.got) \in Nat
      /\ Cardinality(c.got) <= Limit(c) /\ Limit(c) \in Int
  <2>1. IsFiniteSet(c.got) /\ Cardinality(c.got) \in Nat
    BY <1>1, BodyAssumption, FS_Subset, FS_CardinalityType DEF CreateType
  <2>2. c.next \in 1 .. Len(c.seats) /\ c.seats \in Requests
    BY <1>1, <1>3 DEF GrantOK, CreateType
  <2>3. Limit(c) \in Int
    BY <1>3, <2>2, RequestEntries DEF Limit
  <2> QED BY <1>1, <1>3, <2>1, <2>3 DEF GrantOK
<1>5. d.got = c.got \/ d.got = c.got \cup {t}
  BY <1>2
<1>6. Cardinality(d.got) <= Limit(d)
  <2>1. Cardinality(d.got) \in {Cardinality(c.got), Cardinality(c.got) + 1}
    BY <1>4, <1>5, FS_AddElement
  <2>2. Limit(d) = Limit(c)
    BY <1>2 DEF Limit
  <2> QED BY <1>1, <1>4, <2>1, <2>2
<1>7. \A q \in Creators \ {p} : create'[q] = create[q]
  BY DEF LockTicket, GrantInv, TypeOK
<1>8. UNCHANGED granted
  BY DEF LockTicket, tables
<1> HIDE DEF c, d
<1>9. GrantOK(d)
  BY <1>1, <1>2, <1>3, <1>5, <1>6 DEF GrantOK
<1> QED BY <1>7, <1>8, <1>9, GrantStep DEF d

(* A request whose entries have all been served asks for no more than      *)
(* MaxSeats: its total has not overflowed, for no entry asked for more     *)
(* tickets than there are.                                                 *)
LEMMA ServedWithinLimit ==
  ASSUME GrantInv, NEW p \in Creators, AllServed(p)
  PROVE  /\ Cardinality(Chosen(p)) <= MaxSeats
         /\ NamesGradesOnce(create[p].seats)
              => Cardinality(Chosen(p)) = Total(create[p].seats)
<1> DEFINE c == create[p]
           N == Cardinality(Tickets)
<1>1. /\ c \in CreateType /\ GrantOK(c) /\ c.pc = "open" /\ c.next = Len(c.seats)
      /\ Cardinality(c.got) = Limit(c) /\ c.next \in Nat
      /\ Chosen(p) = c.picked \cup c.got
  BY DEF GrantInv, TypeOK, AllServed, Served, CreateType, Chosen
<1>2. c.seats \in Requests /\ Admissible(c.seats) /\ Len(c.seats) \in Nat
  BY <1>1, RequestEntries DEF GrantOK
<1>3. IsFiniteSet(Chosen(p)) /\ Cardinality(Chosen(p)) \in Nat /\ N \in Nat
  <2>1. Chosen(p) \in SUBSET Tickets
    BY <1>1 DEF CreateType
  <2> QED BY <2>1, BodyAssumption, FS_Subset, FS_CardinalityType
<1>4. CASE c.next = 0
  <2>1. Cardinality(Chosen(p)) = 0
    BY <1>1, <1>4, FS_EmptySet DEF GrantOK
  <2>2. Total(c.seats) = 0
    BY <1>1, <1>2, <1>4, TotalSeatsValues DEF Total
  <2> QED BY <2>1, <2>2, LimitAssumption
<1>5. CASE c.next > 0
  <2> DEFINE total == TotalSeats(c.seats)[c.next]
             most == c.next * N
  <2>1. total \in Cardinality(Chosen(p)) .. most
    BY <1>1, <1>5, ChosenCount
  <2>2. NamesGradesOnce(c.seats) => Cardinality(Chosen(p)) = total
    BY <1>1, <1>5, ChosenCount
  <2>3. most <= IntMax /\ IntMax \in Nat /\ MaxSeats \in Nat
    BY <1>1, <1>2, BodyAssumption, LimitAssumption
  <2>4. most \in Nat
    BY <1>1, <1>3, <1>5, OneTimesMore
  <2>5. Total(c.seats) = total
    BY <1>1 DEF Total
  <2>6. AsInt(Total(c.seats)) <= MaxSeats
    BY <1>2 DEF Admissible
  <2> HIDE DEF total, most
  <2>7. total \in 0 .. IntMax
    BY <1>3, <2>1, <2>3, <2>4
  <2>8. AsInt(total) = total
    BY <2>7, AsIntSmall
  <2> QED BY <1>3, <2>1, <2>2, <2>3, <2>5, <2>6, <2>7, <2>8
<1> QED BY <1>1, <1>4, <1>5

LEMMA CommitCreateGrant ==
  ASSUME GrantInv, TypeOK', NEW p \in Creators, NEW r \in Reservations, CommitCreate(p, r)
  PROVE  GrantInv'
<1>1. Cardinality(Chosen(p)) <= MaxSeats
  BY ServedWithinLimit DEF CommitCreate
<1>2. GrantWithinLimit'
  BY <1>1 DEF CommitCreate, GrantInv, GrantWithinLimit, TypeOK, TablesTypeOK
<1>3. \A q \in Creators : GrantOK(create'[q])
  BY IdleGrantOK DEF CommitCreate, GrantInv, TypeOK
<1> QED BY <1>2, <1>3 DEF GrantInv

LEMMA EndCreateGrant ==
  ASSUME GrantInv, TypeOK', NEW p \in Creators, GiveUpCreate(p) \/ AbortCreate(p)
  PROVE  GrantInv'
<1>1. create' = [create EXCEPT ![p] = IdleCreate] /\ UNCHANGED granted
  BY DEF GiveUpCreate, AbortCreate, tables
<1>2. create'[p] = IdleCreate /\ \A q \in Creators \ {p} : create'[q] = create[q]
  BY <1>1 DEF GrantInv, TypeOK
<1> QED BY <1>1, <1>2, IdleGrantOK, GrantStep

LEMMA NextGrantInv == GrantInv /\ [Next]_vars => GrantInv'
<1> SUFFICES ASSUME GrantInv, [Next]_vars PROVE GrantInv'
  OBVIOUS
<1>1. TypeOK'
  BY NextTypeOK DEF GrantInv
<1>2. ASSUME NEW p \in Creators,
             \/ \E u \in Users, seats \in Requests : AdmitCreate(p, u, seats)
             \/ CreateStep(p)
             \/ AbortCreate(p)
      PROVE  GrantInv'
  BY <1>1, <1>2, AdmitCreateGrant, BeginCreateGrant, SelectAvailableTicketsGrant,
     LockTicketGrant, EndCreateGrant, CommitCreateGrant DEF CreateStep
<1>3. ASSUME UNCHANGED <<create, granted>>
      PROVE  GrantInv'
  BY <1>1, <1>3 DEF GrantInv, GrantWithinLimit
<1>4. ASSUME NEW p \in Updaters,
             \/ \E u \in Users, r \in Reservations :
                   BeginPurchase(p, u, r) \/ BeginCancel(p, u, r)
             \/ ExpiredReservations(p)
             \/ UpdateStep(p)
             \/ AbortUpdate(p)
      PROVE  UNCHANGED <<create, granted>>
  BY <1>4 DEF UpdateStep, BeginPurchase, BeginCancel, BeginUpdate, ExpiredReservations,
     ExecuteUpdate, UpdateReservation, UpdateTicket, GiveUpUpdate, CommitPurchase,
     CommitCancel, CommitSweep, ReleaseTickets, AbortUpdate, tables
<1>5. CASE Tick \/ UNCHANGED vars
  BY <1>3, <1>5 DEF Tick, vars, tables
<1> QED BY <1>2, <1>3, <1>4, <1>5 DEF Next

(* The counts of every call, at every statement. *)
THEOREM StoreGrantInvariant == Spec => []GrantInv
  BY InitGrantInv, NextGrantInv, PTL DEF Spec

(* A request that names no grade twice gets exactly the tickets it asks    *)
(* for, whatever the transactions it waited for have done to the rows.     *)
THEOREM StoreGrantsMatch == Spec => []GrantMatchesRequest
<1>1. GrantInv => GrantMatchesRequest
  BY ServedWithinLimit DEF GrantMatchesRequest
<1> QED BY <1>1, StoreGrantInvariant, PTL

(* No grant exceeds the limit, although a total may overflow: a request    *)
(* whose total does is never served.                                       *)
THEOREM StoreGrantsWithinLimit == Spec => []GrantWithinLimit
  BY StoreGrantInvariant, PTL DEF GrantInv

-----------------------------------------------------------------------------
(* Refinement *)

(* Every step is an operation of Bookings or leaves its variables alone. *)
LEMMA StepKeepsPromise == StoreInv /\ [Next]_vars => [BookingNext]_bvars
<1> SUFFICES ASSUME StoreInv, [Next]_vars PROVE [BookingNext]_bvars
  OBVIOUS
<1>1. ASSUME NEW p \in Creators, NEW r \in Reservations, CommitCreate(p, r)
      PROVE  BookingNext
  BY <1>1, CommitCreateReserves DEF BookingNext
<1>2. ASSUME NEW p \in Updaters, CommitPurchase(p) \/ CommitCancel(p) \/ CommitSweep(p)
      PROVE  BookingNext
  BY <1>2, CommitPurchasePurchases, CommitCancelCancels, CommitSweepExpires DEF BookingNext
<1>3. CASE Tick
  BY <1>3 DEF Tick, ClockTick, BookingNext, tables
<1>4. ASSUME NEW p \in Creators,
             \/ \E u \in Users, seats \in Requests : AdmitCreate(p, u, seats)
             \/ CreateStep(p)
             \/ AbortCreate(p)
      PROVE  [BookingNext]_bvars
  BY <1>1, <1>4 DEF CreateStep, AdmitCreate, BeginCreate, SelectAvailableTickets, LockTicket,
     GiveUpCreate, AbortCreate, bvars
<1>5. ASSUME NEW p \in Updaters,
             \/ \E u \in Users, r \in Reservations :
                   BeginPurchase(p, u, r) \/ BeginCancel(p, u, r)
             \/ ExpiredReservations(p)
             \/ UpdateStep(p)
             \/ AbortUpdate(p)
      PROVE  [BookingNext]_bvars
  BY <1>2, <1>5 DEF UpdateStep, BeginPurchase, BeginCancel, BeginUpdate, ExpiredReservations,
     ExecuteUpdate, UpdateReservation, UpdateTicket, GiveUpUpdate, AbortUpdate, bvars
<1>6. CASE UNCHANGED vars
  BY <1>6 DEF vars, bvars
<1> QED BY <1>3, <1>4, <1>5, <1>6 DEF Next

(* The operations of the instance Promise are those of Bookings. *)
LEMMA PromiseIsBookings == [BookingNext]_bvars => [Promise!BookingNext]_<<clock, tables>>
  BY DEF bvars, tables, BookingNext, Reserve, Purchase, Release, Cancel, Expire, ClockTick,
     LapsedAt, Held, Bookable, Promise!BookingNext, Promise!Reserve, Promise!Purchase,
     Promise!Release, Promise!Cancel, Promise!Expire, Promise!ClockTick, Promise!LapsedAt,
     Promise!Held, Promise!Bookable, Promise!tables

(* The transactions implement the atomic operations. *)
THEOREM StoreKeepsPromise == Spec => KeepsPromise
<1>1. Init => Promise!TablesInit
  BY DEF Init, TablesInit, Promise!TablesInit
<1>2. StoreInv /\ [Next]_vars => [Promise!BookingNext]_<<clock, tables>>
  BY StepKeepsPromise, PromiseIsBookings
<1> QED BY <1>1, <1>2, StoreInvariant, PTL DEF Spec, KeepsPromise, Promise!BookingSpec,
           tables, Promise!tables

(* The transactions implement the market: with all their statements and    *)
(* locks, a buyer sees seats taken, bought and freed in whole steps only.  *)
THEOREM StoreSellsSeats == Spec => SellsSeats
<1>1. Init => Market!Init
  BY InitMarket DEF Init
<1>2. StoreInv /\ [Next]_vars => [Market!Next]_SeatNow
  BY StepKeepsPromise, NextMarket DEF StoreInv
<1> QED BY <1>1, <1>2, StoreInvariant, PTL DEF Spec, SellsSeats, Market!Spec, SeatNow

(* An operation of Bookings moves a reservation as MayBecome says. *)
LEMMA BookingSettlesOnce ==
  BookingInv /\ [BookingNext]_bvars =>
    \A r \in Reservations :
      rstatus'[r] # rstatus[r] => <<rstatus[r], rstatus'[r]>> \in MayBecome
<1> SUFFICES ASSUME BookingInv, [BookingNext]_bvars, NEW r \in Reservations,
                    rstatus'[r] # rstatus[r]
             PROVE  <<rstatus[r], rstatus'[r]>> \in MayBecome
  OBVIOUS
<1>1. rstatus \in [Reservations -> ReservationStatus]
  BY DEF BookingInv, TablesTypeOK
<1> QED BY <1>1 DEF BookingNext, bvars, tables, Reserve, Purchase, Cancel, Expire, LapsedAt,
           ClockTick, MayBecome

(* A reservation is settled once, whatever transactions race for it. *)
THEOREM StoreSettlesOnce == Spec => SettledOnce
<1>1. StoreInv /\ [Next]_vars =>
        [\A r \in Reservations :
           rstatus'[r] # rstatus[r] => <<rstatus[r], rstatus'[r]>> \in MayBecome]_tables
  BY StepKeepsPromise, BookingSettlesOnce DEF StoreInv
<1> QED BY <1>1, StoreInvariant, PTL DEF Spec, SettledOnce

(* No operation of Bookings but Cancel touches a sold ticket. *)
LEMMA BookingKeepsSold ==
  BookingInv /\ [BookingNext]_bvars =>
    \A t \in Tickets :
      tstatus[t] = "sold" /\ (tstatus'[t] # "sold" \/ holder'[t] # holder[t])
      => tstatus'[t] = "available" /\ rstatus'[holder[t]] = "cancelled"
<1> SUFFICES ASSUME BookingInv, [BookingNext]_bvars, NEW t \in Tickets, tstatus[t] = "sold",
                    (tstatus'[t] # "sold" \/ holder'[t] # holder[t])
             PROVE  tstatus'[t] = "available" /\ rstatus'[holder[t]] = "cancelled"
  OBVIOUS
<1>1. /\ rstatus \in [Reservations -> ReservationStatus]
      /\ holder[t] \in Reservations /\ rstatus[holder[t]] = "confirmed"
  BY DEF BookingInv, TablesTypeOK, BookingConsistent
<1>2. ASSUME NEW r \in Reservations, NEW u, NEW T \in SUBSET Tickets, NEW deadline,
             Reserve(r, u, T, deadline)
      PROVE  FALSE
  BY <1>1, <1>2 DEF Reserve, Bookable
<1>3. ASSUME NEW r \in Reservations, Purchase(r) PROVE FALSE
  BY <1>1, <1>3 DEF Purchase, Held
<1>4. ASSUME NEW R \in SUBSET Reservations, Expire(R) PROVE FALSE
  BY <1>1, <1>4 DEF Expire, Release, LapsedAt
<1>5. ASSUME NEW r \in Reservations, Cancel(r)
      PROVE  tstatus'[t] = "available" /\ rstatus'[holder[t]] = "cancelled"
  BY <1>1, <1>5 DEF Cancel, Release
<1>6. ~ClockTick /\ ~UNCHANGED bvars
  BY DEF ClockTick, bvars, tables
<1> QED BY <1>2, <1>3, <1>4, <1>5, <1>6 DEF BookingNext

(* A sold ticket is released only by the cancellation of its reservation. *)
THEOREM StoreKeepsSold == Spec => SoldStaysSold
<1>1. StoreInv /\ [Next]_vars =>
        [\A t \in Tickets :
           tstatus[t] = "sold" /\ (tstatus'[t] # "sold" \/ holder'[t] # holder[t])
           => /\ tstatus'[t] = "available"
              /\ rstatus'[holder[t]] = "cancelled"]_tables
  BY StepKeepsPromise, BookingKeepsSold DEF StoreInv
<1> QED BY <1>1, StoreInvariant, PTL DEF Spec, SoldStaysSold

(* No operation of Bookings but Cancel takes tickets from a hold that has  *)
(* not run out.                                                            *)
LEMMA BookingKeepsHold ==
  ASSUME BookingInv, [BookingNext]_bvars, NEW r \in Reservations,
         rstatus[r] = "pending", clock <= expiresAt[r]
  PROVE  \/ rstatus'[r] = "pending" /\ Held(r)' = Held(r)
         \/ rstatus'[r] = "confirmed" /\ Held(r)' = Held(r) /\ bought'[r] = Held(r)
         \/ rstatus'[r] = "cancelled" /\ Held(r)' = {}
<1>1. /\ rstatus \in [Reservations -> ReservationStatus]
      /\ bought \in [Reservations -> SUBSET Tickets]
      /\ expiresAt[r] \in Nat /\ clock \in Nat
      /\ holder \in [Tickets -> Reservations \cup {NoReservation}]
      /\ r # NoReservation
  BY NullAssumption DEF BookingInv, TablesTypeOK
<1>2. ~LapsedAt(r, clock)
  BY <1>1 DEF LapsedAt
<1>3. \A t \in Held(r) : tstatus[t] = "reserved" /\ holder[t] = r
  BY <1>1 DEF Held, BookingInv, BookingConsistent, TablesTypeOK, TicketStatus
<1>4. ASSUME NEW s \in Reservations, NEW u, NEW T \in SUBSET Tickets, NEW deadline,
             Reserve(s, u, T, deadline)
      PROVE  rstatus'[r] = "pending" /\ Held(r)' = Held(r)
  <2>1. s # r /\ rstatus'[r] = "pending"
    BY <1>1, <1>4 DEF Reserve
  <2>2. \A t \in T : t \notin Held(r)
    BY <1>2, <1>3, <1>4 DEF Reserve, Bookable
  <2>3. \A t \in Tickets : holder'[t] = r <=> holder[t] = r
    BY <1>4, <2>1, <2>2 DEF Reserve, Held
  <2> QED BY <2>1, <2>3 DEF Held
<1>5. ASSUME NEW s \in Reservations, Purchase(s)
      PROVE  /\ Held(r)' = Held(r)
             /\ \/ rstatus'[r] = "pending"
                \/ rstatus'[r] = "confirmed" /\ bought'[r] = Held(r)
  BY <1>1, <1>5 DEF Purchase, Held
<1>6. ASSUME NEW s \in Reservations, Cancel(s)
      PROVE  \/ rstatus'[r] = "pending" /\ Held(r)' = Held(r)
             \/ rstatus'[r] = "cancelled" /\ Held(r)' = {}
  <2>1. CASE s = r
    BY <1>1, <1>6, <2>1 DEF Cancel, Release, Held
  <2>2. CASE s # r
    BY <1>1, <1>6, <2>2 DEF Cancel, Release, Held
  <2> QED BY <2>1, <2>2
<1>7. ASSUME NEW R \in SUBSET Reservations, Expire(R)
      PROVE  rstatus'[r] = "pending" /\ Held(r)' = Held(r)
  <2>1. r \notin R
    BY <1>2, <1>7 DEF Expire
  <2> QED BY <1>1, <1>7, <2>1 DEF Expire, Release, Held
<1>8. CASE ClockTick \/ UNCHANGED bvars
  BY <1>8 DEF ClockTick, bvars, tables, Held
<1> QED BY <1>4, <1>5, <1>6, <1>7, <1>8 DEF BookingNext

(* A hold keeps its tickets up to its deadline, unless it is cancelled. *)
THEOREM StoreNeverExpiresEarly == Spec => NoEarlyExpiry
<1>1. StoreInv /\ [Next]_vars =>
        [\A r \in Reservations :
           rstatus[r] = "pending" /\ clock <= expiresAt[r] =>
             \/ rstatus'[r] = "pending" /\ Held(r)' = Held(r)
             \/ rstatus'[r] = "confirmed" /\ Held(r)' = Held(r) /\ bought'[r] = Held(r)
             \/ rstatus'[r] = "cancelled" /\ Held(r)' = {}]_tables
  BY StepKeepsPromise, BookingKeepsHold DEF StoreInv
<1> QED BY <1>1, StoreInvariant, PTL DEF Spec, NoEarlyExpiry

(* Only a request of its own user confirms or cancels a reservation. *)
THEOREM StoreOwnerSettles == Spec => OwnerSettles
<1>1. ASSUME StoreInv, [Next]_vars, NEW r \in Reservations,
             rstatus'[r] # rstatus[r], rstatus'[r] \in {"confirmed", "cancelled"}
      PROVE  \E p \in Callers : /\ update[p].pc = "running" /\ update'[p].pc = "idle"
                                /\ update[p].rid = r
                                /\ update[p].user = owner[r]
  <2>1. rstatus \in [Reservations -> ReservationStatus] /\ update \in [Updaters -> UpdateType]
    BY <1>1 DEF StoreInv, TypeOK, TablesTypeOK
  <2>2. ~UNCHANGED rstatus
    BY <1>1
  <2>3. \E p \in Updaters : CommitPurchase(p) \/ CommitCancel(p)
    <3>1. ASSUME NEW p \in Creators, NEW s \in Reservations, CommitCreate(p, s) PROVE FALSE
      BY <1>1, <2>1, <3>1 DEF CommitCreate
    <3>2. ASSUME NEW p \in Updaters, CommitSweep(p) PROVE FALSE
      BY <1>1, <2>1, <3>2 DEF CommitSweep
    <3>3. ASSUME NEW p \in Creators,
                 \/ \E u \in Users, seats \in Requests : AdmitCreate(p, u, seats)
                 \/ CreateStep(p)
                 \/ AbortCreate(p)
          PROVE  FALSE
      BY <2>2, <3>1, <3>3 DEF CreateStep, AdmitCreate, BeginCreate, SelectAvailableTickets,
         LockTicket, GiveUpCreate, AbortCreate, tables
    <3>4. ASSUME NEW p \in Updaters,
                 \/ \E u \in Users, s \in Reservations :
                       BeginPurchase(p, u, s) \/ BeginCancel(p, u, s)
                 \/ ExpiredReservations(p)
                 \/ UpdateStep(p)
                 \/ AbortUpdate(p)
          PROVE  CommitPurchase(p) \/ CommitCancel(p)
      BY <2>2, <3>2, <3>4 DEF UpdateStep, BeginPurchase, BeginCancel, BeginUpdate,
         ExpiredReservations, ExecuteUpdate, UpdateReservation, UpdateTicket, GiveUpUpdate,
         AbortUpdate, tables
    <3>5. ~Tick /\ ~UNCHANGED vars
      BY <2>2 DEF Tick, vars, tables
    <3> QED BY <1>1, <3>3, <3>4, <3>5 DEF Next
  <2>4. PICK p \in Updaters : CommitPurchase(p) \/ CommitCancel(p)
    BY <2>3
  <2>5. update[p].pc = "running" /\ update[p].op # "expire" /\ update'[p].pc = "idle"
    BY <2>1, <2>4 DEF CommitPurchase, CommitCancel, ReleaseTickets, Finished, IdleUpdate
  <2>6. p \in Callers
    BY <1>1, <2>5 DEF StoreInv, UpdateOK, Updaters
  <2>7. update[p].rid = r
    BY <1>1, <2>1, <2>4 DEF CommitPurchase, CommitCancel
  <2>8. Matches(update[p], r)
    BY <1>1, <2>4, <2>7, OnlyRequested DEF CommitPurchase, CommitCancel
  <2>9. update[p].user = owner[r]
    BY <2>5, <2>8 DEF Matches, OwnRow
  <2> QED BY <2>5, <2>6, <2>7, <2>9
<1>2. StoreInv /\ [Next]_vars =>
        [\A r \in Reservations :
           rstatus'[r] # rstatus[r] /\ rstatus'[r] \in {"confirmed", "cancelled"}
           => \E p \in Callers : /\ update[p].pc = "running" /\ update'[p].pc = "idle"
                                 /\ update[p].rid = r
                                 /\ update[p].user = owner[r]]_vars
  BY <1>1
<1> QED BY <1>2, StoreInvariant, PTL DEF Spec, OwnerSettles
=============================================================================
