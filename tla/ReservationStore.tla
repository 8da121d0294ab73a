-------------------------- MODULE ReservationStore --------------------------
(***************************************************************************)
(* The reservation endpoints and the sweeper, statement by statement, on   *)
(* PostgreSQL at READ COMMITTED (reservation_repository.go, its service,   *)
(* its handlers, and the sweeper goroutine of cmd/server/main.go).         *)
(*                                                                         *)
(* What is modelled of the database:                                       *)
(*  - NOW() is the time the transaction began.                             *)
(*  - A statement reads a snapshot taken when it starts.                   *)
(*  - FOR UPDATE and UPDATE lock the rows the snapshot offers one by one,  *)
(*    waiting for the transaction that holds a row, and then evaluate the  *)
(*    row's condition again on its latest version.  Sub-queries on other   *)
(*    tables keep the snapshot.  The lock stays even if the row no longer  *)
(*    matches.                                                             *)
(*  - Nothing a transaction wrote is seen before it commits.  Its locks    *)
(*    are released when it commits or rolls back.                          *)
(* The rows are visited in any order, and a statement that waits for one   *)
(* row is a statement that has not visited it yet.                         *)
(***************************************************************************)
EXTENDS Tables, Integers, Sequences

CONSTANTS
  Creators,  \* handlers of POST /api/reservations
  Callers,   \* handlers of purchase and cancel requests
  Sweepers,  \* goroutines that run ExpiredReservations, one per server
  Grade,     \* [Tickets -> grade], the seat's grade within its game
  Requests,  \* bodies a client sends: sequences of [grade, quantity]
  MaxSeats,  \* service option, config MAXSEATS
  IntMax     \* the greatest int

Updaters == Callers \cup Sweepers

ASSUME ProcessAssumption ==
  /\ Creators \cap Updaters = {}
  /\ Callers \cap Sweepers = {}

ASSUME RequestAssumption ==
  Requests \subseteq
    Seq([grade : {Grade[t] : t \in Tickets}, quantity : (-(IntMax + 1)) .. IntMax])

ASSUME LimitAssumption == IntMax \in Nat /\ MaxSeats \in 1 .. IntMax

(* The tickets are the rows of a table, and a body is cut off at 1 MB: all *)
(* its entries together cannot ask for IntMax seats if none of them asks   *)
(* for more seats than there are.                                          *)
ASSUME BodyAssumption ==
  /\ IsFiniteSet(Tickets)
  /\ \A seats \in Requests : Len(seats) * Cardinality(Tickets) <= IntMax

VARIABLES
  create,  \* per creator: its CreateReservation call
  update   \* per caller and the sweeper: its transaction

vars == <<clock, tables, create, update>>

-----------------------------------------------------------------------------
(* A CreateReservation call.  "admitted": the service has computed the     *)
(* deadline; "open": between BEGIN and COMMIT.  next is the seat entry     *)
(* whose SELECT runs or ran last, scan the rows of its snapshot that are   *)
(* not visited yet, lapsed what its EXISTS sees, got the rows it returned; *)
(* picked the rows of the entries before it.                               *)
IdleCreate ==
  [pc |-> "idle", user |-> NoUser, seats |-> <<>>, next |-> 0, expiresAt |-> 0,
   now |-> 0, lapsed |-> {}, scan |-> {}, got |-> {}, picked |-> {},
   locked |-> {}]

(* A purchase, a cancellation or a sweep.  "open": between BEGIN and the   *)
(* statement; "running": the statement has taken its snapshot.  pend are   *)
(* the reservations of the snapshot not visited yet, hit the updated ones; *)
(* rows the <<ticket, reservation>> pairs of the snapshot not visited yet, *)
(* done the updated tickets.                                               *)
IdleUpdate ==
  [pc |-> "idle", op |-> "none", user |-> NoUser, rid |-> NoReservation,
   now |-> 0, pend |-> {}, hit |-> {}, rows |-> {}, done |-> {},
   rlocked |-> {}, tlocked |-> {}]

Init ==
  /\ TablesInit
  /\ create = [p \in Creators |-> IdleCreate]
  /\ update = [p \in Updaters |-> IdleUpdate]

TicketLocks(p) == IF p \in Creators THEN create[p].locked ELSE update[p].tlocked

(* Faulty variant: the statements lock no ticket rows. *)
TicketNeverLocked(p, t) == TRUE

(* Row t is not locked by another transaction. *)
TicketFree(p, t) == \A q \in (Creators \cup Updaters) \ {p} : t \notin TicketLocks(q)

ReservationFree(p, r) == \A q \in Updaters \ {p} : r \notin update[q].rlocked

-----------------------------------------------------------------------------
(* POST /api/reservations *)

(* totalSeats after each round of the service's loop, without overflow. *)
TotalSeats(seats) ==
  LET total[n \in 0 .. Len(seats)] ==
        IF n = 0 THEN 0 ELSE total[n - 1] + seats[n].quantity
  IN  total

Total(seats) == TotalSeats(seats)[Len(seats)]

(* Faulty variant: the limit is checked entry by entry. *)
AdmissibleByEntry(seats) ==
  \A i \in DOMAIN seats : seats[i].quantity \in 1 .. MaxSeats

(* The int that an addition beyond IntMax leaves in totalSeats. *)
AsInt(n) == ((n + IntMax + 1) % (2 * (IntMax + 1))) - (IntMax + 1)

(* The service's validation of the request.  Two large quantities may wrap *)
(* around to a total within the limit.                                     *)
Admissible(seats) ==
  /\ \A i \in DOMAIN seats : seats[i].quantity > 0
  /\ AsInt(Total(seats)) <= MaxSeats

(* Bound: a call is let in only while a UUID is left for it and for every  *)
(* call before it.  uuid.New() itself never runs out.                      *)
IdsLeft ==
  Cardinality({p \in Creators : create[p].pc # "idle"})
    < Cardinality({r \in Reservations : rstatus[r] = "none"})

(* The handler and the service up to the repository call.  A request that  *)
(* is not admissible is answered 400 and changes nothing.                  *)
AdmitCreate(p, u, seats) ==
  /\ create[p].pc = "idle"
  /\ IdsLeft
  /\ Admissible(seats)
  /\ create' = [create EXCEPT ![p] =
       [IdleCreate EXCEPT !.pc = "admitted", !.user = u, !.seats = seats,
                          !.expiresAt = clock + HoldTime]]
  /\ UNCHANGED <<clock, tables, update>>

(* BEGIN reaches the database, perhaps after a wait for a connection. *)
BeginCreate(p) ==
  /\ create[p].pc = "admitted"
  /\ create' = [create EXCEPT ![p] = [create[p] EXCEPT !.pc = "open", !.now = clock]]
  /\ UNCHANGED <<clock, tables, update>>

(* The LIMIT of the current SELECT. *)
Limit(c) == IF c.next = 0 THEN 0 ELSE c.seats[c.next].quantity

(* Faulty variant: a SELECT that returns fewer rows is accepted. *)
ServedWithLess(p) ==
  create[p].scan = {} \/ Cardinality(create[p].got) = Limit(create[p])

(* It has returned that many rows. *)
Served(p) == Cardinality(create[p].got) = Limit(create[p])

AllServed(p) ==
  /\ create[p].pc = "open"
  /\ create[p].next = Len(create[p].seats)
  /\ Served(p)

(* Faulty variant: tickets = ids, where the code appends them. *)
LastEntryOnly(p) == create[p].got

(* The tickets of all the SELECTs so far. *)
Chosen(p) == create[p].picked \cup create[p].got

(* SELECT ... FOR UPDATE OF tickets, for the next entry of the request. *)
SelectAvailableTickets(p) ==
  LET c == create[p]
      lapsed == {r \in Reservations : LapsedAt(r, c.now)}
  IN  /\ c.pc = "open"
      /\ Served(p)
      /\ c.next < Len(c.seats)
      /\ create' = [create EXCEPT ![p] =
           [c EXCEPT !.next = c.next + 1,
                     !.lapsed = lapsed,
                     !.scan = {t \in Tickets : /\ Grade[t] = c.seats[c.next + 1].grade
                                               /\ Bookable(t, lapsed)},
                     !.got = {},
                     !.picked = Chosen(p)]]
      /\ UNCHANGED <<clock, tables, update>>

(* The scan locks one more row, and returns it if it is still bookable. *)
LockTicket(p, t) ==
  LET c == create[p]
  IN  /\ c.pc = "open"
      /\ ~Served(p)
      /\ t \in c.scan
      /\ TicketFree(p, t)
      /\ create' = [create EXCEPT ![p] =
           [c EXCEPT !.scan = c.scan \ {t},
                     !.locked = c.locked \cup {t},
                     !.got = c.got \cup {s \in {t} : Bookable(s, c.lapsed)}]]
      /\ UNCHANGED <<clock, tables, update>>

(* Faulty variant: no return where the tickets are not enough. *)
NothingChosen(p) == AllServed(p) /\ Chosen(p) = {}

(* ErrInsufficientTickets, or no seat entry at all, which makes the UPDATE *)
(* a syntax error.                                                         *)
NothingToGrant(p) ==
  \/ create[p].pc = "open" /\ ~Served(p) /\ create[p].scan = {}
  \/ AllServed(p) /\ Chosen(p) = {}

(* The deferred Rollback ends the transaction. *)
GiveUpCreate(p) ==
  /\ NothingToGrant(p)
  /\ create' = [create EXCEPT ![p] = IdleCreate]
  /\ UNCHANGED <<clock, tables, update>>

(* INSERT INTO reservations, UPDATE tickets and COMMIT.  The two           *)
(* statements wait for nobody: the row of r is new and the tickets are     *)
(* locked.                                                                 *)
CommitCreate(p, r) ==
  /\ AllServed(p)
  /\ Chosen(p) # {}
  /\ rstatus[r] = "none"
  /\ tstatus' = [t \in Tickets |-> IF t \in Chosen(p) THEN "reserved" ELSE tstatus[t]]
  /\ holder' = [t \in Tickets |-> IF t \in Chosen(p) THEN r ELSE holder[t]]
  /\ rstatus' = [rstatus EXCEPT ![r] = "pending"]
  /\ owner' = [owner EXCEPT ![r] = create[p].user]
  /\ expiresAt' = [expiresAt EXCEPT ![r] = create[p].expiresAt]
  /\ granted' = [granted EXCEPT ![r] = Chosen(p)]
  /\ create' = [create EXCEPT ![p] = IdleCreate]
  /\ UNCHANGED <<clock, bought, update>>

(* An error of any statement, a cancelled request context, a deadlock that *)
(* PostgreSQL resolves by an error, or a crash of the server.              *)
AbortCreate(p) ==
  /\ create[p].pc # "idle"
  /\ create' = [create EXCEPT ![p] = IdleCreate]
  /\ UNCHANGED <<clock, tables, update>>

-----------------------------------------------------------------------------
(* PUT /api/reservations/{id}/purchase, DELETE /api/reservations/{id} and *)
(* the sweep.                                                              *)

(* BEGIN of a request's transaction. *)
BeginUpdate(p, op, u, r) ==
  /\ p \in Callers
  /\ update[p].pc = "idle"
  /\ update' = [update EXCEPT ![p] =
       [IdleUpdate EXCEPT !.pc = "open", !.op = op, !.user = u, !.rid = r,
                          !.now = clock]]
  /\ UNCHANGED <<clock, tables, create>>

BeginPurchase(p, u, r) == BeginUpdate(p, "purchase", u, r)

BeginCancel(p, u, r) == BeginUpdate(p, "cancel", u, r)

(* Faulty variant: no AND user_id = $2. *)
AnyonesRow(x, r) == r = x.rid

(* WHERE id = $1 AND user_id = $2 *)
OwnRow(x, r) == r = x.rid /\ owner[r] = x.user

(* Faulty variant: a sweep that starts from the tickets. *)
SweptIfHolding(x, r) == LapsedAt(r, x.now) /\ Held(r) # {}

(* The sweep's WHERE clause. *)
Swept(x, r) == LapsedAt(r, x.now)

(* The WHERE clause on reservations of transaction x. *)
Matches(x, r) ==
  \/ x.op = "purchase" /\ OwnRow(x, r) /\ PurchasableAt(r, x.now)
  \/ x.op = "cancel" /\ OwnRow(x, r) /\ PurchasableAt(r, x.now)
  \/ x.op = "cancel" /\ OwnRow(x, r) /\ rstatus[r] = "confirmed"
  \/ x.op = "expire" /\ Swept(x, r)

(* The statement of transaction x starts and takes its snapshot.  Only the *)
(* tickets of a reservation in pend can join the CTE's result.             *)
Execute(p, x) ==
  LET pend == {r \in Reservations : Matches(x, r)}
  IN  update' = [update EXCEPT ![p] =
        [x EXCEPT !.pc = "running",
                  !.pend = pend,
                  !.rows = {row \in Tickets \X pend : holder[row[1]] = row[2]}]]

ExecuteUpdate(p) ==
  /\ update[p].pc = "open"
  /\ Execute(p, update[p])
  /\ UNCHANGED <<clock, tables, create>>

(* The ticker fires.  The sweep is one statement without BEGIN: its NOW()  *)
(* and its snapshot are taken together.                                    *)
ExpiredReservations(p) ==
  /\ p \in Sweepers
  /\ update[p].pc = "idle"
  /\ Execute(p, [IdleUpdate EXCEPT !.op = "expire", !.now = clock])
  /\ UNCHANGED <<clock, tables, create>>

(* The CTE locks one more reservation, and updates it if it still matches. *)
UpdateReservation(p, r) ==
  LET x == update[p]
  IN  /\ x.pc = "running"
      /\ r \in x.pend
      /\ ReservationFree(p, r)
      /\ update' = [update EXCEPT ![p] =
           [x EXCEPT !.pend = x.pend \ {r},
                     !.rlocked = x.rlocked \cup {r},
                     !.hit = x.hit \cup {s \in {r} : Matches(x, s)}]]
      /\ UNCHANGED <<clock, tables, create>>

(* Faulty variant: the tickets to update are those of the snapshot. *)
HeldInSnapshot(t, r) == TRUE

(* The join condition, on the latest version of the row. *)
StillHeld(t, r) == holder[t] = r

(* The outer UPDATE locks one more ticket of a reservation that the CTE    *)
(* returned, and updates it if it still belongs to that reservation.       *)
UpdateTicket(p, t, r) ==
  LET x == update[p]
  IN  /\ x.pc = "running"
      /\ <<t, r>> \in x.rows
      /\ r \in x.hit
      /\ TicketFree(p, t)
      /\ update' = [update EXCEPT ![p] =
           [x EXCEPT !.rows = x.rows \ {<<t, r>>},
                     !.tlocked = x.tlocked \cup {t},
                     !.done = x.done \cup {s \in {t} : StillHeld(s, r)}]]
      /\ UNCHANGED <<clock, tables, create>>

Finished(p) ==
  /\ update[p].pc = "running"
  /\ update[p].pend = {}
  /\ \A row \in update[p].rows : row[2] \notin update[p].hit

(* Faulty variant: the number of affected rows is not looked at. *)
AnyAffected(p) == TRUE

(* The statement returned or affected at least one ticket row. *)
Affected(p) == update[p].done # {}

(* ErrNotFound and the deferred Rollback. *)
GiveUpUpdate(p) ==
  /\ p \in Callers
  /\ Finished(p)
  /\ ~Affected(p)
  /\ update' = [update EXCEPT ![p] = IdleUpdate]
  /\ UNCHANGED <<clock, tables, create>>

(* Faulty variant: the status of the domain package, which is not one of   *)
(* the enum's.                                                             *)
DomainStatus == "purchased"

(* The status the purchase writes. *)
PurchasedStatus == "confirmed"

CommitPurchase(p) ==
  /\ Finished(p)
  /\ update[p].op = "purchase"
  /\ Affected(p)
  /\ tstatus' = [t \in Tickets |-> IF t \in update[p].done THEN "sold" ELSE tstatus[t]]
  /\ rstatus' = [rstatus EXCEPT ![update[p].rid] = PurchasedStatus]
  /\ bought' = [bought EXCEPT ![update[p].rid] = update[p].done]
  /\ update' = [update EXCEPT ![p] = IdleUpdate]
  /\ UNCHANGED <<clock, holder, owner, expiresAt, granted, create>>

(* Faulty variant: reservation_id stays set. *)
StatusOnly(p) == holder

(* SET reservation_id = NULL *)
WithoutReservation(p) ==
  [t \in Tickets |-> IF t \in update[p].done THEN NoReservation ELSE holder[t]]

(* The tickets of done go back on sale and p's transaction ends. *)
ReleaseTickets(p) ==
  /\ tstatus' = [t \in Tickets |-> IF t \in update[p].done THEN "available" ELSE tstatus[t]]
  /\ holder' = WithoutReservation(p)
  /\ update' = [update EXCEPT ![p] = IdleUpdate]
  /\ UNCHANGED <<clock, owner, expiresAt, granted, bought, create>>

CommitCancel(p) ==
  /\ Finished(p)
  /\ update[p].op = "cancel"
  /\ Affected(p)
  /\ rstatus' = [rstatus EXCEPT ![update[p].rid] = "cancelled"]
  /\ ReleaseTickets(p)

(* The sweep's statement ends; how many rows it affected does not matter. *)
CommitSweep(p) ==
  /\ Finished(p)
  /\ update[p].op = "expire"
  /\ rstatus' = [r \in Reservations |->
                   IF r \in update[p].hit THEN "expired" ELSE rstatus[r]]
  /\ ReleaseTickets(p)

AbortUpdate(p) ==
  /\ update[p].pc # "idle"
  /\ update' = [update EXCEPT ![p] = IdleUpdate]
  /\ UNCHANGED <<clock, tables, create>>

-----------------------------------------------------------------------------
Tick ==
  /\ clock < MaxClock
  /\ clock' = clock + 1
  /\ UNCHANGED <<tables, create, update>>

CreateStep(p) ==
  \/ BeginCreate(p)
  \/ SelectAvailableTickets(p)
  \/ \E t \in Tickets : LockTicket(p, t)
  \/ GiveUpCreate(p)
  \/ \E r \in Reservations : CommitCreate(p, r)

UpdateStep(p) ==
  \/ ExecuteUpdate(p)
  \/ \E r \in Reservations : UpdateReservation(p, r)
  \/ \E t \in Tickets, r \in Reservations : UpdateTicket(p, t, r)
  \/ GiveUpUpdate(p)
  \/ CommitPurchase(p)
  \/ CommitCancel(p)
  \/ CommitSweep(p)

Next ==
  \/ \E p \in Creators :
       \/ \E u \in Users, seats \in Requests : AdmitCreate(p, u, seats)
       \/ CreateStep(p)
       \/ AbortCreate(p)
  \/ \E p \in Updaters :
       \/ \E u \in Users, r \in Reservations : BeginPurchase(p, u, r) \/ BeginCancel(p, u, r)
       \/ ExpiredReservations(p)
       \/ UpdateStep(p)
       \/ AbortUpdate(p)
  \/ Tick

Spec == Init /\ [][Next]_vars

-----------------------------------------------------------------------------
(* Fairness.  The server and the database go on with every transaction,    *)
(* and lock queues are first come first served, so a transaction that can  *)
(* take its next step again and again takes it (strong fairness).          *)
(* PostgreSQL aborts one of the transactions that wait for each other.     *)
(* Requests are never obliged to arrive, and errors may abort any          *)
(* transaction.                                                            *)
Processes == Creators \cup Updaters

(* The rows transaction p's statement has yet to visit, by who locks them. *)
Waits(p) ==
  IF p \in Creators
  THEN {q \in Processes \ {p} : create[p].scan \cap TicketLocks(q) # {}}
  ELSE {q \in Processes \ {p} :
          \/ \E row \in update[p].rows :
               row[2] \in update[p].hit /\ row[1] \in TicketLocks(q)
          \/ q \in Updaters /\ update[p].pend \cap update[q].rlocked # {}}

(* None of those rows is free. *)
Blocked(p) ==
  IF p \in Creators
  THEN /\ create[p].scan # {}
       /\ ~Served(p)
       /\ \A t \in create[p].scan : ~TicketFree(p, t)
  ELSE /\ update[p].pc = "running"
       /\ ~Finished(p)
       /\ \A r \in update[p].pend : ~ReservationFree(p, r)
       /\ \A row \in update[p].rows : row[2] \in update[p].hit => ~TicketFree(p, row[1])

Deadlocked(p) ==
  /\ Blocked(p)
  /\ \E S \in SUBSET {q \in Processes : Blocked(q)} :
       p \in S /\ \A q \in S : Waits(q) \subseteq S

ResolveDeadlock ==
  \/ \E p \in Creators : Deadlocked(p) /\ AbortCreate(p)
  \/ \E p \in Updaters : Deadlocked(p) /\ AbortUpdate(p)

Fairness ==
  /\ \A p \in Creators : SF_vars(CreateStep(p))
  /\ \A p \in Updaters : SF_vars(UpdateStep(p))
  /\ WF_vars(ResolveDeadlock)

FairSpec == Spec /\ Fairness

-----------------------------------------------------------------------------
(* The rows and the transactions have their types. *)
CreateType ==
  [pc : {"idle", "admitted", "open"}, user : Users \cup {NoUser},
   seats : Requests \cup {<<>>}, next : Nat, expiresAt : Nat, now : Nat,
   lapsed : SUBSET Reservations, scan : SUBSET Tickets, got : SUBSET Tickets,
   picked : SUBSET Tickets, locked : SUBSET Tickets]

UpdateType ==
  [pc : {"idle", "open", "running"}, op : {"none", "purchase", "cancel", "expire"},
   user : Users \cup {NoUser}, rid : Reservations \cup {NoReservation},
   now : Nat, pend : SUBSET Reservations, hit : SUBSET Reservations,
   rows : SUBSET (Tickets \X Reservations), done : SUBSET Tickets,
   rlocked : SUBSET Reservations, tlocked : SUBSET Tickets]

TypeOK ==
  /\ TablesTypeOK
  /\ create \in [Creators -> CreateType]
  /\ update \in [Updaters -> UpdateType]

(* The transactions together do what the atomic operations of Bookings     *)
(* promise: every commit is one such operation, and no statement before it *)
(* and no rollback is seen.                                                *)
Promise == INSTANCE Bookings

KeepsPromise == Promise!BookingSpec

(* A request that names no grade twice is granted exactly as many tickets  *)
(* as it asks for, over all its SELECTs and whatever other transactions    *)
(* did to the rows the scans waited for.                                   *)
NamesGradesOnce(seats) ==
  \A i, j \in DOMAIN seats : seats[i].grade = seats[j].grade => i = j

GrantMatchesRequest ==
  \A p \in Creators :
    AllServed(p) /\ NamesGradesOnce(create[p].seats)
    => Cardinality(Chosen(p)) = Total(create[p].seats)

(* No reservation ever gets more tickets than the service's limit. *)
GrantWithinLimit == \A r \in Reservations : Cardinality(granted[r]) <= MaxSeats

(* Every request gets an answer and every sweep ends: a booking, purchase, *)
(* cancellation or sweep that waits for the row locks of another one, or   *)
(* for one that waits for its own, does not wait for ever, and no path,    *)
(* that of a request for nothing included, leaves a transaction open.  The *)
(* run has two transactions at a time.                                     *)
TransactionsEnd ==
  /\ \A p \in Creators : create[p].pc # "idle" ~> create[p].pc = "idle"
  /\ \A p \in Updaters : update[p].pc # "idle" ~> update[p].pc = "idle"

(* If sweeps keep being completed, in spite of those that fail, then every *)
(* hold that has run out is settled: a sweep that competes with bookings   *)
(* for the rows of a lapsed hold never leaves it behind for good.          *)
SweepsComplete == \A p \in Sweepers : []<><<CommitSweep(p)>>_vars

LapsedHoldSettled ==
  SweepsComplete =>
    \A r \in Reservations : LapsedAt(r, clock) ~> rstatus[r] # "pending"

(* A purchase that is answered with success has bought every ticket of the *)
(* hold (ADR-002: a purchase succeeds properly).  The runs refute it.      *)
PurchaseIsWhole ==
  \A r \in Reservations : rstatus[r] = "confirmed" => bought[r] = granted[r]

(* A request that is granted has got, over its entries, as many tickets as *)
(* the entries ask for.  The runs refute it for requests that name a grade *)
(* twice.                                                                  *)
EveryGrantMatches ==
  \A p \in Creators :
    AllServed(p) => Cardinality(Chosen(p)) = Total(create[p].seats)

(* Only a request of the reservation's own user confirms or cancels it. *)
OwnerSettles ==
  [][\A r \in Reservations :
       rstatus'[r] # rstatus[r] /\ rstatus'[r] \in {"confirmed", "cancelled"}
       => \E p \in Callers : /\ update[p].pc = "running" /\ update'[p].pc = "idle"
                             /\ update[p].rid = r
                             /\ update[p].user = owner[r]]_vars

-----------------------------------------------------------------------------
(* The inductive invariant.                                                *)

(* What a CreateReservation call in state c knows: it has locked what it   *)
(* chose, the snapshot of its EXISTS holds only reservations whose         *)
(* deadline is before its NOW(), and each chosen ticket, whatever was      *)
(* committed since it was locked, is still free or in a lapsed hold.       *)
CreateOK(c) ==
  /\ c.now <= clock
  /\ c.expiresAt <= clock + HoldTime
  /\ c.pc # "idle" => c.user \in Users /\ HoldTime <= c.expiresAt
  /\ c.pc # "open" => c.next = 0 /\ c.got = {} /\ c.picked = {} /\ c.locked = {}
  /\ c.picked \cup c.got \subseteq c.locked
  /\ \A s \in c.lapsed : rstatus[s] # "none" /\ expiresAt[s] < c.now
  /\ \A t \in c.picked \cup c.got :
       Bookable(t, {s \in Reservations : LapsedAt(s, c.now)})

(* What transaction p in state x knows: it has locked what it updates; the *)
(* updated reservations still match its WHERE clause; and it has updated,  *)
(* or has yet to visit, every ticket that a reservation of its snapshot    *)
(* holds now, because no reservation gains tickets after it was inserted.  *)
UpdateOK(p, x) ==
  /\ x.now <= clock
  /\ x.pc # "running" => /\ x.pend = {} /\ x.hit = {} /\ x.rows = {}
                         /\ x.done = {} /\ x.rlocked = {} /\ x.tlocked = {}
  /\ x.pc # "idle" /\ p \in Callers => x.op # "expire" /\ x.rid \in Reservations
  /\ x.pc # "idle" /\ p \in Sweepers => x.op = "expire"
  /\ x.hit \subseteq x.rlocked
  /\ x.done \subseteq x.tlocked
  /\ \A r \in x.pend \cup x.hit : rstatus[r] # "none"
  /\ \A r \in x.hit : Matches(x, r)
  /\ \A t \in Tickets :
       holder[t] \in x.pend \cup x.hit => <<t, holder[t]>> \in x.rows \/ t \in x.done
  /\ \A t \in x.done : holder[t] \in x.hit

(* No row is locked by two transactions. *)
LocksExclusive ==
  /\ \A p, q \in Processes : p # q => TicketLocks(p) \cap TicketLocks(q) = {}
  /\ \A p, q \in Updaters : p # q => update[p].rlocked \cap update[q].rlocked = {}

(* What a CreateReservation call in state c has chosen so far: never more  *)
(* than the entries before it ask for, nor than there are tickets for each *)
(* of them, and exactly as many if no grade is named twice, for then the   *)
(* scans of two entries share no ticket.                                   *)
GrantOK(c) ==
  /\ c.pc # "idle" => c.seats \in Requests /\ Admissible(c.seats)
  /\ c.next <= Len(c.seats)
  /\ c.next = 0 => c.picked = {} /\ c.got = {}
  /\ c.next > 0 =>
       LET asked == TotalSeats(c.seats)[c.next - 1]
       IN  /\ Cardinality(c.got) <= Limit(c)
           /\ asked \in Cardinality(c.picked) .. ((c.next - 1) * Cardinality(Tickets))
           /\ NamesGradesOnce(c.seats) => Cardinality(c.picked) = asked
  /\ \A t \in c.scan \cup c.got : c.next > 0 => Grade[t] = c.seats[c.next].grade
  /\ \A t \in c.picked : \E i \in 1 .. (c.next - 1) : Grade[t] = c.seats[i].grade

(* The inductive invariant of the counts. *)
GrantInv ==
  /\ TypeOK
  /\ \A p \in Creators : GrantOK(create[p])
  /\ GrantWithinLimit

StoreInv ==
  /\ TypeOK
  /\ BookingInv
  /\ \A p \in Creators : CreateOK(create[p])
  /\ \A p \in Updaters : UpdateOK(p, update[p])
  /\ LocksExclusive
=============================================================================
