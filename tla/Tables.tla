------------------------------- MODULE Tables -------------------------------
(***************************************************************************)
(* The committed contents of the tables tickets and reservations (the      *)
(* migrations 000006 and 000007), the clock they are compared with, and    *)
(* the answers the two endpoints that grant tickets have given.            *)
(*                                                                         *)
(* The module has no actions.  Bookings changes these variables in atomic  *)
(* steps and states what the service promises; ReservationStore changes    *)
(* them as the SQL transactions of reservation_repository.go do.  The      *)
(* properties of the tables are stated here once, for both.                *)
(***************************************************************************)
EXTENDS Naturals, FiniteSets

CONSTANTS
  Tickets,        \* rows of tickets (inserted by the seed, never deleted)
  Reservations,   \* the UUIDs reservations can get
  Users,          \* users that can log in
  NoReservation,  \* NULL in tickets.reservation_id
  NoUser,         \* owner of a reservation that was not inserted
  HoldTime,       \* how long a hold lasts, config HOLDTIME
  MaxClock        \* bound on the clock, for TLC

ASSUME NullAssumption ==
  /\ NoReservation \notin Reservations
  /\ NoUser \notin Users

ASSUME TimeAssumption == HoldTime \in Nat /\ MaxClock \in Nat

VARIABLES
  clock,      \* the time NOW() and time.Now() read
  tstatus,    \* tickets.status
  holder,     \* tickets.reservation_id
  rstatus,    \* reservations.status, "none" before the row is inserted
  owner,      \* reservations.user_id
  expiresAt,  \* reservations.expires_at
  granted,    \* tickets in the answer that created the reservation
  bought      \* tickets in the answer that purchased the reservation

tables == <<tstatus, holder, rstatus, owner, expiresAt, granted, bought>>

TicketStatus == {"available", "reserved", "sold"}
ReservationStatus == {"none", "pending", "confirmed", "cancelled", "expired"}

TablesTypeOK ==
  /\ clock \in Nat
  /\ tstatus \in [Tickets -> TicketStatus]
  /\ holder \in [Tickets -> Reservations \cup {NoReservation}]
  /\ rstatus \in [Reservations -> ReservationStatus]
  /\ owner \in [Reservations -> Users \cup {NoUser}]
  /\ expiresAt \in [Reservations -> Nat]
  /\ granted \in [Reservations -> SUBSET Tickets]
  /\ bought \in [Reservations -> SUBSET Tickets]

(* After cmd/seed: every ticket is available, there is no reservation. *)
TablesInit ==
  /\ clock = 0
  /\ tstatus = [t \in Tickets |-> "available"]
  /\ holder = [t \in Tickets |-> NoReservation]
  /\ rstatus = [r \in Reservations |-> "none"]
  /\ owner = [r \in Reservations |-> NoUser]
  /\ expiresAt = [r \in Reservations |-> 0]
  /\ granted = [r \in Reservations |-> {}]
  /\ bought = [r \in Reservations |-> {}]

-----------------------------------------------------------------------------
(* Faulty variants of the two conditions below, for the mutation runs: a   *)
(* sweep that forgets the status, <= for <, a seat query that takes any    *)
(* hold, and one that forgets the ticket's status.                         *)
LapsedWhateverStatus(r, now) == rstatus[r] # "none" /\ expiresAt[r] < now
LapsedTooEarly(r, now) == rstatus[r] = "pending" /\ expiresAt[r] <= now
BookableWhenHeld(t, lapsed) == tstatus[t] \in {"available", "reserved"}
BookableWhenSold(t, lapsed) == tstatus[t] = "available" \/ holder[t] \in lapsed

(* WHERE status = 'pending' AND expires_at < NOW(), in a transaction whose *)
(* NOW() is now.                                                           *)
LapsedAt(r, now) == rstatus[r] = "pending" /\ expiresAt[r] < now

(* WHERE status = 'pending' AND expires_at > NOW() *)
PurchasableAt(r, now) == rstatus[r] = "pending" /\ expiresAt[r] > now

(* JOIN tickets ON tickets.reservation_id = r *)
Held(r) == {t \in Tickets : holder[t] = r}

(* The rows selectAvailableTicketsQuery accepts when the reservations its  *)
(* EXISTS finds are lapsed.                                                *)
Bookable(t, lapsed) ==
  \/ tstatus[t] = "available"
  \/ tstatus[t] = "reserved" /\ holder[t] \in lapsed

-----------------------------------------------------------------------------
(* The two tables agree: a ticket without a reservation is available, a    *)
(* reserved ticket belongs to a pending reservation and a sold one to a    *)
(* confirmed one.  The statements that write tickets and reservations are  *)
(* different statements over different row locks, so this is what their    *)
(* common transaction has to keep.                                         *)
BookingConsistent ==
  \A t \in Tickets :
    /\ tstatus[t] = "available" <=> holder[t] = NoReservation
    /\ tstatus[t] = "reserved" => rstatus[holder[t]] = "pending"
    /\ tstatus[t] = "sold" => rstatus[holder[t]] = "confirmed"

(* While a hold has not run out, its user still has every ticket that the  *)
(* answer of POST /api/reservations listed: no other booking, sweep or     *)
(* cancellation took one (selectAvailableTicketsQuery, ExpiredReservations).*)
HoldProtected ==
  \A r \in Reservations :
    rstatus[r] = "pending" /\ clock <= expiresAt[r] => Held(r) = granted[r]

(* The tickets of a confirmed reservation are, for as long as it stays     *)
(* confirmed, the tickets that the purchase answered: at least one, all of *)
(* the user's grant, and none of them the answer of another confirmed      *)
(* purchase (ADR-002: no double booking).                                  *)
NoDoubleSale ==
  /\ \A r \in Reservations :
       rstatus[r] = "confirmed" =>
         /\ Held(r) = bought[r]
         /\ bought[r] # {}
         /\ bought[r] \subseteq granted[r]
  /\ \A r, s \in Reservations :
       /\ r # s
       /\ rstatus[r] = "confirmed"
       /\ rstatus[s] = "confirmed"
       => bought[r] \cap bought[s] = {}

(* A reservation is settled once: pending becomes confirmed, cancelled or  *)
(* expired, confirmed only cancelled, and the other two are final.  A      *)
(* purchase, a cancellation and the sweep that race on one row must not    *)
(* undo each other.                                                        *)
MayBecome == {<<"none", "pending">>, <<"pending", "confirmed">>,
              <<"pending", "cancelled">>, <<"pending", "expired">>,
              <<"confirmed", "cancelled">>}

SettledOnce ==
  [][\A r \in Reservations :
       rstatus'[r] # rstatus[r] => <<rstatus[r], rstatus'[r]>> \in MayBecome]_tables

(* A sold ticket changes only when the reservation that bought it is       *)
(* cancelled, and then it is available again: neither a new booking nor    *)
(* the sweep ever takes a paid seat.                                       *)
SoldStaysSold ==
  [][\A t \in Tickets :
       tstatus[t] = "sold" /\ (tstatus'[t] # "sold" \/ holder'[t] # holder[t])
       => /\ tstatus'[t] = "available"
          /\ rstatus'[holder[t]] = "cancelled"]_tables

(* Up to and at its deadline, the tickets of a hold change hands only when *)
(* it is cancelled, and then all of them go: no sweep expires it, no other *)
(* booking takes one of them over, and a purchase that takes effect in     *)
(* time buys exactly those that are held.                                  *)
NoEarlyExpiry ==
  [][\A r \in Reservations :
       rstatus[r] = "pending" /\ clock <= expiresAt[r] =>
         \/ rstatus'[r] = "pending" /\ Held(r)' = Held(r)
         \/ rstatus'[r] = "confirmed" /\ Held(r)' = Held(r) /\ bought'[r] = Held(r)
         \/ rstatus'[r] = "cancelled" /\ Held(r)' = {}]_tables

-----------------------------------------------------------------------------
(* What ticket t is to the buyers: a hold counts until its deadline, and a *)
(* ticket of a lapsed one is free before any statement has touched it.     *)
SeatOf(t) ==
  CASE tstatus[t] = "sold" -> <<"sold", holder[t]>>
    [] tstatus[t] = "reserved" /\ clock <= expiresAt[holder[t]] -> <<"held", holder[t]>>
    [] OTHER -> <<"free", NoReservation>>

Market == INSTANCE SeatMarket WITH seat <- [t \in Tickets |-> SeatOf(t)]

(* For its buyers the service is a market of seats: no seat goes from one  *)
(* reservation to another without having been free, a reservation gets and *)
(* loses its seats together, and the time at which a sweep takes note of a *)
(* hold that has run out makes no difference to anyone.                    *)
SellsSeats == Market!Spec

-----------------------------------------------------------------------------
(* The inductive invariant of the tables: what a reservation holds is part *)
(* of its grant, and a confirmed one holds what its purchase answered.     *)
HeldWithinGrant == \A r \in Reservations : Held(r) \subseteq granted[r]

BoughtIsHeld ==
  \A r \in Reservations :
    rstatus[r] = "confirmed" => Held(r) = bought[r] /\ bought[r] # {}

BookingInv ==
  /\ TablesTypeOK
  /\ BookingConsistent
  /\ HoldProtected
  /\ HeldWithinGrant
  /\ BoughtIsHeld
=============================================================================
