------------------------------ MODULE Bookings ------------------------------
(***************************************************************************)
(* What the booking endpoints and the sweeper promise, each as one atomic  *)
(* step on the tables.  ReservationStore, where each of them is a          *)
(* transaction of several statements that waits for row locks, implements  *)
(* this module.                                                            *)
(***************************************************************************)
EXTENDS Tables

-----------------------------------------------------------------------------
(* POST /api/reservations: user u gets the tickets T until deadline, each  *)
(* of them available or taken from a hold that has run out.  The deadline  *)
(* was computed earlier, so it may already have passed.                    *)
Reserve(r, u, T, deadline) ==
  /\ rstatus[r] = "none"
  /\ T # {}
  /\ \A t \in T : Bookable(t, {s \in Reservations : LapsedAt(s, clock)})
  /\ tstatus' = [t \in Tickets |-> IF t \in T THEN "reserved" ELSE tstatus[t]]
  /\ holder' = [t \in Tickets |-> IF t \in T THEN r ELSE holder[t]]
  /\ rstatus' = [rstatus EXCEPT ![r] = "pending"]
  /\ owner' = [owner EXCEPT ![r] = u]
  /\ expiresAt' = [expiresAt EXCEPT ![r] = deadline]
  /\ granted' = [granted EXCEPT ![r] = T]
  /\ UNCHANGED <<clock, bought>>

(* PUT /api/reservations/{id}/purchase.  Nothing here compares the clock  *)
(* with the deadline: the code compares the deadline with the time its     *)
(* transaction began, and the purchase may take effect later.  What is     *)
(* promised is that the tickets still held are bought, and that there is   *)
(* at least one.                                                           *)
Purchase(r) ==
  /\ rstatus[r] = "pending"
  /\ Held(r) # {}
  /\ tstatus' = [t \in Tickets |-> IF t \in Held(r) THEN "sold" ELSE tstatus[t]]
  /\ rstatus' = [rstatus EXCEPT ![r] = "confirmed"]
  /\ bought' = [bought EXCEPT ![r] = Held(r)]
  /\ UNCHANGED <<clock, holder, owner, expiresAt, granted>>

(* Every ticket of the reservations R goes back on sale. *)
Release(R) ==
  /\ tstatus' = [t \in Tickets |-> IF holder[t] \in R THEN "available" ELSE tstatus[t]]
  /\ holder' = [t \in Tickets |-> IF holder[t] \in R THEN NoReservation ELSE holder[t]]
  /\ UNCHANGED <<clock, owner, expiresAt, granted, bought>>

(* DELETE /api/reservations/{id} *)
Cancel(r) ==
  /\ rstatus[r] \in {"pending", "confirmed"}
  /\ Held(r) # {}
  /\ rstatus' = [rstatus EXCEPT ![r] = "cancelled"]
  /\ Release({r})

(* The sweep: some of the holds that have run out are expired. *)
Expire(R) ==
  /\ \A r \in R : LapsedAt(r, clock)
  /\ rstatus' = [r \in Reservations |-> IF r \in R THEN "expired" ELSE rstatus[r]]
  /\ Release(R)

ClockTick ==
  /\ clock < MaxClock
  /\ clock' = clock + 1
  /\ UNCHANGED tables

BookingNext ==
  \/ \E R \in SUBSET Reservations : Expire(R)
  \/ ClockTick
  \/ \E r \in Reservations : Purchase(r) \/ Cancel(r)
  \/ \E r \in Reservations, u \in Users, T \in SUBSET Tickets,
        deadline \in HoldTime .. (clock + HoldTime) : Reserve(r, u, T, deadline)

BookingSpec == TablesInit /\ [][BookingNext]_<<clock, tables>>
=============================================================================
