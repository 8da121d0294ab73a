----------------------------- MODULE SeatMarket -----------------------------
(***************************************************************************)
(* The seats of the games as their buyers see them: a seat is free, or it  *)
(* is held for one reservation, or it is sold to one.  There are no rows,  *)
(* no deadlines and no sweeps; a hold that runs out simply frees its       *)
(* seats.  The tables implement this module under the mapping SeatOf of    *)
(* Tables.                                                                 *)
(***************************************************************************)
CONSTANTS
  Tickets,       \* the seats of the games
  Reservations,  \* the reservations they can be held for and sold to
  NoReservation

VARIABLE seat    \* what each ticket is to its buyers

Free == <<"free", NoReservation>>
Hold(r) == <<"held", r>>
Sale(r) == <<"sold", r>>

HeldFor(r) == {t \in Tickets : seat[t] = Hold(r)}
SoldTo(r) == {t \in Tickets : seat[t] = Sale(r)}

Init == seat = [t \in Tickets |-> Free]

Become(T, value) == seat' = [t \in Tickets |-> IF t \in T THEN value ELSE seat[t]]

(* A booking takes free seats, all of them at once. *)
Take(r, T) ==
  /\ T # {}
  /\ \A t \in T : seat[t] = Free
  /\ HeldFor(r) \cup SoldTo(r) = {}
  /\ Become(T, Hold(r))

(* A purchase buys all the seats that are held, or, if the hold has run    *)
(* out, seats that are free.                                               *)
Buy(r, T) ==
  /\ T # {}
  /\ \/ T = HeldFor(r)
     \/ HeldFor(r) = {} /\ \A t \in T : seat[t] = Free
  /\ SoldTo(r) = {}
  /\ Become(T, Sale(r))

(* A cancellation frees all the seats of one reservation. *)
Vacate(r) == Become(HeldFor(r) \cup SoldTo(r), Free)

(* Holds run out, each with all its seats. *)
Lapse(R) == Become(UNION {HeldFor(r) : r \in R}, Free)

Next ==
  \/ \E R \in SUBSET Reservations : Lapse(R)
  \/ \E r \in Reservations : Vacate(r)
  \/ \E r \in Reservations, T \in SUBSET Tickets : Take(r, T) \/ Buy(r, T)

Spec == Init /\ [][Next]_seat
=============================================================================
