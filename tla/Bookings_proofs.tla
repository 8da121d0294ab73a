-------------------------- MODULE Bookings_proofs --------------------------
(***************************************************************************)
(* The promise of Bookings keeps the properties of the tables, for any     *)
(* number of tickets, reservations and users and any hold time.            *)
(***************************************************************************)
EXTENDS Bookings, TLAPS

bvars == <<clock, tables>>

LEMMA BookingInitInv == TablesInit => BookingInv
  BY NullAssumption DEF TablesInit, BookingInv, TablesTypeOK, BookingConsistent,
     HoldProtected, HeldWithinGrant, BoughtIsHeld, Held, TicketStatus, ReservationStatus

(* A booking keeps the invariant. *)
LEMMA ReserveInv ==
  ASSUME BookingInv,
         NEW r \in Reservations, NEW u \in Users, NEW T \in SUBSET Tickets,
         NEW deadline \in HoldTime .. (clock + HoldTime),
         Reserve(r, u, T, deadline)
  PROVE  BookingInv'
<1> USE NullAssumption, TimeAssumption DEF BookingInv, Reserve
<1>1. TablesTypeOK'
  BY DEF TablesTypeOK, TicketStatus, ReservationStatus
<1>2. \A t \in T : tstatus[t] = "available"
                   \/ (holder[t] \in Reservations /\ LapsedAt(holder[t], clock))
  BY DEF Bookable
<1>3. \A t \in T : holder[t] # r
  BY <1>2 DEF BookingConsistent, LapsedAt, TablesTypeOK
<1>4. BookingConsistent'
  BY DEF BookingConsistent, TablesTypeOK, TicketStatus
<1>5. Held(r) = {}
  BY DEF BookingConsistent, Held, TablesTypeOK, TicketStatus
<1>6. Held(r)' = T
  BY <1>5 DEF Held
<1>7. \A s \in Reservations \ {r} : Held(s)' = Held(s) \ T
  BY DEF Held
<1>8. \A s \in Reservations : rstatus[s] = "confirmed" => Held(s) \cap T = {}
  BY <1>2 DEF Held, BookingConsistent, LapsedAt
<1>9. \A s \in Reservations : rstatus[s] = "pending" /\ clock <= expiresAt[s]
                              => Held(s) \cap T = {}
  BY <1>2 DEF Held, BookingConsistent, LapsedAt, TablesTypeOK
<1>10. HoldProtected'
  <2> SUFFICES ASSUME NEW s \in Reservations,
                      rstatus'[s] = "pending", clock' <= expiresAt'[s]
               PROVE  Held(s)' = granted'[s]
    BY DEF HoldProtected
  <2>1. CASE s = r
    BY <2>1, <1>6 DEF TablesTypeOK
  <2>2. CASE s # r
    <3>1. rstatus[s] = "pending" /\ clock <= expiresAt[s] /\ granted'[s] = granted[s]
      BY <2>2 DEF TablesTypeOK
    <3>2. Held(s) = granted[s] /\ Held(s) \cap T = {}
      BY <3>1, <1>9 DEF HoldProtected
    <3> QED BY <2>2, <3>1, <3>2, <1>7
  <2> QED BY <2>1, <2>2
<1>11. HeldWithinGrant'
  BY <1>6, <1>7 DEF HeldWithinGrant, TablesTypeOK
<1>12. BoughtIsHeld'
  <2> SUFFICES ASSUME NEW s \in Reservations, rstatus'[s] = "confirmed"
               PROVE  Held(s)' = bought'[s] /\ bought'[s] # {}
    BY DEF BoughtIsHeld
  <2>1. s # r /\ rstatus[s] = "confirmed"
    BY DEF TablesTypeOK
  <2>2. Held(s) = bought[s] /\ bought[s] # {} /\ Held(s) \cap T = {}
    BY <2>1, <1>8 DEF BoughtIsHeld
  <2> QED BY <2>1, <2>2, <1>7
<1> QED BY <1>1, <1>4, <1>10, <1>11, <1>12

(* A purchase keeps the invariant. *)
LEMMA PurchaseInv ==
  ASSUME BookingInv, NEW r \in Reservations, Purchase(r)
  PROVE  BookingInv'
<1> USE NullAssumption DEF BookingInv, Purchase
<1>1. TablesTypeOK'
  BY DEF TablesTypeOK, TicketStatus, ReservationStatus, Held
<1>2. BookingConsistent'
  BY DEF BookingConsistent, TablesTypeOK, TicketStatus, Held
<1>3. \A s \in Reservations : Held(s)' = Held(s)
  BY DEF Held
<1>4. HoldProtected'
  BY <1>3 DEF HoldProtected, TablesTypeOK
<1>5. HeldWithinGrant'
  BY <1>3 DEF HeldWithinGrant
<1>6. BoughtIsHeld'
  BY <1>3 DEF BoughtIsHeld, TablesTypeOK
<1> QED BY <1>1, <1>2, <1>4, <1>5, <1>6

(* Reservations that end, by cancellation or expiry, keep the invariant. *)
LEMMA ReleaseInv ==
  ASSUME BookingInv, NEW R \in SUBSET Reservations, Release(R),
         NEW status \in {"cancelled", "expired"},
         rstatus' = [r \in Reservations |-> IF r \in R THEN status ELSE rstatus[r]]
  PROVE  BookingInv'
<1> USE NullAssumption DEF BookingInv, Release
<1>1. TablesTypeOK'
  BY DEF TablesTypeOK, TicketStatus, ReservationStatus
<1>2. BookingConsistent'
  BY DEF BookingConsistent, TablesTypeOK, TicketStatus
<1>3. \A s \in Reservations : Held(s)' \subseteq Held(s)
  BY DEF Held
<1>4. \A s \in Reservations \ R : Held(s)' = Held(s)
  BY DEF Held
<1>5. HoldProtected'
  BY <1>4 DEF HoldProtected, TablesTypeOK
<1>6. HeldWithinGrant'
  BY <1>3 DEF HeldWithinGrant
<1>7. BoughtIsHeld'
  BY <1>4 DEF BoughtIsHeld, TablesTypeOK
<1> QED BY <1>1, <1>2, <1>5, <1>6, <1>7

LEMMA BookingNextInv == BookingInv /\ [BookingNext]_bvars => BookingInv'
<1> SUFFICES ASSUME BookingInv, [BookingNext]_bvars PROVE BookingInv'
  OBVIOUS
<1>1. CASE \E r \in Reservations, u \in Users, T \in SUBSET Tickets,
              deadline \in HoldTime .. (clock + HoldTime) : Reserve(r, u, T, deadline)
  BY <1>1, ReserveInv
<1>2. ASSUME NEW r \in Reservations, Purchase(r) PROVE BookingInv'
  BY <1>2, PurchaseInv
<1>3. ASSUME NEW r \in Reservations, Cancel(r) PROVE BookingInv'
  <2>1. rstatus' = [s \in Reservations |-> IF s \in {r} THEN "cancelled" ELSE rstatus[s]]
    BY <1>3 DEF Cancel, BookingInv, TablesTypeOK
  <2> QED BY <1>3, <2>1, ReleaseInv DEF Cancel
<1>4. ASSUME NEW R \in SUBSET Reservations, Expire(R) PROVE BookingInv'
  BY <1>4, ReleaseInv DEF Expire
<1>5. CASE ClockTick
  BY <1>5, TimeAssumption DEF BookingInv, ClockTick, tables, TablesTypeOK, BookingConsistent,
     HoldProtected, HeldWithinGrant, BoughtIsHeld, Held
<1>6. CASE UNCHANGED bvars
  BY <1>6 DEF bvars, BookingInv, tables, TablesTypeOK, BookingConsistent,
     HoldProtected, HeldWithinGrant, BoughtIsHeld, Held
<1> QED BY <1>1, <1>2, <1>3, <1>4, <1>5, <1>6 DEF BookingNext

LEMMA BookingInvSellsOnce == BookingInv => NoDoubleSale
  BY DEF BookingInv, NoDoubleSale, BoughtIsHeld, HeldWithinGrant, Held

LEMMA BookingSpecInv == BookingSpec => []BookingInv
  BY BookingInitInv, BookingNextInv, PTL DEF BookingSpec, bvars

(* The tables of the promise agree with each other in every state. *)
THEOREM PromiseConsistent == BookingSpec => []BookingConsistent
  BY BookingSpecInv, PTL DEF BookingInv

(* A hold keeps its tickets until its deadline. *)
THEOREM PromiseProtectsHolds == BookingSpec => []HoldProtected
  BY BookingSpecInv, PTL DEF BookingInv

(* Two confirmed reservations never share a ticket. *)
THEOREM PromiseSellsOnce == BookingSpec => []NoDoubleSale
  BY BookingSpecInv, BookingInvSellsOnce, PTL
-----------------------------------------------------------------------------
(* What a market seat is, in terms of the tables. *)
SeatNow == [t \in Tickets |-> SeatOf(t)]

(* SeatOf tells the three states of a seat apart, and whose it is. *)
LEMMA SeatFacts ==
  ASSUME BookingInv, NEW t \in Tickets
  PROVE  /\ SeatNow[t] = SeatOf(t)
         /\ SeatOf(t) = Market!Free <=>
              tstatus[t] # "sold" /\ ~(tstatus[t] = "reserved" /\ clock <= expiresAt[holder[t]])
         /\ \A r \in Reservations :
              /\ SeatOf(t) = Market!Hold(r) <=>
                   tstatus[t] = "reserved" /\ clock <= expiresAt[r] /\ holder[t] = r
              /\ SeatOf(t) = Market!Sale(r) <=> tstatus[t] = "sold" /\ holder[t] = r
<1>1. SeatNow[t] = SeatOf(t)
  BY DEF SeatNow
<1>2. CASE tstatus[t] = "sold"
  <2>1. SeatOf(t) = <<"sold", holder[t]>>
    BY <1>2 DEF SeatOf
  <2> QED  BY <1>1, <1>2, <2>1 DEF Market!Free, Market!Hold, Market!Sale
<1>3. CASE tstatus[t] = "reserved" /\ clock <= expiresAt[holder[t]]
  <2>1. SeatOf(t) = <<"held", holder[t]>>
    BY <1>3 DEF SeatOf
  <2> QED  BY <1>1, <1>3, <2>1 DEF Market!Free, Market!Hold, Market!Sale
<1>4. CASE tstatus[t] # "sold" /\ ~(tstatus[t] = "reserved" /\ clock <= expiresAt[holder[t]])
  <2>1. SeatOf(t) = <<"free", NoReservation>>
    BY <1>4 DEF SeatOf
  <2> QED  BY <1>1, <1>4, <2>1 DEF Market!Free, Market!Hold, Market!Sale
<1> QED  BY <1>2, <1>3, <1>4

(* After the seed every seat is free. *)
LEMMA InitMarket == TablesInit => Market!Init
BY DEF TablesInit, Market!Init, SeatOf, Market!Free

(* A market step that changes the seats of T to value. *)
LEMMA MarketBecome ==
  ASSUME NEW T \in SUBSET Tickets, NEW value,
         \A t \in T : SeatOf(t)' = value,
         \A t \in Tickets \ T : SeatOf(t)' = SeatOf(t)
  PROVE  Market!Become(T, value)
BY DEF Market!Become

(* A booking takes free seats, or, when its deadline has already passed,   *)
(* nothing that a buyer sees.                                              *)
LEMMA ReserveIsTake ==
  ASSUME BookingInv,
         NEW r \in Reservations, NEW u \in Users, NEW T \in SUBSET Tickets,
         NEW deadline \in HoldTime .. (clock + HoldTime),
         Reserve(r, u, T, deadline)
  PROVE  Market!Take(r, T) \/ SeatNow' = SeatNow
<1>1. deadline \in Nat /\ clock \in Nat /\ expiresAt \in [Reservations -> Nat]
  BY TimeAssumption DEF BookingInv, TablesTypeOK
<1>2. \A t \in T : SeatOf(t) = Market!Free
  BY <1>1, SeatFacts DEF Reserve, Bookable, LapsedAt
<1>3. \A t \in Tickets : holder[t] # r
  BY NullAssumption DEF Reserve, BookingInv, BookingConsistent, TablesTypeOK, TicketStatus
<1>4. \A t \in Tickets \ T : SeatOf(t)' = SeatOf(t)
  BY <1>3 DEF Reserve, SeatOf, BookingInv, TablesTypeOK
<1>5. \A t \in T : SeatOf(t)' = IF clock <= deadline THEN Market!Hold(r) ELSE Market!Free
  BY <1>1 DEF Reserve, SeatOf, Market!Hold, Market!Free
<1>6. CASE clock <= deadline
  <2>1. Market!Become(T, Market!Hold(r))
    BY <1>4, <1>5, <1>6, MarketBecome
  <2>2. Market!HeldFor(r) \cup Market!SoldTo(r) = {}
    BY <1>3, SeatFacts DEF Market!HeldFor, Market!SoldTo, SeatNow
  <2> QED  BY <1>2, <2>1, <2>2 DEF Market!Take, Reserve
<1>7. CASE ~(clock <= deadline)
  BY <1>2, <1>4, <1>5, <1>7 DEF SeatNow
<1> QED  BY <1>6, <1>7

(* A purchase buys the seats that the tables still give the reservation. *)
LEMMA PurchaseIsBuy ==
  ASSUME BookingInv, NEW r \in Reservations, Purchase(r)
  PROVE  Market!Buy(r, Held(r))
<1>1. Held(r) \in SUBSET Tickets /\ Held(r) # {}
  BY DEF Held, Purchase
<1>2. \A t \in Held(r) : tstatus[t] = "reserved" /\ holder[t] = r
  BY NullAssumption DEF Held, Purchase, BookingInv, BookingConsistent, TablesTypeOK, TicketStatus
<1>3. Market!SoldTo(r) = {}
  BY <1>2, SeatFacts DEF Market!SoldTo, SeatNow, Held
<1>4. Market!HeldFor(r) = IF clock <= expiresAt[r] THEN Held(r) ELSE {}
  BY <1>2, SeatFacts DEF Market!HeldFor, SeatNow, Held
<1>5. ~(clock <= expiresAt[r]) => \A t \in Held(r) : SeatOf(t) = Market!Free
  BY <1>1, <1>2, SeatFacts
<1>6. Market!Become(Held(r), Market!Sale(r))
  <2>1. \A t \in Held(r) : SeatOf(t)' = Market!Sale(r)
    BY <1>1, <1>2 DEF Purchase, SeatOf, Market!Sale
  <2>2. \A t \in Tickets \ Held(r) : SeatOf(t)' = SeatOf(t)
    BY DEF Purchase, SeatOf
  <2> QED  BY <1>1, <2>1, <2>2, MarketBecome
<1> QED  BY <1>1, <1>3, <1>4, <1>5, <1>6 DEF Market!Buy

(* A cancellation frees the seats of its reservation and no other. *)
LEMMA CancelIsVacate ==
  ASSUME BookingInv, NEW r \in Reservations, Cancel(r)
  PROVE  Market!Vacate(r)
<1> DEFINE T == Market!HeldFor(r) \cup Market!SoldTo(r)
<1>1. T \in SUBSET Tickets
  BY DEF Market!HeldFor, Market!SoldTo
<1>2. \A t \in T : holder[t] = r
  BY SeatFacts DEF Market!HeldFor, Market!SoldTo, SeatNow
<1>3. \A t \in Tickets \ T : holder[t] = r => SeatOf(t) = Market!Free
  <2> TAKE t \in Tickets \ T
  <2>1. SeatOf(t) # Market!Hold(r) /\ SeatOf(t) # Market!Sale(r)
    BY DEF Market!HeldFor, Market!SoldTo, SeatNow
  <2> QED  BY <2>1, SeatFacts DEF BookingInv, TablesTypeOK, TicketStatus
<1>4. \A t \in Tickets : holder[t] = r => SeatOf(t)' = Market!Free
  BY DEF Cancel, Release, SeatOf, Market!Free
<1>5. \A t \in Tickets : holder[t] # r => SeatOf(t)' = SeatOf(t)
  BY DEF Cancel, Release, SeatOf
<1> HIDE DEF T
<1>6. Market!Become(T, Market!Free)
  BY <1>1, <1>2, <1>3, <1>4, <1>5, MarketBecome
<1> QED  BY <1>6 DEF Market!Vacate, T

(* The sweep frees only seats that were free for the buyers already. *)
LEMMA ExpireIsUnseen ==
  ASSUME BookingInv, NEW R \in SUBSET Reservations, Expire(R)
  PROVE  SeatNow' = SeatNow
<1>1. \A t \in Tickets : holder[t] \in R => SeatOf(t) = Market!Free /\ SeatOf(t)' = Market!Free
  <2> SUFFICES ASSUME NEW t \in Tickets, holder[t] \in R
               PROVE  SeatOf(t) = Market!Free /\ SeatOf(t)' = Market!Free
    OBVIOUS
  <2>1. rstatus[holder[t]] = "pending" /\ expiresAt[holder[t]] < clock
    BY DEF Expire, LapsedAt
  <2>2. tstatus[t] \in {"available", "reserved"} /\ ~(clock <= expiresAt[holder[t]])
    BY <2>1 DEF BookingInv, BookingConsistent, TablesTypeOK, TicketStatus
  <2> QED  BY <2>2 DEF Expire, Release, SeatOf, Market!Free
<1>2. \A t \in Tickets : holder[t] \notin R => SeatOf(t)' = SeatOf(t)
  BY DEF Expire, Release, SeatOf
<1> QED  BY <1>1, <1>2 DEF SeatNow

(* The clock makes holds run out, each with all its seats. *)
LEMMA TickIsLapse ==
  ASSUME BookingInv, ClockTick
  PROVE  \E R \in SUBSET Reservations : Market!Lapse(R)
<1> DEFINE R == {r \in Reservations : ~(clock + 1 <= expiresAt[r])}
           T == UNION {Market!HeldFor(r) : r \in R}
<1>1. T \in SUBSET Tickets
  BY DEF Market!HeldFor
<1>2. \A t \in T : SeatOf(t)' = Market!Free
  <2>1. \A t \in T : tstatus[t] = "reserved" /\ holder[t] \in R
    <3> SUFFICES ASSUME NEW t \in T PROVE tstatus[t] = "reserved" /\ holder[t] \in R
      OBVIOUS
    <3>1. PICK r \in R : t \in Market!HeldFor(r)
      OBVIOUS
    <3>2. t \in Tickets /\ SeatOf(t) = Market!Hold(r)
      BY <3>1 DEF Market!HeldFor, SeatNow
    <3> QED  BY <3>2, SeatFacts
  <2> QED  BY <2>1 DEF ClockTick, tables, SeatOf, Market!Free
<1>3. \A t \in Tickets \ T : SeatOf(t)' = SeatOf(t)
  <2> SUFFICES ASSUME NEW t \in Tickets \ T PROVE SeatOf(t)' = SeatOf(t)
    OBVIOUS
  <2>1. CASE tstatus[t] = "reserved" /\ clock <= expiresAt[holder[t]]
    <3>1. holder[t] \in Reservations /\ SeatOf(t) = Market!Hold(holder[t])
      BY <2>1, NullAssumption DEF BookingInv, BookingConsistent, TablesTypeOK, SeatOf, Market!Hold
    <3>2. holder[t] \notin R
      BY <3>1 DEF Market!HeldFor, SeatNow
    <3> QED  BY <2>1, <3>1, <3>2 DEF ClockTick, tables, SeatOf
  <2>2. CASE ~(tstatus[t] = "reserved" /\ clock <= expiresAt[holder[t]])
    <3>1. clock \in Nat /\ tstatus[t] = "reserved" => expiresAt[holder[t]] \in Nat
      BY NullAssumption DEF BookingInv, BookingConsistent, TablesTypeOK
    <3>2. ~(tstatus[t] = "reserved" /\ clock + 1 <= expiresAt[holder[t]])
      BY <2>2, <3>1 DEF BookingInv, TablesTypeOK
    <3> QED  BY <2>2, <3>2 DEF ClockTick, tables, SeatOf
  <2> QED  BY <2>1, <2>2
<1>4. Market!Become(T, Market!Free)
  <2> HIDE DEF T
  <2> QED  BY <1>1, <1>2, <1>3, MarketBecome
<1> QED  BY <1>4 DEF Market!Lapse

(* Every operation of Bookings is one of the market, or is not seen there. *)
LEMMA NextMarket == BookingInv /\ [BookingNext]_bvars => [Market!Next]_SeatNow
<1> SUFFICES ASSUME BookingInv, [BookingNext]_bvars PROVE Market!Next \/ SeatNow' = SeatNow
  BY DEF SeatNow
<1>1. ASSUME NEW r \in Reservations, NEW u \in Users, NEW T \in SUBSET Tickets,
             NEW deadline \in HoldTime .. (clock + HoldTime), Reserve(r, u, T, deadline)
      PROVE  Market!Next \/ SeatNow' = SeatNow
  BY <1>1, ReserveIsTake DEF Market!Next
<1>2. ASSUME NEW r \in Reservations, Purchase(r) PROVE Market!Next
  BY <1>2, PurchaseIsBuy DEF Market!Next, Held
<1>3. ASSUME NEW r \in Reservations, Cancel(r) PROVE Market!Next
  BY <1>3, CancelIsVacate DEF Market!Next
<1>4. ASSUME NEW R \in SUBSET Reservations, Expire(R) PROVE SeatNow' = SeatNow
  BY <1>4, ExpireIsUnseen
<1>5. CASE ClockTick
  BY <1>5, TickIsLapse DEF Market!Next
<1>6. CASE UNCHANGED bvars
  BY <1>6 DEF bvars, tables, SeatNow, SeatOf
<1> QED  BY <1>1, <1>2, <1>3, <1>4, <1>5, <1>6 DEF BookingNext

(* The promise is a market of seats: no seat changes hands without having  *)
(* been free, and a reservation gets and loses its seats together.         *)
THEOREM PromiseSellsSeats == BookingSpec => SellsSeats
<1>1. BookingInv /\ [BookingNext]_bvars => [Market!Next]_SeatNow
  BY NextMarket
<1> QED  BY <1>1, InitMarket, BookingSpecInv, PTL DEF BookingSpec, bvars, SellsSeats, Market!Spec, SeatNow
=============================================================================
