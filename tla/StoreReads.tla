----------------------------- MODULE StoreReads -----------------------------
(***************************************************************************)
(* The GET endpoints of ReservationReads beside the transactions of        *)
(* ReservationStore, as the service runs them: a SELECT waits for no lock  *)
(* and sees what is committed, in the middle of any transaction.           *)
(***************************************************************************)
EXTENDS ReservationStore

CONSTANT Readers  \* handlers of the two endpoints

VARIABLES read, answer, listed, expiredSeen, seenBefore  \* as in ReservationReads

readVars == <<read, answer, listed, expiredSeen, seenBefore>>
serviceVars == <<vars, readVars>>

Reads == INSTANCE ReservationReads

ServiceInit == Init /\ Reads!Init

(* A statement of a transaction, or a tick of the clock. *)
StoreStep == Next /\ UNCHANGED readVars

(* A step of a reader. *)
ReadStep(p) ==
  /\ Reads!List(p) \/ Reads!ByID(p)
  /\ UNCHANGED <<create, update>>

ServiceNext == StoreStep \/ \E p \in Readers : ReadStep(p)

ServiceSpec == ServiceInit /\ [][ServiceNext]_serviceVars

-----------------------------------------------------------------------------
(* What the readers see of the transactions is the atomic operations of    *)
(* Bookings: no answer depends on a statement that is not committed, and   *)
(* none shows the tables half-way through a commit.                        *)
ReadsSeeOperations == Reads!Spec

(* An answer of either endpoint shows one committed state of each          *)
(* reservation, whatever transactions were open when it was read.          *)
AnswersWhole == Reads!ShownWhole

(* A hold that was shown as expired is not shown as pending by a request   *)
(* for the history that reads the clock later, though bookings, purchases  *)
(* and sweeps are half-way through.                                        *)
AnswersNeverGoBack == Reads!HistoryNeverGoesBack

(* The same of both endpoints.  The runs refute it: read by id, a          *)
(* reservation is shown with its stored status (reservation_service.go:179).*)
ExpiredStaysExpired == Reads!ExpiredStaysExpired
=============================================================================
