------------------------- MODULE MCReservationStore -------------------------
(* Small instances of ReservationStore for TLC. *)
EXTENDS ReservationStore, TLC

CONSTANTS t1, t2, t3, r1, r2, r3, A, B, h1, h2, c1, c2, u1, u2

Entry(g, n) == [grade |-> g, quantity |-> n]

\* Every ticket has grade A.
OneGrade == [t \in Tickets |-> A]
OneGradeRequests == {<<Entry(A, 1)>>, <<Entry(A, 2)>>}

RepeatedGradeRequests == {<<Entry(A, 1), Entry(A, 1)>>}

\* Two tickets of grade A and one of grade B; requests that lock the two
\* grades in both orders, one for nothing, two that are not admissible, and
\* one whose total wraps around.
TwoGrades == t1 :> A @@ t2 :> A @@ t3 :> B
MixedRequests ==
  {<<>>, <<Entry(A, 0)>>, <<Entry(A, 2), Entry(B, 1)>>,
   <<Entry(A, 1), Entry(B, 1)>>, <<Entry(B, 1), Entry(A, 1)>>,
   <<Entry(A, 1), Entry(B, IntMax)>>}

\* One ticket of each grade, which two bookings may lock in opposite orders.
LiveGrades == t1 :> A @@ t2 :> B
LiveRequests ==
  {<<>>, <<Entry(A, 1), Entry(B, 1)>>, <<Entry(B, 1), Entry(A, 1)>>}

\* The bounds of the run for liveness.  Any two processes are in transactions
\* at a time, so nothing else than the arrival of a third is restricted; and
\* ids, which are interchangeable, are handed out in one order.
MaxBusy == 2
Busy ==
  {p \in Creators : create[p].pc # "idle"} \cup {p \in Updaters : update[p].pc # "idle"}
LiveNext ==
  /\ Next
  /\ Cardinality(Busy') <= MaxBusy
  /\ rstatus'[r1] = "none" => rstatus'[r2] = "none"
LiveSpec == Init /\ [][LiveNext]_vars /\ Fairness

RaceSymmetry == Permutations({t1, t2}) \cup Permutations({r1, r2}) \cup Permutations({u1, u2})
ContentionSymmetry ==
  Permutations({t1, t2}) \cup Permutations({r1, r2, r3}) \cup Permutations({c1, c2})
=============================================================================
