---------------------------- MODULE MCStoreReads ----------------------------
(* A small instance of StoreReads for TLC. *)
EXTENDS StoreReads, TLC

CONSTANTS t1, t2, r1, r2, u1, c1, s1, p1, A

\* Both tickets have grade A.
OneGrade == [t \in Tickets |-> A]
BookOneOrTwo == {<<[grade |-> A, quantity |-> n]>> : n \in {1, 2}}
=============================================================================
