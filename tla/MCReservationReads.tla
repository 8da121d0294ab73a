------------------------- MODULE MCReservationReads -------------------------
(* Small instances of ReservationReads for TLC. *)
EXTENDS ReservationReads, TLC

CONSTANTS t1, t2, r1, r2, u1, p1, p2

ReadsSymmetry == Permutations({t1, t2}) \cup Permutations({r1, r2}) \cup Permutations({p1, p2})
=============================================================================
