----------------------------- MODULE MCAccounts -----------------------------
(* An instance of Accounts for TLC.  The second form has the name of the   *)
(* first, the third its e-mail address; both have another password.        *)
EXTENDS Accounts, TLC

CONSTANTS u1, u2, t1, t2, t3, c1, c2, p1, p2

F(name, email, password) == [name |-> name, email |-> email, password |-> password]

MCForms == {F("ann", "ann@a", "x"), F("ann", "ann@b", "y"), F("bob", "ann@a", "y")}

AccountsSymmetry ==
  Permutations({u1, u2}) \cup Permutations({t1, t2, t3}) \cup
  Permutations({c1, c2}) \cup Permutations({p1, p2})
=============================================================================
