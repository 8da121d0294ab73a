------------------------------ MODULE Sessions ------------------------------
(***************************************************************************)
(* Accounts and log-ins as their owners see them: there are no tables, no  *)
(* tokens and no handlers.  A client is logged in as a user only because   *)
(* it has registered the account or presented its password, and it stays   *)
(* so until another answer replaces its cookies.  Accounts implements this *)
(* module, with all its separate statements, overlapping requests and      *)
(* failures half-way.                                                      *)
(***************************************************************************)
CONSTANTS Ids, Forms, Clients, None  \* as in Accounts

VARIABLES
  accounts,  \* per id the form it was registered with, or None
  sent,      \* per client: the forms of its open requests
  standing,  \* per client: the accounts it may be answered for
  loggedIn   \* per client: the account it is logged in to, or None

vars == <<accounts, sent, standing, loggedIn>>

Init ==
  /\ accounts = [a \in Ids |-> None]
  /\ sent = [c \in Clients |-> {}]
  /\ standing = [c \in Clients |-> {}]
  /\ loggedIn = [c \in Clients |-> None]

(* The client fills in a form. *)
Send(c, f) ==
  /\ sent' = [sent EXCEPT ![c] = @ \cup {f}]
  /\ UNCHANGED <<accounts, standing, loggedIn>>

Free(f) ==
  \A a \in Ids :
    accounts[a] # None => accounts[a].email # f.email /\ accounts[a].name # f.name

Admit(c, a) ==
  /\ standing' = [standing EXCEPT ![c] = @ \cup {a}]
  /\ UNCHANGED <<sent, loggedIn>>

(* A form that the client has sent and whose name and e-mail address are   *)
(* free becomes an account, which never changes after that.                *)
Register(c, a, f) ==
  /\ f \in sent[c]
  /\ accounts[a] = None
  /\ Free(f)
  /\ accounts' = [accounts EXCEPT ![a] = f]
  /\ Admit(c, a)

(* The client has sent the password of the account. *)
LogIn(c, a, f) ==
  /\ f \in sent[c]
  /\ accounts[a] # None
  /\ accounts[a].email = f.email /\ accounts[a].password = f.password
  /\ UNCHANGED accounts
  /\ Admit(c, a)

(* Requests end, answered or not.  Nobody gains standing by that, and who  *)
(* is logged in keeps it.                                                  *)
RequestsEnd ==
  /\ UNCHANGED accounts
  /\ sent' \in [Clients -> SUBSET Forms]
  /\ standing' \in [Clients -> SUBSET Ids]
  /\ \A c \in Clients :
       /\ sent'[c] \subseteq sent[c] /\ standing'[c] \subseteq standing[c]
       /\ loggedIn'[c] \in standing'[c] \cup {None}

(* An answer makes the client a user for whom it has standing: the one it  *)
(* is already, after a refresh, or another one.                            *)
Answered(c, a) ==
  /\ loggedIn' = [loggedIn EXCEPT ![c] = a]
  /\ RequestsEnd

(* Nobody gets an answer. *)
Unanswered == UNCHANGED loggedIn /\ RequestsEnd

Next ==
  \/ Unanswered
  \/ \E c \in Clients, f \in Forms : Send(c, f)
  \/ \E c \in Clients, a \in Ids :
       \/ Answered(c, a)
       \/ \E f \in Forms : Register(c, a, f) \/ LogIn(c, a, f)

Spec == Init /\ [][Next]_vars
=============================================================================
