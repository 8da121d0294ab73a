------------------------------ MODULE Accounts ------------------------------
(***************************************************************************)
(* Sign-up, log-in and refresh: the tables users and refresh_tokens, the   *)
(* handlers that use them and the cookies of the clients.                  *)
(*                                                                         *)
(* Every statement of these handlers is a transaction of its own, so a     *)
(* handler is a sequence of atomic steps that others interleave with, and  *)
(* one that stops half-way leaves what it has done.  A password is         *)
(* abstracted from its hash, a refresh token from its random string.       *)
(* The access token is the user it names.                                  *)
(***************************************************************************)
EXTENDS Naturals

CONSTANTS
  Ids,       \* ids for the rows of users
  Tokens,    \* refresh tokens that are ever generated
  Forms,     \* sign-up forms: records with name, email and password
  Clients,   \* browsers, each with its cookies
  Handlers,  \* requests that are served at a time
  TTL,       \* RefreshTTL
  MaxClock,  \* bound on the clock
  None

ASSUME AccountsAssumption ==
  /\ None \notin Ids /\ None \notin Tokens /\ None \notin Forms /\ None \notin Clients
  /\ TTL \in Nat /\ MaxClock \in Nat

VARIABLES
  clock,
  users,      \* table users: per id the form it was created from, or None
  owner,      \* table refresh_tokens: per token its user_id, or None
  expiresAt,  \* its expires_at
  revoked,    \* the tokens whose revoked_at is set
  cookies,    \* per client: the user of its access token and its refresh token
  request,    \* per handler: the request it serves
  rotated,    \* tokens for which a refresh has answered a successor (history)
  cut         \* tokens whose refresh failed after it had revoked them (history)

db == <<users, owner, expiresAt, revoked>>
history == <<rotated, cut>>
vars == <<clock, db, cookies, request, history>>

(* pc of a request: what its handler does next. *)
Pcs == {"idle", "createUser", "authenticate", "validate", "rotate", "revoke",
        "generate", "regenerate", "answer"}

(* A request of client c with form f or cookie t.                          *)
Request(pc, c, f, t) ==
  [pc |-> pc, client |-> c, form |-> f, cookie |-> t,
   user |-> None, holder |-> None, token |-> None]

Idle == Request("idle", None, None, None)

(* r when its handler goes on to pc: user is the one it answers for, holder*)
(* the one it saves a token for, token the one it has saved.               *)
Knowing(r, pc, user, holder, token) ==
  [pc |-> pc, client |-> r.client, form |-> r.form, cookie |-> r.cookie,
   user |-> user, holder |-> holder, token |-> token]

NoCookies == [user |-> None, token |-> None]

Init ==
  /\ clock = 0
  /\ users = [a \in Ids |-> None]
  /\ owner = [t \in Tokens |-> None]
  /\ expiresAt = [t \in Tokens |-> 0]
  /\ revoked = {}
  /\ cookies = [c \in Clients |-> NoCookies]
  /\ request = [p \in Handlers |-> Idle]
  /\ rotated = {} /\ cut = {}

Goes(p, r) == request' = [request EXCEPT ![p] = r]

Fails(p) == Goes(p, Idle)

-----------------------------------------------------------------------------
(* A request arrives.  A refresh carries the cookie that its client has    *)
(* when it sends it.                                                       *)
HandleUserSignup(p, c, f) ==
  /\ request[p].pc = "idle"
  /\ Goes(p, Request("createUser", c, f, None))
  /\ UNCHANGED <<clock, db, cookies, history>>

HandleUserLogin(p, c, f) ==
  /\ request[p].pc = "idle"
  /\ Goes(p, Request("authenticate", c, f, None))
  /\ UNCHANGED <<clock, db, cookies, history>>

HandleRefreshToken(p, c) ==
  /\ request[p].pc = "idle"
  /\ cookies[c].token # None
  /\ Goes(p, Request("validate", c, None, cookies[c].token))
  /\ UNCHANGED <<clock, db, cookies, history>>

-----------------------------------------------------------------------------
(* Faulty variant: only the e-mail address is unique. *)
EmailTaken(f) == \E a \in Ids : users[a] # None /\ users[a].email = f.email

(* The UNIQUE constraints of users. *)
Taken(f) ==
  \E a \in Ids : users[a] # None /\ (users[a].email = f.email \/ users[a].name = f.name)

(* INSERT INTO users under a fresh id, or ErrConflict. *)
CreateUser(p) ==
  LET f == request[p].form IN
  /\ request[p].pc = "createUser"
  /\ \/ /\ Taken(f)
        /\ Fails(p)
        /\ UNCHANGED users
     \/ \E a \in Ids :
          /\ ~Taken(f)
          /\ users[a] = None
          /\ users' = [users EXCEPT ![a] = f]
          /\ Goes(p, Knowing(request[p], "generate", a, a, None))
  /\ UNCHANGED <<clock, owner, expiresAt, revoked, cookies, history>>

(* Faulty variant: the password is not compared. *)
EmailKnown(a, f) == users[a] # None /\ users[a].email = f.email

(* GetUserByEmail and CheckPassword. *)
Authenticated(a, f) ==
  users[a] # None /\ users[a].email = f.email /\ users[a].password = f.password

AuthenticateUser(p) ==
  LET f == request[p].form IN
  /\ request[p].pc = "authenticate"
  /\ \/ \E a \in Ids :
          /\ Authenticated(a, f)
          /\ Goes(p, Knowing(request[p], "generate", a, a, None))
     \/ (\A a \in Ids : ~Authenticated(a, f)) /\ Fails(p)
  /\ UNCHANGED <<clock, db, cookies, history>>

-----------------------------------------------------------------------------
(* Faulty variant: revoked_at is not looked at. *)
NotExpired(t) == owner[t] # None /\ clock < expiresAt[t]

(* ValidateRefreshToken accepts t: GetByTokenHash finds it, and IsExpired  *)
(* and IsRevoked repeat what its statement has checked.                    *)
Valid(t) == owner[t] # None /\ t \notin revoked /\ clock < expiresAt[t]

(* HandleRefreshToken validates the cookie and keeps its user... *)
ValidateRefreshToken(p) ==
  LET t == request[p].cookie IN
  /\ request[p].pc = "validate"
  /\ IF Valid(t)
     THEN Goes(p, Knowing(request[p], "rotate", owner[t], None, None))
     ELSE Fails(p)
  /\ UNCHANGED <<clock, db, cookies, history>>

(* ... and RotateRefreshToken validates it again, ... *)
RotateRefreshToken(p) ==
  LET t == request[p].cookie IN
  /\ request[p].pc = "rotate"
  /\ IF Valid(t)
     THEN Goes(p, Knowing(request[p], "revoke", request[p].user, owner[t], None))
     ELSE Fails(p)
  /\ UNCHANGED <<clock, db, cookies, history>>

(* Faulty variant: RevokeByUserID in its place. *)
TokensOfSameUser(t) == {s \in Tokens : owner[s] = owner[t]}

(* The rows that RevokeByTokenHash updates. *)
Revocable(t) == {t}

(* ... revokes it, or finds it revoked by now, ... *)
RevokeByTokenHash(p) ==
  /\ request[p].pc = "revoke"
  /\ revoked' = revoked \cup Revocable(request[p].cookie)
  /\ Goes(p, Knowing(request[p], "regenerate", request[p].user, request[p].holder, None))
  /\ UNCHANGED <<clock, users, owner, expiresAt, cookies, history>>

(* ... and saves a successor, as sign-up and log-in save a first token. *)
GenerateRefreshToken(p) ==
  /\ request[p].pc \in {"generate", "regenerate"}
  /\ \E t \in Tokens :
       /\ owner[t] = None
       /\ owner' = [owner EXCEPT ![t] = request[p].holder]
       /\ expiresAt' = [expiresAt EXCEPT ![t] = clock + TTL]
       /\ Goes(p, Knowing(request[p], "answer", request[p].user, request[p].holder, t))
  /\ UNCHANGED <<clock, users, revoked, cookies, history>>

(* The answer reaches the client and replaces its cookies, whichever they  *)
(* are by now.                                                             *)
SetAuthCookies(p) ==
  LET r == request[p] IN
  /\ r.pc = "answer"
  /\ cookies' = [cookies EXCEPT ![r.client] = [user |-> r.user, token |-> r.token]]
  /\ rotated' = IF r.cookie = None THEN rotated ELSE rotated \cup {r.cookie}
  /\ Goes(p, Idle)
  /\ UNCHANGED <<clock, db, cut>>

(* A statement fails, the server stops or the answer is lost: the client   *)
(* keeps its cookies, the tables what was written.                         *)
FailRequest(p) ==
  LET r == request[p] IN
  /\ r.pc # "idle"
  /\ cut' = IF r.cookie # None /\ r.pc \in {"regenerate", "answer"}
            THEN cut \cup {r.cookie} ELSE cut
  /\ Fails(p)
  /\ UNCHANGED <<clock, db, cookies, rotated>>

Tick ==
  /\ clock < MaxClock
  /\ clock' = clock + 1
  /\ UNCHANGED <<db, cookies, request, history>>

-----------------------------------------------------------------------------
Handle(p) ==
  \/ \E c \in Clients, f \in Forms : HandleUserSignup(p, c, f) \/ HandleUserLogin(p, c, f)
  \/ \E c \in Clients : HandleRefreshToken(p, c)
  \/ CreateUser(p) \/ AuthenticateUser(p)
  \/ ValidateRefreshToken(p) \/ RotateRefreshToken(p) \/ RevokeByTokenHash(p)
  \/ GenerateRefreshToken(p)
  \/ SetAuthCookies(p) \/ FailRequest(p)

Next == Tick \/ \E p \in Handlers : Handle(p)

Spec == Init /\ [][Next]_vars

-----------------------------------------------------------------------------
(* Of sign-ups that run at the same time with one name or one e-mail       *)
(* address, one creates an account: no two accounts share either, and a    *)
(* sign-up that goes on to issue tokens issues them for the account that   *)
(* its own form created.                                                   *)
SignUpExclusive ==
  /\ \A a, b \in Ids :
       a # b /\ users[a] # None /\ users[b] # None =>
         users[a].email # users[b].email /\ users[a].name # users[b].name
  /\ \A p \in Handlers :
       request[p].user # None /\ request[p].form # None =>
         /\ users[request[p].user] # None
         /\ users[request[p].user].email = request[p].form.email

(* A client's refresh token is good until it expires, whatever other       *)
(* clients of the same user do and in whatever order the answers to its    *)
(* own overlapping requests arrive, unless a refresh of that very cookie   *)
(* has revoked it and is not answered yet, or stopped half-way.            *)
CookieUsable ==
  \A c \in Clients :
    LET t == cookies[c].token IN
    t # None =>
      \/ t \notin revoked
      \/ \E p \in Handlers : request[p].cookie = t /\ request[p].pc \in {"regenerate", "answer"}
      \/ t \in cut

(* Overlapping refreshes of one cookie may all be answered, each with a    *)
(* successor of its own; but a refresh that is validated after another one *)
(* has been answered, delayed or from another tab, is refused.             *)
RotatedStaysRotated ==
  [][\A p \in Handlers :
       request[p].pc = "validate" /\ request'[p].pc = "rotate" =>
         request[p].cookie \notin rotated]_vars

(* What a client holds belongs together: the user that its access token    *)
(* names owns its refresh token.                                           *)
CookiesAgree ==
  \A c \in Clients :
    cookies[c].token # None =>
      cookies[c].user # None /\ owner[cookies[c].token] = cookies[c].user

(* The forms that client c has sent, and the accounts for which it may be  *)
(* answered: the one its cookies name and those of its requests, by what a *)
(* handler knows already or by the cookie that the request has brought.    *)
Knows(r, a) == r.user = a \/ (r.cookie # None /\ owner[r.cookie] = a)

Standing(c) ==
  {a \in Ids :
     \/ cookies[c].user = a
     \/ \E p \in Handlers : request[p].client = c /\ Knows(request[p], a)}

Sent(c) == {request[p].form : p \in {q \in Handlers : request[q].client = c}} \ {None}

Session ==
  INSTANCE Sessions WITH
    accounts <- users,
    sent <- [c \in Clients |-> Sent(c)],
    standing <- [c \in Clients |-> Standing(c)],
    loggedIn <- [c \in Clients |-> cookies[c].user]

(* A client is logged in as a user only if it has signed up as that user   *)
(* or presented the password, however its requests overlap, fail half-way  *)
(* or are answered late, and no account is ever changed or made twice: the *)
(* statements that sign-up, log-in and refresh send one by one implement   *)
(* the steps of Sessions.                                                  *)
KeepsSessions == Session!Spec

-----------------------------------------------------------------------------
(* The inductive invariant. *)
RequestType ==
  [pc : Pcs, client : Clients \cup {None}, form : Forms \cup {None},
   cookie : Tokens \cup {None}, user : Ids \cup {None}, holder : Ids \cup {None},
   token : Tokens \cup {None}]

TypeOK ==
  /\ clock \in Nat
  /\ users \in [Ids -> Forms \cup {None}]
  /\ owner \in [Tokens -> Ids \cup {None}]
  /\ expiresAt \in [Tokens -> Nat]
  /\ revoked \subseteq Tokens
  /\ cookies \in [Clients -> [user : Ids \cup {None}, token : Tokens \cup {None}]]
  /\ request \in [Handlers -> RequestType]
  /\ rotated \subseteq Tokens
  /\ cut \subseteq Tokens

(* What a handler knows at each of its steps.                              *)
RequestOK(r) ==
  /\ IF r.pc = "idle" THEN r = Idle ELSE r.client # None
  /\ r.pc \in {"createUser", "authenticate", "generate"} => r.form # None
  /\ r.pc \in {"validate", "rotate", "revoke", "regenerate"} => r.cookie # None
  /\ r.cookie # None => owner[r.cookie] # None /\ r.form = None
  /\ r.user # None => users[r.user] # None
  /\ r.pc \in {"createUser", "authenticate", "validate"} => r.user = None
  /\ r.pc = "rotate" => r.user = owner[r.cookie]
  /\ r.pc \in {"revoke", "generate", "regenerate", "answer"} => r.user # None /\ r.holder = r.user
  /\ r.cookie # None /\ r.pc \in {"regenerate", "answer"} => r.cookie \in revoked
  /\ r.token # None => r.pc = "answer" /\ owner[r.token] = r.user
  /\ r.pc = "answer" => r.token # None

(* Where a token is known: to the request that has generated it, until it  *)
(* is answered, and after that only to the client that got the answer and  *)
(* to that client's requests.                                              *)
TokensApart ==
  /\ \A p \in Handlers :
       LET t == request[p].token IN
       t # None =>
         /\ t \notin revoked
         /\ \A c \in Clients : cookies[c].token # t
         /\ \A q \in Handlers : request[q].cookie # t /\ (q # p => request[q].token # t)
  /\ \A c \in Clients :
       LET t == cookies[c].token IN
       t # None =>
         /\ \A d \in Clients : d # c => cookies[d].token # t
         /\ \A p \in Handlers : request[p].cookie = t => request[p].client = c

AccountsInv ==
  /\ TypeOK
  /\ SignUpExclusive
  /\ CookieUsable
  /\ CookiesAgree
  /\ \A p \in Handlers : RequestOK(request[p])
  /\ TokensApart
  /\ rotated \subseteq revoked
  /\ \A t \in revoked : owner[t] # None
  /\ \A t \in Tokens : owner[t] # None => users[owner[t]] # None
=============================================================================
