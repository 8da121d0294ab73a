--------------------------- MODULE Accounts_proofs ---------------------------
(***************************************************************************)
(* Proofs about Accounts, for all its constants: sign-ups exclude each     *)
(* other, a client's refresh token stays good, and the statements          *)
(* implement Sessions.                                                     *)
(***************************************************************************)
EXTENDS Accounts, TLAPS

LEMMA IdleOK ==
  /\ Idle \in RequestType
  /\ RequestOK(Idle)
  /\ Idle.pc = "idle" /\ Idle.cookie = None /\ Idle.user = None /\ Idle.form = None
  /\ Idle.token = None
BY AccountsAssumption DEF Idle, Request, RequestType, RequestOK, Pcs

LEMMA AccountsInit == Init => AccountsInv
<1> SUFFICES ASSUME Init PROVE AccountsInv
  OBVIOUS
<1> USE AccountsAssumption
<1>1. TypeOK
  BY IdleOK DEF Init, TypeOK, NoCookies
<1>2. SignUpExclusive
  BY IdleOK DEF Init, SignUpExclusive
<1>3. \A c \in Clients : cookies[c].token = None
  BY DEF Init, NoCookies
<1>4. CookieUsable /\ CookiesAgree
  BY <1>3 DEF CookieUsable, CookiesAgree
<1>5. \A p \in Handlers : RequestOK(request[p])
  BY IdleOK DEF Init
<1>6. TokensApart
  BY <1>3, IdleOK DEF Init, TokensApart
<1> QED  BY <1>1, <1>2, <1>4, <1>5, <1>6 DEF Init, AccountsInv

(* A step that changes one request only: r is what its handler knows next. *)
LEMMA RequestStep ==
  ASSUME AccountsInv, NEW p \in Handlers, NEW r \in RequestType,
         RequestOK(r),
         r.token = None,
         r.user # None /\ r.form # None => users[r.user].email = r.form.email,
         r.cookie # None =>
           /\ \A c \in Clients : cookies[c].token = r.cookie => r.client = c
           /\ \A q \in Handlers : request[q].token # r.cookie,
         request[p].cookie # None /\ request[p].pc \in {"regenerate", "answer"} =>
           request[p].cookie \in cut',
         cut \subseteq cut', cut' \subseteq Tokens,
         Goes(p, r), UNCHANGED <<clock, db, cookies, rotated>>
  PROVE  AccountsInv'
<1> USE DEF Goes, db
<1>1. TypeOK'
  BY DEF AccountsInv, TypeOK
<1>2. /\ request'[p] = r
      /\ \A q \in Handlers : q # p => request'[q] = request[q]
  BY DEF AccountsInv, TypeOK
<1>3. SignUpExclusive'
  BY <1>2 DEF AccountsInv, SignUpExclusive, RequestOK
<1>4. CookieUsable'
  <2> SUFFICES ASSUME NEW c \in Clients, cookies[c].token # None, cookies[c].token \in revoked,
                      cookies[c].token \notin cut'
               PROVE  \E q \in Handlers : /\ request'[q].cookie = cookies[c].token
                                          /\ request'[q].pc \in {"regenerate", "answer"}
    BY DEF CookieUsable
  <2>1. PICK q \in Handlers : /\ request[q].cookie = cookies[c].token
                              /\ request[q].pc \in {"regenerate", "answer"}
    BY DEF AccountsInv, CookieUsable
  <2>2. q # p
    BY <2>1
  <2> QED  BY <1>2, <2>1, <2>2
<1>5. CookiesAgree'
  BY DEF AccountsInv, CookiesAgree
<1>6. (\A q \in Handlers : RequestOK(request[q]))'
  BY <1>2 DEF AccountsInv, RequestOK
<1>7. TokensApart'
  <2>1. \A q \in Handlers : request'[q].token # None =>
          /\ request'[q].token \notin revoked
          /\ \A c \in Clients : cookies[c].token # request'[q].token
          /\ \A s \in Handlers : /\ request'[s].cookie # request'[q].token
                                 /\ s # q => request'[s].token # request'[q].token
    BY <1>2 DEF AccountsInv, TokensApart
  <2>2. \A c \in Clients : cookies[c].token # None =>
          /\ \A d \in Clients : d # c => cookies[d].token # cookies[c].token
          /\ \A q \in Handlers :
               request'[q].cookie = cookies[c].token => request'[q].client = c
    BY <1>2 DEF AccountsInv, TokensApart
  <2> QED  BY <2>1, <2>2 DEF TokensApart
<1> QED  BY <1>1, <1>3, <1>4, <1>5, <1>6, <1>7 DEF AccountsInv

(* The next knowledge of a handler that has not revoked anything.          *)
LEMMA FailInv ==
  ASSUME AccountsInv, NEW p \in Handlers, Fails(p),
         UNCHANGED <<clock, db, cookies, history>>,
         request[p].pc \notin {"regenerate", "answer"}
  PROVE  AccountsInv'
BY IdleOK, RequestStep DEF Fails, history, AccountsInv, TypeOK

LEMMA FailRequestInv ==
  ASSUME AccountsInv, NEW p \in Handlers, FailRequest(p) PROVE AccountsInv'
<1>1. request[p].cookie # None => request[p].cookie \in Tokens
  BY DEF AccountsInv, TypeOK, RequestType
<1>2. /\ cut \subseteq cut' /\ cut' \subseteq Tokens
      /\ request[p].cookie # None /\ request[p].pc \in {"regenerate", "answer"} =>
           request[p].cookie \in cut'
  BY <1>1 DEF FailRequest, AccountsInv, TypeOK
<1> QED  BY <1>2, IdleOK, RequestStep DEF FailRequest, Fails

LEMMA ArriveInv ==
  ASSUME AccountsInv, NEW p \in Handlers, NEW c \in Clients, NEW f \in Forms,
         HandleUserSignup(p, c, f) \/ HandleUserLogin(p, c, f)
  PROVE  AccountsInv'
<1> PICK pc \in {"createUser", "authenticate"} : Goes(p, Request(pc, c, f, None))
  BY DEF HandleUserSignup, HandleUserLogin
<1> DEFINE r == Request(pc, c, f, None)
<1>1. r \in RequestType /\ RequestOK(r)
  BY AccountsAssumption DEF Request, RequestType, RequestOK, Pcs
<1>2. r.token = None /\ r.user = None /\ r.cookie = None
  BY DEF Request
<1>3. Goes(p, r) /\ request[p].pc = "idle" /\ UNCHANGED <<clock, db, cookies, history>>
  BY DEF HandleUserSignup, HandleUserLogin
<1> HIDE DEF r
<1> QED  BY <1>1, <1>2, <1>3, RequestStep DEF history, AccountsInv, TypeOK

LEMMA HandleRefreshTokenInv ==
  ASSUME AccountsInv, NEW p \in Handlers, NEW c \in Clients, HandleRefreshToken(p, c)
  PROVE  AccountsInv'
<1> DEFINE t == cookies[c].token
           r == Request("validate", c, None, t)
<1>1. t \in Tokens /\ t # None /\ owner[t] # None
  BY DEF HandleRefreshToken, AccountsInv, TypeOK, CookiesAgree
<1>2. /\ \A d \in Clients : d # c => cookies[d].token # t
      /\ \A q \in Handlers : request[q].token # t
  BY <1>1 DEF AccountsInv, TokensApart
<1>3. r \in RequestType /\ RequestOK(r)
  BY <1>1, AccountsAssumption DEF Request, RequestType, RequestOK, Pcs
<1>4. r.token = None /\ r.user = None /\ r.cookie = t /\ r.client = c
  BY DEF Request
<1>5. Goes(p, r) /\ request[p].pc = "idle" /\ UNCHANGED <<clock, db, cookies, history>>
  BY DEF HandleRefreshToken
<1> HIDE DEF r, t
<1> QED  BY <1>2, <1>3, <1>4, <1>5, RequestStep DEF history, AccountsInv, TypeOK

(* The handler of request r has read who it is for.                        *)
LEMMA KnowingInv ==
  ASSUME AccountsInv, NEW p \in Handlers, NEW pc \in {"generate", "rotate", "revoke"},
         NEW a \in Ids, NEW b \in Ids \cup {None},
         users[a] # None,
         request[p].pc \notin {"idle", "regenerate", "answer"},
         pc = "generate" => /\ request[p].form # None /\ b = a
                            /\ users[a].email = request[p].form.email,
         pc \in {"rotate", "revoke"} => /\ request[p].cookie # None
                                        /\ request[p].form = None,
         pc = "rotate" => a = owner[request[p].cookie],
         pc = "revoke" => a = b,
         Goes(p, Knowing(request[p], pc, a, b, None)),
         UNCHANGED <<clock, db, cookies, history>>
  PROVE  AccountsInv'
<1> DEFINE r == Knowing(request[p], pc, a, b, None)
<1>1. request[p] \in RequestType /\ RequestOK(request[p]) /\ None \notin Ids
  BY AccountsAssumption DEF AccountsInv, TypeOK
<1>2. r \in RequestType /\ RequestOK(r)
  BY <1>1 DEF Knowing, RequestType, RequestOK, Pcs
<1>3. /\ r.token = None /\ r.user = a /\ r.form = request[p].form
      /\ r.cookie = request[p].cookie /\ r.client = request[p].client
  BY DEF Knowing
<1>4. request[p].cookie # None =>
        /\ \A c \in Clients : cookies[c].token = request[p].cookie => request[p].client = c
        /\ \A q \in Handlers : request[q].token # request[p].cookie
  BY DEF AccountsInv, TokensApart
<1>5. request[p].form # None => users[a].email = request[p].form.email
  OBVIOUS
<1>6. cut \in SUBSET Tokens
  BY DEF AccountsInv, TypeOK
<1> HIDE DEF r
<1> QED  BY <1>2, <1>3, <1>4, <1>5, <1>6, RequestStep DEF history, r

LEMMA AuthenticateUserInv ==
  ASSUME AccountsInv, NEW p \in Handlers, AuthenticateUser(p) PROVE AccountsInv'
<1>1. RequestOK(request[p]) /\ UNCHANGED <<clock, db, cookies, history>>
  BY DEF AccountsInv, AuthenticateUser
<1>2. CASE Fails(p)
  BY <1>1, <1>2, FailInv DEF AuthenticateUser
<1>3. ASSUME NEW a \in Ids, Authenticated(a, request[p].form),
             Goes(p, Knowing(request[p], "generate", a, a, None))
      PROVE  AccountsInv'
  BY <1>1, <1>3, KnowingInv DEF AuthenticateUser, Authenticated, RequestOK
<1> QED  BY <1>2, <1>3 DEF AuthenticateUser

LEMMA ValidateRefreshTokenInv ==
  ASSUME AccountsInv, NEW p \in Handlers, ValidateRefreshToken(p) PROVE AccountsInv'
<1> DEFINE t == request[p].cookie
<1>1. RequestOK(request[p]) /\ UNCHANGED <<clock, db, cookies, history>>
  BY DEF AccountsInv, ValidateRefreshToken
<1>2. t \in Tokens /\ owner[t] \in Ids /\ users[owner[t]] # None
  BY <1>1 DEF AccountsInv, TypeOK, RequestType, RequestOK, ValidateRefreshToken
<1>3. CASE Valid(t)
  BY <1>1, <1>2, <1>3, KnowingInv DEF ValidateRefreshToken, RequestOK
<1>4. CASE ~Valid(t)
  BY <1>1, <1>4, FailInv DEF ValidateRefreshToken
<1> QED  BY <1>3, <1>4

LEMMA RotateRefreshTokenInv ==
  ASSUME AccountsInv, NEW p \in Handlers, RotateRefreshToken(p) PROVE AccountsInv'
<1> DEFINE t == request[p].cookie
<1>1. RequestOK(request[p]) /\ UNCHANGED <<clock, db, cookies, history>>
  BY DEF AccountsInv, RotateRefreshToken
<1>2. t \in Tokens /\ owner[t] \in Ids /\ users[owner[t]] # None /\ request[p].user = owner[t]
  BY <1>1 DEF AccountsInv, TypeOK, RequestType, RequestOK, RotateRefreshToken
<1>3. CASE Valid(t)
  BY <1>1, <1>2, <1>3, KnowingInv DEF RotateRefreshToken, RequestOK
<1>4. CASE ~Valid(t)
  BY <1>1, <1>4, FailInv DEF RotateRefreshToken
<1> QED  BY <1>3, <1>4

LEMMA CreateUserInv ==
  ASSUME AccountsInv, NEW p \in Handlers, CreateUser(p) PROVE AccountsInv'
<1> DEFINE f == request[p].form
<1>1. RequestOK(request[p]) /\ f \in Forms
  BY DEF AccountsInv, TypeOK, RequestType, RequestOK, CreateUser
<1>2. CASE Fails(p) /\ UNCHANGED users
  BY <1>2, FailInv DEF CreateUser, db
<1>3. ASSUME NEW a \in Ids, ~Taken(f), users[a] = None, users' = [users EXCEPT ![a] = f],
             Goes(p, Knowing(request[p], "generate", a, a, None))
      PROVE  AccountsInv'
  <2> DEFINE r == Knowing(request[p], "generate", a, a, None)
  <2>1. UNCHANGED <<clock, owner, expiresAt, revoked, cookies, rotated, cut>>
    BY DEF CreateUser, history
  <2>2. users'[a] = f /\ f # None /\ \A b \in Ids : b # a => users'[b] = users[b]
    BY <1>1, <1>3, AccountsAssumption DEF AccountsInv, TypeOK
  <2>3. /\ r \in RequestType /\ r.token = None /\ r.user = a /\ r.form = f
        /\ r.cookie = request[p].cookie /\ r.client = request[p].client
        /\ r.pc = "generate" /\ r.holder = a
    BY DEF Knowing, AccountsInv, TypeOK, RequestType, Pcs
  <2>4. request[p].pc = "createUser" /\ request[p].token = None
    BY <1>1 DEF CreateUser, RequestOK
  <2> HIDE DEF r
  <2>5. request'[p] = r /\ \A q \in Handlers : q # p => request'[q] = request[q]
    BY <1>3 DEF Goes, r, AccountsInv, TypeOK
  <2>6. TypeOK'
    BY <1>1, <1>3, <2>1, <2>3 DEF Goes, r, AccountsInv, TypeOK
  <2>7. SignUpExclusive'
    <3>1. \A b \in Ids : users[b] # None => users[b].email # f.email /\ users[b].name # f.name
      BY <1>3 DEF Taken
    <3>2. (\A b, c \in Ids : b # c /\ users[b] # None /\ users[c] # None =>
             users[b].email # users[c].email /\ users[b].name # users[c].name)'
      BY <2>2, <3>1 DEF AccountsInv, SignUpExclusive
    <3>3. \A q \in Handlers : q # p /\ request[q].user # None => request[q].user # a
      BY <1>3 DEF AccountsInv, RequestOK
    <3>4. (\A q \in Handlers : request[q].user # None /\ request[q].form # None =>
             /\ users[request[q].user] # None
             /\ users[request[q].user].email = request[q].form.email)'
      <4> SUFFICES ASSUME NEW q \in Handlers, request'[q].user # None, request'[q].form # None
                   PROVE  /\ users'[request'[q].user] # None
                          /\ users'[request'[q].user].email = request'[q].form.email
        OBVIOUS
      <4>1. CASE q = p
        BY <2>2, <2>3, <2>5, <4>1
      <4>2. CASE q # p
        <5>1. request'[q] = request[q] /\ request[q].user \in Ids /\ request[q].user # a
          BY <2>5, <3>3, <4>2 DEF AccountsInv, TypeOK, RequestType
        <5> QED  BY <2>2, <5>1 DEF AccountsInv, SignUpExclusive
      <4> QED  BY <4>1, <4>2
    <3> QED  BY <3>2, <3>4 DEF SignUpExclusive
  <2>8. CookieUsable'
    BY <2>1, <2>4, <2>5 DEF AccountsInv, CookieUsable
  <2>9. CookiesAgree'
    BY <2>1 DEF AccountsInv, CookiesAgree
  <2>10. (\A q \in Handlers : RequestOK(request[q]))'
    <3> SUFFICES ASSUME NEW q \in Handlers PROVE RequestOK(request[q])'
      OBVIOUS
    <3>1. CASE q = p
      BY <1>1, <2>1, <2>2, <2>3, <2>4, <2>5, <3>1, AccountsAssumption DEF RequestOK
    <3>2. CASE q # p
      <4>1. request'[q] = request[q] /\ RequestOK(request[q])
        BY <2>5, <3>2 DEF AccountsInv
      <4>2. request[q].user # None => request[q].user \in Ids /\ request[q].user # a
        BY <1>3, <4>1 DEF AccountsInv, TypeOK, RequestType, RequestOK
      <4> QED  BY <2>1, <2>2, <4>1, <4>2 DEF RequestOK
    <3> QED  BY <3>1, <3>2
  <2>11. TokensApart'
    BY <2>1, <2>3, <2>4, <2>5 DEF AccountsInv, TokensApart
  <2>12. (\A t \in Tokens : owner[t] # None => users[owner[t]] # None)'
    BY <2>1, <2>2 DEF AccountsInv, TypeOK
  <2> QED  BY <2>1, <2>6, <2>7, <2>8, <2>9, <2>10, <2>11, <2>12 DEF AccountsInv
<1> QED  BY <1>2, <1>3 DEF CreateUser

LEMMA RevokeByTokenHashInv ==
  ASSUME AccountsInv, NEW p \in Handlers, RevokeByTokenHash(p) PROVE AccountsInv'
<1> DEFINE t == request[p].cookie
           r == Knowing(request[p], "regenerate", request[p].user, request[p].holder, None)
<1>1. /\ request[p] \in RequestType /\ RequestOK(request[p]) /\ request[p].pc = "revoke"
      /\ t \in Tokens /\ owner[t] # None /\ t # None
  BY DEF AccountsInv, TypeOK, RequestType, RequestOK, RevokeByTokenHash
<1>2. /\ revoked' = revoked \cup {t}
      /\ UNCHANGED <<clock, users, owner, expiresAt, cookies, rotated, cut>>
  BY DEF RevokeByTokenHash, Revocable, history
<1>3. /\ r \in RequestType /\ r.token = None /\ r.user = request[p].user
      /\ r.form = request[p].form /\ r.cookie = t /\ r.client = request[p].client
      /\ r.pc = "regenerate" /\ r.holder = request[p].holder
  BY <1>1 DEF Knowing, RequestType, Pcs
<1>4. Goes(p, r)
  BY DEF RevokeByTokenHash
<1> HIDE DEF r, t
<1>5. request'[p] = r /\ \A q \in Handlers : q # p => request'[q] = request[q]
  BY <1>4 DEF Goes, AccountsInv, TypeOK
<1>6. TypeOK'
  BY <1>1, <1>2, <1>3, <1>4 DEF Goes, AccountsInv, TypeOK
<1>7. SignUpExclusive'
  BY <1>2, <1>3, <1>5 DEF AccountsInv, SignUpExclusive
<1>8. CookieUsable'
  <2> SUFFICES ASSUME NEW c \in Clients, cookies[c].token # None,
                      cookies[c].token \in revoked', cookies[c].token \notin cut
               PROVE  \E q \in Handlers : /\ request'[q].cookie = cookies[c].token
                                          /\ request'[q].pc \in {"regenerate", "answer"}
    BY <1>2 DEF CookieUsable
  <2>1. CASE cookies[c].token = t
    BY <1>3, <1>5, <2>1
  <2>2. CASE cookies[c].token # t
    <3>1. PICK q \in Handlers : /\ request[q].cookie = cookies[c].token
                                /\ request[q].pc \in {"regenerate", "answer"}
      BY <1>2, <2>2 DEF AccountsInv, CookieUsable
    <3> QED  BY <1>1, <1>5, <3>1
  <2> QED  BY <2>1, <2>2
<1>9. CookiesAgree'
  BY <1>2 DEF AccountsInv, CookiesAgree
<1>10. (\A q \in Handlers : RequestOK(request[q]))'
  BY <1>1, <1>2, <1>3, <1>5 DEF AccountsInv, RequestOK
<1>11. TokensApart'
  <2>1. \A q \in Handlers : request[q].token # t
    BY <1>1 DEF AccountsInv, TokensApart, t
  <2> QED  BY <1>2, <1>3, <1>5, <2>1 DEF AccountsInv, TokensApart, t
<1> QED  BY <1>1, <1>2, <1>6, <1>7, <1>8, <1>9, <1>10, <1>11 DEF AccountsInv

LEMMA GenerateRefreshTokenInv ==
  ASSUME AccountsInv, NEW p \in Handlers, GenerateRefreshToken(p) PROVE AccountsInv'
<1> PICK t \in Tokens :
      /\ owner[t] = None
      /\ owner' = [owner EXCEPT ![t] = request[p].holder]
      /\ expiresAt' = [expiresAt EXCEPT ![t] = clock + TTL]
      /\ Goes(p, Knowing(request[p], "answer", request[p].user, request[p].holder, t))
  BY DEF GenerateRefreshToken
<1> DEFINE r == Knowing(request[p], "answer", request[p].user, request[p].holder, t)
<1>1. /\ request[p] \in RequestType /\ RequestOK(request[p])
      /\ request[p].pc \in {"generate", "regenerate"}
      /\ request[p].user \in Ids /\ request[p].holder = request[p].user
  BY DEF AccountsInv, TypeOK, RequestType, RequestOK, GenerateRefreshToken
<1>2. UNCHANGED <<clock, users, revoked, cookies, rotated, cut>>
  BY DEF GenerateRefreshToken, history
<1>3. /\ r \in RequestType /\ r.token = t /\ r.user = request[p].user
      /\ r.form = request[p].form /\ r.cookie = request[p].cookie
      /\ r.client = request[p].client /\ r.pc = "answer" /\ r.holder = request[p].user
  BY <1>1 DEF Knowing, RequestType, Pcs
<1> HIDE DEF r
<1>4. request'[p] = r /\ \A q \in Handlers : q # p => request'[q] = request[q]
  BY DEF Goes, r, AccountsInv, TypeOK
<1>5. TypeOK'
  BY <1>1, <1>2, <1>3, AccountsAssumption DEF Goes, r, AccountsInv, TypeOK
<1>6. /\ owner'[t] = request[p].user /\ t # None
      /\ \A s \in Tokens : owner[s] # None => s # t /\ owner'[s] = owner[s]
  BY <1>1, AccountsAssumption DEF AccountsInv, TypeOK
<1>7. /\ \A q \in Handlers : request[q].cookie # t /\ request[q].token # t
      /\ \A c \in Clients : cookies[c].token # t
      /\ t \notin revoked
  BY <1>6, AccountsAssumption DEF AccountsInv, RequestOK, CookiesAgree, TypeOK, RequestType
<1>8. SignUpExclusive'
  BY <1>2, <1>3, <1>4 DEF AccountsInv, SignUpExclusive
<1>9. CookieUsable'
  <2> SUFFICES ASSUME NEW c \in Clients, cookies[c].token # None,
                      cookies[c].token \in revoked, cookies[c].token \notin cut
               PROVE  \E q \in Handlers : /\ request'[q].cookie = cookies[c].token
                                          /\ request'[q].pc \in {"regenerate", "answer"}
    BY <1>2 DEF CookieUsable
  <2>1. PICK q \in Handlers : /\ request[q].cookie = cookies[c].token
                              /\ request[q].pc \in {"regenerate", "answer"}
    BY DEF AccountsInv, CookieUsable
  <2> QED  BY <1>3, <1>4, <2>1
<1>10. CookiesAgree'
  BY <1>2, <1>6 DEF AccountsInv, CookiesAgree, TypeOK
<1>11. (\A q \in Handlers : RequestOK(request[q]))'
  <2> SUFFICES ASSUME NEW q \in Handlers PROVE RequestOK(request[q])'
    OBVIOUS
  <2>1. CASE q = p
    BY <1>1, <1>2, <1>3, <1>4, <1>6, <2>1, AccountsAssumption
    DEF RequestOK, RequestType
  <2>2. CASE q # p
    <3>1. request'[q] = request[q] /\ RequestOK(request[q]) /\ request[q] \in RequestType
      BY <1>4, <2>2 DEF AccountsInv, TypeOK
    <3>2. /\ request[q].user # None => request[q].user \in Ids
          /\ request[q].token # None => owner[request[q].token] # None
      BY <3>1, AccountsAssumption DEF RequestType, RequestOK
    <3> QED  BY <1>2, <1>6, <3>1, <3>2 DEF RequestOK, RequestType
  <2> QED  BY <2>1, <2>2
<1>12. TokensApart'
  BY <1>2, <1>3, <1>4, <1>7 DEF AccountsInv, TokensApart
<1>13. (\A s \in revoked : owner[s] # None)'
  BY <1>2, <1>6 DEF AccountsInv, TypeOK
<1>14. (\A s \in Tokens : owner[s] # None => users[owner[s]] # None)'
  <2>1. users[request[p].user] # None
    BY <1>1, AccountsAssumption DEF RequestOK
  <2> QED  BY <1>2, <1>6, <2>1 DEF AccountsInv, TypeOK
<1> QED  BY <1>2, <1>5, <1>8, <1>9, <1>10, <1>11, <1>12, <1>13, <1>14 DEF AccountsInv

LEMMA SetAuthCookiesInv ==
  ASSUME AccountsInv, NEW p \in Handlers, SetAuthCookies(p) PROVE AccountsInv'
<1> DEFINE r == request[p]
<1>1. /\ r \in RequestType /\ RequestOK(r) /\ r.pc = "answer"
      /\ r.client \in Clients /\ r.token # None /\ r.user # None /\ owner[r.token] = r.user
  BY DEF AccountsInv, TypeOK, RequestType, RequestOK, SetAuthCookies
<1>2. /\ cookies' = [cookies EXCEPT ![r.client] = [user |-> r.user, token |-> r.token]]
      /\ rotated' = IF r.cookie = None THEN rotated ELSE rotated \cup {r.cookie}
      /\ UNCHANGED <<clock, users, owner, expiresAt, revoked, cut>>
  BY DEF SetAuthCookies, db
<1>3. Goes(p, Idle)
  BY DEF SetAuthCookies
<1>4. /\ request'[p] = Idle
      /\ \A q \in Handlers : q # p => request'[q] = request[q]
  BY <1>3 DEF Goes, AccountsInv, TypeOK
<1>5. /\ cookies'[r.client] = [user |-> r.user, token |-> r.token]
      /\ \A c \in Clients : c # r.client => cookies'[c] = cookies[c]
  BY <1>1, <1>2 DEF AccountsInv, TypeOK
<1>6. r.cookie # None => r.cookie \in revoked /\ r.cookie \in Tokens
  BY <1>1 DEF RequestOK, RequestType
<1>7. /\ r.token \notin revoked
      /\ \A c \in Clients : cookies[c].token # r.token
      /\ \A q \in Handlers : /\ request[q].cookie # r.token
                             /\ q # p => request[q].token # r.token
  BY <1>1 DEF AccountsInv, TokensApart
<1>8. TypeOK'
  BY <1>1, <1>2, <1>3, <1>6, IdleOK DEF Goes, AccountsInv, TypeOK, RequestType
<1>9. SignUpExclusive'
  BY <1>2, <1>4, IdleOK DEF AccountsInv, SignUpExclusive
<1>10. CookieUsable'
  <2> SUFFICES ASSUME NEW c \in Clients, cookies'[c].token # None,
                      cookies'[c].token \in revoked, cookies'[c].token \notin cut
               PROVE  \E q \in Handlers : /\ request'[q].cookie = cookies'[c].token
                                          /\ request'[q].pc \in {"regenerate", "answer"}
    BY <1>2 DEF CookieUsable
  <2>1. c # r.client /\ cookies'[c] = cookies[c]
    BY <1>5, <1>7
  <2>2. PICK q \in Handlers : /\ request[q].cookie = cookies[c].token
                              /\ request[q].pc \in {"regenerate", "answer"}
    BY <2>1 DEF AccountsInv, CookieUsable
  <2>3. q # p
    BY <2>1, <2>2 DEF AccountsInv, TokensApart
  <2> QED  BY <1>4, <2>1, <2>2, <2>3
<1>11. CookiesAgree'
  BY <1>1, <1>2, <1>5 DEF AccountsInv, CookiesAgree
<1>12. (\A q \in Handlers : RequestOK(request[q]))'
  BY <1>2, <1>4, IdleOK DEF AccountsInv, RequestOK
<1>13. TokensApart'
  <2>1. \A q \in Handlers : request'[q].token # None =>
          /\ request'[q].token \notin revoked
          /\ \A c \in Clients : cookies'[c].token # request'[q].token
          /\ \A s \in Handlers : /\ request'[s].cookie # request'[q].token
                                 /\ s # q => request'[s].token # request'[q].token
    <3> SUFFICES ASSUME NEW q \in Handlers, request'[q].token # None
                 PROVE  /\ request'[q].token \notin revoked
                        /\ \A c \in Clients : cookies'[c].token # request'[q].token
                        /\ \A s \in Handlers : /\ request'[s].cookie # request'[q].token
                                               /\ s # q => request'[s].token # request'[q].token
      OBVIOUS
    <3>1. q # p /\ request'[q] = request[q]
      BY <1>4, IdleOK
    <3>2. /\ request[q].token \notin revoked
          /\ \A c \in Clients : cookies[c].token # request[q].token
          /\ \A s \in Handlers : /\ request[s].cookie # request[q].token
                                 /\ s # q => request[s].token # request[q].token
      BY <3>1 DEF AccountsInv, TokensApart
    <3>3. \A c \in Clients : cookies'[c].token # request[q].token
      BY <1>5, <1>7, <3>1, <3>2
    <3> QED  BY <1>4, <3>1, <3>2, <3>3, IdleOK
  <2>2. \A c \in Clients : cookies'[c].token # None =>
          /\ \A d \in Clients : d # c => cookies'[d].token # cookies'[c].token
          /\ \A q \in Handlers :
               request'[q].cookie = cookies'[c].token => request'[q].client = c
    <3> SUFFICES ASSUME NEW c \in Clients, cookies'[c].token # None
                 PROVE  /\ \A d \in Clients : d # c => cookies'[d].token # cookies'[c].token
                        /\ \A q \in Handlers :
                             request'[q].cookie = cookies'[c].token => request'[q].client = c
      OBVIOUS
    <3>1. CASE c = r.client
      BY <1>4, <1>5, <1>7, <3>1, IdleOK
    <3>2. CASE c # r.client
      BY <1>4, <1>5, <1>7, <3>2, IdleOK DEF AccountsInv, TokensApart
    <3> QED  BY <3>1, <3>2
  <2> QED  BY <1>2, <2>1, <2>2 DEF TokensApart
<1>14. (rotated \subseteq revoked)'
  BY <1>2, <1>6 DEF AccountsInv
<1> QED  BY <1>2, <1>8, <1>9, <1>10, <1>11, <1>12, <1>13, <1>14 DEF AccountsInv

LEMMA TickInv == ASSUME AccountsInv, Tick PROVE AccountsInv'
<1>1. /\ clock' \in Nat
      /\ UNCHANGED <<users, owner, expiresAt, revoked, cookies, request, rotated, cut>>
  BY DEF Tick, db, history, AccountsInv, TypeOK
<1> QED  BY <1>1 DEF AccountsInv, TypeOK, SignUpExclusive, CookieUsable, CookiesAgree,
                     RequestOK, TokensApart

LEMMA StutterInv == ASSUME AccountsInv, UNCHANGED vars PROVE AccountsInv'
BY DEF vars, db, history, AccountsInv, TypeOK, SignUpExclusive, CookieUsable, CookiesAgree,
       RequestOK, TokensApart

LEMMA AccountsNext == AccountsInv /\ [Next]_vars => AccountsInv'
<1> SUFFICES ASSUME AccountsInv, [Next]_vars PROVE AccountsInv'
  OBVIOUS
<1>1. CASE Tick
  BY <1>1, TickInv
<1>2. ASSUME NEW p \in Handlers, Handle(p)
      PROVE  AccountsInv'
  BY <1>2, ArriveInv, HandleRefreshTokenInv, CreateUserInv, AuthenticateUserInv,
     ValidateRefreshTokenInv, RotateRefreshTokenInv, RevokeByTokenHashInv,
     GenerateRefreshTokenInv, SetAuthCookiesInv, FailRequestInv DEF Handle
<1>3. CASE UNCHANGED vars
  BY <1>3, StutterInv
<1> QED  BY <1>1, <1>2, <1>3 DEF Next

-----------------------------------------------------------------------------
(* The inductive invariant: where each refresh token is known, and what    *)
(* the handlers know.                                                      *)
THEOREM AccountsInvariant == Spec => []AccountsInv
<1>1. Init => AccountsInv
  BY AccountsInit
<1>2. AccountsInv /\ [Next]_vars => AccountsInv'
  BY AccountsNext
<1> QED  BY <1>1, <1>2, PTL DEF Spec

(* Of clashing sign-ups one creates an account.                            *)
THEOREM AccountsExclusive == Spec => []SignUpExclusive
<1>1. AccountsInv => SignUpExclusive
  BY DEF AccountsInv
<1> QED  BY <1>1, AccountsInvariant, PTL

(* A client's refresh token is not revoked but by a refresh of it that is  *)
(* not answered yet, or stopped half-way.                                  *)
THEOREM AccountsKeepCookies == Spec => []CookieUsable
<1>1. AccountsInv => CookieUsable
  BY DEF AccountsInv
<1> QED  BY <1>1, AccountsInvariant, PTL

(* A refresh is not validated after another one of its cookie was answered.*)
THEOREM AccountsRotateOnce == Spec => RotatedStaysRotated
<1> DEFINE Step == \A p \in Handlers :
                     request[p].pc = "validate" /\ request'[p].pc = "rotate" =>
                       request[p].cookie \notin rotated
<1>1. AccountsInv /\ AccountsInv' /\ [Next]_vars => [Step]_vars
  <2> SUFFICES ASSUME AccountsInv, Next,
                      NEW p \in Handlers,
                      request[p].pc = "validate", request'[p].pc = "rotate"
               PROVE  request[p].cookie \notin rotated
    OBVIOUS
  <2>1. PICK q \in Handlers : Handle(q)
    BY DEF Next, Tick
  <2>2. \E r : Goes(q, r)
    BY <2>1, Zenon DEF Handle, HandleUserSignup, HandleUserLogin, HandleRefreshToken, CreateUser,
       AuthenticateUser, ValidateRefreshToken, RotateRefreshToken, RevokeByTokenHash,
       GenerateRefreshToken, SetAuthCookies, FailRequest, Fails
  <2>3. q = p
    BY <2>2 DEF Goes, AccountsInv, TypeOK
  <2>4. CASE ValidateRefreshToken(p)
    <3>1. request'[p] = IF Valid(request[p].cookie)
                        THEN Knowing(request[p], "rotate", owner[request[p].cookie], None, None)
                        ELSE Idle
      BY <2>4 DEF ValidateRefreshToken, Goes, Fails, AccountsInv, TypeOK
    <3>2. Valid(request[p].cookie)
      BY <3>1, IdleOK
    <3> QED  BY <3>2 DEF Valid, AccountsInv
  <2>5. CASE FailRequest(p)
    BY <2>5, IdleOK DEF FailRequest, Fails, Goes, AccountsInv, TypeOK
  <2> QED  BY <2>1, <2>3, <2>4, <2>5 DEF Handle, HandleUserSignup, HandleUserLogin,
              HandleRefreshToken, CreateUser, AuthenticateUser, RotateRefreshToken,
              RevokeByTokenHash, GenerateRefreshToken, SetAuthCookies
<1> QED  BY <1>1, AccountsInvariant, PTL DEF Spec, RotatedStaysRotated

-----------------------------------------------------------------------------
(* The statements implement Sessions *)

LEMMA StandingValues ==
  ASSUME AccountsInv, NEW c \in Clients
  PROVE  /\ Standing(c) \in SUBSET Ids
         /\ cookies[c].user \in Standing(c) \cup {None}
BY DEF AccountsInv, TypeOK, Standing

(* Requests end: no client gains standing, and every answer has kept it.   *)
LEMMA NoGain ==
  ASSUME AccountsInv, AccountsInv', users' = users,
         \A c \in Clients : Sent(c)' \subseteq Sent(c) /\ Standing(c)' \subseteq Standing(c)
  PROVE  Session!RequestsEnd
<1>1. \A c \in Clients : /\ Standing(c)' \in SUBSET Ids
                         /\ cookies'[c].user \in Standing(c)' \cup {None}
  BY DEF AccountsInv, TypeOK, Standing
<1>2. \A c \in Clients : Sent(c)' \in SUBSET Forms
  <2>1. \A p \in Handlers : request'[p].form \in Forms \cup {None}
    BY DEF AccountsInv, TypeOK, RequestType
  <2> QED  BY <2>1 DEF Sent
<1> QED  BY <1>1, <1>2 DEF Session!RequestsEnd

(* A handler goes on to r with the form of its request, or with none.      *)
LEMMA NothingSent ==
  ASSUME AccountsInv, NEW p \in Handlers, NEW r \in RequestType, Goes(p, r),
         r.form = None \/ (r.form = request[p].form /\ r.client = request[p].client)
  PROVE  \A c \in Clients : Sent(c)' \subseteq Sent(c)
<1> SUFFICES ASSUME NEW c \in Clients, NEW f, f \in Sent(c)'
             PROVE  f \in Sent(c)
  OBVIOUS
<1>1. f # None
  BY DEF Sent
<1>2. /\ request'[p] = r
      /\ \A q \in Handlers : q # p => request'[q] = request[q]
  BY DEF Goes, AccountsInv, TypeOK
<1> QED  BY <1>1, <1>2 DEF Sent

(* A handler goes on to r, and what r knows was known before.              *)
LEMMA NothingLearned ==
  ASSUME AccountsInv, NEW p \in Handlers, NEW r \in RequestType, Goes(p, r),
         \A t \in Tokens : owner[t] # None => owner'[t] = owner[t],
         NEW D \in SUBSET Clients, \A c \in Clients \ D : cookies'[c] = cookies[c],
         \A c \in D : cookies'[c].user \in Standing(c) \cup {None},
         r.client \in Clients =>
           /\ r.user \in Standing(r.client) \cup {None}
           /\ r.cookie # None => owner'[r.cookie] \in Standing(r.client) \cup {None}
  PROVE  \A c \in Clients : Standing(c)' \subseteq Standing(c)
<1> SUFFICES ASSUME NEW c \in Clients, NEW a \in Ids, a \in Standing(c)'
             PROVE  a \in Standing(c)
  BY DEF Standing
<1>1. a # None
  BY AccountsAssumption
<1>2. /\ request'[p] = r
      /\ \A q \in Handlers : q # p => request'[q] = request[q]
  BY DEF Goes, AccountsInv, TypeOK
<1>3. CASE cookies'[c].user = a
  BY <1>1, <1>3 DEF Standing
<1>4. ASSUME NEW q \in Handlers, request'[q].client = c,
             \/ request'[q].user = a
             \/ request'[q].cookie # None /\ owner'[request'[q].cookie] = a
      PROVE  a \in Standing(c)
  <2>1. CASE q = p
    BY <1>1, <1>2, <1>4, <2>1
  <2>2. CASE q # p
    <3>1. request'[q] = request[q] /\ request[q] \in RequestType /\ RequestOK(request[q])
      BY <1>2, <2>2 DEF AccountsInv, TypeOK
    <3>2. request[q].cookie # None => owner'[request[q].cookie] = owner[request[q].cookie]
      BY <3>1 DEF RequestOK, RequestType
    <3> QED  BY <1>4, <3>1, <3>2 DEF Standing, Knows
  <2> QED  BY <2>1, <2>2
<1> QED  BY <1>3, <1>4 DEF Standing, Knows

(* What a request knows gives its client standing.                         *)
LEMMA KnownStanding ==
  ASSUME AccountsInv, NEW p \in Handlers, request[p].client \in Clients
  PROVE  /\ request[p].user \in Standing(request[p].client) \cup {None}
         /\ request[p].cookie # None =>
              owner[request[p].cookie] \in Standing(request[p].client)
<1>1. request[p] \in RequestType /\ RequestOK(request[p])
  BY DEF AccountsInv, TypeOK
<1>2. request[p].cookie # None => owner[request[p].cookie] \in Ids
  BY <1>1 DEF AccountsInv, TypeOK, RequestOK, RequestType
<1> QED  BY <1>1, <1>2 DEF Standing, Knows, RequestType

(* A step of one handler by which its client learns of no account.         *)
LEMMA NobodyAnswered ==
  ASSUME AccountsInv, AccountsInv', NEW p \in Handlers, NEW r \in RequestType, Goes(p, r),
         UNCHANGED <<users, cookies>>,
         r.form = None \/ (r.form = request[p].form /\ r.client = request[p].client),
         \A t \in Tokens : owner[t] # None => owner'[t] = owner[t],
         r.client \in Clients =>
           /\ r.user \in Standing(r.client) \cup {None}
           /\ r.cookie # None => owner'[r.cookie] \in Standing(r.client) \cup {None}
  PROVE  Session!Next
<1>1. \A c \in Clients : Standing(c)' \subseteq Standing(c)
  <2>1. /\ {} \in SUBSET Clients
        /\ \A c \in Clients \ {} : cookies'[c] = cookies[c]
        /\ \A c \in {} : cookies'[c].user \in Standing(c) \cup {None}
    OBVIOUS
  <2> QED  BY <2>1, NothingLearned
<1>2. Session!RequestsEnd
  BY <1>1, NothingSent, NoGain
<1> QED  BY <1>2 DEF Session!Next, Session!Unanswered

LEMMA IdleSession ==
  ASSUME AccountsInv, AccountsInv', NEW p \in Handlers, Fails(p),
         UNCHANGED <<users, owner, cookies>>
  PROVE  Session!Next
<1>1. Idle \in RequestType /\ Idle.client = None /\ Idle.form = None
  BY IdleOK DEF Idle, Request
<1> QED  BY <1>1, NobodyAnswered, AccountsAssumption DEF Fails

(* A request goes on with its client and its cookie.                       *)
LEMMA KnowingSession ==
  ASSUME AccountsInv, AccountsInv', NEW p \in Handlers, NEW r, Goes(p, r),
         r.client = request[p].client, r.form = request[p].form,
         r.cookie = request[p].cookie,
         \/ r.user = request[p].user
         \/ request[p].cookie # None /\ r.user = owner[request[p].cookie],
         UNCHANGED <<users, cookies>>,
         \A s \in Tokens : owner[s] # None => owner'[s] = owner[s]
  PROVE  Session!Next
<1>1. r \in RequestType
  BY DEF Goes, AccountsInv, TypeOK
<1>2. request[p].cookie # None => owner'[request[p].cookie] = owner[request[p].cookie]
  BY DEF AccountsInv, TypeOK, RequestType, RequestOK
<1> QED  BY <1>1, <1>2, KnownStanding, NobodyAnswered

(* A client gains standing for account a.                                  *)
LEMMA AdmitSession ==
  ASSUME AccountsInv, AccountsInv', NEW p \in Handlers, NEW a \in Ids,
         request[p].pc \in {"createUser", "authenticate"},
         Goes(p, Knowing(request[p], "generate", a, a, None)),
         UNCHANGED <<owner, cookies>>
  PROVE  /\ request[p].client \in Clients /\ request[p].form \in Sent(request[p].client)
         /\ Session!Admit(request[p].client, a)
<1> DEFINE r == Knowing(request[p], "generate", a, a, None)
           d == request[p].client
<1>1. /\ request[p].user = None /\ request[p].cookie = None /\ d \in Clients
      /\ None \notin Ids
  BY AccountsAssumption DEF AccountsInv, TypeOK, RequestType, RequestOK
<1>2. r.client = d /\ r.form = request[p].form /\ r.cookie = None /\ r.user = a
  BY <1>1 DEF Knowing
<1>3. /\ request'[p] = r
      /\ \A q \in Handlers : q # p => request'[q] = request[q]
  BY DEF Goes, AccountsInv, TypeOK
<1> HIDE DEF r, d
<1>4. ASSUME NEW c \in Clients, NEW x \in Ids
      PROVE  x \in Standing(c)' <=> x \in Standing(c) \/ (c = d /\ x = a)
  <2>1. (\E q \in Handlers : request'[q].client = c /\ Knows(request[q], x)')
        <=> \/ \E q \in Handlers : request[q].client = c /\ Knows(request[q], x)
            \/ c = d /\ x = a
    BY <1>1, <1>2, <1>3 DEF Knows, d
  <2> QED  BY <2>1 DEF Standing
<1>5. \A c \in Clients : Standing(c) \subseteq Ids /\ Standing(c)' \subseteq Ids
  BY DEF Standing
<1>6. ASSUME NEW c \in Clients
      PROVE  Standing(c)' = IF c = d THEN Standing(d) \cup {a} ELSE Standing(c)
  <2>1. \A x \in Ids : x \in Standing(c)' <=> x \in Standing(c) \/ (c = d /\ x = a)
    BY <1>4
  <2>2. Standing(c) \subseteq Ids /\ Standing(c)' \subseteq Ids
    BY <1>5
  <2>3. CASE c = d
    <3>1. \A x : x \in Standing(c)' <=> x \in Standing(c) \cup {a}
      BY <2>1, <2>2, <2>3
    <3> QED  BY <2>3, <3>1
  <2>4. CASE c # d
    BY <2>1, <2>2, <2>4
  <2> QED  BY <2>3, <2>4
<1>7. [c \in Clients |-> Standing(c)]' = [[c \in Clients |-> Standing(c)] EXCEPT ![d] = @ \cup {a}]
  BY <1>1, <1>6
<1>8. UNCHANGED [c \in Clients |-> cookies[c].user]
  OBVIOUS
<1>9. \A c \in Clients : Sent(c)' = Sent(c)
  BY <1>2, <1>3 DEF Sent, d
<1>10. UNCHANGED [c \in Clients |-> Sent(c)]
  BY <1>9
<1>11. request[p].form \in Sent(d)
  BY <1>1 DEF d, Sent, AccountsInv, TypeOK, RequestType, RequestOK
<1> QED  BY <1>1, <1>7, <1>8, <1>10, <1>11 DEF Session!Admit, d

(* A request arrives with a form.                                          *)
LEMMA ArriveSession ==
  ASSUME AccountsInv, AccountsInv', NEW p \in Handlers, NEW c \in Clients, NEW f \in Forms,
         HandleUserSignup(p, c, f) \/ HandleUserLogin(p, c, f)
  PROVE  Session!Next
<1> PICK pc \in {"createUser", "authenticate"} : Goes(p, Request(pc, c, f, None))
  BY DEF HandleUserSignup, HandleUserLogin
<1> DEFINE r == Request(pc, c, f, None)
<1>1. r.client = c /\ r.form = f /\ r.user = None /\ r.cookie = None
  BY DEF Request
<1>2. UNCHANGED <<users, owner, cookies>> /\ request[p] = Idle
  BY DEF HandleUserSignup, HandleUserLogin, db, AccountsInv, RequestOK
<1>3. request'[p] = r /\ \A q \in Handlers : q # p => request'[q] = request[q]
  BY DEF Goes, AccountsInv, TypeOK
<1> HIDE DEF r
<1>4. Idle.user = None /\ Idle.cookie = None /\ Idle.form = None /\ None \notin Ids \cup Forms
  BY IdleOK, AccountsAssumption
<1>5. \A d \in Clients : Standing(d)' = Standing(d)
  <2>1. \A q \in Handlers, d \in Clients, a \in Ids :
          (request[q].client = d /\ Knows(request[q], a))'
            <=> request[q].client = d /\ Knows(request[q], a)
    BY <1>1, <1>2, <1>3, <1>4 DEF Knows
  <2> QED  BY <1>2, <2>1 DEF Standing
<1>6. \A d \in Clients : Sent(d)' = IF d = c THEN Sent(c) \cup {f} ELSE Sent(d)
  <2> SUFFICES ASSUME NEW d \in Clients
               PROVE  \A x : x \in Sent(d)' <=> x \in Sent(d) \/ (d = c /\ x = f)
    OBVIOUS
  <2> QED  BY <1>1, <1>2, <1>3, <1>4 DEF Sent
<1>7. /\ [d \in Clients |-> Sent(d)]' = [[d \in Clients |-> Sent(d)] EXCEPT ![c] = @ \cup {f}]
      /\ UNCHANGED <<[d \in Clients |-> Standing(d)], [d \in Clients |-> cookies[d].user]>>
  BY <1>2, <1>5, <1>6
<1>8. Session!Send(c, f)
  BY <1>2, <1>7 DEF Session!Send
<1> QED  BY <1>8 DEF Session!Next

(* A refresh arrives with its client's own cookie.                         *)
LEMMA HandleRefreshTokenSession ==
  ASSUME AccountsInv, AccountsInv', NEW p \in Handlers, NEW c \in Clients,
         HandleRefreshToken(p, c)
  PROVE  Session!Next
<1> DEFINE t == cookies[c].token
           r == Request("validate", c, None, t)
<1>1. t \in Tokens /\ t # None /\ owner[t] = cookies[c].user /\ owner[t] \in Standing(c) \cup {None}
  BY StandingValues DEF HandleRefreshToken, AccountsInv, TypeOK, CookiesAgree
<1>2. r \in RequestType /\ r.user = None /\ r.cookie = t /\ r.client = c /\ r.form = None
  BY <1>1 DEF Request, RequestType, Pcs
<1>3. Goes(p, r) /\ UNCHANGED <<users, owner, cookies>>
  BY DEF HandleRefreshToken, db
<1> HIDE DEF r, t
<1> QED  BY <1>1, <1>2, <1>3, NobodyAnswered

LEMMA CreateUserSession ==
  ASSUME AccountsInv, AccountsInv', NEW p \in Handlers, CreateUser(p)
  PROVE  Session!Next
<1> DEFINE f == request[p].form
<1>1. f \in Forms /\ UNCHANGED <<owner, cookies>> /\ request[p].pc = "createUser"
  BY DEF CreateUser, AccountsInv, TypeOK, RequestType, RequestOK
<1>2. CASE Fails(p) /\ UNCHANGED users
  BY <1>1, <1>2, IdleSession
<1>3. ASSUME NEW a \in Ids, ~Taken(f), users[a] = None, users' = [users EXCEPT ![a] = f],
             Goes(p, Knowing(request[p], "generate", a, a, None))
      PROVE  Session!Next
  <2>1. /\ request[p].client \in Clients /\ f \in Sent(request[p].client)
        /\ Session!Admit(request[p].client, a)
    BY <1>1, <1>3, AdmitSession
  <2>2. Session!Free(f)
    BY <1>3 DEF Taken, Session!Free
  <2>3. Session!Register(request[p].client, a, f)
    BY <1>3, <2>1, <2>2 DEF Session!Register
  <2> QED  BY <1>1, <2>1, <2>3 DEF Session!Next
<1> QED  BY <1>2, <1>3 DEF CreateUser

LEMMA AuthenticateUserSession ==
  ASSUME AccountsInv, AccountsInv', NEW p \in Handlers, AuthenticateUser(p)
  PROVE  Session!Next
<1> DEFINE f == request[p].form
<1>1. /\ f \in Forms /\ UNCHANGED <<users, owner, cookies>>
      /\ request[p].pc = "authenticate"
  BY DEF AuthenticateUser, db, AccountsInv, TypeOK, RequestType, RequestOK
<1>2. CASE Fails(p)
  BY <1>1, <1>2, IdleSession
<1>3. ASSUME NEW a \in Ids, Authenticated(a, f),
             Goes(p, Knowing(request[p], "generate", a, a, None))
      PROVE  Session!Next
  <2>1. /\ request[p].client \in Clients /\ f \in Sent(request[p].client)
        /\ Session!Admit(request[p].client, a)
    BY <1>1, <1>3, AdmitSession
  <2>2. Session!LogIn(request[p].client, a, f)
    BY <1>1, <1>3, <2>1 DEF Authenticated, Session!LogIn
  <2> QED  BY <1>1, <2>1, <2>2 DEF Session!Next
<1> QED  BY <1>2, <1>3 DEF AuthenticateUser

(* A refresh validates its cookie twice and revokes it.                    *)
LEMMA RotationSession ==
  ASSUME AccountsInv, AccountsInv', NEW p \in Handlers,
         ValidateRefreshToken(p) \/ RotateRefreshToken(p) \/ RevokeByTokenHash(p)
  PROVE  Session!Next
<1> DEFINE t == request[p].cookie
<1>1. t # None /\ UNCHANGED <<users, owner, cookies>>
  BY DEF ValidateRefreshToken, RotateRefreshToken, RevokeByTokenHash, db,
         AccountsInv, RequestOK
<1>2. CASE Fails(p)
  BY <1>1, <1>2, IdleSession
<1>3. CASE \/ Goes(p, Knowing(request[p], "rotate", owner[t], None, None))
           \/ Goes(p, Knowing(request[p], "revoke", request[p].user, owner[t], None))
           \/ Goes(p, Knowing(request[p], "regenerate", request[p].user, request[p].holder, None))
  <2>1. PICK r : /\ Goes(p, r)
                 /\ r.client = request[p].client /\ r.form = request[p].form
                 /\ r.cookie = t
                 /\ r.user = request[p].user \/ r.user = owner[t]
    BY <1>3 DEF Goes, Knowing
  <2> QED  BY <1>1, <2>1, KnowingSession
<1> QED  BY <1>2, <1>3 DEF ValidateRefreshToken, RotateRefreshToken, RevokeByTokenHash

(* The new token is one that no request has brought.                       *)
LEMMA GenerateRefreshTokenSession ==
  ASSUME AccountsInv, AccountsInv', NEW p \in Handlers, GenerateRefreshToken(p)
  PROVE  Session!Next
<1> PICK t \in Tokens :
      /\ owner[t] = None
      /\ owner' = [owner EXCEPT ![t] = request[p].holder]
      /\ Goes(p, Knowing(request[p], "answer", request[p].user, request[p].holder, t))
  BY DEF GenerateRefreshToken
<1>1. \A s \in Tokens : owner[s] # None => owner'[s] = owner[s]
  BY DEF AccountsInv, TypeOK
<1>2. UNCHANGED <<users, cookies>>
  BY DEF GenerateRefreshToken
<1> DEFINE r == Knowing(request[p], "answer", request[p].user, request[p].holder, t)
<1>3. /\ Goes(p, r)
      /\ r.client = request[p].client /\ r.form = request[p].form
      /\ r.cookie = request[p].cookie
      /\ r.user = request[p].user
  BY DEF Knowing
<1> HIDE DEF r
<1> QED  BY <1>1, <1>2, <1>3, KnowingSession

(* An answer takes effect at the client that has sent the request, for the *)
(* account that the request has found.                                     *)
LEMMA SetAuthCookiesSession ==
  ASSUME AccountsInv, AccountsInv', NEW p \in Handlers, SetAuthCookies(p)
  PROVE  Session!Next
<1> PICK c \in Clients, a \in Ids :
      c = request[p].client /\ a = request[p].user /\ a \in Standing(c)
  <2>1. request[p] \in RequestType /\ RequestOK(request[p]) /\ request[p].pc = "answer"
    BY DEF AccountsInv, TypeOK, SetAuthCookies
  <2>2. request[p].client \in Clients /\ request[p].user \in Ids
    BY <2>1 DEF RequestType, RequestOK
  <2> QED  BY <2>2, KnownStanding, AccountsAssumption
<1>1. /\ Goes(p, Idle) /\ UNCHANGED <<users, owner>>
      /\ cookies' = [cookies EXCEPT ![c] = [user |-> a, token |-> request[p].token]]
  BY DEF SetAuthCookies, db
<1>2. /\ cookies'[c].user = a
      /\ \A d \in Clients : d # c => cookies'[d] = cookies[d]
  BY <1>1 DEF AccountsInv, TypeOK
<1>3. \A d \in Clients : Sent(d)' \subseteq Sent(d) /\ Standing(d)' \subseteq Standing(d)
  <2>1. Idle \in RequestType /\ Idle.client = None /\ Idle.form = None
    BY IdleOK DEF Idle, Request
  <2>2. /\ {c} \in SUBSET Clients
        /\ \A d \in Clients \ {c} : cookies'[d] = cookies[d]
        /\ \A d \in {c} : cookies'[d].user \in Standing(d) \cup {None}
    BY <1>2
  <2>3. \A d \in Clients : Standing(d)' \subseteq Standing(d)
    <3>1. Goes(p, Idle) /\ \A t \in Tokens : owner[t] # None => owner'[t] = owner[t]
      BY <1>1
    <3>2. Idle.client \notin Clients
      BY <2>1, AccountsAssumption
    <3> QED  BY <2>1, <2>2, <3>1, <3>2, NothingLearned
  <2>4. \A d \in Clients : Sent(d)' \subseteq Sent(d)
    BY <1>1, <2>1, NothingSent
  <2> QED  BY <2>3, <2>4
<1>4. Session!RequestsEnd
  BY <1>1, <1>3, NoGain
<1>5. [d \in Clients |-> cookies[d].user]' = [[d \in Clients |-> cookies[d].user] EXCEPT ![c] = a]
  BY <1>2
<1>6. Session!Answered(c, a)
  BY <1>4, <1>5 DEF Session!Answered
<1> QED  BY <1>6 DEF Session!Next

LEMMA FailRequestSession ==
  ASSUME AccountsInv, AccountsInv', NEW p \in Handlers, FailRequest(p)
  PROVE  Session!Next
BY IdleSession DEF FailRequest, db

(* The clock, and a step that is none.                                     *)
LEMMA SameSession ==
  ASSUME UNCHANGED <<users, owner, cookies, request>>
  PROVE  UNCHANGED Session!vars
<1>1. \A c \in Clients : Sent(c)' = Sent(c) /\ Standing(c)' = Standing(c)
  BY DEF Sent, Standing, Knows
<1>2. UNCHANGED <<[c \in Clients |-> Sent(c)], [c \in Clients |-> Standing(c)],
                  [c \in Clients |-> cookies[c].user]>>
  BY <1>1
<1> QED  BY <1>2 DEF Session!vars

LEMMA SessionStep ==
  AccountsInv /\ AccountsInv' /\ [Next]_vars => [Session!Next]_(Session!vars)
<1> SUFFICES ASSUME AccountsInv, AccountsInv', [Next]_vars
             PROVE  Session!Next \/ UNCHANGED Session!vars
  OBVIOUS
<1>1. CASE Tick \/ UNCHANGED vars
  <2>1. UNCHANGED <<users, owner, cookies, request>>
    BY <1>1 DEF Tick, vars, db
  <2> QED  BY <2>1, SameSession
<1>2. ASSUME NEW p \in Handlers, Handle(p)
      PROVE  Session!Next
  BY <1>2, ArriveSession, HandleRefreshTokenSession, CreateUserSession, AuthenticateUserSession,
     RotationSession, GenerateRefreshTokenSession, SetAuthCookiesSession, FailRequestSession
     DEF Handle
<1> QED  BY <1>1, <1>2 DEF Next

LEMMA SessionInit == Init => Session!Init
<1> SUFFICES ASSUME Init PROVE Session!Init
  OBVIOUS
<1>1. \A c \in Clients : cookies[c].user = None
  BY DEF Init, NoCookies
<1>2. \A p \in Handlers : ~\E a \in Ids : Knows(request[p], a)
  BY IdleOK, AccountsAssumption DEF Init, Knows
<1>3. \A c \in Clients : Standing(c) = {}
  BY <1>1, <1>2, AccountsAssumption DEF Standing
<1>4. \A c \in Clients : Sent(c) = {}
  BY IdleOK, AccountsAssumption DEF Init, Sent
<1> QED  BY <1>1, <1>3, <1>4 DEF Init, Session!Init

(* The separate statements of sign-up, log-in and refresh, interleaved and *)
(* failing half-way, implement the steps of Sessions: a client is logged   *)
(* in as a user only after it has signed up as that user or presented the  *)
(* password, and no account is changed or made twice.                      *)
THEOREM AccountsKeepSessions == Spec => KeepsSessions
<1>1. Init => Session!Init
  BY SessionInit
<1>2. AccountsInv /\ AccountsInv' /\ [Next]_vars => [Session!Next]_(Session!vars)
  BY SessionStep
<1> QED  BY <1>1, <1>2, AccountsInvariant, PTL DEF Spec, KeepsSessions, Session!Spec
=============================================================================
