--------------------------- MODULE Answers_proofs ---------------------------
(***************************************************************************)
(* Proofs about Answers.  The table of the steps is first examined once    *)
(* per endpoint (TableOrdered, TableRetries); the induction then uses only *)
(* what these lemmas say of it, so that an endpoint that is added to the   *)
(* table costs one more step of each.                                      *)
(***************************************************************************)
EXTENDS Answers, TLAPS

(* The endpoints of the router (handler.go:63). *)
LEMMA EndpointNames ==
  Endpoints = {"health", "signup", "login", "refresh", "me", "games", "game", "seats",
               "reserve", "history", "reservation", "purchase", "cancel"}
BY DEF Endpoints, Steps

(* Every endpoint keeps to the order that the invariant rests on. *)
LEMMA TableOrdered == ASSUME NEW e \in Endpoints PROVE WellOrdered(e)
<1>1. WellOrdered("health")
  <2> DEFINE s == Steps["health"]
  <2>1. /\ Len(s) = 0 /\ DOMAIN s = 1 .. 0
    BY DEF Steps, HealthCheck
  <2> HIDE DEF s
  <2> QED  BY <2>1 DEF WellOrdered, Statements, Began, Writes, s
<1>2. WellOrdered("signup")
  <2> DEFINE s == Steps["signup"]
  <2>1. /\ Len(s) = 5 /\ DOMAIN s = 1 .. 5 /\ s[1].op = "check" /\ s[2].op = "check"
        /\ s[2].how = "opaque" /\ s[3].op = "write" /\ s[3].name = "CreateUser"
        /\ s[4].op = "check" /\ s[4].how = "opaque" /\ s[5].op = "write"
        /\ s[5].name = "saveToken" /\ s[5].how = "opaque"
    BY DEF Steps, HandleUserSignup, Step, Check, Decode, GenerateAccessToken, SaveToken
  <2> HIDE DEF s
  <2> QED  BY <2>1 DEF WellOrdered, Statements, Began, Writes, s
<1>3. WellOrdered("login")
  <2> DEFINE s == Steps["login"]
  <2>1. /\ Len(s) = 5 /\ DOMAIN s = 1 .. 5 /\ s[1].op = "check" /\ s[2].op = "read"
        /\ s[3].op = "check" /\ s[4].op = "check" /\ s[5].op = "write"
        /\ s[5].name = "saveToken"
    BY DEF Steps, HandleUserLogin, Check, Step, Decode, GenerateAccessToken, SaveToken,
      GetUserByEmail, Lookup
  <2> HIDE DEF s
  <2> QED  BY <2>1 DEF WellOrdered, Statements, Began, Writes, s
<1>4. WellOrdered("refresh")
  <2> DEFINE s == Steps["refresh"]
  <2>1. /\ Len(s) = 6 /\ DOMAIN s = 1 .. 6 /\ s[1].op = "check" /\ s[2].op = "read"
        /\ s[3].op = "read" /\ s[4].op = "write" /\ s[4].name = "RevokeByTokenHash"
        /\ s[5].op = "write" /\ s[5].name = "saveToken" /\ s[5].how = "opaque"
        /\ s[6].op = "check" /\ s[6].how = "opaque"
    BY DEF Steps, HandleRefreshToken, Step, Check, GenerateAccessToken, SaveToken,
      ValidateRefreshToken, Lookup
  <2> HIDE DEF s
  <2> QED  BY <2>1 DEF WellOrdered, Statements, Began, Writes, s
<1>5. WellOrdered("me")
  <2> DEFINE s == Steps["me"]
  <2>1. /\ Len(s) = 2 /\ DOMAIN s = 1 .. 2 /\ s[1].op = "check" /\ s[2].op = "read"
    BY DEF Steps, HandleGetUser, AuthRequired, Check, Step, FindUserByID, Lookup
  <2> HIDE DEF s
  <2> QED  BY <2>1 DEF WellOrdered, Statements, Began, Writes, s
<1>6. WellOrdered("games")
  <2> DEFINE s == Steps["games"]
  <2>1. /\ Len(s) = 1 /\ DOMAIN s = 1 .. 1 /\ s[1].op = "read"
    BY DEF Steps, HandleGetAllGames, GetAllGames, Query, Step
  <2> HIDE DEF s
  <2> QED  BY <2>1 DEF WellOrdered, Statements, Began, Writes, s
<1>7. WellOrdered("game")
  <2> DEFINE s == Steps["game"]
  <2>1. /\ Len(s) = 2 /\ DOMAIN s = 1 .. 2 /\ s[1].op = "check" /\ s[2].op = "read"
    BY DEF Steps, HandleGetGameByID, ParseID, Check, Step, GetGameByID, Lookup
  <2> HIDE DEF s
  <2> QED  BY <2>1 DEF WellOrdered, Statements, Began, Writes, s
<1>8. WellOrdered("seats")
  <2> DEFINE s == Steps["seats"]
  <2>1. /\ Len(s) = 2 /\ DOMAIN s = 1 .. 2 /\ s[1].op = "check" /\ s[2].op = "read"
    BY DEF Steps, HandleGetSeatsByGameID, ParseID, Check, Step, GetSeatsByGameID, Query
  <2> HIDE DEF s
  <2> QED  BY <2>1 DEF WellOrdered, Statements, Began, Writes, s
<1>9. WellOrdered("reserve")
  <2> DEFINE s == Steps["reserve"]
  <2>1. /\ Len(s) = 9 /\ DOMAIN s = 1 .. 9 /\ s[1].op = "check" /\ s[2].op = "check"
        /\ s[3].op = "check" /\ s[4].op = "begin" /\ s[5].op = "read"
        /\ s[6].op = "check" /\ s[7].op = "write" /\ s[7].name = "insertReservation"
        /\ s[8].op = "write" /\ s[8].name = "updateTickets" /\ s[9].op = "commit"
    BY DEF Steps, HandleCreateReservation, Step, Check, AuthRequired, Decode, BeginTx,
      Commit
  <2> HIDE DEF s
  <2> QED  BY <2>1 DEF WellOrdered, Statements, Began, Writes, s
<1>10. WellOrdered("history")
  <2> DEFINE s == Steps["history"]
  <2>1. /\ Len(s) = 4 /\ DOMAIN s = 1 .. 4 /\ s[1].op = "check" /\ s[2].op = "read"
        /\ s[3].op = "read" /\ s[4].op = "check"
    BY DEF Steps, HandleGetUserReservations, Step, AuthRequired, Check, AnyRow
  <2> HIDE DEF s
  <2> QED  BY <2>1 DEF WellOrdered, Statements, Began, Writes, s
<1>11. WellOrdered("reservation")
  <2> DEFINE s == Steps["reservation"]
  <2>1. /\ Len(s) = 4 /\ DOMAIN s = 1 .. 4 /\ s[1].op = "check" /\ s[2].op = "check"
        /\ s[3].op = "read" /\ s[4].op = "check"
    BY DEF Steps, HandleGetReservationByID, Query, Step, AuthRequired, Check, ParseID,
      AnyRow
  <2> HIDE DEF s
  <2> QED  BY <2>1 DEF WellOrdered, Statements, Began, Writes, s
<1>12. WellOrdered("purchase")
  <2> DEFINE s == Steps["purchase"]
  <2>1. /\ Len(s) = 6 /\ DOMAIN s = 1 .. 6 /\ s[1].op = "check" /\ s[2].op = "check"
        /\ s[3].op = "begin" /\ s[4].op = "write" /\ s[4].name = "purchaseReservation"
        /\ s[5].op = "check" /\ s[6].op = "commit"
    BY DEF Steps, HandlePurchaseReservation, Step, AuthRequired, Check, ParseID, AnyRow,
      BeginTx, Commit
  <2> HIDE DEF s
  <2> QED  BY <2>1 DEF WellOrdered, Statements, Began, Writes, s
<1>13. WellOrdered("cancel")
  <2> DEFINE s == Steps["cancel"]
  <2>1. /\ Len(s) = 6 /\ DOMAIN s = 1 .. 6 /\ s[1].op = "check" /\ s[2].op = "check"
        /\ s[3].op = "begin" /\ s[4].op = "write" /\ s[4].name = "cancelReservation"
        /\ s[5].op = "check" /\ s[6].op = "commit"
    BY DEF Steps, HandleCancelReservation, Step, AuthRequired, Check, ParseID, AnyRow,
      BeginTx, Commit
  <2> HIDE DEF s
  <2> QED  BY <2>1 DEF WellOrdered, Statements, Began, Writes, s
<1> QED  BY <1>1, <1>2, <1>3, <1>4, <1>5, <1>6, <1>7, <1>8, <1>9, <1>10, <1>11, <1>12, <1>13,
         EndpointNames

(* At every endpoint what asks for a retry has written nothing. *)
LEMMA TableRetries == ASSUME NEW e \in Endpoints PROVE RetryOrdered(e)
<1>1. RetryOrdered("health")
  <2> DEFINE s == Steps["health"]
  <2>1. /\ Len(s) = 0 /\ DOMAIN s = 1 .. 0
    BY DEF Steps, HealthCheck
  <2> HIDE DEF s
  <2> QED  BY <2>1 DEF RetryOrdered, BookingPath, Began, Writes, s
<1>2. RetryOrdered("signup")
  <2> DEFINE s == Steps["signup"]
  <2>1. /\ Len(s) = 5 /\ DOMAIN s = 1 .. 5 /\ s[1].op = "check" /\ s[2].op = "check"
        /\ s[3].op = "write" /\ s[4].op = "check" /\ s[5].op = "write"
    BY DEF Steps, HandleUserSignup, Step, Check, Decode, GenerateAccessToken, SaveToken,
      Connect, Broken
  <2>2. /\ "40P01" \notin s[1].fails /\ "40P01" \notin s[2].fails
        /\ "40P01" \notin s[3].fails /\ "40P01" \notin s[4].fails
        /\ "40P01" \notin s[5].fails
    BY DEF Steps, HandleUserSignup, Step, Check, Decode, GenerateAccessToken, SaveToken,
      Connect, Broken
  <2> HIDE DEF s
  <2> QED  BY <2>1, <2>2 DEF RetryOrdered, BookingPath, Began, Writes, s
<1>3. RetryOrdered("login")
  <2> DEFINE s == Steps["login"]
  <2>1. /\ Len(s) = 5 /\ DOMAIN s = 1 .. 5 /\ s[1].op = "check" /\ s[2].op = "read"
        /\ s[3].op = "check" /\ s[4].op = "check" /\ s[5].op = "write"
    BY DEF Steps, HandleUserLogin, Check, Step, Decode, GenerateAccessToken, SaveToken,
      Connect, Broken, GetUserByEmail, Lookup
  <2>2. /\ "40P01" \notin s[1].fails /\ "40P01" \notin s[2].fails
        /\ "40P01" \notin s[3].fails /\ "40P01" \notin s[4].fails
        /\ "40P01" \notin s[5].fails
    BY DEF Steps, HandleUserLogin, Check, Step, Decode, GenerateAccessToken, SaveToken,
      Connect, Broken, GetUserByEmail, Lookup
  <2> HIDE DEF s
  <2> QED  BY <2>1, <2>2 DEF RetryOrdered, BookingPath, Began, Writes, s
<1>4. RetryOrdered("refresh")
  <2> DEFINE s == Steps["refresh"]
  <2>1. /\ Len(s) = 6 /\ DOMAIN s = 1 .. 6 /\ s[1].op = "check" /\ s[2].op = "read"
        /\ s[3].op = "read" /\ s[4].op = "write" /\ s[5].op = "write"
        /\ s[6].op = "check"
    BY DEF Steps, HandleRefreshToken, Step, Check, GenerateAccessToken, SaveToken,
      Connect, Broken, ValidateRefreshToken, Lookup
  <2>2. /\ "40P01" \notin s[1].fails /\ "40P01" \notin s[2].fails
        /\ "40P01" \notin s[3].fails /\ "40P01" \notin s[4].fails
        /\ "40P01" \notin s[5].fails /\ "40P01" \notin s[6].fails
    BY DEF Steps, HandleRefreshToken, Step, Check, GenerateAccessToken, SaveToken,
      Connect, Broken, ValidateRefreshToken, Lookup
  <2> HIDE DEF s
  <2> QED  BY <2>1, <2>2 DEF RetryOrdered, BookingPath, Began, Writes, s
<1>5. RetryOrdered("me")
  <2> DEFINE s == Steps["me"]
  <2>1. /\ Len(s) = 2 /\ DOMAIN s = 1 .. 2 /\ s[1].op = "check" /\ s[2].op = "read"
    BY DEF Steps, HandleGetUser, AuthRequired, Check, Step, FindUserByID, Lookup,
      Connect, Broken
  <2>2. /\ "40P01" \notin s[1].fails /\ "40P01" \notin s[2].fails
    BY DEF Steps, HandleGetUser, AuthRequired, Check, Step, FindUserByID, Lookup,
      Connect, Broken
  <2> HIDE DEF s
  <2> QED  BY <2>1, <2>2 DEF RetryOrdered, BookingPath, Began, Writes, s
<1>6. RetryOrdered("games")
  <2> DEFINE s == Steps["games"]
  <2>1. /\ Len(s) = 1 /\ DOMAIN s = 1 .. 1 /\ s[1].op = "read" /\ s[1].how = "classified"
    BY DEF Steps, HandleGetAllGames, GetAllGames, Query, Step, Connect, Broken
  <2>2. /\ "40P01" \notin s[1].fails
    BY DEF Steps, HandleGetAllGames, GetAllGames, Query, Step, Connect, Broken
  <2> HIDE DEF s
  <2> QED  BY <2>1, <2>2 DEF RetryOrdered, BookingPath, Began, Writes, s
<1>7. RetryOrdered("game")
  <2> DEFINE s == Steps["game"]
  <2>1. /\ Len(s) = 2 /\ DOMAIN s = 1 .. 2 /\ s[1].op = "check" /\ s[2].op = "read"
        /\ s[2].how = "classified"
    BY DEF Steps, HandleGetGameByID, ParseID, Check, Step, GetGameByID, Lookup, Connect,
      Broken
  <2>2. /\ "40P01" \notin s[1].fails /\ "40P01" \notin s[2].fails
    BY DEF Steps, HandleGetGameByID, ParseID, Check, Step, GetGameByID, Lookup, Connect,
      Broken
  <2>3. /\ "53300" \notin s[1].fails
    BY DEF Steps, HandleGetGameByID, ParseID, Check, Step, GetGameByID, Lookup, Connect,
      Broken
  <2> HIDE DEF s
  <2> QED  BY <2>1, <2>2, <2>3 DEF RetryOrdered, BookingPath, Began, Writes, s
<1>8. RetryOrdered("seats")
  <2> DEFINE s == Steps["seats"]
  <2>1. /\ Len(s) = 2 /\ DOMAIN s = 1 .. 2 /\ s[1].op = "check" /\ s[2].op = "read"
        /\ s[2].how = "classified"
    BY DEF Steps, HandleGetSeatsByGameID, ParseID, Check, Step, GetSeatsByGameID, Query,
      Connect, Broken
  <2>2. /\ "40P01" \notin s[1].fails /\ "40P01" \notin s[2].fails
    BY DEF Steps, HandleGetSeatsByGameID, ParseID, Check, Step, GetSeatsByGameID, Query,
      Connect, Broken
  <2>3. /\ "53300" \notin s[1].fails
    BY DEF Steps, HandleGetSeatsByGameID, ParseID, Check, Step, GetSeatsByGameID, Query,
      Connect, Broken
  <2> HIDE DEF s
  <2> QED  BY <2>1, <2>2, <2>3 DEF RetryOrdered, BookingPath, Began, Writes, s
<1>9. RetryOrdered("reserve")
  <2> DEFINE s == Steps["reserve"]
  <2>1. /\ Len(s) = 9 /\ DOMAIN s = 1 .. 9 /\ s[1].op = "check" /\ s[2].op = "check"
        /\ s[3].op = "check" /\ s[4].op = "begin" /\ s[4].how = "classified"
        /\ s[5].op = "read" /\ s[5].how = "classified" /\ s[6].op = "check"
        /\ s[7].op = "write" /\ s[8].op = "write" /\ s[9].op = "commit"
    BY DEF Steps, HandleCreateReservation, Step, Check, AuthRequired, Decode, BeginTx,
      Connect, Broken, Commit
  <2>2. /\ "40P01" \notin s[1].fails /\ "40P01" \notin s[2].fails
        /\ "40P01" \notin s[3].fails /\ "40P01" \notin s[4].fails
        /\ "40P01" \notin s[6].fails /\ "40P01" \notin s[7].fails
        /\ "40P01" \notin s[8].fails /\ "40P01" \notin s[9].fails
    BY DEF Steps, HandleCreateReservation, Step, Check, AuthRequired, Decode, BeginTx,
      Connect, Broken, Commit
  <2>3. /\ "53300" \notin s[1].fails /\ "53300" \notin s[2].fails
        /\ "53300" \notin s[3].fails /\ "53300" \notin s[5].fails
        /\ "53300" \notin s[6].fails /\ "53300" \notin s[7].fails
        /\ "53300" \notin s[8].fails /\ "53300" \notin s[9].fails
    BY DEF Steps, HandleCreateReservation, Step, Check, AuthRequired, Decode, BeginTx,
      Connect, Broken, Commit
  <2> HIDE DEF s
  <2> QED  BY <2>1, <2>2, <2>3 DEF RetryOrdered, BookingPath, Began, Writes, s
<1>10. RetryOrdered("history")
  <2> DEFINE s == Steps["history"]
  <2>1. /\ Len(s) = 4 /\ DOMAIN s = 1 .. 4 /\ s[1].op = "check" /\ s[2].op = "read"
        /\ s[3].op = "read" /\ s[4].op = "check"
    BY DEF Steps, HandleGetUserReservations, Step, AuthRequired, Check, AnyRow, Connect,
      Broken
  <2>2. /\ "40P01" \notin s[1].fails /\ "40P01" \notin s[2].fails
        /\ "40P01" \notin s[3].fails /\ "40P01" \notin s[4].fails
    BY DEF Steps, HandleGetUserReservations, Step, AuthRequired, Check, AnyRow, Connect,
      Broken
  <2> HIDE DEF s
  <2> QED  BY <2>1, <2>2 DEF RetryOrdered, BookingPath, Began, Writes, s
<1>11. RetryOrdered("reservation")
  <2> DEFINE s == Steps["reservation"]
  <2>1. /\ Len(s) = 4 /\ DOMAIN s = 1 .. 4 /\ s[1].op = "check" /\ s[2].op = "check"
        /\ s[3].op = "read" /\ s[3].how = "classified" /\ s[4].op = "check"
    BY DEF Steps, HandleGetReservationByID, Query, Step, Connect, Broken, AuthRequired,
      Check, ParseID, AnyRow
  <2>2. /\ "40P01" \notin s[1].fails /\ "40P01" \notin s[2].fails
        /\ "40P01" \notin s[3].fails /\ "40P01" \notin s[4].fails
    BY DEF Steps, HandleGetReservationByID, Query, Step, Connect, Broken, AuthRequired,
      Check, ParseID, AnyRow
  <2>3. /\ "53300" \notin s[1].fails /\ "53300" \notin s[2].fails
        /\ "53300" \notin s[4].fails
    BY DEF Steps, HandleGetReservationByID, Query, Step, Connect, Broken, AuthRequired,
      Check, ParseID, AnyRow
  <2> HIDE DEF s
  <2> QED  BY <2>1, <2>2, <2>3 DEF RetryOrdered, BookingPath, Began, Writes, s
<1>12. RetryOrdered("purchase")
  <2> DEFINE s == Steps["purchase"]
  <2>1. /\ Len(s) = 6 /\ DOMAIN s = 1 .. 6 /\ s[1].op = "check" /\ s[2].op = "check"
        /\ s[3].op = "begin" /\ s[3].how = "classified" /\ s[4].op = "write"
        /\ s[4].how = "classified" /\ s[5].op = "check" /\ s[6].op = "commit"
    BY DEF Steps, HandlePurchaseReservation, Step, AuthRequired, Check, ParseID, AnyRow,
      BeginTx, Connect, Broken, Commit
  <2>2. /\ "40P01" \notin s[1].fails /\ "40P01" \notin s[2].fails
        /\ "40P01" \notin s[3].fails /\ "40P01" \notin s[5].fails
        /\ "40P01" \notin s[6].fails
    BY DEF Steps, HandlePurchaseReservation, Step, AuthRequired, Check, ParseID, AnyRow,
      BeginTx, Connect, Broken, Commit
  <2>3. /\ "53300" \notin s[1].fails /\ "53300" \notin s[2].fails
        /\ "53300" \notin s[4].fails /\ "53300" \notin s[5].fails
        /\ "53300" \notin s[6].fails
    BY DEF Steps, HandlePurchaseReservation, Step, AuthRequired, Check, ParseID, AnyRow,
      BeginTx, Connect, Broken, Commit
  <2> HIDE DEF s
  <2> QED  BY <2>1, <2>2, <2>3 DEF RetryOrdered, BookingPath, Began, Writes, s
<1>13. RetryOrdered("cancel")
  <2> DEFINE s == Steps["cancel"]
  <2>1. /\ Len(s) = 6 /\ DOMAIN s = 1 .. 6 /\ s[1].op = "check" /\ s[2].op = "check"
        /\ s[3].op = "begin" /\ s[4].op = "write" /\ s[4].how = "classified"
        /\ s[5].op = "check" /\ s[6].op = "commit"
    BY DEF Steps, HandleCancelReservation, Step, AuthRequired, Check, ParseID, AnyRow,
      BeginTx, Connect, Broken, Commit
  <2>2. /\ "40P01" \notin s[1].fails /\ "40P01" \notin s[2].fails
        /\ "40P01" \notin s[3].fails /\ "40P01" \notin s[5].fails
        /\ "40P01" \notin s[6].fails
    BY DEF Steps, HandleCancelReservation, Step, AuthRequired, Check, ParseID, AnyRow,
      BeginTx, Connect, Broken, Commit
  <2> HIDE DEF s
  <2> QED  BY <2>1, <2>2 DEF RetryOrdered, BookingPath, Began, Writes, s
<1> QED  BY <1>1, <1>2, <1>3, <1>4, <1>5, <1>6, <1>7, <1>8, <1>9, <1>10, <1>11, <1>12, <1>13,
         EndpointNames

(* The cases of toStatus answer with one of nine codes. *)
LEMMA CasesFacts ==
  /\ DOMAIN Cases = 1 .. 15
  /\ \A i \in 1 .. 15 : Cases[i][2] \in {400, 401, 404, 409, 413, 499, 500, 503, 504}
BY DEF Cases

(* Where a case of toStatus applies there is a first one. *)
LEMMA FirstCase ==
  ASSUME NEW err, NEW i \in DOMAIN Cases, Cases[i][1] \in err
  PROVE  \E k \in DOMAIN Cases :
           Cases[k][1] \in err /\ \A j \in 1 .. (k - 1) : Cases[j][1] \notin err
<1> DEFINE p(k) == Cases[k][1] \in err
<1> HIDE DEF p
<1>1. ASSUME \A k \in 1 .. 15 : p(k) => \E j \in 1 .. (k - 1) : p(j)
      PROVE \A k \in 1 .. 15 : ~p(k)
  <2>1. ~p(1) BY <1>1
  <2>2. ~p(2) /\ ~p(3) /\ ~p(4)  BY <1>1, <2>1
  <2>3. ~p(5) /\ ~p(6) /\ ~p(7)  BY <1>1, <2>1, <2>2
  <2>4. ~p(8) /\ ~p(9) /\ ~p(10) BY <1>1, <2>1, <2>2, <2>3
  <2>5. ~p(11) /\ ~p(12) /\ ~p(13) BY <1>1, <2>1, <2>2, <2>3, <2>4
  <2>6. ~p(14) /\ ~p(15) BY <1>1, <2>1, <2>2, <2>3, <2>4, <2>5
  <2> QED BY <2>1, <2>2, <2>3, <2>4, <2>5, <2>6
<1> QED BY <1>1, CasesFacts DEF p

(* Whatever an error is made of, its status is that of a failure. *)
LEMMA StatusOfError ==
  ASSUME NEW err, NEW left
  PROVE  toStatus(err, left) \in {400, 401, 404, 409, 413, 499, 500, 503, 504}
<1>1. CASE \E i \in DOMAIN Cases : Cases[i][1] \in err
  <2> DEFINE First(k) == /\ Cases[k][1] \in err
                         /\ \A j \in 1 .. (k - 1) : Cases[j][1] \notin err
             i == CHOOSE k \in DOMAIN Cases : First(k)
  <2>1. \E k \in DOMAIN Cases : First(k)
    BY <1>1, FirstCase
  <2>2. i \in DOMAIN Cases
    BY <2>1
  <2>3. toStatus(err, left) = IF Cases[i][1] = "canceled" /\ ~left THEN 500 ELSE Cases[i][2]
    BY <1>1 DEF toStatus
  <2> HIDE DEF i
  <2> QED  BY <2>2, <2>3, CasesFacts
<1>2. CASE ~ \E i \in DOMAIN Cases : Cases[i][1] \in err
  BY <1>2 DEF toStatus
<1> QED  BY <1>1, <1>2

(* The errors that the invariant follows to their status. *)
LEMMA StatusOfKnown ==
  ASSUME NEW left
  PROVE  /\ toStatus({"internal"}, left) = 500
         /\ toStatus({"retryable", "40P01"}, left) = 503
         /\ toStatus({"unavailable", "53300"}, left) = 503
<1>1. ASSUME NEW err, NEW i \in 1 .. 15, Cases[i][1] \in err, Cases[i][1] # "canceled",
             \A j \in 1 .. 15 : Cases[j][1] \in err => j = i
      PROVE  toStatus(err, left) = Cases[i][2]
  <2> DEFINE First(k) == /\ Cases[k][1] \in err
                         /\ \A j \in 1 .. (k - 1) : Cases[j][1] \notin err
             first == CHOOSE k \in DOMAIN Cases : First(k)
  <2>1. i \in DOMAIN Cases /\ First(i)
    BY <1>1, CasesFacts
  <2>2. first \in DOMAIN Cases /\ First(first)
    BY <2>1
  <2>3. first = i
    <3> HIDE DEF first
    <3>1. first \in 1 .. 15 /\ Cases[first][1] \in err
      BY <2>2, CasesFacts
    <3> QED  BY <3>1, <1>1
  <2> QED  BY <1>1, <2>1, <2>3 DEF toStatus
<1>2. /\ Cases[14] = <<"internal", 500>>
      /\ Cases[8] = <<"retryable", 503>>
      /\ Cases[10] = <<"unavailable", 503>>
  BY DEF Cases
<1>3. \A j \in 1 .. 15 : /\ Cases[j][1] = "internal" <=> j = 14
                         /\ Cases[j][1] = "retryable" <=> j = 8
                         /\ Cases[j][1] = "unavailable" <=> j = 10
                         /\ Cases[j][1] \notin {"40P01", "53300"}
  BY DEF Cases
<1>4. toStatus({"internal"}, left) = 500
  BY <1>1, <1>2, <1>3
<1>5. toStatus({"retryable", "40P01"}, left) = 503
  BY <1>1, <1>2, <1>3
<1>6. toStatus({"unavailable", "53300"}, left) = 503
  BY <1>1, <1>2, <1>3
<1> QED  BY <1>4, <1>5, <1>6

(* The steps of an endpoint are a sequence. *)
LEMMA TableLengths ==
  ASSUME NEW e \in Endpoints
  PROVE  Len(Steps[e]) \in Nat /\ DOMAIN Steps[e] = 1 .. Len(Steps[e])
BY EndpointNames DEF Steps, HealthCheck, HandleUserSignup, HandleUserLogin,
  HandleRefreshToken, HandleGetUser, HandleGetAllGames, HandleGetGameByID,
  HandleGetSeatsByGameID, HandleCreateReservation, HandleGetUserReservations,
  HandleGetReservationByID, HandlePurchaseReservation, HandleCancelReservation

(* What has been written and begun before the step after n. *)
LEMMA StepOrder ==
  ASSUME NEW e \in Endpoints, NEW n \in DOMAIN Steps[e]
  PROVE  /\ n \in Nat /\ n + 1 \in 1 .. (Len(Steps[e]) + 1)
         /\ Writes(e, n + 1) = IF Steps[e][n].op = "write" THEN Writes(e, n) \cup {Steps[e][n].name}
                               ELSE Writes(e, n)
         /\ Began(e, n + 1) <=> Began(e, n) \/ Steps[e][n].op = "begin"
         /\ Writes(e, n) \subseteq AllWrites(e) /\ Writes(e, n + 1) \subseteq AllWrites(e)
<1>1. n \in Nat /\ n >= 1 /\ n <= Len(Steps[e]) /\ Len(Steps[e]) \in Nat
  BY TableLengths
<1>2. \A j : j \in 1 .. (n + 1 - 1) <=> j \in 1 .. (n - 1) \/ j = n
  BY <1>1
<1>3. \A j \in 1 .. n : j \in 1 .. (Len(Steps[e]) + 1 - 1)
  BY <1>1
<1>4. Writes(e, n + 1) = IF Steps[e][n].op = "write" THEN Writes(e, n) \cup {Steps[e][n].name}
                         ELSE Writes(e, n)
  BY <1>2 DEF Writes
<1>5. Began(e, n + 1) <=> Began(e, n) \/ Steps[e][n].op = "begin"
  BY <1>2 DEF Began
<1>6. Writes(e, n + 1) \subseteq AllWrites(e)
  BY <1>1, <1>3 DEF Writes, AllWrites
<1> QED  BY <1>1, <1>4, <1>5, <1>6

(* Before its transaction begins an endpoint writes nothing. *)
LEMMA NothingBefore ==
  ASSUME NEW e \in Endpoints, Transactional(e), NEW n \in DOMAIN Steps[e], ~Began(e, n)
  PROVE  Writes(e, n) = {} /\ Steps[e][n].op # "write"
<1>1. PICK i \in DOMAIN Steps[e] : Steps[e][i].op = "begin"
  BY DEF Transactional
<1>2. n \in Nat /\ i \in Nat /\ i >= n
  BY <1>1, TableLengths DEF Began
<1>3. Writes(e, i) = {}
  BY <1>1, TableOrdered DEF WellOrdered
<1>4. \A j \in 1 .. (n - 1) : Steps[e][j].op # "write"
  <2>1. \A j : j \in 1 .. (n - 1) => j \in 1 .. (i - 1)
    BY <1>2
  <2> QED  BY <2>1, <1>3 DEF Writes
<1>5. Steps[e][n].op # "write"
  <2>1. i # n => n \in 1 .. (i - 1)
    BY <1>2, TableLengths
  <2> QED  BY <2>1, <1>1, <1>3 DEF Writes
<1> QED  BY <1>1, <1>4, <1>5 DEF Writes

(* What the invariant says of a request that is at one of its steps. *)
LEMMA AtStep ==
  ASSUME AnswersInv, pc \in {"handling", "executing"}, at \in DOMAIN Steps[endpoint]
  PROVE  /\ tx = "none" <=> ~Began(endpoint, at)
         /\ tx # "none" => written = {}
         /\ tx = "none" /\ Transactional(endpoint) => written = {} /\ Current.op # "write"
         /\ written # {} /\ ~lost => Current.how = "opaque"
<1> USE DEF AnswersInv, TypeOK, HandledOK
<1>1. at # Len(Steps[endpoint]) + 1
  BY TableLengths
<1>2. tx = "none" <=> ~Began(endpoint, at)
  BY <1>1
<1>3. tx # "none" => written = {}
  OBVIOUS
<1>4. tx = "none" /\ Transactional(endpoint) => written = {} /\ Current.op # "write"
  BY <1>2, NothingBefore DEF Current
<1>5. written # {} /\ ~lost => Current.how = "opaque"
  <2>1. WellOrdered(endpoint)
    BY TableOrdered
  <2> QED  BY <1>2, <2>1 DEF WellOrdered, Current
<1> QED  BY <1>2, <1>3, <1>4, <1>5

(* A step may return any of its errors. *)
LEMMA FailKeepsInv ==
  ASSUME AnswersInv, pc \in {"handling", "executing"}, at \in DOMAIN Steps[endpoint],
         NEW e, NEW by \in {"client", "gone", "contention", "overload", "service"}, Fail(e, by),
         by = "contention" => e = "40P01" /\ e \in Current.fails,
         by = "overload" => e = "53300" /\ e \in Current.fails
  PROVE  AnswersInv'
<1> USE DEF Fail, WrittenOnError
<1>1. TypeOK'
  BY DEF AnswersInv, TypeOK
<1>2. HandledOK'
  BY DEF HandledOK
<1>3. FailedOK'
  <2>1. written # {} /\ ~lost => error' = {"internal"}
    BY AtStep DEF Wrapped
  <2>2. Transactional(endpoint) => written = {}
    BY AtStep
  <2> QED  BY <2>1, <2>2 DEF FailedOK, AnswersInv, HandledOK, Transactional, Answered
<1>4. BusyOK'
  <2> USE DEF AnswersInv, TypeOK, HandledOK
  <2>1. RetryOrdered(endpoint)
    BY TableRetries
  <2>2. ASSUME by = "contention" PROVE error' = {"retryable", "40P01"} /\ written = {}
    <3>1. Began(endpoint, at) /\ Current.how = "classified"
      BY <2>1, <2>2 DEF RetryOrdered, Current
    <3>2. error' = {"retryable", "40P01"}
      BY <3>1, <2>2 DEF Wrapped, wrapDBError, classifyErrorOnRepository
    <3> QED  BY <3>1, <3>2, AtStep
  <2>3. ASSUME by = "overload", endpoint \in BookingPath
        PROVE  error' = {"unavailable", "53300"} /\ written = {}
    <3>1. Current.op # "write" /\ Writes(endpoint, at) = {} /\ Current.how = "classified"
      BY <2>1, <2>3 DEF RetryOrdered, Current
    <3>2. error' = {"unavailable", "53300"}
      BY <3>1, <2>3 DEF Wrapped, wrapDBError, classifyErrorOnRepository
    <3> QED  BY <3>1, <3>2
  <2> QED  BY <2>2, <2>3 DEF BusyOK
<1> QED  BY <1>1, <1>2, <1>3, <1>4
         DEF AnswersInv, AtomicAnswer, RefusalChangesNothing, BusyMeansRetry, Answered

(* Only one error of the driver stands for contention, and one for overload. *)
LEMMA CauseOfError ==
  ASSUME NEW e
  PROVE  /\ Cause(e) \in {"client", "contention", "overload", "service"}
         /\ Cause(e) = "contention" => e = "40P01"
         /\ Cause(e) = "overload" => e = "53300"
BY DEF Cause

(* A step that succeeds leaves behind what the position after it says. *)
LEMMA EffectKeeps ==
  ASSUME AnswersInv, pc = "executing", Effect
  PROVE  /\ at \in DOMAIN Steps[endpoint]
         /\ tx' \in {"none", "open"}
         /\ tx' = "open" => /\ Began(endpoint, at + 1) /\ at + 1 <= Len(Steps[endpoint])
                            /\ written' = {} /\ ~lost /\ pending' = Writes(endpoint, at + 1)
         /\ tx' = "none" =>
              /\ pending' = {} /\ written' = Writes(endpoint, at + 1)
              /\ Began(endpoint, at + 1) => at = Len(Steps[endpoint])
         /\ written \subseteq written'
<1> DEFINE n == at
           e == endpoint
           W == Writes(e, n + 1)
<1>1. /\ e \in Endpoints /\ n \in DOMAIN Steps[e] /\ n \in Nat /\ Len(Steps[e]) \in Nat
      /\ Current.op \in {"begin", "read", "write", "commit"}
  BY TableLengths, StepOrder DEF AnswersInv, TypeOK, HandledOK, OnStep, Statements
<1>2. /\ tx \in {"none", "open"}
      /\ tx = "none" <=> ~Began(e, n)
      /\ tx = "open" => /\ Began(e, n) /\ n <= Len(Steps[e]) /\ written = {} /\ ~lost
                        /\ pending = Writes(e, n)
      /\ tx = "none" => /\ pending = {}
                        /\ \/ written = Writes(e, n)
                           \/ /\ Current.op = "write"
                              /\ written = Writes(e, n) \cup {Current.name}
      /\ lost => written # {}
  BY <1>1, AtStep DEF AnswersInv, TypeOK, HandledOK
<1>3. /\ Current.op = "begin" => ~Began(e, n) /\ Writes(e, n) = {} /\ n # Len(Steps[e])
      /\ Current.op = "commit" <=> Began(e, n) /\ n = Len(Steps[e])
  BY <1>1, TableOrdered DEF WellOrdered, Current
<1>4. /\ n <= Len(Steps[e])
      /\ Current.op = "write" => W = Writes(e, n) \cup {Current.name}
      /\ Current.op # "write" => W = Writes(e, n)
      /\ Began(e, n + 1) <=> Began(e, n) \/ Current.op = "begin"
  <2>1. /\ W = IF Current.op = "write" THEN Writes(e, n) \cup {Current.name} ELSE Writes(e, n)
        /\ Began(e, n + 1) <=> Began(e, n) \/ Current.op = "begin"
    BY <1>1, StepOrder DEF Current
  <2>2. n <= Len(Steps[e])
    BY <1>1, TableLengths
  <2> QED  BY <2>1, <2>2
<1> DEFINE B == Began(e, n)
           C == Began(e, n + 1)
           V == Writes(e, n)
<1>5. CASE Current.op = "begin"
  <2>1. tx' = "open" /\ pending' = pending /\ written' = written
    BY <1>5 DEF Effect
  <2>2. tx = "none" /\ V = {} /\ W = {} /\ C /\ n + 1 <= Len(Steps[e])
    BY <1>1, <1>2, <1>3, <1>4, <1>5
  <2> QED  BY <1>1, <1>2, <1>5, <2>1, <2>2
<1>6. CASE Current.op = "commit"
  <2>1. tx' = "none" /\ pending' = {} /\ written' = written \cup pending
    BY <1>6 DEF Effect
  <2>2. tx = "open" /\ W = V /\ n = Len(Steps[e])
    BY <1>2, <1>3, <1>4, <1>6
  <2> QED  BY <1>1, <1>2, <2>1, <2>2
<1>7. CASE Current.op \in {"read", "write"} /\ tx = "open"
  <2>1. /\ tx' = "open" /\ written' = written
        /\ pending' = IF Current.op = "write" THEN pending \cup {Current.name} ELSE pending
    BY <1>7 DEF Effect, InTransaction
  <2>2. C /\ n + 1 <= Len(Steps[e])
    BY <1>1, <1>2, <1>3, <1>4, <1>7
  <2> QED  BY <1>1, <1>2, <1>4, <1>7, <2>1, <2>2
<1>8. CASE Current.op \in {"read", "write"} /\ tx = "none"
  <2>1. /\ tx' = "none" /\ pending' = pending
        /\ written' = IF Current.op = "write" THEN written \cup {Current.name} ELSE written
    BY <1>8 DEF Effect, InTransaction
  <2>2. ~C
    BY <1>2, <1>4, <1>8
  <2>3. written' = W
    BY <1>2, <1>4, <1>8, <2>1
  <2> QED  BY <1>1, <1>2, <1>8, <2>1, <2>2, <2>3
<1> QED  BY <1>1, <1>2, <1>5, <1>6, <1>7, <1>8

(* A request that has just arrived. *)
LEMMA InitInv == Init => AnswersInv
<1> SUFFICES ASSUME Init PROVE AnswersInv
  OBVIOUS
<1>1. /\ endpoint \in Endpoints /\ Len(Steps[endpoint]) \in Nat
      /\ Writes(endpoint, 1) = {} /\ ~Began(endpoint, 1)
  BY TableLengths DEF Init, Writes, Began
<1>2. TypeOK
  <2>1. at \in 1 .. (Len(Steps[endpoint]) + 1)
    BY <1>1 DEF Init
  <2> QED  BY <1>1, <2>1 DEF Init, TypeOK
<1>3. HandledOK
  BY <1>1 DEF Init, HandledOK
<1> QED  BY <1>2, <1>3
         DEF Init, AnswersInv, FailedOK, BusyOK, AtomicAnswer, RefusalChangesNothing,
             BusyMeansRetry, Answered

(* A check succeeds. *)
LEMMA PassKeeps == AnswersInv /\ Pass => AnswersInv'
<1> SUFFICES ASSUME AnswersInv, Pass PROVE AnswersInv'
  OBVIOUS
<1> USE DEF Pass, Proceed, db, outcome
<1>1. at \in DOMAIN Steps[endpoint] /\ Current.op = "check"
  BY DEF OnStep
<1>2. /\ endpoint \in Endpoints /\ at + 1 \in 1 .. (Len(Steps[endpoint]) + 1)
      /\ Writes(endpoint, at + 1) = Writes(endpoint, at)
      /\ Began(endpoint, at + 1) <=> Began(endpoint, at)
  BY <1>1, StepOrder DEF AnswersInv, TypeOK, Current
<1>3. tx # "none" => at + 1 <= Len(Steps[endpoint])
  BY <1>1, TableOrdered, TableLengths DEF AnswersInv, TypeOK, HandledOK, WellOrdered, Current
<1>4. tx = "none" => ~Began(endpoint, at + 1)
  BY <1>1, <1>2, AtStep
<1>5. TypeOK'
  BY <1>2 DEF AnswersInv, TypeOK
<1>6. HandledOK'
  BY <1>2, <1>3, <1>4 DEF AnswersInv, HandledOK
<1> QED  BY <1>5, <1>6
         DEF AnswersInv, FailedOK, BusyOK, AtomicAnswer, RefusalChangesNothing, BusyMeansRetry,
             Answered

(* All the ways a step may fail without any effect. *)
LEMMA FailuresKeep ==
  AnswersInv /\ (Refuse \/ NotSent \/ Break \/ Interrupt \/ FindOwnRow) => AnswersInv'
<1> SUFFICES ASSUME AnswersInv, Refuse \/ NotSent \/ Break \/ Interrupt \/ FindOwnRow
             PROVE  AnswersInv'
  OBVIOUS
<1>1. pc \in {"handling", "executing"} /\ at \in DOMAIN Steps[endpoint]
  BY DEF Refuse, NotSent, Break, Interrupt, FindOwnRow, OnStep, AnswersInv, HandledOK
<1>2. CASE \E e \in Current.fails : Fail(e, Cause(e))
  <2>1. PICK e \in Current.fails : Fail(e, Cause(e))
    BY <1>2
  <2> QED  BY <1>1, <2>1, CauseOfError, FailKeepsInv
<1>3. CASE \E e \in {"canceled", "txDone", "57014"} : Fail(e, "gone")
  <2>1. PICK e \in {"canceled", "txDone", "57014"} : Fail(e, "gone")
    BY <1>3
  <2> QED  BY <1>1, <2>1, FailKeepsInv
<1>4. CASE Fail("23505", "service")
  BY <1>1, <1>4, FailKeepsInv
<1> QED  BY <1>2, <1>3, <1>4 DEF Refuse, NotSent, Break, Interrupt, FindOwnRow

(* A statement succeeds. *)
LEMMA ReturnKeeps == AnswersInv /\ Return => AnswersInv'
<1> SUFFICES ASSUME AnswersInv, Return PROVE AnswersInv'
  OBVIOUS
<1> DEFINE n == at
           e == endpoint
           W == Writes(e, n + 1)
           B == Began(e, n + 1)
<1>1. /\ pc = "executing" /\ Effect /\ n' = n + 1 /\ pc' = "handling"
      /\ UNCHANGED <<endpoint, gone, lost, error, cause, status>>
  BY DEF Return, Proceed, outcome
<1>2. /\ n \in DOMAIN Steps[e]
      /\ tx' \in {"none", "open"}
      /\ tx' = "open" => B /\ n + 1 <= Len(Steps[e]) /\ written' = {} /\ ~lost /\ pending' = W
      /\ tx' = "none" => pending' = {} /\ written' = W /\ (B => n = Len(Steps[e]))
      /\ written \subseteq written'
  BY <1>1, EffectKeeps
<1>3. /\ e \in Endpoints /\ n + 1 \in 1 .. (Len(Steps[e]) + 1) /\ W \subseteq AllWrites(e)
      /\ n \in Nat
  <2>1. e \in Endpoints
    BY DEF AnswersInv, TypeOK
  <2> QED  BY <1>2, <2>1, StepOrder
<1>4. /\ gone \in BOOLEAN /\ lost \in BOOLEAN /\ status = 0 /\ cause = "none"
      /\ lost => written # {}
  BY <1>1 DEF AnswersInv, TypeOK, HandledOK
<1>5. TypeOK'
  BY <1>1, <1>2, <1>3, <1>4 DEF TypeOK
<1>6. HandledOK'
  BY <1>1, <1>2, <1>3, <1>4 DEF HandledOK
<1> QED  BY <1>1, <1>5, <1>6
         DEF AnswersInv, FailedOK, BusyOK, AtomicAnswer, RefusalChangesNothing, BusyMeansRetry,
             Answered

(* A statement succeeds and the handler hears that it has not. *)
LEMMA LoseAnswerKeeps == AnswersInv /\ LoseAnswer => AnswersInv'
<1> SUFFICES ASSUME AnswersInv, LoseAnswer PROVE AnswersInv'
  OBVIOUS
<1> DEFINE e == endpoint
           W == Writes(e, at + 1)
<1>1. /\ pc = "executing" /\ Effect /\ pc' = "failed" /\ cause' = "service" /\ lost' = TRUE
      /\ UNCHANGED <<endpoint, at, gone, status>>
      /\ Current.op = "commit" \/ (Current.op = "write" /\ tx # "open")
  BY DEF LoseAnswer, InTransaction
<1>2. /\ at \in DOMAIN Steps[e]
      /\ tx' = "none" => pending' = {} /\ written' = W
  BY <1>1, EffectKeeps
<1>3. tx' = "none" /\ tx \in {"none", "open"}
  BY <1>1 DEF Effect, AnswersInv, TypeOK, HandledOK
<1>4. Transactional(e) => W = AllWrites(e)
  <2>1. tx = "none" /\ Current.op = "write" => ~Transactional(e)
    BY <1>1, <1>2, AtStep
  <2>2. Current.op = "commit" => at = Len(Steps[e])
    BY <1>2, TableOrdered DEF WellOrdered, Current, AnswersInv, TypeOK
  <2> QED  BY <1>1, <1>3, <2>1, <2>2 DEF AllWrites
<1>5. e \in Endpoints /\ W \subseteq AllWrites(e)
  BY <1>2, StepOrder DEF AnswersInv, TypeOK
<1>6. TypeOK'
  BY <1>1, <1>2, <1>3, <1>5 DEF AnswersInv, TypeOK
<1>7. FailedOK'
  BY <1>1, <1>2, <1>3, <1>4 DEF FailedOK, Transactional, AllWrites, Writes
<1>8. status = 0
  BY <1>1 DEF AnswersInv, HandledOK
<1> QED  BY <1>1, <1>6, <1>7, <1>8
         DEF AnswersInv, HandledOK, BusyOK, AtomicAnswer, RefusalChangesNothing, BusyMeansRetry,
             Answered

(* A statement outside a transaction is sent again. *)
LEMMA RepeatKeeps == AnswersInv /\ Repeat => AnswersInv'
<1> SUFFICES ASSUME AnswersInv, Repeat PROVE AnswersInv'
  OBVIOUS
<1> USE DEF Repeat, outcome
<1>1. at \in DOMAIN Steps[endpoint] /\ tx = "none"
  BY DEF AnswersInv, HandledOK, TypeOK, OnStep, InTransaction
<1>2. Writes(endpoint, at + 1) = Writes(endpoint, at) \cup {Current.name}
  BY <1>1, StepOrder DEF AnswersInv, TypeOK, Current
<1>3. Current.name \in AllWrites(endpoint)
  BY <1>1, <1>2, StepOrder DEF AnswersInv, TypeOK, Current
<1>4. TypeOK'
  BY <1>3 DEF AnswersInv, TypeOK
<1>5. HandledOK'
  BY <1>1 DEF AnswersInv, HandledOK, OnStep, Current
<1> QED  BY <1>4, <1>5
         DEF AnswersInv, FailedOK, BusyOK, AtomicAnswer, RefusalChangesNothing, BusyMeansRetry,
             Answered

(* The handler has returned nil. *)
LEMMA AnswerKeeps == AnswersInv /\ Answer => AnswersInv'
<1> SUFFICES ASSUME AnswersInv, Answer PROVE AnswersInv'
  OBVIOUS
<1> USE DEF Answer, db
<1>1. status' \in {200, 204} /\ endpoint' = endpoint
  BY DEF SuccessStatus
<1>2. at = Len(Steps[endpoint]) + 1
  BY TableLengths DEF AnswersInv, TypeOK
<1>3. tx = "none" /\ pending = {} /\ written = AllWrites(endpoint) /\ cause = "none"
  BY <1>2, TableLengths DEF AnswersInv, TypeOK, HandledOK, AllWrites
<1>4. TypeOK'
  BY <1>1 DEF AnswersInv, TypeOK
<1>5. AtomicAnswer'
  BY <1>1, <1>3 DEF AtomicAnswer, Answered, AllWrites, Writes
<1>6. FailedOK' /\ RefusalChangesNothing' /\ BusyMeansRetry'
  <2>1. pc' = "answered" /\ cause' = "none"
    BY <1>3
  <2>2. \A s \in {200, 204} : s \notin 400 .. 599 /\ s \notin 400 .. 498
    OBVIOUS
  <2> HIDE DEF Answer
  <2>3. FailedOK'
    BY <1>1, <2>1, <2>2 DEF FailedOK, Answered
  <2>4. RefusalChangesNothing' /\ BusyMeansRetry'
    BY <1>1, <2>1, <2>2 DEF RefusalChangesNothing, BusyMeansRetry, Answered
  <2> QED  BY <2>3, <2>4
<1> QED  BY <1>1, <1>4, <1>5, <1>6 DEF AnswersInv, HandledOK, BusyOK

(* The handler has returned an error. *)
LEMMA HandleErrorKeeps == AnswersInv /\ HandleError => AnswersInv'
<1> SUFFICES ASSUME AnswersInv, HandleError PROVE AnswersInv'
  OBVIOUS
<1> USE DEF HandleError, db
<1>1. status' \in {400, 401, 404, 409, 413, 499, 500, 503, 504}
  BY StatusOfError
<1>2. /\ error = {"internal"} => status' = 500
      /\ error \in {{"retryable", "40P01"}, {"unavailable", "53300"}} => status' = 503
  BY StatusOfKnown
<1>3. TypeOK'
  BY <1>1 DEF AnswersInv, TypeOK
<1>4. FailedOK'
  BY <1>2 DEF AnswersInv, FailedOK, Answered, Transactional, AllWrites, Writes
<1>5. BusyMeansRetry'
  BY <1>2 DEF AnswersInv, BusyOK, BusyMeansRetry
<1>6. RefusalChangesNothing'
  BY <1>2 DEF AnswersInv, FailedOK, RefusalChangesNothing, Answered
<1>7. AtomicAnswer'
  <2>1. status' \notin 200 .. 299
    BY <1>1
  <2>2. Transactional(endpoint) => written = {} \/ (lost /\ written = AllWrites(endpoint))
    BY DEF AnswersInv, FailedOK
  <2>3. UNCHANGED <<endpoint, written, lost>>
    OBVIOUS
  <2> QED  BY <2>1, <2>2, <2>3 DEF AtomicAnswer, Answered
<1> QED  BY <1>1, <1>3, <1>4, <1>5, <1>6, <1>7 DEF AnswersInv, HandledOK, BusyOK

(* The steps of the client and of database/sql. *)
LEMMA OthersKeep == AnswersInv /\ (Leave \/ RollBack \/ Send \/ UNCHANGED vars) => AnswersInv'
<1> SUFFICES ASSUME AnswersInv, Leave \/ RollBack \/ Send \/ UNCHANGED vars PROVE AnswersInv'
  OBVIOUS
<1> USE DEF AnswersInv, TypeOK, HandledOK, FailedOK, BusyOK, AtomicAnswer, RefusalChangesNothing,
            BusyMeansRetry, Answered, db, outcome, vars, Current, OnStep
<1>1. CASE Leave
  BY <1>1 DEF Leave
<1>2. CASE RollBack
  BY <1>2 DEF RollBack
<1>3. CASE Send
  BY <1>3 DEF Send
<1>4. CASE UNCHANGED vars
  BY <1>4
<1> QED  BY <1>1, <1>2, <1>3, <1>4

(* Every step keeps the invariant. *)
LEMMA NextInv == AnswersInv /\ [Next]_vars => AnswersInv'
BY PassKeeps, FailuresKeep, ReturnKeeps, LoseAnswerKeeps, RepeatKeeps, AnswerKeeps, HandleErrorKeeps,
   OthersKeep DEF Next, HandlerStep, DatabaseStep

(* The inductive invariant holds of every request, whatever its endpoint. *)
THEOREM AnswersInvariant == Spec => []AnswersInv
BY InitInv, NextInv, PTL DEF Spec

(* A success means that all is written, an error of a transaction that nothing is,
   unless its commit was lost (reservation_repository.go:157). *)
THEOREM AtomicAnswers == Spec => []AtomicAnswer
<1>1. AnswersInv => AtomicAnswer
  BY DEF AnswersInv
<1> QED  BY <1>1, AnswersInvariant, PTL

(* An answer 4xx that the client receives stands for a request that has changed
   nothing (error_handler.go:16, user_handler.go:209). *)
THEOREM RefusalsChangeNothing == Spec => []RefusalChangesNothing
<1>1. AnswersInv => RefusalChangesNothing
  BY DEF AnswersInv
<1> QED  BY <1>1, AnswersInvariant, PTL

(* Deadlocks and refused connections on the way to a booking are answered with 503,
   with nothing written (errors.go:27). *)
THEOREM BusyIsRetried == Spec => []BusyMeansRetry
<1>1. AnswersInv => BusyMeansRetry
  BY DEF AnswersInv
<1> QED  BY <1>1, AnswersInvariant, PTL
=============================================================================
