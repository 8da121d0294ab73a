------------------------------- MODULE Answers -------------------------------
(***************************************************************************)
(* One request from its arrival to its answer: the steps of its endpoint   *)
(* in the order of the code, every way a step may fail, and how the        *)
(* failure becomes a status code on its way through the repository         *)
(* (wrapDBError), the service, the handler and the middleware (toStatus).  *)
(*                                                                         *)
(* Three others act beside the handler: the client may leave at any time,  *)
(* which cancels the context of the request; database/sql then rolls back  *)
(* the open transaction and lib/pq cancels the statement that runs; and    *)
(* connections break, before or after the database has done its work.      *)
(*                                                                         *)
(* What a statement does to the tables is left to the other modules.  Here *)
(* a statement that writes is its name, so that pending and written say    *)
(* how far the request has got when it is answered.                        *)
(***************************************************************************)
EXTENDS Naturals, Sequences

-----------------------------------------------------------------------------
(* An error is the set of the values that errors.Is and errors.As find in  *)
(* its chain.  What a step returns is first a single error of the driver,  *)
(* named by its SQLSTATE when PostgreSQL has sent it.                      *)
(* Faulty variant: only serialization failures are worth a retry.          *)
DeadlockUnclassified(code) ==
  CASE code = "23505" -> "conflict"
    [] code \in {"23503", "23514"} -> "validation"
    [] code = "40001" -> "retryable"
    [] code = "57014" -> "timeout"
    [] code \in {"53300", "08006", "08003"} -> "unavailable"
    [] OTHER -> "database"

classifyErrorOnRepository(code) ==
  CASE code = "23505" -> "conflict"
    [] code \in {"23503", "23514"} -> "validation"
    [] code \in {"40001", "40P01", "55P03"} -> "retryable"
    [] code = "57014" -> "timeout"
    [] code \in {"53300", "08006", "08003"} -> "unavailable"
    [] OTHER -> "database"

wrapDBError(e) ==
  CASE e = "noRows" -> {"notFound"}
    [] e \in {"canceled", "deadlineExceeded"} -> {e}
    [] e \in {"connDone", "txDone"} -> {"database"}
    [] e = "badConn" -> {"unavailable"}
    [] OTHER -> {classifyErrorOnRepository(e), e}

(* What becomes of error e where the code returns it: %w keeps it, %v      *)
(* drops it, errors.Join adds ErrBadRequest, and GetByTokenHash looks only *)
(* for sql.ErrNoRows.                                                      *)
Wrapped(how, e) ==
  CASE how = "classified" -> wrapDBError(e)
    [] how = "opaque" -> {"internal"}
    [] how = "joined" -> {"badRequest", e}
    [] how = "token" -> IF e = "noRows" THEN {"notFound"} ELSE {e}
    [] OTHER -> {e}

(* The cases of toStatus, in their order. *)
Cases ==
  <<<<"maxBytes", 413>>, <<"syntax", 400>>, <<"unmarshalType", 400>>,
    <<"canceled", 499>>, <<"deadlineExceeded", 504>>, <<"conflict", 409>>,
    <<"validation", 400>>, <<"retryable", 503>>, <<"timeout", 504>>,
    <<"unavailable", 503>>, <<"notFound", 404>>, <<"insufficientTickets", 409>>,
    <<"unauthorized", 401>>, <<"internal", 500>>, <<"badRequest", 400>>>>

(* The status of error err when the client is gone or not.  A cancelled    *)
(* context that is not the request's own is a fault of the service.        *)
toStatus(err, left) ==
  IF \E i \in DOMAIN Cases : Cases[i][1] \in err
  THEN LET i == CHOOSE k \in DOMAIN Cases :
                  /\ Cases[k][1] \in err
                  /\ \A j \in 1 .. (k - 1) : Cases[j][1] \notin err
       IN  IF Cases[i][1] = "canceled" /\ ~left THEN 500 ELSE Cases[i][2]
  ELSE 500

-----------------------------------------------------------------------------
(* The steps.  A check runs in the handler; begin, read, write and commit  *)
(* wait for the database.  fails are the errors it may return beside those *)
(* of a client that leaves.                                                *)
Step(op, name, how, fails) == [op |-> op, name |-> name, how |-> how, fails |-> fails]

Check(name, how, fails) == Step("check", name, how, fails)

(* A connection that breaks is driver.ErrBadConn or an error of net; a new *)
(* one may be refused because there are too many.                          *)
Broken == {"badConn", "network"}
Connect == Broken \cup {"53300"}

AuthRequired == Check("AuthRequired", "kept", {"unauthorized"})
Decode == Check("Decode", "joined", {"maxBytes", "syntax", "unmarshalType", "eof"})
ParseID == Check("Parse", "kept", {"badRequest"})
AnyRow == Check("AnyRow", "kept", {"notFound"})

BeginTx(how) == Step("begin", "BeginTx", how, Connect)
Commit == Step("commit", "Commit", "classified", Broken)

(* A query or a lookup of one row, outside a transaction. *)
Query(name) == Step("read", name, "classified", Connect)
Lookup(name, how) == Step("read", name, how, Connect \cup {"noRows"})

GenerateAccessToken == Check("GenerateAccessToken", "opaque", {"signing"})

(* GenerateRefreshToken *)
SaveToken == Step("write", "saveToken", "opaque", Connect)

(* The look-ups and queries of the repositories for users, games and seats. *)
FindUserByID == Lookup("FindUserByID", "classified")
GetUserByEmail == Lookup("GetUserByEmail", "classified")
GetAllGames == Query("GetAllGames")
GetGameByID == Lookup("GetGameByID", "classified")
GetSeatsByGameID == Query("GetSeatsByGameID")
ValidateRefreshToken == Lookup("ValidateRefreshToken", "token")

(* The steps of each handler. *)
HealthCheck == <<>>

HandleUserSignup ==
  <<Decode, Check("HashPassword", "opaque", {"tooLong"}),
    Step("write", "CreateUser", "classified", Connect \cup {"23505", "22001"}),
    GenerateAccessToken, SaveToken>>

HandleUserLogin ==
  <<Decode, GetUserByEmail, Check("CheckPassword", "kept", {"unauthorized"}),
    GenerateAccessToken, SaveToken>>

(* RotateRefreshToken validates the token once more before it revokes it. *)
HandleRefreshToken ==
  <<Check("Cookie", "kept", {"unauthorized"}), ValidateRefreshToken, ValidateRefreshToken,
    Step("write", "RevokeByTokenHash", "opaque", Connect), SaveToken, GenerateAccessToken>>

HandleGetUser == <<AuthRequired, FindUserByID>>

HandleGetAllGames == <<GetAllGames>>

HandleGetGameByID == <<ParseID, GetGameByID>>

HandleGetSeatsByGameID == <<ParseID, GetSeatsByGameID>>

HandleCreateReservation ==
  <<AuthRequired, Decode, Check("Quantities", "kept", {"validation"}), BeginTx("classified"),
    Step("read", "selectAvailableTickets", "classified", Broken \cup {"40P01"}),
    Check("EnoughTickets", "kept", {"insufficientTickets"}),
    Step("write", "insertReservation", "classified", Broken \cup {"23503"}),
    Step("write", "updateTickets", "classified", Broken \cup {"42601"}), Commit>>

HandleGetUserReservations ==
  <<AuthRequired, Step("read", "GetUserReservations", "kept", Connect),
    Step("read", "rows", "classified", Broken), AnyRow>>

HandleGetReservationByID == <<AuthRequired, ParseID, Query("GetReservationByID"), AnyRow>>

HandlePurchaseReservation ==
  <<AuthRequired, ParseID, BeginTx("classified"),
    Step("write", "purchaseReservation", "classified", Broken \cup {"40P01"}), AnyRow, Commit>>

HandleCancelReservation ==
  <<AuthRequired, ParseID, BeginTx("kept"),
    Step("write", "cancelReservation", "classified", Broken \cup {"40P01"}), AnyRow, Commit>>

(* Routes *)
Steps ==
  [health |-> HealthCheck, signup |-> HandleUserSignup, login |-> HandleUserLogin,
   refresh |-> HandleRefreshToken, me |-> HandleGetUser, games |-> HandleGetAllGames,
   game |-> HandleGetGameByID, seats |-> HandleGetSeatsByGameID,
   reserve |-> HandleCreateReservation, history |-> HandleGetUserReservations,
   reservation |-> HandleGetReservationByID, purchase |-> HandlePurchaseReservation,
   cancel |-> HandleCancelReservation]

Endpoints == DOMAIN Steps

SuccessStatus(e) == IF e = "cancel" THEN 204 ELSE 200

(* The names of the statements of endpoint e before position n that write. *)
Writes(e, n) == {Steps[e][i].name : i \in {j \in 1 .. (n - 1) : Steps[e][j].op = "write"}}

AllWrites(e) == Writes(e, Len(Steps[e]) + 1)

Transactional(e) == \E i \in DOMAIN Steps[e] : Steps[e][i].op = "begin"

(* Who has caused error e: the client with what it asks for or sends, two  *)
(* transactions that wait for each other, too many requests, or a fault of *)
(* the service.                                                            *)
Cause(e) ==
  CASE e \in {"maxBytes", "syntax", "unmarshalType", "eof", "badRequest", "validation",
              "unauthorized", "notFound", "noRows", "insufficientTickets", "tooLong",
              "23505", "23503", "22001", "42601"} -> "client"
    [] e = "40P01" -> "contention"
    [] e = "53300" -> "overload"
    [] OTHER -> "service"
-----------------------------------------------------------------------------
VARIABLES
  endpoint,  \* the endpoint of the request
  at,        \* position of its current step
  pc,        \* "handling"; "executing": the database has the step's statement
  gone,      \* the client has left: the context of the request is cancelled
  tx,        \* "none", "open", "rolledBack" by database/sql
  pending,   \* what the open transaction has written
  written,   \* what the request has written for good
  lost,      \* the database has done something and the handler did not hear it
  error,     \* the error that the handler returns
  cause,     \* who caused it (history)
  status     \* of the answer, 0 while there is none

db == <<tx, pending, written, lost>>
outcome == <<error, cause, status>>
vars == <<endpoint, at, pc, gone, db, outcome>>

(* The module follows one request: those that run at the same time meet    *)
(* only in the tables.                                                     *)
Init ==
  /\ endpoint \in Endpoints /\ at = 1
  /\ pc = "handling" /\ gone = FALSE
  /\ tx = "none" /\ pending = {} /\ written = {} /\ lost = FALSE
  /\ error = {} /\ cause = "none" /\ status = 0

Current == Steps[endpoint][at]

OnStep(ops) == at \in DOMAIN Steps[endpoint] /\ Current.op \in ops

Statements == {"begin", "read", "write", "commit"}

(* The connection of the client breaks, or the client closes it. *)
Leave ==
  /\ pc # "answered"
  /\ ~gone
  /\ gone' = TRUE
  /\ UNCHANGED <<endpoint, at, pc, db, outcome>>

(* awaitDone of database/sql.  A statement that runs ends first, and a     *)
(* commit that runs has taken the transaction from it.                     *)
RollBack ==
  /\ gone
  /\ tx = "open"
  /\ pc = "handling"
  /\ tx' = "rolledBack"
  /\ pending' = {}
  /\ UNCHANGED <<endpoint, at, pc, gone, written, lost, outcome>>

Proceed ==
  /\ at' = at + 1
  /\ pc' = "handling"

(* Faulty variant: defer tx.Commit(). *)
WrittenOnReturn == written \cup pending

(* The deferred tx.Rollback() leaves what was written without it. *)
WrittenOnError == written

(* The step returns error e and the handler returns it. *)
Fail(e, by) ==
  /\ error' = Wrapped(Current.how, e)
  /\ cause' = by
  /\ pc' = "failed"
  /\ tx' = "none"
  /\ written' = WrittenOnError
  /\ pending' = {}
  /\ UNCHANGED <<endpoint, at, gone, lost, status>>

-----------------------------------------------------------------------------
Pass ==
  /\ pc = "handling"
  /\ OnStep({"check"})
  /\ Proceed
  /\ UNCHANGED <<endpoint, gone, db, outcome>>

Refuse ==
  /\ pc = "handling"
  /\ OnStep({"check"})
  /\ \E e \in Current.fails : Fail(e, Cause(e))

(* The statement is sent, unless the context is cancelled by then. *)
Send ==
  /\ pc = "handling"
  /\ OnStep(Statements)
  /\ ~gone
  /\ pc' = "executing"
  /\ UNCHANGED <<endpoint, at, gone, db, outcome>>

(* Of a transaction that was rolled back meanwhile the handler may be told *)
(* instead that it is over.                                                *)
NotSent ==
  /\ pc = "handling"
  /\ OnStep(Statements)
  /\ gone
  /\ \/ Fail("canceled", "gone")
     \/ tx = "rolledBack" /\ Fail("txDone", "gone")

(* Faulty variant: the UPDATE of the tickets runs on the pool. *)
OutsideForTickets == tx = "open" /\ Current.name # "updateTickets"

(* The statement belongs to the transaction. *)
InTransaction == tx = "open"

(* The database does what the statement says. *)
Effect ==
  /\ tx' = CASE Current.op = "begin" -> "open"
             [] Current.op = "commit" -> "none"
             [] OTHER -> tx
  /\ pending' = CASE Current.op = "commit" -> {}
                  [] Current.op = "write" /\ InTransaction -> pending \cup {Current.name}
                  [] OTHER -> pending
  /\ written' = CASE Current.op = "commit" -> written \cup pending
                  [] Current.op = "write" /\ ~InTransaction -> written \cup {Current.name}
                  [] OTHER -> written

(* It may be done before the client's leaving reaches the database.  An    *)
(* insert does not succeed twice: its id is the same.                      *)
Return ==
  /\ pc = "executing"
  /\ Current.name \in written => Current.name = "RevokeByTokenHash"
  /\ Effect
  /\ Proceed
  /\ UNCHANGED <<endpoint, gone, lost, outcome>>

(* It fails and changes nothing. *)
Break ==
  /\ pc = "executing"
  /\ \E e \in Current.fails : Fail(e, Cause(e))

(* Faulty variant: the statements run with context.Background(). *)
Detached == FALSE

(* The statements run with the context of the request. *)
Cancelled == gone

(* lib/pq cancels the statement that runs, even one that waits for a lock. *)
(* The error is PostgreSQL's, or that of the context.                      *)
Interrupt ==
  /\ pc = "executing"
  /\ Cancelled
  /\ \E e \in {"57014", "canceled"} : Fail(e, "gone")

(* The connection breaks after the database has committed.  The handler    *)
(* sees an error... *)
LoseAnswer ==
  /\ pc = "executing"
  /\ Current.op = "commit" \/ (Current.op = "write" /\ ~InTransaction)
  /\ error' \in {Wrapped(Current.how, e) : e \in Broken}
  /\ cause' = "service"
  /\ pc' = "failed"
  /\ Effect
  /\ lost' = TRUE
  /\ UNCHANGED <<endpoint, at, gone, status>>

(* ... or, where the statement is not in a transaction, database/sql takes *)
(* another connection and repeats it; an insert then finds its own row.    *)
Repeat ==
  /\ pc = "executing"
  /\ Current.op = "write"
  /\ ~InTransaction
  /\ written' = written \cup {Current.name}
  /\ lost' = TRUE
  /\ UNCHANGED <<endpoint, at, pc, gone, tx, pending, outcome>>

FindOwnRow ==
  /\ pc = "executing"
  /\ Current.name \in written \ {"RevokeByTokenHash"}
  /\ Fail("23505", "service")

-----------------------------------------------------------------------------
(* toHandler: the handler has returned nil... *)
Answer ==
  /\ pc = "handling"
  /\ at > Len(Steps[endpoint])
  /\ status' = SuccessStatus(endpoint)
  /\ pc' = "answered"
  /\ UNCHANGED <<endpoint, at, gone, db, error, cause>>

(* ... or an error. *)
HandleError ==
  /\ pc = "failed"
  /\ status' = toStatus(error, gone)
  /\ pc' = "answered"
  /\ UNCHANGED <<endpoint, at, gone, db, error, cause>>

(* What the handler and the database go on to do with a request by         *)
(* themselves.                                                             *)
HandlerStep == Pass \/ Refuse \/ Send \/ NotSent \/ Answer \/ HandleError

DatabaseStep == Return \/ Break \/ LoseAnswer \/ Repeat \/ FindOwnRow

Next ==
  \/ Leave
  \/ RollBack
  \/ HandlerStep
  \/ DatabaseStep
  \/ Interrupt
  \/ pc = "answered" /\ UNCHANGED vars

Spec == Init /\ [][Next]_vars

(* Fairness: the goroutine of the handler goes on, and a statement that is *)
(* cancelled ends.  A statement that is not may wait for a lock for ever,  *)
(* and a client need not leave.                                            *)
FairSpec == Spec /\ WF_vars(HandlerStep) /\ WF_vars(RollBack) /\ WF_vars(Interrupt)

-----------------------------------------------------------------------------
Answered(S) == pc = "answered" /\ status \in S

(* A success is answered only when every statement of the endpoint has     *)
(* taken effect for good.  An endpoint that uses a transaction answers     *)
(* any error with nothing written, unless the database has committed and   *)
(* its answer was lost; then everything is written.                        *)
AtomicAnswer ==
  /\ Answered(200 .. 299) => written = AllWrites(endpoint)
  /\ pc = "answered" /\ Transactional(endpoint) =>
       \/ written = {}
       \/ written = AllWrites(endpoint) /\ (lost \/ status < 400)

(* An answer that refuses the request (4xx) has changed nothing: the       *)
(* client that is told of a conflict, of missing tickets or of an unknown  *)
(* reservation may believe it.  What was written stays behind only an      *)
(* answer that is lost or tells of a fault of the service: the account of  *)
(* a sign-up whose token cannot be saved, a revoked refresh token.         *)
RefusalChangesNothing == Answered(400 .. 498) /\ ~lost => written = {}

(* On the way to a booking, a request that fails because the database has  *)
(* too many connections or because it has ended a deadlock is told to come *)
(* back (503), and has written nothing: it may be sent again as it is.     *)
BookingPath == {"games", "game", "seats", "reserve", "reservation", "purchase"}

BusyMeansRetry ==
  pc = "answered" =>
    /\ cause = "contention" => status = 503 /\ written = {}
    /\ cause = "overload" /\ endpoint \in BookingPath => status = 503 /\ written = {}

(* The client of a request that fails for a reason of its own, its input   *)
(* or its leaving, is answered with a 4xx and logged as a warning          *)
(* (docs/adr/002-availability-definition-sli.md:35).  The runs refute it.  *)
LogLevel(code) ==
  CASE code >= 400 /\ code < 500 -> "warn"
    [] code >= 500 -> "error"
    [] OTHER -> "access"

UserFaultsAre4xx ==
  pc = "answered" /\ cause \in {"client", "gone"} => LogLevel(status) = "warn"

(* The request of a client that has left is over at some time, and with it *)
(* its transaction and the row locks that others wait for, even where its  *)
(* own statement waits for a lock that is never released.                  *)
AbandonedRequestsEnd == gone /\ pc # "answered" ~> pc = "answered" /\ tx = "none"

-----------------------------------------------------------------------------
(* The inductive invariant.                                                *)
Began(e, n) == \E i \in 1 .. (n - 1) : Steps[e][i].op = "begin"

(* What the order of the steps of endpoint e has to be like: a transaction *)
(* begins before anything is written, and its commit is the last step; an  *)
(* endpoint without one hides the errors of all that follows its first     *)
(* write.                                                                  *)
WellOrdered(e) ==
  \A n \in DOMAIN Steps[e] :
    /\ Steps[e][n].op \in Statements \cup {"check"}
    /\ Steps[e][n].op = "begin" => ~Began(e, n) /\ Writes(e, n) = {} /\ n # Len(Steps[e])
    /\ Steps[e][n].op = "commit" <=> Began(e, n) /\ n = Len(Steps[e])
    /\ Steps[e][n].op = "write" => Steps[e][n].name \notin Writes(e, n)
    /\ ~Began(e, n) /\ Writes(e, n) # {} => Steps[e][n].how = "opaque"

(* The errors that ask for a retry are classified, and come before         *)
(* anything is written for good.                                           *)
RetryOrdered(e) ==
  \A n \in DOMAIN Steps[e] :
    /\ "40P01" \in Steps[e][n].fails => Began(e, n) /\ Steps[e][n].how = "classified"
    /\ "53300" \in Steps[e][n].fails /\ e \in BookingPath =>
         /\ Steps[e][n].op \in {"begin", "read"}
         /\ Writes(e, n) = {}
         /\ Steps[e][n].how = "classified"

TypeOK ==
  /\ endpoint \in Endpoints
  /\ at \in 1 .. (Len(Steps[endpoint]) + 1)
  /\ pc \in {"handling", "executing", "failed", "answered"}
  /\ gone \in BOOLEAN /\ lost \in BOOLEAN
  /\ tx \in {"none", "open", "rolledBack"}
  /\ pending \subseteq AllWrites(endpoint) /\ written \subseteq AllWrites(endpoint)
  /\ cause \in {"none", "client", "gone", "contention", "overload", "service"}
  /\ status \in Nat

(* While it is handled, the request has written what its steps so far      *)
(* write, in its transaction or for good.                                  *)
HandledOK ==
  pc \in {"handling", "executing"} =>
    /\ status = 0 /\ cause = "none"
    /\ lost => written # {}
    /\ pc = "executing" => OnStep(Statements)
    /\ tx # "none" => Began(endpoint, at) /\ at <= Len(Steps[endpoint]) /\ written = {} /\ ~lost
    /\ tx = "rolledBack" => gone /\ pending = {} /\ pc = "handling"
    /\ tx = "open" => pending = Writes(endpoint, at)
    /\ tx = "none" =>
         /\ pending = {}
         /\ Began(endpoint, at) => at = Len(Steps[endpoint]) + 1
         /\ \/ written = Writes(endpoint, at)
            \/ /\ lost /\ pc = "executing" /\ Current.op = "write"
               /\ written = Writes(endpoint, at) \cup {Current.name}

(* Once it has failed, a transaction has written nothing, or everything    *)
(* but the answer was lost; what was written without one is behind an      *)
(* error that no refusal is made of.                                       *)
FailedOK ==
  pc = "failed" \/ Answered(400 .. 599) =>
    /\ tx = "none" /\ pending = {}
    /\ Transactional(endpoint) => written = {} \/ (lost /\ written = AllWrites(endpoint))
    /\ written = {} \/ lost \/ (error = {"internal"} /\ status \in {0, 500})

(* The errors that ask for a retry. *)
BusyOK ==
  pc = "failed" =>
    /\ status = 0
    /\ cause = "contention" => error = {"retryable", "40P01"} /\ written = {}
    /\ cause = "overload" /\ endpoint \in BookingPath =>
         error = {"unavailable", "53300"} /\ written = {}

AnswersInv ==
  /\ TypeOK
  /\ HandledOK
  /\ FailedOK
  /\ BusyOK
  /\ pc = "answered" => status \in {200, 204} \cup 400 .. 599
  /\ AtomicAnswer
  /\ RefusalChangesNothing
  /\ BusyMeansRetry
=============================================================================
