# Sports ticket API: models, checks and proofs

The repository is a Go HTTP service on PostgreSQL that sells seats for sports
games. A user reserves seats for a limited time (a *hold*, `HOLDTIME`, 15 minutes), purchases or cancels
them, and a background goroutine (the *sweeper*) gives lapsed holds back. This
directory holds TLA+ modules of the parts whose correctness depends on the
order of concurrent steps, the TLC configurations that check them on small
instances, and proofs that TLAPS checks for all values of the constants.

Paths below are relative to `src/`.

## 1. The system

| Part | State | Operations | Talks to |
|---|---|---|---|
| Reservation store: `internal/repository/reservation_repository.go`, its service and handlers | tables `tickets` (status, reservation_id) and `reservations` (user, status, expires_at) | create, purchase, cancel (one transaction each, several statements), sweep (one statement) | PostgreSQL row locks; other handlers, on the same or other servers; the sweeper |
| Reservation reads: the same files, `domain/reservations.go` | none | history, read by id | the tables, and two clocks: the database's and `time.Now()` |
| Server process: `cmd/server/main.go`, `otel.go` | resources set up, `errCh`, `signalCtx`, exit code | set-up, serve, shutdown, deferred releases | net/http, signals, the sweeper goroutine |
| Accounts: `user_handler.go`, `user_service.go`, `user_repository.go`, `authbundle/auth_bundle.go` | tables `users`, `refresh_tokens`; the clients' cookies | sign-up, log-in, refresh (several single-statement transactions each) | PostgreSQL unique constraints |
| Games and seats: `game_*.go`, `seats_*.go` | tables only the seed tool writes | lists, seat counts | the tables |
| Requests and answers: the handlers, `error_handler.go`, `logging_middleware.go`, `repository/errors.go` | one request: its context, its transaction, its error | the steps of the 13 endpoints, error classes to status codes | clients that leave, connections that break |
| Seed tool: `cmd/seed/main.go` | all tables | clears and fills them, one statement at a time | PostgreSQL; the service, if it is up |
| Configuration: `config/config.go` | fixed at start | read once | none |

Handlers keep nothing between requests. Everything two requests share is in
the database, so components interact through committed rows, row locks and
unique constraints. The exceptions are the goroutines of one server process,
which share a channel and a context.

What is hard about each part, and what makes it correct:

* **Store.** Bookings, purchases, cancellations and sweeps race on two tables
  whose rows are locked in different orders. At READ COMMITTED a statement that
  has waited for a row checks that row again, but its sub-queries keep the old
  snapshot, and `NOW()` stays the time of BEGIN. It is correct if the two tables
  agree, a running hold keeps its tickets, no ticket is sold twice, a
  reservation is settled once and by its owner, every transaction ends, and
  lapsed holds are given back.
* **Reads.** The clock is read after the rows. An answer has to be one committed
  state, and a hold shown as expired should not be pending to a request that looks
  at it afterwards.
* **Process.** Ten set-up steps may fail; a signal, a listener error and the
  30-second limit may coincide. Everything is released once and in order, the
  database only when nobody uses it, and the exit code tells of every error that
  main could learn of.
* **Accounts.** Handlers are sequences of separate transactions: a clash of
  sign-ups, overlapping refreshes of one cookie, or a failure half-way must not
  mix up users or make a good cookie useless.
* **Requests and answers.** A client may leave at any moment: the context is
  cancelled, database/sql rolls back behind the handler's back and lib/pq
  interrupts the statement, while the error travels through four layers that
  wrap, join or drop it. It is correct if the answer is true of what was written,
  a refusal has changed nothing, a busy service says so, and nobody holds locks for a client
  that is gone.
* **Seed tool.** A long series of single statements without a transaction; a
  killed run leaves any prefix of them, a lost answer leaves a row that the tool does not know of, and
  the service may sell the first tickets before the last one is there. It is
  correct if success means exactly one program of games, and repeating it
  repairs every failure.

`PROJECT.json` lists every component, every hazard with its source line and
the properties that cover it, and for every definition the lines it models.

## 2. Modules

| Module | Models |
|---|---|
| `Tables` | committed contents of `tickets` and `reservations`, the clock, the conditions the SQL shares, and the properties of the tables. It has no actions. |
| `Bookings` | the abstract specification: reserve, purchase, cancel and expire as one atomic step each |
| `ReservationStore` | the same four operations statement by statement |
| `SeatMarket` | the more abstract specification: seats that are free, held or sold |
| `ReservationReads` | both GET endpoints, running beside `Bookings` |
| `StoreReads` | the same readers, running beside the transactions of `ReservationStore` |
| `ServerLifecycle` | one run of the server process |
| `Accounts` | sign-up, log-in, refresh, the two tables and the cookies |
| `Sessions` | what these promise together: who is logged in as whom, and why |
| `Answers` | one request to any endpoint, with its failures, its client and its answer |
| `Seed` | repeated, interrupted runs of the seed tool beside a service that takes bookings |
| `MC*` | small instances and symmetry sets for TLC |
| `*_proofs` | theorems and proofs about the module of that name |

### ReservationStore

State: the variables of `Tables`, one record per CreateReservation call
(`create`) and one per purchase, cancellation or sweep (`update`). The records
hold what the transaction knows and locks. Nothing is written to the tables
before the commit, because no one else could see it.

| Action | Code |
|---|---|
| `AdmitCreate` | handler and service: validation, the sum of quantities, the deadline (`reservation_service.go`) |
| `BeginCreate` | `BeginTx`; fixes `NOW()` |
| `SelectAvailableTickets`, `LockTicket` | one `SELECT ... LIMIT n FOR UPDATE OF tickets` per seat entry: snapshot first, then the rows one by one |
| `GiveUpCreate` | too few tickets, or no entry at all: deferred `Rollback` |
| `CommitCreate` | INSERT, UPDATE, COMMIT: none of these can wait |
| `BeginPurchase`, `BeginCancel`, `ExecuteUpdate` | BEGIN and the start of the CTE statement, with its snapshot |
| `ExpiredReservations` | the sweep's single statement |
| `UpdateReservation`, `UpdateTicket` | the CTE and the outer UPDATE lock one more row and check it again |
| `CommitPurchase`, `CommitCancel`, `CommitSweep`, `GiveUpUpdate` | the end of the statement, the row count, COMMIT or Rollback |
| `AbortCreate`, `AbortUpdate` | any error, a cancelled context, a deadlock victim, a crash |

A server that crashes is an abort of all its transactions, since the tables are the
only state that survives.

**What is assumed of PostgreSQL** (outside the repository, modelled from how
the statements use it): READ COMMITTED snapshots per statement, row locks held
to the end of the transaction, the re-check of a row on its latest version after
a wait, `NOW()` fixed at BEGIN, first-come lock queues and deadlock detection.
The rows of a scan are visited in any order.

`Bookings` is what these transactions promise. `KeepsPromise` says that
ReservationStore implements it under the identity mapping of the shared
variables: each commit is one atomic operation, everything else a stutter.
`Purchase` in `Bookings` deliberately does not compare the clock with the
deadline: see the first finding. A deadline in `Reserve` may have passed
already, since the service computes it before the transaction waits for locks.

Integers have a width where the code adds them up: `AsInt` wraps a sum around at
`IntMax`, as Go's `int` does, so a request whose quantities add up to a negative
total passes the check against `MAXSEATS` (`store_contention` has one).

### SeatMarket

What the buyers are promised, without rows, deadlines or sweeps: bookings take
free seats all at once, a purchase buys what is held, a cancellation or a lapse
frees all the seats of one reservation. `SeatOf` (in `Tables`) maps the two
tables to it: a ticket is *sold* if its status says so, *held* if it is reserved
and the deadline of its reservation is not over, *free* otherwise. Under this mapping time
itself is what ends a hold, so `Tick` implements `Lapse` and the sweep is a
stutter: no buyer can tell whether it has run. `SellsSeats` is the refinement,
checked for the store in `store_race` and proved for `Bookings` and the store.
`Buy` of free seats is the late purchase of finding 1.

### ReservationReads

Each endpoint is one SELECT (one committed state). For the history, two steps
then look at the clock, `ScanRows` (the loop in the repository marks lapsed holds) and
`MarkExpired` (the service applies `EffectiveStatus`), and a third, `AnswerList`,
sends what was decided, while other requests are read and answered in between. The writers are the
atomic operations of `Bookings`. The latest answer and the holds shown as expired
are kept as history variables, and each request notes (`seen`) what had been shown
when it read the clock.

### StoreReads

The composition that the service runs: every transaction of ReservationStore is
at some statement, and the readers take their SELECTs and steps in between
(`StoreStep`, `ReadStep`). A SELECT without FOR UPDATE waits for no lock and sees only what
is committed, so a reader shares the tables and nothing else with the
transactions. `ReadsSeeOperations` says that this system implements
ReservationReads with every statement but the commits as a stutter; it is a theorem
(section 5), so what holds of answers beside `Bookings` holds of the service.

### ServerLifecycle

`main` is the program counter of main/realMain/run; `todo` is the list of
releases and deferred calls; `shutdownFuncs` is the slice of `setupOtelSDK`. The
goroutine that serves, the sweeper and a handler per connection take steps
beside it. What a handler or sweep does to the tables is left to ReservationStore,
where a process that stops is an abort. net/http is external: `Shutdown` returns nil
when the listener is closed and no connection is left, an idle connection may
still bring a request until Shutdown closes it, and `ListenAndServe` returns
`ErrServerClosed` once Shutdown was called. `ListenAndServe` and `SendError` are two
steps: its goroutine may hold an error for a while before it is in `errCh`. `failed`
and `missed` are history variables: something has failed, and main has looked at
`errCh` for the last time while the goroutine held an error.

### Accounts

`request` holds for each handler what it does next and what it knows. Each
statement is a step of its own, because the code has no transaction around them:
`CreateUser`, `AuthenticateUser`, `ValidateRefreshToken`, `RotateRefreshToken`
(the second validation), `RevokeByTokenHash`, `GenerateRefreshToken`,
`SetAuthCookies`, and `FailRequest` between any two of them. `cookies` is what
the clients' browsers hold. `rotated` and `cut` are history variables that only
the properties read.

`Sessions` is the abstract specification. It has no tables, tokens or handlers:
`Send` fills in a form; only with a form that it has sent, `Register` and `LogIn` give
a client standing for an account; `Answered` logs it in to an account it has standing
for, and `Unanswered` ends requests without one. `Accounts` implements it
(`KeepsSessions`). A client's standing (`Standing`) is read off its
cookies, what its handlers know, and the owners of the refresh tokens that its
requests have brought; so a token that reached another client's request, an answer
built for another user than the cookie's, or a log-in without the password would be
a step that `Sessions` does not have. What a password or an owner means is the
same in both: the row of `users`, which `Sessions` never changes once it is made.

### Answers

`Steps` gives each endpoint the sequence of its steps, one definition per
handler: checks that run in the handler, and statements (begin, read, write, commit) that wait for the
database. Each step has the errors it may return and how the code wraps them on the
way (`classified` by `wrapDBError`, `kept`, `opaque`, `joined`, `token`); an error is the
set of what `errors.Is` finds in it, and `toStatus` takes the first case that
matches.

| Action | Code |
|---|---|
| `Pass`, `Refuse` | a check in the handler or service |
| `Send`, `NotSent` | database/sql looks at the context before it sends a statement |
| `Return`, `Break` | the statement takes effect, or fails without one |
| `Leave` | the client closes its connection at any moment; net/http cancels the context |
| `RollBack` | database/sql's `awaitDone`, concurrently with the handler |
| `Interrupt` | lib/pq cancels the running statement |
| `LoseAnswer` | the connection breaks after the database has committed |
| `Repeat`, `FindOwnRow` | database/sql sends a statement outside a transaction again; an INSERT then meets its own row |
| `Answer`, `HandleError` | `toHandler` and the middleware |

What database/sql, lib/pq and net/http do is external and modelled from how the
code uses them. A statement that writes is its name: `pending` and `written` say how far
the request has got; what it does to the rows is the other modules' matter. `lost` and
`cause` are history: something was done that the handler did not hear of, and
who has caused the failure. One request is enough, because requests meet only in
the tables; a lock that another one holds is a statement that does not return.

### Seed

`db` holds the committed rows, `phase` and `k` the function and its loop counter,
`todo` the games and seats still without a ticket (the tool iterates over a Go
map, so in any order of seats). Every INSERT is a step that may take effect, fail
without effect (`Fail`, also a killed process), or take effect and lose its
answer; then it is sent again with the same key and refused. `Start` repeats the
tool from whatever is there. `Book` is the service, external to the tool. Runs do
not overlap: it is a tool an operator starts by hand.

## 3. Runs

| Run | Instance | Shows |
|---|---|---|
| `store_race` | 2 tickets, 2 reservations, 1 creator, 1 caller, 1 sweeper, 2 users, clock to 2 | types, `BookingConsistent`, `HoldProtected`, `NoDoubleSale`, `SettledOnce`, `SoldStaysSold`, `NoEarlyExpiry`, `OwnerSettles`, and the refinements `KeepsPromise` and `SellsSeats` |
| `store_contention` | 3 tickets of two grades, 3 reservations, 2 creators, 1 sweeper, clock to 2, one request with an overflowing total | the inductive invariants `StoreInv` and `GrantInv`; `HoldProtected`; `GrantMatchesRequest`, `GrantWithinLimit` when two bookings with several entries lock the grades in opposite orders |
| `store_live` | 2 tickets of two grades, 2 reservations, 2 creators, 1 caller, 1 sweeper, two of them at a time, clock to 2, fair, no symmetry | `TransactionsEnd`, `LapsedHoldSettled` |
| `lifecycle` | 2 connections, fair | `LifecycleInv`, `NothingLeaked`, `ReleaseInv`, `YoungestReleasedFirst`, `CleanStopIsQuiet`, `ExitCodeHonest`, `Stops` |
| `reads` | 2 readers, 2 tickets, 2 reservations, clock to 2 | `ReadsInv`, `ShownWhole`, `HistoryNeverGoesBack` |
| `accounts` | 2 handlers, 2 clients, 2 users, 3 tokens, clashing forms | `AccountsInv`, `SignUpExclusive`, `CookieUsable`, `RotatedStaysRotated`, and the refinement `KeepsSessions` |
| `answers` | one request to any of the 13 endpoints, every error of every step, fair | `AnswersInv`, `AtomicAnswer`, `RefusalChangesNothing`, `BusyMeansRetry`, `AbandonedRequestsEnd` |
| `seed` | 3 teams, 2 games, 4 seats of 2 grades; 3 runs, 2 faults, 2 bookings, fair | `SeedInv`, `SuccessMeansSeeded`, `UndisturbedRunSeeds` |
| `late_purchase`, `repeated_grade`, `user_faults` | as above | findings of section 6 |
| `read_by_id` | `StoreReads`: 1 reader beside 1 creator and 1 sweeper | a finding of section 6, through the statements of the store |

Why the bounds are enough for the cases of interest:

* `HoldTime` is 1 and `MaxClock` 2, so a hold can be before, at and after
  its deadline while a transaction that began earlier is still open. A booking that was
  admitted early has lapsed when it is made late, so that a seat can be taken
  over twice.
* Two reservations and two tickets allow a lapsed hold to be taken over wholly or
  in part, while its owner purchases or cancels it and the sweeper
  settles it. Three tickets with two grades make two bookings wait for each
  other, up to a deadlock. `MaxSeats` is 2, with requests below, at and above it.
* A reservation id stands for a UUID and is never used again. `IdsLeft` lets a
  call in only while an id is left for it; otherwise calls would block at
  the end of the id supply, which the program never does.
* `Callers` are empty in `store_contention`, whose question is about bookings and the
  sweep, which keeps it within minutes. The runs of section 6 have only the processes
  that their counterexample needs.
* `store_live` has every kind of transaction: two bookings that take both grades in
  opposite orders (a deadlock) or ask for nothing, purchases, cancellations and
  sweeps. Liveness needs the whole state graph at once, so `LiveNext` bounds it:
  at most `MaxBusy` = 2 transactions are open at a time, and the two ids are handed
  out in one order. The first restricts only the arrival of a third; a step of an
  open transaction is never held back by it, so the fairness of the steps means
  what it says. The second only renames ids: wherever one is free for a commit, the
  run has a commit with the first that is free. Cycles of three transactions
  are not in the run.
* `IntMax` is 7, so 1 + 7 tickets wrap around to a total below `MaxSeats`; so do
  1 + (2^63 - 1). The first entry of that request can be served, the second cannot.
* `answers` has no bound: its state space is finite.
* In `seed`, two faults reach a failure after a failed repetition, and a third
  run repairs it. The first and the last row of every table are different rows
  wherever a loop could lose one, and one team plays in both games. Four seats and two
  games give `_seedTickets` two inner loops. Two bookings can both fall on rows that the next
  run truncates, or on tickets of the run that is going on.
* In `accounts`, three tokens are a first one and two successors: two
  overlapping refreshes of one cookie both reach their answer. `TTL` and
  `MaxClock` 1 have tokens before and at their expiry. The runs for
  accounts stop when ids or tokens run out, which is where the bounded model ends.

Deadlock is checked in every run but `seed`, whose bounded model stops when the runs are
used up. Of the other models none gets stuck, because an open request can
always fail; `ServerLifecycle` and `Answers` stutter explicitly when the process
is gone or the request is answered.

## 4. Fairness

* **Store** (`Fairness`, in `FairSpec`): strong fairness of each transaction's next step. A
  transaction that waits for a row is enabled again and again as others release
  it, and PostgreSQL's lock queues are first come first served. Weak fairness of
  `ResolveDeadlock`: a cycle of waits is broken after `deadlock_timeout`.
  Requests need not arrive, ticks need not fire, and any transaction may be
  aborted. `LapsedHoldSettled` therefore assumes in its own statement that
  sweeps keep being *completed*; the code only logs a failed one.
* **Process**: weak fairness of main's steps (each of its waits ends, Shutdown
  after 30 seconds at most) and of `EndSweep` (a sweep's statement ends, which is
  `TransactionsEnd`); of `SendError` (a goroutine that can run runs at some time);
  strong fairness of `SweeperReturns`, because a Go `select`
  with both cases ready picks at random. Nothing is assumed of clients, handlers,
  signals or the ticker.
* **Answers**: weak fairness of `HandlerStep` (the goroutine goes on), `RollBack`
  (a goroutine of database/sql) and `Interrupt` (a cancelled statement ends). Nothing
  is assumed of the database otherwise, so a statement may wait for a lock for
  ever, and a client need not leave. `AbandonedRequestsEnd` therefore rests
  on every statement being run with the request's context.
* **Seed**: weak fairness of `run`: the process goes on until it returns. Faults and
  bookings need not happen, and nobody has to start it again.
* Reads and accounts have safety properties only.

## 5. Proofs

All theorems hold for every value of the constants, under the named
assumptions that `Tables`, `ReservationStore`, `Accounts` and `Seed` declare:
`NullAssumption` (the null values are no ids), `TimeAssumption` (times are naturals),
`ProcessAssumption` (creators, callers and sweepers are different processes),
`RequestAssumption` (a request is a sequence of grades with an integer
quantity), `LimitAssumption`, `BodyAssumption`, `AccountsAssumption` and
`ProgramAssumption` (the lists in `cmd/seed/main.go` name nothing twice). No bound of
section 3 is used, and only the counts of tickets need a finite set: `BodyAssumption`
says that there are finitely many tickets and that a request has so few entries
that its total stays within an int if no entry asks for more seats than exist. A
body is cut off at 1 MB (`logging_middleware.go:47`), so it has less than 2^20 entries,
and an int has 64 bits.

**Bookings** (`PromiseConsistent`, `PromiseProtectsHolds`, `PromiseSellsOnce`).
`BookingInv` adds two facts to the properties: what a reservation holds is part
of its grant (`HeldWithinGrant`), and a confirmed reservation holds exactly what
its purchase answered (`BoughtIsHeld`). Without the first, `HoldProtected` could
not survive a take-over; from the second, `NoDoubleSale` follows, because a
ticket has one holder. `PromiseSellsSeats` shows that each operation is a step
of `SeatMarket` under `SeatOf`, one lemma per operation (`ReserveIsTake`,
`PurchaseIsBuy`, `CancelIsVacate`, `ExpireIsUnseen`, `TickIsLapse`). It needs
`BookingInv`: a purchase buys all of a running hold only because a running hold
is whole.

**ReservationStore.** `StoreInv` is the inductive invariant. Its parts:

* `CreateOK`: a chosen ticket is locked and is, at every later moment, still
  available or in a hold lapsed at the transaction's `NOW()`. It rests on this: the stale
  snapshot of the EXISTS shows only reservations whose deadline is before `NOW()`, and a
  ticket that is still reserved has a holder that is still pending, so what was
  lapsed in the snapshot is lapsed now.
* `UpdateOK`: an updated reservation still matches the WHERE clause, and every
  ticket that it holds is updated or has yet to be visited. No reservation gains
  tickets after its insertion, so the snapshot's rows suffice.
* `LocksExclusive`: no row is locked twice.

`StoreKeepsPromise` follows: under `StoreInv` each commit is a step of `Bookings`
and the other actions leave the tables alone. `StoreConsistent`,
`StoreProtectsHolds` and `StoreSellsOnce` are conjuncts or consequences;
`StoreSettlesOnce`, `StoreKeepsSold`, `StoreNeverExpiresEarly` and
`StoreOwnerSettles` are action properties from the same invariant.
`StoreNeverExpiresEarly` goes through the operations of `Bookings`: until its deadline
a hold has its whole grant, so a purchase buys all of it, and a booking takes
only what was lapsed at its `NOW()`, which is not after the clock. `StoreSellsSeats`
composes `StoreKeepsPromise` with the steps proved in `Bookings_proofs`, so the
statement-by-statement store implements the market of seats.

*Counting the grants.* `GrantInv` is a second inductive invariant, independent of
the first. `GrantOK` compares the number of tickets chosen with `TotalSeats`, the
sum after the entries done so far: at most that many, exactly that many if no
grade is named twice (then the scans share no ticket, because every chosen ticket
has the grade of its own entry), and no more per entry than there are tickets.
The last part is what `StoreGrantsWithinLimit` needs against the wrapping sum: an entry that
was served has asked for no more tickets than exist, so the total of a request
that is granted has not wrapped, and the check against `MAXSEATS` was made on the
true sum. A request whose sum wraps passes that check and fails later, at the entry
that cannot be served. `TotalSeats` is recursive; the few facts about it
that the proof needs (`TotalSeatsValues`) come from an induction over sets of
numbers, through the least element of the counterexamples (`SetInduction`).

**ReservationReads.** `ReadsInv` says what stays true of a row after it was read:
a pending row still describes the whole grant unless its deadline has passed; a
confirmed one has the tickets of its purchase; and everything once shown as
expired has a deadline before the clock. `MarkedOK` is what lasts from the service's
look at the clock to the answer: a hold left as pending had not run out then, so
nothing had shown it as expired. Whatever is shown in between does not disturb
that, because it compares with what had been shown at that look (`seen`);
`ReadsNeverGoBack` follows.

**StoreReads.** `ServiceReadsOperations` composes the refinement of the store with
the readers: under `StoreInv`, which the readers cannot disturb
(`ReadsLeaveStore`), a statement is an operation of `Bookings` or leaves the tables
alone (`StepKeepsPromise`), and either way a step of ReservationReads
(`ServiceStep`). `ServiceAnswersWhole` and `ServiceNeverGoesBack` are the theorems
about ReservationReads, now of the service. The lemma `SameReaders` only says that two instances of
one module agree. No passing run has this specification: the state space is the product of those of
`store_race` and `reads`, each of which has its run. `read_by_id` runs it to find its counterexample.

**ServerLifecycle.** `LifecycleInv` records what main has already waited for when
it reaches a stage (`Drained`, `Quiet`) and where a failure is that is not yet
returned (`FailureNotLost`): in the channel, with the goroutine that has yet to send
it while main has yet to look, or missed by main's last look, and only by that one
(`MissedLate`). This gives `LifecycleHonest` and
`LifecycleStopsQuietly` for any number of connections. `ReleaseInv` says that the resources set
up are always a prefix of `SetUpOrder` and that main, once it unwinds, has exactly
these to release, the youngest first; the slice `shutdownFuncs`, read backwards, and
the closures of each failing step have to fit together for it.
`LifecycleLeaksNothing` and `LifecycleReleasesYoungest` follow.

**Accounts.** `AccountsInv` adds where a token is known (`TokensApart`): to the
request that generated it, then to one client and that client's requests. So
nobody else can revoke it (`AccountsKeepCookies`). `rotated \subseteq revoked`
gives `AccountsRotateOnce`. `AccountsKeepSessions` is the refinement of `Sessions`: by
`AccountsInv`, a handler's user owns the token it saves and a client's cookies name
the owner of its token, so `NothingLearned` can show that a step which only passes on
what a request knows gives no client standing. A step that ends a request or
goes on with it is then `Unanswered` (`IdleSession`, `KnowingSession`), the arrival
of a form is `Send`, `CreateUser` and `AuthenticateUser` are `Register` and `LogIn`
(`AdmitSession`), and `SetAuthCookies` is `Answered`.

**Answers.** `AnswersInv` ties what is written to the position in the endpoint's
sequence of steps (`HandledOK`, `FailedOK`, `BusyOK`). It rests on two facts of
the table of steps, proved for each endpoint: `WellOrdered` (a transaction begins
before anything is written and its commit comes last; without one, every error
after the first write is hidden behind ErrInternal) and `RetryOrdered` (errors
that ask for a retry are classified and come before anything is written for good).
`AtomicAnswers`, `RefusalsChangeNothing` and `BusyIsRetried` follow. The module has no
constants: the proof adds to the run the reason, and stays valid for every endpoint
whose steps are ordered that way.

**Seed.** `SeedInvariant` shows for any program of games, and any number of runs, faults and
bookings, that a running tool builds on no row but its own: `RunsRows` (as many
rows as the loops have made, no key twice, references to rows of this run) and
`TicketsToCome` (the tickets to come are those not yet on sale, which the UNIQUE
constraint therefore never refuses). That a lost answer adds no second row rests
on the key being made before the INSERT (`InsertResult`). `ProgramRows` adds what the
rows say (the i-th row of a loop has the i-th values of its list; a game's keys
belong to the teams that its fixture names; no ticket twice for a seat of a game)
and `AllTicketed` that a finished run leaves none out. `SeedSucceeds` counts from
there: the rows of a table correspond to the places in its list
(`DoneTable`), the seats of the i-th grade to the i-th block of `PerGrade` numbers
(`Blocks`, `GradeBlock`), and the tickets to the pairs of a game and a seat
(`DoneTickets`); equal sizes follow from these bijections (`SameSize`).

**Only model-checked:** liveness (`TransactionsEnd`, `LapsedHoldSettled`, `Stops`,
`AbandonedRequestsEnd`, `UndisturbedRunSeeds`), which the prover does not handle
under fairness. Every safety property of a passing run is also a theorem.

## 6. Findings

Each is a run that must end in a counterexample.

1. `late_purchase`: `PurchaseReservation` compares the deadline with `NOW()`,
   the time of its BEGIN, and then checks only that at least one ticket row came
   back. If it starts before the deadline and its statement runs after it, when
   another booking has taken over part of the hold, the user gets a confirmed
   reservation with fewer seats than reserved. No ticket is sold twice.
2. `repeated_grade`: two entries for one grade select the same rows in the same
   transaction, so the reservation is created with fewer seats than requested.
3. `read_by_id`: read by id, a lapsed hold is pending until the sweep has run,
   although the history shows it as expired.
4. `user_faults`: the availability leaves out requests that fail by the user's
   fault, and knows them by their 4xx (`docs/adr/002-availability-definition-sli.md:35`).
   A sign-up with a password of more than 72 bytes is answered 500, because
   `HashPassword` hides bcrypt's refusal behind `ErrInternal`. The same holds for
   a reservation with an empty list of seats (`IN ()` is a syntax error of the
   database), a name too long for its column, and a client that leaves while a
   statement runs, when lib/pq reports `query_canceled`: that becomes 504.

Behaviours the models show and that no document judges:

* Overlapping refreshes of one cookie can all succeed, each with a live successor.
* A sign-up whose refresh token cannot be saved has created its account, so its
  retry is answered with a conflict.
* Of two overlapping requests for the history, the one whose answer comes last may be
  the one that looked at the clock first: it can show a hold as pending that the
  other has just shown as expired. `HistoryNeverGoesBack` therefore counts from the
  look at the clock (`reservation_service.go:149`).
* An error of the listener is lost when its goroutine has not sent it yet
  (`main.go:164-165`) by the time Shutdown has returned and main looks at `errCh`
  without waiting (`main.go:200`): the process exits with 0. `ExitCodeHonest` allows
  exactly this case.
* A request for the history that finds no free connection, and a cancellation that cannot begin,
  are answered 500, where the other reservation endpoints answer 503.

`docs/openapi.yaml:52` announces 201 for a sign-up and the
handler answers 200; no property is about it.

## 7. Not modelled

* **Configuration:** read once before anything runs, a pure function of the
  environment. Its values are the constants `HoldTime`, `MaxSeats`, `TTL`; that `Load` may
  fail is a step of `ServerLifecycle`. `HOLDTIME` has no lower bound, and a
  `MAXSEATS` below 1 is replaced by the default (`WithMaxSeats`).
* **Seat counts:** three numbers from one SELECT with COUNT FILTER. Any
  one answer is a function of one committed state, whose properties are those of the
  tables. A count takes the tickets of a lapsed hold as reserved until the sweep
  settles it, which `LapsedHoldSettled` says will happen.
* **Signing and parsing of access tokens, hashes:** a token is a value, a
  password is compared as a value. `RevokeByUserID` is never called.
* **Spans, texts of the log, client addresses, static pages:** no state that the
  models see.
* **Overlapping runs of the seed tool, and what it logs:** `main` prints that the
  seeding was successful even after a failure (`cmd/seed/main.go:215`), so only the error
  before it tells an operator to repeat it. The games are visited one after the
  other in any order, as their rows come from a query without ORDER BY.
* **Indexes and the triggers on `updated_at`:** no statement reads them.
* **A commit that is reported as cancelled:** an `INSERT ... RETURNING` of a single
  row outside a transaction may be committed while its `Scan` returns
  `context.Canceled`. `Answers` knows a lost answer only as a broken connection.
* **Clock skew between application and database:** one clock. A skew lengthens or
  shortens holds but does not reorder the comparisons of the writes, which PostgreSQL makes.

## 8. Plan

Done, in order of importance: store, its two abstract specifications and
refinements, process, reads, accounts, answers and seed, each with its inductive
invariant proved; the counts of granted tickets and of seeded rows; the readers composed with
the store; the abstract specification of accounts and its refinement. Next:

1. The process composed with the store: sweeps and handlers of
   `ServerLifecycle` as processes of `ReservationStore`, and a restart.
