--------------------------- MODULE ServerLifecycle ---------------------------
(***************************************************************************)
(* One run of the server process: cmd/server/main.go and otel.go.          *)
(*                                                                         *)
(* main sets up telemetry and the database, one step after the other; then *)
(* three kinds of goroutines run beside it: the one that serves the        *)
(* listener, the sweeper, and the handlers of the connections.  A signal   *)
(* or an error of the listener ends the process: main stops them and runs  *)
(* its deferred calls.  A handler or a sweep uses the database while it is *)
(* busy; what it does there is the subject of ReservationStore, where a    *)
(* process that stops is an AbortCreate or AbortUpdate.                    *)
(***************************************************************************)
EXTENDS Naturals, Sequences, SequencesExt

CONSTANT Connections  \* clients that connect to the server

VARIABLES
  main,           \* what main does next: a set-up step or a later stage
  live,           \* resources that are set up and not released
  shutdownFuncs,  \* the slice of setupOtelSDK
  todo,           \* the releases and deferred calls main has yet to run
  err,            \* an error is going to be returned by realMain
  code,           \* exit code, or "none"
  failed,         \* a step of main has failed, or the listener before
                  \* main's last look at errCh (history)
  missed,         \* at that look the listener had failed and its goroutine
                  \* had not sent the error yet (history)
  serve,          \* the goroutine that calls ListenAndServe
  errCh,          \* the channel holds that goroutine's error
  notified,       \* signals go to signalCtx instead of killing the process
  ctxDone,        \* signalCtx is cancelled
  inShutdown,     \* srv.Shutdown has been called
  sweeper,        \* the goroutine that calls ExpiredReservations
  conn            \* per client: its connection and the handler that serves it

startup == <<live, shutdownFuncs>>
outcome == <<err, code, failed, missed>>
workers == <<serve, errCh, sweeper, conn>>
signals == <<notified, ctxDone, inShutdown>>
vars == <<main, startup, todo, outcome, workers, signals>>

-----------------------------------------------------------------------------
(* The set-up steps in the order of setupOtelSDK, config.Load and          *)
(* setupDatabase: each step's successor.  "runtime" starts the runtime     *)
(* metrics, "port" parses the database port and "ping" opens the first     *)
(* connection; they can fail, and leave nothing to release.                *)
TelemetrySteps == {"conn", "trace", "meter", "runtime", "log"}
SetUpSteps == TelemetrySteps \cup {"config", "port", "db", "dbstats", "ping"}

After ==
  [conn |-> "trace", trace |-> "meter", meter |-> "runtime", runtime |-> "log",
   log |-> "config", config |-> "port", port |-> "db", db |-> "dbstats",
   dbstats |-> "ping", ping |-> "launch"]

Resources == {"conn", "trace", "meter", "log", "db", "dbstats"}

Stages == SetUpSteps \cup
  {"launch", "select", "shutdown", "check", "wait", "unwind", "exited", "killed"}

Init ==
  /\ main = "conn"
  /\ live = {}
  /\ shutdownFuncs = <<>>
  /\ todo = <<>>
  /\ err = FALSE /\ code = "none" /\ failed = FALSE /\ missed = FALSE
  /\ serve = "off" /\ errCh = FALSE
  /\ notified = FALSE /\ ctxDone = FALSE /\ inShutdown = FALSE
  /\ sweeper = "off"
  /\ conn = [c \in Connections |-> "none"]

Alive == main \notin {"exited", "killed"}

-----------------------------------------------------------------------------
(* Faulty variants: shutdown runs shutdownFuncs forwards; cleanUp forgets  *)
(* the metrics.                                                            *)
ShutdownForwards == shutdownFuncs
CleanUpDatabaseOnly == <<"db">>

(* The shutdown closure: slices.Backward(shutdownFuncs). *)
OtelShutdown == Reverse(shutdownFuncs)

(* The cleanUp closure of setupDatabase. *)
CleanUp == <<"dbstats", "db">>

(* Faulty variant: a ping that fails leaves the database open. *)
OpenedBeforePing ==
  [step \in SetUpSteps |-> IF step = "dbstats" THEN <<"db">> ELSE <<>>]

(* What a set-up step that fails leaves to release: handleErr and realMain *)
(* run shutdown, setupDatabase closes what it has opened.                  *)
OpenedBefore ==
  [step \in SetUpSteps |->
     IF step = "ping" THEN CleanUp ELSE IF step = "dbstats" THEN <<"db">> ELSE <<>>]

SetUp ==
  /\ main \in SetUpSteps
  /\ main' = After[main]
  /\ live' = live \cup ({main} \cap Resources)
  /\ shutdownFuncs' = IF main \in Resources \cap TelemetrySteps
                      THEN Append(shutdownFuncs, main) ELSE shutdownFuncs
  /\ UNCHANGED <<todo, outcome, workers, signals>>

SetUpFails ==
  /\ main \in SetUpSteps
  /\ main' = "unwind"
  /\ todo' = OpenedBefore[main] \o OtelShutdown
  /\ err' = TRUE
  /\ failed' = TRUE
  /\ UNCHANGED <<startup, code, missed, workers, signals>>

-----------------------------------------------------------------------------
(* run starts the goroutine that serves, registers for signals and starts  *)
(* the sweeper, and waits for an error or a signal.  A select with both    *)
(* ready takes either.                                                     *)
StartServer ==
  /\ main = "launch"
  /\ main' = "select"
  /\ serve' = "starting"
  /\ notified' = TRUE
  /\ sweeper' = "waiting"
  /\ UNCHANGED <<startup, todo, outcome, errCh, conn, ctxDone, inShutdown>>

(* run returns: its deferred stop() and cleanUp(), then realMain's         *)
(* otelShutdown.                                                           *)
Return ==
  /\ main' = "unwind"
  /\ todo' = <<"stop">> \o CleanUp \o OtelShutdown
  /\ UNCHANGED <<startup, code, missed, serve, sweeper, conn, signals>>

ReturnError == Return /\ err' = TRUE /\ failed' = TRUE

\* case err = <-errCh
ServerFailed ==
  /\ main = "select"
  /\ errCh
  /\ errCh' = FALSE
  /\ ReturnError

\* case <-signalCtx.Done()
BeginShutdown ==
  /\ main = "select"
  /\ ctxDone
  /\ main' = "shutdown"
  /\ inShutdown' = TRUE
  /\ UNCHANGED <<startup, todo, outcome, workers, notified, ctxDone>>

(* Faulty variant: connections are not waited for. *)
ListenerClosed == serve # "serving"

(* srv.Shutdown returns nil: the listener is closed and no connection is   *)
(* left.                                                                   *)
Drained == serve # "serving" /\ \A c \in Connections : conn[c] = "none"

ShutdownCompletes ==
  /\ main = "shutdown"
  /\ Drained
  /\ main' = "check"
  /\ UNCHANGED <<startup, todo, outcome, workers, signals>>

(* The 30 seconds are over, or the listener could not be closed. *)
ShutdownFails ==
  /\ main = "shutdown"
  /\ ReturnError
  /\ UNCHANGED errCh

(* Faulty variant: the channel is not looked at again. *)
NothingReported == FALSE

(* The select with a default: is there an error of the listener? *)
ErrorReported == errCh

CheckServer ==
  /\ main = "check"
  /\ \/ /\ ErrorReported
        /\ errCh' = FALSE
        /\ ReturnError
     \/ /\ ~ErrorReported
        /\ main' = "wait"
        /\ missed' = (serve = "failing")
        /\ UNCHANGED <<startup, todo, err, code, failed, workers, signals>>

(* Faulty variant: main does not wait for the sweeper. *)
NobodyWorks == TRUE

(* wg.Wait() *)
SweeperDone == sweeper = "done"

ReturnOK ==
  /\ main = "wait"
  /\ SweeperDone
  /\ Return
  /\ UNCHANGED <<err, failed, errCh>>

-----------------------------------------------------------------------------
(* The deferred calls.  A release that fails does not stop the next ones.  *)
(* Faulty variant: err = cleanUp(), which forgets the error so far. *)
OnlyThis(e) == e

(* errors.Join(err, e) *)
Joined(e) == err \/ e

RunDeferred ==
  /\ main = "unwind"
  /\ todo # <<>>
  /\ todo' = Tail(todo)
  /\ IF Head(todo) = "stop"
     THEN /\ notified' = FALSE
          /\ ctxDone' = TRUE
          /\ UNCHANGED <<live, outcome>>
     ELSE /\ live' = live \ {Head(todo)}
          /\ \E e \in BOOLEAN : err' = Joined(e) /\ failed' = (failed \/ e)
          /\ UNCHANGED <<code, missed, notified, ctxDone>>
  /\ UNCHANGED <<main, shutdownFuncs, workers, inShutdown>>

Exit ==
  /\ main = "unwind"
  /\ todo = <<>>
  /\ main' = "exited"
  /\ code' = IF err THEN "1" ELSE "0"
  /\ UNCHANGED <<startup, todo, err, failed, missed, workers, signals>>

(* SIGINT or SIGTERM.  Before NotifyContext and after stop() it has its    *)
(* default effect; in between it cancels signalCtx, once.                  *)
Signal ==
  /\ Alive
  /\ ~ctxDone \/ ~notified
  /\ IF notified
     THEN ctxDone' = TRUE /\ UNCHANGED <<main, code>>
     ELSE main' = "killed" /\ code' = "signal" /\ UNCHANGED ctxDone
  /\ UNCHANGED <<startup, todo, err, failed, missed, workers, notified, inShutdown>>

-----------------------------------------------------------------------------
(* The goroutine that serves, and net/http.  ListenAndServe returns when    *)
(* the address is taken, when accepting fails, and, with ErrServerClosed,  *)
(* after Shutdown was called.                                              *)
ListenAndServe ==
  /\ Alive
  /\ serve \in {"starting", "serving"}
  /\ \/ serve' = (IF inShutdown THEN "closed" ELSE "serving") /\ UNCHANGED failed
     \/ /\ serve = "starting" \/ ~inShutdown
        /\ serve' = "failing"
        /\ failed' = (failed \/ main \in {"select", "shutdown", "check"})
  /\ UNCHANGED <<main, startup, todo, err, code, missed, errCh, sweeper, conn, signals>>

(* Any error but ErrServerClosed goes to errCh, which has room for it, but *)
(* only when this goroutine runs again.                                    *)
SendError ==
  /\ Alive
  /\ serve = "failing"
  /\ serve' = "failed"
  /\ errCh' = TRUE
  /\ UNCHANGED <<main, startup, todo, outcome, sweeper, conn, signals>>

(* A connection that was accepted may bring a request after the listener   *)
(* was closed, until Shutdown finds the connection idle and closes it.     *)
ConnectionStep(c) ==
  /\ Alive
  /\ \/ conn[c] = "none" /\ serve = "serving" /\ conn' = [conn EXCEPT ![c] = "idle"]
     \/ conn[c] = "idle" /\ \E next \in {"busy", "none"} : conn' = [conn EXCEPT ![c] = next]
     \/ /\ conn[c] = "busy"
        /\ conn' = [conn EXCEPT ![c] = IF inShutdown THEN "none" ELSE "idle"]
  /\ UNCHANGED <<main, startup, todo, outcome, serve, errCh, sweeper, signals>>

-----------------------------------------------------------------------------
(* The sweeper: a select on the ticker, which may fire at any time, and on *)
(* signalCtx.                                                              *)
SweeperGoesTo(next) ==
  /\ Alive
  /\ sweeper' = next
  /\ UNCHANGED <<main, startup, todo, outcome, serve, errCh, conn, signals>>

BeginSweep == sweeper = "waiting" /\ SweeperGoesTo("sweeping")

(* ExpiredReservations returns.  Its error is logged, and the loop goes on. *)
EndSweep == sweeper = "sweeping" /\ SweeperGoesTo("waiting")

(* Faulty variant: the sweeper listens to the context of run, which nobody *)
(* cancels.                                                                *)
RunCancelled == FALSE

(* case <-signalCtx.Done() *)
Cancelled == ctxDone

SweeperReturns == sweeper = "waiting" /\ Cancelled /\ SweeperGoesTo("done")

-----------------------------------------------------------------------------
MainStep ==
  \/ SetUp \/ SetUpFails
  \/ StartServer
  \/ ServerFailed \/ BeginShutdown
  \/ ShutdownCompletes \/ ShutdownFails
  \/ CheckServer \/ ReturnOK
  \/ RunDeferred \/ Exit

Stopped == ~Alive /\ UNCHANGED vars

Next ==
  \/ MainStep
  \/ ListenAndServe \/ SendError
  \/ \E c \in Connections : ConnectionStep(c)
  \/ BeginSweep \/ EndSweep \/ SweeperReturns
  \/ Signal
  \/ Stopped

Spec == Init /\ [][Next]_vars

(* Fairness.  main always goes on: each of its waits is over when its      *)
(* action is enabled, and Shutdown is bounded by 30 seconds.  A sweep ends *)
(* because its statement ends (TransactionsEnd of ReservationStore) or is  *)
(* cancelled.  A select whose two cases are ready again and again takes    *)
(* each of them at some time, hence SF.  A goroutine that has an error to  *)
(* send runs at some time.  Nothing is assumed of clients, handlers,       *)
(* signals and the ticker.                                                 *)
FairSpec ==
  /\ Spec
  /\ WF_vars(MainStep)
  /\ WF_vars(SendError)
  /\ WF_vars(EndSweep)
  /\ SF_vars(SweeperReturns)

-----------------------------------------------------------------------------
TypeOK ==
  /\ main \in Stages
  /\ live \subseteq Resources
  /\ shutdownFuncs \in Seq(Resources)
  /\ todo \in Seq(Resources \cup {"stop"})
  /\ err \in BOOLEAN
  /\ code \in {"none", "0", "1", "signal"}
  /\ failed \in BOOLEAN
  /\ missed \in BOOLEAN
  /\ serve \in {"off", "starting", "serving", "failing", "failed", "closed"}
  /\ errCh \in BOOLEAN
  /\ notified \in BOOLEAN
  /\ ctxDone \in BOOLEAN
  /\ inShutdown \in BOOLEAN
  /\ sweeper \in {"off", "waiting", "sweeping", "done"}
  /\ conn \in [Connections -> {"none", "idle", "busy"}]

(* Whatever set-up step fails and whatever release fails, each resource is *)
(* released once, the youngest first: the database before the telemetry    *)
(* that records it, and the collector's connection after the providers     *)
(* that flush over it.                                                     *)
SetUpOrder == <<"conn", "trace", "meter", "log", "db", "dbstats">>

Age(resource) == CHOOSE i \in DOMAIN SetUpOrder : SetUpOrder[i] = resource

YoungestReleasedFirst ==
  [][todo # <<>> /\ todo' = Tail(todo) /\ Head(todo) # "stop" =>
       /\ Head(todo) \in live
       /\ \A resource \in live : Age(resource) <= Age(Head(todo))]_vars

(* A process that exits by itself has released everything it had set up.   *)
NothingLeaked == main = "exited" => live = {}

(* Unless an error is already known (the listener failed, or the 30        *)
(* seconds were not enough), the database is closed only when no handler   *)
(* runs, no connection can start one, and the sweeper has returned: "Server*)
(* exited gracefully" means that no request and no sweep was cut off.      *)
Quiet ==
  /\ serve # "serving"
  /\ sweeper = "done"
  /\ \A c \in Connections : conn[c] = "none"

CleanStopIsQuiet ==
  [][~err /\ "db" \in live /\ "db" \notin live' => Quiet]_vars

(* Exit code 0 means that no step of main failed, and neither did the      *)
(* listener before main's last look at its channel, even if it failed at   *)
(* the same time as a signal arrived or Shutdown ran.  There is one way    *)
(* for an error to be lost: at that look the goroutine that serves has got *)
(* it from ListenAndServe and not sent it yet (main.go:164-165), so that   *)
(* the select at main.go:200 takes its default.                            *)
ExitCodeHonest == code = "0" => ~failed \/ missed

(* After a signal, or when the listener fails, the process stops, whatever *)
(* clients, handlers, the ticker and the sweeper do.                       *)
Stops == ctxDone \/ serve \in {"failing", "failed"} ~> ~Alive

-----------------------------------------------------------------------------
(* The inductive invariant. *)

(* Before the goroutines are started nothing has gone wrong or is running. *)
NothingRunsYet ==
  /\ ~err /\ ~failed /\ ~missed /\ ~errCh /\ ~inShutdown
  /\ serve = "off"
  /\ sweeper = "off"
  /\ \A c \in Connections : conn[c] = "none"

(* A failure that realMain does not return yet is the listener's, and main *)
(* is going to look at the channel that has or will get it, or main's last *)
(* look came before it was sent.                                           *)
FailureNotLost ==
  \/ ~failed
  \/ err
  \/ main = "killed"
  \/ main \in {"select", "shutdown", "check"} /\ (errCh \/ serve = "failing")
  \/ missed

(* Nothing was missed before main's last look, and what was missed then    *)
(* was missed after Shutdown had returned.                                 *)
MissedLate == missed => inShutdown /\ main \notin {"select", "shutdown", "check"}

LifecycleInv ==
  /\ TypeOK
  /\ main \in SetUpSteps \cup {"launch"} => NothingRunsYet
  /\ main \in {"shutdown", "check", "wait"} => inShutdown
  /\ main \in {"check", "wait"} => Drained
  /\ main = "unwind" /\ ~err => inShutdown /\ Quiet
  /\ FailureNotLost
  /\ MissedLate
  /\ code = "0" => main = "exited" /\ ~err

-----------------------------------------------------------------------------
(* What is set up and what main is going to release, at every stage.       *)

(* How many resources are set up before each step. *)
SetUpBefore ==
  [conn |-> 0, trace |-> 1, meter |-> 2, runtime |-> 3, log |-> 3, config |-> 4,
   port |-> 4, db |-> 4, dbstats |-> 5, ping |-> 6, launch |-> 6, select |-> 6,
   shutdown |-> 6, check |-> 6, wait |-> 6]

Oldest(n) == {SetUpOrder[i] : i \in 1 .. n}

OldestInOrder(n) == [i \in 1 .. n |-> SetUpOrder[i]]

YoungestFirst(n) == [i \in 1 .. n |-> SetUpOrder[(n - i) + 1]]

(* The resources that are set up are always the oldest ones, and once main *)
(* unwinds it has just these left to release, the youngest first, whatever *)
(* step has failed and whatever release fails.                             *)
ReleaseInv ==
  /\ main \in DOMAIN SetUpBefore =>
       LET n == SetUpBefore[main]
       IN  /\ live = Oldest(n)
           /\ shutdownFuncs = OldestInOrder(IF n < 4 THEN n ELSE 4)
           /\ todo = <<>>
  /\ main = "unwind" =>
       \E n \in 0 .. Len(SetUpOrder) :
         /\ live = Oldest(n)
         /\ \/ todo = YoungestFirst(n)
            \/ n = Len(SetUpOrder) /\ todo = <<"stop">> \o YoungestFirst(n)
  /\ NothingLeaked
=============================================================================
