------------------------ MODULE ServerLifecycle_proofs ------------------------
(***************************************************************************)
(* Proofs about ServerLifecycle, for any set of connections: the inductive *)
(* invariant, and that a process that ends well cut nothing off and        *)
(* reported every failure.                                                 *)
(***************************************************************************)
EXTENDS ServerLifecycle, SequenceTheorems, TLAPS

(* The shutdown closure releases resources only. *)
LEMMA OtelShutdownType ==
  ASSUME shutdownFuncs \in Seq(Resources)
  PROVE  OtelShutdown \in Seq(Resources)
<1>1. \A i \in 1 .. Len(shutdownFuncs) :
        shutdownFuncs[(Len(shutdownFuncs) - i) + 1] \in Resources
  OBVIOUS
<1>2. [i \in 1 .. Len(shutdownFuncs) |-> shutdownFuncs[(Len(shutdownFuncs) - i) + 1]]
        \in [1 .. Len(shutdownFuncs) -> Resources]
  BY <1>1
<1> QED  BY <1>2, SMT DEF OtelShutdown, Reverse

LEMMA AfterType == \A step \in SetUpSteps : After[step] \in SetUpSteps \cup {"launch"}
BY DEF SetUpSteps, TelemetrySteps, After

LEMMA LifecycleInitInv == Init => LifecycleInv
<1> SUFFICES ASSUME Init PROVE LifecycleInv
  OBVIOUS
<1>1. TypeOK
  <2>1. main \in Stages /\ code \in {"none", "0", "1", "signal"}
    BY DEF Init, Stages, SetUpSteps, TelemetrySteps
  <2>2. live \subseteq Resources /\ conn \in [Connections -> {"none", "idle", "busy"}]
    BY DEF Init
  <2>3. shutdownFuncs \in Seq(Resources) /\ todo \in Seq(Resources \cup {"stop"})
    BY DEF Init
  <2>4. /\ serve \in {"off", "starting", "serving", "failing", "failed", "closed"}
        /\ sweeper \in {"off", "waiting", "sweeping", "done"}
    BY DEF Init
  <2>5. /\ err \in BOOLEAN /\ failed \in BOOLEAN /\ missed \in BOOLEAN /\ errCh \in BOOLEAN
        /\ notified \in BOOLEAN /\ ctxDone \in BOOLEAN /\ inShutdown \in BOOLEAN
    BY DEF Init
  <2> QED  BY <2>1, <2>2, <2>3, <2>4, <2>5 DEF TypeOK
<1>2. NothingRunsYet
  BY DEF Init, NothingRunsYet
<1> QED  BY <1>1, <1>2 DEF Init, LifecycleInv, FailureNotLost, MissedLate

LEMMA SetUpInv == LifecycleInv /\ SetUp => LifecycleInv'
<1> SUFFICES ASSUME LifecycleInv, SetUp PROVE LifecycleInv'
  OBVIOUS
<1>1. main' \in SetUpSteps \cup {"launch"}
  BY AfterType DEF SetUp
<1>2. TypeOK'
  <2>1. {main} \cap Resources \subseteq Resources
    OBVIOUS
  <2>2. shutdownFuncs' \in Seq(Resources)
    BY DEF SetUp, LifecycleInv, TypeOK
  <2> QED  BY <1>1, <2>1, <2>2 DEF SetUp, LifecycleInv, TypeOK, Stages, outcome, workers, signals
<1>3. NothingRunsYet'
  BY DEF SetUp, LifecycleInv, NothingRunsYet, outcome, workers, signals
<1> QED  BY <1>1, <1>2, <1>3
         DEF SetUp, LifecycleInv, NothingRunsYet, FailureNotLost, MissedLate, SetUpSteps, TelemetrySteps,
             outcome, workers, signals

LEMMA SetUpFailsInv == LifecycleInv /\ SetUpFails => LifecycleInv'
<1> SUFFICES ASSUME LifecycleInv, SetUpFails PROVE LifecycleInv'
  OBVIOUS
<1>1. TypeOK'
  <2>1. todo' \in Seq(Resources \cup {"stop"})
    <3>1. OpenedBefore[main] \in Seq(Resources)
      <4>1. <<"dbstats", "db">> \in Seq(Resources) /\ <<"db">> \in Seq(Resources)
            /\ <<>> \in Seq(Resources)
        BY DEF Resources
      <4> QED  BY <4>1, SMT DEF SetUpFails, OpenedBefore, CleanUp
    <3>2. OtelShutdown \in Seq(Resources)
      BY OtelShutdownType DEF LifecycleInv, TypeOK
    <3>3. todo' \in Seq(Resources)
      BY <3>1, <3>2 DEF SetUpFails
    <3> QED  BY <3>3
  <2> QED  BY <2>1 DEF SetUpFails, LifecycleInv, TypeOK, Stages, startup, workers, signals
<1>2. ~missed'
  BY DEF SetUpFails, LifecycleInv, NothingRunsYet
<1> QED  BY <1>1, <1>2 DEF SetUpFails, LifecycleInv, FailureNotLost, MissedLate, SetUpSteps, TelemetrySteps

LEMMA StartServerInv == LifecycleInv /\ StartServer => LifecycleInv'
<1> SUFFICES ASSUME LifecycleInv, StartServer PROVE LifecycleInv'
  OBVIOUS
<1>1. TypeOK'
  BY DEF StartServer, LifecycleInv, TypeOK, Stages, startup, outcome
<1>2. ~missed' /\ ~failed'
  BY DEF StartServer, LifecycleInv, NothingRunsYet, outcome
<1> QED  BY <1>1, <1>2 DEF StartServer, LifecycleInv, NothingRunsYet, FailureNotLost, MissedLate,
                     SetUpSteps, TelemetrySteps, startup, outcome

(* run returns: with an error, or when everything is quiet. *)
LEMMA ReturnType ==
  ASSUME TypeOK, Return
  PROVE  /\ main' \in Stages
         /\ todo' \in Seq(Resources \cup {"stop"})
<1>1. OtelShutdown \in Seq(Resources \cup {"stop"})
  BY OtelShutdownType DEF TypeOK
<1>2. CleanUp \in Seq(Resources \cup {"stop"})
  BY DEF CleanUp, Resources
<1> QED  BY <1>1, <1>2 DEF Return, Stages

LEMMA ReturnErrorInv ==
  ASSUME LifecycleInv, ReturnError, errCh' \in BOOLEAN, main \in {"select", "shutdown", "check"}
  PROVE  LifecycleInv'
<1>1. TypeOK'
  BY ReturnType DEF ReturnError, Return, LifecycleInv, TypeOK, startup, signals
<1> QED  BY <1>1 DEF ReturnError, Return, LifecycleInv, FailureNotLost, MissedLate, SetUpSteps,
                     TelemetrySteps

LEMMA BeginShutdownInv == LifecycleInv /\ BeginShutdown => LifecycleInv'
<1> SUFFICES ASSUME LifecycleInv, BeginShutdown PROVE LifecycleInv'
  OBVIOUS
<1>1. TypeOK'
  BY DEF BeginShutdown, LifecycleInv, TypeOK, Stages, startup, outcome, workers
<1> QED  BY <1>1 DEF BeginShutdown, LifecycleInv, FailureNotLost, MissedLate, SetUpSteps,
                     TelemetrySteps, outcome, workers

LEMMA ShutdownCompletesInv == LifecycleInv /\ ShutdownCompletes => LifecycleInv'
<1> SUFFICES ASSUME LifecycleInv, ShutdownCompletes PROVE LifecycleInv'
  OBVIOUS
<1>1. TypeOK'
  BY DEF ShutdownCompletes, LifecycleInv, TypeOK, Stages, startup, outcome, workers, signals
<1> QED  BY <1>1 DEF ShutdownCompletes, LifecycleInv, FailureNotLost, MissedLate, Drained, SetUpSteps,
                     TelemetrySteps, outcome, workers, signals

LEMMA CheckServerInv == LifecycleInv /\ CheckServer => LifecycleInv'
<1> SUFFICES ASSUME LifecycleInv, CheckServer PROVE LifecycleInv'
  OBVIOUS
<1>1. CASE errCh
  BY <1>1, ReturnErrorInv DEF CheckServer, ErrorReported
<1>2. CASE ~errCh
  <2>1. /\ main' = "wait" /\ main = "check" /\ missed' = (serve = "failing")
        /\ UNCHANGED <<startup, todo, err, code, failed, workers, signals>>
    BY <1>2 DEF CheckServer, ErrorReported
  <2>2. TypeOK'
    BY <2>1 DEF LifecycleInv, TypeOK, Stages, startup, workers, signals
  <2>3. missed' <=> serve = "failing"
    BY <2>1
  <2>4. (failed' <=> failed) /\ (err' <=> err)
    BY <2>1, Zenon
  <2>5. FailureNotLost'
    BY <1>2, <2>1, <2>3, <2>4 DEF LifecycleInv, FailureNotLost, MissedLate
  <2> QED  BY <1>2, <2>1, <2>2, <2>4, <2>5 DEF LifecycleInv, MissedLate, Drained,
             SetUpSteps, TelemetrySteps, workers, signals
<1> QED  BY <1>1, <1>2

LEMMA ReturnOKInv == LifecycleInv /\ ReturnOK => LifecycleInv'
<1> SUFFICES ASSUME LifecycleInv, ReturnOK PROVE LifecycleInv'
  OBVIOUS
<1>1. TypeOK'
  BY ReturnType DEF ReturnOK, Return, LifecycleInv, TypeOK, startup, signals
<1>2. Quiet'
  BY DEF ReturnOK, Return, LifecycleInv, Drained, Quiet, SweeperDone
<1> QED  BY <1>1, <1>2 DEF ReturnOK, Return, LifecycleInv, FailureNotLost, MissedLate, SetUpSteps,
                     TelemetrySteps, signals

LEMMA RunDeferredInv == LifecycleInv /\ RunDeferred => LifecycleInv'
<1> SUFFICES ASSUME LifecycleInv, RunDeferred PROVE LifecycleInv'
  OBVIOUS
<1>1. todo' \in Seq(Resources \cup {"stop"})
  BY DEF RunDeferred, LifecycleInv, TypeOK
<1>2. main' = main /\ main = "unwind"
  BY DEF RunDeferred
<1>3. UNCHANGED <<shutdownFuncs, code, missed, serve, errCh, sweeper, conn, inShutdown>>
  BY DEF RunDeferred, outcome, workers
<1>4. live' \subseteq Resources
  BY DEF RunDeferred, LifecycleInv, TypeOK
<1>5. /\ err' \in BOOLEAN /\ failed' \in BOOLEAN /\ notified' \in BOOLEAN /\ ctxDone' \in BOOLEAN
      /\ err => err'
      /\ failed' => failed \/ err'
  BY DEF RunDeferred, Joined, LifecycleInv, TypeOK, outcome
<1>6. TypeOK'
  BY <1>1, <1>2, <1>3, <1>4, <1>5 DEF LifecycleInv, TypeOK
<1> QED  BY <1>2, <1>3, <1>5, <1>6 DEF LifecycleInv, FailureNotLost, MissedLate, Quiet, SetUpSteps,
                     TelemetrySteps

LEMMA ExitInv == LifecycleInv /\ Exit => LifecycleInv'
<1> SUFFICES ASSUME LifecycleInv, Exit PROVE LifecycleInv'
  OBVIOUS
<1>1. TypeOK'
  BY DEF Exit, LifecycleInv, TypeOK, Stages, startup, workers, signals
<1> QED  BY <1>1 DEF Exit, LifecycleInv, FailureNotLost, MissedLate, SetUpSteps, TelemetrySteps, workers, signals

LEMMA SignalInv == LifecycleInv /\ Signal => LifecycleInv'
<1> SUFFICES ASSUME LifecycleInv, Signal PROVE LifecycleInv'
  OBVIOUS
<1>1. UNCHANGED <<live, shutdownFuncs, todo, err, failed, missed, serve, errCh, sweeper, conn,
                  notified, inShutdown>>
  BY DEF Signal, startup, workers
<1>2. \/ main' = main /\ code' = code /\ ctxDone' = TRUE
      \/ main' = "killed" /\ code' = "signal" /\ ctxDone' = ctxDone
  BY DEF Signal
<1>3. TypeOK'
  <2>1. main' \in Stages /\ code' \in {"none", "0", "1", "signal"} /\ ctxDone' \in BOOLEAN
    BY <1>2 DEF LifecycleInv, TypeOK, Stages
  <2> QED  BY <1>1, <2>1 DEF LifecycleInv, TypeOK
<1>4. CASE main' = main /\ code' = code
  BY <1>1, <1>3, <1>4 DEF LifecycleInv, FailureNotLost, MissedLate, NothingRunsYet, Drained, Quiet
<1>5. CASE main' = "killed" /\ code' = "signal"
  BY <1>1, <1>3, <1>5 DEF LifecycleInv, FailureNotLost, MissedLate, SetUpSteps, TelemetrySteps
<1> QED  BY <1>2, <1>4, <1>5

LEMMA ListenAndServeInv == LifecycleInv /\ ListenAndServe => LifecycleInv'
<1> SUFFICES ASSUME LifecycleInv, ListenAndServe PROVE LifecycleInv'
  OBVIOUS
<1>1. UNCHANGED <<main, live, shutdownFuncs, todo, err, code, missed, errCh, sweeper, conn,
                  notified, ctxDone, inShutdown>>
  BY DEF ListenAndServe, startup, signals
<1>2. serve \in {"starting", "serving"}
  BY DEF ListenAndServe
<1>3. /\ serve' \in {"closed", "serving", "failing"}
      /\ inShutdown => serve' # "serving"
      /\ failed' \in BOOLEAN
      /\ failed' => failed \/ (main \in {"select", "shutdown", "check"} /\ serve' = "failing")
  <2>1. CASE serve' = (IF inShutdown THEN "closed" ELSE "serving") /\ UNCHANGED failed
    <3>1. serve' \in {"closed", "serving", "failing"} /\ (inShutdown => serve' # "serving")
      BY <2>1
    <3>2. failed' \in BOOLEAN
      BY <2>1 DEF LifecycleInv, TypeOK
    <3>3. failed' => failed
      BY <2>1, Zenon
    <3> QED  BY <3>1, <3>2, <3>3, Zenon
  <2>2. CASE /\ serve' = "failing"
             /\ failed' = (failed \/ main \in {"select", "shutdown", "check"})
    <3>1. failed' \in BOOLEAN /\ (failed' => failed \/ main \in {"select", "shutdown", "check"})
      BY <2>2
    <3> QED  BY <2>2, <3>1
  <2> QED  BY <2>1, <2>2 DEF ListenAndServe
<1>4. TypeOK'
  BY <1>1, <1>3 DEF LifecycleInv, TypeOK
<1>5. FailureNotLost'
  BY <1>1, <1>2, <1>3 DEF LifecycleInv, FailureNotLost
<1> QED  BY <1>1, <1>2, <1>3, <1>4, <1>5 DEF LifecycleInv, MissedLate, NothingRunsYet, Drained,
                                             Quiet

LEMMA SendErrorInv == LifecycleInv /\ SendError => LifecycleInv'
<1> SUFFICES ASSUME LifecycleInv, SendError PROVE LifecycleInv'
  OBVIOUS
<1>1. UNCHANGED <<main, live, shutdownFuncs, todo, err, code, failed, missed, sweeper, conn,
                  notified, ctxDone, inShutdown>>
  BY DEF SendError, startup, outcome, signals
<1>2. serve = "failing" /\ serve' = "failed" /\ errCh'
  BY DEF SendError
<1>3. TypeOK'
  BY <1>1 DEF SendError, LifecycleInv, TypeOK
<1>4. FailureNotLost'
  BY <1>1, <1>2 DEF LifecycleInv, FailureNotLost
<1> QED  BY <1>1, <1>2, <1>3, <1>4 DEF LifecycleInv, MissedLate, NothingRunsYet, Drained, Quiet

LEMMA ConnectionStepInv ==
  ASSUME NEW c \in Connections, LifecycleInv, ConnectionStep(c)
  PROVE  LifecycleInv'
<1>1. UNCHANGED <<main, live, shutdownFuncs, todo, err, code, failed, missed, serve, errCh,
                  sweeper, notified, ctxDone, inShutdown>>
  BY DEF ConnectionStep, startup, outcome, signals
<1>2. conn' \in [Connections -> {"none", "idle", "busy"}]
  BY DEF ConnectionStep, LifecycleInv, TypeOK
<1>3. (\A d \in Connections : conn[d] = "none") => serve = "serving"
  BY DEF ConnectionStep
<1>4. TypeOK'
  BY <1>1, <1>2 DEF LifecycleInv, TypeOK
<1> QED  BY <1>1, <1>3, <1>4 DEF LifecycleInv, FailureNotLost, MissedLate, NothingRunsYet, Drained, Quiet

LEMMA SweeperInv == LifecycleInv /\ (BeginSweep \/ EndSweep \/ SweeperReturns) => LifecycleInv'
<1> SUFFICES ASSUME LifecycleInv, BeginSweep \/ EndSweep \/ SweeperReturns PROVE LifecycleInv'
  OBVIOUS
<1>1. UNCHANGED <<main, live, shutdownFuncs, todo, err, code, failed, missed, serve, errCh, conn,
                  notified, ctxDone, inShutdown>>
  BY DEF BeginSweep, EndSweep, SweeperReturns, SweeperGoesTo, startup, outcome, signals
<1>2. sweeper \in {"waiting", "sweeping"} /\ sweeper' \in {"waiting", "sweeping", "done"}
  BY DEF BeginSweep, EndSweep, SweeperReturns, SweeperGoesTo
<1>3. TypeOK'
  BY <1>1, <1>2 DEF LifecycleInv, TypeOK
<1> QED  BY <1>1, <1>2, <1>3 DEF LifecycleInv, FailureNotLost, MissedLate, NothingRunsYet, Drained, Quiet

LEMMA StutterInv == LifecycleInv /\ UNCHANGED vars => LifecycleInv'
<1> SUFFICES ASSUME LifecycleInv, UNCHANGED vars PROVE LifecycleInv'
  OBVIOUS
<1>1. TypeOK'
  BY DEF LifecycleInv, TypeOK, vars, startup, outcome, workers, signals
<1> QED  BY <1>1 DEF LifecycleInv, FailureNotLost, MissedLate, NothingRunsYet, Drained, Quiet,
                     vars, startup, outcome, workers, signals

LEMMA LifecycleNextInv == LifecycleInv /\ [Next]_vars => LifecycleInv'
<1> SUFFICES ASSUME LifecycleInv, [Next]_vars PROVE LifecycleInv'
  OBVIOUS
<1>1. CASE SetUp             BY <1>1, SetUpInv
<1>2. CASE SetUpFails        BY <1>2, SetUpFailsInv
<1>3. CASE StartServer       BY <1>3, StartServerInv
<1>4. CASE ServerFailed      BY <1>4, ReturnErrorInv DEF ServerFailed
<1>5. CASE BeginShutdown     BY <1>5, BeginShutdownInv
<1>6. CASE ShutdownCompletes BY <1>6, ShutdownCompletesInv
<1>7. CASE ShutdownFails     BY <1>7, ReturnErrorInv DEF ShutdownFails, LifecycleInv, TypeOK
<1>8. CASE CheckServer       BY <1>8, CheckServerInv
<1>9. CASE ReturnOK          BY <1>9, ReturnOKInv
<1>10. CASE RunDeferred      BY <1>10, RunDeferredInv
<1>11. CASE Exit             BY <1>11, ExitInv
<1>12. CASE Signal           BY <1>12, SignalInv
<1>13. CASE ListenAndServe \/ SendError  BY <1>13, ListenAndServeInv, SendErrorInv
<1>14. CASE \E c \in Connections : ConnectionStep(c)  BY <1>14, ConnectionStepInv
<1>15. CASE BeginSweep \/ EndSweep \/ SweeperReturns  BY <1>15, SweeperInv
<1>16. CASE UNCHANGED vars   BY <1>16, StutterInv
<1> QED  BY <1>1, <1>2, <1>3, <1>4, <1>5, <1>6, <1>7, <1>8, <1>9, <1>10, <1>11, <1>12,
            <1>13, <1>14, <1>15, <1>16 DEF Next, MainStep, Stopped

(* The inductive invariant holds in every state of every run of the server *)
(* process, with any number of connections.                                *)
THEOREM LifecycleInvariant == Spec => []LifecycleInv
BY LifecycleInitInv, LifecycleNextInv, PTL DEF Spec

(* Exit code 0 means that no step of main and no release failed, and that  *)
(* the listener had not failed when main last looked at its channel,       *)
(* unless its goroutine had not sent the error by then.                    *)
THEOREM LifecycleHonest == Spec => []ExitCodeHonest
<1>1. LifecycleInv => ExitCodeHonest
  BY DEF LifecycleInv, FailureNotLost, MissedLate, ExitCodeHonest
<1> QED  BY <1>1, LifecycleInvariant, PTL

(* Only the deferred calls release the database; when they run and there   *)
(* is no error, the handlers and the sweeper have finished.                *)
LEMMA QuietRelease ==
  LifecycleInv /\ [Next]_vars => (~err /\ "db" \in live /\ "db" \notin live' => Quiet)
<1> SUFFICES ASSUME LifecycleInv, [Next]_vars, ~err, "db" \in live, "db" \notin live'
             PROVE  Quiet
  OBVIOUS
<1>1. ~RunDeferred => live \subseteq live'
  BY DEF Next, MainStep, SetUp, SetUpFails, StartServer, ServerFailed, ReturnError, Return,
         BeginShutdown, ShutdownCompletes, ShutdownFails, CheckServer, ReturnOK, Exit, Signal,
         ListenAndServe, SendError, ConnectionStep, BeginSweep, EndSweep, SweeperReturns, SweeperGoesTo,
         Stopped, vars, startup
<1>2. RunDeferred
  BY <1>1
<1> QED  BY <1>2 DEF RunDeferred, LifecycleInv

(* Unless an error is known, no request and no sweep is cut off when the   *)
(* database is closed: "Server exited gracefully" is true.                 *)
THEOREM LifecycleStopsQuietly == Spec => CleanStopIsQuiet
BY LifecycleInvariant, QuietRelease, PTL DEF Spec, CleanStopIsQuiet

-----------------------------------------------------------------------------
(* The order of the releases.                                              *)

(* One resource more is set up, or one less. *)
LEMMA OldestSteps ==
  ASSUME NEW n \in 0 .. 5
  PROVE  /\ Oldest(0) = {}
         /\ Oldest(n + 1) = Oldest(n) \cup {SetUpOrder[n + 1]}
         /\ Oldest(n) = Oldest(n + 1) \ {SetUpOrder[n + 1]}
<1>1. Oldest(0) = {}
  BY DEF Oldest
<1>2. 1 .. (n + 1) = (1 .. n) \cup {n + 1}
  OBVIOUS
<1>3. Oldest(n + 1) = Oldest(n) \cup {SetUpOrder[n + 1]}
  BY <1>2 DEF Oldest
<1>4. \A i, j \in 1 .. 6 : SetUpOrder[i] = SetUpOrder[j] => i = j
  BY DEF SetUpOrder
<1>5. SetUpOrder[n + 1] \notin Oldest(n)
  BY <1>4 DEF Oldest
<1> QED  BY <1>1, <1>3, <1>5

(* The list of what is to be released, and its first element. *)
LEMMA YoungestSteps ==
  ASSUME NEW n \in 0 .. 6
  PROVE  /\ YoungestFirst(n) \in Seq(Resources)
         /\ Len(YoungestFirst(n)) = n
         /\ n > 0 => /\ Head(YoungestFirst(n)) = SetUpOrder[n]
                     /\ Tail(YoungestFirst(n)) = YoungestFirst(n - 1)
<1>1. \A i \in 1 .. n : SetUpOrder[(n - i) + 1] \in Resources
  BY DEF SetUpOrder, Resources
<1>2. YoungestFirst(n) \in [1 .. n -> Resources]
  BY <1>1 DEF YoungestFirst
<1>3. YoungestFirst(n) \in Seq(Resources) /\ Len(YoungestFirst(n)) = n
  BY <1>2
<1>4. ASSUME n > 0
      PROVE  /\ Head(YoungestFirst(n)) = SetUpOrder[n]
             /\ Tail(YoungestFirst(n)) = YoungestFirst(n - 1)
  <2>1. Head(YoungestFirst(n)) = SetUpOrder[n]
    BY <1>3, <1>4 DEF YoungestFirst
  <2> DEFINE rest == Tail(YoungestFirst(n))
  <2>2. rest \in Seq(Resources) /\ Len(rest) = n - 1
    BY <1>3, <1>4
  <2>3. \A i \in 1 .. (n - 1) : rest[i] = SetUpOrder[((n - 1) - i) + 1]
    BY <1>3, <1>4 DEF YoungestFirst
  <2> HIDE DEF rest
  <2>4. rest = [i \in 1 .. (n - 1) |-> rest[i]]
    BY <2>2, LenProperties
  <2>5. rest = YoungestFirst(n - 1)
    BY <2>3, <2>4 DEF YoungestFirst
  <2> QED  BY <2>1, <2>5 DEF rest
<1> QED  BY <1>3, <1>4

(* shutdownFuncs in the order of set-up, and backwards. *)
LEMMA FuncsSteps ==
  ASSUME NEW n \in 0 .. 4
  PROVE  /\ OldestInOrder(n) \in Seq(Resources)
         /\ Reverse(OldestInOrder(n)) = YoungestFirst(n)
         /\ Append(OldestInOrder(n), SetUpOrder[n + 1]) = OldestInOrder(n + 1)
<1>1. OldestInOrder(n) \in [1 .. n -> Resources]
  BY DEF OldestInOrder, SetUpOrder, Resources
<1>2. OldestInOrder(n) \in Seq(Resources) /\ Len(OldestInOrder(n)) = n
  BY <1>1
<1>3. \A i \in 1 .. n : OldestInOrder(n)[(n - i) + 1] = SetUpOrder[(n - i) + 1]
  BY DEF OldestInOrder
<1>4. Reverse(OldestInOrder(n)) = YoungestFirst(n)
  BY <1>2, <1>3 DEF Reverse, YoungestFirst
<1>5. Append(OldestInOrder(n), SetUpOrder[n + 1]) = OldestInOrder(n + 1)
  <2> DEFINE longer == Append(OldestInOrder(n), SetUpOrder[n + 1])
  <2>1. longer \in Seq(Resources) /\ Len(longer) = n + 1
    BY <1>2 DEF SetUpOrder, Resources
  <2>2. \A i \in 1 .. (n + 1) : longer[i] = SetUpOrder[i]
    BY <1>2 DEF OldestInOrder
  <2>3. longer = [i \in 1 .. (n + 1) |-> longer[i]]
    BY <2>1
  <2> QED  BY <2>2, <2>3 DEF OldestInOrder
<1> QED  BY <1>2, <1>4, <1>5

(* What is released beside the providers comes before them. *)
LEMMA Joins ==
  ASSUME NEW before \in Seq(Resources), NEW n \in 0 .. 6, Len(before) + 4 = n,
         \A i \in 1 .. Len(before) : before[i] = SetUpOrder[(n - i) + 1]
  PROVE  before \o YoungestFirst(4) = YoungestFirst(n)
<1>1. /\ YoungestFirst(4) \in Seq(Resources) /\ Len(YoungestFirst(4)) = 4
      /\ YoungestFirst(n) \in Seq(Resources) /\ Len(YoungestFirst(n)) = n
  <2>1. 4 \in 0 .. 6
    OBVIOUS
  <2>2. YoungestFirst(4) \in Seq(Resources) /\ Len(YoungestFirst(4)) = 4
    BY <2>1, YoungestSteps
  <2>3. YoungestFirst(n) \in Seq(Resources) /\ Len(YoungestFirst(n)) = n
    BY YoungestSteps
  <2> QED  BY <2>2, <2>3
<1> DEFINE all == before \o YoungestFirst(4)
<1>2. /\ all \in Seq(Resources)
      /\ Len(all) = n
      /\ \A i \in 1 .. n : all[i] = IF i <= Len(before) THEN before[i]
                                   ELSE YoungestFirst(4)[i - Len(before)]
  <2> DEFINE list == YoungestFirst(4)
  <2>1. list \in Seq(Resources) /\ Len(list) = 4
    BY <1>1
  <2> HIDE DEF list
  <2>2. /\ before \o list \in Seq(Resources)
        /\ Len(before \o list) = Len(before) + Len(list)
        /\ \A i \in 1 .. Len(before) + Len(list) :
             (before \o list)[i] = IF i <= Len(before) THEN before[i]
                                   ELSE list[i - Len(before)]
    BY <2>1, ConcatProperties
  <2>3. Len(before) + Len(list) = n
    BY <2>1
  <2> QED  BY <2>2, <2>3 DEF list
<1> HIDE DEF all
<1>3. \A i \in 1 .. n : all[i] = YoungestFirst(n)[i]
  <2> SUFFICES ASSUME NEW i \in 1 .. n PROVE all[i] = YoungestFirst(n)[i]
    OBVIOUS
  <2>1. YoungestFirst(n)[i] = SetUpOrder[(n - i) + 1]
    BY DEF YoungestFirst
  <2>2. CASE i <= Len(before)
    BY <1>2, <2>1, <2>2
  <2>3. CASE ~(i <= Len(before))
    <3>1. i - Len(before) \in 1 .. 4 /\ (4 - (i - Len(before))) + 1 = (n - i) + 1
      BY <2>3
    <3>2. YoungestFirst(4)[i - Len(before)] = SetUpOrder[(4 - (i - Len(before))) + 1]
      BY <3>1 DEF YoungestFirst
    <3> QED  BY <1>2, <2>1, <2>3, <3>1, <3>2
  <2> QED  BY <2>2, <2>3
<1>4. all = YoungestFirst(n)
  BY <1>1, <1>2, <1>3, SeqEqual
<1> QED  BY <1>4 DEF all

LEMMA CleanUpSteps ==
  /\ <<>> \o YoungestFirst(4) = YoungestFirst(4)
  /\ <<"db">> \o YoungestFirst(4) = YoungestFirst(5)
  /\ CleanUp \o YoungestFirst(4) = YoungestFirst(6)
<1>1. <<>> \o YoungestFirst(4) = YoungestFirst(4)
  BY YoungestSteps, ConcatEmptySeq
<1>2. <<"db">> \o YoungestFirst(4) = YoungestFirst(5)
  <2> DEFINE before == <<"db">>
  <2>1. /\ before \in Seq(Resources) /\ Len(before) + 4 = 5 /\ 5 \in 0 .. 6
        /\ \A i \in 1 .. Len(before) : before[i] = SetUpOrder[(5 - i) + 1]
    BY DEF SetUpOrder, Resources
  <2> HIDE DEF before
  <2>2. before \o YoungestFirst(4) = YoungestFirst(5)
    BY <2>1, Joins
  <2> QED  BY <2>2 DEF before
<1>3. CleanUp \o YoungestFirst(4) = YoungestFirst(6)
  <2>1. /\ CleanUp \in Seq(Resources) /\ Len(CleanUp) + 4 = 6 /\ 6 \in 0 .. 6
        /\ \A i \in 1 .. Len(CleanUp) : CleanUp[i] = SetUpOrder[(6 - i) + 1]
    BY DEF SetUpOrder, Resources, CleanUp
  <2> QED  BY <2>1, Joins
<1> QED  BY <1>1, <1>2, <1>3

LEMMA SetUpOrderType ==
  /\ Len(SetUpOrder) = 6
  /\ \A i \in 1 .. 6 : SetUpOrder[i] \in Resources /\ SetUpOrder[i] # "stop"
  /\ \A i, j \in 1 .. 6 : SetUpOrder[i] = SetUpOrder[j] => i = j
BY DEF SetUpOrder, Resources

LEMMA ReleaseInitInv == Init => ReleaseInv
<1> SUFFICES ASSUME Init PROVE ReleaseInv
  OBVIOUS
<1>1. Oldest(0) = {} /\ OldestInOrder(0) = <<>>
  BY DEF Oldest, OldestInOrder
<1> QED  BY <1>1 DEF Init, ReleaseInv, SetUpBefore, NothingLeaked

(* Before main unwinds. *)
LEMMA SetUpState ==
  ASSUME ReleaseInv, main \in DOMAIN SetUpBefore
  PROVE  \E n \in 0 .. 6 : /\ n = SetUpBefore[main]
                          /\ live = Oldest(n)
                          /\ shutdownFuncs = OldestInOrder(IF n < 4 THEN n ELSE 4)
                          /\ todo = <<>>
<1>1. SetUpBefore[main] \in 0 .. 6
  BY DEF SetUpBefore
<1> QED  BY <1>1 DEF ReleaseInv

LEMMA SetUpRelease == ReleaseInv /\ SetUp => ReleaseInv'
<1> SUFFICES ASSUME ReleaseInv, SetUp PROVE ReleaseInv'
  OBVIOUS
<1>1. main \in SetUpSteps /\ main \in DOMAIN SetUpBefore
  BY DEF SetUp, SetUpSteps, TelemetrySteps, SetUpBefore
<1>2. PICK n \in 0 .. 6 : /\ n = SetUpBefore[main]
                          /\ live = Oldest(n)
                          /\ shutdownFuncs = OldestInOrder(IF n < 4 THEN n ELSE 4)
                          /\ todo = <<>>
  BY <1>1, SetUpState
<1>3. /\ main' \in DOMAIN SetUpBefore
      /\ main' # "unwind" /\ main' # "exited"
      /\ todo' = <<>>
  BY <1>1, <1>2 DEF SetUp, SetUpSteps, TelemetrySteps, After, SetUpBefore
<1>4. CASE main \in Resources
  <2>1. n < 6 /\ SetUpBefore[main'] = n + 1 /\ SetUpOrder[n + 1] = main
    BY <1>1, <1>2, <1>4 DEF SetUp, SetUpSteps, TelemetrySteps, After, SetUpBefore, SetUpOrder, Resources
  <2>2. live' = Oldest(n + 1)
    BY <1>2, <1>4, <2>1, OldestSteps DEF SetUp
  <2>3. CASE n < 4
    <3>1. main \in TelemetrySteps
      BY <1>1, <1>2, <1>4, <2>3 DEF SetUpSteps, TelemetrySteps, SetUpBefore, Resources
    <3>2. shutdownFuncs = OldestInOrder(n) /\ n \in 0 .. 4
      BY <1>2, <2>3
    <3>3. shutdownFuncs' = Append(shutdownFuncs, main)
      BY <1>4, <3>1 DEF SetUp
    <3>4. shutdownFuncs' = OldestInOrder(n + 1)
      BY <2>1, <3>2, <3>3, FuncsSteps
    <3> QED  BY <1>3, <2>1, <2>2, <2>3, <3>4 DEF ReleaseInv, NothingLeaked
  <2>4. CASE ~(n < 4)
    <3>1. main \notin TelemetrySteps
      BY <1>1, <1>2, <1>4, <2>4 DEF SetUpSteps, TelemetrySteps, SetUpBefore, Resources
    <3>2. shutdownFuncs' = OldestInOrder(4)
      BY <1>2, <2>4, <3>1 DEF SetUp
    <3> QED  BY <1>3, <2>1, <2>2, <2>4, <3>2 DEF ReleaseInv, NothingLeaked
  <2> QED  BY <2>3, <2>4
<1>5. CASE main \notin Resources
  <2>1. SetUpBefore[main'] = n
    BY <1>1, <1>2, <1>5 DEF SetUp, SetUpSteps, TelemetrySteps, After, SetUpBefore, Resources
  <2>2. live' = live /\ shutdownFuncs' = shutdownFuncs
    BY <1>5 DEF SetUp
  <2> QED  BY <1>2, <1>3, <2>1, <2>2 DEF ReleaseInv, NothingLeaked
<1> QED  BY <1>4, <1>5

(* The two steps that follow the opening of the database. *)
LEMMA LastSteps ==
  \A step \in SetUpSteps :
    /\ SetUpBefore[step] = 5 => step = "dbstats"
    /\ SetUpBefore[step] = 6 => step = "ping"
<1>1. /\ SetUpBefore["conn"] = 0 /\ SetUpBefore["trace"] = 1 /\ SetUpBefore["meter"] = 2
      /\ SetUpBefore["runtime"] = 3 /\ SetUpBefore["log"] = 3 /\ SetUpBefore["config"] = 4
      /\ SetUpBefore["port"] = 4 /\ SetUpBefore["db"] = 4 /\ SetUpBefore["dbstats"] = 5
      /\ SetUpBefore["ping"] = 6
  BY DEF SetUpBefore
<1> QED  BY <1>1 DEF SetUpSteps, TelemetrySteps

LEMMA SetUpFailsRelease == ReleaseInv /\ SetUpFails => ReleaseInv'
<1> SUFFICES ASSUME ReleaseInv, SetUpFails PROVE ReleaseInv'
  OBVIOUS
<1>1. main \in SetUpSteps /\ main \in DOMAIN SetUpBefore
  BY DEF SetUpFails, SetUpSteps, TelemetrySteps, SetUpBefore
<1>2. PICK n \in 0 .. 6 : /\ n = SetUpBefore[main]
                          /\ live = Oldest(n)
                          /\ shutdownFuncs = OldestInOrder(IF n < 4 THEN n ELSE 4)
                          /\ todo = <<>>
  BY <1>1, SetUpState
<1>3. todo' = YoungestFirst(n)
  <2>1. OtelShutdown = YoungestFirst(IF n < 4 THEN n ELSE 4)
    <3> DEFINE m == IF n < 4 THEN n ELSE 4
    <3>1. m \in 0 .. 4 /\ shutdownFuncs = OldestInOrder(m)
      BY <1>2
    <3> HIDE DEF m
    <3>2. OtelShutdown = YoungestFirst(m)
      BY <3>1, FuncsSteps DEF OtelShutdown
    <3> QED  BY <3>2 DEF m
  <2>2. CASE n <= 4
    <3>1. OpenedBefore[main] = <<>>
      BY <1>1, <1>2, <2>2 DEF OpenedBefore, SetUpBefore
    <3>2. YoungestFirst(n) \in Seq(Resources)
      BY YoungestSteps
    <3> QED  BY <2>1, <2>2, <3>1, <3>2 DEF SetUpFails
  <2>3. CASE n = 5
    <3>1. main = "dbstats"
      BY <1>1, <1>2, <2>3, LastSteps
    <3>2. OpenedBefore[main] = <<"db">>
      BY <1>1, <3>1 DEF OpenedBefore
    <3> QED  BY <2>1, <2>3, <3>2, CleanUpSteps DEF SetUpFails
  <2>4. CASE n = 6
    <3>1. main = "ping"
      BY <1>1, <1>2, <2>4, LastSteps
    <3>2. OpenedBefore[main] = CleanUp
      BY <1>1, <3>1 DEF OpenedBefore
    <3> QED  BY <2>1, <2>4, <3>2, CleanUpSteps DEF SetUpFails
  <2> QED  BY <2>2, <2>3, <2>4
<1>4. main' = "unwind" /\ live' = live
  BY DEF SetUpFails, startup
<1> QED  BY <1>2, <1>3, <1>4, SetUpOrderType DEF ReleaseInv, NothingLeaked, SetUpBefore

LEMMA ReturnRelease ==
  ReleaseInv /\ main \in {"select", "shutdown", "check", "wait"} /\ Return => ReleaseInv'
<1> SUFFICES ASSUME ReleaseInv, main \in {"select", "shutdown", "check", "wait"}, Return
             PROVE  ReleaseInv'
  OBVIOUS
<1>1. main \in DOMAIN SetUpBefore /\ SetUpBefore[main] = 6
  BY DEF SetUpBefore
<1>2. live = Oldest(6) /\ shutdownFuncs = OldestInOrder(4)
  BY <1>1 DEF ReleaseInv
<1>3. OtelShutdown = YoungestFirst(4)
  BY <1>2, FuncsSteps DEF OtelShutdown
<1>4. todo' = <<"stop">> \o YoungestFirst(6)
  <2>1. <<"stop">> \o CleanUp \o YoungestFirst(4) = <<"stop">> \o (CleanUp \o YoungestFirst(4))
    <3> DEFINE one == <<"stop">>
               two == CleanUp
               three == YoungestFirst(4)
               any == Resources \cup {"stop"}
    <3>1. one \in Seq(any) /\ two \in Seq(any) /\ three \in Seq(any)
      BY YoungestSteps DEF CleanUp, Resources
    <3> HIDE DEF one, two, three, any
    <3>2. (one \o two) \o three = one \o (two \o three)
      BY <3>1, ConcatAssociative
    <3> QED  BY <3>2 DEF one, two, three
  <2> QED  BY <1>3, <2>1, CleanUpSteps DEF Return
<1>5. main' = "unwind" /\ live' = live
  BY DEF Return, startup
<1> QED  BY <1>2, <1>4, <1>5, SetUpOrderType DEF ReleaseInv, NothingLeaked, SetUpBefore

(* A deferred call releases the youngest resource that is left. *)
LEMMA RunDeferredHead ==
  ASSUME ReleaseInv, RunDeferred
  PROVE  \/ /\ Head(todo) = "stop" /\ live' = live
            /\ live = Oldest(6) /\ todo' = YoungestFirst(6)
         \/ \E n \in 1 .. 6 : /\ live = Oldest(n) /\ Head(todo) = SetUpOrder[n]
                              /\ live' = Oldest(n - 1) /\ todo' = YoungestFirst(n - 1)
<1>1. PICK n \in 0 .. 6 :
        /\ live = Oldest(n)
        /\ \/ todo = YoungestFirst(n)
           \/ n = 6 /\ todo = <<"stop">> \o YoungestFirst(n)
  BY SetUpOrderType DEF ReleaseInv, RunDeferred
<1>2. todo # <<>> /\ todo' = Tail(todo)
  BY DEF RunDeferred
<1>3. CASE n = 6 /\ todo = <<"stop">> \o YoungestFirst(n)
  <2>1. Head(todo) = "stop" /\ Tail(todo) = YoungestFirst(6)
    <3> DEFINE list == YoungestFirst(6)
    <3>1. list \in Seq(Resources)
      BY YoungestSteps
    <3> HIDE DEF list
    <3>2. Head(<<"stop">> \o list) = "stop" /\ Tail(<<"stop">> \o list) = list
      BY <3>1
    <3> QED  BY <1>3, <3>2 DEF list
  <2>2. live' = live
    BY <2>1 DEF RunDeferred
  <2> QED  BY <1>1, <1>2, <1>3, <2>1, <2>2
<1>4. CASE todo = YoungestFirst(n)
  <2>1. n > 0
    <3>1. Len(todo) # 0
      BY <1>2, <1>4, YoungestSteps
    <3> QED  BY <1>4, <3>1, YoungestSteps
  <2>2. Head(todo) = SetUpOrder[n] /\ todo' = YoungestFirst(n - 1)
    BY <1>2, <1>4, <2>1, YoungestSteps
  <2>3. live' = live \ {SetUpOrder[n]}
    BY <2>1, <2>2, SetUpOrderType DEF RunDeferred
  <2>4. Oldest(n - 1) = Oldest((n - 1) + 1) \ {SetUpOrder[(n - 1) + 1]}
    <3>1. n - 1 \in 0 .. 5
      BY <2>1
    <3> QED  BY <3>1, OldestSteps
  <2>5. live' = Oldest(n - 1)
    BY <1>1, <2>1, <2>3, <2>4
  <2> QED  BY <1>1, <2>1, <2>2, <2>5
<1> QED  BY <1>1, <1>3, <1>4

LEMMA RunDeferredRelease == ReleaseInv /\ RunDeferred => ReleaseInv'
<1> SUFFICES ASSUME ReleaseInv, RunDeferred PROVE ReleaseInv'
  OBVIOUS
<1>1. main' = "unwind"
  BY DEF RunDeferred
<1>2. \E n \in 0 .. 6 : live' = Oldest(n) /\ todo' = YoungestFirst(n)
  BY RunDeferredHead
<1> QED  BY <1>1, <1>2, SetUpOrderType DEF ReleaseInv, NothingLeaked, SetUpBefore

LEMMA ExitRelease == ReleaseInv /\ Exit => ReleaseInv'
<1> SUFFICES ASSUME ReleaseInv, Exit PROVE ReleaseInv'
  OBVIOUS
<1>1. main = "unwind" /\ todo = <<>> /\ main' = "exited" /\ live' = live
  BY DEF Exit, startup
<1>2. PICK n \in 0 .. 6 :
        /\ live = Oldest(n)
        /\ \/ todo = YoungestFirst(n)
           \/ n = 6 /\ todo = <<"stop">> \o YoungestFirst(n)
  BY <1>1, SetUpOrderType DEF ReleaseInv
<1>3. todo = YoungestFirst(n)
  <2>1. <<"stop">> \o YoungestFirst(6) # <<>>
    <3> DEFINE list == YoungestFirst(6)
    <3>1. list \in Seq(Resources)
      BY YoungestSteps
    <3> HIDE DEF list
    <3>2. Len(<<"stop">> \o list) # 0
      BY <3>1
    <3> QED  BY <3>2 DEF list
  <2> QED  BY <1>1, <1>2, <2>1
<1>4. n = 0
  <2>1. Len(todo) = 0 /\ Len(YoungestFirst(n)) = n
    BY <1>1, YoungestSteps
  <2> QED  BY <1>3, <2>1
<1>5. live' = {}
  BY <1>1, <1>2, <1>4, OldestSteps
<1> QED  BY <1>1, <1>5 DEF ReleaseInv, NothingLeaked, SetUpBefore

(* Steps that neither set up nor release anything. *)
LEMMA OtherRelease ==
  ASSUME ReleaseInv, UNCHANGED <<live, shutdownFuncs, todo>>,
         \/ main' = main
         \/ main' = "killed"
         \/ /\ main \in {"launch", "select", "shutdown", "check", "wait"}
            /\ main' \in {"launch", "select", "shutdown", "check", "wait"}
  PROVE  ReleaseInv'
<1>1. CASE main' = main
  BY <1>1 DEF ReleaseInv, NothingLeaked
<1>2. CASE main' = "killed"
  BY <1>2 DEF ReleaseInv, NothingLeaked, SetUpBefore
<1>3. CASE /\ main \in {"launch", "select", "shutdown", "check", "wait"}
           /\ main' \in {"launch", "select", "shutdown", "check", "wait"}
  <2>1. /\ main \in DOMAIN SetUpBefore /\ main' \in DOMAIN SetUpBefore
        /\ SetUpBefore[main] = 6 /\ SetUpBefore[main'] = 6
    BY <1>3 DEF SetUpBefore
  <2> QED  BY <1>3, <2>1 DEF ReleaseInv, NothingLeaked
<1> QED  BY <1>1, <1>2, <1>3

LEMMA ReleaseNextInv == ReleaseInv /\ [Next]_vars => ReleaseInv'
<1> SUFFICES ASSUME ReleaseInv, [Next]_vars PROVE ReleaseInv'
  OBVIOUS
<1>1. CASE SetUp             BY <1>1, SetUpRelease
<1>2. CASE SetUpFails        BY <1>2, SetUpFailsRelease
<1>3. CASE ServerFailed      BY <1>3, ReturnRelease DEF ServerFailed, ReturnError
<1>4. CASE ShutdownFails     BY <1>4, ReturnRelease DEF ShutdownFails, ReturnError
<1>5. CASE ReturnOK          BY <1>5, ReturnRelease DEF ReturnOK
<1>6. CASE CheckServer
  <2>1. CASE errCh   BY <1>6, <2>1, ReturnRelease DEF CheckServer, ErrorReported, ReturnError
  <2>2. CASE ~errCh  BY <1>6, <2>2, OtherRelease DEF CheckServer, ErrorReported, startup
  <2> QED  BY <2>1, <2>2
<1>7. CASE RunDeferred       BY <1>7, RunDeferredRelease
<1>8. CASE Exit              BY <1>8, ExitRelease
<1>9. CASE StartServer \/ BeginShutdown \/ ShutdownCompletes
  BY <1>9, OtherRelease DEF StartServer, BeginShutdown, ShutdownCompletes, startup
<1>10. CASE Signal           BY <1>10, OtherRelease DEF Signal, startup
<1>11. CASE ListenAndServe \/ SendError
  BY <1>11, OtherRelease DEF ListenAndServe, SendError, startup
<1>12. CASE \E c \in Connections : ConnectionStep(c)
  BY <1>12, OtherRelease DEF ConnectionStep, startup
<1>13. CASE BeginSweep \/ EndSweep \/ SweeperReturns
  BY <1>13, OtherRelease DEF BeginSweep, EndSweep, SweeperReturns, SweeperGoesTo, startup
<1>14. CASE UNCHANGED vars   BY <1>14, OtherRelease DEF vars, startup
<1> QED  BY <1>1, <1>2, <1>3, <1>4, <1>5, <1>6, <1>7, <1>8, <1>9, <1>10, <1>11, <1>12,
            <1>13, <1>14 DEF Next, MainStep, Stopped

(* At every moment the resources set up are the oldest ones, and once main *)
(* unwinds it has exactly these left to release, the youngest first,       *)
(* whichever step of the set-up has failed.                                *)
THEOREM LifecycleReleases == Spec => []ReleaseInv
BY ReleaseInitInv, ReleaseNextInv, PTL DEF Spec

(* A process that exits by itself has released all that it had set up.     *)
THEOREM LifecycleLeaksNothing == Spec => []NothingLeaked
<1>1. ReleaseInv => NothingLeaked
  BY DEF ReleaseInv
<1> QED  BY <1>1, LifecycleReleases, PTL

(* The place of a resource in the order of set-up is unique. *)
LEMMA AgeOf == \A i \in 1 .. 6 : Age(SetUpOrder[i]) = i
<1> SUFFICES ASSUME NEW i \in 1 .. 6 PROVE Age(SetUpOrder[i]) = i
  OBVIOUS
<1>1. DOMAIN SetUpOrder = 1 .. 6
  BY DEF SetUpOrder
<1>2. \A j \in DOMAIN SetUpOrder : SetUpOrder[j] = SetUpOrder[i] => j = i
  BY <1>1, SetUpOrderType
<1> QED  BY <1>1, <1>2 DEF Age

LEMMA ReleaseOrder ==
  ASSUME LifecycleInv, ReleaseInv, [Next]_vars,
         todo # <<>>, todo' = Tail(todo), Head(todo) # "stop"
  PROVE  /\ Head(todo) \in live
         /\ \A resource \in live : Age(resource) <= Age(Head(todo))
<1>1. todo' # todo
  <2>1. todo \in Seq(Resources \cup {"stop"})
    BY DEF LifecycleInv, TypeOK
  <2>2. Len(Tail(todo)) # Len(todo)
    BY <2>1
  <2> QED  BY <2>2
<1>2. main \notin DOMAIN SetUpBefore
  BY DEF ReleaseInv
<1>3. RunDeferred
  BY <1>1, <1>2 DEF Next, MainStep, SetUp, SetUpFails, StartServer, ServerFailed, ReturnError,
        Return, BeginShutdown, ShutdownCompletes, ShutdownFails, CheckServer, ReturnOK, Exit,
        Signal, ListenAndServe, SendError, ConnectionStep, BeginSweep, EndSweep, SweeperReturns,
        SweeperGoesTo, Stopped, vars, startup, SetUpBefore, SetUpSteps, TelemetrySteps
<1>4. PICK n \in 1 .. 6 : live = Oldest(n) /\ Head(todo) = SetUpOrder[n]
  BY <1>3, RunDeferredHead
<1>5. Head(todo) \in live
  BY <1>4 DEF Oldest
<1>6. \A resource \in live : \E i \in 1 .. n : resource = SetUpOrder[i]
  BY <1>4 DEF Oldest
<1> QED  BY <1>4, <1>5, <1>6, AgeOf

(* Every release, in every run, is that of the youngest resource that is   *)
(* still set up.                                                           *)
THEOREM LifecycleReleasesYoungest == Spec => YoungestReleasedFirst
<1>1. LifecycleInv /\ ReleaseInv /\ [Next]_vars =>
        [todo # <<>> /\ todo' = Tail(todo) /\ Head(todo) # "stop" =>
           /\ Head(todo) \in live
           /\ \A resource \in live : Age(resource) <= Age(Head(todo))]_vars
  BY ReleaseOrder
<1> QED  BY <1>1, LifecycleInvariant, LifecycleReleases, PTL DEF Spec, YoungestReleasedFirst
=============================================================================
