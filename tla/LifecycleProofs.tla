-------------------------- MODULE LifecycleProofs ---------------------------
(* Proofs about Lifecycle for any set of requests and exporters and any      *)
(* timeouts that satisfy TimeoutsAssumption.                                 *)
EXTENDS Lifecycle, TLAPS

LEMMA InitInv == Init => IInv
<1> SUFFICES ASSUME Init PROVE IInv
  OBVIOUS
<1> USE MaxReconnectsAssumption, TimeoutsAssumption DEF Init, ConnInit, HandlerInit
<1>1. TypeOK
  <2>1. ConnTypeOK
    BY DEF ConnTypeOK, Status
  <2>2. wait \in [Requests -> 0 .. NatsTimeout]
    BY DEF TypeOK
  <2>3. main # "exited" /\ exit = "running"
    OBVIOUS
  <2>4. ctxDone \in BOOLEAN /\ closed \in BOOLEAN
    OBVIOUS
  <2> QED
    BY <2>1, <2>2, <2>3, <2>4 DEF TypeOK
<1>2. StageInv /\ OwedInv /\ TimeInv
  BY DEF StageInv, OwedInv, TimeInv
<1> QED
  BY <1>1, <1>2 DEF IInv

(* Whatever happens to the connection, it is never revived.                  *)
LEMMA ConnSteps ==
  ASSUME ConnTypeOK,
         LoseServer \/ ReconnectFails \/ Reconnect \/ Close \/ DrainSubsDone \/ DrainPubsDone
  PROVE  ConnTypeOK' /\ (conn \in Stopped => conn' \in Stopped)
<1> USE MaxReconnectsAssumption DEF ConnTypeOK, Status, Draining, Stopped
<1>1. CASE LoseServer
  BY <1>1 DEF LoseServer
<1>2. CASE ReconnectFails
  BY <1>2 DEF ReconnectFails
<1>3. CASE Reconnect
  BY <1>3 DEF Reconnect
<1>4. CASE Close
  BY <1>4 DEF Close
<1>5. CASE DrainSubsDone \/ DrainPubsDone
  BY <1>5 DEF DrainSubsDone, DrainPubsDone
<1> QED
  BY <1>1, <1>2, <1>3, <1>4, <1>5

(* The end of the process keeps the invariant when it owes nothing any more. *)
LEMMA ExitInv ==
  ASSUME IInv, NEW how \in {"killed", "error", "ok"}, main # "exited", Exit(how),
         providers' \subseteq Exporters,
         how = "ok" => http = "done" /\ closed /\ providers' = {}
  PROVE  IInv'
<1> USE TimeoutsAssumption DEF IInv, Exit, startVars, stopVars, connVars
<1>1. TypeOK'
  BY DEF TypeOK, ConnTypeOK
<1>2. StageInv'
  BY DEF StageInv, TypeOK
<1>3. OwedInv'
  BY DEF OwedInv, TypeOK
<1>4. TimeInv'
  BY DEF TimeInv, TypeOK, ExitInTime, StageInv
<1> QED
  BY <1>1, <1>2, <1>3, <1>4

LEMMA StartInv ==
  ASSUME IInv,
         \/ SetUpExporter \/ SetUpFails \/ SetUpDone
         \/ NewContainer \/ NewContainerFails \/ ServerError
  PROVE  IInv'
<1>1. CASE SetUpFails
  BY <1>1, ExitInv DEF SetUpFails
<1>2. CASE NewContainerFails
  BY <1>2, ExitInv DEF NewContainerFails, IInv, TypeOK, StageInv
<1>3. CASE ServerError
  BY <1>3, ExitInv DEF ServerError, IInv, TypeOK, StageInv
<1>4. CASE SetUpExporter \/ SetUpDone \/ NewContainer
  <2> USE <1>4 DEF IInv, SetUpExporter, SetUpDone, NewContainer,
                   startVars, handlerVars, stopVars, connVars
  <2>1. TypeOK'
    BY DEF TypeOK, ConnTypeOK
  <2>2. StageInv'
    <3>1. CASE SetUpExporter
      BY <3>1 DEF StageInv, TypeOK
    <3>2. CASE SetUpDone
      BY <3>2 DEF StageInv, TypeOK
    <3>3. CASE NewContainer
      BY <3>3 DEF StageInv, TypeOK
    <3> QED
      BY <1>4, <3>1, <3>2, <3>3
  <2>3. OwedInv' /\ TimeInv'
    BY DEF OwedInv, TimeInv, StageInv, TypeOK
  <2> QED
    BY <2>1, <2>2, <2>3
<1> QED
  BY <1>1, <1>2, <1>3, <1>4

(* Signals and the server's goroutine.                                       *)
LEMMA SignalInv ==
  ASSUME IInv, Signal \/ CancelOnSignal \/ Listen \/ AcceptFails
  PROVE  IInv'
<1>1. CASE Signal /\ main = "otel"
  BY <1>1, ExitInv DEF Signal, IInv, TypeOK
<1>2. CASE (Signal /\ main # "otel") \/ CancelOnSignal \/ Listen \/ AcceptFails
  <2> USE <1>2 DEF IInv, Signal, CancelOnSignal, Listen, AcceptFails, handlerVars, stopVars, connVars
  <2>1. /\ signals' \in 0 .. MaxSignals /\ sigChan' \in {0, 1}
        /\ server' \in {"none", "starting", "listening", "closed", "failed"}
    BY TimeoutsAssumption DEF TypeOK
  <2>5. ctxDone' \in BOOLEAN
    BY Zenon DEF TypeOK
  <2>2. UNCHANGED <<main, exit, providers, todo, handlerVars, stopVars, elapsed, connVars>>
    OBVIOUS
  <2>6. (server = "none" => server' = "none") /\ (server' = "listening" => http = "none")
    BY DEF StageInv
  <2> HIDE <1>2
  <2>3. TypeOK'
    BY <2>1, <2>2, <2>5 DEF TypeOK, ConnTypeOK
  <2>4. StageInv' /\ OwedInv' /\ TimeInv'
    BY <2>2, <2>6 DEF StageInv, OwedInv, TimeInv, ExitInTime
  <2> QED
    BY <2>3, <2>4
<1> QED
  BY <1>1, <1>2 DEF Signal

LEMMA HandlerInv ==
  ASSUME IInv, NEW r \in Requests,
         Arrive(r) \/ Authenticated(r) \/ RequestReturns(r) \/ RequestTimesOut(r)
  PROVE  IInv'
<1> USE DEF IInv, Moves, startVars, handlerVars, stopVars, connVars
<1>1. CASE Arrive(r) \/ RequestReturns(r) \/ RequestTimesOut(r)
  <2> USE <1>1 DEF Arrive, RequestReturns, RequestTimesOut, Opens, NatsReturns
  <2>1. TypeOK'
    BY DEF TypeOK, ConnTypeOK
  <2>2. StageInv' /\ TimeInv'
    BY DEF StageInv, TimeInv, ExitInTime
  <2>3. OwedInv'
    BY DEF OwedInv, TypeOK
  <2> QED
    BY <2>1, <2>2, <2>3
<1>2. CASE Authenticated(r)
  <2> USE <1>2 DEF Authenticated, AnsweredAtOnce, WaitsForNats
  <2>1. TypeOK'
    BY TimeoutsAssumption DEF TypeOK, ConnTypeOK
  <2>2. StageInv' /\ TimeInv'
    BY DEF StageInv, TimeInv, ExitInTime
  <2>3. OwedInv'
    BY DEF OwedInv, TypeOK
  <2> QED
    BY <2>1, <2>2, <2>3
<1> QED
  BY <1>1, <1>2

LEMMA ConnectionInv ==
  ASSUME IInv, Connection
  PROVE  IInv'
<1> USE DEF IInv, Connection, startVars, handlerVars, stopVars
<1>1. ConnTypeOK' /\ (conn \in Stopped => conn' \in Stopped)
  BY ConnSteps DEF TypeOK
<1>2. TypeOK'
  BY <1>1 DEF TypeOK
<1>3. StageInv' /\ OwedInv' /\ TimeInv'
  BY <1>1 DEF StageInv, OwedInv, TimeInv, ExitInTime
<1> QED
  BY <1>2, <1>3

LEMMA BeginShutdownInv ==
  ASSUME IInv, BeginShutdown
  PROVE  IInv'
<1> USE DEF IInv, BeginShutdown, startVars, handlerVars, connVars
<1>1. TypeOK'
  BY DEF TypeOK, ConnTypeOK
<1>2. StageInv' /\ TimeInv'
  BY DEF StageInv, TimeInv, TypeOK
<1>3. OwedInv'
  BY DEF OwedInv, StageInv, TypeOK
<1> QED
  BY <1>1, <1>2, <1>3

(* The two goroutines of performConcurrentShutdown.                          *)
LEMMA StopInv ==
  ASSUME IInv, Stop
  PROVE  IInv'
<1> USE TimeoutsAssumption DEF IInv, startVars, handlerVars, connVars
<1>1. CASE ShutdownHTTP
  <2> USE <1>1 DEF ShutdownHTTP
  <2>1. TypeOK'
    BY DEF TypeOK, ConnTypeOK
  <2>2. StageInv' /\ TimeInv'
    BY DEF StageInv, TimeInv, TypeOK
  <2>3. OwedInv'
    BY DEF OwedInv, TypeOK
  <2> QED
    BY <2>1, <2>2, <2>3
<1>2. CASE ShutdownHTTPEnds
  <2> USE <1>2 DEF ShutdownHTTPEnds
  <2>1. TypeOK'
    BY DEF TypeOK, ConnTypeOK
  <2>2. StageInv' /\ TimeInv'
    BY DEF StageInv, TimeInv, TypeOK
  <2>3. OwedInv'
    <3>1. ASSUME NEW r \in owed PROVE handler[r] # "nats"
      BY <3>1 DEF OwedInv, Active, TypeOK
    <3> QED
      BY <3>1 DEF OwedInv
  <2> QED
    BY <2>1, <2>2, <2>3
<1>3. CASE CloseContainer
  <2> USE <1>3 DEF CloseContainer
  <2>1. ConnTypeOK' /\ conn' \in Stopped
    BY MaxReconnectsAssumption DEF Close, TypeOK, ConnTypeOK, Status, Draining, Stopped
  <2>2. TypeOK'
    BY <2>1 DEF TypeOK
  <2>3. StageInv' /\ OwedInv' /\ TimeInv'
    BY <2>1 DEF StageInv, OwedInv, TimeInv, TypeOK
  <2> QED
    BY <2>2, <2>3
<1> QED
  BY <1>1, <1>2, <1>3 DEF Stop

LEMMA EndInv ==
  ASSUME IInv, WaitReturns \/ OtelShutdown
  PROVE  IInv'
<1>1. CASE OtelShutdown
  BY <1>1, ExitInv DEF OtelShutdown, IInv, StageInv
<1>2. CASE WaitReturns
  <2> USE <1>2, TimeoutsAssumption DEF IInv, WaitReturns, StartFlush, startVars, handlerVars, connVars
  <2>1. TypeOK'
    BY DEF TypeOK, ConnTypeOK
  <2>2. StageInv' /\ OwedInv' /\ TimeInv'
    BY DEF StageInv, OwedInv, TimeInv, TypeOK
  <2> QED
    BY <2>1, <2>2
<1> QED
  BY <1>1, <1>2

LEMMA TickInv ==
  ASSUME IInv, Tick
  PROVE  IInv'
<1> USE TimeoutsAssumption DEF IInv, Tick, startVars, connVars
<1>1. TypeOK'
  <2>1. wait' \in [Requests -> 0 .. NatsTimeout]
    BY DEF TypeOK
  <2> QED
    BY <2>1 DEF TypeOK, ConnTypeOK
<1>2. StageInv'
  BY DEF StageInv
<1>3. TimeInv'
  BY DEF TimeInv, Ready, TypeOK, ExitInTime
<1>4. OwedInv'
  <2>1. ASSUME NEW r \in owed, handler[r] = "nats", http = "waiting"
        PROVE  wait'[r] < httpTimer'
    BY <2>1 DEF OwedInv, TypeOK
  <2> QED
    BY <2>1 DEF OwedInv
<1> QED
  BY <1>1, <1>2, <1>3, <1>4

LEMMA NextInv == IInv /\ [Next]_vars => IInv'
<1> SUFFICES ASSUME IInv, [Next]_vars PROVE IInv'
  OBVIOUS
<1>1. CASE UNCHANGED vars
  BY <1>1 DEF vars, startVars, handlerVars, stopVars, connVars, IInv, TypeOK, ConnTypeOK,
              StageInv, OwedInv, TimeInv, ExitInTime
<1>2. CASE Next
  BY <1>2, StartInv, BeginShutdownInv, EndInv, StopInv, SignalInv, HandlerInv, ConnectionInv, TickInv
  DEF Next, Main
<1> QED
  BY <1>1, <1>2

(* The inductive invariant.                                                  *)
THEOREM Invariance == Spec => []IInv
BY InitInv, NextInv, PTL DEF Spec

(* The types of the variables of the process.                                *)
THEOREM TypeCorrect == Spec => []TypeOK
<1>1. IInv => TypeOK
  BY DEF IInv
<1> QED
  BY <1>1, Invariance, PTL

(* No request that was waiting when the shutdown began goes unanswered,      *)
(* because NatsTimeout is smaller than ShutdownTimeout.                      *)
THEOREM InFlightIsAnswered == Spec => []InFlightAnswered
<1>1. IInv => InFlightAnswered
  BY DEF IInv, StageInv, OwedInv, InFlightAnswered
<1> QED
  BY <1>1, Invariance, PTL

(* The shutdown takes at most ShutdownTimeout + OtelTimeout.                 *)
THEOREM ExitsInTime == Spec => []ExitInTime
<1>1. IInv => ExitInTime
  BY TimeoutsAssumption DEF IInv, TimeInv, ExitInTime, TypeOK
<1> QED
  BY <1>1, Invariance, PTL

(* A regular exit has begun to drain NATS and has shut every provider down.  *)
THEOREM ExitsClean == Spec => []CleanExit
<1>1. IInv => CleanExit
  BY DEF IInv, StageInv, CleanExit, Stopped
<1> QED
  BY <1>1, Invariance, PTL

(* What StopContract sees of the process.                                    *)
LEMMA StopSteps ==
  ASSUME IInv, [Next]_vars
  PROVE  [Stopping!Next]_(Stopping!svars)
<1> USE DEF IInv, Stopping!Next, Stopping!svars, Active
<1>1. CASE SetUpExporter \/ SetUpDone \/ Connection
  BY <1>1 DEF SetUpExporter, SetUpDone, Connection, startVars, handlerVars, stopVars
<1>2. CASE SetUpFails \/ NewContainerFails \/ ServerError \/ (Signal /\ main = "otel")
  <2>1. /\ main \in {"otel", "container", "serving"} /\ main' = "exited"
        /\ exit' # "ok" /\ UNCHANGED <<owed, elapsed>>
        /\ handler' = [r \in Requests |->
             IF handler[r] \in {"auth", "nats"} THEN "cut" ELSE handler[r]]
    BY <1>2 DEF SetUpFails, NewContainerFails, ServerError, Signal, Exit, stopVars
  <2>2. /\ {r \in Requests : handler'[r] \in {"auth", "nats"}} = {}
        /\ \A r \in Requests : handler'[r] = "answered" <=> handler[r] = "answered"
    BY <2>1
  <2>3. Stopping!Break
    BY <2>1, <2>2 DEF Stopping!Break
  <2> QED
    BY <2>3
<1>3. CASE NewContainer
  <2>1. Stopping!Serve
    BY <1>3 DEF NewContainer, handlerVars, stopVars, Stopping!Serve
  <2> QED
    BY <2>1
<1>4. CASE BeginShutdown
  <2>1. Stopping!BeginStop
    BY <1>4 DEF BeginShutdown, handlerVars, Stopping!BeginStop
  <2> QED
    BY <2>1
<1>5. CASE WaitReturns \/ Stop
  BY <1>5 DEF WaitReturns, StartFlush, Stop, ShutdownHTTP, ShutdownHTTPEnds, CloseContainer, handlerVars
<1>6. CASE OtelShutdown
  <2>1. owed \subseteq {r \in Requests : handler[r] = "answered"}
    BY <1>6 DEF OtelShutdown, StageInv, OwedInv, TypeOK
  <2>2. /\ main = "flushing" /\ main' = "exited" /\ exit' = "ok"
        /\ UNCHANGED <<owed, elapsed>>
        /\ handler' = [r \in Requests |->
             IF handler[r] \in {"auth", "nats"} THEN "cut" ELSE handler[r]]
    BY <1>6 DEF OtelShutdown, Exit, stopVars
  <2>3. /\ {r \in Requests : handler'[r] \in {"auth", "nats"}} = {}
        /\ \A r \in Requests : handler'[r] = "answered" <=> handler[r] = "answered"
    BY <2>2
  <2>4. Stopping!End
    BY <2>1, <2>2, <2>3 DEF Stopping!End
  <2> QED
    BY <2>4
<1>7. CASE (Signal /\ main # "otel") \/ CancelOnSignal \/ Listen \/ AcceptFails
  BY <1>7 DEF Signal, CancelOnSignal, Listen, AcceptFails, handlerVars, stopVars
<1>8. ASSUME NEW r \in Requests, Arrive(r)
      PROVE  Stopping!Accept(r)
  <2>1. main \in {"serving", "stopping"}
    BY <1>8 DEF Arrive, StageInv, TypeOK
  <2> QED
    BY <1>8, <2>1 DEF Arrive, Opens, Moves, stopVars, TypeOK, Stopping!Accept
<1>9. ASSUME NEW r \in Requests,
             main # "exited", UNCHANGED <<main, exit, stopVars, elapsed>>,
             AnsweredAtOnce(r) \/ NatsReturns(r)
      PROVE  Stopping!Answer(r)
  BY <1>9 DEF AnsweredAtOnce, NatsReturns, Moves, stopVars, TypeOK, Stopping!Answer
<1>10. ASSUME NEW r \in Requests, Authenticated(r)
       PROVE  Stopping!Answer(r) \/ UNCHANGED Stopping!svars
  <2>1. CASE AnsweredAtOnce(r)
    BY <1>9, <1>10, <2>1 DEF Authenticated
  <2>2. CASE WaitsForNats(r)
    BY <1>10, <2>2 DEF Authenticated, WaitsForNats, Moves, stopVars, TypeOK
  <2> QED
    BY <1>10, <2>1, <2>2 DEF Authenticated
<1>11. ASSUME NEW r \in Requests, RequestReturns(r) \/ RequestTimesOut(r)
       PROVE  Stopping!Answer(r)
  BY <1>9, <1>11 DEF RequestReturns, RequestTimesOut
<1>12. CASE Tick
  <2>1. CASE main \in {"stopping", "flushing"}
    <3>1. ShutdownTimeout + OtelTimeout - elapsed > 0
      BY <1>12, <2>1, TimeoutsAssumption DEF Tick, Ready, TimeInv, TypeOK
    <3>2. ShutdownTimeout + OtelTimeout - elapsed' = (ShutdownTimeout + OtelTimeout - elapsed) - 1
      BY <1>12, <2>1, TimeoutsAssumption DEF Tick, TypeOK
    <3>3. Stopping!Elapse
      BY <1>12, <2>1, <3>1, <3>2 DEF Tick, Stopping!Elapse
    <3> QED
      BY <3>3
  <2>2. CASE main \notin {"stopping", "flushing"}
    BY <1>12, <2>2 DEF Tick
  <2> QED
    BY <2>1, <2>2
<1>13. CASE UNCHANGED vars
  BY <1>13 DEF vars, handlerVars, stopVars
<1> QED
  BY <1>1, <1>2, <1>3, <1>4, <1>5, <1>6, <1>7, <1>8, <1>10, <1>11, <1>12, <1>13
  DEF Next, Main, Signal

(* The process stops as StopContract promises.                               *)
THEOREM StopsAsPromised == Spec => ImplementsStop
<1>1. Init => Stopping!Init
  <2> SUFFICES ASSUME Init PROVE Stopping!Init
    OBVIOUS
  <2>1. main = "otel" /\ owed = {} /\ elapsed = 0
    BY DEF Init
  <2>2. Active = {} /\ {r \in Requests : handler[r] = "answered"} = {}
    BY DEF Init, HandlerInit, Active
  <2>3. ShutdownTimeout + OtelTimeout - elapsed = ShutdownTimeout + OtelTimeout
    BY <2>1, TimeoutsAssumption
  <2> QED
    BY <2>1, <2>2, <2>3 DEF Stopping!Init
<1> QED
  BY <1>1, StopSteps, Invariance, PTL DEF Spec, ImplementsStop, Stopping!Spec
=============================================================================
