------------------------------ MODULE Lifecycle ------------------------------
(* The life of the process: main and StartServer, the signal goroutine, the   *)
(* HTTP server's goroutine, and the two goroutines of                         *)
(* performConcurrentShutdown, around the NATS connection of NatsConn.         *)
(*                                                                            *)
(* Time is counted in ticks; a tick does not pass a timer that has run out,   *)
(* nor a goroutine that is ready to run.  Handlers are reduced to what a      *)
(* shutdown can tell apart: authenticating (no deadline: the JWKS fetch has   *)
(* none), waiting for NATS (NatsTimeout), answered, or cut off by the exit.   *)
EXTENDS HandlerView

CONSTANTS
  Exporters,         \* OTel signals: traces, metrics, logs
  NatsTimeout,       \* constants.DefaultNATSTimeout
  ShutdownTimeout,   \* constants.DefaultShutdownTimeout
  OtelTimeout,       \* gracefulShutdownSeconds
  MaxSignals         \* bound on the signals sent to the process

ASSUME TimeoutsAssumption ==
  /\ NatsTimeout \in Nat /\ ShutdownTimeout \in Nat /\ OtelTimeout \in Nat
  /\ NatsTimeout < ShutdownTimeout
  /\ MaxSignals \in Nat

VARIABLES
  main,        \* position of the main goroutine
  exit,        \* "running", or how the process ended
  todo,        \* exporters that SetupOTelSDKWithConfig has yet to set up
  providers,   \* OTel providers set up and not shut down
  signals,     \* signals sent so far
  sigChan,     \* signals in the channel (capacity 1)
  ctxDone,     \* the context of main is cancelled
  server,      \* the goroutine of ListenAndServe
  wait,        \* time left of each RequestMsg
  http,        \* the goroutine of srv.Shutdown
  httpTimer,   \* time left of shutdownCtx
  closed,      \* the goroutine of cont.Close has returned
  flushTimer,  \* time left of the context of otelShutdown
  owed,        \* requests that waited for NATS when the shutdown began
  elapsed      \* time since the shutdown began

startVars == <<todo, signals, sigChan, ctxDone, server>>
handlerVars == <<handler, wait>>
stopVars == <<http, httpTimer, closed, flushTimer, owed>>
vars == <<main, exit, providers, startVars, handlerVars, stopVars, elapsed, connVars>>

TypeOK ==
  /\ ConnTypeOK
  /\ main \in {"otel", "container", "serving", "stopping", "flushing", "exited"}
  /\ exit \in {"running", "killed", "error", "ok"}
  /\ exit = "running" <=> main # "exited"
  /\ todo \subseteq Exporters /\ providers \subseteq Exporters
  /\ signals \in 0 .. MaxSignals /\ sigChan \in {0, 1}
  /\ ctxDone \in BOOLEAN /\ closed \in BOOLEAN
  /\ server \in {"none", "starting", "listening", "closed", "failed"}
  /\ handler \in [Requests -> {"none", "auth", "nats", "answered", "cut"}]
  /\ wait \in [Requests -> 0 .. NatsTimeout]
  /\ http \in {"none", "waiting", "done"}
  /\ httpTimer \in 0 .. ShutdownTimeout
  /\ flushTimer \in 0 .. OtelTimeout
  /\ owed \subseteq Requests
  /\ elapsed \in Nat

Init ==
  /\ ConnInit
  /\ main = "otel" /\ exit = "running"
  /\ todo \in SUBSET Exporters /\ providers = {}
  /\ signals = 0 /\ sigChan = 0 /\ ctxDone = FALSE
  /\ server = "none"
  /\ HandlerInit /\ wait = [r \in Requests |-> 0]
  /\ http = "none" /\ httpTimer = 0 /\ closed = FALSE
  /\ flushTimer = 0 /\ owed = {} /\ elapsed = 0

-----------------------------------------------------------------------------
(* Start.                                                                     *)

(* The process ends: what its handlers had under way is lost.                 *)
Exit(how) ==
  /\ main' = "exited" /\ exit' = how
  /\ handler' = [r \in Requests |-> IF handler[r] \in {"auth", "nats"} THEN "cut" ELSE handler[r]]
  /\ UNCHANGED <<startVars, wait, stopVars, elapsed, connVars>>

SetUpExporter ==
  /\ main = "otel"
  /\ \E e \in todo : todo' = todo \ {e} /\ providers' = providers \cup {e}
  /\ UNCHANGED <<main, exit, signals, sigChan, ctxDone, server, handlerVars, stopVars, elapsed, connVars>>

(* The resource or the next provider cannot be built: handleErr shuts down    *)
(* the providers set up before, and main exits.                               *)
SetUpFails ==
  /\ main = "otel"
  /\ todo # {} \/ providers = {}
  /\ providers' = {}
  /\ Exit("error")

SetUpDone ==
  /\ main = "otel" /\ todo = {}
  /\ main' = "container"
  /\ UNCHANGED <<exit, providers, startVars, handlerVars, stopVars, elapsed, connVars>>

(* NewContainer connects to NATS; then the goroutine of the server starts.    *)
NewContainer ==
  /\ main = "container"
  /\ main' = "serving" /\ server' = "starting"
  /\ UNCHANGED <<exit, providers, todo, signals, sigChan, ctxDone, handlerVars, stopVars, elapsed, connVars>>

(* os.Exit(1): the deferred otelShutdown does not run.                        *)
NewContainerFails ==
  /\ main = "container"
  /\ UNCHANGED providers
  /\ Exit("error")

(* SIGINT or SIGTERM.  Before signal.Notify it kills the process; afterwards  *)
(* it is dropped when the channel is full.                                    *)
Signal ==
  /\ main # "exited" /\ signals < MaxSignals
  /\ IF main = "otel"
     THEN UNCHANGED providers /\ Exit("killed")
     ELSE /\ signals' = signals + 1 /\ sigChan' = 1
          /\ UNCHANGED <<main, exit, providers, todo, ctxDone, server, handlerVars, stopVars, elapsed, connVars>>

(* The signal goroutine takes one signal, cancels and ends.                   *)
CancelOnSignal ==
  /\ main # "exited" /\ sigChan = 1 /\ ~ctxDone
  /\ sigChan' = 0 /\ ctxDone' = TRUE
  /\ UNCHANGED <<main, exit, providers, todo, signals, server, handlerVars, stopVars, elapsed, connVars>>

(* ListenAndServe: the address is bound, or it is not, or Shutdown was first. *)
Listen ==
  /\ main # "exited" /\ server = "starting"
  /\ server' \in IF http = "none" THEN {"listening", "failed"} ELSE {"none", "failed"}
  /\ UNCHANGED <<main, exit, providers, todo, signals, sigChan, ctxDone, handlerVars, stopVars, elapsed, connVars>>

(* Accepting connections fails for good; the handlers go on.                  *)
AcceptFails ==
  /\ main # "exited" /\ server = "listening"
  /\ server' = "failed"
  /\ UNCHANGED <<main, exit, providers, todo, signals, sigChan, ctxDone, handlerVars, stopVars, elapsed, connVars>>

-----------------------------------------------------------------------------
(* Serving.                                                                   *)

(* A connection that is already open can bring a request while Shutdown waits.*)
Arrive(r) ==
  /\ main # "exited"
  /\ server = "listening" \/ (server = "closed" /\ http = "waiting")
  /\ Opens(r)
  /\ UNCHANGED <<main, exit, providers, startVars, wait, stopVars, elapsed, connVars>>

(* JWTAuth ends: rejected, or on to Request, which fails at once on a         *)
(* connection that takes no more messages.                                    *)
Authenticated(r) ==
  /\ main # "exited"
  /\ \/ AnsweredAtOnce(r) /\ UNCHANGED wait
     \/ WaitsForNats(r) /\ wait' = [wait EXCEPT ![r] = NatsTimeout]
  /\ UNCHANGED <<main, exit, providers, startVars, stopVars, elapsed, connVars>>

(* RequestMsg returns before its timer has run out ...                        *)
RequestReturns(r) ==
  /\ main # "exited" /\ wait[r] > 0
  /\ NatsReturns(r)
  /\ UNCHANGED <<main, exit, providers, startVars, wait, stopVars, elapsed, connVars>>

(* ... or because it has.                                                     *)
RequestTimesOut(r) ==
  /\ main # "exited" /\ wait[r] = 0
  /\ NatsReturns(r)
  /\ UNCHANGED <<main, exit, providers, startVars, wait, stopVars, elapsed, connVars>>

Up == main \in {"serving", "stopping", "flushing"}

Connection ==
  /\ Up
  /\ LoseServer \/ ReconnectFails \/ Reconnect \/ DrainSubsDone \/ DrainPubsDone
  /\ UNCHANGED <<main, exit, providers, startVars, handlerVars, stopVars, elapsed>>

-----------------------------------------------------------------------------
(* Stop.                                                                      *)

(* Mutant: the server's error is also looked at once the shutdown is under    *)
(* way.                                                                       *)
ServerErrorAnyTime ==
  /\ main \in {"serving", "stopping"} /\ server = "failed"
  /\ UNCHANGED providers
  /\ Exit("error")

(* runServerWithContext returns the server's error: os.Exit(1), without       *)
(* cont.Close and without otelShutdown.  When ctx is done too, select picks   *)
(* either.                                                                    *)
ServerError ==
  /\ main = "serving" /\ server = "failed"
  /\ UNCHANGED providers
  /\ Exit("error")

BeginShutdown ==
  /\ main = "serving" /\ ctxDone
  /\ main' = "stopping"
  /\ owed' = {r \in Requests : handler[r] = "nats"}
  /\ UNCHANGED <<exit, providers, startVars, handlerVars, http, httpTimer, closed, flushTimer, elapsed, connVars>>

(* srv.Shutdown closes the listener and waits for the handlers.               *)
ShutdownHTTP ==
  /\ main = "stopping" /\ http = "none"
  /\ http' = "waiting" /\ httpTimer' = ShutdownTimeout
  /\ server' = IF server = "listening" THEN "closed" ELSE server
  /\ UNCHANGED <<main, exit, providers, todo, signals, sigChan, ctxDone, handlerVars, closed, flushTimer, owed, elapsed, connVars>>

Active == {r \in Requests : handler[r] \in {"auth", "nats"}}

(* Mutant: srv.Shutdown with a context that has no deadline.                  *)
ShutdownHTTPWaitsForAll ==
  /\ main = "stopping" /\ http = "waiting"
  /\ Active = {}
  /\ http' = "done"
  /\ UNCHANGED <<main, exit, providers, startVars, handlerVars, httpTimer, closed, flushTimer, owed, elapsed, connVars>>

ShutdownHTTPEnds ==
  /\ main = "stopping" /\ http = "waiting"
  /\ Active = {} \/ httpTimer = 0
  /\ http' = "done"
  /\ UNCHANGED <<main, exit, providers, startVars, handlerVars, httpTimer, closed, flushTimer, owed, elapsed, connVars>>

(* cont.Close starts the drain of the connection and returns.                 *)
CloseContainer ==
  /\ main = "stopping" /\ ~closed
  /\ Close
  /\ closed' = TRUE
  /\ UNCHANGED <<main, exit, providers, startVars, handlerVars, http, httpTimer, flushTimer, owed, elapsed>>

(* Mutant: the timeout is given to two providers one after the other.         *)
StartFlushTimeoutEach ==
  /\ main' = "flushing" /\ flushTimer' = OtelTimeout + OtelTimeout
  /\ UNCHANGED <<exit, providers, startVars, handlerVars, http, httpTimer, closed, owed, elapsed, connVars>>

StartFlush ==
  /\ main' = "flushing" /\ flushTimer' = OtelTimeout
  /\ UNCHANGED <<exit, providers, startVars, handlerVars, http, httpTimer, closed, owed, elapsed, connVars>>

(* Mutants: the wait group counts one goroutine only.                         *)
WaitForHTTP == main = "stopping" /\ http = "done" /\ StartFlush
WaitForClose == main = "stopping" /\ closed /\ StartFlush

(* gracefulCloseWG.Wait returns, StartServer returns nil, and main calls the  *)
(* deferred otelShutdown.                                                     *)
WaitReturns == main = "stopping" /\ http = "done" /\ closed /\ StartFlush

(* Each provider is shut down, within OtelTimeout.                            *)
OtelShutdown ==
  /\ main = "flushing"
  /\ providers' = {}
  /\ Exit("ok")

Ready == main = "stopping" /\ (http = "none" \/ ~closed \/ http = "done")

Tick ==
  /\ main # "exited" /\ ~Ready
  /\ http = "waiting" => httpTimer > 0
  /\ main = "flushing" => flushTimer > 0
  /\ \A r \in Requests : handler[r] = "nats" => wait[r] > 0
  /\ wait' = [r \in Requests |-> IF handler[r] = "nats" THEN wait[r] - 1 ELSE wait[r]]
  /\ httpTimer' = IF http = "waiting" THEN httpTimer - 1 ELSE httpTimer
  /\ flushTimer' = IF main = "flushing" THEN flushTimer - 1 ELSE flushTimer
  /\ elapsed' = IF main \in {"stopping", "flushing"} THEN elapsed + 1 ELSE elapsed
  /\ UNCHANGED <<main, exit, providers, startVars, handler, http, closed, owed, connVars>>

-----------------------------------------------------------------------------
Main ==
  \/ SetUpExporter \/ SetUpFails \/ SetUpDone
  \/ NewContainer \/ NewContainerFails
  \/ ServerError \/ BeginShutdown \/ WaitReturns \/ OtelShutdown

Stop == ShutdownHTTP \/ ShutdownHTTPEnds \/ CloseContainer

Next ==
  \/ Main
  \/ Stop
  \/ Signal \/ CancelOnSignal
  \/ Listen \/ AcceptFails
  \/ \E r \in Requests : Arrive(r) \/ Authenticated(r) \/ RequestReturns(r) \/ RequestTimesOut(r)
  \/ Connection
  \/ Tick

Spec == Init /\ [][Next]_vars

(* Goroutines that can run do run, and time passes.  NewContainer ends one    *)
(* way or the other (nats.Connect has its own timeout), and so do the         *)
(* exporters' constructors.  Authentication need not end.                     *)
Fairness ==
  /\ WF_vars(Main)
  /\ WF_vars(CancelOnSignal)
  /\ WF_vars(ShutdownHTTP) /\ WF_vars(ShutdownHTTPEnds) /\ WF_vars(CloseContainer)
  /\ \A r \in Requests : WF_vars(RequestTimesOut(r))
  /\ WF_vars(Tick)

FairSpec == Spec /\ Fairness

-----------------------------------------------------------------------------
(* Properties.                                                                *)

(* A request that was waiting for its evaluation when the shutdown began is   *)
(* answered before a regular exit, whatever becomes of the connection that is *)
(* drained at the same time.                                                  *)
InFlightAnswered == exit = "ok" => \A r \in owed : handler[r] = "answered"

(* The process is gone ShutdownTimeout + OtelTimeout after the shutdown began,*)
(* also with a handler that hangs in authentication.                          *)
ExitInTime == elapsed <= ShutdownTimeout + OtelTimeout

(* A regular exit comes after the drain was started, though it need not be    *)
(* over (Drain returns at once), and after every provider was shut down.      *)
CleanExit == exit = "ok" => providers = {} /\ conn \in Draining \cup {"CLOSED"}

(* The stop as StopContract puts it: Patience is what both timeouts allow.    *)
Stopping == INSTANCE StopContract WITH
  Patience <- ShutdownTimeout + OtelTimeout,
  phase    <- CASE main \in {"otel", "container"}    -> "starting"
                [] main = "serving"                 -> "serving"
                [] main \in {"stopping", "flushing"} -> "stopping"
                [] OTHER -> IF exit = "ok" THEN "ended" ELSE "broken",
  open     <- Active,
  answered <- {r \in Requests : handler[r] = "answered"},
  promised <- owed,
  left     <- ShutdownTimeout + OtelTimeout - elapsed

(* Whatever the goroutines, the connection and the timers do, the process     *)
(* stops as StopContract promises: no way out but the regular one once the    *)
(* shutdown has begun, in time, with every request that waited answered.      *)
ImplementsStop == Stopping!Spec

(* A signal ends the process, even when handlers hang.                        *)
SignalStops == sigChan = 1 /\ ~ctxDone ~> main = "exited"

(* cmd/lfx-access-check/main.go:51: "Handle shutdown properly so nothing      *)
(* leaks."  What leaks is a provider that is never shut down.                 *)
NothingLeaks == exit \in {"ok", "error"} => providers = {}

-----------------------------------------------------------------------------
(* What makes them inductive.                                                 *)

Stopped == Draining \cup {"CLOSED"}

StageInv ==
  /\ server # "none" => main \notin {"otel", "container"}
  /\ server = "listening" => http = "none"
  /\ todo # {} => main \in {"otel", "exited"}
  /\ http # "none" \/ closed => main \in {"stopping", "flushing", "exited"}
  /\ closed => conn \in Stopped
  /\ main = "flushing" \/ exit = "ok" => http = "done" /\ closed
  /\ exit = "ok" => providers = {}

(* A request that is owed an answer has less time left than the shutdown.     *)
OwedInv ==
  /\ main # "exited" => \A r \in owed : handler[r] \in {"nats", "answered"}
  /\ http = "waiting" => \A r \in owed : handler[r] = "nats" => wait[r] < httpTimer
  /\ http = "done" => \A r \in owed : handler[r] = "answered"

TimeInv ==
  /\ main \in {"otel", "container", "serving"} => elapsed = 0
  /\ main = "stopping" /\ http = "none" => elapsed = 0
  /\ main = "stopping" /\ http = "waiting" => elapsed + httpTimer = ShutdownTimeout
  /\ main = "stopping" /\ http = "done" => elapsed <= ShutdownTimeout
  /\ main = "flushing" => elapsed + flushTimer <= ShutdownTimeout + OtelTimeout
  /\ main = "exited" => ExitInTime

IInv == TypeOK /\ StageInv /\ OwedInv /\ TimeInv
=============================================================================
