------------------------------ MODULE Startup -------------------------------
(* From the environment and the command line to a process that serves:       *)
(* init and main read the settings, SetupOTelSDKWithConfig builds the        *)
(* providers one after the other, StartServer mounts the endpoints.  What    *)
(* was set up is shut down when a later part of the setup fails and when     *)
(* StartServer returns; Lifecycle has what happens in between.               *)
(*                                                                           *)
(* A setting is a string, "" when it is not set; what the code does to a     *)
(* string (trim, split, parse) is a constant.                                *)
EXTENDS Integers, Sequences

CONSTANTS
  Text,            \* strings
  Environments,    \* the environments the process may be started in
  CommandLines,    \* the command lines, by flag
  Normalized(_),   \* strings.ToLower after strings.TrimSpace
  Elements(_),     \* strings.Split at commas and strings.TrimSpace of each part
  Scheme(_),       \* what comes before "://", in lower case, "" without it
  ParseFloat(_),   \* strconv.ParseFloat of a trimmed string, in percent
  Version          \* set by the build

Settings ==
  {"LOG_LEVEL", "LOG_ADD_SOURCE", "PORT", "HOST", "DEBUG", "JWKS_URL", "AUDIENCE",
   "ISSUER", "NATS_URL", "OTEL_SERVICE_NAME", "OTEL_SERVICE_VERSION",
   "OTEL_EXPORTER_OTLP_PROTOCOL", "OTEL_EXPORTER_OTLP_ENDPOINT",
   "OTEL_EXPORTER_OTLP_INSECURE", "OTEL_TRACES_EXPORTER", "OTEL_METRICS_EXPORTER",
   "OTEL_LOGS_EXPORTER", "OTEL_TRACES_SAMPLER", "OTEL_TRACES_SAMPLER_ARG",
   "OTEL_PROPAGATORS"}

NotGiven == "(flag not given)"

ASSUME SettingsAssumption ==
  /\ Environments \subseteq [Settings -> Text]
  /\ CommandLines \subseteq [p : Text, bind : Text, d : {NotGiven, "true", "false", "x"}]
  /\ Normalized("") = "" /\ Normalized("true") = "true"
  /\ \A e \in Environments :
       /\ Normalized(e["DEBUG"]) \in Text
       /\ Normalized(e["OTEL_TRACES_SAMPLER"]) \in Text
       /\ Scheme(e["OTEL_EXPORTER_OTLP_ENDPOINT"]) \in Text
       /\ ParseFloat(e["OTEL_TRACES_SAMPLER_ARG"]) \in
            [kind : {"number"}, percent : Int] \cup [kind : {"NaN", "error"}]
  /\ {"", "none", "grpc", "http", "https", "0.0.0.0", "8080", "lfx-v2-access-check", "heimdall",
      "http://heimdall:4457/.well-known/jwks", "nats://nats:4222", NotGiven, Version}
        \subseteq Text

Signals == {"traces", "metrics", "logs"}

VARIABLES
  env, args,      \* what the process was started with
  at,             \* position of main
  exit,           \* "running", or how the process ended
  logOptions,     \* options of the default logger
  config,         \* config.Config
  otel,           \* utils.OTelConfig
  propagators,    \* the global propagator
  provider,       \* the provider set up for each signal
  shutdownFuncs,  \* the clean-ups registered, in order
  shutDowns,      \* how often each provider was shut down
  mounted,        \* what the HTTP server serves, and where
  server          \* the goroutine of ListenAndServe

settingVars == <<env, args, logOptions, config, otel, propagators>>
otelVars == <<provider, shutdownFuncs, shutDowns>>
serverVars == <<mounted, server>>
vars == <<at, exit, settingVars, otelVars, serverVars>>

None == [is |-> "none"]

Config ==
  [is : {"config"}, host : Text, port : Text, debug : BOOLEAN, jwksURL : Text,
   audience : Text, issuer : Text, natsURL : Text]
OTelConfig ==
  [is : {"otel"}, name : Text, version : Text, protocol : Text, scheme : Text,
   insecure : BOOLEAN, exporter : [Signals -> Text], sampler : Text]
Sampler == [parentBased : BOOLEAN, roots : 0 .. 100]
NoSampler == [parentBased |-> FALSE, roots |-> 100]
Provider ==
  [is : {"provider"}, transport : {"grpc", "http"}, plaintext : BOOLEAN, sampler : Sampler]
Mounted == [is : {"mounted"}, host : Text, port : Text, debug : BOOLEAN]

TypeOK ==
  /\ env \in Environments /\ args \in CommandLines
  /\ at \in Signals \cup {"log", "config", "otel", "resource", "cleaning", "notify",
                          "container", "serving", "flushing", "exited"}
  /\ exit \in {"running", "usage", "setup", "error", "ok"}
  /\ logOptions \in [level : {"debug", "info", "warn"}, addSource : BOOLEAN]
  /\ config \in Config \cup {None}
  /\ otel \in OTelConfig \cup {None}
  /\ propagators \subseteq {"tracecontext", "baggage", "jaeger"}
  /\ provider \in [Signals -> Provider \cup {None}]
  /\ shutdownFuncs \in Seq(Signals)
  /\ shutDowns \in [Signals -> Nat]
  /\ mounted \in Mounted \cup {None}
  /\ server \in {"none", "starting", "listening", "failed"}

Init ==
  /\ env \in Environments /\ args \in CommandLines
  /\ at = "log" /\ exit = "running"
  /\ logOptions = [level |-> "info", addSource |-> FALSE]   \* slog's own
  /\ config = None /\ otel = None /\ propagators = {}
  /\ provider = [s \in Signals |-> None]
  /\ shutdownFuncs = <<>> /\ shutDowns = [s \in Signals |-> 0]
  /\ mounted = None /\ server = "none"

Exit(how) == at' = "exited" /\ exit' = how

-----------------------------------------------------------------------------
(* Settings.                                                                 *)

InitStructureLogConfig ==
  /\ at = "log"
  /\ at' = "config"
  /\ logOptions' =
       [level |-> IF env["LOG_LEVEL"] \in {"debug", "info", "warn"} THEN env["LOG_LEVEL"]
                                                                   ELSE "debug",
        addSource |-> env["LOG_ADD_SOURCE"] = "true"]
  /\ UNCHANGED <<exit, env, args, config, otel, propagators, otelVars, serverVars>>

getEnvOrDefault(name, default) == IF env[name] # "" THEN env[name] ELSE default

Flag(value, default) == IF value = NotGiven THEN default ELSE value

(* strconv.ParseBool, and three more words for yes.                          *)
parseBool(value) == Normalized(value) \in {"1", "t", "true", "yes", "y", "on"}

(* -d and DEBUG are each enough.                                             *)
Debug == args.d = "true" \/ (env["DEBUG"] # "" /\ parseBool(env["DEBUG"]))

(* A flag that was given wins, also over a setting, but for -d.  The flag    *)
(* package ends the process when -d is no Boolean.                           *)
LoadedConfig ==
  [is |-> "config",
   host |-> Flag(args.bind, getEnvOrDefault("HOST", "0.0.0.0")),
   port |-> Flag(args.p, getEnvOrDefault("PORT", "8080")),
   debug |-> Debug,
   jwksURL |-> getEnvOrDefault("JWKS_URL", "http://heimdall:4457/.well-known/jwks"),
   audience |-> getEnvOrDefault("AUDIENCE", "lfx-v2-access-check"),
   issuer |-> getEnvOrDefault("ISSUER", "heimdall"),
   natsURL |-> getEnvOrDefault("NATS_URL", "nats://nats:4222")]

LoadConfig ==
  /\ at = "config"
  /\ \/ args.d = "x" /\ Exit("usage") /\ UNCHANGED config
     \/ args.d # "x" /\ at' = "otel" /\ config' = LoadedConfig /\ UNCHANGED exit
  /\ UNCHANGED <<env, args, logOptions, otel, propagators, otelVars, serverVars>>

(* Mutant: without a scheme it is http.                                      *)
endpointURLPlain(raw, insecure) == IF raw = "" \/ Scheme(raw) # "" THEN Scheme(raw) ELSE "http"

(* The scheme of the endpoint; "" leaves the exporter its default endpoint.  *)
endpointURL(raw, insecure) ==
  IF raw = "" \/ Scheme(raw) # "" THEN Scheme(raw)
  ELSE IF insecure THEN "http" ELSE "https"

(* The exporter chosen for each signal; only "none" turns the signal off.    *)
Exporter(s) ==
  CASE s = "traces"  -> getEnvOrDefault("OTEL_TRACES_EXPORTER", "none")
    [] s = "metrics" -> getEnvOrDefault("OTEL_METRICS_EXPORTER", "none")
    [] s = "logs"    -> getEnvOrDefault("OTEL_LOGS_EXPORTER", "none")

Insecure == env["OTEL_EXPORTER_OTLP_INSECURE"] = "true"

(* With main's default for the version, and the endpoint as                  *)
(* SetupOTelSDKWithConfig completes it.                                      *)
LoadedOTelConfig ==
  [is |-> "otel",
   name |-> getEnvOrDefault("OTEL_SERVICE_NAME", "lfx-v2-access-check"),
   version |-> getEnvOrDefault("OTEL_SERVICE_VERSION", Version),
   protocol |-> getEnvOrDefault("OTEL_EXPORTER_OTLP_PROTOCOL", "grpc"),
   scheme |-> endpointURL(env["OTEL_EXPORTER_OTLP_ENDPOINT"], Insecure),
   insecure |-> Insecure,
   exporter |-> [s \in Signals |-> Exporter(s)],
   sampler |-> Normalized(env["OTEL_TRACES_SAMPLER"])]

OTelConfigFromEnv ==
  /\ at = "otel"
  /\ at' = "resource"
  /\ otel' = LoadedOTelConfig
  /\ UNCHANGED <<exit, env, args, logOptions, config, propagators, otelVars, serverVars>>

-----------------------------------------------------------------------------
(* SetupOTelSDKWithConfig.                                                   *)

newPropagator(names) ==
  LET known == names \cap {"tracecontext", "baggage", "jaeger"}
  IN IF known = {} THEN {"tracecontext", "baggage"} ELSE known

(* The resource can be refused (two schema URLs that do not agree).          *)
NewResource ==
  /\ at = "resource"
  /\ \/ at' = "cleaning" /\ UNCHANGED propagators
     \/ /\ at' = "traces"
        /\ propagators' =
             newPropagator(Elements(getEnvOrDefault("OTEL_PROPAGATORS", "tracecontext,baggage")))
  /\ UNCHANGED <<exit, env, args, logOptions, config, otel, otelVars, serverVars>>

(* Mutant: the range of the ratio is not checked.                            *)
RatiosUnchecked(arg) ==
  LET ratio == ParseFloat(arg)
  IN IF arg = "" \/ ratio.kind = "error" THEN {100}
     ELSE IF ratio.kind = "NaN" THEN {0, 100}
     ELSE {IF ratio.percent < 0 THEN 0 ELSE ratio.percent}

(* The share of the root spans that TraceIDRatioBased(parseRatio()) samples. *)
(* NaN is not less than 0 nor more than 1; what it becomes when the sampler  *)
(* converts it to an integer depends on the processor.                       *)
Ratios(arg) ==
  LET ratio == ParseFloat(arg)
  IN IF arg = "" \/ ratio.kind = "error" THEN {100}
     ELSE IF ratio.kind = "NaN" THEN {0, 100}
     ELSE {IF ratio.percent \in 0 .. 100 THEN ratio.percent ELSE 100}

ParentBased(name) == name \notin {"always_on", "always_off", "traceidratio"}

(* An unknown name is parentbased_traceidratio.                              *)
newSampler(name, arg) ==
  [parentBased : {ParentBased(name)},
   roots : CASE name \in {"always_on", "parentbased_always_on"}   -> {100}
             [] name \in {"always_off", "parentbased_always_off"} -> {0}
             [] OTHER                                             -> Ratios(arg)]

(* How an exporter connects: in plaintext after WithInsecure and, whatever   *)
(* the transport, to a URL of any scheme but https (WithEndpointURL).        *)
(* Without an endpoint it follows its own reading of the environment, which  *)
(* may accept more spellings of "true".                                      *)
Plaintext ==
  IF otel.insecure \/ otel.scheme \notin {"", "https"} THEN {TRUE}
  ELSE IF otel.scheme = "" /\ Normalized(env["OTEL_EXPORTER_OTLP_INSECURE"]) = "true" THEN BOOLEAN
  ELSE {FALSE}

(* newTraceProvider, newMetricsProvider and newLoggerProvider.               *)
newProvider(s) ==
  [is : {"provider"},
   transport : {IF otel.protocol = "http" THEN "http" ELSE "grpc"},
   plaintext : Plaintext,
   sampler : IF s = "traces" THEN newSampler(otel.sampler, env["OTEL_TRACES_SAMPLER_ARG"])
                             ELSE {NoSampler}]

Following(s) ==
  CASE s = "traces" -> "metrics" [] s = "metrics" -> "logs" [] s = "logs" -> "notify"

SetUp(s) ==
  /\ at = s
  /\ at' = Following(s)
  /\ IF otel.exporter[s] # "none"
     THEN /\ \E p \in newProvider(s) : provider' = [provider EXCEPT ![s] = p]
          /\ shutdownFuncs' = Append(shutdownFuncs, s)
     ELSE UNCHANGED <<provider, shutdownFuncs>>
  /\ UNCHANGED <<exit, settingVars, shutDowns, serverVars>>

(* Mutant: the error is returned, and what was set up stays.                 *)
SetUpFailsUncleaned(s) ==
  /\ at = s /\ otel.exporter[s] # "none"
  /\ at' = "cleaning" /\ shutdownFuncs' = <<>>
  /\ UNCHANGED <<exit, settingVars, provider, shutDowns, serverVars>>

SetUpFails(s) ==
  /\ at = s /\ otel.exporter[s] # "none"
  /\ at' = "cleaning"
  /\ UNCHANGED <<exit, settingVars, otelVars, serverVars>>

(* Mutant: the first error ends the loop.                                    *)
ShutdownStopsAtError ==
  /\ at \in {"cleaning", "flushing"} /\ shutdownFuncs # <<>>
  /\ shutDowns' = [shutDowns EXCEPT ![Head(shutdownFuncs)] = @ + 1]
  /\ shutdownFuncs' \in {Tail(shutdownFuncs), <<>>}
  /\ UNCHANGED <<at, exit, settingVars, provider, serverVars>>

(* One turn of the loop of shutdown, called by handleErr or deferred by      *)
(* main.  An error is joined to the others and the loop goes on.             *)
Shutdown ==
  /\ at \in {"cleaning", "flushing"} /\ shutdownFuncs # <<>>
  /\ shutDowns' = [shutDowns EXCEPT ![Head(shutdownFuncs)] = @ + 1]
  /\ shutdownFuncs' = Tail(shutdownFuncs)
  /\ UNCHANGED <<at, exit, settingVars, provider, serverVars>>

(* main: os.Exit(1) after a failed setup, a return after the deferred call.  *)
ShutdownDone ==
  /\ at \in {"cleaning", "flushing"} /\ shutdownFuncs = <<>>
  /\ Exit(IF at = "cleaning" THEN "setup" ELSE "ok")
  /\ UNCHANGED <<settingVars, otelVars, serverVars>>

-----------------------------------------------------------------------------
(* main and StartServer.                                                     *)

Notify ==
  /\ at = "notify"
  /\ at' = "container"
  /\ UNCHANGED <<exit, settingVars, otelVars, serverVars>>

ServerHost(c) == IF c.host = "*" THEN "" ELSE c.host

(* NewContainer, and the synchronous part of handleHTTPServer: with Debug,   *)
(* payload logging, pprof and the switch of the log level are mounted.       *)
StartServer ==
  /\ at = "container"
  /\ at' = "serving" /\ server' = "starting"
  /\ mounted' = [is |-> "mounted", host |-> ServerHost(config), port |-> config.port,
                 debug |-> config.debug]
  /\ UNCHANGED <<exit, settingVars, otelVars>>

(* os.Exit(1), without the deferred shutdown.                                *)
NewContainerFails ==
  /\ at = "container"
  /\ Exit("error")
  /\ UNCHANGED <<settingVars, otelVars, serverVars>>

Listen ==
  /\ at = "serving" /\ server = "starting"
  /\ server' \in {"listening", "failed"}
  /\ UNCHANGED <<at, exit, settingVars, otelVars, mounted>>

AcceptFails ==
  /\ at = "serving" /\ server = "listening"
  /\ server' = "failed"
  /\ UNCHANGED <<at, exit, settingVars, otelVars, mounted>>

ServerError ==
  /\ at = "serving" /\ server = "failed"
  /\ Exit("error")
  /\ UNCHANGED <<settingVars, otelVars, serverVars>>

(* After a signal, and the shutdown that Lifecycle describes.                *)
StartServerReturns ==
  /\ at = "serving"
  /\ at' = "flushing"
  /\ UNCHANGED <<exit, settingVars, otelVars, serverVars>>

Next ==
  \/ InitStructureLogConfig \/ LoadConfig \/ OTelConfigFromEnv
  \/ NewResource \/ (\E s \in Signals : SetUp(s) \/ SetUpFails(s))
  \/ Shutdown \/ ShutdownDone
  \/ Notify \/ StartServer \/ NewContainerFails
  \/ Listen \/ AcceptFails \/ ServerError \/ StartServerReturns

Spec == Init /\ [][Next]_vars

-----------------------------------------------------------------------------
(* Properties.                                                               *)

(* Every clean-up that was registered is called once and no more: when a     *)
(* later part of the setup fails, and when the process ends regularly, also  *)
(* after an error of an earlier clean-up (otel.go: "Each registered cleanup  *)
(* will be invoked once").                                                   *)
CleanedOnce ==
  \A s \in Signals :
    /\ shutDowns[s] <= IF provider[s] = None THEN 0 ELSE 1
    /\ exit \in {"setup", "ok"} /\ provider[s] # None => shutDowns[s] = 1

(* Traces, metrics and logs leave the process in plaintext only when the     *)
(* environment asks for it, by the insecure flag or by a URL whose scheme is *)
(* not https ("grpc://..." is one).  An endpoint without a scheme is no such *)
(* wish.                                                                     *)
PlaintextOnlyWhenAsked ==
  \A s \in Signals :
    provider[s] # None /\ provider[s].plaintext =>
      \/ Normalized(env["OTEL_EXPORTER_OTLP_INSECURE"]) = "true"
      \/ Scheme(env["OTEL_EXPORTER_OTLP_ENDPOINT"]) \notin {"", "https"}

(* A sampling ratio the code cannot use (no number, or out of range) loses   *)
(* no trace that starts here: every root span is sampled, unless the sampler *)
(* was told to sample none.  NaN is the exception: it is out of every range  *)
(* and gives all or nothing.                                                 *)
BadRatioSamplesAll ==
  provider["traces"] # None =>
    LET ratio == ParseFloat(env["OTEL_TRACES_SAMPLER_ARG"])
        roots == provider["traces"].sampler.roots
    IN roots < 100 =>
         \/ Normalized(env["OTEL_TRACES_SAMPLER"]) \in {"always_off", "parentbased_always_off"}
         \/ ratio.kind = "number" /\ ratio.percent = roots
         \/ ratio.kind = "NaN" /\ roots = 0

(* The parts that make these invariants inductive: what is registered for    *)
(* cleaning is what is set up and was not shut down ...                      *)
CleanInv ==
  /\ \A i, j \in DOMAIN shutdownFuncs : shutdownFuncs[i] = shutdownFuncs[j] => i = j
  /\ \A i \in DOMAIN shutdownFuncs :
       provider[shutdownFuncs[i]] # None /\ shutDowns[shutdownFuncs[i]] = 0
  /\ \A s \in Signals :
       /\ provider[s] # None /\ shutDowns[s] = 0 =>
            \E i \in DOMAIN shutdownFuncs : shutdownFuncs[i] = s
       /\ shutDowns[s] <= IF provider[s] = None THEN 0 ELSE 1
  /\ exit \in {"setup", "ok"} => shutdownFuncs = <<>>

(* ... the position of main says what has been set up so far ...             *)
Ahead ==
  CASE at \in {"log", "config", "otel", "resource", "traces"} -> Signals
    [] at = "metrics" -> {"metrics", "logs"}
    [] at = "logs"    -> {"logs"}
    [] OTHER          -> {}

PlaceInv ==
  /\ at = "exited" <=> exit # "running"
  /\ \A s \in Ahead : provider[s] = None
  /\ at \notin {"log", "config", "exited"} => config # None
  /\ at \notin {"log", "config", "otel", "exited"} => otel # None
  /\ at \notin {"cleaning", "flushing", "exited"} => \A s \in Signals : shutDowns[s] = 0
  /\ at \in Signals \cup {"notify", "container", "serving", "flushing"} =>
       \A s \in Signals \ Ahead : provider[s] = None => Exporter(s) = "none"
  /\ at = "cleaning" =>
       \/ \A s \in Signals : provider[s] = None
       \/ \E s \in Signals : provider[s] = None /\ Exporter(s) # "none"
  /\ at \in {"log", "config", "otel", "resource"} \cup Signals
       \cup {"cleaning", "notify", "container"} => server = "none" /\ mounted = None

(* ... and every choice is the one the settings call for.                    *)
ChoiceInv ==
  /\ config # None => (config.debug <=> Debug)
  /\ mounted # None => (mounted.debug <=> Debug)
  /\ otel # None =>
       /\ otel.insecure <=> Insecure
       /\ otel.scheme = endpointURL(env["OTEL_EXPORTER_OTLP_ENDPOINT"], Insecure)
       /\ otel.sampler = Normalized(env["OTEL_TRACES_SAMPLER"])
       /\ \A s \in Signals : otel.exporter[s] = Exporter(s)

IInv ==
  TypeOK /\ CleanInv /\ PlaceInv /\ ChoiceInv /\ PlaintextOnlyWhenAsked /\ BadRatioSamplesAll

(* Until StartServer returns, this is what Lifecycle calls the start: it     *)
(* sets up the enabled exporters in some order, cleans up when that fails,   *)
(* and leaves the providers behind when something later fails.               *)
Position == IF at \in {"container", "serving", "flushing", "exited"} THEN at ELSE "otel"
Ending == IF exit \in {"usage", "setup"} THEN "error" ELSE exit
ToSetUp == {s \in Signals : Exporter(s) # "none" /\ provider[s] = None}
StillUp == {s \in Signals : provider[s] # None /\ (at = "exited" => shutDowns[s] = 0)}

L == INSTANCE Lifecycle WITH
  Requests <- {}, Exporters <- Signals, MaxSignals <- 0, MaxReconnects <- 3,
  NatsTimeout <- 15, ShutdownTimeout <- 25, OtelTimeout <- 25,
  main <- Position, exit <- Ending, todo <- ToSetUp, providers <- StillUp,
  signals <- 0, sigChan <- 0, ctxDone <- FALSE, server <- server,
  handler <- [r \in {} |-> "none"], wait <- [r \in {} |-> 0],
  http <- "none", httpTimer <- 0, closed <- FALSE, flushTimer <- 0,
  owed <- {}, elapsed <- 0, conn <- "CONNECTED", attempts <- 0

StartsAsLifecycle ==
  L!Init /\ [][at # "flushing" /\ at' # "flushing" => L!Next \/ UNCHANGED L!vars]_vars
=============================================================================
