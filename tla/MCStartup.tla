----------------------------- MODULE MCStartup ------------------------------
(* Environments for Startup: the one the chart gives, and what changes when  *)
(* one group of settings is varied in every way the code can tell apart.     *)
EXTENDS Startup, TLC

MCText == STRING

MCNormalized(w) ==
  CASE w \in {"TRUE", " True "} -> "true"
    [] w = "Yes" -> "yes"
    [] w = "Always_Off " -> "always_off"
    [] OTHER -> w

MCElements(w) ==
  CASE w = "tracecontext,baggage" -> {"tracecontext", "baggage"}
    [] w = "jaeger, b3" -> {"jaeger", "b3"}
    [] OTHER -> {w}

MCScheme(w) ==
  CASE w = "http://collector:4318" -> "http"
    [] w = "https://collector:4318" -> "https"
    [] w = "grpc://collector:4317" -> "grpc"
    [] OTHER -> ""

Percent(n) == [kind |-> "number", percent |-> n]
MCParseFloat(w) ==
  CASE w = "0" -> Percent(0)
    [] w = "0.25" -> Percent(25)
    [] w = "1" -> Percent(100)
    [] w = "1.5" -> Percent(150)
    [] w = "-0.1" -> Percent(-10)
    [] w = "NaN" -> [kind |-> "NaN"]
    [] OTHER -> [kind |-> "error"]

Chart == [s \in Settings |-> IF s = "DEBUG" THEN "false" ELSE ""]
Traced == [Chart EXCEPT !["OTEL_TRACES_EXPORTER"] = "otlp"]

Logging ==
  {[Chart EXCEPT !["LOG_LEVEL"] = level, !["LOG_ADD_SOURCE"] = source] :
     level \in {"", "warn", "info", "WARN"}, source \in {"", "true", "TRUE"}}
Serving ==
  {[Chart EXCEPT !["HOST"] = host, !["PORT"] = port, !["DEBUG"] = debug] :
     host \in {"", "*", "localhost"}, port \in {"", "9090"},
     debug \in {"", "false", "off", "TRUE", " True ", "Yes", "2"}}
Named ==
  {[Chart EXCEPT ![s] = "given"] :
     s \in {"JWKS_URL", "AUDIENCE", "ISSUER", "NATS_URL", "OTEL_SERVICE_NAME",
            "OTEL_SERVICE_VERSION"}}
Sampled ==
  {[Traced EXCEPT !["OTEL_TRACES_SAMPLER"] = sampler, !["OTEL_TRACES_SAMPLER_ARG"] = arg] :
     sampler \in {"", "always_on", "Always_Off ", "traceidratio", "parentbased_always_on",
                  "parentbased_always_off", "parentbased_traceidratio", "often"},
     arg \in {"", "0", "0.25", "1", "1.5", "-0.1", "NaN", "half"}}
Exported ==
  {[Traced EXCEPT !["OTEL_EXPORTER_OTLP_ENDPOINT"] = endpoint,
                  !["OTEL_EXPORTER_OTLP_INSECURE"] = insecure,
                  !["OTEL_EXPORTER_OTLP_PROTOCOL"] = protocol] :
     endpoint \in {"", "10.0.0.1:4317", "http://collector:4318", "https://collector:4318",
                  "grpc://collector:4317"},
     insecure \in {"", "true", "TRUE", "1"}, protocol \in {"", "http", "http/protobuf"}}
Chosen ==
  {[Chart EXCEPT !["OTEL_TRACES_EXPORTER"] = traces, !["OTEL_METRICS_EXPORTER"] = metrics,
                 !["OTEL_LOGS_EXPORTER"] = logs, !["OTEL_PROPAGATORS"] = names] :
     traces \in {"", "otlp", "None"}, metrics \in {"none", "otlp"}, logs \in {"none", "otlp"},
     names \in {"", "jaeger, b3", "none"}}

MCEnvironments == Logging \cup Serving \cup Named \cup Sampled \cup Exported \cup Chosen
MCCommandLines ==
  [p : {NotGiven, "7070"}, bind : {NotGiven}, d : {NotGiven, "true", "false", "x"}]
    \cup [p : {NotGiven}, bind : {"", "*"}, d : {NotGiven}]
=============================================================================
