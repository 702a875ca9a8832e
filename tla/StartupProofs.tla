---------------------------- MODULE StartupProofs ----------------------------
(* What Startup guarantees for every environment and every command line.     *)
EXTENDS Startup, TLAPS

LEMMA InitInv == Init => IInv
<1> SUFFICES ASSUME Init PROVE IInv
  OBVIOUS
<1> USE DEF Init
<1>1. TypeOK
  BY DEF TypeOK, None
<1>2. CleanInv
  BY DEF CleanInv
<1>3. PlaceInv
  BY DEF PlaceInv, Ahead
<1>4. ChoiceInv /\ PlaintextOnlyWhenAsked /\ BadRatioSamplesAll
  BY DEF ChoiceInv, PlaintextOnlyWhenAsked, BadRatioSamplesAll, Signals
<1> QED
  BY <1>1, <1>2, <1>3, <1>4 DEF IInv

-----------------------------------------------------------------------------
(* The settings.                                                             *)

LEMMA SettingType ==
  ASSUME TypeOK, NEW name \in Settings
  PROVE  env[name] \in Text
BY SettingsAssumption DEF TypeOK

LEMMA DefaultType ==
  ASSUME TypeOK, NEW name \in Settings, NEW default \in Text
  PROVE  getEnvOrDefault(name, default) \in Text
BY SettingType DEF getEnvOrDefault

LEMMA FlagType ==
  ASSUME NEW value \in Text, NEW default \in Text
  PROVE  Flag(value, default) \in Text
BY DEF Flag

LEMMA BooleanSettings == Debug \in BOOLEAN /\ Insecure \in BOOLEAN
BY Zenon DEF Debug, Insecure

LEMMA ConfigType ==
  ASSUME TypeOK
  PROVE  LoadedConfig \in Config
<1>1. args.p \in Text /\ args.bind \in Text
  BY SettingsAssumption DEF TypeOK
<1>2. /\ Flag(args.bind, getEnvOrDefault("HOST", "0.0.0.0")) \in Text
      /\ Flag(args.p, getEnvOrDefault("PORT", "8080")) \in Text
      /\ getEnvOrDefault("JWKS_URL", "http://heimdall:4457/.well-known/jwks") \in Text
      /\ getEnvOrDefault("AUDIENCE", "lfx-v2-access-check") \in Text
      /\ getEnvOrDefault("ISSUER", "heimdall") \in Text
      /\ getEnvOrDefault("NATS_URL", "nats://nats:4222") \in Text
  BY <1>1, FlagType, DefaultType, SettingsAssumption DEF Settings
<1> QED
  BY <1>2, BooleanSettings DEF LoadedConfig, Config

(* Only these are read again after the settings were loaded.                 *)
LEMMA SameSettings ==
  ASSUME UNCHANGED <<env, args>>
  PROVE  /\ Debug' = Debug /\ Insecure' = Insecure
         /\ \A s : Exporter(s)' = Exporter(s)
         /\ endpointURL(env["OTEL_EXPORTER_OTLP_ENDPOINT"], Insecure)'
              = endpointURL(env["OTEL_EXPORTER_OTLP_ENDPOINT"], Insecure)
<1>1. Debug' = Debug /\ Insecure' = Insecure
  BY Zenon DEF Debug, Insecure, parseBool
<1>2. \A s : Exporter(s)' = Exporter(s)
  BY DEF Exporter, getEnvOrDefault
<1>3. endpointURL(env["OTEL_EXPORTER_OTLP_ENDPOINT"], Insecure)'
        = endpointURL(env["OTEL_EXPORTER_OTLP_ENDPOINT"], Insecure)
  BY <1>1 DEF endpointURL
<1> QED
  BY <1>1, <1>2, <1>3

LEMMA SameChoice ==
  ASSUME IInv, UNCHANGED <<env, args>>,
         UNCHANGED config \/ (config' = LoadedConfig),
         UNCHANGED otel \/ (otel' = LoadedOTelConfig),
         UNCHANGED mounted
  PROVE  ChoiceInv'
<1>1. config' # None => (config'.debug <=> Debug)
  BY BooleanSettings DEF IInv, ChoiceInv, LoadedConfig
<1>2. otel' # None =>
       /\ otel'.insecure <=> Insecure
       /\ otel'.scheme = endpointURL(env["OTEL_EXPORTER_OTLP_ENDPOINT"], Insecure)
       /\ otel'.sampler = Normalized(env["OTEL_TRACES_SAMPLER"])
       /\ \A s \in Signals : otel'.exporter[s] = Exporter(s)
  BY BooleanSettings DEF IInv, ChoiceInv, LoadedOTelConfig
<1> QED
  BY <1>1, <1>2, SameSettings DEF IInv, ChoiceInv

(* Nothing that was set up is touched while the settings are read, nor by    *)
(* main's own steps.                                                         *)
LEMMA SameProviders ==
  ASSUME IInv, UNCHANGED <<env, args, otelVars>>,
         exit' \notin {"setup", "ok"}
  PROVE  CleanInv' /\ PlaintextOnlyWhenAsked' /\ BadRatioSamplesAll'
<1>1. CleanInv'
  BY DEF IInv, CleanInv, otelVars
<1>2. PlaintextOnlyWhenAsked'
  BY DEF IInv, PlaintextOnlyWhenAsked, otelVars
<1>3. BadRatioSamplesAll'
  BY DEF IInv, BadRatioSamplesAll, otelVars
<1> QED
  BY <1>1, <1>2, <1>3

LEMMA LogInv == IInv /\ InitStructureLogConfig => IInv'
<1> SUFFICES ASSUME IInv, InitStructureLogConfig PROVE IInv'
  OBVIOUS
<1> USE DEF InitStructureLogConfig, serverVars
<1>0. TypeOK /\ PlaceInv /\ ChoiceInv
  BY DEF IInv
<1>1. logOptions' \in [level : {"debug", "info", "warn"}, addSource : BOOLEAN]
  <2>1. (env["LOG_ADD_SOURCE"] = "true") \in BOOLEAN
    BY Zenon
  <2> QED
    BY <2>1
<1>2. TypeOK'
  BY <1>0, <1>1 DEF TypeOK, otelVars
<1>3. PlaceInv'
  BY <1>0 DEF PlaceInv, Ahead, otelVars
<1>4. ChoiceInv'
  BY SameChoice
<1>5. exit' \notin {"setup", "ok"}
  BY <1>0 DEF PlaceInv
<1> QED
  BY <1>2, <1>3, <1>4, <1>5, SameProviders DEF IInv

LEMMA LoadConfigInv == IInv /\ LoadConfig => IInv'
<1> SUFFICES ASSUME IInv, LoadConfig PROVE IInv'
  OBVIOUS
<1> USE DEF LoadConfig, serverVars, Exit
<1>0. TypeOK /\ PlaceInv /\ ChoiceInv
  BY DEF IInv
<1>1. exit' \notin {"setup", "ok"}
  BY <1>0 DEF PlaceInv
<1>2. config' \in Config \cup {None}
  BY <1>0, ConfigType DEF TypeOK
<1>3. TypeOK'
  BY <1>0, <1>2 DEF TypeOK, otelVars
<1>4. PlaceInv'
  <2>1. at' # "exited" => config' # None
    BY DEF LoadedConfig, None
  <2> QED
    BY <1>0, <2>1 DEF PlaceInv, Ahead, otelVars, Signals
<1>5. ChoiceInv'
  BY SameChoice
<1> QED
  BY <1>1, <1>3, <1>4, <1>5, SameProviders DEF IInv

LEMMA OTelConfigInv == IInv /\ OTelConfigFromEnv => IInv'
<1> SUFFICES ASSUME IInv, OTelConfigFromEnv PROVE IInv'
  OBVIOUS
<1> USE DEF OTelConfigFromEnv, serverVars
<1>0. TypeOK /\ PlaceInv /\ ChoiceInv
  BY DEF IInv
<1>1. exit' \notin {"setup", "ok"}
  BY <1>0 DEF PlaceInv
<1>2. otel' \in OTelConfig
  <2>1. /\ getEnvOrDefault("OTEL_SERVICE_NAME", "lfx-v2-access-check") \in Text
        /\ getEnvOrDefault("OTEL_SERVICE_VERSION", Version) \in Text
        /\ getEnvOrDefault("OTEL_EXPORTER_OTLP_PROTOCOL", "grpc") \in Text
    BY <1>0, DefaultType, SettingsAssumption DEF Settings
  <2>2. [s \in Signals |-> Exporter(s)] \in [Signals -> Text]
    BY <1>0, DefaultType, SettingsAssumption DEF Settings, Signals, Exporter
  <2>3. Normalized(env["OTEL_TRACES_SAMPLER"]) \in Text
    BY <1>0, SettingsAssumption DEF TypeOK
  <2>4. endpointURL(env["OTEL_EXPORTER_OTLP_ENDPOINT"], Insecure) \in Text
    BY <1>0, SettingsAssumption DEF TypeOK, endpointURL
  <2> HIDE DEF OTelConfigFromEnv
  <2> QED
    BY <2>1, <2>2, <2>3, <2>4, BooleanSettings DEF OTelConfigFromEnv, LoadedOTelConfig, OTelConfig
<1>3. TypeOK'
  BY <1>0, <1>2 DEF TypeOK, otelVars
<1>4. PlaceInv'
  <2>1. otel' # None
    BY DEF LoadedOTelConfig, None
  <2> QED
    BY <1>0, <2>1 DEF PlaceInv, Ahead, otelVars
<1>5. ChoiceInv'
  BY SameChoice
<1> QED
  BY <1>1, <1>3, <1>4, <1>5, SameProviders DEF IInv

-----------------------------------------------------------------------------
(* The setup of OTel.                                                        *)

LEMMA NewResourceInv == IInv /\ NewResource => IInv'
<1> SUFFICES ASSUME IInv, NewResource PROVE IInv'
  OBVIOUS
<1> USE DEF NewResource, serverVars
<1>0. TypeOK /\ PlaceInv /\ ChoiceInv
  BY DEF IInv
<1>1. exit' \notin {"setup", "ok"}
  BY <1>0 DEF PlaceInv
<1>2. propagators' \subseteq {"tracecontext", "baggage", "jaeger"}
  BY <1>0 DEF TypeOK, newPropagator
<1>3. TypeOK'
  <2>1. at' \in {"cleaning", "traces"}
    OBVIOUS
  <2>2. at' \in Signals \cup {"cleaning"}
    BY <2>1 DEF Signals
  <2> QED
    BY <1>0, <1>2, <2>2 DEF TypeOK, otelVars
<1>4. PlaceInv'
  BY <1>0 DEF PlaceInv, Ahead, otelVars, Signals
<1>5. ChoiceInv'
  BY SameChoice
<1> QED
  BY <1>1, <1>3, <1>4, <1>5, SameProviders DEF IInv

LEMMA RatioType ==
  ASSUME TypeOK
  PROVE  ParseFloat(env["OTEL_TRACES_SAMPLER_ARG"])
           \in [kind : {"number"}, percent : Int] \cup [kind : {"NaN", "error"}]
BY SettingsAssumption DEF TypeOK

LEMMA RatiosType ==
  ASSUME TypeOK
  PROVE  Ratios(env["OTEL_TRACES_SAMPLER_ARG"]) \subseteq 0 .. 100
<1> DEFINE arg == env["OTEL_TRACES_SAMPLER_ARG"]
           ratio == ParseFloat(arg)
<1>1. CASE arg = "" \/ ratio.kind = "error"
  <2>1. Ratios(arg) = {100}
    BY <1>1, Zenon DEF Ratios
  <2> QED
    BY <2>1
<1>2. CASE ~(arg = "" \/ ratio.kind = "error") /\ ratio.kind = "NaN"
  <2>1. Ratios(arg) = {0, 100}
    BY <1>2, Zenon DEF Ratios
  <2> QED
    BY <2>1
<1>3. CASE ~(arg = "" \/ ratio.kind = "error") /\ ratio.kind # "NaN"
  <2>1. Ratios(arg) = {IF ratio.percent \in 0 .. 100 THEN ratio.percent ELSE 100}
    BY <1>3 DEF Ratios
  <2> QED
    BY <2>1
<1> QED
  BY <1>1, <1>2, <1>3

LEMMA SamplerType ==
  ASSUME TypeOK, NEW name
  PROVE  newSampler(name, env["OTEL_TRACES_SAMPLER_ARG"]) \subseteq Sampler
<1>1. ParentBased(name) \in BOOLEAN
  BY Zenon DEF ParentBased
<1> QED
  BY <1>1, RatiosType DEF newSampler, Sampler

LEMMA ProviderType ==
  ASSUME TypeOK, NEW s \in Signals, otel \in OTelConfig, NEW p \in newProvider(s)
  PROVE  /\ p \in Provider
         /\ p # None
         /\ p.plaintext \in Plaintext
         /\ s = "traces" =>
              p.sampler \in newSampler(otel.sampler, env["OTEL_TRACES_SAMPLER_ARG"])
<1>1. Plaintext \subseteq BOOLEAN
  BY DEF Plaintext
<1>2. NoSampler \in Sampler
  BY DEF NoSampler, Sampler
<1>3. newSampler(otel.sampler, env["OTEL_TRACES_SAMPLER_ARG"]) \subseteq Sampler
  BY SamplerType
<1> QED
  BY <1>1, <1>2, <1>3 DEF newProvider, Provider, None

(* A plaintext exporter was asked for.                                       *)
LEMMA PlaintextAsked ==
  ASSUME IInv, otel # None, TRUE \in Plaintext
  PROVE  \/ Normalized(env["OTEL_EXPORTER_OTLP_INSECURE"]) = "true"
         \/ Scheme(env["OTEL_EXPORTER_OTLP_ENDPOINT"]) \notin {"", "https"}
<1>1. /\ otel.insecure <=> Insecure
      /\ otel.scheme = endpointURL(env["OTEL_EXPORTER_OTLP_ENDPOINT"], Insecure)
  BY DEF IInv, ChoiceInv
<1>2. CASE Insecure
  BY <1>2, SettingsAssumption DEF Insecure
<1>3. CASE ~Insecure
  BY <1>1, <1>3 DEF Plaintext, endpointURL
<1> QED
  BY <1>2, <1>3

(* A sampler that takes less than every root span was told to.               *)
LEMMA SamplerAsked ==
  ASSUME IInv, NEW name,
         NEW sampler \in newSampler(name, env["OTEL_TRACES_SAMPLER_ARG"]),
         sampler.roots < 100
  PROVE  LET ratio == ParseFloat(env["OTEL_TRACES_SAMPLER_ARG"])
         IN \/ name \in {"always_off", "parentbased_always_off"}
            \/ ratio.kind = "number" /\ ratio.percent = sampler.roots
            \/ ratio.kind = "NaN" /\ sampler.roots = 0
<1> DEFINE arg == env["OTEL_TRACES_SAMPLER_ARG"]
           ratio == ParseFloat(arg)
<1>1. ratio \in [kind : {"number"}, percent : Int] \cup [kind : {"NaN", "error"}]
  BY RatioType DEF IInv
<1>2. CASE name \in {"always_on", "parentbased_always_on"}
  BY <1>2 DEF newSampler
<1>3. CASE name \notin {"always_on", "parentbased_always_on", "always_off", "parentbased_always_off"}
  <2>1. sampler.roots \in Ratios(arg)
    BY <1>3 DEF newSampler
  <2>2. ratio.kind \in {"number", "NaN", "error"}
    BY <1>1
  <2>3. CASE ratio.kind = "NaN"
    <3>1. Ratios(arg) \in {{100}, {0, 100}}
      BY <2>3 DEF Ratios
    <3> QED
      BY <2>1, <2>3, <3>1
  <2>4. CASE ratio.kind = "number"
    <3>1. Ratios(arg) \in {{100}, {IF ratio.percent \in 0 .. 100 THEN ratio.percent ELSE 100}}
      BY <2>4 DEF Ratios
    <3>2. sampler.roots = ratio.percent
      BY <2>1, <3>1
    <3> QED
      BY <2>4, <3>2, Zenon
  <2>5. CASE ratio.kind = "error"
    <3>1. Ratios(arg) = {100}
      BY <2>5, Zenon DEF Ratios
    <3> QED
      BY <2>1, <3>1
  <2> QED
    BY <2>2, <2>3, <2>4, <2>5
<1> QED
  BY <1>2, <1>3

LEMMA SetUpInv == ASSUME NEW s \in Signals PROVE IInv /\ SetUp(s) => IInv'
<1> SUFFICES ASSUME IInv, SetUp(s) PROVE IInv'
  OBVIOUS
<1> USE DEF SetUp, serverVars, settingVars
<1>0. TypeOK /\ PlaceInv /\ ChoiceInv /\ CleanInv
  BY DEF IInv
<1>1. otel \in OTelConfig /\ otel # None
  BY <1>0 DEF PlaceInv, TypeOK, Signals
<1>2. /\ provider[s] = None /\ exit = "running"
      /\ \A x \in Signals : shutDowns[x] = 0
  BY <1>0 DEF PlaceInv, Ahead, Signals
<1>3. CASE otel.exporter[s] = "none"
  <2> USE <1>3
  <2>1. at' \in Signals \cup {"notify"}
    BY DEF Following, Signals
  <2>2. TypeOK'
    BY <1>0, <2>1 DEF TypeOK, Signals
  <2>3. Exporter(s) = "none"
    BY <1>0, <1>1 DEF ChoiceInv
  <2>4. PlaceInv'
    <3>1. Exporter(s)' = "none" /\ \A x : Exporter(x)' = Exporter(x)
      BY <2>3, SameSettings
    <3>2. CASE s = "traces"
      BY <1>0, <1>2, <3>1, <3>2 DEF PlaceInv, Ahead, Following, Signals
    <3>3. CASE s = "metrics"
      BY <1>0, <1>2, <3>1, <3>3 DEF PlaceInv, Ahead, Following, Signals
    <3>4. CASE s = "logs"
      BY <1>0, <1>2, <3>1, <3>4 DEF PlaceInv, Ahead, Following, Signals
    <3> QED
      BY <3>2, <3>3, <3>4 DEF Signals
  <2>5. ChoiceInv'
    BY SameChoice
  <2> QED
    BY <1>2, <2>2, <2>4, <2>5, SameProviders DEF IInv, otelVars
<1>4. CASE otel.exporter[s] # "none"
  <2>1. PICK p \in newProvider(s) : provider' = [provider EXCEPT ![s] = p]
    BY <1>4
  <2>2. /\ shutdownFuncs' = Append(shutdownFuncs, s)
        /\ UNCHANGED <<exit, env, args, logOptions, config, otel, propagators, shutDowns, mounted, server>>
        /\ at = s /\ at' = Following(s)
    BY <1>4
  <2> HIDE DEF SetUp
  <2>3. p \in Provider /\ p # None /\ p.plaintext \in Plaintext
        /\ (s = "traces" => p.sampler \in newSampler(otel.sampler, env["OTEL_TRACES_SAMPLER_ARG"]))
    BY <1>0, <1>1, ProviderType
  <2>4. at' \in Signals \cup {"notify"}
    BY <2>2 DEF Following, Signals
  <2>5. TypeOK'
    <3>1. provider' \in [Signals -> Provider \cup {None}]
      BY <1>0, <2>1, <2>3 DEF TypeOK
    <3>2. shutdownFuncs' \in Seq(Signals)
      BY <1>0, <2>2 DEF TypeOK
    <3> QED
      BY <1>0, <2>2, <2>4, <3>1, <3>2 DEF TypeOK
  <2>6. provider'[s] = p /\ \A x \in Signals \ {s} : provider'[x] = provider[x]
    BY <1>0, <2>1 DEF TypeOK
  <2>7. CleanInv'
    <3>1. /\ DOMAIN shutdownFuncs = 1 .. Len(shutdownFuncs)
          /\ DOMAIN shutdownFuncs' = 1 .. (Len(shutdownFuncs) + 1)
          /\ Len(shutdownFuncs) \in Nat
          /\ shutdownFuncs'[Len(shutdownFuncs) + 1] = s
          /\ \A i \in 1 .. Len(shutdownFuncs) :
               shutdownFuncs'[i] = shutdownFuncs[i] /\ shutdownFuncs[i] \in Signals
      BY <1>0, <2>2 DEF TypeOK
    <3>2. \A i \in 1 .. Len(shutdownFuncs) : shutdownFuncs[i] # s
      BY <1>0, <1>2, <3>1 DEF CleanInv
    <3>3. \A i, j \in DOMAIN shutdownFuncs' : shutdownFuncs'[i] = shutdownFuncs'[j] => i = j
      BY <1>0, <3>1, <3>2 DEF CleanInv
    <3>4. \A i \in DOMAIN shutdownFuncs' :
            provider'[shutdownFuncs'[i]] # None /\ shutDowns'[shutdownFuncs'[i]] = 0
      BY <1>0, <1>2, <2>2, <2>3, <2>6, <3>1, <3>2 DEF CleanInv
    <3>5. \A x \in Signals :
            provider'[x] # None => \E i \in DOMAIN shutdownFuncs' : shutdownFuncs'[i] = x
      <4> SUFFICES ASSUME NEW x \in Signals, provider'[x] # None
                   PROVE  \E i \in DOMAIN shutdownFuncs' : shutdownFuncs'[i] = x
        OBVIOUS
      <4>1. CASE x = s
        BY <3>1, <4>1
      <4>2. CASE x # s
        BY <1>0, <1>2, <2>6, <3>1, <4>2 DEF CleanInv
      <4> QED
        BY <4>1, <4>2
    <3>6. \A x \in Signals : shutDowns'[x] <= IF provider'[x] = None THEN 0 ELSE 1
      BY <1>2, <2>2
    <3> QED
      BY <1>2, <2>2, <3>3, <3>4, <3>5, <3>6 DEF CleanInv
  <2>8. PlaceInv'
    <3>1. \A x : Exporter(x)' = Exporter(x)
      BY <2>2, SameSettings
    <3>2. CASE s = "traces"
      BY <1>0, <1>2, <2>2, <2>3, <2>6, <3>1, <3>2 DEF PlaceInv, Ahead, Following, Signals
    <3>3. CASE s = "metrics"
      BY <1>0, <1>2, <2>2, <2>3, <2>6, <3>1, <3>3 DEF PlaceInv, Ahead, Following, Signals
    <3>4. CASE s = "logs"
      BY <1>0, <1>2, <2>2, <2>3, <2>6, <3>1, <3>4 DEF PlaceInv, Ahead, Following, Signals
    <3> QED
      BY <3>2, <3>3, <3>4 DEF Signals
  <2>9. ChoiceInv'
    BY <2>2, SameChoice
  <2>10. PlaintextOnlyWhenAsked'
    <3>1. p.plaintext => TRUE \in Plaintext
      BY <2>3 DEF Plaintext
    <3>2. p.plaintext =>
            \/ Normalized(env["OTEL_EXPORTER_OTLP_INSECURE"]) = "true"
            \/ Scheme(env["OTEL_EXPORTER_OTLP_ENDPOINT"]) \notin {"", "https"}
      BY <1>1, <3>1, PlaintextAsked
    <3> QED
      BY <2>2, <2>6, <3>2 DEF PlaintextOnlyWhenAsked, IInv
  <2>11. BadRatioSamplesAll'
    <3>1. CASE s = "traces"
      <4>1. provider'["traces"] = p
        BY <2>6, <3>1
      <4>2. otel.sampler = Normalized(env["OTEL_TRACES_SAMPLER"])
        BY <1>0, <1>1 DEF ChoiceInv
      <4>3. p.sampler.roots < 100 =>
              LET ratio == ParseFloat(env["OTEL_TRACES_SAMPLER_ARG"])
              IN \/ otel.sampler \in {"always_off", "parentbased_always_off"}
                 \/ ratio.kind = "number" /\ ratio.percent = p.sampler.roots
                 \/ ratio.kind = "NaN" /\ p.sampler.roots = 0
        BY <2>3, <3>1, SamplerAsked
      <4> QED
        BY <2>2, <4>1, <4>2, <4>3 DEF BadRatioSamplesAll
    <3>2. CASE s # "traces"
      BY <2>2, <2>6, <3>2 DEF BadRatioSamplesAll, IInv, Signals
    <3> QED
      BY <3>1, <3>2
  <2> QED
    BY <2>5, <2>7, <2>8, <2>9, <2>10, <2>11 DEF IInv
<1> QED
  BY <1>3, <1>4

LEMMA SetUpFailsInv == ASSUME NEW s \in Signals PROVE IInv /\ SetUpFails(s) => IInv'
<1> SUFFICES ASSUME IInv, SetUpFails(s) PROVE IInv'
  OBVIOUS
<1> USE DEF SetUpFails, serverVars, settingVars
<1>0. TypeOK /\ PlaceInv
  BY DEF IInv
<1>1. exit = "running"
  BY <1>0 DEF PlaceInv, Signals
<1>2. TypeOK'
  BY <1>0 DEF TypeOK, otelVars
<1>3. PlaceInv'
  <2>1. otel # None /\ otel.exporter[s] # "none" /\ provider[s] = None
    BY <1>0 DEF PlaceInv, Ahead, Signals
  <2>2. Exporter(s)' # "none" /\ provider'[s] = None
    BY <2>1, SameSettings DEF IInv, ChoiceInv, otelVars
  <2> QED
    BY <1>0, <1>1, <2>2 DEF PlaceInv, Ahead, Signals, otelVars
<1>4. ChoiceInv'
  BY SameChoice
<1> QED
  BY <1>1, <1>2, <1>3, <1>4, SameProviders DEF IInv

LEMMA ShutdownInv == IInv /\ Shutdown => IInv'
<1> SUFFICES ASSUME IInv, Shutdown PROVE IInv'
  OBVIOUS
<1>0. TypeOK /\ PlaceInv /\ ChoiceInv /\ CleanInv
  BY DEF IInv
<1> DEFINE s == Head(shutdownFuncs)
<1>1. /\ at \in {"cleaning", "flushing"} /\ shutdownFuncs # <<>>
      /\ shutDowns' = [shutDowns EXCEPT ![s] = @ + 1]
      /\ shutdownFuncs' = Tail(shutdownFuncs)
      /\ UNCHANGED <<at, exit, env, args, logOptions, config, otel, propagators, provider, mounted, server>>
  BY DEF Shutdown, settingVars, serverVars
<1>2. /\ DOMAIN shutdownFuncs = 1 .. Len(shutdownFuncs)
      /\ DOMAIN shutdownFuncs' = 1 .. (Len(shutdownFuncs) - 1)
      /\ Len(shutdownFuncs) \in Nat \ {0}
      /\ s = shutdownFuncs[1] /\ s \in Signals
      /\ shutdownFuncs' \in Seq(Signals)
      /\ \A i \in 1 .. (Len(shutdownFuncs) - 1) : shutdownFuncs'[i] = shutdownFuncs[i + 1]
  BY <1>0, <1>1 DEF TypeOK
<1>3. shutDowns[s] = 0 /\ provider[s] # None
  BY <1>0, <1>2 DEF CleanInv
<1>4. shutDowns'[s] = 1 /\ \A x \in Signals \ {s} : shutDowns'[x] = shutDowns[x]
  BY <1>0, <1>1, <1>2, <1>3 DEF TypeOK
<1> HIDE DEF s
<1>5. TypeOK'
  <2>1. shutDowns' \in [Signals -> Nat]
    BY <1>0, <1>1, <1>2, <1>3, <1>4 DEF TypeOK
  <2> QED
    BY <1>0, <1>1, <1>2, <2>1 DEF TypeOK
<1>6. CleanInv'
  <2>1. \A i, j \in DOMAIN shutdownFuncs' : shutdownFuncs'[i] = shutdownFuncs'[j] => i = j
    BY <1>0, <1>2 DEF CleanInv
  <2>2. \A i \in DOMAIN shutdownFuncs' : shutdownFuncs'[i] # s
    BY <1>0, <1>2 DEF CleanInv
  <2>3. \A i \in DOMAIN shutdownFuncs' :
          provider'[shutdownFuncs'[i]] # None /\ shutDowns'[shutdownFuncs'[i]] = 0
    <3> SUFFICES ASSUME NEW i \in DOMAIN shutdownFuncs'
                 PROVE  provider[shutdownFuncs'[i]] # None /\ shutDowns'[shutdownFuncs'[i]] = 0
      BY <1>1
    <3>1. shutdownFuncs'[i] = shutdownFuncs[i + 1] /\ i + 1 \in DOMAIN shutdownFuncs
      BY <1>2
    <3>2. shutdownFuncs[i + 1] \in Signals
      BY <1>0, <3>1 DEF TypeOK
    <3> QED
      BY <1>0, <1>4, <2>2, <3>1, <3>2 DEF CleanInv
  <2>4. ASSUME NEW x \in Signals, provider'[x] # None, shutDowns'[x] = 0
        PROVE  \E i \in DOMAIN shutdownFuncs' : shutdownFuncs'[i] = x
    <3>1. x # s /\ shutDowns[x] = 0 /\ provider[x] # None
      BY <1>1, <1>4, <2>4
    <3>2. PICK k \in DOMAIN shutdownFuncs : shutdownFuncs[k] = x
      BY <1>0, <3>1 DEF CleanInv
    <3>3. k - 1 \in DOMAIN shutdownFuncs' /\ shutdownFuncs'[k - 1] = x
      BY <1>2, <3>1, <3>2
    <3> QED
      BY <3>3
  <2>5. \A x \in Signals : shutDowns'[x] <= IF provider'[x] = None THEN 0 ELSE 1
    BY <1>0, <1>1, <1>3, <1>4 DEF CleanInv
  <2>6. exit' = "running"
    BY <1>0, <1>1 DEF PlaceInv
  <2> QED
    BY <2>1, <2>3, <2>4, <2>5, <2>6 DEF CleanInv
<1>7. PlaceInv'
  BY <1>0, <1>1, SameSettings DEF PlaceInv, Ahead
<1>8. ChoiceInv'
  BY <1>1, SameChoice
<1>9. PlaintextOnlyWhenAsked' /\ BadRatioSamplesAll'
  BY <1>1 DEF IInv, PlaintextOnlyWhenAsked, BadRatioSamplesAll
<1> QED
  BY <1>5, <1>6, <1>7, <1>8, <1>9 DEF IInv

LEMMA ShutdownDoneInv == IInv /\ ShutdownDone => IInv'
<1> SUFFICES ASSUME IInv, ShutdownDone PROVE IInv'
  OBVIOUS
<1> USE DEF ShutdownDone, serverVars, settingVars, otelVars, Exit
<1>0. TypeOK /\ PlaceInv /\ CleanInv
  BY DEF IInv
<1>1. TypeOK'
  BY <1>0 DEF TypeOK
<1>2. PlaceInv'
  BY <1>0 DEF PlaceInv, Ahead, Signals
<1>3. ChoiceInv'
  BY SameChoice
<1>4. CleanInv'
  BY <1>0 DEF CleanInv
<1>5. PlaintextOnlyWhenAsked' /\ BadRatioSamplesAll'
  BY DEF IInv, PlaintextOnlyWhenAsked, BadRatioSamplesAll
<1> QED
  BY <1>1, <1>2, <1>3, <1>4, <1>5 DEF IInv

-----------------------------------------------------------------------------
(* main and the server.                                                      *)

LEMMA StartServerInv == IInv /\ StartServer => IInv'
<1> SUFFICES ASSUME IInv, StartServer PROVE IInv'
  OBVIOUS
<1> USE DEF StartServer, settingVars
<1>0. TypeOK /\ PlaceInv /\ ChoiceInv
  BY DEF IInv
<1>1. config \in Config /\ config # None /\ exit = "running"
  BY <1>0 DEF PlaceInv, TypeOK
<1>2. mounted' \in Mounted /\ mounted'.debug = config.debug
  BY <1>1, SettingsAssumption DEF Mounted, Config, ServerHost
<1>3. TypeOK'
  BY <1>0, <1>2 DEF TypeOK, otelVars
<1>4. PlaceInv'
  BY <1>0, <1>1, SameSettings DEF PlaceInv, Ahead, otelVars, Signals
<1>5. ChoiceInv'
  BY <1>0, <1>1, <1>2, SameSettings DEF ChoiceInv
<1> QED
  BY <1>1, <1>3, <1>4, <1>5, SameProviders DEF IInv

LEMMA ServerInv ==
  IInv /\ (Notify \/ NewContainerFails \/ Listen \/ AcceptFails \/ ServerError \/ StartServerReturns)
    => IInv'
<1> SUFFICES ASSUME IInv, Notify \/ NewContainerFails \/ Listen \/ AcceptFails
                          \/ ServerError \/ StartServerReturns
             PROVE  IInv'
  OBVIOUS
<1> USE DEF Notify, NewContainerFails, Listen, AcceptFails, ServerError, StartServerReturns,
            Exit, settingVars, serverVars
<1>0. TypeOK /\ PlaceInv
  BY DEF IInv
<1>1. exit' \notin {"setup", "ok"} /\ UNCHANGED <<settingVars, otelVars, mounted>>
  BY <1>0 DEF PlaceInv
<1>2. TypeOK'
  BY <1>0 DEF TypeOK, otelVars
<1>3. PlaceInv'
  BY <1>0, SameSettings DEF PlaceInv, Ahead, otelVars, Signals
<1>4. ChoiceInv'
  BY <1>1, SameChoice
<1> QED
  BY <1>1, <1>2, <1>3, <1>4, SameProviders DEF IInv

LEMMA NextInv == IInv /\ [Next]_vars => IInv'
<1> SUFFICES ASSUME IInv, [Next]_vars PROVE IInv'
  OBVIOUS
<1>1. CASE UNCHANGED vars
  <2> USE <1>1 DEF vars, settingVars, serverVars
  <2>1. TypeOK' /\ PlaceInv' /\ CleanInv'
    BY SameSettings DEF IInv, TypeOK, PlaceInv, CleanInv, Ahead, otelVars
  <2>2. ChoiceInv'
    BY SameChoice
  <2>3. PlaintextOnlyWhenAsked' /\ BadRatioSamplesAll'
    BY DEF IInv, PlaintextOnlyWhenAsked, BadRatioSamplesAll, otelVars
  <2> QED
    BY <2>1, <2>2, <2>3 DEF IInv
<1>2. CASE Next
  BY <1>2, LogInv, LoadConfigInv, OTelConfigInv, NewResourceInv, SetUpInv, SetUpFailsInv,
     ShutdownInv, ShutdownDoneInv, StartServerInv, ServerInv
  DEF Next
<1> QED
  BY <1>1, <1>2

LEMMA Invariance == Spec => []IInv
BY InitInv, NextInv, PTL DEF Spec

(* The types of the settings and of what is set up from them.                *)
THEOREM TypeCorrect == Spec => []TypeOK
<1>1. IInv => TypeOK
  BY DEF IInv
<1> QED
  BY <1>1, Invariance, PTL

(* Whatever was set up is shut down once: after a setup that fails half-way  *)
(* and at a regular end.                                                     *)
THEOREM EachCleanedOnce == Spec => []CleanedOnce
<1>1. IInv => CleanedOnce
  <2> SUFFICES ASSUME IInv, NEW s \in Signals
               PROVE  /\ shutDowns[s] <= IF provider[s] = None THEN 0 ELSE 1
                      /\ exit \in {"setup", "ok"} /\ provider[s] # None => shutDowns[s] = 1
    BY DEF CleanedOnce
  <2>1. shutDowns[s] \in Nat /\ shutDowns[s] <= IF provider[s] = None THEN 0 ELSE 1
    BY DEF IInv, CleanInv, TypeOK
  <2>2. ASSUME exit \in {"setup", "ok"}, provider[s] # None
        PROVE  shutDowns[s] # 0
    BY <2>2 DEF IInv, CleanInv
  <2> QED
    BY <2>1, <2>2
<1> QED
  BY <1>1, Invariance, PTL

(* Nothing is exported in plaintext unasked, for any environment.            *)
THEOREM PlaintextIsAskedFor == Spec => []PlaintextOnlyWhenAsked
<1>1. IInv => PlaintextOnlyWhenAsked
  BY DEF IInv
<1> QED
  BY <1>1, Invariance, PTL

(* A ratio that is no number or out of range samples every root span.        *)
THEOREM BadRatiosSampleAll == Spec => []BadRatioSamplesAll
<1>1. IInv => BadRatioSamplesAll
  BY DEF IInv
<1> QED
  BY <1>1, Invariance, PTL

-----------------------------------------------------------------------------
(* Startup is what Lifecycle calls the start.                                *)

LEMMA InitLifecycle == Init => L!Init
<1> SUFFICES ASSUME Init PROVE L!Init
  OBVIOUS
<1>1. Position = "otel" /\ Ending = "running"
  BY DEF Init, Position, Ending
<1>2. StillUp = {} /\ ToSetUp \in SUBSET Signals
  BY DEF Init, StillUp, ToSetUp
<1> QED
  BY <1>1, <1>2 DEF Init, L!Init, L!ConnInit, L!HandlerInit

(* What Lifecycle does not see.                                              *)
LEMMA Unseen ==
  ASSUME UNCHANGED <<Position, Ending, ToSetUp, StillUp, server>>
  PROVE  UNCHANGED L!vars
BY DEF L!vars, L!startVars, L!handlerVars, L!stopVars, L!connVars

LEMMA SameView ==
  ASSUME UNCHANGED <<env, args, provider>>
  PROVE  /\ ToSetUp' = ToSetUp
         /\ UNCHANGED shutDowns /\ (at' = "exited" <=> at = "exited") => StillUp' = StillUp
         /\ at # "exited" /\ at' # "exited" => StillUp' = StillUp
<1>1. ToSetUp' = ToSetUp
  BY SameSettings DEF ToSetUp
<1> QED
  BY <1>1 DEF StillUp

(* Exits before the container is built.                                      *)
LEMMA SetUpFailsView ==
  ASSUME Position = "otel", Position' = "exited", Ending' = "error",
         ToSetUp # {} \/ StillUp = {}, StillUp' = {},
         UNCHANGED <<ToSetUp, server>>
  PROVE  L!Next
<1>1. L!Exit("error")
  BY DEF L!Exit, L!startVars, L!stopVars, L!connVars
<1>2. L!SetUpFails
  BY <1>1 DEF L!SetUpFails
<1> QED
  BY <1>2 DEF L!Next, L!Main

LEMMA SettingsView ==
  ASSUME IInv, InitStructureLogConfig \/ LoadConfig \/ OTelConfigFromEnv \/ NewResource
  PROVE  L!Next \/ UNCHANGED L!vars
<1>0. PlaceInv
  BY DEF IInv
<1>1. UNCHANGED <<env, args, otelVars, server>> /\ at \in {"log", "config", "otel", "resource"}
  BY DEF InitStructureLogConfig, LoadConfig, OTelConfigFromEnv, NewResource, serverVars
<1>2. CASE at' = "exited"
  <2>1. exit' = "usage"
    BY <1>0, <1>2 DEF InitStructureLogConfig, LoadConfig, OTelConfigFromEnv, NewResource, Exit
  <2>2. Position = "otel" /\ Position' = "exited" /\ Ending' = "error"
    BY <1>1, <1>2, <2>1 DEF Position, Ending
  <2>3. \A s \in Signals : provider[s] = None
    BY <1>0, <1>1 DEF PlaceInv, Ahead
  <2>4. StillUp = {} /\ StillUp' = {} /\ ToSetUp' = ToSetUp
    BY <1>1, <2>3, SameView DEF StillUp, otelVars
  <2> QED
    BY <1>1, <2>2, <2>4, SetUpFailsView
<1>3. CASE at' # "exited"
  <2>1. UNCHANGED exit /\ at' \in {"config", "otel", "resource", "traces", "cleaning"}
    BY <1>3 DEF InitStructureLogConfig, LoadConfig, OTelConfigFromEnv, NewResource, Exit
  <2>2. UNCHANGED <<Position, Ending>>
    BY <1>1, <2>1 DEF Position, Ending
  <2>3. UNCHANGED <<ToSetUp, StillUp>>
    BY <1>1, <2>1, SameView DEF otelVars
  <2> QED
    BY <1>1, <2>2, <2>3, Unseen
<1> QED
  BY <1>2, <1>3

LEMMA SetUpView ==
  ASSUME IInv, NEW s \in Signals, SetUp(s)
  PROVE  L!Next \/ UNCHANGED L!vars
<1>0. TypeOK /\ PlaceInv /\ ChoiceInv
  BY DEF IInv
<1>1. /\ UNCHANGED <<exit, env, args, shutDowns, server>>
      /\ at = s /\ at' = Following(s)
  BY DEF SetUp, settingVars, serverVars
<1>2. at \in Signals /\ at' \in Signals \cup {"notify"}
  BY <1>1 DEF Following, Signals
<1>3. Position = "otel" /\ Position' = "otel" /\ UNCHANGED Ending
  BY <1>1, <1>2 DEF Position, Ending, Signals
<1>4. CASE otel.exporter[s] = "none"
  <2>1. UNCHANGED provider
    BY <1>4 DEF SetUp
  <2>2. UNCHANGED <<ToSetUp, StillUp>>
    BY <1>1, <1>2, <2>1, SameView DEF Signals
  <2> QED
    BY <1>1, <1>3, <2>2, Unseen
<1>5. CASE otel.exporter[s] # "none"
  <2>1. PICK p \in newProvider(s) : provider' = [provider EXCEPT ![s] = p]
    BY <1>5 DEF SetUp
  <2>2. otel \in OTelConfig /\ otel # None /\ provider[s] = None
    BY <1>0, <1>1 DEF PlaceInv, TypeOK, Ahead, Signals
  <2>3. p # None
    BY <1>0, <2>2, ProviderType
  <2>4. provider'[s] = p /\ \A x \in Signals \ {s} : provider'[x] = provider[x]
    BY <1>0, <2>1 DEF TypeOK
  <2>5. Exporter(s) # "none" /\ \A x : Exporter(x)' = Exporter(x)
    BY <1>0, <1>1, <1>5, <2>2, SameSettings DEF ChoiceInv
  <2>6. s \in ToSetUp /\ ToSetUp' = ToSetUp \ {s}
    BY <2>2, <2>3, <2>4, <2>5 DEF ToSetUp
  <2>7. StillUp' = StillUp \cup {s}
    BY <1>1, <1>2, <2>3, <2>4 DEF StillUp, Signals
  <2>8. L!SetUpExporter
    BY <1>1, <1>3, <2>6, <2>7 DEF L!SetUpExporter, L!handlerVars, L!stopVars, L!connVars
  <2> QED
    BY <2>8 DEF L!Next, L!Main
<1> QED
  BY <1>4, <1>5

LEMMA FailedSetUpView ==
  ASSUME IInv, IInv', (\E s \in Signals : SetUpFails(s)) \/ (Shutdown /\ at = "cleaning")
                       \/ (ShutdownDone /\ at = "cleaning")
  PROVE  L!Next \/ UNCHANGED L!vars
<1>0. TypeOK /\ PlaceInv /\ ChoiceInv
  BY DEF IInv
<1>1. UNCHANGED <<env, args, provider, server>> /\ at \in Signals \cup {"cleaning"}
  BY DEF SetUpFails, Shutdown, ShutdownDone, settingVars, serverVars, otelVars
<1>2. Position = "otel"
  BY <1>1 DEF Position, Signals
<1>3. CASE \/ \E s \in Signals : SetUpFails(s)
           \/ Shutdown /\ at = "cleaning"
  <2>1. UNCHANGED exit /\ at' = "cleaning"
    BY <1>3 DEF SetUpFails, Shutdown
  <2>2. UNCHANGED <<ToSetUp, StillUp>>
    BY <1>1, <2>1, SameView DEF Signals
  <2>3. UNCHANGED <<Position, Ending>>
    BY <1>2, <2>1 DEF Position, Ending
  <2> QED
    BY <1>1, <2>2, <2>3, Unseen
<1>4. CASE ShutdownDone /\ at = "cleaning"
  <2>1. exit' = "setup" /\ at' = "exited" /\ UNCHANGED shutDowns
    BY <1>4 DEF ShutdownDone, Exit, otelVars
  <2>2. \A s \in Signals : provider'[s] # None => shutDowns'[s] # 0
    BY <2>1 DEF IInv, CleanInv
  <2>3. StillUp' = {}
    BY <2>1, <2>2 DEF StillUp
  <2>4. Position' = "exited" /\ Ending' = "error"
    BY <2>1 DEF Position, Ending
  <2>5. ToSetUp' = ToSetUp
    BY <1>1, SameView
  <2>6. ToSetUp # {} \/ StillUp = {}
    BY <1>0, <1>4 DEF PlaceInv, ToSetUp, StillUp
  <2> QED
    BY <1>1, <1>2, <2>3, <2>4, <2>5, <2>6, SetUpFailsView
<1> QED
  BY <1>3, <1>4

LEMMA ServerView ==
  ASSUME IInv, at' # "flushing",
         Notify \/ StartServer \/ NewContainerFails \/ Listen \/ AcceptFails
           \/ ServerError \/ StartServerReturns
  PROVE  L!Next
<1>0. TypeOK /\ PlaceInv
  BY DEF IInv
<1>1. /\ UNCHANGED <<env, args, otelVars>>
      /\ at \in {"notify", "container", "serving"} /\ exit = "running"
  BY <1>0 DEF PlaceInv, Notify, StartServer, NewContainerFails, Listen, AcceptFails, ServerError,
              StartServerReturns, settingVars
<1>2. ToSetUp = {} /\ ToSetUp' = {}
  <2>1. \A s \in Signals : provider[s] = None => Exporter(s) = "none"
    BY <1>0, <1>1 DEF PlaceInv, Ahead, Signals
  <2>2. ToSetUp = {}
    BY <2>1 DEF ToSetUp
  <2> QED
    BY <1>1, <2>2, SameView DEF otelVars
<1>3. \A s \in Signals : shutDowns[s] = 0 /\ shutDowns'[s] = 0
  BY <1>0, <1>1 DEF PlaceInv, otelVars
<1>4. UNCHANGED StillUp
  BY <1>1, <1>3 DEF StillUp, otelVars
<1> USE DEF L!startVars, L!handlerVars, L!stopVars, L!connVars
<1>5. CASE Notify
  <2>1. L!SetUpDone
    BY <1>1, <1>2, <1>4, <1>5 DEF Notify, Position, Ending, serverVars, L!SetUpDone
  <2> QED
    BY <2>1 DEF L!Next, L!Main
<1>6. CASE StartServer
  <2>1. L!NewContainer
    BY <1>1, <1>2, <1>4, <1>6 DEF StartServer, Position, Ending, L!NewContainer
  <2> QED
    BY <2>1 DEF L!Next, L!Main
<1>7. CASE NewContainerFails
  <2>1. L!NewContainerFails
    BY <1>1, <1>2, <1>4, <1>7
    DEF NewContainerFails, Exit, Position, Ending, serverVars, L!NewContainerFails, L!Exit
  <2> QED
    BY <2>1 DEF L!Next, L!Main
<1>8. CASE Listen
  <2>1. L!Listen
    BY <1>1, <1>2, <1>4, <1>8 DEF Listen, Position, Ending, L!Listen
  <2> QED
    BY <2>1 DEF L!Next
<1>9. CASE AcceptFails
  <2>1. L!AcceptFails
    BY <1>1, <1>2, <1>4, <1>9 DEF AcceptFails, Position, Ending, L!AcceptFails
  <2> QED
    BY <2>1 DEF L!Next
<1>10. CASE ServerError
  <2>1. L!ServerError
    BY <1>1, <1>2, <1>4, <1>10 DEF ServerError, Exit, Position, Ending, serverVars, L!ServerError, L!Exit
  <2> QED
    BY <2>1 DEF L!Next, L!Main
<1>11. CASE StartServerReturns
  BY <1>11 DEF StartServerReturns
<1> QED
  BY <1>5, <1>6, <1>7, <1>8, <1>9, <1>10, <1>11

(* Until StartServer returns, every step of the detailed start is one of     *)
(* Lifecycle or changes nothing that Lifecycle sees.                         *)
THEOREM StartImplementsLifecycle == Spec => StartsAsLifecycle
<1> DEFINE Step == at # "flushing" /\ at' # "flushing" => L!Next \/ UNCHANGED L!vars
<1>1. IInv /\ IInv' /\ [Next]_vars => [Step]_vars
  <2> SUFFICES ASSUME IInv, IInv', Next, at # "flushing", at' # "flushing"
               PROVE  L!Next \/ UNCHANGED L!vars
    OBVIOUS
  <2>1. \/ InitStructureLogConfig \/ LoadConfig \/ OTelConfigFromEnv \/ NewResource
        \/ \E s \in Signals : SetUp(s)
        \/ (\E s \in Signals : SetUpFails(s)) \/ (Shutdown /\ at = "cleaning")
             \/ (ShutdownDone /\ at = "cleaning")
        \/ Notify \/ StartServer \/ NewContainerFails \/ Listen \/ AcceptFails
             \/ ServerError \/ StartServerReturns
    BY DEF Next, Shutdown, ShutdownDone
  <2> QED
    BY <2>1, SettingsView, SetUpView, FailedSetUpView, ServerView
<1>2. Spec => L!Init
  BY InitLifecycle DEF Spec
<1> HIDE DEF Step
<1>3. Spec => [][Step]_vars
  BY <1>1, Invariance, PTL DEF Spec
<1> QED
  BY <1>2, <1>3, PTL DEF Step, StartsAsLifecycle
=============================================================================
