----------------------------- MODULE Readiness ------------------------------
(* GET /readyz: AccessService.Readyz asks the messaging repository and then  *)
(* the auth repository for their health while the connection (NatsConn) and  *)
(* the cache of the JWKS (JwksView) change under it.  Every probe is a goroutine; each  *)
(* status query of nats.Conn takes its lock separately, so the status can    *)
(* change between two of them.                                               *)
EXTENDS NatsConn, JwksView

CONSTANT Probes

VARIABLES
  pc,          \* position of each probe
  issues,      \* healthIssues: the dependencies found unhealthy
  code,        \* the HTTP status of the answer, 0 before
  ping,        \* the probe's PING to the NATS server
  left,        \* the prober left while the probe fetched the keys
  startedGone, \* the connection was draining or closed when the probe began
  sawConnected, \* it was CONNECTED at some time while the probe ran
  sawJwksUp    \* the endpoint was up at some time while the probe ran

probeVars == <<pc, issues, code, ping, left, startedGone>>
vars == <<probeVars, sawConnected, sawJwksUp, jwksVars, connVars>>

Gone == Draining \cup {"CLOSED"}

NatsSteps == {"isConnected", "isClosed", "isDraining", "flush", "flushing"}
Positions == NatsSteps \cup {"idle", "auth", "fetch", "done"}

TypeOK ==
  /\ ConnTypeOK
  /\ JwksTypeOK
  /\ pc \in [Probes -> Positions]
  /\ issues \in [Probes -> SUBSET {"nats", "jwks"}]
  /\ code \in [Probes -> {0, 200, 503}]
  /\ ping \in [Probes -> {"none", "sent", "ponged", "failed"}]
  /\ left \in [Probes -> BOOLEAN]
  /\ startedGone \in [Probes -> BOOLEAN]
  /\ sawConnected \in [Probes -> BOOLEAN]
  /\ sawJwksUp \in [Probes -> BOOLEAN]

Init ==
  /\ ConnInit
  /\ JwksInit
  /\ pc = [p \in Probes |-> "idle"]
  /\ issues = [p \in Probes |-> {}]
  /\ code = [p \in Probes |-> 0]
  /\ ping = [p \in Probes |-> "none"]
  /\ left = [p \in Probes |-> FALSE]
  /\ startedGone = [p \in Probes |-> FALSE]
  /\ sawConnected = [p \in Probes |-> FALSE]
  /\ sawJwksUp = [p \in Probes |-> FALSE]

-----------------------------------------------------------------------------
(* The probe: Readyz, messagingRepository.HealthCheck.                       *)

GoTo(p, position) == pc' = [pc EXCEPT ![p] = position]

Begin(p) ==
  /\ pc[p] = "idle"
  /\ GoTo(p, "isConnected")
  /\ startedGone' = [startedGone EXCEPT ![p] = conn \in Gone]
  /\ sawConnected' = [sawConnected EXCEPT ![p] = conn = "CONNECTED"]
  /\ sawJwksUp' = [sawJwksUp EXCEPT ![p] = jwks = "up"]
  /\ UNCHANGED <<issues, code, ping, left, jwksVars, connVars>>

(* One check of the messaging repository: on failure HealthCheck returns and *)
(* Readyz goes on with the auth repository.                                  *)
NatsCheck(p, here, healthy, next) ==
  /\ pc[p] = here
  /\ IF healthy
     THEN GoTo(p, next) /\ UNCHANGED issues
     ELSE GoTo(p, "auth") /\ issues' = [issues EXCEPT ![p] = @ \cup {"nats"}]
  /\ UNCHANGED <<code, left, startedGone, sawConnected, sawJwksUp, jwksVars, connVars>>

(* nats.Conn counts a draining connection as connected.                      *)
IsConnected(p) ==
  /\ NatsCheck(p, "isConnected", conn \in {"CONNECTED"} \cup Draining, "isClosed")
  /\ UNCHANGED ping

IsClosed(p) ==
  /\ NatsCheck(p, "isClosed", conn # "CLOSED", "isDraining")
  /\ UNCHANGED ping

(* Mutant: a draining connection is as good as a connected one.              *)
IsDrainingIgnored(p) ==
  /\ NatsCheck(p, "isDraining", TRUE, "flush")
  /\ UNCHANGED ping

(* Mutant: only the first of the two statuses of a drain is looked for.      *)
IsDrainingSubs(p) ==
  /\ NatsCheck(p, "isDraining", conn # "DRAINING_SUBS", "flush")
  /\ UNCHANGED ping

IsDraining(p) ==
  /\ NatsCheck(p, "isDraining", conn \notin Draining, "flush")
  /\ UNCHANGED ping

(* FlushWithContext refuses a closed connection, else sends a PING.          *)
Flush(p) ==
  /\ NatsCheck(p, "flush", conn # "CLOSED", "flushing")
  /\ ping' = [ping EXCEPT ![p] = IF conn # "CLOSED" THEN "sent" ELSE @]

Flushed(p) ==
  /\ ping[p] = "ponged"
  /\ NatsCheck(p, "flushing", TRUE, "auth")
  /\ UNCHANGED ping

(* Mutant: the error of FlushWithContext is not returned.                    *)
FlushErrorDropped(p) ==
  /\ NatsCheck(p, "flushing", TRUE, "auth")
  /\ UNCHANGED ping

(* Mutant: a flush without the deadline of NATSTimeout.                      *)
FlushWithoutDeadline(p) ==
  /\ ping[p] = "failed"
  /\ NatsCheck(p, "flushing", FALSE, "auth")
  /\ UNCHANGED ping

(* The connection was lost, the 15 seconds are over, or the prober left.     *)
FlushFails(p) ==
  /\ NatsCheck(p, "flushing", FALSE, "auth")
  /\ UNCHANGED ping

(* The server's PONG.                                                        *)
Pong(p) ==
  /\ ping[p] = "sent"
  /\ conn \in {"CONNECTED"} \cup Draining
  /\ ping' = [ping EXCEPT ![p] = "ponged"]
  /\ UNCHANGED <<pc, issues, code, left, startedGone, sawConnected, sawJwksUp, jwksVars, connVars>>

-----------------------------------------------------------------------------
(* The probe: authRepository.HealthCheck, and the end of Readyz.             *)

CodeOf(healthIssues) == IF healthIssues = {} THEN 200 ELSE 503

Finish(p, found) ==
  /\ issues' = [issues EXCEPT ![p] = @ \cup found]
  /\ code' = [code EXCEPT ![p] = CodeOf(issues'[p])]
  /\ GoTo(p, "done")

(* Keys in the cache, stale ones too, let the test token fail on its         *)
(* signature, which counts as healthy.                                       *)
CheckWithCachedKeys(p) ==
  /\ pc[p] = "auth"
  /\ UseCache
  /\ Finish(p, {})
  /\ UNCHANGED <<ping, left, startedGone, sawConnected, sawJwksUp, connVars>>

FetchKeys(p) ==
  /\ pc[p] = "auth" /\ cache = "none"
  /\ GoTo(p, "fetch")
  /\ UNCHANGED <<issues, code, ping, left, startedGone, sawConnected, sawJwksUp, jwksVars, connVars>>

FetchSucceeds(p) ==
  /\ pc[p] = "fetch" /\ sawJwksUp[p]
  /\ InstallKeys
  /\ Finish(p, {})
  /\ UNCHANGED <<ping, left, startedGone, sawConnected, sawJwksUp, connVars>>

(* Mutant: no error of the validator makes the probe fail.                   *)
FetchErrorsIgnored(p) ==
  /\ pc[p] = "fetch" /\ jwks # "up"
  /\ Finish(p, {})
  /\ UNCHANGED <<ping, left, startedGone, sawConnected, sawJwksUp, jwksVars, connVars>>

(* The fetch fails.  Only an error whose text names a refused connection, a  *)
(* timeout, an unknown host or an unreachable network counts as unhealthy;   *)
(* any other error does not.                                                 *)
FetchFails(p) ==
  /\ pc[p] = "fetch" /\ jwks # "up"
  /\ Finish(p, IF jwks = "refusing" THEN {"jwks"} ELSE {})
  /\ UNCHANGED <<ping, left, startedGone, sawConnected, sawJwksUp, jwksVars, connVars>>

(* The prober leaves, and "context canceled" is none of the four texts.      *)
FetchCancelled(p) ==
  /\ pc[p] = "fetch"
  /\ left' = [left EXCEPT ![p] = TRUE]
  /\ Finish(p, {})
  /\ UNCHANGED <<ping, startedGone, sawConnected, sawJwksUp, jwksVars, connVars>>

-----------------------------------------------------------------------------
(* Losing the connection fails the PINGs under way.                          *)
StatusChanged ==
  /\ ping' = IF conn' \in {"RECONNECTING", "CLOSED"} /\ conn' # conn
             THEN [p \in Probes |-> IF ping[p] = "sent" THEN "failed" ELSE ping[p]]
             ELSE ping
  /\ sawConnected' = [p \in Probes |-> sawConnected[p] \/ conn' = "CONNECTED"]
  /\ UNCHANGED <<pc, issues, code, left, startedGone, sawJwksUp, jwksVars>>

Probe(p) ==
  \/ IsConnected(p) \/ IsClosed(p) \/ IsDraining(p)
  \/ Flush(p) \/ Flushed(p) \/ FlushFails(p)
  \/ CheckWithCachedKeys(p) \/ FetchKeys(p)
  \/ FetchSucceeds(p) \/ FetchFails(p) \/ FetchCancelled(p)

Connection ==
  \/ LoseServer /\ StatusChanged
  \/ ReconnectFails /\ StatusChanged
  \/ Reconnect /\ StatusChanged
  \/ Close /\ StatusChanged
  \/ DrainSubsDone /\ StatusChanged
  \/ DrainPubsDone /\ StatusChanged

(* The endpoint, time, the refresh and the token validations of other        *)
(* requests.                                                                 *)
Environment ==
  /\ JwksNext
  /\ sawJwksUp' = [p \in Probes |-> sawJwksUp[p] \/ jwks' = "up"]
  /\ UNCHANGED <<probeVars, sawConnected, connVars>>

Next ==
  \/ \E p \in Probes : Begin(p) \/ Probe(p) \/ Pong(p)
  \/ Connection
  \/ Environment

Spec == Init /\ [][Next]_vars

(* The probe's goroutine runs on and the flush has a deadline; the fetch of  *)
(* the JWKS has none (http.Client without a Timeout), so nothing is assumed  *)
(* of how it ends.                                                           *)
Fairness ==
  \A p \in Probes :
    /\ WF_vars(IsConnected(p))
    /\ WF_vars(IsClosed(p))
    /\ WF_vars(IsDraining(p))
    /\ WF_vars(Flush(p))
    /\ WF_vars(FlushFails(p))

FairSpec == Spec /\ Fairness

-----------------------------------------------------------------------------
(* Properties.                                                               *)

(* Ready means that the NATS server answered this very probe: the statuses   *)
(* alone, each read at another time, never suffice.                          *)
ReadyMeansPong == \A p \in Probes : code[p] = 200 => ping[p] = "ponged"

(* A probe that begins when the connection drains or is closed is never      *)
(* answered 200, however the rest of the shutdown interleaves with its four  *)
(* looks at the connection.  So a pod whose reconnect attempts are exhausted *)
(* never becomes ready again.                                                *)
NotReadyOnceGone == \A p \in Probes : startedGone[p] => code[p] # 200

(* The looks at the connection and the flush, each at another time, are       *)
(* together as good as one look at an instant: a probe is answered 200 only   *)
(* if the connection was CONNECTED - neither broken, nor draining, nor        *)
(* closed - at one moment while the probe ran.                                *)
ReadyWasConnected == \A p \in Probes : code[p] = 200 => sawConnected[p]

(* As long as the JWKS endpoint refuses connections from the start, no probe *)
(* that still has a prober is answered 200 without keys: ready means keys    *)
(* were fetched once, or that the fetch failed in a way the health check     *)
(* does not recognise.                                                       *)
ReadyHasSeenKeys ==
  [][\A p \in Probes : code'[p] = 200 /\ code[p] = 0 =>
       keysSeen' \/ jwks = "failing" \/ left'[p]]_vars

(* The NATS half of a probe always ends.                                     *)
NatsCheckEnds ==
  \A p \in Probes : pc[p] \in NatsSteps ~> pc[p] \in {"auth", "fetch", "done"}

(* The contract document ("Health Checks"): /readyz "returns 200 only when   *)
(* both NATS and the Heimdall JWKS endpoint are reachable".                  *)
ReadyMeansJwksReachable == \A p \in Probes : code[p] = 200 => sawJwksUp[p]

(* What makes NotReadyOnceGone inductive.                                    *)
GoneInv ==
  \A p \in Probes : startedGone[p] =>
    /\ conn \in Gone
    /\ pc[p] = "flush" => conn = "CLOSED"
    /\ pc[p] # "flushing"
    /\ pc[p] \in {"auth", "fetch", "done"} => "nats" \in issues[p]

(* What makes ReadyMeansPong inductive.                                      *)
PongInv ==
  \A p \in Probes :
    /\ pc[p] \in {"auth", "fetch", "done"} /\ "nats" \notin issues[p] => ping[p] = "ponged"
    /\ pc[p] = "idle" => ~startedGone[p]
    /\ code[p] = 200 => pc[p] = "done" /\ issues[p] = {}
    /\ code[p] # 0 <=> pc[p] = "done"

IInv == TypeOK /\ GoneInv /\ PongInv

(* What makes ReadyWasConnected inductive: past the look for a drain, a probe *)
(* that has not met a connection in order waits for one, or for its failure.  *)
SawInv ==
  \A p \in Probes :
    /\ pc[p] = "idle" => ping[p] = "none"
    /\ pc[p] # "idle" /\ conn = "CONNECTED" => sawConnected[p]
    /\ pc[p] = "flush" \/ ping[p] = "sent" =>
         sawConnected[p] \/ conn \in {"RECONNECTING", "CLOSED"}
    /\ ping[p] = "ponged" => sawConnected[p]

(* What ReadyHasSeenKeys rests on: keys in the cache were fetched.           *)
SeenInv == cache # "none" \/ refreshing => keysSeen
=============================================================================
