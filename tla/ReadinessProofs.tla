-------------------------- MODULE ReadinessProofs ---------------------------
(* Proofs about Readiness for any set of probes and any number of reconnect  *)
(* attempts.                                                                 *)
EXTENDS Readiness, TLAPS

LEMMA InitInv == Init => IInv
<1> SUFFICES ASSUME Init PROVE IInv
  OBVIOUS
<1> USE DEF Init, ConnInit
<1>1. ConnTypeOK
  BY MaxReconnectsAssumption DEF ConnTypeOK, Status
<1>2. JwksTypeOK
  <2>1. wasUp \in BOOLEAN
    BY Zenon DEF JwksInit
  <2> QED
    BY <2>1 DEF JwksInit, JwksTypeOK
<1>3. TypeOK
  BY <1>1, <1>2 DEF TypeOK, Positions, Status
<1>4. GoneInv /\ PongInv
  BY DEF GoneInv, PongInv, Gone, Draining
<1> QED
  BY <1>3, <1>4 DEF IInv

(* A status of the connection; once draining or closed it stays so.          *)
LEMMA ConnSteps ==
  ASSUME ConnTypeOK,
         \/ LoseServer \/ ReconnectFails \/ Reconnect
         \/ Close \/ DrainSubsDone \/ DrainPubsDone
  PROVE  /\ ConnTypeOK'
         /\ conn \in Gone => conn' \in Gone
         /\ conn = "CLOSED" => conn' = "CLOSED"
<1> USE MaxReconnectsAssumption DEF ConnTypeOK, Status, Draining, Gone
<1>1. CASE LoseServer
  BY <1>1 DEF LoseServer
<1>2. CASE ReconnectFails
  BY <1>2 DEF ReconnectFails
<1>3. CASE Reconnect
  BY <1>3 DEF Reconnect
<1>4. CASE Close
  BY <1>4 DEF Close
<1>5. CASE DrainSubsDone \/ DrainPubsDone
  BY <1>5 DEF DrainSubsDone, DrainPubsDone
<1> QED
  BY <1>1, <1>2, <1>3, <1>4, <1>5

LEMMA BeginInv ==
  ASSUME IInv, NEW p \in Probes, Begin(p)
  PROVE  IInv'
<1> USE DEF IInv, Begin, GoTo, connVars, jwksVars
<1>1. TypeOK'
  BY DEF TypeOK, ConnTypeOK, JwksTypeOK, Positions, NatsSteps
<1>2. GoneInv'
  BY DEF GoneInv, TypeOK
<1>3. PongInv'
  BY DEF PongInv, TypeOK
<1> QED
  BY <1>1, <1>2, <1>3

(* The four looks at the connection and the flush.                           *)
LEMMA NatsInv ==
  ASSUME IInv, NEW p \in Probes,
         \/ IsConnected(p) \/ IsClosed(p) \/ IsDraining(p)
         \/ Flush(p) \/ Flushed(p) \/ FlushFails(p)
  PROVE  IInv'
<1> USE DEF IInv, NatsCheck, GoTo, connVars, jwksVars
<1>1. CASE IsConnected(p) \/ IsClosed(p)
  <2> USE <1>1 DEF IsConnected, IsClosed
  <2>1. TypeOK'
    BY DEF TypeOK, ConnTypeOK, JwksTypeOK, Positions, NatsSteps
  <2>2. GoneInv' /\ PongInv'
    BY DEF GoneInv, PongInv, TypeOK
  <2> QED
    BY <2>1, <2>2
<1>2. CASE IsDraining(p)
  <2> USE <1>2 DEF IsDraining
  <2>1. TypeOK'
    BY DEF TypeOK, ConnTypeOK, JwksTypeOK, Positions, NatsSteps
  <2>2. GoneInv' /\ PongInv'
    BY DEF GoneInv, PongInv, TypeOK, Gone
  <2> QED
    BY <2>1, <2>2
<1>3. CASE Flush(p)
  <2> USE <1>3 DEF Flush
  <2>1. TypeOK'
    BY DEF TypeOK, ConnTypeOK, JwksTypeOK, Positions, NatsSteps
  <2>2. GoneInv'
    BY DEF GoneInv, TypeOK
  <2>3. PongInv'
    BY DEF PongInv, TypeOK
  <2> QED
    BY <2>1, <2>2, <2>3
<1>4. CASE Flushed(p) \/ FlushFails(p)
  <2> USE <1>4 DEF Flushed, FlushFails
  <2>1. TypeOK'
    BY DEF TypeOK, ConnTypeOK, JwksTypeOK, Positions, NatsSteps
  <2>2. GoneInv' /\ PongInv'
    BY DEF GoneInv, PongInv, TypeOK
  <2> QED
    BY <2>1, <2>2
<1> QED
  BY <1>1, <1>2, <1>3, <1>4

(* Every step of the cache and of its endpoint keeps their types.            *)
LEMMA JwksSteps ==
  ASSUME JwksTypeOK, JwksNext \/ UNCHANGED jwksVars
  PROVE  JwksTypeOK'
<1> USE DEF JwksTypeOK, jwksVars
<1>1. cache' \in {"none", "fresh", "stale"} /\ jwks' \in {"up", "refusing", "failing"}
  BY DEF JwksNext, EndpointChanges, CacheExpires, UseCache, InstallKeys, RefreshEnds
<1>2. refreshing' \in BOOLEAN /\ wasUp' \in BOOLEAN /\ keysSeen' \in BOOLEAN
  BY Zenon DEF JwksNext, EndpointChanges, CacheExpires, UseCache, InstallKeys, RefreshEnds
<1> QED
  BY <1>1, <1>2, Zenon

LEMMA AuthInv ==
  ASSUME IInv, NEW p \in Probes,
         \/ CheckWithCachedKeys(p) \/ FetchKeys(p)
         \/ FetchSucceeds(p) \/ FetchFails(p) \/ FetchCancelled(p)
  PROVE  IInv'
<1> USE DEF IInv, GoTo, connVars
<1>1. CASE FetchKeys(p)
  <2> USE <1>1 DEF FetchKeys
  <2>1. JwksTypeOK'
    BY JwksSteps DEF TypeOK
  <2>2. TypeOK'
    BY <2>1 DEF TypeOK, ConnTypeOK, JwksTypeOK, Positions, NatsSteps
  <2>3. GoneInv' /\ PongInv'
    BY DEF GoneInv, PongInv, TypeOK
  <2> QED
    BY <2>2, <2>3
<1>2. ASSUME NEW found \in SUBSET {"jwks"}, Finish(p, found), pc[p] \in {"auth", "fetch"},
             JwksNext \/ UNCHANGED jwksVars, left' \in [Probes -> BOOLEAN],
             UNCHANGED <<ping, startedGone, sawConnected, sawJwksUp, conn, attempts>>
      PROVE  IInv'
  <2> USE <1>2 DEF Finish, CodeOf
  <2>1. pc' \in [Probes -> Positions] /\ ConnTypeOK'
    BY DEF TypeOK, ConnTypeOK, Positions
  <2>2. issues' \in [Probes -> SUBSET {"nats", "jwks"}]
    <3>1. issues \in [Probes -> SUBSET {"nats", "jwks"}]
      BY DEF TypeOK
    <3>2. issues[p] \cup found \in SUBSET {"nats", "jwks"}
      BY <3>1
    <3>3. issues' = [issues EXCEPT ![p] = issues[p] \cup found]
      OBVIOUS
    <3> HIDE <1>2
    <3> QED
      BY <3>1, <3>2, <3>3
  <2>3. code' \in [Probes -> {0, 200, 503}]
    BY DEF TypeOK
  <2>4. GoneInv' /\ PongInv'
    BY DEF GoneInv, PongInv, TypeOK
  <2>5. JwksTypeOK'
    BY JwksSteps DEF TypeOK
  <2>6. TypeOK'
    BY <2>1, <2>2, <2>3, <2>5 DEF TypeOK
  <2> QED
    BY <2>4, <2>6
<1>3. CASE CheckWithCachedKeys(p)
  <2>1. /\ {} \in SUBSET {"jwks"} /\ JwksNext /\ Finish(p, {}) /\ pc[p] \in {"auth", "fetch"}
        /\ left' \in [Probes -> BOOLEAN]
        /\ UNCHANGED <<ping, startedGone, sawConnected, sawJwksUp, conn, attempts>>
    BY <1>3 DEF CheckWithCachedKeys, TypeOK, JwksNext
  <2> QED
    BY <1>2, <2>1
<1>4. CASE FetchSucceeds(p)
  <2>1. /\ {} \in SUBSET {"jwks"} /\ JwksNext /\ Finish(p, {}) /\ pc[p] \in {"auth", "fetch"}
        /\ left' \in [Probes -> BOOLEAN]
        /\ UNCHANGED <<ping, startedGone, sawConnected, sawJwksUp, conn, attempts>>
    BY <1>4 DEF FetchSucceeds, TypeOK, JwksNext
  <2> QED
    BY <1>2, <2>1
<1>5. CASE FetchFails(p)
  <2>1. (IF jwks = "refusing" THEN {"jwks"} ELSE {}) \in SUBSET {"jwks"}
    OBVIOUS
  <2> QED
    BY <1>2, <1>5, <2>1 DEF FetchFails, TypeOK
<1>6. CASE FetchCancelled(p)
  <2>1. {} \in SUBSET {"jwks"} /\ left' \in [Probes -> BOOLEAN]
    BY <1>6 DEF FetchCancelled, TypeOK
  <2> QED
    BY <1>2, <1>6, <2>1 DEF FetchCancelled
<1> QED
  BY <1>1, <1>3, <1>4, <1>5, <1>6

LEMMA EnvironmentInv ==
  ASSUME IInv, Environment \/ (\E p \in Probes : Pong(p))
  PROVE  IInv'
<1> USE DEF IInv, connVars, probeVars
<1>1. CASE Environment
  <2> USE <1>1 DEF Environment
  <2>1. JwksTypeOK'
    BY JwksSteps DEF TypeOK
  <2>2. sawJwksUp' \in [Probes -> BOOLEAN]
    <3>1. \A p \in Probes : (sawJwksUp[p] \/ jwks' = "up") \in BOOLEAN
      BY Zenon
    <3> QED
      BY <3>1, Zenon
  <2>3. TypeOK'
    BY <2>1, <2>2 DEF TypeOK, ConnTypeOK
  <2>4. GoneInv' /\ PongInv'
    BY DEF GoneInv, PongInv
  <2> QED
    BY <2>3, <2>4
<1>2. ASSUME NEW p \in Probes, Pong(p) PROVE IInv'
  <2> USE <1>2 DEF Pong
  <2>1. JwksTypeOK'
    BY JwksSteps DEF TypeOK
  <2>2. TypeOK'
    BY <2>1 DEF TypeOK, ConnTypeOK
  <2>3. GoneInv' /\ PongInv'
    BY DEF GoneInv, PongInv, TypeOK
  <2> QED
    BY <2>2, <2>3
<1> QED
  BY <1>1, <1>2

LEMMA ConnectionInv ==
  ASSUME IInv, Connection
  PROVE  IInv'
<1> USE DEF IInv
<1>1. /\ ConnTypeOK' /\ StatusChanged
      /\ conn \in Gone => conn' \in Gone
      /\ conn = "CLOSED" => conn' = "CLOSED"
  BY ConnSteps DEF Connection, TypeOK
<1>2. TypeOK'
  <2>1. sawConnected' \in [Probes -> BOOLEAN]
    <3>1. \A p \in Probes : (sawConnected[p] \/ conn' = "CONNECTED") \in BOOLEAN
      BY Zenon
    <3> QED
      BY <1>1, <3>1, Zenon DEF StatusChanged
  <2> QED
    BY <1>1, <2>1 DEF StatusChanged, TypeOK, jwksVars, JwksTypeOK
<1>3. GoneInv' /\ PongInv'
  BY <1>1 DEF StatusChanged, GoneInv, PongInv, TypeOK
<1> QED
  BY <1>2, <1>3

LEMMA NextInv == IInv /\ [Next]_vars => IInv'
<1> SUFFICES ASSUME IInv, [Next]_vars PROVE IInv'
  OBVIOUS
<1>1. CASE UNCHANGED vars
  BY <1>1 DEF vars, probeVars, jwksVars, connVars, IInv, TypeOK, ConnTypeOK, JwksTypeOK, GoneInv, PongInv
<1>2. CASE Next
  BY <1>2, BeginInv, NatsInv, AuthInv, EnvironmentInv, ConnectionInv DEF Next, Probe
<1> QED
  BY <1>1, <1>2

THEOREM Invariance == Spec => []IInv
BY InitInv, NextInv, PTL DEF Spec

(* A probe answered 200 had its own PONG.                                    *)
THEOREM ReadyOnlyAfterPong == Spec => []ReadyMeansPong
<1>1. IInv => ReadyMeansPong
  BY DEF IInv, PongInv, ReadyMeansPong
<1> QED
  BY <1>1, Invariance, PTL

(* A probe that begins on a draining or closed connection is never answered  *)
(* 200.                                                                      *)
THEOREM NeverReadyOnceGone == Spec => []NotReadyOnceGone
<1>1. IInv => NotReadyOnceGone
  BY DEF IInv, PongInv, GoneInv, NotReadyOnceGone
<1> QED
  BY <1>1, Invariance, PTL

(* Type correctness.                                                         *)
THEOREM TypeCorrect == Spec => []TypeOK
<1>1. IInv => TypeOK
  BY DEF IInv
<1> QED
  BY <1>1, Invariance, PTL

(* Every step is one of the cache and its endpoint, or leaves them alone.    *)
LEMMA StepsOfJwks == [Next]_vars => JwksNext \/ UNCHANGED jwksVars
<1> USE DEF JwksNext
<1>1. ASSUME NEW p \in Probes, Begin(p) \/ Probe(p) \/ Pong(p)
      PROVE  JwksNext \/ UNCHANGED jwksVars
  BY <1>1 DEF Begin, Pong, Probe, IsConnected, IsClosed, IsDraining, Flush, Flushed, FlushFails,
     NatsCheck, CheckWithCachedKeys, FetchKeys, FetchSucceeds, FetchFails, FetchCancelled
<1>2. Connection => UNCHANGED jwksVars
  BY DEF Connection, StatusChanged
<1>3. Environment => JwksNext
  BY DEF Environment
<1> QED
  BY <1>1, <1>2, <1>3 DEF Next, vars

LEMMA SeenInvariance == Spec => []SeenInv
<1>1. Init => SeenInv
  BY DEF Init, JwksInit, SeenInv
<1>2. SeenInv /\ [Next]_vars => SeenInv'
  <2> SUFFICES ASSUME SeenInv, JwksNext \/ UNCHANGED jwksVars PROVE SeenInv'
    BY StepsOfJwks
  <2> QED
    BY Zenon DEF SeenInv, JwksNext, jwksVars, EndpointChanges, CacheExpires, UseCache,
       InstallKeys, RefreshEnds
<1> QED
  BY <1>1, <1>2, PTL DEF Spec

(* A probe whose prober is still there and whose endpoint did not fail in an *)
(* unrecognised way is answered 200 only if the keys were fetched once.      *)
THEOREM ReadyOnlyWithKeys == Spec => ReadyHasSeenKeys
<1>1. IInv /\ SeenInv /\ SeenInv' /\ [Next]_vars =>
        [\A p \in Probes : code'[p] = 200 /\ code[p] = 0 =>
           keysSeen' \/ jwks = "failing" \/ left'[p]]_vars
  <2> SUFFICES ASSUME IInv, SeenInv, SeenInv', Next, NEW p \in Probes,
                      code'[p] = 200, code[p] = 0
               PROVE  keysSeen' \/ jwks = "failing" \/ left'[p]
    BY Zenon
  <2>1. PICK q \in Probes : CheckWithCachedKeys(q) \/ FetchSucceeds(q) \/ FetchFails(q) \/ FetchCancelled(q)
    BY DEF Next, Probe, Begin, Pong, IsConnected, IsClosed, IsDraining, Flush, Flushed, FlushFails,
       NatsCheck, FetchKeys, Connection, StatusChanged, Environment, probeVars
  <2>2. p = q
    BY <2>1 DEF CheckWithCachedKeys, FetchSucceeds, FetchFails, FetchCancelled, Finish, IInv, TypeOK
  <2>3. CASE CheckWithCachedKeys(p)
    BY <2>3 DEF CheckWithCachedKeys, UseCache, SeenInv
  <2>4. CASE FetchSucceeds(p)
    BY <2>4 DEF FetchSucceeds, InstallKeys
  <2>5. CASE FetchFails(p)
    <3>1. issues'[p] = {} /\ jwks # "up"
      BY <2>5 DEF FetchFails, Finish, CodeOf, IInv, TypeOK
    <3>2. issues' = [issues EXCEPT ![p] = @ \cup IF jwks = "refusing" THEN {"jwks"} ELSE {}]
      BY <2>5 DEF FetchFails, Finish
    <3>3. jwks # "refusing"
      BY <3>1, <3>2 DEF IInv, TypeOK
    <3> QED
      BY <3>1, <3>3 DEF IInv, TypeOK, JwksTypeOK
  <2>6. CASE FetchCancelled(p)
    BY <2>6 DEF FetchCancelled, IInv, TypeOK
  <2> QED
    BY <2>1, <2>2, <2>3, <2>4, <2>5, <2>6
<1> QED
  BY <1>1, Invariance, SeenInvariance, PTL DEF Spec, ReadyHasSeenKeys

-----------------------------------------------------------------------------
(* The looks at the connection are as good as one.                           *)

(* Only the check itself and the flush can make a claim about the PING.      *)
LEMMA ProbeSaw ==
  ASSUME IInv, SawInv, NEW p \in Probes, Begin(p) \/ Probe(p) \/ Pong(p)
  PROVE  SawInv'
<1> USE DEF IInv, SawInv, GoTo, connVars
<1>1. CASE Begin(p)
  BY <1>1 DEF Begin, TypeOK
<1>2. CASE Pong(p)
  BY <1>2 DEF Pong, TypeOK, Draining
<1>3. CASE IsConnected(p) \/ IsClosed(p)
  BY <1>3 DEF IsConnected, IsClosed, NatsCheck, TypeOK
<1>4. CASE IsDraining(p)
  <2>1. conn \notin Draining /\ conn # "CONNECTED" => conn \in {"RECONNECTING", "CLOSED"}
    BY DEF TypeOK, ConnTypeOK, Status
  <2> QED
    BY <1>4, <2>1 DEF IsDraining, NatsCheck, TypeOK
<1>5. CASE Flush(p)
  BY <1>5 DEF Flush, NatsCheck, TypeOK
<1>6. CASE Flushed(p) \/ FlushFails(p)
  BY <1>6 DEF Flushed, FlushFails, NatsCheck, TypeOK
<1>7. CASE \/ CheckWithCachedKeys(p) \/ FetchKeys(p)
           \/ FetchSucceeds(p) \/ FetchFails(p) \/ FetchCancelled(p)
  <2>1. /\ pc[p] \in {"auth", "fetch"}
        /\ pc' = [pc EXCEPT ![p] = "done"] \/ pc' = [pc EXCEPT ![p] = "fetch"]
        /\ UNCHANGED <<ping, sawConnected, conn>>
    BY <1>7 DEF CheckWithCachedKeys, FetchKeys, FetchSucceeds, FetchFails, FetchCancelled, Finish
  <2> QED
    BY <2>1 DEF TypeOK
<1> QED
  BY <1>1, <1>2, <1>3, <1>4, <1>5, <1>6, <1>7 DEF Probe

(* A connection that is down comes back or is closed; it does not drain.     *)
LEMMA ConnectionSaw ==
  ASSUME IInv, SawInv, Connection
  PROVE  SawInv'
<1> USE DEF IInv, TypeOK
<1>1. /\ conn' = "CONNECTED" \/ (conn \in {"RECONNECTING", "CLOSED"} => conn' \in {"RECONNECTING", "CLOSED"})
      /\ StatusChanged
  BY DEF Connection, ConnTypeOK, Status, Draining,
         LoseServer, ReconnectFails, Reconnect, Close, DrainSubsDone, DrainPubsDone
<1>2. ASSUME NEW p \in Probes
      PROVE  /\ pc'[p] = pc[p]
             /\ ping'[p] = ping[p] \/ (ping[p] = "sent" /\ ping'[p] = "failed")
             /\ sawConnected'[p] = (sawConnected[p] \/ conn' = "CONNECTED")
  BY <1>1 DEF StatusChanged
<1> QED
  BY <1>1, <1>2 DEF SawInv

LEMMA SawInvariance == Spec => []SawInv
<1>1. Init => SawInv
  BY DEF Init, SawInv
<1>2. IInv /\ SawInv /\ [Next]_vars => SawInv'
  <2> SUFFICES ASSUME IInv, SawInv, [Next]_vars PROVE SawInv'
    OBVIOUS
  <2>1. CASE Environment \/ UNCHANGED vars
    BY <2>1 DEF Environment, vars, probeVars, connVars, SawInv
  <2> QED
    BY <2>1, ProbeSaw, ConnectionSaw DEF Next
<1> QED
  BY <1>1, <1>2, Invariance, PTL DEF Spec

(* A probe answered 200 ran while the connection was CONNECTED, for any      *)
(* number of probes and of reconnect attempts.                               *)
THEOREM ReadyWhenConnected == Spec => []ReadyWasConnected
<1>1. IInv /\ SawInv => ReadyWasConnected
  BY DEF IInv, PongInv, SawInv, ReadyWasConnected
<1> QED
  BY <1>1, Invariance, SawInvariance, PTL
=============================================================================
