-------------------------- MODULE JwksCacheProofs ---------------------------
(* Proofs about JwksCache for any callers and any number of rotations.       *)
EXTENDS JwksCache, TLAPS

LEMMA InitInv == Init => IInv
<1> SUFFICES ASSUME Init PROVE IInv
  OBVIOUS
<1>1. wasUp \in BOOLEAN /\ expired \in BOOLEAN
  BY Zenon DEF Init
<1>2. /\ pc = [a \in Agents |-> "away"] /\ response = [a \in Agents |-> 0]
      /\ signedBy = [c \in Callers |-> 0] /\ seen = [c \in Callers |-> 0]
      /\ outcome = [c \in Callers |-> "none"]
      /\ lock = NoOwner /\ cached = 0 /\ newest = 0 /\ generation = 1
      /\ endpoint \in Endpoint /\ ~expired
  BY Zenon DEF Init
<1>3. left \in [Callers -> BOOLEAN]
  BY DEF Init
<1>4. 0 \in Generations /\ 1 \in Generations \ {0}
  BY AgentsAssumption DEF Generations
<1>5. TypeOK
  BY <1>1, <1>2, <1>3, <1>4 DEF TypeOK, Agents
<1>6. LockInv
  BY <1>2, AgentsAssumption DEF LockInv, Agents
<1>7. NewestInv
  <2>1. endpoint = "up" => wasUp
    BY Zenon DEF Init
  <2> QED
    BY <1>2, <2>1 DEF NewestInv, Agents
<1>8. WithdrawnStaysWithdrawn
  BY <1>2 DEF WithdrawnStaysWithdrawn, Callers
<1> QED
  BY <1>5, <1>6, <1>7, <1>8 DEF IInv

(* Steps of a validation that do not touch the lock or the cache.            *)
LEMMA BeginInv ==
  ASSUME IInv, NEW c \in Callers, Begin(c)
  PROVE  IInv'
<1> USE AgentsAssumption DEF IInv, Begin, GoTo, cacheVars, endpointVars
<1>1. c \in Agents /\ c # Refresher
  BY DEF Agents
<1>2. signedBy' \in [Callers -> Generations]
  <2>1. 1 .. generation \subseteq Generations /\ {0} \subseteq Generations
    BY DEF TypeOK, Generations
  <2>2. PICK g \in Generations : signedBy' = [signedBy EXCEPT ![c] = g]
    BY <2>1
  <2> QED
    BY <2>2 DEF TypeOK
<1>3. TypeOK'
  BY <1>1, <1>2 DEF TypeOK
<1>4. LockInv'
  BY <1>1 DEF LockInv, TypeOK
<1>5. NewestInv'
  BY <1>1 DEF NewestInv, TypeOK, Generations
<1>6. WithdrawnStaysWithdrawn'
  <2> SUFFICES ASSUME NEW r \in Requests, outcome'[r] = "accepted"
               PROVE  signedBy'[r] >= seen'[r]
    BY DEF WithdrawnStaysWithdrawn
  <2>1. r # c /\ r \in Callers
    BY DEF TypeOK, Callers
  <2>2. signedBy'[r] = signedBy[r]
    BY <2>1 DEF TypeOK
  <2> QED
    BY <2>1, <2>2 DEF TypeOK, WithdrawnStaysWithdrawn
<1> QED
  BY <1>3, <1>4, <1>5, <1>6

LEMMA LeaveInv ==
  ASSUME IInv, NEW c \in Callers, Leave(c)
  PROVE  IInv'
<1> USE DEF IInv, Leave, cacheVars, endpointVars
<1>1. TypeOK'
  BY DEF TypeOK
<1>2. LockInv' /\ NewestInv' /\ WithdrawnStaysWithdrawn'
  BY DEF LockInv, NewestInv, WithdrawnStaysWithdrawn
<1> QED
  BY <1>1, <1>2

(* A verdict reached with keys at least as new as any seen.                  *)
LEMMA VerdictInv ==
  ASSUME IInv, NEW c \in Callers, NEW keys \in Generations, Verdict(c, keys),
         newest <= keys, UNCHANGED <<signedBy, seen>>
  PROVE  /\ WithdrawnStaysWithdrawn'
         /\ outcome' \in [Callers -> {"none", "accepted", "rejected", "failed"}]
<1> USE DEF IInv, Verdict
<1>1. outcome' \in [Callers -> {"none", "accepted", "rejected", "failed"}]
  BY DEF TypeOK
<1>2. ASSUME NEW r \in Requests, outcome'[r] = "accepted"
      PROVE  signedBy'[r] >= seen'[r]
  <2>1. r \in Callers
    BY DEF Callers
  <2>2. CASE r = c
    <3>1. signedBy[c] = keys
      BY <1>2, <2>2 DEF TypeOK
    <3>2. seen[c] <= newest /\ seen[c] \in Nat /\ newest \in Nat /\ keys \in Nat
      BY DEF NewestInv, TypeOK, Generations
    <3> QED
      BY <2>2, <3>1, <3>2
  <2>3. CASE r # c
    BY <1>2, <2>1, <2>3 DEF TypeOK, WithdrawnStaysWithdrawn
  <2> QED
    BY <2>2, <2>3
<1> QED
  BY <1>1, <1>2 DEF WithdrawnStaysWithdrawn

LEMMA LookInv ==
  ASSUME IInv, NEW c \in Callers, UseCached(c) \/ MissCache(c)
  PROVE  IInv'
<1> USE AgentsAssumption DEF IInv, cacheVars, endpointVars
<1>1. c \in Agents /\ c # Refresher /\ Refresher \in Agents
  BY DEF Agents
<1>2. CASE UseCached(c)
  <2> USE <1>2 DEF UseCached
  <2>1. WithdrawnStaysWithdrawn' /\ outcome' \in [Callers -> {"none", "accepted", "rejected", "failed"}]
    <3>1. cached \in Generations /\ newest <= cached
      BY DEF NewestInv, TypeOK, Generations
    <3> QED
      BY <3>1, VerdictInv
  <2>2. PICK position \in {"queue", pc[Refresher]} :
          pc' = [pc EXCEPT ![c] = "away", ![Refresher] = position]
    <3>1. CASE expired /\ pc[Refresher] = "away"
      BY <1>1, <3>1 DEF TypeOK
    <3>2. CASE ~(expired /\ pc[Refresher] = "away")
      BY <1>1, <3>2 DEF TypeOK
    <3> QED
      BY <3>1, <3>2
  <2> HIDE <1>2
  <2> HIDE DEF UseCached
  <2>3. UNCHANGED <<signedBy, left, seen, lock, response, cached, expired, newest, generation, endpoint, wasUp>>
        /\ pc[c] = "look" /\ lock = NoOwner
    BY <1>2 DEF UseCached
  <2>4. TypeOK'
    <3>1. /\ pc' \in [Agents -> {"away", "look", "queue", "fetch", "failed"}]
          /\ \A b \in Callers : pc'[b] # "failed"
          /\ pc'[Refresher] # "look"
      BY <1>1, <2>2 DEF TypeOK, Agents
    <3> QED
      BY <2>1, <2>3, <3>1 DEF TypeOK
  <2>5. LockInv'
    BY <1>1, <2>2, <2>3 DEF LockInv, TypeOK
  <2>6. NewestInv'
    <3>1. newest # 0
      BY <1>2 DEF UseCached, NewestInv
    <3> QED
      BY <2>3, <3>1 DEF NewestInv
  <2> QED
    BY <2>1, <2>4, <2>5, <2>6
<1>3. CASE MissCache(c)
  <2> USE <1>3 DEF MissCache, GoTo, callerVars
  <2>1. TypeOK'
    BY <1>1 DEF TypeOK
  <2>2. LockInv' /\ NewestInv' /\ WithdrawnStaysWithdrawn'
    BY <1>1 DEF LockInv, NewestInv, WithdrawnStaysWithdrawn, TypeOK
  <2> QED
    BY <2>1, <2>2
<1> QED
  BY <1>2, <1>3

(* The fetch: under the lock from Acquire to its end.                        *)
LEMMA AcquireInv ==
  ASSUME IInv, NEW a \in Agents, Acquire(a)
  PROVE  IInv'
<1> USE AgentsAssumption DEF IInv, Acquire, GoTo, callerVars, cacheVars, endpointVars
<1>1. TypeOK'
  BY DEF TypeOK
<1>2. LockInv'
  BY DEF LockInv, TypeOK
<1>3. NewestInv' /\ WithdrawnStaysWithdrawn'
  BY DEF NewestInv, WithdrawnStaysWithdrawn
<1> QED
  BY <1>1, <1>2, <1>3

LEMMA RespondInv ==
  ASSUME IInv, NEW a \in Agents, Respond(a)
  PROVE  IInv' /\ wasUp
<1> USE DEF IInv, Respond, callerVars, cacheVars, endpointVars
<1>1. wasUp
  BY DEF NewestInv
<1>2. TypeOK'
  BY DEF TypeOK
<1>3. LockInv' /\ WithdrawnStaysWithdrawn'
  BY DEF LockInv, WithdrawnStaysWithdrawn, TypeOK
<1>4. NewestInv'
  BY <1>1 DEF NewestInv, TypeOK, Generations
<1> QED
  BY <1>1, <1>2, <1>3, <1>4

LEMMA InstallInv ==
  ASSUME IInv, NEW a \in Agents, Install(a)
  PROVE  IInv'
<1> USE AgentsAssumption DEF IInv, Install, GoTo, endpointVars
<1>1. /\ response[a] \in Generations /\ newest \in Generations
      /\ newest <= response[a] /\ response[a] <= generation
      /\ lock = a /\ wasUp
  BY DEF NewestInv, TypeOK, LockInv
<1>2. newest' = response[a]
  BY <1>1 DEF Generations
<1>3. WithdrawnStaysWithdrawn' /\ outcome' \in [Callers -> {"none", "accepted", "rejected", "failed"}]
  <2>1. CASE a \in Callers
    BY <1>1, <2>1, VerdictInv
  <2>2. CASE a \notin Callers
    BY <2>2 DEF WithdrawnStaysWithdrawn, TypeOK
  <2> QED
    BY <2>1, <2>2
<1>4. TypeOK'
  <2>1. /\ pc' = [pc EXCEPT ![a] = "away"] /\ response' = [response EXCEPT ![a] = 0]
        /\ lock' = NoOwner /\ cached' = response[a] /\ ~expired'
        /\ UNCHANGED <<signedBy, left, seen, generation, endpoint, wasUp>>
    OBVIOUS
  <2>2. expired' \in BOOLEAN
    BY Zenon
  <2>3. 0 \in Generations
    BY DEF Generations
  <2> HIDE DEF Install, IInv
  <2> QED
    BY <1>1, <1>2, <1>3, <2>1, <2>2, <2>3 DEF TypeOK, Agents, IInv
<1>5. LockInv'
  BY <1>1 DEF LockInv, TypeOK
<1>6. NewestInv'
  <2>1. \A b \in Agents : response'[b] = 0
    BY <1>1 DEF LockInv, TypeOK
  <2>2. \A c \in Callers : seen[c] <= newest /\ seen[c] \in Nat
    BY DEF NewestInv, TypeOK, Generations
  <2>3. \A c \in Callers : seen'[c] <= newest'
    BY <1>1, <1>2, <2>2 DEF Generations
  <2> QED
    BY <1>1, <1>2, <2>1, <2>3 DEF NewestInv
<1> QED
  BY <1>3, <1>4, <1>5, <1>6

LEMMA FetchFailsInv ==
  ASSUME IInv, NEW c \in Callers, FetchFails(c)
  PROVE  IInv'
<1> USE AgentsAssumption DEF IInv, FetchFails, GoTo, cacheVars, endpointVars
<1>1. c \in Agents /\ c # Refresher /\ lock = c
  BY DEF Agents, LockInv
<1>2. TypeOK'
  BY <1>1 DEF TypeOK
<1>3. LockInv'
  BY <1>1 DEF LockInv, TypeOK
<1>4. NewestInv'
  BY DEF NewestInv
<1>5. WithdrawnStaysWithdrawn'
  BY DEF WithdrawnStaysWithdrawn, TypeOK, Callers
<1> QED
  BY <1>2, <1>3, <1>4, <1>5

LEMMA RefreshInv ==
  ASSUME IInv, RefreshFails \/ DeleteKeys
  PROVE  IInv'
<1> USE AgentsAssumption DEF IInv, GoTo, callerVars, cacheVars, endpointVars
<1>1. Refresher \in Agents /\ Refresher \notin Callers
  BY DEF Agents
<1>2. CASE RefreshFails
  <2> USE <1>2 DEF RefreshFails
  <2>1. TypeOK'
    BY <1>1 DEF TypeOK, LockInv
  <2>2. LockInv'
    BY <1>1 DEF LockInv, TypeOK
  <2>3. NewestInv' /\ WithdrawnStaysWithdrawn'
    BY DEF NewestInv, WithdrawnStaysWithdrawn
  <2> QED
    BY <2>1, <2>2, <2>3
<1>3. CASE DeleteKeys
  <2> USE <1>3 DEF DeleteKeys
  <2>1. TypeOK'
    <3>1. expired' \in BOOLEAN
      BY Zenon
    <3>2. cached' \in Generations
      BY DEF Generations
    <3> QED
      BY <1>1, <3>1, <3>2 DEF TypeOK
  <2>2. LockInv'
    BY <1>1 DEF LockInv, TypeOK
  <2>3. NewestInv' /\ WithdrawnStaysWithdrawn'
    BY DEF NewestInv, WithdrawnStaysWithdrawn
  <2> QED
    BY <2>1, <2>2, <2>3
<1> QED
  BY <1>2, <1>3

LEMMA EnvironmentInv ==
  ASSUME IInv, Expire \/ Rotate \/ EndpointChanges
  PROVE  IInv'
<1> USE DEF IInv, callerVars, cacheVars, endpointVars
<1>1. CASE Expire
  BY <1>1 DEF Expire, TypeOK, LockInv, NewestInv, WithdrawnStaysWithdrawn
<1>2. CASE Rotate
  <2> USE <1>2 DEF Rotate
  <2>1. TypeOK'
    BY AgentsAssumption DEF TypeOK, Generations
  <2>2. LockInv' /\ WithdrawnStaysWithdrawn'
    BY DEF LockInv, WithdrawnStaysWithdrawn
  <2>3. NewestInv'
    BY DEF NewestInv, TypeOK, Generations
  <2> QED
    BY <2>1, <2>2, <2>3
<1>3. CASE EndpointChanges
  <2> USE <1>3 DEF EndpointChanges
  <2>1. wasUp' \in BOOLEAN /\ (wasUp => wasUp')
    BY Zenon
  <2>2. TypeOK'
    BY <2>1 DEF TypeOK
  <2>3. LockInv' /\ WithdrawnStaysWithdrawn'
    BY DEF LockInv, WithdrawnStaysWithdrawn
  <2>4. NewestInv'
    BY <2>1 DEF NewestInv
  <2> QED
    BY <2>2, <2>3, <2>4
<1> QED
  BY <1>1, <1>2, <1>3

LEMMA NextInv == IInv /\ [Next]_vars => IInv'
<1> SUFFICES ASSUME IInv, [Next]_vars PROVE IInv'
  OBVIOUS
<1>1. CASE UNCHANGED vars
  BY <1>1 DEF vars, callerVars, cacheVars, endpointVars, IInv, TypeOK, LockInv, NewestInv, WithdrawnStaysWithdrawn
<1>2. CASE Next
  BY <1>2, BeginInv, LeaveInv, LookInv, AcquireInv, RespondInv, InstallInv, FetchFailsInv,
     RefreshInv, EnvironmentInv DEF Next, Validate, Refresh, Agents
<1> QED
  BY <1>1, <1>2

LEMMA Invariance == Spec => []IInv
BY InitInv, NextInv, PTL DEF Spec

(* Type correctness.                                                         *)
THEOREM TypeCorrect == Spec => []TypeOK
<1>1. IInv => TypeOK
  BY DEF IInv
<1> QED
  BY <1>1, Invariance, PTL

(* A key set that was replaced in the cache never verifies a token of a      *)
(* validation that begins afterwards.                                        *)
THEOREM NoWithdrawnKey == Spec => []WithdrawnStaysWithdrawn
<1>1. IInv => WithdrawnStaysWithdrawn
  BY DEF IInv
<1> QED
  BY <1>1, Invariance, PTL

(* A step that leaves the view alone: it touches neither the cache nor the   *)
(* endpoint, and neither starts nor ends the refresh.                        *)
LEMMA Unseen ==
  ASSUME UNCHANGED <<cacheVars, endpoint, wasUp>>,
         pc'[Refresher] # "away" <=> pc[Refresher] # "away"
  PROVE  UNCHANGED View!jwksVars
<1>1. UNCHANGED <<cached, expired, newest, endpoint, wasUp>>
  BY DEF cacheVars
<1>2. (pc'[Refresher] # "away") = (pc[Refresher] # "away")
  BY Zenon
<1> QED
  BY <1>1, <1>2, Zenon DEF View!jwksVars

LEMMA UseCachedView ==
  ASSUME IInv, NEW c \in Callers, UseCached(c)
  PROVE  View!JwksNext
<1> USE DEF UseCached, cacheVars, endpointVars
<1>1. c # Refresher /\ Refresher \in Agents /\ c \in Agents
  BY AgentsAssumption DEF Agents
<1>2. pc'[Refresher] # "away" <=> pc[Refresher] # "away" \/ expired
  <2>1. CASE expired
    BY <1>1, <2>1 DEF IInv, TypeOK
  <2>2. CASE ~expired
    BY <1>1, <2>2 DEF IInv, TypeOK
  <2> QED
    BY <2>1, <2>2
<1>3. cached # 0 /\ UNCHANGED <<cached, expired, newest, endpoint, wasUp>>
  OBVIOUS
<1> HIDE DEF UseCached
<1>4. (IF cached = 0 THEN "none" ELSE IF expired THEN "stale" ELSE "fresh") = "stale" <=> expired
  BY <1>3
<1>5. (pc'[Refresher] # "away")
        = (pc[Refresher] # "away"
             \/ (IF cached = 0 THEN "none" ELSE IF expired THEN "stale" ELSE "fresh") = "stale")
  BY <1>2, <1>4, Zenon
<1>6. (IF cached = 0 THEN "none" ELSE IF expired THEN "stale" ELSE "fresh") # "none"
  BY <1>3
<1>7. View!UseCache
  BY <1>3, <1>5, <1>6, Zenon DEF View!UseCache
<1> QED
  BY <1>7 DEF View!JwksNext

LEMMA InstallView ==
  ASSUME IInv, NEW a \in Agents, Install(a)
  PROVE  View!JwksNext
<1> USE DEF Install, GoTo, endpointVars
<1>1. /\ response[a] # 0 /\ wasUp /\ ~expired'
      /\ cached' = response[a] /\ newest' = response[a]
      /\ UNCHANGED <<endpoint, wasUp>>
  BY DEF IInv, NewestInv, TypeOK, Generations
<1>2. pc[a] = "fetch" /\ pc' = [pc EXCEPT ![a] = "away"] /\ pc \in [Agents -> {"away", "look", "queue", "fetch", "failed"}]
  BY DEF IInv, TypeOK
<1>3. (IF cached' = 0 THEN "none" ELSE IF expired' THEN "stale" ELSE "fresh") = "fresh"
  BY <1>1
<1>4. CASE a \in Callers
  <2>1. pc'[Refresher] = pc[Refresher]
    BY <1>2, <1>4, AgentsAssumption DEF Agents
  <2>2. (newest' # 0) = TRUE
    BY <1>1
  <2>3. View!InstallKeys
    BY <1>1, <1>3, <2>1, <2>2, Zenon DEF View!InstallKeys
  <2> QED
    BY <2>3 DEF View!JwksNext
<1>5. CASE a = Refresher
  <2>1. pc[Refresher] # "away" /\ pc'[Refresher] = "away"
    BY <1>2, <1>5
  <2>2. newest # 0 /\ newest' # 0
    BY <1>1, <2>1 DEF IInv, NewestInv
  <2>3. (newest' # 0) = (newest # 0) /\ (pc'[Refresher] # "away") = FALSE
    BY <2>1, <2>2, Zenon
  <2>4. View!RefreshEnds
    BY <1>1, <1>3, <2>1, <2>3, Zenon DEF View!RefreshEnds
  <2> QED
    BY <2>4 DEF View!JwksNext
<1> QED
  BY <1>4, <1>5 DEF Agents

LEMMA DeleteKeysView ==
  ASSUME IInv, DeleteKeys
  PROVE  View!JwksNext
<1>1. /\ pc[Refresher] # "away" /\ pc'[Refresher] = "away" /\ cached' = 0
      /\ UNCHANGED <<newest, endpoint, wasUp>>
  BY DEF DeleteKeys, GoTo, endpointVars, IInv, TypeOK, Agents
<1>2. (IF cached' = 0 THEN "none" ELSE IF expired' THEN "stale" ELSE "fresh") = "none"
  BY <1>1
<1>3. (pc'[Refresher] # "away") = FALSE
  BY <1>1, Zenon
<1>4. View!RefreshEnds
  BY <1>1, <1>2, <1>3, Zenon DEF View!RefreshEnds
<1> QED
  BY <1>4 DEF View!JwksNext

LEMMA EnvironmentView ==
  ASSUME IInv, Expire \/ EndpointChanges
  PROVE  View!JwksNext
<1> USE DEF cacheVars, endpointVars
<1>1. CASE Expire
  <2>1. /\ cached # 0 /\ ~expired /\ expired' = TRUE
        /\ UNCHANGED <<cached, pc, newest, endpoint, wasUp>>
    BY <1>1, Zenon DEF Expire
  <2>2. /\ (IF cached = 0 THEN "none" ELSE IF expired THEN "stale" ELSE "fresh") = "fresh"
        /\ (IF cached' = 0 THEN "none" ELSE IF expired' THEN "stale" ELSE "fresh") = "stale"
    BY <2>1
  <2>3. View!CacheExpires
    BY <2>1, <2>2, Zenon DEF View!CacheExpires
  <2> QED
    BY <2>3 DEF View!JwksNext
<1>2. CASE EndpointChanges
  <2>1. /\ endpoint' \in Endpoint
        /\ UNCHANGED <<pc, cached, expired, newest>>
    BY <1>2 DEF EndpointChanges
  <2>2. (IF endpoint' = "silent" THEN "failing" ELSE endpoint') \in {"up", "refusing", "failing"}
    BY <2>1 DEF Endpoint
  <2>3. (IF endpoint' = "silent" THEN "failing" ELSE endpoint') = "up" <=> endpoint' = "up"
    OBVIOUS
  <2>4. wasUp' = (wasUp \/ (IF endpoint' = "silent" THEN "failing" ELSE endpoint') = "up")
    BY <1>2, <2>3, Zenon DEF EndpointChanges
  <2>5. View!EndpointChanges
    BY <2>1, <2>2, <2>4, Zenon DEF View!EndpointChanges
  <2> QED
    BY <2>5 DEF View!JwksNext
<1> QED
  BY <1>1, <1>2

(* The steps the view does not see.                                          *)
LEMMA UnseenSteps ==
  ASSUME IInv,
         \/ \E c \in Callers : Begin(c) \/ Leave(c) \/ MissCache(c) \/ FetchFails(c)
         \/ \E a \in Agents : Acquire(a) \/ Respond(a)
         \/ RefreshFails \/ Rotate
         \/ UNCHANGED vars
  PROVE  UNCHANGED View!jwksVars
<1> USE AgentsAssumption DEF GoTo, cacheVars, endpointVars, IInv, TypeOK, Agents
<1>1. ASSUME NEW c \in Callers, Begin(c) \/ Leave(c) \/ MissCache(c) \/ FetchFails(c)
      PROVE  UNCHANGED View!jwksVars
  BY <1>1, Unseen DEF Begin, Leave, MissCache, FetchFails
<1>2. ASSUME NEW a \in Agents, Acquire(a) \/ Respond(a)
      PROVE  UNCHANGED View!jwksVars
  BY <1>2, Unseen DEF Acquire, Respond
<1>3. CASE RefreshFails \/ Rotate \/ UNCHANGED vars
  BY <1>3, Unseen DEF RefreshFails, Rotate, vars
<1> QED
  BY <1>1, <1>2, <1>3

(* The cache implements the view Readiness has of it.                        *)
THEOREM CacheImplementsView == Spec => ImplementsView
<1>1. Init => View!JwksInit
  <2> SUFFICES ASSUME Init PROVE View!JwksInit
    OBVIOUS
  <2>1. /\ cached = 0 /\ newest = 0 /\ pc[Refresher] = "away" /\ endpoint \in Endpoint
    BY DEF Init, Agents
  <2>2. (IF cached = 0 THEN "none" ELSE IF expired THEN "stale" ELSE "fresh") = "none"
    BY <2>1
  <2>3. (IF endpoint = "silent" THEN "failing" ELSE endpoint) \in {"up", "refusing", "failing"}
    BY <2>1 DEF Endpoint
  <2>4. (IF endpoint = "silent" THEN "failing" ELSE endpoint) = "up" <=> endpoint = "up"
    OBVIOUS
  <2>5. wasUp = ((IF endpoint = "silent" THEN "failing" ELSE endpoint) = "up")
    BY <2>4, Zenon DEF Init
  <2>6. (pc[Refresher] # "away") = FALSE /\ (newest # 0) = FALSE
    BY <2>1, Zenon
  <2> QED
    BY <2>2, <2>3, <2>5, <2>6, Zenon DEF View!JwksInit
<1>2. IInv /\ [Next]_vars => [View!JwksNext]_View!jwksVars
  <2> SUFFICES ASSUME IInv, [Next]_vars PROVE View!JwksNext \/ UNCHANGED View!jwksVars
    BY Zenon
  <2> QED
    BY UnseenSteps, UseCachedView, InstallView, DeleteKeysView, EnvironmentView
       DEF Next, Validate, Refresh, Agents
<1> QED
  BY <1>1, <1>2, Invariance, PTL DEF Spec, ImplementsView, View!JwksSpec
=============================================================================
