------------------------------ MODULE JwksCache ------------------------------
(* The cache of the JWKS that NewAuthRepository builds, and the validations  *)
(* of tokens that use it: authRepository.ValidateToken for HTTP requests and *)
(* authRepository.HealthCheck for readiness probes.                          *)
(*                                                                           *)
(* The cache is jwks.CachingProvider of go-jwt-middleware, modelled from the *)
(* options given to it (a TTL, an http.Client without a timeout, the         *)
(* caller's context): a read lock around the look at the cache, a write lock *)
(* held through a fetch, no second look once the write lock is taken, and    *)
(* one refresh of expired keys in the background, which deletes them when it *)
(* fails.  Key sets are numbered by the rotations that made them.            *)
EXTENDS Naturals

CONSTANTS
  Requests,        \* validations on behalf of HTTP requests
  Probers,         \* validations of the health check's test token
  MaxGenerations   \* bound on the rotations of the keys

Callers == Requests \cup Probers

CONSTANT Refresher   \* the goroutine of the background refresh
CONSTANT NoOwner     \* nobody holds the write lock

Agents == Callers \cup {Refresher}

ASSUME AgentsAssumption ==
  /\ Refresher \notin Callers
  /\ NoOwner \notin Agents
  /\ MaxGenerations \in Nat \ {0}

VARIABLES
  pc,          \* position of each validation, and of the refresh
  signedBy,    \* the key set the token was signed with, 0 for the test token
  left,        \* the caller's context is cancelled
  outcome,     \* what became of each caller's last validation
  lock,        \* who holds the write lock
  response,    \* the key set in an agent's HTTP response, 0 before
  cached,      \* the key set in the cache, 0 for none
  expired,     \* its TTL is over
  generation,  \* the key set the endpoint serves
  endpoint,    \* the endpoint answers, refuses, fails otherwise or is silent
  wasUp,       \* it answered at some time
  newest,      \* the newest key set that ever was in the cache
  seen         \* newest, when the caller's validation began

callerVars == <<signedBy, left, outcome, seen>>
cacheVars == <<cached, expired, newest>>
endpointVars == <<generation, endpoint, wasUp>>
vars == <<pc, callerVars, lock, response, cacheVars, endpointVars>>

Generations == 0 .. MaxGenerations
Validating == {"look", "queue", "fetch"}
Endpoint == {"up", "refusing", "failing", "silent"}

TypeOK ==
  /\ pc \in [Agents -> {"away", "look", "queue", "fetch", "failed"}]
  /\ \A c \in Callers : pc[c] # "failed"
  /\ pc[Refresher] # "look"
  /\ signedBy \in [Callers -> Generations]
  /\ left \in [Callers -> BOOLEAN]
  /\ outcome \in [Callers -> {"none", "accepted", "rejected", "failed"}]
  /\ lock \in {NoOwner} \cup {a \in Agents : pc[a] = "fetch"}
  /\ response \in [Agents -> Generations]
  /\ cached \in Generations /\ newest \in Generations /\ seen \in [Callers -> Generations]
  /\ expired \in BOOLEAN /\ wasUp \in BOOLEAN
  /\ generation \in Generations \ {0}
  /\ endpoint \in Endpoint

Init ==
  /\ pc = [a \in Agents |-> "away"]
  /\ signedBy = [c \in Callers |-> 0]
  /\ left = [c \in Callers |-> FALSE]
  /\ outcome = [c \in Callers |-> "none"]
  /\ lock = NoOwner
  /\ response = [a \in Agents |-> 0]
  /\ cached = 0 /\ expired = FALSE /\ newest = 0
  /\ seen = [c \in Callers |-> 0]
  /\ generation = 1
  /\ endpoint \in Endpoint
  /\ wasUp = (endpoint = "up")

-----------------------------------------------------------------------------
(* A validation.                                                             *)

GoTo(a, position) == pc' = [pc EXCEPT ![a] = position]

(* A request brings a token, which may be signed with a withdrawn key.       *)
Begin(c) ==
  /\ pc[c] = "away"
  /\ GoTo(c, "look")
  /\ \E g \in IF c \in Probers THEN {0} ELSE 1 .. generation :
       signedBy' = [signedBy EXCEPT ![c] = g]
  /\ left' = [left EXCEPT ![c] = FALSE]
  /\ outcome' = [outcome EXCEPT ![c] = "none"]
  /\ seen' = [seen EXCEPT ![c] = newest]
  /\ UNCHANGED <<lock, response, cacheVars, endpointVars>>

(* The HTTP client closes its connection, or the kubelet gives up its probe. *)
Leave(c) ==
  /\ pc[c] \in Validating /\ ~left[c]
  /\ left' = [left EXCEPT ![c] = TRUE]
  /\ UNCHANGED <<pc, signedBy, outcome, seen, lock, response, cacheVars, endpointVars>>

(* The token is verified with a key set.  No key set verifies the test token.*)
Verdict(c, keys) ==
  outcome' = [outcome EXCEPT ![c] = IF signedBy[c] = keys THEN "accepted" ELSE "rejected"]

(* Mutant: expired keys are used without refreshing them.                    *)
UseCachedForever(c) ==
  /\ pc[c] = "look" /\ lock = NoOwner /\ cached # 0
  /\ Verdict(c, cached)
  /\ GoTo(c, "away")
  /\ UNCHANGED <<signedBy, left, seen, lock, response, cacheVars, endpointVars>>

(* The cached keys are used, expired or not; the first to see them expired   *)
(* starts the refresh.                                                       *)
UseCached(c) ==
  /\ pc[c] = "look" /\ lock = NoOwner /\ cached # 0
  /\ Verdict(c, cached)
  /\ pc' = [pc EXCEPT ![c] = "away",
                      ![Refresher] = IF expired /\ @ = "away" THEN "queue" ELSE @]
  /\ UNCHANGED <<signedBy, left, seen, lock, response, cacheVars, endpointVars>>

MissCache(c) ==
  /\ pc[c] = "look" /\ lock = NoOwner /\ cached = 0
  /\ GoTo(c, "queue")
  /\ UNCHANGED <<callerVars, lock, response, cacheVars, endpointVars>>

(* Mutant: the fetch runs outside the write lock.                            *)
AcquireShared(a) ==
  /\ pc[a] = "queue"
  /\ GoTo(a, "fetch")
  /\ UNCHANGED <<lock, callerVars, response, cacheVars, endpointVars>>

(* The write lock, for as long as the fetch takes.                           *)
Acquire(a) ==
  /\ pc[a] = "queue" /\ lock = NoOwner
  /\ lock' = a
  /\ GoTo(a, "fetch")
  /\ UNCHANGED <<callerVars, response, cacheVars, endpointVars>>

(* The endpoint's answer.                                                    *)
Respond(a) ==
  /\ pc[a] = "fetch" /\ response[a] = 0 /\ endpoint = "up"
  /\ response' = [response EXCEPT ![a] = generation]
  /\ UNCHANGED <<pc, callerVars, lock, cacheVars, endpointVars>>

(* Mutant: the expiry of the old keys stays.                                 *)
InstallKeepsExpiry(a) ==
  /\ pc[a] = "fetch" /\ response[a] # 0
  /\ cached' = response[a] /\ UNCHANGED expired
  /\ newest' = IF response[a] > newest THEN response[a] ELSE newest
  /\ response' = [response EXCEPT ![a] = 0]
  /\ lock' = NoOwner
  /\ GoTo(a, "away")
  /\ IF a \in Callers THEN Verdict(a, response[a]) ELSE UNCHANGED outcome
  /\ UNCHANGED <<signedBy, left, seen, endpointVars>>

(* The keys of the answer replace those in the cache.                        *)
Install(a) ==
  /\ pc[a] = "fetch" /\ response[a] # 0
  /\ cached' = response[a] /\ expired' = FALSE
  /\ newest' = IF response[a] > newest THEN response[a] ELSE newest
  /\ response' = [response EXCEPT ![a] = 0]
  /\ lock' = NoOwner
  /\ GoTo(a, "away")
  /\ IF a \in Callers THEN Verdict(a, response[a]) ELSE UNCHANGED outcome
  /\ UNCHANGED <<signedBy, left, seen, endpointVars>>

(* Mutant: the fetch does not get the caller's context.                      *)
FetchFailsUncancelled(c) ==
  /\ pc[c] = "fetch" /\ response[c] = 0
  /\ endpoint \in {"refusing", "failing"}
  /\ outcome' = [outcome EXCEPT ![c] = "failed"]
  /\ lock' = NoOwner
  /\ GoTo(c, "away")
  /\ UNCHANGED <<signedBy, left, seen, response, cacheVars, endpointVars>>

(* Mutant: the error path returns with the lock held.                        *)
FetchFailsLocked(c) ==
  /\ pc[c] = "fetch" /\ response[c] = 0
  /\ endpoint \in {"refusing", "failing"} \/ left[c]
  /\ outcome' = [outcome EXCEPT ![c] = "failed"]
  /\ GoTo(c, "away")
  /\ UNCHANGED <<signedBy, left, seen, lock, response, cacheVars, endpointVars>>

(* The fetch fails: the endpoint, or the context it was given.               *)
FetchFails(c) ==
  /\ pc[c] = "fetch" /\ response[c] = 0
  /\ endpoint \in {"refusing", "failing"} \/ left[c]
  /\ outcome' = [outcome EXCEPT ![c] = "failed"]
  /\ lock' = NoOwner
  /\ GoTo(c, "away")
  /\ UNCHANGED <<signedBy, left, seen, response, cacheVars, endpointVars>>

-----------------------------------------------------------------------------
(* The refresh: it has five seconds, and possibly less.                      *)

RefreshFails ==
  /\ pc[Refresher] = "fetch" /\ response[Refresher] = 0
  /\ lock' = NoOwner
  /\ GoTo(Refresher, "failed")
  /\ UNCHANGED <<callerVars, response, cacheVars, endpointVars>>

(* In a critical section of its own: other keys can have come in between.    *)
DeleteKeys ==
  /\ pc[Refresher] = "failed" /\ lock = NoOwner
  /\ cached' = 0 /\ expired' = FALSE
  /\ GoTo(Refresher, "away")
  /\ UNCHANGED <<newest, callerVars, lock, response, endpointVars>>

-----------------------------------------------------------------------------
(* Time and the endpoint.                                                    *)

Expire ==
  /\ cached # 0 /\ ~expired
  /\ expired' = TRUE
  /\ UNCHANGED <<pc, callerVars, lock, response, cached, newest, endpointVars>>

Rotate ==
  /\ generation < MaxGenerations
  /\ generation' = generation + 1
  /\ UNCHANGED <<pc, callerVars, lock, response, cacheVars, endpoint, wasUp>>

EndpointChanges ==
  /\ endpoint' \in Endpoint
  /\ wasUp' = (wasUp \/ endpoint' = "up")
  /\ UNCHANGED <<pc, callerVars, lock, response, cacheVars, generation>>

-----------------------------------------------------------------------------
(* What a caller's goroutine does of its own.                                *)
Validate(c) ==
  \/ UseCached(c) \/ MissCache(c)
  \/ Acquire(c) \/ Install(c) \/ FetchFails(c)

Refresh == Acquire(Refresher) \/ Install(Refresher) \/ RefreshFails \/ DeleteKeys

Next ==
  \/ \E c \in Callers : Begin(c) \/ Leave(c) \/ Validate(c)
  \/ Refresh
  \/ \E a \in Agents : Respond(a)
  \/ Expire \/ Rotate \/ EndpointChanges

Spec == Init /\ [][Next]_vars

(* A goroutine that can run does run, and the lock is given to everyone who  *)
(* waits for it; a cancelled fetch and a refresh out of time end, and time   *)
(* passes.  An endpoint that is up answers in time for one of the fetches,   *)
(* if there are ever more of them.  Callers do not wait for ever, as the     *)
(* contract document asks of them, and the kubelet keeps probing.            *)
Fairness ==
  /\ \A c \in Callers : SF_vars(Validate(c)) /\ WF_vars(Leave(c))
  /\ SF_vars(Refresh)
  /\ \A a \in Agents : SF_vars(Respond(a))
  /\ WF_vars(Expire)
  /\ \A p \in Probers : WF_vars(Begin(p))

FairSpec == Spec /\ Fairness

-----------------------------------------------------------------------------
(* Properties.                                                               *)

(* Once any validation has had a key set in hand, no validation that begins  *)
(* later accepts a token of an older one: concurrent fetches, failed         *)
(* refreshes and late answers never bring a withdrawn key back.              *)
WithdrawnStaysWithdrawn ==
  \A c \in Requests : outcome[c] = "accepted" => signedBy[c] >= seen[c]

(* Every validation ends, also behind others that hang on a silent endpoint: *)
(* it ends because everyone in front of it gives up.                         *)
ValidationEnds ==
  \A c \in Callers : pc[c] \in Validating ~> pc[c] = "away"

(* A rotation takes hold: once the endpoint stays up and its keys stay what  *)
(* they are, the cache ends up with these keys, or with none, for good.      *)
RotationTakesHold ==
  <>[](endpoint = "up") => <>[](cached \in {0, generation})

(* What Readiness assumes of the cache is what it does.                      *)
View == INSTANCE JwksView WITH
  cache <- IF cached = 0 THEN "none" ELSE IF expired THEN "stale" ELSE "fresh",
  refreshing <- pc[Refresher] # "away",
  jwks <- IF endpoint = "silent" THEN "failing" ELSE endpoint,
  keysSeen <- newest # 0
ImplementsView == View!JwksSpec

-----------------------------------------------------------------------------
(* What makes WithdrawnStaysWithdrawn inductive: one fetch at a time, whose  *)
(* answer is at least as new as anything that ever was in the cache.         *)
LockInv ==
  /\ \A a \in Agents : pc[a] = "fetch" => lock = a
  /\ \A a \in Agents : response[a] # 0 => pc[a] = "fetch"

NewestInv ==
  /\ newest <= generation
  /\ cached # 0 => cached = newest
  /\ \A a \in Agents : response[a] # 0 => newest <= response[a] /\ response[a] <= generation
  /\ \A c \in Callers : seen[c] <= newest
  /\ expired => cached # 0
  /\ pc[Refresher] # "away" => newest # 0
  /\ newest # 0 \/ endpoint = "up" => wasUp
  /\ \A a \in Agents : response[a] # 0 => wasUp

IInv == TypeOK /\ LockInv /\ NewestInv /\ WithdrawnStaysWithdrawn
=============================================================================
