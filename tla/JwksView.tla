------------------------------ MODULE JwksView -------------------------------
(* The JWKS cache of the auth repository as the rest of the service sees it: *)
(* whether it holds keys, whether they are expired, whether a refresh in the *)
(* background is under way, and the state of the endpoint it fetches from.   *)
(* Readiness uses these actions; JwksCache implements them.                  *)

VARIABLES
  cache,       \* keys in the JWKS cache
  refreshing,  \* the cache's background refresh is under way
  jwks,        \* the JWKS endpoint: up, refusing connections, or failing otherwise
               \* (no route to host, a reset connection, a bad certificate)
  wasUp,       \* the endpoint was up at some time since the process began
  keysSeen     \* the keys were fetched at least once since the process began

jwksVars == <<cache, refreshing, jwks, wasUp, keysSeen>>

JwksTypeOK ==
  /\ cache \in {"none", "fresh", "stale"}
  /\ refreshing \in BOOLEAN
  /\ jwks \in {"up", "refusing", "failing"}
  /\ wasUp \in BOOLEAN
  /\ keysSeen \in BOOLEAN

JwksInit ==
  /\ cache = "none"
  /\ refreshing = FALSE
  /\ jwks \in {"up", "refusing", "failing"}
  /\ wasUp = (jwks = "up")
  /\ keysSeen = FALSE

EndpointChanges ==
  /\ jwks' \in {"up", "refusing", "failing"}
  /\ wasUp' = (wasUp \/ jwks' = "up")
  /\ UNCHANGED <<cache, refreshing, keysSeen>>

CacheExpires ==
  /\ cache = "fresh"
  /\ cache' = "stale"
  /\ UNCHANGED <<refreshing, jwks, wasUp, keysSeen>>

(* A validation uses the cached keys, expired ones too, which starts a       *)
(* refresh unless one is under way.                                          *)
UseCache ==
  /\ cache # "none"
  /\ refreshing' = (refreshing \/ cache = "stale")
  /\ UNCHANGED <<cache, jwks, wasUp, keysSeen>>

(* A validation that found no keys installs those it fetched, also over keys *)
(* that others installed while it waited.                                    *)
InstallKeys ==
  /\ wasUp
  /\ cache' = "fresh"
  /\ keysSeen' = TRUE
  /\ UNCHANGED <<refreshing, jwks, wasUp>>

(* The refresh installs keys, or fails and deletes those there are.          *)
RefreshEnds ==
  /\ refreshing
  /\ refreshing' = FALSE
  /\ \/ wasUp /\ cache' = "fresh"
     \/ cache' = "none"
  /\ UNCHANGED <<jwks, wasUp, keysSeen>>

JwksNext ==
  \/ EndpointChanges
  \/ CacheExpires
  \/ UseCache
  \/ InstallKeys
  \/ RefreshEnds

JwksSpec == JwksInit /\ [][JwksNext]_jwksVars
=============================================================================
