----------------------------- MODULE HandlerView -----------------------------
(* The handlers of the business endpoints as the shutdown sees them, with    *)
(* the connection they use: nothing of payloads, tokens or messages is left. *)
(* Lifecycle uses these actions; RequestPath implements them.                *)
EXTENDS NatsConn

CONSTANT Requests

VARIABLE handler    \* position of the handler of each request

HandlerInit == handler = [r \in Requests |-> "none"]

Moves(r, from, to) ==
  /\ handler[r] = from
  /\ handler' = [handler EXCEPT ![r] = to]

(* net/http accepts a request and starts its goroutine.                      *)
Opens(r) == Moves(r, "none", "auth")

(* Answered without a message: rejected by the decoder or by JWTAuth,        *)
(* nothing to ask, or Request failed at once.                                *)
AnsweredAtOnce(r) == Moves(r, "auth", "answered")

(* Request published, which a connection that drains or is closed refuses.   *)
WaitsForNats(r) ==
  /\ conn \in Publishable \cup Buffering
  /\ Moves(r, "auth", "nats")

(* RequestMsg returns, once: a reply (one that is already in its channel is  *)
(* read in any status), the error of a closed connection, or the timeout.    *)
NatsReturns(r) == Moves(r, "nats", "answered")

ConnNext ==
  \/ LoseServer \/ ReconnectFails \/ Reconnect
  \/ Close \/ DrainSubsDone \/ DrainPubsDone

(* A handler moves, or the connection changes.                               *)
HandlerNext ==
  \/ /\ \E r \in Requests :
          Opens(r) \/ AnsweredAtOnce(r) \/ WaitsForNats(r) \/ NatsReturns(r)
     /\ UNCHANGED connVars
  \/ ConnNext /\ UNCHANGED handler

HandlerSpec == ConnInit /\ HandlerInit /\ [][HandlerNext]_<<handler, connVars>>
=============================================================================
