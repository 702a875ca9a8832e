---------------------------- MODULE RequestPath -----------------------------
(* The path of POST /access-check and GET /my-grants through the service:    *)
(* Goa decodes the payload, JWTAuth validates the token, the handler makes   *)
(* one request over NATS to fga-sync and waits for the reply, a timeout or   *)
(* the end of the connection, and the answer is encoded.                     *)
(*                                                                           *)
(* Every HTTP request runs in a goroutine of its own (its program counter is *)
(* pc[r]); they share the NATS connection, which multiplexes their replies   *)
(* over one subscription.  fga-sync, the NATS server, the network, the HTTP  *)
(* clients and the shutdown sequence are the environment.                    *)
EXTENDS AccessData, NatsConn

VARIABLES
  pc,          \* where the goroutine of each HTTP request is
  payload,     \* the HTTP request's content
  claims,      \* the principal JWTAuth put into the context
  ctxDone,     \* r.Context() was cancelled: the client went away
  answer,      \* the HTTP answer
  registered,  \* tokens in nats.Conn's respMap: requests that await a reply
  mch,         \* the reply channel of each request
  buffer,      \* messages published while reconnecting
  wire,        \* messages on their way to fga-sync
  inbox,       \* replies on their way back
  evaluation   \* what fga-sync computed for each request

handlerVars == <<pc, payload, claims, ctxDone, answer>>
netVars == <<wire, inbox, evaluation>>
vars == <<handlerVars, registered, mch, buffer, netVars, connVars>>

NoPayload == [endpoint |-> "none"]
NoClaims == "no claims"

(* Contents of a reply channel other than an evaluation.                     *)
Empty        == [kind |-> "empty"]
Closed       == [kind |-> "closed"]          \* the connection was closed
NoResponders == [kind |-> "noResponders"]    \* the server's 503 status reply

Replies == [token : Requests, body : Evaluation \cup {NoResponders}]

TypeOK ==
  /\ ConnTypeOK
  /\ pc \in [Requests -> {"idle", "decode", "auth", "handler", "waiting", "answered"}]
  /\ payload \in [Requests -> Payloads \cup {NoPayload}]
  /\ claims \in [Requests -> Principals \cup {NoClaims}]
  /\ ctxDone \in [Requests -> BOOLEAN]
  /\ answer \in [Requests -> Answers \cup {NoAnswer}]
  /\ registered \subseteq Requests
  /\ mch \in [Requests -> Evaluation \cup {NoResponders, Closed, Empty}]
  /\ buffer \subseteq Messages
  /\ wire \subseteq Messages
  /\ inbox \subseteq Replies
  /\ evaluation \in [Requests -> Evaluation \cup {NotEvaluated}]

Init ==
  /\ ConnInit
  /\ pc = [r \in Requests |-> "idle"]
  /\ payload = [r \in Requests |-> NoPayload]
  /\ claims = [r \in Requests |-> NoClaims]
  /\ ctxDone = [r \in Requests |-> FALSE]
  /\ answer = [r \in Requests |-> NoAnswer]
  /\ registered = {}
  /\ mch = [r \in Requests |-> Empty]
  /\ buffer = {}
  /\ wire = {}
  /\ inbox = {}
  /\ evaluation = [r \in Requests |-> NotEvaluated]

-----------------------------------------------------------------------------
(* The HTTP side.                                                            *)

(* net/http accepts a request and starts its goroutine.                      *)
Arrive(r) ==
  /\ pc[r] = "idle"
  /\ \E p \in Payloads : payload' = [payload EXCEPT ![r] = p]
  /\ pc' = [pc EXCEPT ![r] = "decode"]
  /\ UNCHANGED <<claims, ctxDone, answer, registered, mch, buffer, netVars, connVars>>

(* The client closes its connection and net/http cancels the context.        *)
ClientGone(r) ==
  /\ pc[r] \notin {"idle", "answered"}
  /\ ctxDone' = [ctxDone EXCEPT ![r] = TRUE]
  /\ UNCHANGED <<pc, payload, claims, answer, registered, mch, buffer, netVars, connVars>>

Answer(r, a) ==
  /\ answer' = [answer EXCEPT ![r] = a]
  /\ pc' = [pc EXCEPT ![r] = "answered"]

WellFormed(p) ==
  IF p.endpoint = "check-access" THEN CheckWellFormed(p) ELSE GrantsWellFormed(p)

(* NewCheckAccessHandler, NewMyGrantsHandler: decode, or encode the error.   *)
Decode(r) ==
  /\ pc[r] = "decode"
  /\ IF WellFormed(payload[r])
     THEN pc' = [pc EXCEPT ![r] = "auth"] /\ UNCHANGED answer
     ELSE Answer(r, Fail(400))
  /\ UNCHANGED <<payload, claims, ctxDone, registered, mch, buffer, netVars, connVars>>

(* JWTAuth.  Validation needs the JWKS, so it can fail for any token.  Its    *)
(* 500, for claims of another type than HeimdallClaims, is out of reach of   *)
(* the validator NewAuthRepository builds.                                   *)
JWTAuth(r) ==
  /\ pc[r] = "auth"
  /\ \/ \E c \in ValidClaims(payload[r].bearer) :
          /\ claims' = [claims EXCEPT ![r] = c]
          /\ pc' = [pc EXCEPT ![r] = "handler"]
          /\ UNCHANGED answer
     \/ /\ Answer(r, Fail(401))
        /\ UNCHANGED claims
  /\ UNCHANGED <<payload, ctxDone, registered, mch, buffer, netVars, connVars>>

-----------------------------------------------------------------------------
(* The handlers and messagingRepository.Request.                             *)

(* Mutant: nobody looks at the status of the connection.                     *)
PublishInAnyStatus(m) ==
  /\ wire' = wire \cup {m}
  /\ registered' = registered \cup {m.token}
  /\ UNCHANGED <<buffer, inbox, evaluation>>

(* nats.Conn puts the token in its respMap and publishes.  A connection that *)
(* is reconnecting keeps the message in its buffer.                          *)
Publish(m) ==
  /\ \/ /\ conn \in Publishable
        /\ wire' = wire \cup {m}
        /\ UNCHANGED buffer
     \/ /\ conn \in Buffering
        /\ buffer' = buffer \cup {m}
        /\ UNCHANGED wire
  /\ registered' = registered \cup {m.token}
  /\ UNCHANGED <<inbox, evaluation>>

(* Request up to the wait: nothing is sent for a cancelled context; publish  *)
(* can be refused in any status (message too large, buffer full, draining,   *)
(* closed).  fail is the status of the handler's answer to an error.         *)
Request(r, m, fail) ==
  \/ /\ ~ctxDone[r]
     /\ Publish(m)
     /\ pc' = [pc EXCEPT ![r] = "waiting"]
     /\ UNCHANGED answer
  \/ /\ Answer(r, Fail(fail))
     /\ UNCHANGED <<registered, buffer, netVars>>

(* AccessService.CheckAccess and AccessCheckClient.CheckAccess.  The checks  *)
(* both handlers repeat (claims in the context, version, a principal) cannot *)
(* fail after Decode and JWTAuth.                                            *)
CheckAccess(r) ==
  /\ pc[r] = "handler"
  /\ payload[r].endpoint = "check-access"
  /\ LET queries == BuildMessage(claims[r], payload[r].requests)
         m == [token |-> r, subject |-> AccessCheckSubject, queries |-> queries]
     IN IF queries = {}
        THEN Answer(r, OK({})) /\ UNCHANGED <<registered, buffer, netVars>>
        ELSE Request(r, m, CheckAccessStatus("other"))
  /\ UNCHANGED <<payload, claims, ctxDone, mch, connVars>>

(* AccessService.MyGrants and AccessCheckClient.ReadTuples.                  *)
MyGrants(r) ==
  /\ pc[r] = "handler"
  /\ payload[r].endpoint = "my-grants"
  /\ Request(r, [token |-> r, subject |-> ReadTuplesSubject, user |-> claims[r],
                 objectType |-> payload[r].objectType],
             MyGrantsStatus("other"))
  /\ UNCHANGED <<payload, claims, ctxDone, mch, connVars>>

(* RequestMsg's error, or the reply interpreted by the endpoint's client.    *)
Outcome(endpoint, body) ==
  IF body \in {Closed, NoResponders} THEN
    Fail(IF endpoint = "check-access" THEN CheckAccessStatus("other")
                                      ELSE MyGrantsStatus("other"))
  ELSE IF endpoint = "check-access" THEN ParseResponse(body) ELSE ReadTuplesResult(body)

(* Something came through the reply channel.                                 *)
RequestReturns(r) ==
  /\ pc[r] = "waiting"
  /\ mch[r] # Empty
  /\ Answer(r, Outcome(payload[r].endpoint, mch[r]))
  /\ mch' = [mch EXCEPT ![r] = Empty]
  /\ UNCHANGED <<payload, claims, ctxDone, registered, buffer, netVars, connVars>>

(* Mutant: the token of a request that timed out stays in respMap.           *)
TimeoutKeepsToken(r) ==
  /\ pc[r] = "waiting"
  /\ Answer(r, Fail(503))
  /\ mch' = [mch EXCEPT ![r] = Empty]
  /\ UNCHANGED <<payload, claims, ctxDone, registered, buffer, netVars, connVars>>

(* Mutant: a timeout is retried for as long as it takes.                     *)
TimeoutRetries(r) ==
  /\ pc[r] = "waiting"
  /\ pc' = [pc EXCEPT ![r] = "handler"]
  /\ registered' = registered \ {r}
  /\ mch' = [mch EXCEPT ![r] = Empty]
  /\ UNCHANGED <<payload, claims, ctxDone, answer, buffer, netVars, connVars>>

(* The timer fired first, or the select chose it although a reply is there.  *)
RequestTimesOut(r) ==
  /\ pc[r] = "waiting"
  /\ Answer(r, Fail(503))
  /\ registered' = registered \ {r}
  /\ mch' = [mch EXCEPT ![r] = Empty]
  /\ UNCHANGED <<payload, claims, ctxDone, buffer, netVars, connVars>>

-----------------------------------------------------------------------------
(* fga-sync, the NATS server and the network.                                *)

Evaluations(m) ==
  IF m.subject = AccessCheckSubject THEN CheckEvaluations(m.queries)
                                    ELSE ReadEvaluations(m.user)

Reply(m, body) ==
  /\ wire' = wire \ {m}
  /\ inbox' = inbox \cup {[token |-> m.token, body |-> body]}

Serve(m) ==
  /\ \E e \in Evaluations(m) :
       /\ Reply(m, e)
       /\ evaluation' = [evaluation EXCEPT ![m.token] = e]
  /\ UNCHANGED <<handlerVars, registered, mch, buffer, connVars>>

NobodySubscribed(m) ==
  /\ Reply(m, NoResponders)
  /\ UNCHANGED <<handlerVars, registered, mch, buffer, evaluation, connVars>>

LoseMessage(m) ==
  /\ wire' = wire \ {m}
  /\ UNCHANGED <<handlerVars, registered, mch, buffer, inbox, evaluation, connVars>>

LoseReply(reply) ==
  /\ inbox' = inbox \ {reply}
  /\ UNCHANGED <<handlerVars, registered, mch, buffer, wire, evaluation, connVars>>

(* Mutant: a reply goes to whoever waits.                                    *)
DeliverToAnyone(reply) ==
  /\ conn \in Receiving
  /\ inbox' = inbox \ {reply}
  /\ \E r \in registered :
       /\ mch' = [mch EXCEPT ![r] = reply.body]
       /\ registered' = registered \ {r}
  /\ UNCHANGED <<handlerVars, buffer, wire, evaluation, connVars>>

(* The reply subscription hands a reply to the channel its token names, if   *)
(* somebody still waits for it.                                              *)
Deliver(reply) ==
  /\ conn \in Receiving
  /\ inbox' = inbox \ {reply}
  /\ IF reply.token \in registered
     THEN /\ mch' = [mch EXCEPT ![reply.token] = reply.body]
          /\ registered' = registered \ {reply.token}
     ELSE UNCHANGED <<mch, registered>>
  /\ UNCHANGED <<handlerVars, buffer, wire, evaluation, connVars>>

-----------------------------------------------------------------------------
(* The connection.  Closing it drops what was buffered and closes the        *)
(* channel of every request that still waits.                                *)

StatusChanged ==
  /\ IF conn' = "CLOSED"
     THEN /\ mch' = [r \in Requests |-> IF r \in registered THEN Closed ELSE mch[r]]
          /\ registered' = {}
          /\ buffer' = {}
     ELSE UNCHANGED <<registered, mch, buffer>>
  /\ UNCHANGED <<handlerVars, netVars>>

(* Mutant: what was buffered is sent and kept for the next reconnect.        *)
ReconnectedKeepsBuffer ==
  /\ Reconnect
  /\ wire' = wire \cup buffer
  /\ UNCHANGED <<handlerVars, buffer, registered, mch, inbox, evaluation>>

(* The buffered messages are written to the new connection.                  *)
Reconnected ==
  /\ Reconnect
  /\ wire' = wire \cup buffer
  /\ buffer' = {}
  /\ UNCHANGED <<handlerVars, registered, mch, inbox, evaluation>>

-----------------------------------------------------------------------------
Handler(r) ==
  \/ Decode(r)
  \/ JWTAuth(r)
  \/ CheckAccess(r)
  \/ MyGrants(r)
  \/ RequestReturns(r)
  \/ RequestTimesOut(r)

Client(r) == Arrive(r) \/ ClientGone(r)

Backend ==
  \/ \E m \in wire : Serve(m) \/ NobodySubscribed(m) \/ LoseMessage(m)
  \/ \E reply \in inbox : LoseReply(reply) \/ Deliver(reply)

Connection ==
  \/ LoseServer /\ StatusChanged
  \/ ReconnectFails /\ StatusChanged
  \/ Reconnected
  \/ Close /\ StatusChanged
  \/ DrainSubsDone /\ StatusChanged
  \/ DrainPubsDone /\ StatusChanged

Next ==
  \/ \E r \in Requests : Client(r) \/ Handler(r)
  \/ Backend
  \/ Connection

Spec == Init /\ [][Next]_vars

(* The goroutines run on and the request timer fires.  Nothing is assumed of *)
(* Decode (the server sets no deadline for reading a body), of JWTAuth (it   *)
(* can fetch the JWKS without a deadline), of fga-sync, NATS or the clients. *)
Fairness ==
  \A r \in Requests :
    WF_vars(CheckAccess(r) \/ MyGrants(r) \/ RequestReturns(r) \/ RequestTimesOut(r))

FairSpec == Spec /\ Fairness

-----------------------------------------------------------------------------
(* Properties.                                                               *)

(* Nobody waits in vain: a goroutine inside RequestMsg either has its token  *)
(* in respMap, where a reply or the closing of the connection reaches it, or *)
(* has something to read in its channel; and a goroutine that has left (a    *)
(* reply, a timeout, a closed connection) leaves neither behind.             *)
WaiterInv ==
  \A r \in Requests :
    /\ r \in registered => pc[r] = "waiting" /\ mch[r] = Empty
    /\ mch[r] # Empty => pc[r] = "waiting"
    /\ pc[r] = "waiting" => r \in registered \/ mch[r] # Empty

(* One HTTP request is one NATS request (contract, "Timeout Semantics": "The *)
(* service issues a single NATS request"): no retry after a timeout or a     *)
(* reconnect, so at any time a request has at most one message anywhere, and *)
(* none once it was evaluated or has a reply under way; a goroutine that has *)
(* not reached Request has none at all.                                      *)
SingleRequest ==
  /\ buffer \cap wire = {}
  /\ \A m1, m2 \in buffer \cup wire : m1.token = m2.token => m1 = m2
  /\ \A m \in buffer \cup wire :
       /\ pc[m.token] \in {"waiting", "answered"}
       /\ evaluation[m.token] = NotEvaluated
       /\ mch[m.token] \in {Empty, Closed}
       /\ \A reply \in inbox : reply.token # m.token
  /\ \A reply1, reply2 \in inbox : reply1.token = reply2.token => reply1 = reply2
  /\ \A reply \in inbox :
       /\ pc[reply.token] \in {"waiting", "answered"}
       /\ mch[reply.token] \in {Empty, Closed}

(* Whatever leaves the process for fga-sync is asked for the caller whose    *)
(* token was validated for this very HTTP request - also when the message    *)
(* sat in the reconnect buffer while other requests came and went.  A line   *)
(* the service completes names that caller and a resource of that request;   *)
(* any other line was written out in one of its resources.  So a request     *)
(* whose resources are one line each is asked in its caller's name only.     *)
OnBehalfOfCaller ==
  \A m \in buffer \cup wire :
    LET p == payload[m.token]
        caller == claims[m.token]
    IN /\ caller = PrincipalOf[p.bearer]
       /\ p.bearer \in GenuineTokens
       /\ IF m.subject = AccessCheckSubject
          THEN /\ p.endpoint = "check-access"
               /\ \A q \in m.queries : \E o \in p.requests \ {""} :
                    q = Completed(o, caller) \/ q \in Written[o]
               /\ (\A o \in p.requests \ {""} : OneLine(o)) =>
                    \A q \in m.queries : q.user = caller /\ q.object \in p.requests
          ELSE p.endpoint = "my-grants" /\ m.user = caller

(* The parts that make the invariants above inductive.  What the goroutine's *)
(* position says of its data ...                                             *)
PathInv ==
  \A r \in Requests :
    /\ payload[r] = NoPayload <=> pc[r] = "idle"
    /\ answer[r] = NoAnswer <=> pc[r] # "answered"
    /\ pc[r] \in {"auth", "handler", "waiting"} => WellFormed(payload[r])
    /\ pc[r] \in {"handler", "waiting"} => claims[r] \in ValidClaims(payload[r].bearer)

(* ... every message is the one its request must send ...                    *)
OwnMessage(m) ==
  LET p == payload[m.token]
  IN /\ WellFormed(p)
     /\ claims[m.token] \in ValidClaims(p.bearer)
     /\ \/ /\ m.subject = AccessCheckSubject
           /\ p.endpoint = "check-access"
           /\ m.queries = BuildMessage(claims[m.token], p.requests)
           /\ m.queries # {}
        \/ /\ m.subject = ReadTuplesSubject
           /\ p.endpoint = "my-grants"
           /\ m.user = claims[m.token]

MessageInv == \A m \in buffer \cup wire : OwnMessage(m)

(* ... an evaluation is one of the request's own message ...                 *)
OwnEvaluation(r) ==
  LET p == payload[r]
  IN /\ WellFormed(p)
     /\ claims[r] \in ValidClaims(p.bearer)
     /\ \/ /\ p.endpoint = "check-access"
           /\ BuildMessage(claims[r], p.requests) # {}
           /\ evaluation[r] \in CheckEvaluations(BuildMessage(claims[r], p.requests))
        \/ /\ p.endpoint = "my-grants"
           /\ evaluation[r] \in ReadEvaluations(claims[r])

EvaluationInv ==
  \A r \in Requests :
    evaluation[r] # NotEvaluated =>
      OwnEvaluation(r) /\ pc[r] \in {"waiting", "answered"}

(* ... and what comes back is the request's own evaluation: no reply reaches *)
(* a request it does not belong to.                                          *)
ReplyInv ==
  /\ \A reply \in inbox :
       \/ reply.body = NoResponders
       \/ reply.body = evaluation[reply.token] /\ reply.body # NotEvaluated
  /\ \A r \in Requests :
       \/ mch[r] \in {Empty, Closed, NoResponders}
       \/ mch[r] = evaluation[r] /\ mch[r] # NotEvaluated

ClosedInv == conn = "CLOSED" => registered = {} /\ buffer = {}

IInv ==
  /\ TypeOK
  /\ PathInv
  /\ WaiterInv
  /\ SingleRequest
  /\ MessageInv
  /\ EvaluationInv
  /\ ReplyInv
  /\ ClosedInv

(* Every behaviour of the path is one the contract of its requests allows.   *)
Contract == INSTANCE AccessContract
  WITH payload <- payload, evaluation <- evaluation, answer <- answer
ContractSpec == Contract!Spec

(* The handlers as Lifecycle has them: from the decoder to the publish they   *)
(* authenticate, then they wait for NATS once.                                *)
Place(q) ==
  CASE q = "idle"     -> "none"
    [] q = "waiting"  -> "nats"
    [] q = "answered" -> "answered"
    [] OTHER          -> "auth"

View == INSTANCE HandlerView WITH handler <- [r \in Requests |-> Place(pc[r])]

(* What the shutdown assumes of the handlers and of their connection holds of *)
(* the whole path: a message only leaves on a connection that takes it, a     *)
(* handler waits for NATS at most once, and an answered request is over.      *)
ImplementsHandlers == View!HandlerSpec

(* What an answer says about the evaluation, on top of IInv: a refused       *)
(* request has nothing on its way to fga-sync and never will.                *)
AnswerFollows(r) ==
  LET p == payload[r]
  IN \/ answer[r] \in {NoAnswer, Fail(503)}
     \/ /\ answer[r] \in {Fail(400), Fail(401)}
        /\ evaluation[r] = NotEvaluated
        /\ \A m \in buffer \cup wire : m.token # r
     \/ /\ answer[r] = OK({})
        /\ p.endpoint = "check-access" /\ p.requests = {""} /\ p.bearer \in GenuineTokens
     \/ /\ evaluation[r] # NotEvaluated
        /\ answer[r] = Contract!Answered(evaluation[r])

AnswerInv == \A r \in Requests : AnswerFollows(r)

(* A connection that is closed (reconnect attempts exhausted, or drained)    *)
(* stays closed, nothing is sent and nobody waits any more: from then on the *)
(* pod can only fail, with its liveness probe still green.                   *)
ClosedIsFinal ==
  [][conn = "CLOSED" =>
       /\ conn' = "CLOSED"
       /\ buffer' \cup wire' \subseteq wire
       /\ registered' = {}]_vars

(* An authenticated request is answered, whatever becomes of the connection, *)
(* of fga-sync and of the messages: the timer, the reply or the closing of   *)
(* the connection ends every wait.                                           *)
AuthenticatedIsAnswered ==
  \A r \in Requests : pc[r] = "handler" ~> pc[r] = "answered"

(* fga-sync left out a line of the message it was sent.                      *)
Short(r) ==
  /\ evaluation[r].kind = "lines"
  /\ \E q \in BuildMessage(claims[r], payload[r].requests) :
       \A d \in evaluation[r].lines : d.object # q.object \/ d.user # q.user

(* A list of decisions fits its request, however often the connection went   *)
(* and came and others were answered meanwhile: every decision is about a    *)
(* line this request asked, no line has two, and only blank resources have   *)
(* none - unless fga-sync decided less than it was asked, which the client   *)
(* does not notice.                                                          *)
DecisionsFit ==
  \A r \in Requests :
    LET p == payload[r]
        decisions == answer[r].results
    IN answer[r].status = 200 /\ p.endpoint = "check-access" /\ evaluation[r].kind # "text" =>
         /\ \A d \in decisions : [object |-> d.object, user |-> d.user] \in Contract!Asked(p)
         /\ \A d1, d2 \in decisions :
              d1.object = d2.object /\ d1.user = d2.user => d1 = d2
         /\ ~Short(r) =>
              \A o \in p.requests \ {""} : \E d \in decisions :
                d.object = LastLine[o] /\ d.user = PrincipalOf[p.bearer]

(* The contract document (access-check-contract.md, "Error Mapping"), row    *)
(* 500: "malformed access-check reply".  A reply that is an error text is    *)
(* not a list of decisions.                                                  *)
MalformedReplyIs500 ==
  \A r \in Requests :
    evaluation[r].kind = "text" => answer[r].status # 200
=============================================================================
