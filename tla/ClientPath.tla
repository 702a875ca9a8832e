----------------------------- MODULE ClientPath -----------------------------
(* The generated client and command line, end to end: a call builds a        *)
(* payload, sends it as one of the service's HTTP requests and turns what    *)
(* comes back into a result or an error.  The service behind it is           *)
(* RequestPath with all it can go through; requests no call sent come from   *)
(* other HTTP clients.                                                       *)
(*                                                                           *)
(* A command (gen/http/cli) builds its payload from flags and refuses a bad  *)
(* one; a program that uses gen/access_svc.Client sends whatever it likes.   *)
(* In between are http.Client, which sends a GET again when the connection   *)
(* breaks before the response, and the gateway, which may answer for the     *)
(* service.                                                                  *)
EXTENDS RequestPath

CONSTANTS
  Calls,        \* calls of the client's endpoints
  Invocations,  \* what a caller may ask for
  BareScheme,   \* the token "Bearer"
  NoRequest     \* not a request

VARIABLES
  call,     \* how far each call is
  asked,    \* what its caller asked for
  attempt,  \* the HTTP request that now stands for it
  outcome   \* what it returned

clientVars == <<call, asked, attempt, outcome>>

Probes == [endpoint : {"readyz", "livez"}]
Nothing == [endpoint |-> "none"]

(* The header of a token without a space is the token after "Bearer "; one   *)
(* that brings a scheme of its own is sent as it is, and the server takes    *)
(* off either.  Of an empty token the scheme alone is left, trimmed on the   *)
(* wire, which the server takes for the token.                               *)
Authorization(bearer) == IF bearer = "" THEN BareScheme ELSE bearer

(* EncodeCheckAccessRequest, EncodeMyGrantsRequest, as the server decodes it.*)
EncodeRequest(p) == [p EXCEPT !.bearer = Authorization(@)]

(* A payload struct always encodes; only a -body flag can be bad JSON.       *)
Encodable(p) == p.endpoint = "check-access" => p.json

ASSUME ClientAssumption ==
  /\ Invocations \subseteq CheckPayload \cup GrantsPayload \cup Probes
  /\ \A p \in Invocations \ Probes : Encodable(p) => EncodeRequest(p) \in Payloads
  /\ BareScheme \in Tokens \ GenuineTokens
  /\ NoRequest \notin Requests

-----------------------------------------------------------------------------
(* What a call returns.                                                      *)

Pending         == [kind |-> "pending"]
Result(list)    == [kind |-> "result", list |-> list]
ServiceError(s) == [kind |-> "serviceError", status |-> s]
Error           == [kind |-> "error"]   \* any that is not the service's own

Outcomes ==
  {Pending} \cup [kind : {"result"}, list : SUBSET ResultLine]
    \cup [kind : {"serviceError"}, status : {400, 401, 500, 503}] \cup {Error}

(* The statuses the response decoder of an endpoint knows.                   *)
Known(endpoint) ==
  CASE endpoint = "readyz" -> {200, 503}
    [] endpoint = "livez"  -> {200}
    [] OTHER               -> {200, 400, 401, 500, 503}

(* The 200 body of a probe is bytes; any other body has required fields, and *)
(* one that lacks them is "incomplete".                                      *)
BodyValid(endpoint, response) ==
  \/ response.body = "complete"
  \/ endpoint \in {"readyz", "livez"} /\ response.status = 200

(* Mutant: the decoded body is used as it is, an absent list as an empty one.*)
DecodeUnvalidated(endpoint, response) ==
  IF response.status \notin Known(endpoint) THEN Error
  ELSE IF response.body = "undecodable" THEN Error
  ELSE IF response.status = 200 THEN Result(response.list)
  ELSE ServiceError(response.status)

(* Mutant: a status without a case of its own is passed on as an error of    *)
(* the service.                                                              *)
DecodeAnyStatus(endpoint, response) ==
  CASE response.body = "undecodable"       -> Error
    [] response.status = 200 /\ BodyValid(endpoint, response) -> Result(response.list)
    [] OTHER                               -> ServiceError(response.status)

(* DecodeCheckAccessResponse, DecodeMyGrantsResponse, DecodeReadyzResponse,  *)
(* DecodeLivezResponse: the status first, then decoding, then validation.    *)
DecodeResponse(endpoint, response) ==
  IF response.status \notin Known(endpoint) THEN Error
  ELSE IF response.body = "undecodable" THEN Error
  ELSE IF ~BodyValid(endpoint, response) THEN Error
  ELSE IF response.status = 200 THEN Result(response.list)
  ELSE ServiceError(response.status)

(* The service's bodies are complete: its lists are never null and its error *)
(* bodies have all their fields.                                             *)
ServiceResponse(status, list) == [status |-> status, body |-> "complete", list |-> list]

(* A gateway's page or JSON has the fields of neither.                       *)
GatewayResponses ==
  [status : {200, 401, 503, 504}, body : {"undecodable", "incomplete"}, list : {{}}]

-----------------------------------------------------------------------------
(* A call up to the request.                                                 *)

ClientInit ==
  /\ Init
  /\ call = [c \in Calls |-> "new"]
  /\ asked = [c \in Calls |-> Nothing]
  /\ attempt = [c \in Calls |-> NoRequest]
  /\ outcome = [c \in Calls |-> Pending]

Return(c, o) ==
  /\ call' = [call EXCEPT ![c] = "done"]
  /\ outcome' = [outcome EXCEPT ![c] = o]

(* BuildCheckAccessPayload, BuildMyGrantsPayload.  Neither looks at the      *)
(* token; a flag left out has the value "REQUIRED".                          *)
BuildsPayload(p) ==
  CASE p.endpoint = "check-access" -> p.json /\ p.requests # {} /\ p.version = "1"
    [] p.endpoint = "my-grants"    -> p.version = "1" /\ p.objectType \in ObjectTypes
    [] OTHER                       -> TRUE

(* A command.                                                                *)
ParseEndpoint(c) ==
  /\ call[c] = "new"
  /\ \E p \in Invocations :
       /\ asked' = [asked EXCEPT ![c] = p]
       /\ IF BuildsPayload(p)
          THEN call' = [call EXCEPT ![c] = "ready"] /\ UNCHANGED outcome
          ELSE Return(c, Error)
  /\ UNCHANGED <<attempt, vars>>

(* A call by a program.                                                      *)
CallEndpoint(c) ==
  /\ call[c] = "new"
  /\ \E p \in Invocations : Encodable(p) /\ asked' = [asked EXCEPT ![c] = p]
  /\ call' = [call EXCEPT ![c] = "ready"]
  /\ UNCHANGED <<attempt, outcome, vars>>

(* The endpoint encodes the request and hands it to the Doer.                *)
Do(c) ==
  /\ call[c] = "ready"
  /\ asked[c].endpoint \in {"check-access", "my-grants"}
  /\ \E r \in Requests :
       /\ Arrive(r)
       /\ payload'[r] = EncodeRequest(asked[c])
       /\ attempt' = [attempt EXCEPT ![c] = r]
  /\ call' = [call EXCEPT ![c] = "sent"]
  /\ UNCHANGED <<asked, outcome>>

-----------------------------------------------------------------------------
(* How it ends.                                                              *)

(* The connection of the current attempt goes, and its handler's context.    *)
Drop(c) ==
  IF call[c] = "sent" /\ pc[attempt[c]] # "answered"
  THEN ClientGone(attempt[c])
  ELSE UNCHANGED vars

(* The Doer fails: nobody listens, the caller's deadline passed, or the      *)
(* connection broke, as it does when the answer comes after the server's     *)
(* write timeout.                                                            *)
RequestFails(c) ==
  /\ call[c] \in {"ready", "sent"}
  /\ Drop(c)
  /\ Return(c, Error)
  /\ UNCHANGED <<asked, attempt>>

(* http.Client sends a GET again whose connection broke.                     *)
Replay(c) ==
  /\ call[c] = "sent" /\ asked[c].endpoint = "my-grants"
  /\ Drop(c)
  /\ call' = [call EXCEPT ![c] = "ready"]
  /\ attempt' = [attempt EXCEPT ![c] = NoRequest]
  /\ UNCHANGED <<asked, outcome>>

(* The gateway answers in the service's place, with or without asking it.    *)
GatewayAnswers(c) ==
  /\ call[c] \in {"ready", "sent"}
  /\ Drop(c)
  /\ \E response \in GatewayResponses :
       Return(c, DecodeResponse(asked[c].endpoint, response))
  /\ UNCHANGED <<asked, attempt>>

(* The response of the service arrives.                                      *)
ServiceAnswers(c) ==
  /\ call[c] = "sent"
  /\ answer[attempt[c]] # NoAnswer
  /\ LET a == answer[attempt[c]]
     IN Return(c, DecodeResponse(asked[c].endpoint, ServiceResponse(a.status, a.results)))
  /\ UNCHANGED <<asked, attempt, vars>>

(* readyz and livez, by the statuses their handlers give.                    *)
ProbeAnswers(c) ==
  /\ call[c] = "ready"
  /\ asked[c].endpoint \in {"readyz", "livez"}
  /\ \E status \in IF asked[c].endpoint = "readyz" THEN {200, 503} ELSE {200} :
       Return(c, DecodeResponse(asked[c].endpoint, ServiceResponse(status, {})))
  /\ UNCHANGED <<asked, attempt, vars>>

-----------------------------------------------------------------------------
CallStep(c) ==
  \/ ParseEndpoint(c)
  \/ CallEndpoint(c)
  \/ Do(c)
  \/ RequestFails(c)
  \/ Replay(c)
  \/ GatewayAnswers(c)
  \/ ServiceAnswers(c)
  \/ ProbeAnswers(c)

OtherClient(r) ==
  /\ \A c \in Calls : attempt[c] # r
  /\ Client(r)
  /\ UNCHANGED clientVars

Service ==
  /\ (\E r \in Requests : Handler(r)) \/ Backend \/ Connection
  /\ UNCHANGED clientVars

ClientNext ==
  \/ \E c \in Calls : CallStep(c)
  \/ \E r \in Requests : OtherClient(r)
  \/ Service

ClientSpec == ClientInit /\ [][ClientNext]_<<vars, clientVars>>

-----------------------------------------------------------------------------
(* Properties.                                                               *)

ClientTypeOK ==
  /\ TypeOK
  /\ call \in [Calls -> {"new", "ready", "sent", "done"}]
  /\ asked \in [Calls -> Invocations \cup {Nothing}]
  /\ attempt \in [Calls -> Requests \cup {NoRequest}]
  /\ outcome \in [Calls -> Outcomes]

(* What fga-sync can compute for what a caller asked for.                    *)
ComputedFor(p) ==
  LET user == PrincipalOf[p.bearer]
  IN IF p.endpoint = "check-access" THEN CheckEvaluations(BuildMessage(user, p.requests))
                                    ELSE ReadEvaluations(user)

(* End to end: a list of permissions a call returns is what fga-sync         *)
(* computed for the lines of that call's own message (its resources for the  *)
(* caller's token, and lines it wrote out in one), whatever happened to the  *)
(* connection and whoever else was asking, or empty because only blanks were *)
(* asked for.  Neither a gateway's page nor a body without a list is ever    *)
(* taken for "no permissions".                                               *)
ReportedIsComputed ==
  \A c \in Calls :
    LET p == asked[c]
        e == evaluation[attempt[c]]
    IN outcome[c].kind = "result" /\ p \notin Probes =>
         /\ attempt[c] # NoRequest
         /\ p.bearer \in GenuineTokens
         /\ \/ /\ e # NotEvaluated
               /\ e \in ComputedFor(p)
               /\ Result(Contract!Answered(e).results) = outcome[c]
            \/ /\ p.endpoint = "check-access" /\ p.requests = {""}
               /\ outcome[c] = Result({})

(* The statuses mean what the contract document says ("Error Mapping"): a    *)
(* call told 400 or 401 was refused before anybody asked fga-sync, and a     *)
(* 500 is about a reply that came.                                           *)
StatusMeansStage ==
  \A c \in Calls :
    outcome[c].kind = "serviceError" /\ asked[c] \notin Probes =>
      /\ outcome[c].status \in {400, 401} => evaluation[attempt[c]] = NotEvaluated
      /\ outcome[c].status = 500 =>
           evaluation[attempt[c]].kind \in {"lines", "text", "notJSON"}

(* The parts that make these inductive, with RequestPath's IInv and          *)
(* AnswerInv: a call's request carries what was asked, and an outcome that   *)
(* is not an error is the answer of that request.                            *)
Traced(c) ==
  /\ attempt[c] \in Requests
  /\ asked[c] \notin Probes
  /\ payload[attempt[c]] = EncodeRequest(asked[c])
  /\ payload[attempt[c]] \in Payloads

Answered(c) ==
  LET a == answer[attempt[c]]
  IN /\ a # NoAnswer
     /\ outcome[c] = DecodeResponse(asked[c].endpoint, ServiceResponse(a.status, a.results))

CallOK(c) ==
  /\ outcome[c] = Pending <=> call[c] # "done"
  /\ call[c] # "new" => asked[c] \in Invocations
  /\ call[c] \in {"ready", "sent"} => Encodable(asked[c])
  /\ call[c] = "sent" => Traced(c)
  /\ call[c] = "done" /\ outcome[c] # Error /\ asked[c] \notin Probes =>
       Traced(c) /\ Answered(c)

CallInv == \A c \in Calls : CallOK(c)

CInv == IInv /\ AnswerInv /\ ClientTypeOK /\ CallInv
=============================================================================
