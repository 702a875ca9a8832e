-------------------------- MODULE ClientPathProofs --------------------------
(* Proofs about ClientPath.  A client's steps are steps of RequestPath or    *)
(* leave it alone, so that RequestPath's invariants carry over; what a call  *)
(* returns is then the answer of its own request (CallInv), and what that    *)
(* answer says of the evaluation is AnswerInv.                               *)
EXTENDS ClientPath, RequestPathProofs

-----------------------------------------------------------------------------
(* Decoding.                                                                 *)

LEMMA DecodeType ==
  ASSUME NEW endpoint, NEW response, response.list \in SUBSET ResultLine
  PROVE  /\ DecodeResponse(endpoint, response) \in Outcomes
         /\ DecodeResponse(endpoint, response) # Pending
<1>1. Known(endpoint) \subseteq {200, 400, 401, 500, 503}
  BY DEF Known
<1>2. CASE response.status \notin Known(endpoint) \/ response.body = "undecodable"
             \/ ~BodyValid(endpoint, response)
  BY <1>2 DEF DecodeResponse, Outcomes, Error, Pending
<1>3. CASE response.status \in Known(endpoint) /\ response.body # "undecodable"
             /\ BodyValid(endpoint, response)
  BY <1>1, <1>3 DEF DecodeResponse, Outcomes, Result, ServiceError, Pending
<1> QED
  BY <1>2, <1>3

LEMMA AskedType ==
  ASSUME NEW p \in Invocations \ Probes
  PROVE  /\ p \in CheckPayload \cup GrantsPayload
         /\ p.endpoint \in {"check-access", "my-grants"}
BY ClientAssumption DEF CheckPayload, GrantsPayload

(* Nothing but the service makes a list or an error of the service.          *)
LEMMA GatewayIsError ==
  ASSUME NEW p \in Invocations \ Probes, NEW response \in GatewayResponses
  PROVE  DecodeResponse(p.endpoint, response) = Error
BY AskedType DEF DecodeResponse, BodyValid, GatewayResponses

(* The status of the service's answer decides what a call returns.           *)
LEMMA ServiceDecoded ==
  ASSUME NEW p \in Invocations \ Probes, NEW a \in Answers
  PROVE  LET o == DecodeResponse(p.endpoint, ServiceResponse(a.status, a.results))
         IN IF a.status = 200 THEN o = Result(a.results) ELSE o = ServiceError(a.status)
<1>1. Known(p.endpoint) = {200, 400, 401, 500, 503}
  <2>1. p.endpoint # "readyz" /\ p.endpoint # "livez"
    BY AskedType
  <2> QED
    BY <2>1 DEF Known
<1>2. a.status \in {200, 400, 401, 500, 503}
  BY DEF Answers
<1> QED
  BY <1>1, <1>2 DEF DecodeResponse, ServiceResponse, BodyValid

-----------------------------------------------------------------------------
(* The inductive invariant.                                                  *)

LEMMA DropStep ==
  ASSUME NEW c \in Calls, CallOK(c), Drop(c)
  PROVE  [Next]_vars
<1>1. call[c] = "sent" => attempt[c] \in Requests
  BY DEF CallOK, Traced
<1> QED
  BY <1>1 DEF Drop, Next, Client

(* Each step of a call or of the service behind it is one of RequestPath.    *)
LEMMA PathStep ==
  ASSUME CallInv, [ClientNext]_<<vars, clientVars>>
  PROVE  [Next]_vars
<1>1. ASSUME NEW c \in Calls, CallStep(c) PROVE [Next]_vars
  <2>1. CASE ParseEndpoint(c) \/ CallEndpoint(c) \/ ServiceAnswers(c) \/ ProbeAnswers(c)
    BY <2>1 DEF ParseEndpoint, CallEndpoint, ServiceAnswers, ProbeAnswers
  <2>2. CASE Do(c)
    BY <2>2 DEF Do, Next, Client
  <2>3. CASE RequestFails(c) \/ Replay(c) \/ GatewayAnswers(c)
    BY <2>3, DropStep DEF RequestFails, Replay, GatewayAnswers, CallInv
  <2> QED
    BY <1>1, <2>1, <2>2, <2>3 DEF CallStep
<1>2. CASE \E r \in Requests : OtherClient(r)
  BY <1>2 DEF OtherClient, Next
<1>3. CASE Service
  BY <1>3 DEF Service, Next
<1> QED
  BY <1>1, <1>2, <1>3 DEF ClientNext

(* What a call relies on does not change under it.                           *)
LEMMA TracedStays ==
  ASSUME IInv, [Next]_vars, NEW c \in Calls, Traced(c),
         attempt'[c] = attempt[c], asked'[c] = asked[c]
  PROVE  Traced(c)'
<1>1. payload'[attempt[c]] = payload[attempt[c]]
  BY Settled, PayloadType DEF Traced
<1> QED
  BY <1>1 DEF Traced

LEMMA CallFrame ==
  ASSUME IInv, [Next]_vars, NEW c \in Calls, CallOK(c), call'[c] = call[c],
         asked'[c] = asked[c], attempt'[c] = attempt[c], outcome'[c] = outcome[c]
  PROVE  CallOK(c)'
<1>1. Traced(c) => Traced(c)'
  BY TracedStays
<1>2. Traced(c) /\ Answered(c) => Answered(c)'
  <2>1. Traced(c) /\ Answered(c) => answer'[attempt[c]] = answer[attempt[c]]
    BY Settled DEF Traced, Answered
  <2> QED
    BY <2>1 DEF Answered
<1> QED
  BY <1>1, <1>2 DEF CallOK

(* A call that returns leaves the state of a returned call.                  *)
LEMMA ReturnOK ==
  ASSUME ClientTypeOK, NEW c \in Calls, NEW o \in Outcomes \ {Pending}, Return(c, o),
         asked'[c] \in Invocations, asked' \in [Calls -> Invocations \cup {Nothing}],
         UNCHANGED attempt,
         o # Error /\ asked'[c] \notin Probes =>
           /\ Traced(c)'
           /\ answer'[attempt[c]] # NoAnswer
           /\ o = DecodeResponse(asked'[c].endpoint,
                    ServiceResponse(answer'[attempt[c]].status, answer'[attempt[c]].results))
  PROVE  /\ CallOK(c)'
         /\ call' \in [Calls -> {"new", "ready", "sent", "done"}]
         /\ attempt' \in [Calls -> Requests \cup {NoRequest}]
         /\ outcome' \in [Calls -> Outcomes]
<1>1. call'[c] = "done" /\ outcome'[c] = o
  BY DEF Return, ClientTypeOK
<1> QED
  BY <1>1 DEF CallOK, Answered, Return, ClientTypeOK

ErrorIsOutcome == Error \in Outcomes \ {Pending}

LEMMA ErrorType == ErrorIsOutcome
BY DEF ErrorIsOutcome, Error, Outcomes, Pending

(* The client's own variables.                                               *)
OwnTypeOK ==
  /\ call \in [Calls -> {"new", "ready", "sent", "done"}]
  /\ asked \in [Calls -> Invocations \cup {Nothing}]
  /\ attempt \in [Calls -> Requests \cup {NoRequest}]
  /\ outcome \in [Calls -> Outcomes]

LEMMA CallStepInv ==
  ASSUME IInv, IInv', ClientTypeOK, CallInv, [Next]_vars, NEW c \in Calls, CallStep(c)
  PROVE  OwnTypeOK' /\ CallOK(c)'
<1> USE DEF CallInv
<1>0. asked[c] \in Invocations \cup {Nothing} /\ CallOK(c)
  BY DEF ClientTypeOK
<1>1. CASE ParseEndpoint(c)
  <2>1. PICK p \in Invocations :
          /\ asked' = [asked EXCEPT ![c] = p]
          /\ IF BuildsPayload(p)
             THEN call' = [call EXCEPT ![c] = "ready"] /\ UNCHANGED outcome
             ELSE Return(c, Error)
    BY <1>1 DEF ParseEndpoint
  <2>2. asked'[c] = p /\ asked' \in [Calls -> Invocations \cup {Nothing}] /\ UNCHANGED attempt
    BY <1>1, <2>1 DEF ParseEndpoint, ClientTypeOK
  <2>3. CASE BuildsPayload(p)
    <3>1. Encodable(p)
      BY <2>3 DEF BuildsPayload, Encodable
    <3> QED
      BY <1>0, <1>1, <2>1, <2>2, <2>3, <3>1
         DEF ParseEndpoint, ClientTypeOK, OwnTypeOK, CallOK
  <2>4. CASE ~BuildsPayload(p)
    BY <2>1, <2>2, <2>4, ReturnOK, ErrorType DEF OwnTypeOK, ErrorIsOutcome
  <2> QED
    BY <2>3, <2>4
<1>2. CASE CallEndpoint(c)
  BY <1>0, <1>2 DEF CallEndpoint, ClientTypeOK, OwnTypeOK, CallOK
<1>3. CASE Do(c)
  <2>1. PICK r \in Requests : /\ payload'[r] = EncodeRequest(asked[c])
                              /\ attempt' = [attempt EXCEPT ![c] = r]
    BY <1>3 DEF Do
  <2>2. asked[c] \in Invocations \ Probes /\ Encodable(asked[c])
    BY <1>0, <1>3 DEF Do, CallOK, Probes
  <2>3. payload'[r] \in Payloads
    BY <2>1, <2>2, ClientAssumption
  <2>4. attempt'[c] = r /\ call'[c] = "sent" /\ UNCHANGED <<asked, outcome>>
    BY <1>3, <2>1 DEF Do, ClientTypeOK
  <2>5. Traced(c)'
    BY <2>1, <2>2, <2>3, <2>4 DEF Traced
  <2>6. OwnTypeOK'
    BY <1>3, <2>1 DEF Do, ClientTypeOK, OwnTypeOK
  <2> QED
    BY <1>0, <1>3, <2>2, <2>4, <2>5, <2>6 DEF Do, CallOK
<1>4. CASE RequestFails(c)
  <2>1. asked[c] \in Invocations
    BY <1>0, <1>4 DEF RequestFails, CallOK
  <2> QED
    BY <1>4, <2>1, ReturnOK, ErrorType DEF RequestFails, ClientTypeOK, OwnTypeOK, ErrorIsOutcome
<1>5. CASE Replay(c)
  BY <1>0, <1>5 DEF Replay, ClientTypeOK, OwnTypeOK, CallOK
<1>6. CASE GatewayAnswers(c)
  <2>1. asked[c] \in Invocations
    BY <1>0, <1>6 DEF GatewayAnswers, CallOK
  <2>2. PICK response \in GatewayResponses :
          Return(c, DecodeResponse(asked[c].endpoint, response))
    BY <1>6 DEF GatewayAnswers
  <2>3. DecodeResponse(asked[c].endpoint, response) \in Outcomes \ {Pending}
    BY DecodeType DEF GatewayResponses
  <2>4. asked[c] \notin Probes => DecodeResponse(asked[c].endpoint, response) = Error
    BY <2>1, GatewayIsError
  <2> QED
    BY <1>6, <2>1, <2>2, <2>3, <2>4, ReturnOK DEF GatewayAnswers, ClientTypeOK, OwnTypeOK
<1>7. CASE ServiceAnswers(c)
  <2> DEFINE a == answer[attempt[c]]
             o == DecodeResponse(asked[c].endpoint, ServiceResponse(a.status, a.results))
  <2>1. Traced(c) /\ asked[c] \in Invocations
    BY <1>0, <1>7 DEF ServiceAnswers, CallOK
  <2>2. a # NoAnswer /\ a \in Answers /\ Return(c, o)
    BY <1>7, <2>1 DEF ServiceAnswers, Traced, IInv, TypeOK
  <2>3. o \in Outcomes \ {Pending}
    BY <2>2, DecodeType DEF ServiceResponse, Answers
  <2>4. Traced(c)'
    BY <1>7, <2>1, TracedStays DEF ServiceAnswers
  <2>5. answer' = answer /\ UNCHANGED <<asked, attempt>>
    BY <1>7 DEF ServiceAnswers, vars, handlerVars
  <2> HIDE DEF o
  <2>6. o = DecodeResponse(asked'[c].endpoint, ServiceResponse(answer'[attempt[c]].status,
                                                               answer'[attempt[c]].results))
    BY <2>5 DEF o
  <2> QED
    BY <2>1, <2>2, <2>3, <2>4, <2>5, <2>6, ReturnOK DEF ClientTypeOK, OwnTypeOK
<1>8. CASE ProbeAnswers(c)
  <2>1. asked[c] \in Invocations /\ asked[c] \in Probes
    <3>1. asked[c] \in Invocations
      BY <1>0, <1>8 DEF ProbeAnswers, CallOK
    <3> QED
      BY <1>8, <3>1, AskedType DEF ProbeAnswers
  <2>2. PICK status \in {200, 503} :
          Return(c, DecodeResponse(asked[c].endpoint, ServiceResponse(status, {})))
    BY <1>8 DEF ProbeAnswers
  <2>3. DecodeResponse(asked[c].endpoint, ServiceResponse(status, {})) \in Outcomes \ {Pending}
    BY DecodeType DEF ServiceResponse
  <2> QED
    BY <1>8, <2>1, <2>2, <2>3, ReturnOK DEF ProbeAnswers, ClientTypeOK, OwnTypeOK
<1> QED
  BY <1>1, <1>2, <1>3, <1>4, <1>5, <1>6, <1>7, <1>8 DEF CallStep

(* A call's step leaves the other calls alone.                               *)
LEMMA OtherCalls ==
  ASSUME ClientTypeOK, NEW c \in Calls, CallStep(c), NEW d \in Calls, d # c
  PROVE  /\ call'[d] = call[d]
         /\ asked'[d] = asked[d]
         /\ attempt'[d] = attempt[d]
         /\ outcome'[d] = outcome[d]
<1> USE DEF ClientTypeOK, Return
<1>1. CASE ParseEndpoint(c)
  BY <1>1 DEF ParseEndpoint
<1>2. CASE CallEndpoint(c)
  BY <1>2 DEF CallEndpoint
<1>3. CASE Do(c)
  BY <1>3 DEF Do
<1>4. CASE RequestFails(c) \/ Replay(c)
  BY <1>4 DEF RequestFails, Replay
<1>5. CASE GatewayAnswers(c) \/ ServiceAnswers(c) \/ ProbeAnswers(c)
  BY <1>5 DEF GatewayAnswers, ServiceAnswers, ProbeAnswers
<1> QED
  BY <1>1, <1>2, <1>3, <1>4, <1>5 DEF CallStep

LEMMA ClientNextInv ==
  ASSUME CInv, [ClientNext]_<<vars, clientVars>>
  PROVE  CInv'
<1> USE DEF CInv
<1>1. [Next]_vars
  BY PathStep
<1>2. IInv' /\ AnswerInv'
  BY <1>1, NextInv, AnswerInvStep
<1>3. ASSUME NEW c \in Calls, CallStep(c)
      PROVE  OwnTypeOK' /\ CallInv'
  <2>1. OwnTypeOK' /\ CallOK(c)'
    BY <1>1, <1>2, <1>3, CallStepInv
  <2>2. ASSUME NEW d \in Calls, d # c PROVE CallOK(d)'
    BY <1>1, <1>3, <2>2, CallFrame, OtherCalls DEF CallInv
  <2> QED
    BY <2>1, <2>2 DEF CallInv
<1>4. ASSUME UNCHANGED clientVars
      PROVE  OwnTypeOK' /\ CallInv'
  <2>1. OwnTypeOK'
    BY <1>4 DEF OwnTypeOK, ClientTypeOK, clientVars
  <2>2. ASSUME NEW d \in Calls PROVE CallOK(d)'
    BY <1>1, <1>4, CallFrame DEF CallInv, clientVars
  <2> QED
    BY <2>1, <2>2 DEF CallInv
<1>5. OwnTypeOK' /\ CallInv'
  <2>1. \/ \E c \in Calls : CallStep(c)
        \/ UNCHANGED clientVars
    BY DEF ClientNext, OtherClient, Service
  <2> QED
    BY <1>3, <1>4, <2>1
<1>6. ClientTypeOK'
  <2>1. TypeOK'
    BY <1>2 DEF IInv
  <2> QED
    BY <1>5, <2>1 DEF ClientTypeOK, OwnTypeOK
<1> QED
  BY <1>2, <1>5, <1>6

LEMMA ClientInitInv == ClientInit => CInv
<1> SUFFICES ASSUME ClientInit PROVE CInv
  OBVIOUS
<1>1. IInv
  BY InitInv DEF ClientInit
<1>2. AnswerInv
  BY DEF ClientInit, Init, AnswerInv, AnswerFollows
<1>3. Pending \in Outcomes
  BY DEF Outcomes
<1> QED
  BY <1>1, <1>2, <1>3 DEF CInv, ClientInit, ClientTypeOK, IInv, CallInv, CallOK

LEMMA ClientInvariance == ClientSpec => []CInv
BY ClientInitInv, ClientNextInv, PTL DEF ClientSpec

(* The calls, their arguments and what they return stay within their types,  *)
(* and so does the service behind them.                                      *)
THEOREM ClientTypeCorrect == ClientSpec => []ClientTypeOK
<1>1. CInv => ClientTypeOK
  BY DEF CInv
<1> QED
  BY <1>1, ClientInvariance, PTL

(* With its own clients in place of arbitrary ones the service behaves as    *)
(* RequestPath says, so that what is proved of RequestPath holds here.       *)
THEOREM ImplementsPath == ClientSpec => Spec
<1>1. ClientInit => Init
  BY DEF ClientInit
<1>2. CInv /\ [ClientNext]_<<vars, clientVars>> => [Next]_vars
  BY PathStep DEF CInv
<1> QED
  BY <1>1, <1>2, ClientInvariance, PTL DEF ClientSpec, Spec

-----------------------------------------------------------------------------
(* What an outcome says.                                                     *)

(* A list or an error of the service is the answer of the call's request.    *)
LEMMA OutcomeIsAnswer ==
  ASSUME CInv, NEW c \in Calls, outcome[c].kind \in {"result", "serviceError"},
         asked[c] \notin Probes
  PROVE  /\ attempt[c] \in Requests
         /\ asked[c] \in Invocations \ Probes
         /\ payload[attempt[c]] = EncodeRequest(asked[c])
         /\ payload[attempt[c]] \in Payloads
         /\ answer[attempt[c]] \in Answers
         /\ IF answer[attempt[c]].status = 200
            THEN outcome[c] = Result(answer[attempt[c]].results)
            ELSE outcome[c] = ServiceError(answer[attempt[c]].status)
         /\ AnswerFollows(attempt[c])
<1> USE DEF CInv
<1>1. outcome[c] # Pending /\ outcome[c] # Error
  BY DEF Pending, Error
<1>2. call[c] = "done" /\ CallOK(c)
  BY <1>1 DEF CallInv, CallOK
<1>3. Traced(c) /\ Answered(c) /\ asked[c] \in Invocations
  BY <1>1, <1>2 DEF CallOK
<1>4. answer[attempt[c]] \in Answers
  BY <1>3 DEF Traced, Answered, IInv, TypeOK
<1>5. IF answer[attempt[c]].status = 200
      THEN outcome[c] = Result(answer[attempt[c]].results)
      ELSE outcome[c] = ServiceError(answer[attempt[c]].status)
  BY <1>3, <1>4, ServiceDecoded DEF Answered
<1> QED
  BY <1>3, <1>4, <1>5 DEF Traced, AnswerInv

(* No call reports permissions that were not computed for its own caller and *)
(* resources.                                                                *)
THEOREM ReportsWhatWasComputed == ClientSpec => []ReportedIsComputed
<1>1. CInv => ReportedIsComputed
  <2> SUFFICES ASSUME CInv, NEW c \in Calls, outcome[c].kind = "result",
                      asked[c] \notin Probes
               PROVE  /\ attempt[c] # NoRequest
                      /\ asked[c].bearer \in GenuineTokens
                      /\ \/ /\ evaluation[attempt[c]] # NotEvaluated
                            /\ evaluation[attempt[c]] \in ComputedFor(asked[c])
                            /\ Result(Contract!Answered(evaluation[attempt[c]]).results)
                                 = outcome[c]
                         \/ /\ asked[c].endpoint = "check-access" /\ asked[c].requests = {""}
                            /\ outcome[c] = Result({})
    BY DEF ReportedIsComputed
  <2> DEFINE r == attempt[c]
             p == asked[c]
  <2>1. /\ r \in Requests /\ p \in Invocations \ Probes
        /\ payload[r] = EncodeRequest(p)
        /\ answer[r] \in Answers
        /\ AnswerFollows(r)
    BY OutcomeIsAnswer
  <2>2. answer[r].status = 200 /\ outcome[c] = Result(answer[r].results)
    <3>1. CASE answer[r].status = 200
      BY <3>1, OutcomeIsAnswer
    <3>2. CASE answer[r].status # 200
      <4>1. outcome[c] = ServiceError(answer[r].status)
        BY <3>2, OutcomeIsAnswer
      <4> QED
        BY <4>1 DEF ServiceError
    <3> QED
      BY <3>1, <3>2
  <2>3. p \in CheckPayload \cup GrantsPayload
    BY <2>1, AskedType
  <2>4. /\ payload[r].endpoint = p.endpoint
        /\ payload[r].bearer = Authorization(p.bearer)
        /\ p.endpoint = "check-access" => payload[r].requests = p.requests
    BY <2>1, <2>3 DEF EncodeRequest, CheckPayload, GrantsPayload
  <2>5. payload[r].bearer \in GenuineTokens => payload[r].bearer = p.bearer
    BY <2>4, ClientAssumption DEF Authorization
  <2>6. r # NoRequest
    BY <2>1, ClientAssumption
  <2>7. CASE /\ answer[r] = OK({})
             /\ payload[r].endpoint = "check-access" /\ payload[r].requests = {""}
             /\ payload[r].bearer \in GenuineTokens
    <3>1. p.endpoint = "check-access" /\ p.requests = {""} /\ p.bearer \in GenuineTokens
      BY <2>4, <2>5, <2>7
    <3>2. answer[r].results = {}
      <4>1. answer[r] = OK({})
        BY <2>7
      <4> QED
        BY <4>1 DEF OK
    <3>3. outcome[c] = Result({})
      BY <2>2, <3>2
    <3> QED
      BY <2>6, <3>1, <3>3
  <2>8. CASE evaluation[r] # NotEvaluated /\ answer[r] = Contract!Answered(evaluation[r])
    <3>1. OwnEvaluation(r)
      BY <2>1, <2>8 DEF CInv, IInv, EvaluationInv
    <3>2. claims[r] = PrincipalOf[payload[r].bearer] /\ payload[r].bearer \in GenuineTokens
      BY <3>1, ValidClaimsType DEF OwnEvaluation
    <3>3. claims[r] = PrincipalOf[p.bearer] /\ p.bearer \in GenuineTokens
      BY <2>5, <3>2
    <3>4. evaluation[r] \in ComputedFor(p)
      <4>1. CASE p.endpoint = "check-access"
        BY <2>4, <3>1, <3>3, <4>1 DEF OwnEvaluation, ComputedFor
      <4>2. CASE p.endpoint = "my-grants"
        BY <2>4, <3>1, <3>3, <4>2 DEF OwnEvaluation, ComputedFor
      <4> QED
        BY <2>1, <4>1, <4>2, AskedType
    <3> QED
      BY <2>2, <2>6, <2>8, <3>3, <3>4
  <2>9. answer[r] # NoAnswer /\ answer[r] \notin {Fail(400), Fail(401), Fail(503)}
    BY <2>2 DEF NoAnswer, Fail
  <2> QED
    BY <2>1, <2>7, <2>8, <2>9 DEF AnswerFollows
<1> QED
  BY <1>1, ClientInvariance, PTL

(* A call is told 400 or 401 only if nobody ever asked fga-sync for it, and  *)
(* 500 only for a reply that came.                                           *)
THEOREM StatusesMeanStages == ClientSpec => []StatusMeansStage
<1>1. CInv => StatusMeansStage
  <2> SUFFICES ASSUME CInv, NEW c \in Calls, outcome[c].kind = "serviceError",
                      asked[c] \notin Probes
               PROVE  /\ outcome[c].status \in {400, 401} =>
                           evaluation[attempt[c]] = NotEvaluated
                      /\ outcome[c].status = 500 =>
                           evaluation[attempt[c]].kind \in {"lines", "text", "notJSON"}
    BY DEF StatusMeansStage
  <2> DEFINE r == attempt[c]
  <2>1. r \in Requests /\ AnswerFollows(r)
    BY OutcomeIsAnswer
  <2>2. answer[r].status = outcome[c].status /\ answer[r].status # 200
    <3>1. CASE answer[r].status = 200
      <4>1. outcome[c] = Result(answer[r].results)
        BY <3>1, OutcomeIsAnswer
      <4> QED
        BY <4>1 DEF Result
    <3>2. CASE answer[r].status # 200
      <4>1. outcome[c] = ServiceError(answer[r].status)
        BY <3>2, OutcomeIsAnswer
      <4> QED
        BY <3>2, <4>1 DEF ServiceError
    <3> QED
      BY <3>1, <3>2
  <2>3. CASE evaluation[r] # NotEvaluated /\ answer[r] = Contract!Answered(evaluation[r])
    <3>1. evaluation[r].kind \in {"lines", "text", "tuples", "fgaError", "notJSON"}
      BY <2>1, <2>3, EvaluationKinds DEF CInv, IInv, TypeOK
    <3> QED
      BY <2>2, <2>3, <3>1 DEF Contract!Answered, Contract!OK, Contract!Fail
  <2>4. CASE answer[r] \in {Fail(400), Fail(401)} /\ evaluation[r] = NotEvaluated
    BY <2>2, <2>4 DEF Fail
  <2>5. CASE answer[r] \in {NoAnswer, Fail(503), OK({})}
    BY <2>2, <2>5 DEF NoAnswer, Fail, OK
  <2> QED
    BY <2>1, <2>3, <2>4, <2>5 DEF AnswerFollows
<1> QED
  BY <1>1, ClientInvariance, PTL
=============================================================================
