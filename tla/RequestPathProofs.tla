------------------------- MODULE RequestPathProofs --------------------------
(* Proofs about RequestPath for any sets of requests, payloads, resources,   *)
(* principals and tokens, and any number of reconnect attempts.              *)
EXTENDS RequestPath, TLAPS

-----------------------------------------------------------------------------
(* Types of the pure functions.                                              *)

(* The assumptions on the constants, in the parts the proofs use.            *)
LEMMA PayloadKinds ==
  ASSUME NEW p \in Payloads
  PROVE  p \in CheckPayload \/ p \in GrantsPayload
BY DataAssumption

LEMMA NotBlank ==
  "" \notin Resources /\ "" \notin ObjectTypes /\ "" \notin Tokens /\ "" \notin Principals
BY DataAssumption

LEMMA CheckRequests ==
  ASSUME NEW p \in Payloads, p.endpoint = "check-access"
  PROVE  p \in CheckPayload /\ p.requests \in SUBSET (Resources \cup {""})
<1>1. p \notin GrantsPayload
  BY DEF GrantsPayload
<1>2. p \in CheckPayload
  BY <1>1, PayloadKinds
<1> QED
  BY <1>2 DEF CheckPayload

LEMMA LinesOf ==
  ASSUME NEW o \in Resources
  PROVE  /\ LastLine[o] \in Objects
         /\ Written[o] \in SUBSET Query
         /\ LastLine[o] = o => Written[o] = {}
BY DataAssumption

(* What fga-sync can compute for queries is a check evaluation.              *)
LEMMA CheckEvaluationsType ==
  ASSUME NEW queries \in SUBSET Query
  PROVE  CheckEvaluations(queries) \subseteq CheckEvaluation
<1>1. ASSUME NEW decidable \in SUBSET queries, NEW f \in [decidable -> BOOLEAN]
      PROVE  Decided(f) \in SUBSET Decision
  <2>1. ASSUME NEW q \in decidable
        PROVE  [object |-> q.object, user |-> q.user, allowed |-> f[q]] \in Decision
    <3>1. q.object \in Objects /\ q.user \in Principals \cup {""}
      BY DEF Query
    <3> QED
      BY <3>1 DEF Decision
  <2> QED
    BY <2>1 DEF Decided
<1>2. ASSUME NEW ls \in SUBSET Decision, NEW n \in Nat
      PROVE  LinesReply(ls, n) \in CheckEvaluation
  BY <1>2 DEF LinesReply, CheckEvaluation
<1>3. ASSUME NEW n \in ErrorTexts
      PROVE  TextReply(n) \in CheckEvaluation
  BY DEF TextReply, CheckEvaluation
<1>4. ASSUME NEW decidable \in SUBSET queries
      PROVE  Spaces(decidable) \subseteq Nat
  <2>1. FirstSpace \in [Query -> Nat]
    BY DataAssumption
  <2> QED
    BY <2>1 DEF Spaces, SanityBytes
<1>5. ASSUME NEW e \in CheckEvaluations(queries)
      PROVE  e \in CheckEvaluation
  <2>1. CASE \E n \in ErrorTexts : e = TextReply(n)
    BY <1>3, <2>1
  <2>2. ASSUME NEW decidable \in SUBSET queries, NEW f \in [decidable -> BOOLEAN],
               NEW n \in Spaces(decidable), e = LinesReply(Decided(f), n)
        PROVE  e \in CheckEvaluation
    <3>1. Decided(f) \in SUBSET Decision /\ n \in Nat
      BY <1>1, <1>4
    <3> QED
      BY <1>2, <2>2, <3>1
  <2>3. \/ \E n \in ErrorTexts : e = TextReply(n)
        \/ \E decidable \in SUBSET queries : e \in DecisionReplies(decidable)
    BY DEF CheckEvaluations
  <2> QED
    BY <2>1, <2>2, <2>3 DEF DecisionReplies
<1> QED
  BY <1>5

LEMMA ReadEvaluationsType ==
  ASSUME NEW user \in Principals
  PROVE  ReadEvaluations(user) \subseteq ReadEvaluation
<1>1. ASSUME NEW ts \in SUBSET [object : Objects, user : {user}]
      PROVE  TuplesReply(ts) \in ReadEvaluation
  BY DEF TuplesReply, ReadEvaluation, Query
<1> QED
  BY <1>1 DEF ReadEvaluations, ReadEvaluation

(* An evaluation is none of the other contents of a reply channel.           *)
LEMMA EvaluationKinds ==
  ASSUME NEW e \in Evaluation
  PROVE  /\ e.kind \in {"lines", "text", "tuples", "fgaError", "notJSON"}
         /\ e \notin {Empty, Closed, NoResponders, NotEvaluated}
BY DEF Evaluation, CheckEvaluation, ReadEvaluation, FgaError, NotJSON,
       Empty, Closed, NoResponders, NotEvaluated

(* A reply of the endpoint's own subject is turned into an answer.           *)
LEMMA CheckOutcomeType ==
  ASSUME NEW body \in CheckEvaluation
  PROVE  Outcome("check-access", body) \in Answers
<1>1. CASE body \in [kind : {"lines"}, lines : SUBSET Decision, firstSpace : Nat]
  BY <1>1 DEF Outcome, Closed, NoResponders, ParseResponse, ResultLines, OK, Fail, CheckAccessStatus,
              Answers, ResultLine
<1>2. CASE body \in [kind : {"text"}, firstSpace : ErrorTexts]
  BY <1>2 DEF Outcome, Closed, NoResponders, ParseResponse, ResultLines, OK, Fail, CheckAccessStatus,
              Answers, ResultLine
<1> QED
  BY <1>1, <1>2 DEF CheckEvaluation

LEMMA ReadOutcomeType ==
  ASSUME NEW body \in ReadEvaluation
  PROVE  Outcome("my-grants", body) \in Answers
<1>1. CASE body \in [kind : {"tuples"}, lines : SUBSET Query]
  BY <1>1 DEF Outcome, Closed, NoResponders, ReadTuplesResult, OK, Answers, ResultLine
<1>2. CASE body \in {FgaError, NotJSON}
  BY <1>2 DEF Outcome, Closed, NoResponders, ReadTuplesResult, FgaError, NotJSON, Fail, MyGrantsStatus,
              Answers, ResultLine
<1> QED
  BY <1>1, <1>2 DEF ReadEvaluation

LEMMA BrokenOutcome ==
  ASSUME NEW endpoint, NEW body \in {Closed, NoResponders}
  PROVE  Outcome(endpoint, body) = Fail(503)
BY DEF Outcome, CheckAccessStatus, MyGrantsStatus

(* The answers the handlers give.                                            *)
LEMMA FailType ==
  /\ \A status \in {400, 401, 500, 503} : Fail(status) \in Answers /\ Fail(status) # NoAnswer
  /\ OK({}) \in Answers
BY DEF Fail, OK, Answers, NoAnswer

LEMMA AnswerIsAnswer ==
  ASSUME NEW x \in Answers
  PROVE  x # NoAnswer
BY DEF Answers, NoAnswer
-----------------------------------------------------------------------------
(* The inductive invariant: the initial states, then one lemma per action.   *)

LEMMA InitInv == Init => IInv
BY MaxReconnectsAssumption
   DEF Init, ConnInit, IInv, TypeOK, ConnTypeOK, Status, Draining, PathInv, WaiterInv,
       SingleRequest, MessageInv, EvaluationInv, ReplyInv, ClosedInv

(* A message belongs to a request, an evaluation names no other content.     *)
LEMMA TokenType == \A m \in Messages \cup Replies : m.token \in Requests
BY DEF Messages, CheckMessage, ReadMessage, Replies

LEMMA PayloadType == NoPayload \notin Payloads
BY DataAssumption DEF NoPayload, CheckPayload, GrantsPayload

LEMMA ArriveInv ==
  ASSUME IInv, NEW r \in Requests, Arrive(r)
  PROVE  IInv'
<1> USE DEF IInv
<1>0. /\ answer[r] = NoAnswer /\ r \notin registered /\ mch[r] = Empty
      /\ \A m \in buffer \cup wire : m.token # r
      /\ \A reply \in inbox : reply.token # r
      /\ evaluation[r] = NotEvaluated
  BY DEF Arrive, PathInv, WaiterInv, SingleRequest, EvaluationInv
<1>1. TypeOK'
  BY DEF Arrive, TypeOK, ConnTypeOK, netVars, connVars
<1>2. PathInv'
  BY <1>0, PayloadType DEF Arrive, PathInv, TypeOK
<1>3. WaiterInv'
  BY <1>0 DEF Arrive, WaiterInv, TypeOK
<1>4. SingleRequest'
  BY <1>0, TokenType DEF Arrive, SingleRequest, TypeOK, netVars
<1>5. MessageInv'
  BY <1>0, TokenType DEF Arrive, MessageInv, OwnMessage, TypeOK, netVars
<1>6. EvaluationInv'
  BY <1>0 DEF Arrive, EvaluationInv, OwnEvaluation, TypeOK, netVars
<1>7. ReplyInv'
  BY DEF Arrive, ReplyInv, netVars
<1>8. ClosedInv'
  BY DEF Arrive, ClosedInv, connVars
<1> QED
  BY <1>1, <1>2, <1>3, <1>4, <1>5, <1>6, <1>7, <1>8

LEMMA ClientGoneInv ==
  ASSUME IInv, NEW r \in Requests, ClientGone(r)
  PROVE  IInv'
<1> USE DEF IInv
<1>1. TypeOK'
  BY DEF ClientGone, TypeOK, ConnTypeOK, netVars, connVars
<1>2. PathInv' /\ WaiterInv' /\ SingleRequest' /\ ReplyInv' /\ ClosedInv'
  BY DEF ClientGone, PathInv, WaiterInv, SingleRequest, ReplyInv, ClosedInv, netVars, connVars
<1>3. MessageInv' /\ EvaluationInv'
  BY DEF ClientGone, MessageInv, OwnMessage, EvaluationInv, OwnEvaluation, netVars
<1> QED
  BY <1>1, <1>2, <1>3

(* Answering in any position before "waiting" disturbs only the position and *)
(* the answer of the request.                                                *)
LEMMA DecodeInv ==
  ASSUME IInv, NEW r \in Requests, Decode(r)
  PROVE  IInv'
<1> USE DEF IInv
<1>0. /\ answer[r] = NoAnswer /\ payload[r] # NoPayload
      /\ r \notin registered /\ mch[r] = Empty
      /\ \A m \in buffer \cup wire : m.token # r
      /\ \A reply \in inbox : reply.token # r
      /\ evaluation[r] = NotEvaluated
  BY DEF Decode, PathInv, WaiterInv, SingleRequest, EvaluationInv
<1>1. TypeOK'
  BY FailType DEF Decode, Answer, TypeOK, ConnTypeOK, netVars, connVars
<1>2. PathInv'
  BY <1>0, FailType DEF Decode, Answer, PathInv, TypeOK
<1>3. WaiterInv' /\ SingleRequest'
  BY <1>0, TokenType DEF Decode, Answer, WaiterInv, SingleRequest, TypeOK, netVars
<1>4. MessageInv'
  BY DEF Decode, MessageInv, OwnMessage, netVars
<1>5. EvaluationInv'
  BY <1>0 DEF Decode, Answer, EvaluationInv, OwnEvaluation, TypeOK, netVars
<1>6. ReplyInv' /\ ClosedInv'
  BY DEF Decode, ReplyInv, ClosedInv, netVars, connVars
<1> QED
  BY <1>1, <1>2, <1>3, <1>4, <1>5, <1>6

(* A principal that the validator returns is a principal, never "".          *)
LEMMA ValidClaimsType ==
  ASSUME NEW token
  PROVE  \A c \in ValidClaims(token) : c \in Principals /\ c = PrincipalOf[token]
                                         /\ token \in GenuineTokens
BY DataAssumption DEF ValidClaims, ClaimsValid

LEMMA JWTAuthInv ==
  ASSUME IInv, NEW r \in Requests, JWTAuth(r)
  PROVE  IInv'
<1> USE DEF IInv
<1>0. /\ answer[r] = NoAnswer /\ payload[r] # NoPayload /\ WellFormed(payload[r])
      /\ r \notin registered /\ mch[r] = Empty
      /\ \A m \in buffer \cup wire : m.token # r
      /\ \A reply \in inbox : reply.token # r
      /\ evaluation[r] = NotEvaluated
  BY DEF JWTAuth, PathInv, WaiterInv, SingleRequest, EvaluationInv
<1>1. TypeOK'
  BY FailType, ValidClaimsType DEF JWTAuth, Answer, TypeOK, ConnTypeOK, netVars, connVars
<1>2. PathInv'
  BY <1>0, FailType DEF JWTAuth, Answer, PathInv, TypeOK
<1>3. WaiterInv' /\ SingleRequest'
  BY <1>0, TokenType DEF JWTAuth, Answer, WaiterInv, SingleRequest, TypeOK, netVars
<1>4. MessageInv'
  BY <1>0, TokenType DEF JWTAuth, MessageInv, OwnMessage, TypeOK, netVars
<1>5. EvaluationInv'
  BY <1>0 DEF JWTAuth, Answer, EvaluationInv, OwnEvaluation, TypeOK, netVars
<1>6. ReplyInv' /\ ClosedInv'
  BY DEF JWTAuth, ReplyInv, ClosedInv, netVars, connVars
<1> QED
  BY <1>1, <1>2, <1>3, <1>4, <1>5, <1>6

(* messagingRepository.Request, called by a handler with its own message.    *)
LEMMA RequestInv ==
  ASSUME IInv, NEW r \in Requests, NEW m \in Messages, NEW fail \in {503},
         pc[r] = "handler", m.token = r, OwnMessage(m), Request(r, m, fail),
         UNCHANGED <<payload, claims, ctxDone, mch, connVars>>
  PROVE  IInv'
<1> USE DEF IInv
<1>0. /\ answer[r] = NoAnswer /\ payload[r] # NoPayload /\ WellFormed(payload[r])
      /\ claims[r] \in ValidClaims(payload[r].bearer)
      /\ r \notin registered /\ mch[r] = Empty
      /\ \A x \in buffer \cup wire : x.token # r
      /\ \A reply \in inbox : reply.token # r
      /\ evaluation[r] = NotEvaluated
  BY DEF PathInv, WaiterInv, SingleRequest, EvaluationInv
<1>1. CASE Answer(r, Fail(fail)) /\ UNCHANGED <<registered, buffer, netVars>>
  <2>1. TypeOK' /\ PathInv'
    BY <1>0, <1>1, FailType DEF Answer, TypeOK, ConnTypeOK, PathInv, netVars, connVars
  <2>2. WaiterInv' /\ SingleRequest'
    BY <1>0, <1>1, TokenType DEF Answer, WaiterInv, SingleRequest, TypeOK, netVars
  <2>3. MessageInv' /\ EvaluationInv'
    BY <1>0, <1>1 DEF Answer, MessageInv, OwnMessage, EvaluationInv, OwnEvaluation,
                      TypeOK, netVars
  <2>4. ReplyInv' /\ ClosedInv'
    BY <1>1 DEF ReplyInv, ClosedInv, netVars, connVars
  <2> QED
    BY <2>1, <2>2, <2>3, <2>4
<1>2. CASE /\ Publish(m) /\ ~ctxDone[r]
           /\ pc' = [pc EXCEPT ![r] = "waiting"] /\ UNCHANGED answer
  <2> USE <1>2 DEF Publish, netVars
  <2>1. TypeOK'
    BY DEF TypeOK, ConnTypeOK, connVars
  <2>2. PathInv' /\ WaiterInv'
    BY <1>0 DEF PathInv, WaiterInv, TypeOK
  <2>3. SingleRequest'
    BY <1>0, TokenType DEF SingleRequest, TypeOK
  <2>4. MessageInv'
    BY <1>0 DEF MessageInv, OwnMessage
  <2>5. EvaluationInv'
    BY <1>0 DEF EvaluationInv, OwnEvaluation, TypeOK
  <2>6. ReplyInv' /\ ClosedInv'
    BY DEF ReplyInv, ClosedInv, connVars, Publishable, Buffering
  <2> QED
    BY <2>1, <2>2, <2>3, <2>4, <2>5, <2>6
<1> QED
  BY <1>1, <1>2 DEF Request

(* The lines of a message, completed or as they came.                        *)
LEMMA BuildMessageType ==
  ASSUME NEW principal \in Principals, NEW resources \in SUBSET (Resources \cup {""})
  PROVE  BuildMessage(principal, resources) \in SUBSET Query
<1>1. ASSUME NEW o \in resources \ {""}
      PROVE  Completed(o, principal) \in Query /\ Written[o] \in SUBSET Query
  BY DataAssumption DEF Query, Completed
<1> QED
  BY <1>1 DEF BuildMessage

LEMMA CheckAccessInv ==
  ASSUME IInv, NEW r \in Requests, CheckAccess(r)
  PROVE  IInv'
<1> DEFINE queries == BuildMessage(claims[r], payload[r].requests)
           m == [token |-> r, subject |-> AccessCheckSubject, queries |-> queries]
<1>0. /\ answer[r] = NoAnswer /\ payload[r] # NoPayload /\ WellFormed(payload[r])
      /\ pc[r] = "handler" /\ payload[r].endpoint = "check-access"
      /\ claims[r] \in ValidClaims(payload[r].bearer)
      /\ r \notin registered /\ mch[r] = Empty
      /\ \A x \in buffer \cup wire \cup inbox : x.token # r
      /\ evaluation[r] = NotEvaluated
  BY DEF IInv, CheckAccess, PathInv, WaiterInv, SingleRequest, EvaluationInv
<1>1. CASE queries = {} /\ Answer(r, OK({})) /\ UNCHANGED <<registered, buffer, netVars>>
  <2> USE DEF IInv
  <2>0. UNCHANGED <<payload, claims, ctxDone, mch, connVars>>
    BY DEF CheckAccess
  <2>1. TypeOK' /\ PathInv'
    BY <1>0, <1>1, <2>0, FailType, AnswerIsAnswer
       DEF Answer, TypeOK, ConnTypeOK, PathInv, netVars, connVars
  <2>2. WaiterInv' /\ SingleRequest'
    BY <1>0, <1>1, <2>0, TokenType DEF Answer, WaiterInv, SingleRequest, TypeOK, netVars
  <2>3. MessageInv' /\ EvaluationInv'
    BY <1>0, <1>1, <2>0 DEF Answer, MessageInv, OwnMessage, EvaluationInv, OwnEvaluation,
                            TypeOK, netVars
  <2>4. ReplyInv' /\ ClosedInv'
    BY <1>1, <2>0 DEF ReplyInv, ClosedInv, netVars, connVars
  <2> QED
    BY <2>1, <2>2, <2>3, <2>4
<1>2. CASE queries # {} /\ Request(r, m, CheckAccessStatus("other"))
  <2>1. payload[r] \in CheckPayload
    <3>1. payload[r] \in Payloads
      BY <1>0 DEF IInv, TypeOK
    <3> QED
      BY <1>0, <3>1, CheckRequests
  <2>2. queries \in SUBSET Query
    <3>1. payload[r].requests \in SUBSET (Resources \cup {""})
      BY <2>1 DEF CheckPayload
    <3> QED
      BY <1>0, <3>1, ValidClaimsType, BuildMessageType
  <2>3. m \in Messages
    BY <2>2 DEF Messages, CheckMessage
  <2>4. OwnMessage(m)
    BY <1>0, <1>2 DEF OwnMessage
  <2>5. CheckAccessStatus("other") \in {503}
    BY DEF CheckAccessStatus
  <2> QED
    BY <1>0, <1>2, <2>3, <2>4, <2>5, RequestInv DEF CheckAccess
<1> QED
  BY <1>1, <1>2 DEF CheckAccess

LEMMA MyGrantsInv ==
  ASSUME IInv, NEW r \in Requests, MyGrants(r)
  PROVE  IInv'
<1> DEFINE m == [token |-> r, subject |-> ReadTuplesSubject, user |-> claims[r],
                 objectType |-> payload[r].objectType]
<1>0. /\ WellFormed(payload[r]) /\ payload[r] # NoPayload
      /\ pc[r] = "handler" /\ payload[r].endpoint = "my-grants"
      /\ claims[r] \in ValidClaims(payload[r].bearer)
  BY DEF IInv, MyGrants, PathInv
<1>1. m \in Messages
  BY <1>0, ValidClaimsType DEF WellFormed, GrantsWellFormed, Messages, ReadMessage
<1>2. OwnMessage(m)
  BY <1>0 DEF OwnMessage
<1>3. MyGrantsStatus("other") \in {503}
  BY DEF MyGrantsStatus
<1> QED
  BY <1>0, <1>1, <1>2, <1>3, RequestInv DEF MyGrants

(* What RequestMsg returned is the request's own evaluation, or an error.    *)
LEMMA OwnOutcome ==
  ASSUME IInv, NEW r \in Requests, RequestReturns(r)
  PROVE  LET x == Outcome(payload[r].endpoint, mch[r])
         IN /\ x \in Answers
            /\ \/ mch[r] \in {Closed, NoResponders} /\ x = Fail(503)
               \/ mch[r] = evaluation[r] /\ evaluation[r] # NotEvaluated
                    /\ OwnEvaluation(r)
<1>1. CASE mch[r] \in {Closed, NoResponders}
  BY <1>1, BrokenOutcome, FailType
<1>2. CASE mch[r] = evaluation[r] /\ mch[r] # NotEvaluated
  <2>1. OwnEvaluation(r)
    BY <1>2 DEF IInv, EvaluationInv
  <2>2. CASE payload[r].endpoint = "check-access"
    <3>1. payload[r] \in CheckPayload
      <4>1. payload[r] \in Payloads
        BY <2>2 DEF IInv, TypeOK, NoPayload
      <4> QED
        BY <2>2, <4>1, CheckRequests
    <3>2. BuildMessage(claims[r], payload[r].requests) \in SUBSET Query
      <4>1. payload[r].requests \in SUBSET (Resources \cup {""})
        BY <3>1 DEF CheckPayload
      <4> QED
        BY <2>1, <4>1, ValidClaimsType, BuildMessageType DEF OwnEvaluation
    <3>3. mch[r] \in CheckEvaluation
      BY <1>2, <2>1, <2>2, <3>2, CheckEvaluationsType DEF OwnEvaluation
    <3> QED
      BY <1>2, <2>1, <2>2, <3>3, CheckOutcomeType
  <2>3. CASE payload[r].endpoint = "my-grants"
    <3>1. mch[r] \in ReadEvaluation
      BY <1>2, <2>1, <2>3, ValidClaimsType, ReadEvaluationsType DEF OwnEvaluation
    <3> QED
      BY <1>2, <2>1, <2>3, <3>1, ReadOutcomeType
  <2> QED
    BY <2>1, <2>2, <2>3 DEF OwnEvaluation
<1> QED
  BY <1>1, <1>2 DEF IInv, ReplyInv, RequestReturns

LEMMA RequestReturnsInv ==
  ASSUME IInv, NEW r \in Requests, RequestReturns(r)
  PROVE  IInv'
<1> DEFINE x == Outcome(payload[r].endpoint, mch[r])
<1>0. x \in Answers /\ x # NoAnswer
  BY OwnOutcome, AnswerIsAnswer
<1> HIDE DEF x
<1> USE DEF IInv
<1>1. /\ pc[r] = "waiting" /\ r \notin registered
      /\ answer' = [answer EXCEPT ![r] = x] /\ pc' = [pc EXCEPT ![r] = "answered"]
      /\ mch' = [mch EXCEPT ![r] = Empty]
      /\ UNCHANGED <<payload, claims, ctxDone, registered, buffer, netVars, connVars>>
  BY DEF RequestReturns, Answer, WaiterInv, x
<1>2. TypeOK' /\ PathInv'
  BY <1>0, <1>1 DEF TypeOK, ConnTypeOK, PathInv, netVars, connVars
<1>3. WaiterInv' /\ SingleRequest'
  BY <1>1, TokenType DEF WaiterInv, SingleRequest, TypeOK, netVars
<1>4. MessageInv' /\ EvaluationInv'
  BY <1>1 DEF MessageInv, OwnMessage, EvaluationInv, OwnEvaluation, TypeOK, netVars
<1>5. ReplyInv' /\ ClosedInv'
  BY <1>1 DEF ReplyInv, ClosedInv, TypeOK, netVars, connVars
<1> QED
  BY <1>2, <1>3, <1>4, <1>5

LEMMA RequestTimesOutInv ==
  ASSUME IInv, NEW r \in Requests, RequestTimesOut(r)
  PROVE  IInv'
<1> USE DEF IInv, RequestTimesOut, Answer
<1>1. TypeOK' /\ PathInv'
  BY FailType DEF TypeOK, ConnTypeOK, PathInv, netVars, connVars
<1>2. WaiterInv' /\ SingleRequest'
  BY TokenType DEF WaiterInv, SingleRequest, TypeOK, netVars
<1>3. MessageInv' /\ EvaluationInv'
  BY DEF MessageInv, OwnMessage, EvaluationInv, OwnEvaluation, TypeOK, netVars
<1>4. ReplyInv' /\ ClosedInv'
  BY DEF ReplyInv, ClosedInv, TypeOK, netVars, connVars
<1> QED
  BY <1>1, <1>2, <1>3, <1>4

(* fga-sync evaluates the message it was sent, for the request that sent it. *)
LEMMA ServeInv ==
  ASSUME IInv, NEW m \in wire, Serve(m)
  PROVE  IInv'
<1> USE DEF IInv
<1>0. PICK e \in Evaluations(m) :
        Reply(m, e) /\ evaluation' = [evaluation EXCEPT ![m.token] = e]
  BY DEF Serve
<1>1. m \in Messages /\ m.token \in Requests /\ OwnMessage(m)
  BY TokenType DEF TypeOK, MessageInv
<1>2. \/ /\ m.subject = AccessCheckSubject /\ m.queries \in SUBSET Query
         /\ e \in CheckEvaluations(m.queries)
      \/ /\ m.subject = ReadTuplesSubject /\ m.user \in Principals
         /\ e \in ReadEvaluations(m.user)
  BY <1>1 DEF Evaluations, Messages, CheckMessage, ReadMessage,
              AccessCheckSubject, ReadTuplesSubject
<1>3. e \in Evaluation
  BY <1>2, CheckEvaluationsType, ReadEvaluationsType DEF Evaluation
<1>4. e \notin {Empty, Closed, NoResponders, NotEvaluated}
  BY <1>3, EvaluationKinds
<1>5. /\ evaluation[m.token] = NotEvaluated
      /\ pc[m.token] \in {"waiting", "answered"}
      /\ mch[m.token] \in {Empty, Closed}
      /\ \A x \in (buffer \cup wire) \ {m} : x.token # m.token
      /\ \A reply \in inbox : reply.token # m.token
      /\ m \notin buffer
  BY DEF SingleRequest
<1>6. /\ UNCHANGED <<pc, payload, claims, ctxDone, answer, registered, mch, buffer>>
      /\ UNCHANGED <<conn, attempts>>
      /\ wire' = wire \ {m}
      /\ inbox' = inbox \cup {[token |-> m.token, body |-> e]}
  BY <1>0 DEF Serve, Reply, handlerVars, connVars
<1>7. TypeOK'
  BY <1>0, <1>1, <1>3, <1>6 DEF TypeOK, ConnTypeOK, Replies
<1>8. PathInv' /\ WaiterInv' /\ ClosedInv'
  BY <1>6 DEF PathInv, WaiterInv, ClosedInv
<1>9. SingleRequest'
  BY <1>0, <1>1, <1>5, <1>6, TokenType DEF SingleRequest, TypeOK
<1>10. MessageInv'
  BY <1>6 DEF MessageInv, OwnMessage
<1>11. EvaluationInv'
  <2>1. evaluation'[m.token] = e
    BY <1>0, <1>1 DEF TypeOK
  <2>2. OwnEvaluation(m.token)'
    BY <1>1, <1>2, <1>6, <2>1 DEF OwnMessage, OwnEvaluation, AccessCheckSubject, ReadTuplesSubject
  <2>3. \A r \in Requests \ {m.token} : evaluation'[r] = evaluation[r]
    BY <1>0 DEF TypeOK
  <2> QED
    BY <1>5, <1>6, <2>2, <2>3 DEF EvaluationInv, OwnEvaluation
<1>12. ReplyInv'
  BY <1>0, <1>1, <1>4, <1>5, <1>6, TokenType DEF ReplyInv, TypeOK
<1> QED
  BY <1>7, <1>8, <1>9, <1>10, <1>11, <1>12

LEMMA NobodySubscribedInv ==
  ASSUME IInv, NEW m \in wire, NobodySubscribed(m)
  PROVE  IInv'
<1> USE DEF IInv, NobodySubscribed, Reply, handlerVars, connVars
<1>1. m.token \in Requests
  BY TokenType DEF TypeOK
<1>2. TypeOK'
  BY <1>1 DEF TypeOK, ConnTypeOK, Replies
<1>3. PathInv' /\ WaiterInv' /\ ClosedInv'
  BY DEF PathInv, WaiterInv, ClosedInv
<1>4. SingleRequest'
  BY <1>1, TokenType DEF SingleRequest, TypeOK
<1>5. MessageInv' /\ EvaluationInv'
  BY DEF MessageInv, OwnMessage, EvaluationInv, OwnEvaluation
<1>6. ReplyInv'
  BY DEF ReplyInv
<1> QED
  BY <1>2, <1>3, <1>4, <1>5, <1>6

LEMMA LossInv ==
  ASSUME IInv, \/ \E m \in wire : LoseMessage(m)
               \/ \E reply \in inbox : LoseReply(reply)
  PROVE  IInv'
<1> USE DEF IInv, LoseMessage, LoseReply, handlerVars, connVars
<1>1. TypeOK' /\ PathInv' /\ WaiterInv' /\ ClosedInv'
  BY DEF TypeOK, ConnTypeOK, PathInv, WaiterInv, ClosedInv
<1>2. SingleRequest'
  BY DEF SingleRequest
<1>3. MessageInv' /\ EvaluationInv' /\ ReplyInv'
  BY DEF MessageInv, OwnMessage, EvaluationInv, OwnEvaluation, ReplyInv
<1> QED
  BY <1>1, <1>2, <1>3

LEMMA DeliverInv ==
  ASSUME IInv, NEW reply \in inbox, Deliver(reply)
  PROVE  IInv'
<1> USE DEF IInv
<1>0. reply \in Replies /\ reply.token \in Requests
  BY TokenType DEF TypeOK
<1>1. UNCHANGED <<pc, payload, claims, ctxDone, answer, buffer, wire, evaluation,
                  conn, attempts>>
  BY DEF Deliver, handlerVars, connVars
<1>2. CASE reply.token \in registered
  <2>1. /\ inbox' = inbox \ {reply}
        /\ mch' = [mch EXCEPT ![reply.token] = reply.body]
        /\ registered' = registered \ {reply.token}
        /\ pc[reply.token] = "waiting"
        /\ reply.body # Empty
        /\ \A m \in buffer \cup wire : m.token # reply.token
        /\ \A x \in inbox' : x.token # reply.token
    <3>1. reply.body # Empty
      BY <1>0, EvaluationKinds DEF Replies, Empty, NoResponders
    <3> QED
      BY <1>0, <1>2, <3>1 DEF Deliver, WaiterInv, SingleRequest
  <2>2. TypeOK'
    BY <1>0, <1>1, <2>1 DEF TypeOK, ConnTypeOK, Replies
  <2>3. PathInv' /\ WaiterInv' /\ ClosedInv'
    BY <1>0, <1>1, <2>1 DEF PathInv, WaiterInv, ClosedInv, TypeOK
  <2>4. SingleRequest'
    BY <1>0, <1>1, <2>1, TokenType DEF SingleRequest, TypeOK
  <2>5. MessageInv' /\ EvaluationInv'
    BY <1>1, <2>1 DEF MessageInv, OwnMessage, EvaluationInv, OwnEvaluation
  <2>6. ReplyInv'
    BY <1>0, <1>1, <2>1 DEF ReplyInv, TypeOK
  <2> QED
    BY <2>2, <2>3, <2>4, <2>5, <2>6
<1>3. CASE reply.token \notin registered
  <2>1. inbox' = inbox \ {reply} /\ UNCHANGED <<mch, registered>>
    BY <1>3 DEF Deliver
  <2>2. TypeOK' /\ PathInv' /\ WaiterInv' /\ ClosedInv'
    BY <1>1, <2>1 DEF TypeOK, ConnTypeOK, PathInv, WaiterInv, ClosedInv
  <2>3. SingleRequest' /\ ReplyInv'
    BY <1>1, <2>1 DEF SingleRequest, ReplyInv
  <2>4. MessageInv' /\ EvaluationInv'
    BY <1>1, <2>1 DEF MessageInv, OwnMessage, EvaluationInv, OwnEvaluation
  <2> QED
    BY <2>2, <2>3, <2>4
<1> QED
  BY <1>2, <1>3

(* A change of the connection's status, and what it does to those who wait.  *)
LEMMA StatusChangedInv ==
  ASSUME IInv, ConnTypeOK', StatusChanged, conn = "CLOSED" => conn' = "CLOSED"
  PROVE  IInv'
<1> USE DEF IInv, handlerVars, netVars
<1>1. CASE conn' = "CLOSED"
  <2>1. /\ mch' = [r \in Requests |-> IF r \in registered THEN Closed ELSE mch[r]]
        /\ registered' = {} /\ buffer' = {}
        /\ UNCHANGED <<pc, payload, claims, ctxDone, answer, wire, inbox, evaluation>>
    BY <1>1 DEF StatusChanged
  <2>2. TypeOK'
    BY <2>1 DEF TypeOK
  <2>3. PathInv' /\ ClosedInv'
    BY <2>1 DEF PathInv, ClosedInv
  <2>4. WaiterInv'
    BY <2>1 DEF WaiterInv, Closed, Empty
  <2>5. SingleRequest'
    BY <2>1, TokenType DEF SingleRequest, TypeOK
  <2>6. MessageInv' /\ EvaluationInv'
    BY <2>1 DEF MessageInv, OwnMessage, EvaluationInv, OwnEvaluation
  <2>7. ReplyInv'
    BY <2>1 DEF ReplyInv
  <2> QED
    BY <2>2, <2>3, <2>4, <2>5, <2>6, <2>7
<1>2. CASE conn' # "CLOSED"
  <2>1. UNCHANGED <<pc, payload, claims, ctxDone, answer, registered, mch, buffer,
                    wire, inbox, evaluation>>
    BY <1>2 DEF StatusChanged
  <2>2. TypeOK' /\ PathInv' /\ WaiterInv' /\ ClosedInv'
    BY <1>2, <2>1 DEF TypeOK, PathInv, WaiterInv, ClosedInv
  <2>3. SingleRequest' /\ ReplyInv'
    BY <2>1 DEF SingleRequest, ReplyInv
  <2>4. MessageInv' /\ EvaluationInv'
    BY <2>1 DEF MessageInv, OwnMessage, EvaluationInv, OwnEvaluation
  <2> QED
    BY <2>2, <2>3, <2>4
<1> QED
  BY <1>1, <1>2

(* The connection keeps its own type and never leaves CLOSED.                *)
LEMMA ConnSteps ==
  ASSUME ConnTypeOK,
         \/ LoseServer \/ ReconnectFails \/ Reconnect
         \/ Close \/ DrainSubsDone \/ DrainPubsDone
  PROVE  ConnTypeOK' /\ (conn = "CLOSED" => conn' = "CLOSED")
<1> USE MaxReconnectsAssumption DEF ConnTypeOK, Status, Draining
<1>1. CASE LoseServer
  BY <1>1 DEF LoseServer
<1>2. CASE ReconnectFails
  BY <1>2 DEF ReconnectFails
<1>3. CASE Reconnect
  BY <1>3 DEF Reconnect
<1>4. CASE Close
  BY <1>4 DEF Close
<1>5. CASE DrainSubsDone \/ DrainPubsDone
  BY <1>5 DEF DrainSubsDone, DrainPubsDone
<1> QED
  BY <1>1, <1>2, <1>3, <1>4, <1>5

LEMMA ReconnectedInv ==
  ASSUME IInv, Reconnected
  PROVE  IInv'
<1> USE DEF IInv, Reconnected, handlerVars
<1>0. ConnTypeOK' /\ conn' = "CONNECTED"
  BY ConnSteps DEF TypeOK, Reconnect
<1>1. TypeOK' /\ PathInv' /\ WaiterInv' /\ ClosedInv'
  BY <1>0 DEF TypeOK, PathInv, WaiterInv, ClosedInv
<1>2. SingleRequest' /\ ReplyInv'
  BY DEF SingleRequest, ReplyInv
<1>3. MessageInv' /\ EvaluationInv'
  BY DEF MessageInv, OwnMessage, EvaluationInv, OwnEvaluation
<1> QED
  BY <1>1, <1>2, <1>3

LEMMA StutterInv ==
  ASSUME IInv, UNCHANGED vars
  PROVE  IInv'
<1> USE DEF IInv, vars, handlerVars, netVars, connVars
<1>1. TypeOK' /\ PathInv' /\ WaiterInv' /\ ClosedInv'
  BY DEF TypeOK, ConnTypeOK, PathInv, WaiterInv, ClosedInv
<1>2. SingleRequest' /\ ReplyInv'
  BY DEF SingleRequest, ReplyInv
<1>3. MessageInv' /\ EvaluationInv'
  BY DEF MessageInv, OwnMessage, EvaluationInv, OwnEvaluation
<1> QED
  BY <1>1, <1>2, <1>3

LEMMA NextInv == IInv /\ [Next]_vars => IInv'
<1> SUFFICES ASSUME IInv, [Next]_vars PROVE IInv'
  OBVIOUS
<1>1. ASSUME NEW r \in Requests, Client(r) \/ Handler(r) PROVE IInv'
  BY <1>1, ArriveInv, ClientGoneInv, DecodeInv, JWTAuthInv, CheckAccessInv, MyGrantsInv,
     RequestReturnsInv, RequestTimesOutInv DEF Client, Handler
<1>2. CASE Backend
  BY <1>2, ServeInv, NobodySubscribedInv, LossInv, DeliverInv DEF Backend
<1>3. CASE Connection
  <2>1. ConnTypeOK
    BY DEF IInv, TypeOK
  <2> QED
    BY <1>3, <2>1, ConnSteps, StatusChangedInv, ReconnectedInv DEF Connection
<1>4. CASE UNCHANGED vars
  BY <1>4, StutterInv
<1> QED
  BY <1>1, <1>2, <1>3, <1>4 DEF Next

-----------------------------------------------------------------------------
(* Results about the specification.                                          *)

(* The inductive invariant holds in every behaviour.                         *)
THEOREM Invariance == Spec => []IInv
BY InitInv, NextInv, PTL DEF Spec

(* Type correctness.                                                         *)
THEOREM TypeCorrect == Spec => []TypeOK
<1>1. IInv => TypeOK
  BY DEF IInv
<1> QED
  BY <1>1, Invariance, PTL

(* No goroutine waits without a token in respMap or something in its channel,*)
(* and none leaves either behind.                                            *)
THEOREM NobodyWaitsInVain == Spec => []WaiterInv
<1>1. IInv => WaiterInv
  BY DEF IInv
<1> QED
  BY <1>1, Invariance, PTL

(* A request has at most one message, evaluation or reply in the system:     *)
(* nothing retries after a timeout or a reconnect.                           *)
THEOREM OneRequestEach == Spec => []SingleRequest
<1>1. IInv => SingleRequest
  BY DEF IInv
<1> QED
  BY <1>1, Invariance, PTL

(* What reaches a request is its own evaluation: no reply, late or not, goes *)
(* to a request it does not belong to.                                       *)
THEOREM NoCrossTalk == Spec => []ReplyInv
<1>1. IInv => ReplyInv
  BY DEF IInv
<1> QED
  BY <1>1, Invariance, PTL

(* Every message for fga-sync belongs to a validated caller; each line       *)
(* names that caller and one of its resources, or stood in one of them.      *)
THEOREM AsksForCaller == Spec => []OnBehalfOfCaller
<1>1. IInv => OnBehalfOfCaller
  <2> SUFFICES ASSUME IInv, NEW m \in buffer \cup wire
               PROVE  LET p == payload[m.token]
                          caller == claims[m.token]
                      IN /\ caller = PrincipalOf[p.bearer]
                         /\ p.bearer \in GenuineTokens
                         /\ IF m.subject = AccessCheckSubject
                            THEN /\ p.endpoint = "check-access"
                                 /\ \A q \in m.queries : \E o \in p.requests \ {""} :
                                      q = Completed(o, caller) \/ q \in Written[o]
                                 /\ (\A o \in p.requests \ {""} : OneLine(o)) =>
                                      \A q \in m.queries :
                                        q.user = caller /\ q.object \in p.requests
                            ELSE p.endpoint = "my-grants" /\ m.user = caller
    BY DEF OnBehalfOfCaller
  <2> DEFINE p == payload[m.token]
             caller == claims[m.token]
  <2>1. OwnMessage(m)
    BY DEF IInv, MessageInv
  <2>2. caller = PrincipalOf[p.bearer] /\ p.bearer \in GenuineTokens
    BY <2>1, ValidClaimsType DEF OwnMessage
  <2>3. CASE m.subject = AccessCheckSubject
    <3>1. p.endpoint = "check-access" /\ m.queries = BuildMessage(caller, p.requests)
      BY <2>1, <2>3 DEF OwnMessage, AccessCheckSubject, ReadTuplesSubject
    <3>2. \A q \in m.queries : \E o \in p.requests \ {""} :
            q = Completed(o, caller) \/ q \in Written[o]
      BY <3>1 DEF BuildMessage
    <3>3. ASSUME \A o \in p.requests \ {""} : OneLine(o), NEW q \in m.queries
          PROVE  q.user = caller /\ q.object \in p.requests
      <4>1. PICK o \in p.requests \ {""} : q = Completed(o, caller) \/ q \in Written[o]
        BY <3>2, <3>3
      <4>2. p \in CheckPayload
        <5>1. m.token \in Requests
          BY TokenType DEF IInv, TypeOK
        <5>2. payload[m.token] \in Payloads \cup {NoPayload}
          BY <5>1 DEF IInv, TypeOK
        <5>3. NoPayload.endpoint # "check-access"
          BY DEF NoPayload
        <5>4. p \in Payloads
          BY <3>1, <5>2, <5>3
        <5> QED
          BY <3>1, <5>4, CheckRequests
      <4>3. o \in Resources
        BY <4>1, <4>2 DEF CheckPayload
      <4>4. LastLine[o] = o
        BY <3>3 DEF OneLine
      <4>5. Written[o] = {}
        BY <4>3, <4>4, LinesOf
      <4>6. q = [object |-> o, user |-> caller]
        BY <4>1, <4>4, <4>5 DEF Completed
      <4> QED
        BY <4>6
    <3> QED
      BY <2>2, <2>3, <3>1, <3>2, <3>3
  <2>4. CASE m.subject # AccessCheckSubject
    BY <2>1, <2>2, <2>4 DEF OwnMessage
  <2> QED
    BY <2>3, <2>4
<1> QED
  BY <1>1, Invariance, PTL

(* Once closed, the connection stays closed, nothing new leaves and nobody   *)
(* waits.                                                                    *)
THEOREM ClosedForGood == Spec => ClosedIsFinal
<1> DEFINE Final == conn = "CLOSED" =>
                      /\ conn' = "CLOSED"
                      /\ buffer' \cup wire' \subseteq wire
                      /\ registered' = {}
<1>1. IInv /\ [Next]_vars => [Final]_vars
  <2> SUFFICES ASSUME IInv, Next, conn = "CLOSED"
               PROVE  /\ conn' = "CLOSED"
                      /\ buffer' \cup wire' \subseteq wire
                      /\ registered' = {}
    OBVIOUS
  <2> USE DEF netVars, connVars, handlerVars
  <2>0. registered = {} /\ buffer = {} /\ ConnTypeOK
    BY DEF IInv, ClosedInv, TypeOK
  <2>1. ASSUME NEW r \in Requests, Client(r) \/ Decode(r) \/ JWTAuth(r)
                                     \/ RequestReturns(r) \/ RequestTimesOut(r)
        PROVE  UNCHANGED <<conn, buffer, wire>> /\ registered' = {}
    BY <2>0, <2>1 DEF Client, Arrive, ClientGone, Decode, JWTAuth, RequestReturns,
                      RequestTimesOut
  <2>2. ASSUME NEW r \in Requests, CheckAccess(r) \/ MyGrants(r)
        PROVE  UNCHANGED <<conn, buffer, wire>> /\ registered' = {}
    BY <2>0, <2>2 DEF CheckAccess, MyGrants, Request, Publish, Publishable, Buffering
  <2>3. CASE Backend
    BY <2>0, <2>3 DEF Backend, Serve, NobodySubscribed, Reply, LoseMessage, LoseReply,
                      Deliver, Receiving
  <2>4. CASE Connection
    <3>1. conn' = "CLOSED"
      BY <2>0, <2>4, ConnSteps DEF Connection, Reconnected
    <3> QED
      BY <2>0, <2>4, <3>1 DEF Connection, StatusChanged, Reconnected, Reconnect
  <2> QED
    BY <2>0, <2>1, <2>2, <2>3, <2>4 DEF Next, Handler
<1> QED
  BY <1>1, Invariance, PTL DEF Spec, ClosedIsFinal
-----------------------------------------------------------------------------
(* RequestPath implements AccessContract.                                    *)

LEMMA SameValidity ==
  ASSUME NEW p \in Payloads
  PROVE  WellFormed(p) <=> Contract!Valid(p)
BY DataAssumption
   DEF CheckPayload, GrantsPayload, WellFormed, CheckWellFormed, GrantsWellFormed,
       Contract!Valid

LEMMA SameAuthenticity ==
  ASSUME NEW p \in Payloads, NEW c \in ValidClaims(p.bearer)
  PROVE  Contract!Authentic(p) /\ c = PrincipalOf[p.bearer] /\ c \in Principals
<1>1. c \in Principals /\ c = PrincipalOf[p.bearer] /\ p.bearer \in GenuineTokens
  BY ValidClaimsType
<1> QED
  BY <1>1, NotBlank DEF Contract!Authentic

LEMMA SameQueries ==
  ASSUME NEW p \in Payloads, p.endpoint = "check-access", NEW c \in ValidClaims(p.bearer)
  PROVE  BuildMessage(c, p.requests) = Contract!Asked(p)
<1>1. p.requests \in SUBSET (Resources \cup {""})
  BY CheckRequests
<1>2. c = PrincipalOf[p.bearer] /\ c \in Principals
  BY ValidClaimsType
<1>3. \A o \in p.requests \ {""} : Written[o] \in SUBSET Query
  BY <1>1, LinesOf
<1>4. BuildMessage(c, p.requests) \in SUBSET Query
  BY <1>1, <1>2, BuildMessageType
<1>5. ASSUME NEW q \in Query
      PROVE  q \in BuildMessage(c, p.requests) <=> q \in Contract!Asked(p)
  <2>1. ASSUME NEW o PROVE q = Completed(o, c) <=> q.object = LastLine[o] /\ q.user = c
    <3>1. q = [object |-> q.object, user |-> q.user]
      BY DEF Query
    <3> QED
      BY <3>1 DEF Completed
  <2>2. q \in BuildMessage(c, p.requests) <=>
          \E o \in p.requests \ {""} : q = Completed(o, c) \/ q \in Written[o]
    BY DEF BuildMessage
  <2>3. q \in Contract!Asked(p) <=>
          \E o \in p.requests \ {""} :
            q \in Written[o] \/ (q.object = LastLine[o] /\ q.user = c)
    BY <1>2 DEF Contract!Asked, Contract!Query, Query
  <2> QED
    BY <2>1, <2>2, <2>3
<1>6. Contract!Asked(p) \subseteq Query
  BY DEF Contract!Asked, Contract!Query, Query
<1> QED
  BY <1>4, <1>5, <1>6

(* The service's reading of its own evaluation is the contract's.            *)
LEMMA SameAnswer ==
  /\ \A e \in CheckEvaluation : Outcome("check-access", e) = Contract!Answered(e)
  /\ \A e \in ReadEvaluation : Outcome("my-grants", e) = Contract!Answered(e)
<1>1. ASSUME NEW e \in [kind : {"lines"}, lines : SUBSET Decision, firstSpace : Nat]
      PROVE  Outcome("check-access", e) = Contract!Answered(e)
  <2>1. Outcome("check-access", e) = IF e.firstSpace < 20 THEN Fail(500) ELSE OK(e.lines)
    BY DEF Outcome, Closed, NoResponders, ParseResponse, ResultLines, CheckAccessStatus, SanityBytes
  <2>2. CASE e.firstSpace < 20
    BY <2>1, <2>2 DEF Contract!Answered, Fail, Contract!Fail
  <2>3. CASE e.firstSpace >= 20
    BY <2>1, <2>3 DEF Contract!Answered, OK, Contract!OK
  <2> QED
    BY <2>2, <2>3
<1>2. ASSUME NEW e \in [kind : {"text"}, firstSpace : ErrorTexts]
      PROVE  Outcome("check-access", e) = Contract!Answered(e)
  <2>1. e.kind = "text" /\ e.firstSpace \in Nat
    BY DataAssumption
  <2>2. Outcome("check-access", e) =
          IF e.firstSpace < 20 THEN Fail(500) ELSE OK({[text |-> e.firstSpace]})
    BY <2>1 DEF Outcome, Closed, NoResponders, ParseResponse, ResultLines, CheckAccessStatus, SanityBytes
  <2>3. CASE e.firstSpace < 20
    BY <2>1, <2>2, <2>3 DEF Contract!Answered, Fail, Contract!Fail
  <2>4. CASE e.firstSpace >= 20
    BY <2>1, <2>2, <2>4 DEF Contract!Answered, OK, Contract!OK
  <2> QED
    BY <2>1, <2>3, <2>4
<1>3. ASSUME NEW e \in [kind : {"tuples"}, lines : SUBSET Query]
      PROVE  Outcome("my-grants", e) = Contract!Answered(e)
  BY DEF Outcome, Closed, NoResponders, OK, Contract!OK, Contract!Answered, ReadTuplesResult
<1>4. Outcome("my-grants", FgaError) = Contract!Answered(FgaError)
  BY DEF Outcome, Closed, NoResponders, Fail, Contract!Fail, Contract!Answered,
         ReadTuplesResult, MyGrantsStatus, FgaError
<1>5. Outcome("my-grants", NotJSON) = Contract!Answered(NotJSON)
  BY DEF Outcome, Closed, NoResponders, Fail, Contract!Fail, Contract!Answered,
         ReadTuplesResult, MyGrantsStatus, NotJSON
<1> QED
  BY <1>1, <1>2, <1>3, <1>4, <1>5 DEF CheckEvaluation, ReadEvaluation

(* The data of the contract is the data of the path.                         *)
LEMMA SameData ==
  /\ Contract!NoAnswer = NoAnswer
  /\ Contract!NotEvaluated = NotEvaluated
  /\ Contract!NotOpen = NoPayload
  /\ \A s \in {400, 401, 503} : Contract!Fail(s) = Fail(s)
  /\ Contract!OK({}) = OK({})
  /\ \A queries \in SUBSET Query : Contract!CheckEvaluations(queries) = CheckEvaluations(queries)
  /\ \A user \in Principals : Contract!ReadEvaluations(user) = ReadEvaluations(user)
<1>1. \A queries \in SUBSET Query : Contract!CheckEvaluations(queries) = CheckEvaluations(queries)
  BY DEF CheckEvaluations, Contract!CheckEvaluations, LinesReply, Contract!LinesReply,
         TextReply, Contract!TextReply, DecisionReplies, Contract!DecisionReplies, Decided, Contract!Decided, Spaces, Contract!Spaces,
         SanityBytes, Contract!SanityBytes
<1>2. \A user \in Principals : Contract!ReadEvaluations(user) = ReadEvaluations(user)
  BY DEF ReadEvaluations, Contract!ReadEvaluations, TuplesReply, Contract!TuplesReply,
         FgaError, Contract!FgaError, NotJSON, Contract!NotJSON
<1> QED
  BY <1>1, <1>2
     DEF NoAnswer, Contract!NoAnswer, NotEvaluated, Contract!NotEvaluated, NoPayload,
         Contract!NotOpen, Fail, Contract!Fail, OK, Contract!OK

(* A first answer is a step of the contract, given the promise it keeps.     *)
LEMMA AnswerStep ==
  ASSUME IInv, NEW r \in Requests, pc[r] \notin {"idle", "answered"}, NEW x,
         Answer(r, x), UNCHANGED <<payload, evaluation>>
  PROVE  Contract!GiveAnswer(r, x) /\ payload[r] \in Payloads
BY SameData DEF IInv, TypeOK, PathInv, Answer, Contract!GiveAnswer

LEMMA ServeRefines ==
  ASSUME IInv, NEW m \in wire, Serve(m)
  PROVE  Contract!Evaluate(m.token)
<1> DEFINE p == payload[m.token]
           c == claims[m.token]
<1>1. /\ m \in Messages /\ m.token \in Requests /\ OwnMessage(m)
      /\ evaluation[m.token] = NotEvaluated /\ p \in Payloads /\ p # NoPayload
  <2>1. m \in Messages /\ m.token \in Requests /\ OwnMessage(m)
    BY TokenType DEF IInv, TypeOK, MessageInv
  <2>2. evaluation[m.token] = NotEvaluated /\ pc[m.token] # "idle"
    BY DEF IInv, SingleRequest
  <2> QED
    BY <2>1, <2>2 DEF IInv, TypeOK, PathInv
<1>2. Contract!Valid(p) /\ Contract!Authentic(p) /\ c = PrincipalOf[p.bearer] /\ c \in Principals
  BY <1>1, SameValidity, SameAuthenticity DEF OwnMessage
<1>3. PICK e \in Evaluations(m) :
        evaluation' = [evaluation EXCEPT ![m.token] = e]
  BY DEF Serve
<1>4. e \in Contract!Computed(p)
  <2>1. CASE m.subject = AccessCheckSubject
    <3>1. /\ p.endpoint = "check-access" /\ m.queries = BuildMessage(c, p.requests)
          /\ m.queries # {}
      BY <1>1, <2>1 DEF OwnMessage, AccessCheckSubject, ReadTuplesSubject
    <3>2. m.queries = Contract!Asked(p)
      BY <1>1, <3>1, SameQueries DEF OwnMessage
    <3>3. m.queries \in SUBSET Query
      BY <1>1, <2>1 DEF Messages, CheckMessage, ReadMessage, AccessCheckSubject,
                        ReadTuplesSubject
    <3> QED
      BY <1>3, <2>1, <3>1, <3>2, <3>3, SameData DEF Evaluations, Contract!Computed
  <2>2. CASE m.subject # AccessCheckSubject
    <3>1. p.endpoint = "my-grants" /\ m.user = c
      BY <1>1, <2>2 DEF OwnMessage
    <3> QED
      BY <1>2, <1>3, <2>2, <3>1, SameData DEF Evaluations, Contract!Computed
  <2> QED
    BY <2>1, <2>2
<1>5. UNCHANGED <<payload, answer>>
  BY DEF Serve, handlerVars
<1> QED
  BY <1>1, <1>2, <1>3, <1>4, <1>5, SameData DEF Contract!Evaluate

(* A reply of fga-sync becomes the answer the contract gives to it.          *)
LEMMA ReturnedAnswer ==
  ASSUME NEW r \in Requests, payload[r] \in Payloads, OwnEvaluation(r)
  PROVE  Outcome(payload[r].endpoint, evaluation[r]) = Contract!Answered(evaluation[r])
<1> DEFINE p == payload[r]
<1>1. claims[r] \in ValidClaims(p.bearer)
  BY DEF OwnEvaluation
<1>2. CASE p.endpoint = "check-access"
  <2>1. p.requests \in SUBSET (Resources \cup {""})
    BY <1>2, CheckRequests
  <2>2. BuildMessage(claims[r], p.requests) \in SUBSET Query
    BY <1>1, <2>1, ValidClaimsType, BuildMessageType
  <2>3. evaluation[r] \in CheckEvaluation
    BY <1>2, <2>2, CheckEvaluationsType DEF OwnEvaluation
  <2> QED
    BY <1>2, <2>3, SameAnswer
<1>3. CASE p.endpoint = "my-grants"
  <2>1. evaluation[r] \in ReadEvaluation
    BY <1>1, <1>3, ValidClaimsType, ReadEvaluationsType DEF OwnEvaluation
  <2> QED
    BY <1>3, <2>1, SameAnswer
<1> QED
  BY <1>2, <1>3 DEF OwnEvaluation

LEMMA HandlerRefines ==
  ASSUME IInv, NEW r \in Requests, Handler(r)
  PROVE  Contract!Next \/ UNCHANGED <<payload, evaluation, answer>>
<1> DEFINE p == payload[r]
<1>1. CASE Decode(r)
  <2>1. CASE UNCHANGED answer
    BY <1>1, <2>1 DEF Decode, netVars
  <2>2. CASE ~WellFormed(p) /\ Answer(r, Fail(400))
    <3>1. Contract!GiveAnswer(r, Fail(400)) /\ p \in Payloads
      BY <1>1, <2>2, AnswerStep DEF Decode, netVars
    <3> QED
      BY <2>2, <3>1, SameValidity, SameData DEF Contract!Next, Contract!Reject
  <2> QED
    BY <1>1, <2>1, <2>2 DEF Decode
<1>2. CASE JWTAuth(r)
  <2>1. CASE UNCHANGED answer
    BY <1>2, <2>1 DEF JWTAuth, netVars
  <2>2. CASE Answer(r, Fail(401))
    <3>1. Contract!GiveAnswer(r, Fail(401)) /\ p \in Payloads /\ WellFormed(p)
      BY <1>2, <2>2, AnswerStep DEF JWTAuth, netVars, IInv, PathInv
    <3> QED
      BY <3>1, SameValidity, SameData DEF Contract!Next, Contract!Refuse
  <2> QED
    BY <1>2, <2>1, <2>2 DEF JWTAuth
<1>3. ASSUME pc[r] \in {"handler", "waiting"}, Answer(r, Fail(503)),
             UNCHANGED <<payload, evaluation>>
      PROVE  Contract!Next
  <2>1. Contract!GiveAnswer(r, Fail(503)) /\ p \in Payloads
    BY <1>3, AnswerStep
  <2>2. WellFormed(p) /\ claims[r] \in ValidClaims(p.bearer)
    BY <1>3 DEF IInv, PathInv
  <2> QED
    BY <2>1, <2>2, SameValidity, SameAuthenticity, SameData DEF Contract!Next, Contract!GiveUp
<1>4. CASE CheckAccess(r)
  <2> DEFINE queries == BuildMessage(claims[r], p.requests)
  <2>1. CASE UNCHANGED answer
    BY <1>4, <2>1 DEF CheckAccess, Request, Publish, netVars
  <2>2. CASE queries # {} /\ Answer(r, Fail(503))
    BY <1>3, <1>4, <2>2 DEF CheckAccess, Request, Publish, netVars
  <2>3. CASE queries = {} /\ Answer(r, OK({}))
    <3>1. UNCHANGED <<payload, evaluation>>
      BY <1>4, <2>3 DEF CheckAccess, netVars
    <3>2. Contract!GiveAnswer(r, OK({})) /\ p \in Payloads
      BY <1>4, <2>3, <3>1, AnswerStep DEF CheckAccess
    <3>3. WellFormed(p) /\ claims[r] \in ValidClaims(p.bearer) /\ p.endpoint = "check-access"
      BY <1>4 DEF CheckAccess, IInv, PathInv
    <3>4. Contract!Valid(p) /\ Contract!Authentic(p) /\ Contract!Asked(p) = {}
      BY <2>3, <3>2, <3>3, SameValidity, SameAuthenticity, SameQueries
    <3> QED
      BY <3>2, <3>3, <3>4, SameData DEF Contract!Next, Contract!NothingAsked
  <2> QED
    BY <1>4, <2>1, <2>2, <2>3 DEF CheckAccess, Request, CheckAccessStatus
<1>5. CASE MyGrants(r)
  <2>1. CASE UNCHANGED answer
    BY <1>5, <2>1 DEF MyGrants, Request, Publish, netVars
  <2>2. CASE Answer(r, Fail(503))
    BY <1>3, <1>5, <2>2 DEF MyGrants, Request, Publish, netVars
  <2> QED
    BY <1>5, <2>1, <2>2 DEF MyGrants, Request, MyGrantsStatus
<1>6. CASE RequestReturns(r)
  <2> DEFINE x == Outcome(p.endpoint, mch[r])
  <2>1. CASE x = Fail(503)
    BY <1>3, <1>6, <2>1 DEF RequestReturns, netVars
  <2>2. CASE mch[r] = evaluation[r] /\ evaluation[r] # NotEvaluated /\ OwnEvaluation(r)
    <3>1. Contract!GiveAnswer(r, x) /\ p \in Payloads
      BY <1>6, AnswerStep DEF RequestReturns, netVars
    <3>3. x = Contract!Answered(evaluation[r])
      BY <2>2, <3>1, ReturnedAnswer
    <3> QED
      BY <2>2, <3>1, <3>3, SameData DEF Contract!Next, Contract!Report
  <2> QED
    BY <1>6, <2>1, <2>2, OwnOutcome
<1>7. CASE RequestTimesOut(r)
  BY <1>3, <1>7 DEF RequestTimesOut, netVars
<1> QED
  BY <1>1, <1>2, <1>4, <1>5, <1>6, <1>7 DEF Handler

LEMMA ContractStep == IInv /\ [Next]_vars => [Contract!Next]_(Contract!cvars)
<1> SUFFICES ASSUME IInv, [Next]_vars
             PROVE  Contract!Next \/ UNCHANGED <<payload, evaluation, answer>>
  BY DEF Contract!cvars
<1>1. ASSUME NEW r \in Requests, Arrive(r)
      PROVE  Contract!Next
  BY <1>1, SameData DEF Arrive, netVars, IInv, PathInv, Contract!Next, Contract!Open
<1>2. ASSUME NEW r \in Requests, ClientGone(r)
      PROVE  UNCHANGED <<payload, evaluation, answer>>
  BY <1>2 DEF ClientGone, netVars
<1>3. CASE Backend
  <2>1. ASSUME NEW m \in wire, Serve(m) PROVE Contract!Next
    BY <2>1, ServeRefines, TokenType DEF Contract!Next, IInv, TypeOK
  <2> QED
    BY <1>3, <2>1 DEF Backend, NobodySubscribed, LoseMessage, LoseReply, Deliver, handlerVars
<1>4. CASE Connection
  BY <1>4 DEF Connection, StatusChanged, Reconnected, handlerVars, netVars
<1>5. CASE UNCHANGED vars
  BY <1>5 DEF vars, handlerVars, netVars
<1> QED
  BY <1>1, <1>2, <1>3, <1>4, <1>5, HandlerRefines DEF Next, Client

(* Every behaviour of the request path, with its connection, its lost and    *)
(* late replies and its other requests, is one the contract allows.          *)
THEOREM ImplementsContract == Spec => ContractSpec
<1>1. Init => Contract!Init
  BY SameData DEF Init, Contract!Init
<1> QED
  BY <1>1, ContractStep, Invariance, PTL DEF Spec, ContractSpec, Contract!Spec

-----------------------------------------------------------------------------
(* What an answer says about the evaluation.                                 *)

(* A payload, an evaluation and an answer are each set once.                 *)
LEMMA Settled ==
  ASSUME IInv, [Next]_vars, NEW r \in Requests
  PROVE  /\ payload[r] # NoPayload => payload'[r] = payload[r]
         /\ evaluation[r] # NotEvaluated => evaluation'[r] = evaluation[r]
         /\ answer[r] # NoAnswer => answer'[r] = answer[r]
<1> USE DEF IInv, TypeOK
<1>1. CASE UNCHANGED <<payload, evaluation, answer>>
  BY <1>1
<1>2. ASSUME NEW q \in Requests, Contract!Open(q) \/ Contract!Evaluate(q)
      PROVE  /\ payload[r] # NoPayload => payload'[r] = payload[r]
             /\ evaluation[r] # NotEvaluated => evaluation'[r] = evaluation[r]
             /\ answer' = answer
  BY <1>2, SameData DEF Contract!Open, Contract!Evaluate
<1>3. ASSUME NEW q \in Requests, NEW x, Contract!GiveAnswer(q, x)
      PROVE  /\ UNCHANGED <<payload, evaluation>>
             /\ answer[r] # NoAnswer => answer'[r] = answer[r]
  BY <1>3, SameData DEF Contract!GiveAnswer
<1> QED
  BY <1>1, <1>2, <1>3, ContractStep
     DEF Contract!Next, Contract!cvars, Contract!Reject, Contract!Refuse, Contract!GiveUp,
         Contract!NothingAsked, Contract!Report

(* Messages of a request come into being only while its handler runs.        *)
LEMMA NoNewMessages ==
  ASSUME IInv, [Next]_vars, NEW r \in Requests, pc[r] # "handler" \/ pc'[r] # "waiting",
         \A m \in buffer \cup wire : m.token # r
  PROVE  \A m \in buffer' \cup wire' : m.token # r
<1> USE DEF handlerVars, netVars, connVars
<1>1. ASSUME NEW q \in Requests, CheckAccess(q) \/ MyGrants(q)
      PROVE  \A m \in buffer' \cup wire' : m.token # r
  <2>1. CASE UNCHANGED <<buffer, wire>>
    BY <2>1
  <2>2. ASSUME NEW m, m.token = q, Publish(m), pc' = [pc EXCEPT ![q] = "waiting"],
               pc[q] = "handler"
        PROVE  \A n \in buffer' \cup wire' : n.token # r
    <3>1. q # r
      BY <2>2 DEF IInv, TypeOK
    <3> QED
      BY <2>2, <3>1 DEF Publish
  <2> QED
    BY <1>1, <2>1, <2>2 DEF CheckAccess, MyGrants, Request
<1>2. ASSUME NEW q \in Requests, \/ Client(q) \/ Decode(q) \/ JWTAuth(q)
                                 \/ RequestReturns(q) \/ RequestTimesOut(q)
      PROVE  UNCHANGED <<buffer, wire>>
  BY <1>2 DEF Client, Arrive, ClientGone, Decode, JWTAuth, RequestReturns, RequestTimesOut
<1>3. CASE Backend
  BY <1>3 DEF Backend, Serve, NobodySubscribed, Reply, LoseMessage, LoseReply, Deliver
<1>4. CASE Connection
  BY <1>4 DEF Connection, StatusChanged, Reconnected
<1>5. CASE UNCHANGED vars
  BY <1>5 DEF vars
<1> QED
  BY <1>1, <1>2, <1>3, <1>4, <1>5 DEF Next, Handler

LEMMA FirstAnswer ==
  ASSUME IInv, NEW r \in Requests, Handler(r), answer[r] = NoAnswer
  PROVE  AnswerFollows(r)'
<1> SUFFICES \/ answer'[r] \in {NoAnswer, Fail(503)}
             \/ /\ answer'[r] \in {Fail(400), Fail(401)}
                /\ evaluation'[r] = NotEvaluated
                /\ \A m \in buffer' \cup wire' : m.token # r
             \/ /\ answer'[r] = OK({})
                /\ payload'[r].endpoint = "check-access" /\ payload'[r].requests = {""}
                /\ payload'[r].bearer \in GenuineTokens
             \/ /\ evaluation'[r] # NotEvaluated
                /\ answer'[r] = Contract!Answered(evaluation'[r])
  BY DEF AnswerFollows, Contract!Answered, Contract!OK, Contract!Fail
<1> USE DEF netVars, connVars
<1>0. ASSUME NEW x, Answer(r, x) PROVE answer'[r] = x
  BY <1>0 DEF Answer, IInv, TypeOK
<1>1. CASE Decode(r) \/ JWTAuth(r)
  <2>1. UNCHANGED <<buffer, wire, evaluation>>
    BY <1>1 DEF Decode, JWTAuth
  <2>2. pc[r] \in {"decode", "auth"}
    BY <1>1 DEF Decode, JWTAuth
  <2>3. evaluation[r] = NotEvaluated /\ \A m \in buffer \cup wire : m.token # r
    BY <2>2 DEF IInv, EvaluationInv, SingleRequest
  <2>4. answer'[r] \in {NoAnswer, Fail(400), Fail(401)}
    BY <1>0, <1>1 DEF Decode, JWTAuth
  <2> QED
    BY <2>1, <2>3, <2>4
<1>2. CASE CheckAccess(r)
  <2> DEFINE queries == BuildMessage(claims[r], payload[r].requests)
  <2>1. CASE queries # {}
    BY <1>0, <1>2, <2>1 DEF CheckAccess, Request, CheckAccessStatus
  <2>2. CASE queries = {}
    <3>1. answer'[r] = OK({}) /\ UNCHANGED payload
      BY <1>0, <1>2, <2>2 DEF CheckAccess
    <3>2. /\ WellFormed(payload[r]) /\ payload[r].endpoint = "check-access"
          /\ payload[r].bearer \in GenuineTokens
      BY <1>2, ValidClaimsType DEF CheckAccess, IInv, PathInv
    <3>3. payload[r].requests = {""}
      <4>1. payload[r].requests # {}
        BY <3>2 DEF WellFormed, CheckWellFormed
      <4>2. payload[r].requests \ {""} = {}
        BY <2>2 DEF BuildMessage
      <4> QED
        BY <4>1, <4>2
    <3> QED
      BY <3>1, <3>2, <3>3
  <2> QED
    BY <2>1, <2>2
<1>3. CASE MyGrants(r)
  BY <1>0, <1>3 DEF MyGrants, Request, MyGrantsStatus
<1>4. CASE RequestReturns(r)
  <2> DEFINE x == Outcome(payload[r].endpoint, mch[r])
  <2>1. answer'[r] = x /\ UNCHANGED evaluation
    BY <1>0, <1>4 DEF RequestReturns
  <2>2. CASE mch[r] \in {Closed, NoResponders}
    <3>1. x = Fail(503)
      BY <2>2, BrokenOutcome
    <3> QED
      BY <2>1, <3>1
  <2>3. CASE mch[r] = evaluation[r] /\ evaluation[r] # NotEvaluated /\ OwnEvaluation(r)
    <3>1. payload[r] \in Payloads
      BY <1>4 DEF RequestReturns, IInv, TypeOK, PathInv
    <3> QED
      BY <2>1, <2>3, <3>1, ReturnedAnswer
  <2> QED
    BY <1>4, <2>2, <2>3, OwnOutcome
<1>5. CASE RequestTimesOut(r)
  BY <1>0, <1>5 DEF RequestTimesOut
<1> QED
  BY <1>1, <1>2, <1>3, <1>4, <1>5 DEF Handler

LEMMA AnswerInvStep ==
  ASSUME IInv, AnswerInv, [Next]_vars
  PROVE  AnswerInv'
<1> SUFFICES ASSUME NEW r \in Requests PROVE AnswerFollows(r)'
  BY DEF AnswerInv
<1>0. AnswerFollows(r)
  BY DEF AnswerInv
<1>1. CASE answer[r] = NoAnswer
  <2>1. CASE Handler(r)
    BY <1>1, <2>1, FirstAnswer
  <2>2. CASE ~Handler(r)
    <3> SUFFICES answer'[r] = answer[r]
      BY <1>1 DEF AnswerFollows
    <3> USE DEF handlerVars, netVars, connVars, Answer, IInv, TypeOK
    <3>1. ASSUME NEW q \in Requests, q # r, Handler(q) PROVE answer'[r] = answer[r]
      BY <3>1 DEF Handler, Decode, JWTAuth, CheckAccess, MyGrants, Request, RequestReturns,
                  RequestTimesOut
    <3>2. ASSUME NEW q \in Requests, Client(q) PROVE answer'[r] = answer[r]
      BY <3>2 DEF Client, Arrive, ClientGone
    <3>3. CASE Backend \/ Connection
      BY <3>3 DEF Backend, Serve, NobodySubscribed, LoseMessage, LoseReply, Deliver,
                  Connection, StatusChanged, Reconnected
    <3>4. CASE UNCHANGED vars
      BY <3>4 DEF vars
    <3> QED
      BY <2>2, <3>1, <3>2, <3>3, <3>4 DEF Next
  <2> QED
    BY <2>1, <2>2
<1>2. CASE answer[r] # NoAnswer
  <2>1. pc[r] = "answered" /\ payload[r] # NoPayload
    BY <1>2 DEF IInv, TypeOK, PathInv
  <2>2. answer'[r] = answer[r] /\ payload'[r] = payload[r]
    BY <1>2, <2>1, Settled
  <2>3. CASE answer[r] \in {Fail(400), Fail(401)} /\ evaluation[r] = NotEvaluated
               /\ \A m \in buffer \cup wire : m.token # r
    <3>1. \A m \in buffer' \cup wire' : m.token # r
      BY <2>1, <2>3, NoNewMessages
    <3>2. evaluation'[r] = NotEvaluated
      <4> USE DEF handlerVars, netVars, connVars
      <4>1. ASSUME NEW m \in wire, Serve(m) PROVE evaluation'[r] = evaluation[r]
        BY <2>3, <4>1 DEF Serve, IInv, TypeOK
      <4>2. ASSUME NEW q \in Requests, Client(q) \/ Handler(q) PROVE UNCHANGED evaluation
        BY <4>2 DEF Client, Arrive, ClientGone, Handler, Decode, JWTAuth, CheckAccess,
                    MyGrants, Request, Publish, RequestReturns, RequestTimesOut
      <4>3. CASE Backend \/ Connection
        BY <2>3, <4>1, <4>3 DEF Backend, NobodySubscribed, LoseMessage, LoseReply, Deliver,
                          Connection, StatusChanged, Reconnected
      <4>4. CASE UNCHANGED vars
        BY <2>3, <4>4 DEF vars
      <4> QED
        BY <2>3, <4>2, <4>3, <4>4 DEF Next
    <3> QED
      BY <2>2, <2>3, <3>1, <3>2 DEF AnswerFollows
  <2>4. CASE evaluation[r] # NotEvaluated /\ answer[r] = Contract!Answered(evaluation[r])
    <3>1. evaluation'[r] = evaluation[r]
      BY <2>4, Settled
    <3>2. answer'[r] = Contract!Answered(evaluation'[r])
      BY <2>2, <2>4, <3>1
    <3> QED
      BY <2>4, <3>1, <3>2
         DEF AnswerFollows, Contract!Answered, Contract!OK, Contract!Fail
  <2>5. CASE answer[r] = Fail(503)
    BY <2>2, <2>5 DEF AnswerFollows
  <2>6. CASE /\ answer[r] = OK({}) /\ payload[r].endpoint = "check-access"
             /\ payload[r].requests = {""} /\ payload[r].bearer \in GenuineTokens
    <3>1. /\ answer'[r] = OK({}) /\ payload'[r].endpoint = "check-access"
          /\ payload'[r].requests = {""} /\ payload'[r].bearer \in GenuineTokens
      BY <2>2, <2>6
    <3> QED
      BY <3>1, Zenon DEF AnswerFollows
  <2> QED
    BY <1>0, <1>2, <2>3, <2>4, <2>5, <2>6 DEF AnswerFollows
<1> QED
  BY <1>1, <1>2

(* A request that was refused with 400 or 401 never reaches fga-sync, and a  *)
(* list or a 500 is what fga-sync's evaluation of the request calls for.     *)
THEOREM AnswersFollowEvaluations == Spec => []AnswerInv
<1>1. Init => AnswerInv
  BY DEF Init, AnswerInv, AnswerFollows
<1> QED
  BY <1>1, AnswerInvStep, Invariance, PTL DEF Spec

(* The decisions in a reply are about lines of the message, one for each.    *)
LEMMA DecisionsMatch ==
  ASSUME NEW queries \in SUBSET Query, NEW e \in CheckEvaluations(queries), e.kind # "text"
  PROVE  /\ e.kind = "lines"
         /\ \A d \in e.lines : [object |-> d.object, user |-> d.user] \in queries
         /\ \A d1, d2 \in e.lines : d1.object = d2.object /\ d1.user = d2.user => d1 = d2
<1>1. PICK decidable \in SUBSET queries : \E f \in [decidable -> BOOLEAN], n \in Spaces(decidable) :
        e = LinesReply(Decided(f), n)
  <2>1. ASSUME NEW n \in ErrorTexts PROVE e # TextReply(n)
    <3>1. TextReply(n).kind = "text"
      BY DEF TextReply
    <3> QED
      BY <3>1, Zenon
  <2>2. \/ \E n \in ErrorTexts : e = TextReply(n)
        \/ \E decidable \in SUBSET queries : e \in DecisionReplies(decidable)
    BY DEF CheckEvaluations
  <2> QED
    BY <2>1, <2>2 DEF DecisionReplies
<1>2. PICK f \in [decidable -> BOOLEAN] : e.kind = "lines" /\ e.lines = Decided(f)
  BY <1>1 DEF LinesReply
<1>3. ASSUME NEW d \in e.lines
      PROVE  LET q == [object |-> d.object, user |-> d.user]
             IN q \in decidable /\ d = [object |-> q.object, user |-> q.user, allowed |-> f[q]]
  <2>1. PICK q \in decidable : d = [object |-> q.object, user |-> q.user, allowed |-> f[q]]
    BY <1>2 DEF Decided
  <2>2. q = [object |-> q.object, user |-> q.user]
    BY DEF Query
  <2>3. d.object = q.object /\ d.user = q.user
    BY <2>1
  <2> QED
    BY <2>1, <2>2, <2>3
<1>4. ASSUME NEW d1 \in e.lines, NEW d2 \in e.lines, d1.object = d2.object, d1.user = d2.user
      PROVE  d1 = d2
  BY <1>3, <1>4
<1> QED
  BY <1>2, <1>3, <1>4

LEMMA AnswerParts ==
  /\ \A x : OK(x).results = x /\ Contract!OK(x) = OK(x)
  /\ \A n \in {400, 401, 503} : Fail(n).status # 200
  /\ NoAnswer.status # 200
BY DEF OK, Fail, NoAnswer, Contract!OK

(* What a request was evaluated to, when that is a list of decisions.        *)
LEMMA OwnDecisions ==
  ASSUME IInv, NEW r \in Requests, OwnEvaluation(r),
         payload[r].endpoint = "check-access", evaluation[r].kind # "text"
  PROVE  /\ evaluation[r].kind = "lines"
         /\ \A d \in evaluation[r].lines :
              [object |-> d.object, user |-> d.user] \in Contract!Asked(payload[r])
         /\ \A d1, d2 \in evaluation[r].lines :
              d1.object = d2.object /\ d1.user = d2.user => d1 = d2
         /\ ~Short(r) =>
              \A o \in payload[r].requests \ {""} : \E d \in evaluation[r].lines :
                d.object = LastLine[o] /\ d.user = PrincipalOf[payload[r].bearer]
<1>1. payload[r] \in Payloads /\ claims[r] \in ValidClaims(payload[r].bearer)
  BY DEF IInv, TypeOK, NoPayload, OwnEvaluation
<1>2. BuildMessage(claims[r], payload[r].requests) = Contract!Asked(payload[r])
  BY <1>1, SameQueries
<1>3. BuildMessage(claims[r], payload[r].requests) \in SUBSET Query
  <2>1. payload[r].requests \in SUBSET (Resources \cup {""}) /\ claims[r] \in Principals
    BY <1>1, CheckRequests, ValidClaimsType
  <2> QED
    BY <2>1, BuildMessageType
<1>4. evaluation[r] \in CheckEvaluations(BuildMessage(claims[r], payload[r].requests))
  BY DEF OwnEvaluation
<1>5. /\ evaluation[r].kind = "lines"
      /\ \A d \in evaluation[r].lines : [object |-> d.object, user |-> d.user]
                                          \in BuildMessage(claims[r], payload[r].requests)
      /\ \A d1, d2 \in evaluation[r].lines :
           d1.object = d2.object /\ d1.user = d2.user => d1 = d2
  BY <1>3, <1>4, DecisionsMatch
<1>6. ASSUME ~Short(r), NEW o \in payload[r].requests \ {""}
      PROVE  \E d \in evaluation[r].lines :
               d.object = LastLine[o] /\ d.user = PrincipalOf[payload[r].bearer]
  <2>1. Completed(o, claims[r]) \in BuildMessage(claims[r], payload[r].requests)
    BY DEF BuildMessage
  <2>2. PICK d \in evaluation[r].lines :
          d.object = Completed(o, claims[r]).object /\ d.user = Completed(o, claims[r]).user
    BY <1>5, <1>6, <2>1 DEF Short
  <2>3. claims[r] = PrincipalOf[payload[r].bearer]
    BY <1>1, ValidClaimsType
  <2> QED
    BY <2>2, <2>3 DEF Completed
<1> QED
  BY <1>2, <1>5, <1>6

(* A list of decisions fits its request, for any requests, payloads and      *)
(* resources of any number of lines: no decision is about anything else,     *)
(* none is given twice, and a resource without one was blank or left out by  *)
(* fga-sync.                                                                 *)
THEOREM DecisionsFitRequests == Spec => []DecisionsFit
<1>1. IInv /\ AnswerInv => DecisionsFit
  <2> SUFFICES ASSUME IInv, AnswerInv, NEW r \in Requests,
                      answer[r].status = 200, payload[r].endpoint = "check-access",
                      evaluation[r].kind # "text"
               PROVE  LET p == payload[r]
                          decisions == answer[r].results
                      IN /\ \A d \in decisions :
                              [object |-> d.object, user |-> d.user] \in Contract!Asked(p)
                         /\ \A d1, d2 \in decisions :
                              d1.object = d2.object /\ d1.user = d2.user => d1 = d2
                         /\ ~Short(r) =>
                              \A o \in p.requests \ {""} : \E d \in decisions :
                                d.object = LastLine[o] /\ d.user = PrincipalOf[p.bearer]
    BY DEF DecisionsFit
  <2>1. CASE answer[r] = OK({}) /\ payload[r].requests = {""}
    <3>1. PICK none : none = {}
      OBVIOUS
    <3>2. answer[r].results = none
      <4>1. OK(none).results = none
        BY AnswerParts
      <4>2. answer[r] = OK(none)
        BY <2>1, <3>1, Zenon
      <4> QED
        BY <4>1, <4>2, Zenon
    <3>3. payload[r].requests \ {""} = {}
      BY <2>1
    <3> QED
      BY <3>1, <3>2, <3>3
  <2>2. CASE evaluation[r] # NotEvaluated /\ answer[r] = Contract!Answered(evaluation[r])
    <3> DEFINE e == evaluation[r]
    <3>1. OwnEvaluation(r)
      BY <2>2 DEF IInv, EvaluationInv
    <3>2. /\ e.kind = "lines"
          /\ \A d \in e.lines :
               [object |-> d.object, user |-> d.user] \in Contract!Asked(payload[r])
          /\ \A d1, d2 \in e.lines : d1.object = d2.object /\ d1.user = d2.user => d1 = d2
          /\ ~Short(r) =>
               \A o \in payload[r].requests \ {""} : \E d \in e.lines :
                 d.object = LastLine[o] /\ d.user = PrincipalOf[payload[r].bearer]
      BY <3>1, OwnDecisions
    <3>3. answer[r].results = e.lines
      <4>1. Contract!Answered(e) \in {OK(e.lines), Contract!Fail(500)}
        BY <3>2, AnswerParts DEF Contract!Answered
      <4>2. Contract!Fail(500).status # 200
        BY DEF Contract!Fail
      <4>3. answer[r] = OK(e.lines)
        BY <2>2, <4>1, <4>2
      <4> QED
        BY <4>3, AnswerParts
    <3>4. PICK ls : ls = e.lines
      OBVIOUS
    <3>5. answer[r].results = ls
      BY <3>3, <3>4
    <3>6. /\ \A d \in ls : [object |-> d.object, user |-> d.user] \in Contract!Asked(payload[r])
          /\ \A d1, d2 \in ls : d1.object = d2.object /\ d1.user = d2.user => d1 = d2
          /\ ~Short(r) =>
               \A o \in payload[r].requests \ {""} : \E d \in ls :
                 d.object = LastLine[o] /\ d.user = PrincipalOf[payload[r].bearer]
      BY <3>2, <3>4, Zenon
    <3> QED
      BY <3>5, <3>6, Zenon
  <2>3. answer[r] \notin {NoAnswer, Fail(400), Fail(401), Fail(503)}
    BY AnswerParts
  <2> QED
    <3>1. AnswerFollows(r)
      BY Zenon DEF AnswerInv
    <3>2. \/ answer[r] = OK({}) /\ payload[r].requests = {""}
          \/ evaluation[r] # NotEvaluated /\ answer[r] = Contract!Answered(evaluation[r])
      BY <2>3, <3>1, Zenon DEF AnswerFollows
    <3> QED
      BY <2>1, <2>2, <3>2, Zenon
<1> QED
  BY <1>1, Invariance, AnswersFollowEvaluations, PTL

-----------------------------------------------------------------------------
(* The handlers as the shutdown sees them.                                   *)

(* A goroutine that goes on moves the handler of its request, and no other.  *)
LEMMA HandlerMoves ==
  ASSUME pc \in [Requests -> {"idle", "decode", "auth", "handler", "waiting", "answered"}],
         NEW r \in Requests, NEW q,
         pc' = [pc EXCEPT ![r] = q], Place(q) # Place(pc[r])
  PROVE  View!Moves(r, Place(pc[r]), Place(q))
<1> DEFINE h == [s \in Requests |-> Place(pc[s])]
           hNext == [s \in Requests |-> Place(pc'[s])]
<1>1. hNext = [h EXCEPT ![r] = Place(q)]
  <2>1. \A s \in Requests : pc'[s] = IF s = r THEN q ELSE pc[s]
    OBVIOUS
  <2> HIDE DEF h
  <2>2. \A s \in Requests : h[s] = Place(pc[s])
    BY DEF h
  <2>3. DOMAIN h = Requests /\ h = [s \in Requests |-> h[s]]
    BY DEF h
  <2> QED
    BY <2>1, <2>2, <2>3
<1> QED
  BY <1>1 DEF View!Moves

LEMMA HandlerStays ==
  ASSUME pc \in [Requests -> {"idle", "decode", "auth", "handler", "waiting", "answered"}],
         NEW r \in Requests, NEW q,
         pc' = [pc EXCEPT ![r] = q], Place(q) = Place(pc[r])
  PROVE  UNCHANGED [s \in Requests |-> Place(pc[s])]
<1>1. \A s \in Requests : pc'[s] = IF s = r THEN q ELSE pc[s]
  OBVIOUS
<1> QED
  BY <1>1

LEMMA ViewStep ==
  ASSUME IInv, [Next]_vars
  PROVE  [View!HandlerNext]_<<[r \in Requests |-> Place(pc[r])], connVars>>
<1> USE DEF View!connVars, connVars
<1>1. CASE Connection
  BY <1>1 DEF Connection, StatusChanged, Reconnected, handlerVars, View!HandlerNext, View!ConnNext,
              LoseServer, ReconnectFails, Reconnect, Close, DrainSubsDone, DrainPubsDone,
              View!LoseServer, View!ReconnectFails, View!Reconnect, View!Close,
              View!DrainSubsDone, View!DrainPubsDone, Draining, View!Draining
<1>2. CASE Backend \/ UNCHANGED vars
  BY <1>2 DEF Backend, Serve, NobodySubscribed, LoseMessage, LoseReply, Deliver, handlerVars, vars
<1>3. ASSUME NEW r \in Requests, ClientGone(r)
      PROVE  UNCHANGED <<pc, connVars>>
  BY <1>3 DEF ClientGone
<1>4. pc \in [Requests -> {"idle", "decode", "auth", "handler", "waiting", "answered"}]
  BY DEF IInv, TypeOK
<1>5. ASSUME NEW r \in Requests, Arrive(r)
      PROVE  View!HandlerNext
  <2>1. View!Opens(r)
    <3>1. pc' = [pc EXCEPT ![r] = "decode"] /\ Place(pc[r]) = "none" /\ Place("decode") = "auth"
      BY <1>5 DEF Arrive, Place
    <3>2. View!Moves(r, Place(pc[r]), Place("decode"))
      BY <1>4, <3>1, HandlerMoves
    <3> QED
      BY <3>1, <3>2 DEF View!Opens
  <2> QED
    BY <1>5, <2>1 DEF Arrive, View!HandlerNext
<1>6. ASSUME NEW r \in Requests, Handler(r)
      PROVE  View!HandlerNext \/ UNCHANGED <<[s \in Requests |-> Place(pc[s])], connVars>>
  <2>1. UNCHANGED connVars
    BY <1>6 DEF Handler, Decode, JWTAuth, CheckAccess, MyGrants, RequestReturns, RequestTimesOut
  <2>2. CASE pc[r] \in {"decode", "auth"}
    <3>1. Place(pc[r]) = "auth"
      BY <2>2 DEF Place
    <3>2. PICK q \in {"auth", "handler", "answered"} : pc' = [pc EXCEPT ![r] = q]
      BY <1>6, <2>2
      DEF Handler, Decode, JWTAuth, CheckAccess, MyGrants, RequestReturns, RequestTimesOut, Answer
    <3>3. CASE q = "answered"
      <4>1. Place(q) = "answered"
        BY <3>3 DEF Place
      <4>2. View!AnsweredAtOnce(r)
        BY <1>4, <3>1, <3>2, <4>1, HandlerMoves DEF View!AnsweredAtOnce
      <4> QED
        BY <2>1, <4>2 DEF View!HandlerNext
    <3>4. CASE q # "answered"
      <4>1. Place(q) = "auth"
        BY <3>2, <3>4 DEF Place
      <4> QED
        BY <1>4, <2>1, <3>1, <3>2, <4>1, HandlerStays
    <3> QED
      BY <3>3, <3>4
  <2>3. CASE pc[r] = "handler"
    <3>1. Place(pc[r]) = "auth" /\ Place("answered") = "answered" /\ Place("waiting") = "nats"
      BY <2>3 DEF Place
    <3>2. CASE pc' = [pc EXCEPT ![r] = "answered"]
      <4>1. View!AnsweredAtOnce(r)
        BY <1>4, <3>1, <3>2, HandlerMoves DEF View!AnsweredAtOnce
      <4> QED
        BY <2>1, <4>1 DEF View!HandlerNext
    <3>3. CASE pc' = [pc EXCEPT ![r] = "waiting"] /\ conn \in Publishable \cup Buffering
      <4>1. View!Moves(r, "auth", "nats")
        BY <1>4, <3>1, <3>3, HandlerMoves
      <4>2. View!WaitsForNats(r)
        BY <3>3, <4>1 DEF View!WaitsForNats, View!Publishable, View!Buffering, Publishable, Buffering
      <4> QED
        BY <2>1, <4>2 DEF View!HandlerNext
    <3> QED
      BY <1>6, <2>3, <3>2, <3>3
      DEF Handler, Decode, JWTAuth, CheckAccess, MyGrants, RequestReturns, RequestTimesOut,
          Request, Publish, Answer
  <2>4. CASE pc[r] = "waiting"
    <3>1. Place(pc[r]) = "nats" /\ Place("answered") = "answered"
      BY <2>4 DEF Place
    <3>2. pc' = [pc EXCEPT ![r] = "answered"]
      BY <1>6, <2>4
      DEF Handler, Decode, JWTAuth, CheckAccess, MyGrants, RequestReturns, RequestTimesOut, Answer
    <3>3. View!NatsReturns(r)
      BY <1>4, <3>1, <3>2, HandlerMoves DEF View!NatsReturns
    <3> QED
      BY <2>1, <3>3 DEF View!HandlerNext
  <2>5. pc[r] \in {"decode", "auth", "handler", "waiting"}
    BY <1>6 DEF Handler, Decode, JWTAuth, CheckAccess, MyGrants, RequestReturns, RequestTimesOut
  <2> QED
    BY <2>2, <2>3, <2>4, <2>5
<1> QED
  BY <1>1, <1>2, <1>3, <1>5, <1>6 DEF Next, Client

(* What Lifecycle assumes of the handlers and of their connection holds of   *)
(* the request path, for any requests and payloads.                          *)
THEOREM HandlersAreAsAssumed == Spec => ImplementsHandlers
<1>1. Init => View!ConnInit /\ View!HandlerInit
  <2> SUFFICES ASSUME Init PROVE View!ConnInit /\ View!HandlerInit
    OBVIOUS
  <2>1. \A r \in Requests : pc[r] = "idle"
    BY DEF Init
  <2> QED
    BY <2>1 DEF Init, ConnInit, View!ConnInit, View!HandlerInit, Place
<1> QED
  BY <1>1, ViewStep, Invariance, PTL DEF Spec, ImplementsHandlers, View!HandlerSpec, View!connVars, connVars
=============================================================================
