--------------------------- MODULE AccessContract ---------------------------
(* What the service promises the HTTP client of one request, whatever        *)
(* happens to the connection, the backend and the other requests:            *)
(*   - a request that does not validate is answered 400 and nothing else;    *)
(*   - a request whose token does not verify is answered 401 and fga-sync    *)
(*     never evaluates it;                                                   *)
(*   - fga-sync evaluates a request at most once, and about its own lines:   *)
(*     each resource it names, on behalf of its caller, and whatever whole   *)
(*     lines a resource string brings along;                                 *)
(*   - an answer with results is the evaluation of this very request;        *)
(*   - an answer, once given, never changes.                                 *)
(* A request knows nothing of connections, tokens, channels or timeouts      *)
(* here.                                                                     *)
EXTENDS AccessData

VARIABLES payload, evaluation, answer

cvars == <<payload, evaluation, answer>>

NotOpen == [endpoint |-> "none"]

Init ==
  /\ payload = [r \in Requests |-> NotOpen]
  /\ evaluation = [r \in Requests |-> NotEvaluated]
  /\ answer = [r \in Requests |-> NoAnswer]

-----------------------------------------------------------------------------
Valid(p) ==
  /\ p.version = "1" /\ p.bearer # ""
  /\ \/ p.endpoint = "check-access" /\ p.json /\ p.requests # {}
     \/ p.endpoint = "my-grants" /\ p.objectType # ""

Authentic(p) == p.bearer \in GenuineTokens /\ PrincipalOf[p.bearer] # ""

(* What the caller asks: about each resource it names, for itself, and the   *)
(* lines it wrote out in a resource of several lines.                        *)
Asked(p) ==
  {q \in Query : \E o \in p.requests \ {""} :
     q \in Written[o] \/ (q.object = LastLine[o] /\ q.user = PrincipalOf[p.bearer])}

(* What fga-sync may compute for a request.                                  *)
Computed(p) ==
  IF p.endpoint = "check-access"
  THEN IF Asked(p) = {} THEN {} ELSE CheckEvaluations(Asked(p))
  ELSE ReadEvaluations(PrincipalOf[p.bearer])

(* How an evaluation reaches the client: a reply to a check is taken for a   *)
(* list when its first space comes late, and for a malformed one otherwise.  *)
Answered(e) ==
  IF e.kind = "tuples" THEN OK(e.lines)
  ELSE IF e.kind = "lines" /\ e.firstSpace >= 20 THEN OK(e.lines)
  ELSE IF e.kind = "text" /\ e.firstSpace >= 20 THEN OK({[text |-> e.firstSpace]})
  ELSE Fail(IF e.kind = "fgaError" THEN 503 ELSE 500)

-----------------------------------------------------------------------------
Open(r) ==
  /\ payload[r] = NotOpen
  /\ \E p \in Payloads : payload' = [payload EXCEPT ![r] = p]
  /\ UNCHANGED <<evaluation, answer>>

(* fga-sync answers on its own time: possibly after the client was answered. *)
Evaluate(r) ==
  /\ payload[r] # NotOpen
  /\ Valid(payload[r]) /\ Authentic(payload[r])
  /\ evaluation[r] = NotEvaluated
  /\ \E e \in Computed(payload[r]) : evaluation' = [evaluation EXCEPT ![r] = e]
  /\ UNCHANGED <<payload, answer>>

GiveAnswer(r, a) ==
  /\ payload[r] # NotOpen
  /\ answer[r] = NoAnswer
  /\ answer' = [answer EXCEPT ![r] = a]
  /\ UNCHANGED <<payload, evaluation>>

Reject(r) == GiveAnswer(r, Fail(400)) /\ ~Valid(payload[r])

Refuse(r) == GiveAnswer(r, Fail(401)) /\ Valid(payload[r])

GiveUp(r) ==
  GiveAnswer(r, Fail(503)) /\ Valid(payload[r]) /\ Authentic(payload[r])

NothingAsked(r) ==
  /\ GiveAnswer(r, OK({}))
  /\ Valid(payload[r]) /\ Authentic(payload[r])
  /\ payload[r].endpoint = "check-access" /\ Asked(payload[r]) = {}

Report(r) ==
  /\ evaluation[r] # NotEvaluated
  /\ GiveAnswer(r, Answered(evaluation[r]))

Next == \E r \in Requests :
  \/ Open(r)
  \/ Evaluate(r)
  \/ Reject(r)
  \/ Refuse(r)
  \/ GiveUp(r)
  \/ NothingAsked(r)
  \/ Report(r)

Spec == Init /\ [][Next]_cvars
=============================================================================
