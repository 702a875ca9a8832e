----------------------------- MODULE AccessData -----------------------------
(* The data of the request path and the pure functions over it: payloads and *)
(* their validation, tokens and claims, the messages sent to fga-sync, what  *)
(* fga-sync can send back, and the HTTP answers.                             *)
(*                                                                           *)
(* Resource strings, principals, tokens and object types are atoms.  The     *)
(* empty string is itself, because the code tests for it.  A list of         *)
(* resources, result lines or tuples is the set of its elements: neither     *)
(* order nor repetition changes what any property here says, and the         *)
(* contract promises no order.                                               *)
(*                                                                           *)
(* Nothing keeps a resource string to one line.  What matters of its text is *)
(* how the plaintext message splits it: LastLine, which the code completes   *)
(* with the caller, and Written, the lines before it, which go out as they   *)
(* are.  Of the text of a line only the first space matters.                 *)
EXTENDS Naturals

CONSTANTS
  Requests,       \* HTTP requests; also the unique reply tokens NATS makes up
  Payloads,       \* the HTTP requests' contents a client may send
  Resources,      \* non-empty strings that clients put into "requests"
  Objects,        \* what can precede "@user:" on a line of a message
  LastLine,       \* of each resource, what follows its last newline
  Written,        \* of each resource, the lines before its last newline
  FirstSpace,     \* of each line, the offset of the first space in its decision
  ObjectTypes,    \* object types the my-grants pattern accepts
  Tokens,         \* bearer tokens
  GenuineTokens,  \* the tokens whose signature, issuer, audience and dates hold
  Principals,     \* non-empty principals
  PrincipalOf,    \* the principal claim of each token, possibly ""
  ErrorTexts      \* offsets of the first space in fga-sync's error texts

Versions == {"1", "2", ""}

(* A line of a message; the user is "" when the line names none.             *)
Query    == [object : Objects, user : Principals \cup {""}]
Decision == [object : Objects, user : Principals \cup {""}, allowed : BOOLEAN]

CheckPayload ==
  [endpoint : {"check-access"}, version : Versions, bearer : Tokens \cup {""},
   json : BOOLEAN, requests : SUBSET (Resources \cup {""})]
GrantsPayload ==
  [endpoint : {"my-grants"}, version : Versions, bearer : Tokens \cup {""},
   objectType : ObjectTypes \cup {""}]

ASSUME DataAssumption ==
  /\ Payloads \subseteq CheckPayload \cup GrantsPayload
  /\ "" \notin Resources \cup ObjectTypes \cup Tokens \cup Principals
  /\ LastLine \in [Resources -> Objects]
  /\ Written \in [Resources -> SUBSET Query]
  /\ \A o \in Resources : LastLine[o] = o => Written[o] = {}
  /\ FirstSpace \in [Query -> Nat]
  /\ GenuineTokens \subseteq Tokens
  /\ PrincipalOf \in [Tokens -> Principals \cup {""}]
  /\ ErrorTexts \subseteq Nat

-----------------------------------------------------------------------------
(* Decoding and authentication.                                              *)

(* DecodeCheckAccessRequest and the body validation it calls.                *)
CheckWellFormed(p) ==
  /\ p.json
  /\ p.requests # {}
  /\ p.version = "1"
  /\ p.bearer # ""

(* DecodeMyGrantsRequest.                                                    *)
GrantsWellFormed(p) ==
  /\ p.version = "1"
  /\ p.objectType \in ObjectTypes
  /\ p.bearer # ""

(* Mutant: the empty principal is let through.                               *)
ClaimsUnchecked(principal) == TRUE

(* HeimdallClaims.Validate, which the validator calls on decoded claims.     *)
ClaimsValid(principal) == principal # ""

(* Mutant: the claims are read without verifying the token.                  *)
UnverifiedClaims(token) == {c \in {PrincipalOf[token]} : ClaimsValid(c)}

(* The claims authRepository.ValidateToken can return for a token.           *)
ValidClaims(token) ==
  {c \in {PrincipalOf[token]} : token \in GenuineTokens /\ ClaimsValid(c)}

-----------------------------------------------------------------------------
(* Messages to fga-sync.                                                     *)

AccessCheckSubject == "lfx.access_check.request"
ReadTuplesSubject  == "lfx.access_check.read_tuples"

(* The resource is one line, as an "object#relation" token is.               *)
OneLine(o) == LastLine[o] = o

(* The line that the code completes with the caller's name.                  *)
Completed(o, principal) == [object |-> LastLine[o], user |-> principal]

CheckMessage ==
  [token : Requests, subject : {AccessCheckSubject}, queries : SUBSET Query]
ReadMessage ==
  [token : Requests, subject : {ReadTuplesSubject}, user : Principals,
   objectType : ObjectTypes]
Messages == CheckMessage \cup ReadMessage

(* Mutant: the loop returns at an empty resource and does not go on.         *)
BuildMessageReturns(principal, resources) ==
  {Completed(o, principal) : o \in {x \in resources : "" \notin resources}}

(* buildMessage: of each non-empty resource the string, "@user:principal" and *)
(* a newline.  A newline inside the string starts a line just the same.      *)
BuildMessage(principal, resources) ==
  {Completed(o, principal) : o \in resources \ {""}}
    \cup UNION {Written[o] : o \in resources \ {""}}

-----------------------------------------------------------------------------
(* What fga-sync computes for a message and puts in its reply.               *)

LinesReply(ls, n) == [kind |-> "lines", lines |-> ls, firstSpace |-> n]
TextReply(n)      == [kind |-> "text", firstSpace |-> n]
TuplesReply(ts)   == [kind |-> "tuples", lines |-> ts]
FgaError          == [kind |-> "fgaError"]      \* {"error": "..."}
NotJSON           == [kind |-> "notJSON"]
NotEvaluated      == [kind |-> "notEvaluated"]

CheckEvaluation ==
  [kind : {"lines"}, lines : SUBSET Decision, firstSpace : Nat]
    \cup [kind : {"text"}, firstSpace : ErrorTexts]
ReadEvaluation ==
  [kind : {"tuples"}, lines : SUBSET Query] \cup {FgaError, NotJSON}
Evaluation == CheckEvaluation \cup ReadEvaluation

SanityBytes == 20

(* The decisions of f, and where the first space of a reply about these      *)
(* queries can be: any of its lines may come first.                          *)
Decided(f) ==
  {[object |-> q.object, user |-> q.user, allowed |-> f[q]] : q \in DOMAIN f}
Spaces(queries) ==
  IF queries = {} THEN {SanityBytes} ELSE {FirstSpace[q] : q \in queries}

(* Every verdict fga-sync can reach about these queries.                     *)
DecisionReplies(queries) ==
  {LinesReply(Decided(f), n) : f \in [queries -> BOOLEAN], n \in Spaces(queries)}

(* Decisions on some or all of the lines (the client counts none), or an     *)
(* error text, on the check subject; tuples of the user, an error, or        *)
(* something that does not unmarshal, on the other.                          *)
CheckEvaluations(queries) ==
  (UNION {DecisionReplies(decidable) : decidable \in SUBSET queries})
    \cup {TextReply(n) : n \in ErrorTexts}
ReadEvaluations(user) ==
  {TuplesReply(ts) : ts \in SUBSET [object : Objects, user : {user}]}
    \cup {FgaError, NotJSON}

-----------------------------------------------------------------------------
(* Answers to the HTTP client.                                               *)

ResultLine == Decision \cup Query \cup [text : ErrorTexts]
Answers == [status : {200, 400, 401, 500, 503}, results : SUBSET ResultLine]
NoAnswer == [status |-> 0, results |-> {}]

OK(results)  == [status |-> 200, results |-> results]
Fail(status) == [status |-> status, results |-> {}]

(* Mutant: the two errors the handler tells apart are swapped.               *)
CheckAccessStatusSwapped(err) ==
  CASE err = "ErrPrincipalRequired"  -> 500
    [] err = "ErrUnexpectedResponse" -> 401
    [] err = "other"                 -> 503

(* How AccessService.CheckAccess and MyGrants map an error of their client;  *)
(* "other" is any error but the two the code tells apart.                    *)
CheckAccessStatus(err) ==
  CASE err = "ErrPrincipalRequired"  -> 401
    [] err = "ErrUnexpectedResponse" -> 500
    [] err = "other"                 -> 503
MyGrantsStatus(err) == IF err = "ErrUnexpectedResponse" THEN 500 ELSE 503

(* What the client returns of a reply it accepts.                            *)
ResultLines(reply) ==
  IF reply.kind = "text" THEN {[text |-> reply.firstSpace]} ELSE reply.lines

(* Mutant: the sanity check looks one byte too far.                          *)
ParseResponseOneMore(reply) ==
  IF reply.firstSpace <= SanityBytes THEN Fail(500) ELSE OK(ResultLines(reply))

(* parseResponse: a space within the first DefaultResponseSanityCheckBytes   *)
(* bytes is an error, also in a list of decisions; anything else is split    *)
(* into lines and returned.                                                  *)
ParseResponse(reply) ==
  IF reply.firstSpace < SanityBytes
  THEN Fail(CheckAccessStatus("ErrUnexpectedResponse"))
  ELSE OK(ResultLines(reply))

(* The end of ReadTuples, once Request returned a reply.                     *)
ReadTuplesResult(reply) ==
  CASE reply.kind = "notJSON"  -> Fail(MyGrantsStatus("ErrUnexpectedResponse"))
    [] reply.kind = "fgaError" -> Fail(MyGrantsStatus("other"))
    [] OTHER                   -> OK(reply.lines)
=============================================================================
