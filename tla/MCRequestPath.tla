--------------------------- MODULE MCRequestPath ----------------------------
(* Instances of RequestPath for TLC: two HTTP requests, two one-line         *)
(* resources and one of two lines, three tokens.                             *)
EXTENDS RequestPath, TLC

CONSTANTS r1, r2,          \* HTTP requests
          a, b,            \* resources of one line
          two,             \* a resource of two lines
          alice, bob,      \* principals
          tAlice, tBob, tNobody, tForged,   \* tokens
          project          \* an object type

(* The first line of "two" is about a and names bob, the last one is b.  A   *)
(* decision about b has its first space just too early for the client.       *)
MCLastLine == a :> a @@ b :> b @@ two :> b
MCWritten == a :> {} @@ b :> {} @@ two :> {[object |-> a, user |-> bob]}
MCFirstSpace == [q \in Query |-> IF q.object = b THEN 19 ELSE 20]

MCTokens == {tAlice, tBob, tNobody, tForged}
MCPrincipalOf == tAlice :> alice @@ tBob :> bob @@ tNobody :> "" @@ tForged :> alice

Check(bearer, requests) ==
  [endpoint |-> "check-access", version |-> "1", bearer |-> bearer,
   json |-> TRUE, requests |-> requests]
Grants(bearer, objectType) ==
  [endpoint |-> "my-grants", version |-> "1", bearer |-> bearer,
   objectType |-> objectType]

(* What two concurrent callers can mix up: different callers on one object,  *)
(* two lines of one message, a read beside a check; and each kind of refusal *)
(* once.                                                                     *)
OneOfEach == {Check(tBob, {a, ""}), Grants(tAlice, project)}
Refused ==
  {Check(tBob, {""}), Check(tForged, {a}), Check(tNobody, {a}), Check(tAlice, {}),
   [Check(tAlice, {a}) EXCEPT !.version = "2"], [Check(tAlice, {a}) EXCEPT !.json = FALSE],
   Check("", {a}), Grants(tBob, "")}
MixedPayloads == {Check(tAlice, {two})} \cup OneOfEach \cup Refused

(* Resources of one line only.                                               *)
Working == OneOfEach \cup {Check(tAlice, {a, b})}

RequestSymmetry == Permutations(Requests)
=============================================================================
