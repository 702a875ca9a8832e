---------------------------- MODULE MCClientPath ----------------------------
(* Instances of ClientPath for TLC: one call and two HTTP requests, so that  *)
(* the second is the call's replay or belongs to another client.             *)
EXTENDS ClientPath, TLC

CONSTANTS r1, r2,          \* HTTP requests
          c1,              \* a call
          writer,          \* a resource, of one line
          alice, bob,      \* principals
          tAlice, tBob, tBare,  \* tokens
          project          \* an object type

MCLastLine == writer :> writer
MCWritten == writer :> {}
MCFirstSpace == [q \in Query |-> 20]

MCTokens == {tAlice, tBob, tBare}
MCPrincipalOf == tAlice :> alice @@ tBob :> bob @@ tBare :> ""

Check(bearer, requests) ==
  [endpoint |-> "check-access", version |-> "1", bearer |-> bearer,
   json |-> TRUE, requests |-> requests]
Grants(bearer, objectType) ==
  [endpoint |-> "my-grants", version |-> "1", bearer |-> bearer,
   objectType |-> objectType]

(* Each endpoint, a blank resource, an empty token, and two payloads that    *)
(* the command refuses; a program can send the one without requests.         *)
MCInvocations ==
  {Check(tAlice, {writer}), Check(tAlice, {""}), Grants(tBob, project), Check("", {writer}),
   Check(tAlice, {}), [Check(tAlice, {writer}) EXCEPT !.json = FALSE]} \cup Probes
MCPayloads ==
  {EncodeRequest(p) : p \in {q \in MCInvocations \ Probes : Encodable(q)}}
RequestSymmetry == Permutations(Requests)
=============================================================================
