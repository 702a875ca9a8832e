---------------------------- MODULE StopContract -----------------------------
(* What the end of the process promises, without goroutines, connection or   *)
(* timers: once a stop has begun the process ends regularly and in no other  *)
(* way, within Patience, and not before every request that waited for its    *)
(* evaluation when the stop began is answered.  A process that is gone       *)
(* answers nothing.                                                          *)
EXTENDS Naturals

CONSTANTS
  Requests,
  Patience      \* the time a stop may take

VARIABLES
  phase,        \* of the process
  open,         \* requests under way
  answered,     \* requests whose client has an answer
  promised,     \* requests that are answered before a regular end
  left          \* what is left of Patience

svars == <<phase, open, answered, promised, left>>

Init ==
  /\ phase = "starting"
  /\ open = {} /\ answered = {} /\ promised = {}
  /\ left = Patience

Serve ==
  /\ phase = "starting" /\ phase' = "serving"
  /\ UNCHANGED <<open, answered, promised, left>>

(* The start fails, the server does, or a signal comes before it is handled: *)
(* never once a stop has begun.                                              *)
Break ==
  /\ phase \in {"starting", "serving"} /\ phase' = "broken"
  /\ open' = {}
  /\ UNCHANGED <<answered, promised, left>>

Accept(r) ==
  /\ phase \in {"serving", "stopping"}
  /\ r \notin open \cup answered
  /\ open' = open \cup {r}
  /\ UNCHANGED <<phase, answered, promised, left>>

Answer(r) ==
  /\ r \in open
  /\ open' = open \ {r}
  /\ answered' = answered \cup {r}
  /\ UNCHANGED <<phase, promised, left>>

BeginStop ==
  /\ phase = "serving" /\ phase' = "stopping"
  /\ promised' \in SUBSET open
  /\ UNCHANGED <<open, answered, left>>

Elapse ==
  /\ phase = "stopping" /\ left > 0
  /\ left' = left - 1
  /\ UNCHANGED <<phase, open, answered, promised>>

(* Other requests are cut off.                                               *)
End ==
  /\ phase = "stopping" /\ phase' = "ended"
  /\ promised \subseteq answered
  /\ open' = {}
  /\ UNCHANGED <<answered, promised, left>>

Next ==
  \/ Serve \/ Break \/ BeginStop \/ Elapse \/ End
  \/ \E r \in Requests : Accept(r) \/ Answer(r)

Spec == Init /\ [][Next]_svars
=============================================================================
