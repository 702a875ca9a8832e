------------------------------ MODULE NatsConn ------------------------------
(* The one NATS connection of the process, as the service configures it in   *)
(* internal/infrastructure/messaging/messaging_repository.go.                *)
(*                                                                           *)
(* Only NewMessagingRepository (which connects and sets the options) and     *)
(* messagingRepository.Close (which drains) are code of this repository; the *)
(* status changes in between are nats.go's, modelled from the options the    *)
(* service gives it.  There is no action that leaves CLOSED: the service     *)
(* never calls nats.Connect again.                                           *)
EXTENDS Naturals

CONSTANT MaxReconnects    \* nats.MaxReconnects(3)

ASSUME MaxReconnectsAssumption == MaxReconnects \in Nat \ {0}

VARIABLES
  conn,       \* status of *nats.Conn
  attempts    \* failed attempts since the connection was lost

connVars == <<conn, attempts>>

Draining == {"DRAINING_SUBS", "DRAINING_PUBS"}
Status == {"CONNECTED", "RECONNECTING", "CLOSED"} \cup Draining

ConnTypeOK ==
  /\ conn \in Status
  /\ attempts \in 0 .. MaxReconnects
  /\ conn = "RECONNECTING" => attempts < MaxReconnects

(* NewMessagingRepository returned a repository: nats.Connect succeeded.     *)
ConnInit == conn = "CONNECTED" /\ attempts = 0

(* The TCP connection breaks.  A draining connection is not reopened.        *)
LoseServer ==
  /\ conn \in {"CONNECTED"} \cup Draining
  /\ conn' = IF conn = "CONNECTED" THEN "RECONNECTING" ELSE "CLOSED"
  /\ attempts' = 0

(* Mutant: the limit on the attempts is off by one.                          *)
ReconnectFailsOnceMore ==
  /\ conn = "RECONNECTING"
  /\ attempts' = attempts + 1
  /\ conn' = IF attempts + 1 > MaxReconnects THEN "CLOSED" ELSE conn

(* One attempt of the reconnect loop fails; the last one closes for good.    *)
ReconnectFails ==
  /\ conn = "RECONNECTING"
  /\ attempts' = attempts + 1
  /\ conn' = IF attempts + 1 >= MaxReconnects THEN "CLOSED" ELSE conn

Reconnect ==
  /\ conn = "RECONNECTING"
  /\ conn' = "CONNECTED"
  /\ attempts' = 0

(* messagingRepository.Close calls conn.Drain and does not wait for it.      *)
(* Drain closes a connection that is reconnecting, is a no-op on one that    *)
(* already drains, and fails on one that is closed.                          *)
Close ==
  /\ conn' = CASE conn = "CONNECTED"    -> "DRAINING_SUBS"
               [] conn = "RECONNECTING" -> "CLOSED"
               [] OTHER                 -> conn
  /\ UNCHANGED attempts

(* The goroutine that Drain starts: unsubscribe, flush what was published,   *)
(* close.  DrainTimeout bounds the first stage.                              *)
DrainSubsDone ==
  /\ conn = "DRAINING_SUBS"
  /\ conn' = "DRAINING_PUBS"
  /\ UNCHANGED attempts

DrainPubsDone ==
  /\ conn = "DRAINING_PUBS"
  /\ conn' = "CLOSED"
  /\ UNCHANGED attempts

(* Statuses in which a publish can be accepted: written, or kept in the      *)
(* reconnect buffer.                                                         *)
Publishable == {"CONNECTED", "DRAINING_SUBS"}
Buffering   == {"RECONNECTING"}
(* Statuses in which a reply can still come in from the server.              *)
Receiving   == {"CONNECTED", "DRAINING_SUBS"}
=============================================================================
