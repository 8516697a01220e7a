--------------------- MODULE PeerConnectionClientSession ---------------------
(***************************************************************************)
(* PeerConnectionClient, over SslCapableSocket and without Shutdown,       *)
(* implements SignallingSession.                                           *)
(***************************************************************************)
EXTENDS PeerConnectionClient

phase ==
  CASE state_ = "NOT_CONNECTED" -> "off"
    [] state_ \in {"RESOLVING", "SIGNING_IN"} -> "joining"
    [] state_ = "CONNECTED" -> IF my_id_ = NoId THEN "anonymous" ELSE "on"
    [] state_ \in SigningOut -> "leaving"

\* A socket that neither is closed nor carries a request.
request ==
  IF InProgress \in ControlRequests THEN InProgress
  ELSE IF Open("control") THEN "lingering" ELSE "none"

update ==
  CASE ~Open("capacity") -> "none"
    [] sock["capacity"] = "connecting" -> "connecting"
    [] sock["capacity"] = "capacity" -> "sent"
    [] sock["capacity"] = "idle" -> "lingering"

Session == INSTANCE SignallingSession
             WITH Values <- Capacities, NoValue <- NoCapacity,
                  peers <- peers_, value <- capacity_data_

\* The client is what its conductor takes it for.
ImplementsSession == Session!SessionSpec
=============================================================================
