--------------------- MODULE ServerAuthenticationProvider ---------------------
(***************************************************************************)
(* The client-credentials grant of a server (Libraries/Authentication):    *)
(* one request on the one socket of the provider, answered or lost.        *)
(***************************************************************************)
VARIABLES
  server_auth_state,  \* state_
  server_auth_socket,
  authority_named     \* authority_host_ is still a name

server_auth == <<server_auth_state, server_auth_socket, authority_named>>

ServerAuthTypeOK ==
  /\ server_auth_state \in {"NOT_ACTIVE", "RESOLVING", "ACTIVE"}
  /\ server_auth_socket \in {"closed", "connecting", "open", "spent"}
  /\ authority_named \in BOOLEAN

ServerAuthInit ==
  /\ server_auth_state = "NOT_ACTIVE"
  /\ server_auth_socket = "closed"
  /\ authority_named \in BOOLEAN

Connect(connects) == server_auth_socket' = IF connects THEN "connecting" ELSE "closed"

\* Authenticate, which returns ret.  While it connects the provider is still
\* NOT_ACTIVE: a second call closes the connection, and starts another unless
\* the close fails.
Authenticate(ret) ==
  \/ /\ server_auth_state # "NOT_ACTIVE" \/ server_auth_socket # "closed"
     /\ ~ret
     /\ UNCHANGED server_auth
  \/ /\ server_auth_state = "NOT_ACTIVE" /\ authority_named /\ ret
     /\ server_auth_state' = "RESOLVING"
     /\ server_auth_socket' = "closed"
     /\ UNCHANGED authority_named
  \/ /\ server_auth_state = "NOT_ACTIVE" /\ ~authority_named
     /\ Connect(ret)
     /\ UNCHANGED <<server_auth_state, authority_named>>

AddressResolve(found, connects) ==
  /\ server_auth_state = "RESOLVING"
  /\ server_auth_state' = "NOT_ACTIVE"
  /\ authority_named' = ~found
  /\ Connect(connects)

SocketOpen ==
  /\ server_auth_socket = "connecting"
  /\ server_auth_socket' = "open"
  /\ server_auth_state' = IF server_auth_state = "NOT_ACTIVE" THEN "ACTIVE"
                          ELSE server_auth_state
  /\ UNCHANGED authority_named

\* SocketRead of a piece without a header.
ReadIgnored ==
  /\ server_auth_socket = "open" /\ server_auth_state = "ACTIVE"
  /\ server_auth_socket' = "spent"
  /\ UNCHANGED <<server_auth_state, authority_named>>

\* SocketRead: SignalAuthenticationComplete, then Close.
ReadReply ==
  /\ server_auth_socket = "open" /\ server_auth_state = "ACTIVE"
  /\ server_auth_socket' = "closed"
  /\ server_auth_state' = "NOT_ACTIVE"
  /\ UNCHANGED authority_named

SocketClose ==
  /\ server_auth_socket # "closed"
  /\ server_auth_socket' = "closed"
  /\ server_auth_state' = "NOT_ACTIVE"
  /\ UNCHANGED authority_named
=============================================================================
