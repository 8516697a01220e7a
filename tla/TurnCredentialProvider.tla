------------------------ MODULE TurnCredentialProvider ------------------------
(***************************************************************************)
(* Credentials for a TURN server (Libraries/SignalingClient), asked for    *)
(* with the token of an authentication provider.  Every callback runs on   *)
(* the signalling thread.  What the provider does when a token is asked    *)
(* for is left to the module that composes the two.                        *)
(***************************************************************************)
VARIABLES
  turn_state,   \* state_
  turn_socket,  \* "spent": what was answered has been read
  turn_named,   \* host_ is still a name
  auth_token_   \* auth_token_ is not empty

turn == <<turn_state, turn_socket, turn_named, auth_token_>>

TurnTypeOK ==
  /\ turn_state \in {"NOT_ACTIVE", "RESOLVING", "AUTHENTICATING", "ACTIVE"}
  /\ turn_socket \in {"closed", "connecting", "open", "spent"}
  /\ turn_named \in BOOLEAN
  /\ auth_token_ \in BOOLEAN

TurnInit ==
  /\ turn_state = "NOT_ACTIVE"
  /\ turn_socket = "closed"
  /\ turn_named \in BOOLEAN
  /\ auth_token_ = FALSE

Connect(connects) == turn_socket' = IF connects THEN "connecting" ELSE "closed"

-----------------------------------------------------------------------------
(* RequestCredentials has three ways on, and is refused while one is under way.
   While it connects the provider is NOT_ACTIVE: another call closes the
   connection, and starts over unless the close fails. *)

Refuses == turn_state # "NOT_ACTIVE" \/ turn_socket # "closed"

RequestResolves ==
  /\ turn_state = "NOT_ACTIVE" /\ turn_named
  /\ turn_state' = "RESOLVING"
  /\ turn_socket' = "closed"
  /\ UNCHANGED <<turn_named, auth_token_>>

\* The caller then asks the authentication provider.
RequestAuthenticates ==
  /\ turn_state = "NOT_ACTIVE" /\ ~turn_named /\ ~auth_token_
  /\ turn_state' = "AUTHENTICATING"
  /\ turn_socket' = "closed"
  /\ UNCHANGED <<turn_named, auth_token_>>

RequestConnects(connects) ==
  /\ turn_state = "NOT_ACTIVE" /\ ~turn_named /\ auth_token_
  /\ Connect(connects)
  /\ UNCHANGED <<turn_state, turn_named, auth_token_>>

-----------------------------------------------------------------------------

\* AddressResolve; a name that is not found stays one.
ResolveAuthenticates(found) ==
  /\ turn_state = "RESOLVING" /\ ~auth_token_
  /\ turn_named' = ~found
  /\ turn_state' = "AUTHENTICATING"
  /\ UNCHANGED <<turn_socket, auth_token_>>

ResolveConnects(found, connects) ==
  /\ turn_state = "RESOLVING" /\ auth_token_
  /\ turn_named' = ~found
  /\ turn_state' = "NOT_ACTIVE"
  /\ Connect(connects)
  /\ UNCHANGED auth_token_

\* OnAuthenticationComplete: a failure changes nothing, so that the provider
\* goes on waiting.  The token may be empty.
OnAuthenticationComplete(success, token, connects) ==
  IF turn_state = "AUTHENTICATING" /\ success
  THEN /\ turn_state' = "NOT_ACTIVE"
       /\ auth_token_' = token
       /\ Connect(connects)
       /\ UNCHANGED turn_named
  ELSE UNCHANGED turn

SocketOpen ==
  /\ turn_socket = "connecting"
  /\ turn_socket' = "open"
  /\ turn_state' = IF turn_state = "NOT_ACTIVE" THEN "ACTIVE" ELSE turn_state
  /\ UNCHANGED <<turn_named, auth_token_>>

\* SocketRead of a piece without a header.
ReadIgnored ==
  /\ turn_socket = "open" /\ turn_state = "ACTIVE"
  /\ turn_socket' = "spent"
  /\ UNCHANGED <<turn_state, turn_named, auth_token_>>

\* SocketRead: SignalCredentialsRetrieved, with or without credentials.
ReadReply ==
  /\ turn_socket = "open" /\ turn_state = "ACTIVE"
  /\ turn_socket' = "closed"
  /\ turn_state' = "NOT_ACTIVE"
  /\ UNCHANGED <<turn_named, auth_token_>>

BadSocketClose ==
  /\ turn_socket # "closed"
  /\ turn_socket' = "closed"
  /\ UNCHANGED <<turn_state, turn_named, auth_token_>>

\* SocketClose tells no one.
SocketClose ==
  /\ turn_socket # "closed"
  /\ turn_socket' = "closed"
  /\ turn_state' = "NOT_ACTIVE"
  /\ UNCHANGED <<turn_named, auth_token_>>
=============================================================================
