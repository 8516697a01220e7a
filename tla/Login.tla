-------------------------------- MODULE Login --------------------------------
(***************************************************************************)
(* How the native client comes to be allowed to sign in (main.cpp): an     *)
(* authentication provider gets a token, a TURN provider, when there is    *)
(* one, gets credentials with it, and only then the connect button shows.  *)
(* The OAuth provider is the one main.cpp uses; the library's other one is *)
(* wired here in the same way.                                             *)
(***************************************************************************)
EXTENDS Naturals

CONSTANT
  MaxAsks  \* requests the program makes; main.cpp makes one
ASSUME LoginAssumption == MaxAsks \in Nat \ {0}

VARIABLES
  oauth_state, named, poll_host_, oauth_socket, has_code, polls,
  server_auth_state, server_auth_socket, authority_named,
  turn_state, turn_socket, turn_named, auth_token_,
  kind,                   \* the authentication provider
  with_turn,              \* a TURN provider is configured
  header,                 \* SetAuthorizationHeader was called
  credentials,            \* SetTurnCredentials was called
  connect_button_state_,
  asks,
  failed                  \* history: a call, a connection or a reply failed

OAuth == INSTANCE OAuth24DProvider
ServerAuth == INSTANCE ServerAuthenticationProvider
Turn == INSTANCE TurnCredentialProvider

oauth == <<oauth_state, named, poll_host_, oauth_socket, has_code, polls>>
server_auth == <<server_auth_state, server_auth_socket, authority_named>>
turn == <<turn_state, turn_socket, turn_named, auth_token_>>
wiring == <<kind, with_turn>>
client == <<header, credentials, connect_button_state_>>
providers == <<oauth, server_auth, turn>>
vars == <<providers, wiring, client, asks, failed>>

TypeOK ==
  /\ OAuth!OAuthTypeOK /\ ServerAuth!ServerAuthTypeOK /\ Turn!TurnTypeOK
  /\ kind \in {"oauth", "server"}
  /\ with_turn \in BOOLEAN
  /\ header \in BOOLEAN /\ credentials \in BOOLEAN /\ connect_button_state_ \in BOOLEAN
  /\ asks \in 0..MaxAsks
  /\ failed \in BOOLEAN

Init ==
  /\ OAuth!OAuthInit /\ ServerAuth!ServerAuthInit /\ Turn!TurnInit
  /\ kind \in {"oauth", "server"} /\ with_turn \in BOOLEAN
  /\ header = FALSE /\ credentials = FALSE /\ connect_button_state_ = FALSE
  /\ asks = 0 /\ failed = FALSE

Note(failure) == failed' = (failed \/ failure)

-----------------------------------------------------------------------------
(* main.cpp asks *)

\* auth_provider_->Authenticate().
Authenticate(ret) ==
  \/ kind = "oauth" /\ OAuth!Authenticate(ret) /\ UNCHANGED server_auth
  \/ kind = "server" /\ ServerAuth!Authenticate(ret) /\ UNCHANGED oauth

\* turn->RequestCredentials().
RequestCredentials ==
  \/ Turn!Refuses /\ UNCHANGED <<providers, failed>>
  \/ Turn!RequestResolves /\ UNCHANGED <<oauth, server_auth, failed>>
  \/ \E ret \in BOOLEAN : Turn!RequestAuthenticates /\ Authenticate(ret) /\ Note(~ret)
  \/ \E connects \in BOOLEAN :
       /\ Turn!RequestConnects(connects) /\ Note(~connects)
       /\ UNCHANGED <<oauth, server_auth>>

Ask ==
  /\ asks < MaxAsks
  /\ asks' = asks + 1
  /\ \/ with_turn /\ RequestCredentials
     \/ \E ret \in BOOLEAN :
          ~with_turn /\ Authenticate(ret) /\ Note(~ret) /\ UNCHANGED turn
  /\ UNCHANGED <<wiring, client>>

-----------------------------------------------------------------------------
(* The provider of tokens *)

BadAuthenticationComplete(success, token) ==
  /\ \E connects \in BOOLEAN :
       IF with_turn
       THEN /\ Turn!OnAuthenticationComplete(success, token, connects)
            /\ Note(~success \/ ~token \/ ~connects)
       ELSE UNCHANGED turn /\ Note(~success \/ ~token)
  /\ header' = (header \/ success)
  /\ connect_button_state_' = (connect_button_state_ \/ success)
  /\ UNCHANGED credentials

\* SignalAuthenticationComplete reaches OnAuthenticationComplete of the TURN
\* provider first, then authComplete.
AuthenticationComplete(success, token) ==
  /\ \E connects \in BOOLEAN :
       IF with_turn
       THEN /\ Turn!OnAuthenticationComplete(success, token, connects)
            /\ Note(~success \/ ~token \/ ~connects)
       ELSE UNCHANGED turn /\ Note(~success \/ ~token)
  /\ header' = (header \/ success)
  /\ connect_button_state_' = (connect_button_state_ \/ (success /\ ~with_turn))
  /\ UNCHANGED credentials

OAuthRuns == kind = "oauth" /\ UNCHANGED <<server_auth, wiring, asks>>
OAuthOnly == OAuthRuns /\ UNCHANGED <<turn, client>>

OAuthResolves ==
  \E found, connects \in BOOLEAN :
    OAuth!AddressResolve(found, connects) /\ OAuthOnly /\ Note(~found \/ ~connects)
OAuthPolls ==
  \E connects \in BOOLEAN : OAuth!OnMessage(connects) /\ OAuthOnly /\ Note(~connects)
OAuthOpens == OAuth!SocketOpen /\ OAuthOnly /\ UNCHANGED failed
OAuthIgnores ==
  \E reply \in OAuth!Replies : OAuth!ReadIgnored(reply) /\ OAuthOnly /\ Note(TRUE)
OAuthReadsCode ==
  \E reply \in OAuth!Replies, connects \in BOOLEAN :
    OAuth!ReadCode(reply, connects) /\ OAuthOnly /\ Note(reply # "code" \/ ~connects)
OAuthIsPending ==
  OAuth!ReadPending("pending") /\ OAuthOnly /\ UNCHANGED failed
OAuthReadsToken(reply) ==
  OAuth!ReadToken(reply) /\ OAuthRuns /\ AuthenticationComplete(TRUE, reply = "token")
OAuthCloses == OAuth!SocketClose /\ OAuthOnly /\ Note(TRUE)

ServerRuns == kind = "server" /\ UNCHANGED <<oauth, wiring, asks>>
ServerOnly == ServerRuns /\ UNCHANGED <<turn, client>>

ServerResolves ==
  \E found, connects \in BOOLEAN :
    ServerAuth!AddressResolve(found, connects) /\ ServerOnly /\ Note(~found \/ ~connects)
ServerOpens == ServerAuth!SocketOpen /\ ServerOnly /\ UNCHANGED failed
ServerIgnores == ServerAuth!ReadIgnored /\ ServerOnly /\ Note(TRUE)
ServerReads(success) ==
  ServerAuth!ReadReply /\ ServerRuns /\ AuthenticationComplete(success, success)
ServerCloses == ServerAuth!SocketClose /\ ServerOnly /\ Note(TRUE)

-----------------------------------------------------------------------------
(* The provider of credentials *)

TurnRuns == UNCHANGED <<wiring, asks>>
TurnOnly == TurnRuns /\ UNCHANGED <<oauth, server_auth, client>>

TurnResolves ==
  \/ \E found, ret \in BOOLEAN :
       /\ Turn!ResolveAuthenticates(found) /\ Authenticate(ret)
       /\ TurnRuns /\ UNCHANGED client /\ Note(~found \/ ~ret)
  \/ \E found, connects \in BOOLEAN :
       Turn!ResolveConnects(found, connects) /\ TurnOnly /\ Note(~found \/ ~connects)
TurnOpens == Turn!SocketOpen /\ TurnOnly /\ UNCHANGED failed
TurnIgnores == Turn!ReadIgnored /\ TurnOnly /\ Note(TRUE)

BadTurnReads(success) ==
  /\ Turn!ReadReply /\ TurnRuns
  /\ credentials' = (credentials \/ success)
  /\ Note(~success)
  /\ UNCHANGED <<connect_button_state_, header, oauth, server_auth>>

\* SignalCredentialsRetrieved reaches credentialsRetrieved.
TurnReads(success) ==
  /\ Turn!ReadReply /\ TurnRuns
  /\ credentials' = (credentials \/ success)
  /\ connect_button_state_' = (connect_button_state_ \/ success)
  /\ Note(~success)
  /\ UNCHANGED <<header, oauth, server_auth>>
TurnCloses == Turn!SocketClose /\ TurnOnly /\ Note(TRUE)

-----------------------------------------------------------------------------

Next ==
  \/ Ask
  \/ OAuthResolves \/ OAuthPolls \/ OAuthOpens \/ OAuthIgnores \/ OAuthReadsCode
  \/ OAuthIsPending \/ (\E reply \in {"token", "no_token"} : OAuthReadsToken(reply))
  \/ OAuthCloses
  \/ ServerResolves \/ ServerOpens \/ ServerIgnores
  \/ (\E success \in BOOLEAN : ServerReads(success)) \/ ServerCloses
  \/ TurnResolves \/ TurnOpens \/ TurnIgnores
  \/ (\E success \in BOOLEAN : TurnReads(success)) \/ TurnCloses

Spec == Init /\ [][Next]_vars

\* The first request is part of the program's start.  Names are resolved,
\* connections are made or refused, requests are answered or their connections
\* lost, and posted messages delivered.  The user enters the code in time: the
\* poll server, if it is that server, does not answer "not yet" for ever.
Reads ==
  \/ OAuthIgnores \/ OAuthReadsCode \/ OAuthIsPending
  \/ (\E reply \in {"token", "no_token"} : OAuthReadsToken(reply)) \/ OAuthCloses
ServerAnswers ==
  ServerIgnores \/ (\E success \in BOOLEAN : ServerReads(success)) \/ ServerCloses
TurnAnswers ==
  TurnIgnores \/ (\E success \in BOOLEAN : TurnReads(success)) \/ TurnCloses
Fairness ==
  /\ WF_vars(asks = 0 /\ Ask)
  /\ WF_vars(OAuthResolves) /\ WF_vars(ServerResolves) /\ WF_vars(TurnResolves)
  /\ WF_vars(OAuthPolls)
  /\ WF_vars(OAuthOpens \/ OAuthCloses)
  /\ WF_vars(ServerOpens \/ ServerCloses)
  /\ WF_vars(TurnOpens \/ TurnCloses)
  /\ WF_vars(Reads) /\ WF_vars(ServerAnswers) /\ WF_vars(TurnAnswers)
  /\ SF_vars(poll_host_ = "poll" /\ OAuthReadsToken("token"))
FairSpec == Spec /\ Fairness

-----------------------------------------------------------------------------

\* The connect button shows only when the client has its authorisation header
\* and, with a TURN provider, its credentials: whichever of the signals comes
\* last enables it (main.cpp, credentialsRetrieved and authComplete).
ButtonNeedsAuthorisation ==
  connect_button_state_ => header /\ (with_turn => credentials)

\* The poll timer runs at most once, and only between two connections: a second
\* timer would replace the connection whose answer is awaited (PostDelayed in
\* OAuth24DProvider::SocketRead; ConnectSocket replaces socket_).
OnePollAtATime ==
  polls > 0 => polls = 1 /\ oauth_state = "REQUEST_POLL" /\ oauth_socket.is = "closed"

TurnFits ==
  /\ turn_state \in {"RESOLVING", "AUTHENTICATING"} => turn_socket = "closed"
  /\ turn_state = "ACTIVE" <=> turn_socket \in {"open", "spent"}
ServerFits ==
  /\ server_auth_state = "RESOLVING" => server_auth_socket = "closed"
  /\ server_auth_state = "ACTIVE" <=> server_auth_socket \in {"open", "spent"}
OAuthFits ==
  /\ oauth_socket.is = "connecting" => oauth_state \in {"REQUEST_CODE", "REQUEST_POLL"}
  /\ oauth_socket.is = "open" => oauth_state \in {"ACTIVE_CODE", "ACTIVE_POLL"}

\* The callbacks of a provider test its state and not its socket.  Over repeated
\* requests, failures and signals from one provider to the other the two always
\* agree: no request goes out in a state whose reply would be passed over, and
\* none is made while the last one's connection is still there.
StatesFitSockets == TurnFits /\ ServerFits /\ OAuthFits

\* The replies and the poll timer meet the state and the socket they are for.
CallbacksMeetTheirState == StatesFitSockets /\ OnePollAtATime

\* The TURN provider waits for a token only while the authentication provider
\* is at work on one.  After a failure it may wait for ever: it keeps the state
\* AUTHENTICATING and refuses every further RequestCredentials.
OAuthWorks ==
  \/ oauth_state \in {"RESOLVING_CODE", "RESOLVING_POLL"}
  \/ oauth_socket.is \in {"connecting", "open"}
  \/ polls > 0
ServerWorks == server_auth_state = "RESOLVING" \/ server_auth_socket \in {"connecting", "open"}
AuthenticatingIsAwaited ==
  turn_state = "AUTHENTICATING" =>
    failed \/ IF kind = "oauth" THEN OAuthWorks ELSE ServerWorks

\* The device code is always polled for where poll_uri leads.
PollsThePollServer ==
  oauth_state = "ACTIVE_POLL" => oauth_socket.to = "poll"

\* A login in which nothing fails ends with the connect button, when polling
\* asks the poll server (see PollsThePollServer).
LoginCompletes == <>(connect_button_state_ \/ failed \/ poll_host_ = "code")
=============================================================================
