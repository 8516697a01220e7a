----------------------------- MODULE LoginProofs -----------------------------
(***************************************************************************)
(* The safety properties of Login, for any number of requests.             *)
(* Each provider keeps its own part of the invariant whatever the other    *)
(* two do; what they owe each other is the part called Owed.               *)
(***************************************************************************)
EXTENDS Login, TLAPS

\* A token, or a connection to the TURN provider, comes after the signal that
\* sets the authorisation header.
TokenSetsHeader == auth_token_ \/ turn_socket # "closed" => header

\* Without a TURN provider there is nothing that could run.
TurnIsWired == turn_state # "NOT_ACTIVE" \/ turn_socket # "closed" => with_turn

Owed ==
  TurnIsWired /\ TokenSetsHeader /\ ButtonNeedsAuthorisation /\ AuthenticatingIsAwaited

OAuthInv == OAuth!OAuthTypeOK /\ OAuthFits /\ OnePollAtATime
ServerInv == ServerAuth!ServerAuthTypeOK /\ ServerFits
TurnInv == Turn!TurnTypeOK /\ TurnFits
LocalInv ==
  /\ kind \in {"oauth", "server"} /\ with_turn \in BOOLEAN
  /\ header \in BOOLEAN /\ credentials \in BOOLEAN /\ connect_button_state_ \in BOOLEAN
  /\ asks \in 0..MaxAsks /\ failed \in BOOLEAN

IInv == LocalInv /\ OAuthInv /\ ServerInv /\ TurnInv /\ Owed

\* A provider's part depends on its own variables alone.
LEMMA OAuthStutters == OAuthInv /\ UNCHANGED oauth => OAuthInv'
BY DEF OAuthInv, OAuth!OAuthTypeOK, OAuthFits, OnePollAtATime, oauth
LEMMA ServerStutters == ServerInv /\ UNCHANGED server_auth => ServerInv'
BY DEF ServerInv, ServerAuth!ServerAuthTypeOK, ServerFits, server_auth
LEMMA TurnStutters == TurnInv /\ UNCHANGED turn => TurnInv'
BY DEF TurnInv, Turn!TurnTypeOK, TurnFits, turn

-----------------------------------------------------------------------------
(* What each provider does by itself *)

LEMMA ConnectsTo ==
  ASSUME NEW server \in OAuth!Servers, NEW connects \in BOOLEAN,
         OAuth!ConnectSocket(server, connects)
  PROVE  /\ oauth_socket' \in [to : OAuth!Servers, is : OAuth!Links]
         /\ oauth_socket'.is = IF connects THEN "connecting" ELSE "closed"
<1>1. CASE connects
  BY <1>1 DEF OAuth!ConnectSocket, OAuth!Links
<1>2. CASE ~connects
  BY <1>2 DEF OAuth!ConnectSocket, OAuth!Links
<1> QED
  BY <1>1, <1>2

LEMMA OAuthAuthenticates ==
  ASSUME OAuthInv, NEW ret \in BOOLEAN, OAuth!Authenticate(ret)
  PROVE  /\ OAuthInv'
         /\ ret => OAuthWorks'
<1> USE DEF OAuthInv, OAuth!OAuthTypeOK, OAuth!OAuthStates, OAuthFits, OnePollAtATime,
  OAuthWorks
<1>1. CASE OAuth!ConnectSocket("code", ret)
  <2>1. /\ oauth_socket' \in [to : OAuth!Servers, is : OAuth!Links]
        /\ oauth_socket'.is = IF ret THEN "connecting" ELSE "closed"
    BY <1>1, ConnectsTo DEF OAuth!Servers
  <2> QED
    BY <1>1, <2>1 DEF OAuth!Authenticate, OAuth!oauth
<1>2. CASE ~OAuth!ConnectSocket("code", ret)
  BY <1>2 DEF OAuth!Authenticate, OAuth!oauth
<1> QED
  BY <1>1, <1>2

OAuthSteps ==
  \/ \E found, connects \in BOOLEAN : OAuth!AddressResolve(found, connects)
  \/ \E connects \in BOOLEAN : OAuth!OnMessage(connects)
  \/ OAuth!SocketOpen \/ OAuth!SocketClose
  \/ \E reply \in OAuth!Replies : OAuth!ReadIgnored(reply)
  \/ \E reply \in OAuth!Replies, connects \in BOOLEAN : OAuth!ReadCode(reply, connects)
  \/ OAuth!ReadPending("pending")
  \/ \E reply \in {"token", "no_token"} : OAuth!ReadToken(reply)

LEMMA OAuthKeeps == OAuthInv /\ OAuthSteps => OAuthInv'
<1> SUFFICES ASSUME OAuthInv, OAuthSteps PROVE OAuthInv'
  OBVIOUS
<1> USE DEF OAuthInv, OAuth!OAuthTypeOK, OAuth!OAuthStates, OAuth!Servers, OAuth!Links,
  OAuthFits, OnePollAtATime
<1>1. ASSUME NEW found \in BOOLEAN, NEW connects \in BOOLEAN,
             OAuth!AddressResolve(found, connects)
      PROVE  OAuthInv'
  <2>1. CASE OAuth!ConnectSocket("code", connects)
    <3>1. /\ oauth_socket' \in [to : OAuth!Servers, is : OAuth!Links]
          /\ oauth_socket'.is = IF connects THEN "connecting" ELSE "closed"
      BY <2>1, ConnectsTo
    <3> QED
      BY <1>1, <2>1, <3>1 DEF OAuth!AddressResolve, OAuth!Resolved
  <2>2. CASE UNCHANGED oauth_socket /\ oauth_state' = "RESOLVING_POLL"
    BY <1>1, <2>2 DEF OAuth!AddressResolve, OAuth!Resolved
  <2> QED
    BY <1>1, <2>1, <2>2 DEF OAuth!AddressResolve
<1>2. ASSUME NEW connects \in BOOLEAN, OAuth!OnMessage(connects)
      PROVE  OAuthInv'
  BY <1>2 DEF OAuth!OnMessage, OAuth!ConnectSocket
<1>3. CASE OAuth!SocketOpen
  BY <1>3 DEF OAuth!SocketOpen
<1>4. CASE OAuth!SocketClose
  BY <1>4 DEF OAuth!SocketClose
<1>5. ASSUME NEW reply \in OAuth!Replies, OAuth!ReadIgnored(reply)
      PROVE  OAuthInv'
  BY <1>5 DEF OAuth!ReadIgnored
<1>6. ASSUME NEW reply \in OAuth!Replies, NEW connects \in BOOLEAN,
             OAuth!ReadCode(reply, connects)
      PROVE  OAuthInv'
  BY <1>6 DEF OAuth!ReadCode, OAuth!ConnectSocket
<1>7. CASE OAuth!ReadPending("pending")
  BY <1>7 DEF OAuth!ReadPending
<1>8. ASSUME NEW reply \in {"token", "no_token"}, OAuth!ReadToken(reply)
      PROVE  OAuthInv'
  BY <1>8 DEF OAuth!ReadToken
<1> QED
  BY <1>1, <1>2, <1>3, <1>4, <1>5, <1>6, <1>7, <1>8 DEF OAuthSteps

LEMMA ServerAuthenticates ==
  ASSUME ServerInv, NEW ret \in BOOLEAN, ServerAuth!Authenticate(ret)
  PROVE  /\ ServerInv'
         /\ ret => ServerWorks'
BY DEF ServerInv, ServerAuth!ServerAuthTypeOK, ServerFits, ServerWorks,
  ServerAuth!Authenticate, ServerAuth!Connect, ServerAuth!server_auth

ServerSteps ==
  \/ \E found, connects \in BOOLEAN : ServerAuth!AddressResolve(found, connects)
  \/ ServerAuth!SocketOpen \/ ServerAuth!ReadIgnored \/ ServerAuth!ReadReply
  \/ ServerAuth!SocketClose

LEMMA ServerKeeps == ServerInv /\ ServerSteps => ServerInv'
BY DEF ServerInv, ServerSteps, ServerAuth!ServerAuthTypeOK, ServerFits,
  ServerAuth!AddressResolve, ServerAuth!Connect, ServerAuth!SocketOpen,
  ServerAuth!ReadIgnored, ServerAuth!ReadReply, ServerAuth!SocketClose

TurnSteps ==
  \/ Turn!RequestResolves \/ Turn!RequestAuthenticates
  \/ \E connects \in BOOLEAN : Turn!RequestConnects(connects)
  \/ \E found \in BOOLEAN : Turn!ResolveAuthenticates(found)
  \/ \E found, connects \in BOOLEAN : Turn!ResolveConnects(found, connects)
  \/ \E success, token, connects \in BOOLEAN :
       Turn!OnAuthenticationComplete(success, token, connects)
  \/ Turn!SocketOpen \/ Turn!ReadIgnored \/ Turn!ReadReply \/ Turn!SocketClose

LEMMA TurnKeeps == TurnInv /\ TurnSteps => TurnInv'
BY DEF TurnInv, TurnSteps, Turn!TurnTypeOK, TurnFits, Turn!turn, Turn!Connect,
  Turn!RequestResolves, Turn!RequestAuthenticates, Turn!RequestConnects,
  Turn!ResolveAuthenticates, Turn!ResolveConnects, Turn!OnAuthenticationComplete,
  Turn!SocketOpen, Turn!ReadIgnored, Turn!ReadReply, Turn!SocketClose

-----------------------------------------------------------------------------
(* What the program makes of them *)

LEMMA AuthenticateKeeps ==
  ASSUME IInv, NEW ret \in BOOLEAN, Authenticate(ret), UNCHANGED kind
  PROVE  /\ OAuthInv' /\ ServerInv'
         /\ ret => IF kind' = "oauth" THEN OAuthWorks' ELSE ServerWorks'
<1>1. CASE kind = "oauth" /\ OAuth!Authenticate(ret) /\ UNCHANGED server_auth
  BY <1>1, OAuthAuthenticates, ServerStutters DEF IInv
<1>2. CASE kind = "server" /\ ServerAuth!Authenticate(ret) /\ UNCHANGED oauth
  BY <1>2, ServerAuthenticates, OAuthStutters DEF IInv
<1> QED
  BY <1>1, <1>2 DEF Authenticate

LEMMA InitHolds == Init => IInv
<1> SUFFICES ASSUME Init PROVE IInv
  OBVIOUS
<1>1. LocalInv
  <2>1. asks \in 0..MaxAsks
    BY LoginAssumption DEF Init
  <2> QED
    BY <2>1 DEF Init, LocalInv
<1>2. OAuthInv
  <2>1. oauth_socket = [to |-> "code", is |-> "closed"]
    BY DEF Init, OAuth!OAuthInit
  <2>2. oauth_socket \in [to : OAuth!Servers, is : OAuth!Links] /\ oauth_socket.is = "closed"
    BY <2>1 DEF OAuth!Servers, OAuth!Links
  <2>3. named \subseteq OAuth!Servers
    BY DEF Init, OAuth!OAuthInit
  <2>4. oauth_state = "NOT_ACTIVE" /\ poll_host_ = "poll" /\ has_code = FALSE /\ polls = 0
    BY DEF Init, OAuth!OAuthInit
  <2>5. OAuth!OAuthTypeOK
    BY <2>2, <2>3, <2>4 DEF OAuth!OAuthTypeOK, OAuth!OAuthStates, OAuth!Servers
  <2> QED
    BY <2>2, <2>4, <2>5 DEF OAuthInv, OAuthFits, OnePollAtATime
<1>3. ServerInv /\ TurnInv
  BY DEF Init, ServerAuth!ServerAuthInit, Turn!TurnInit, ServerInv, TurnInv,
    ServerAuth!ServerAuthTypeOK, ServerFits, Turn!TurnTypeOK, TurnFits
<1>4. Owed
  BY DEF Init, Turn!TurnInit, Owed, TurnIsWired, TokenSetsHeader,
    ButtonNeedsAuthorisation, AuthenticatingIsAwaited
<1> QED
  BY <1>1, <1>2, <1>3, <1>4 DEF IInv

LEMMA AskKeeps == IInv /\ Ask => IInv'
<1> SUFFICES ASSUME IInv, Ask PROVE IInv'
  OBVIOUS
<1>1. LocalInv'
  <2>1. asks' \in 0..MaxAsks
    BY LoginAssumption DEF IInv, LocalInv, Ask
  <2>2. failed' \in BOOLEAN
    BY DEF IInv, LocalInv, Ask, RequestCredentials, Note
  <2> QED
    BY <2>1, <2>2 DEF IInv, LocalInv, Ask, wiring, client
<1>2. CASE with_turn /\ RequestCredentials
  <2>1. CASE Turn!Refuses /\ UNCHANGED <<providers, failed>>
    <3>1. UNCHANGED <<oauth, server_auth, turn, failed, wiring, client>>
      BY <2>1 DEF providers, Ask
    <3>2. Owed'
      BY <3>1 DEF IInv, Owed, oauth, server_auth, turn, wiring, client, TurnIsWired, TokenSetsHeader,
        ButtonNeedsAuthorisation, AuthenticatingIsAwaited, OAuthWorks, ServerWorks
    <3> QED
      BY <1>1, <3>1, <3>2, OAuthStutters, ServerStutters, TurnStutters DEF IInv
  <2>2. CASE Turn!RequestResolves /\ UNCHANGED <<oauth, server_auth, failed>>
    <3>1. Owed'
      BY <1>2, <2>2 DEF IInv, Owed, Ask, wiring, client, TurnIsWired, TokenSetsHeader,
        ButtonNeedsAuthorisation, AuthenticatingIsAwaited, Turn!RequestResolves
    <3> QED
      BY <1>1, <2>2, <3>1, OAuthStutters, ServerStutters, TurnKeeps DEF IInv, TurnSteps
  <2>3. ASSUME NEW ret \in BOOLEAN,
               Turn!RequestAuthenticates /\ Authenticate(ret) /\ Note(~ret)
        PROVE  IInv'
    <3>1. UNCHANGED <<wiring, client>>
      BY DEF Ask
    <3>2. /\ OAuthInv' /\ ServerInv'
          /\ ret => IF kind' = "oauth" THEN OAuthWorks' ELSE ServerWorks'
      BY <2>3, <3>1, AuthenticateKeeps DEF wiring
    <3>3. Owed'
      BY <1>2, <2>3, <3>1, <3>2 DEF IInv, Owed, wiring, client, TurnIsWired, TokenSetsHeader, Note,
        ButtonNeedsAuthorisation, AuthenticatingIsAwaited, Turn!RequestAuthenticates
    <3> QED
      BY <1>1, <2>3, <3>2, <3>3, TurnKeeps DEF IInv, TurnSteps
  <2>4. ASSUME NEW connects \in BOOLEAN,
               Turn!RequestConnects(connects) /\ Note(~connects),
               UNCHANGED <<oauth, server_auth>>
        PROVE  IInv'
    <3>1. Owed'
      BY <1>2, <2>4 DEF IInv, Owed, Ask, wiring, client, TurnIsWired, TokenSetsHeader,
        ButtonNeedsAuthorisation, AuthenticatingIsAwaited, Turn!RequestConnects
    <3> QED
      BY <1>1, <2>4, <3>1, OAuthStutters, ServerStutters, TurnKeeps DEF IInv, TurnSteps
  <2> QED
    BY <1>2, <2>1, <2>2, <2>3, <2>4 DEF RequestCredentials
<1>3. ASSUME NEW ret \in BOOLEAN,
             ~with_turn /\ Authenticate(ret) /\ Note(~ret) /\ UNCHANGED turn
      PROVE  IInv'
  <2>1. UNCHANGED <<wiring, client>>
    BY DEF Ask
  <2>2. /\ OAuthInv' /\ ServerInv'
        /\ ret => IF kind' = "oauth" THEN OAuthWorks' ELSE ServerWorks'
    BY <1>3, <2>1, AuthenticateKeeps DEF wiring
  <2>3. Owed'
    BY <1>3, <2>1, <2>2 DEF IInv, Owed, wiring, client, turn, TurnIsWired, TokenSetsHeader, Note,
      ButtonNeedsAuthorisation, AuthenticatingIsAwaited
  <2> QED
    BY <1>1, <1>3, <2>2, <2>3, TurnStutters DEF IInv
<1> QED
  BY <1>2, <1>3 DEF Ask

\* A step of the OAuth or the server provider that tells no one.
LEMMA ProviderAloneKeeps ==
  ASSUME IInv, OAuthInv', ServerInv', UNCHANGED <<turn, wiring, client, asks>>,
         failed' \in BOOLEAN, failed => failed',
         \/ failed'
         \/ turn_state = "AUTHENTICATING" =>
              IF kind = "oauth" THEN OAuthWorks' ELSE ServerWorks'
  PROVE  IInv'
<1>1. LocalInv'
  BY DEF IInv, LocalInv, wiring, client
<1>2. Owed'
  BY DEF IInv, Owed, turn, wiring, client, TurnIsWired, TokenSetsHeader, ButtonNeedsAuthorisation,
    AuthenticatingIsAwaited
<1> QED
  BY <1>1, <1>2, TurnStutters DEF IInv

OAuthAlone ==
  OAuthResolves \/ OAuthPolls \/ OAuthOpens \/ OAuthIgnores \/ OAuthReadsCode
  \/ OAuthIsPending \/ OAuthCloses

LEMMA OAuthAloneKeeps == IInv /\ OAuthAlone => IInv'
<1> SUFFICES ASSUME IInv, OAuthAlone PROVE IInv'
  OBVIOUS
<1>1. kind = "oauth" /\ UNCHANGED <<server_auth, turn, wiring, client, asks>>
  BY DEF OAuthAlone, OAuthResolves, OAuthPolls, OAuthOpens, OAuthIgnores,
    OAuthReadsCode, OAuthIsPending, OAuthCloses, OAuthOnly, OAuthRuns
<1>2. OAuthSteps
  BY DEF OAuthAlone, OAuthResolves, OAuthPolls, OAuthOpens, OAuthIgnores,
    OAuthReadsCode, OAuthIsPending, OAuthCloses, OAuthSteps
<1>3. failed' \in BOOLEAN /\ (failed => failed')
  BY DEF IInv, LocalInv, OAuthAlone, OAuthResolves, OAuthPolls, OAuthOpens, OAuthIgnores,
    OAuthReadsCode, OAuthIsPending, OAuthCloses, Note
<1>4. failed' \/ OAuthWorks'
  <2> USE DEF IInv, OAuthInv, OAuth!OAuthTypeOK, OAuth!OAuthStates, OAuth!Servers,
    OAuth!Links, OAuthWorks, Note, LocalInv
  <2>1. CASE OAuthResolves
    <3>1. PICK found \in BOOLEAN, connects \in BOOLEAN :
            OAuth!AddressResolve(found, connects) /\ Note(~found \/ ~connects)
      BY <2>1 DEF OAuthResolves
    <3>2. CASE OAuth!ConnectSocket("code", connects)
      BY <3>1, <3>2, ConnectsTo
    <3>3. CASE oauth_state' = "RESOLVING_POLL"
      BY <3>3
    <3> QED
      BY <3>1, <3>2, <3>3 DEF OAuth!AddressResolve
  <2>2. CASE OAuthPolls
    BY <2>2, ConnectsTo DEF OAuthPolls, OAuth!OnMessage
  <2>3. CASE OAuthOpens
    BY <2>3 DEF OAuthOpens, OAuth!SocketOpen
  <2>4. CASE OAuthIgnores \/ OAuthCloses
    BY <2>4 DEF OAuthIgnores, OAuthCloses
  <2>5. CASE OAuthReadsCode
    BY <2>5, ConnectsTo DEF OAuthReadsCode, OAuth!ReadCode
  <2>6. CASE OAuthIsPending
    BY <2>6 DEF OAuthIsPending, OAuth!ReadPending
  <2> QED
    BY <2>1, <2>2, <2>3, <2>4, <2>5, <2>6 DEF OAuthAlone
<1>5. OAuthInv' /\ ServerInv'
  BY <1>1, <1>2, OAuthKeeps, ServerStutters DEF IInv
<1> QED
  BY <1>1, <1>3, <1>4, <1>5, ProviderAloneKeeps

ServerAlone == ServerResolves \/ ServerOpens \/ ServerIgnores \/ ServerCloses

LEMMA ServerAloneKeeps == IInv /\ ServerAlone => IInv'
<1> SUFFICES ASSUME IInv, ServerAlone PROVE IInv'
  OBVIOUS
<1> USE DEF ServerAlone, ServerResolves, ServerOpens, ServerIgnores, ServerCloses
<1>1. kind = "server" /\ UNCHANGED <<oauth, turn, wiring, client, asks>>
  BY DEF ServerOnly, ServerRuns
<1>2. ServerSteps
  BY DEF ServerSteps
<1>3. failed' \in BOOLEAN /\ (failed => failed')
  BY DEF IInv, LocalInv, Note
<1>4. failed' \/ ServerWorks'
  BY DEF IInv, LocalInv, Note, ServerWorks, ServerAuth!AddressResolve,
    ServerAuth!Connect, ServerAuth!SocketOpen
<1>5. OAuthInv' /\ ServerInv'
  BY <1>1, <1>2, ServerKeeps, OAuthStutters DEF IInv
<1> QED
  BY <1>1, <1>3, <1>4, <1>5, ProviderAloneKeeps

LEMMA CompleteKeeps ==
  ASSUME IInv, NEW success \in BOOLEAN, NEW token \in BOOLEAN, OAuthInv', ServerInv',
         AuthenticationComplete(success, token), UNCHANGED <<wiring, asks>>
  PROVE  IInv'
<1>1. PICK connects \in BOOLEAN :
        IF with_turn
        THEN /\ Turn!OnAuthenticationComplete(success, token, connects)
             /\ Note(~success \/ ~token \/ ~connects)
        ELSE UNCHANGED turn /\ Note(~success \/ ~token)
  BY DEF AuthenticationComplete
<1>2. /\ header' = (header \/ success)
      /\ connect_button_state_' = (connect_button_state_ \/ (success /\ ~with_turn))
      /\ UNCHANGED credentials
  BY DEF AuthenticationComplete
<1>3. LocalInv'
  BY <1>1, <1>2 DEF IInv, LocalInv, wiring, Note
<1>4. CASE with_turn
  <2>1. TurnInv'
    BY <1>1, <1>4, TurnKeeps DEF IInv, TurnSteps
  <2>2. Owed'
    BY <1>1, <1>2, <1>4 DEF IInv, LocalInv, Owed, TurnInv, Turn!TurnTypeOK, wiring, Note,
      TurnIsWired, TokenSetsHeader, ButtonNeedsAuthorisation, AuthenticatingIsAwaited, Turn!turn,
      Turn!OnAuthenticationComplete, Turn!Connect
  <2> QED
    BY <1>3, <2>1, <2>2 DEF IInv
<1>5. CASE ~with_turn
  <2>1. Owed'
    BY <1>1, <1>2, <1>5 DEF IInv, LocalInv, Owed, TurnInv, Turn!TurnTypeOK, wiring, turn,
      Note, TurnIsWired, TokenSetsHeader, ButtonNeedsAuthorisation, AuthenticatingIsAwaited
  <2> QED
    BY <1>1, <1>3, <1>5, <2>1, TurnStutters DEF IInv
<1> QED
  BY <1>4, <1>5

LEMMA TurnRunsKeeps ==
  IInv /\ (TurnResolves \/ TurnOpens \/ TurnIgnores
           \/ (\E success \in BOOLEAN : TurnReads(success)) \/ TurnCloses) => IInv'
<1> USE DEF TurnRuns, TurnOnly
<1>1. ASSUME IInv, NEW found \in BOOLEAN, NEW ret \in BOOLEAN,
             Turn!ResolveAuthenticates(found) /\ Authenticate(ret),
             TurnRuns /\ UNCHANGED client /\ Note(~found \/ ~ret)
      PROVE  IInv'
  <2>1. /\ OAuthInv' /\ ServerInv'
        /\ ret => IF kind' = "oauth" THEN OAuthWorks' ELSE ServerWorks'
    BY <1>1, AuthenticateKeeps DEF wiring
  <2>2. Owed'
    BY <1>1, <2>1 DEF IInv, LocalInv, Owed, wiring, client, TurnIsWired, TokenSetsHeader, Note,
      ButtonNeedsAuthorisation, AuthenticatingIsAwaited, Turn!ResolveAuthenticates
  <2>3. LocalInv'
    BY <1>1 DEF IInv, LocalInv, wiring, client, Note
  <2> QED
    BY <1>1, <2>1, <2>2, <2>3, TurnKeeps DEF IInv, TurnSteps
<1>2. ASSUME IInv, TurnOnly, TurnInv', failed' \in BOOLEAN, failed => failed',
             turn_state' # "AUTHENTICATING",
             auth_token_' = auth_token_,
             turn_socket' # "closed" => turn_socket # "closed" \/ auth_token_,
             turn_state' # "NOT_ACTIVE" \/ turn_socket' # "closed" => with_turn
      PROVE  IInv'
  <2>1. Owed'
    BY <1>2 DEF IInv, Owed, wiring, client, TurnIsWired, TokenSetsHeader, ButtonNeedsAuthorisation,
      AuthenticatingIsAwaited
  <2>2. LocalInv'
    BY <1>2 DEF IInv, LocalInv, wiring, client
  <2> QED
    BY <1>2, <2>1, <2>2, OAuthStutters, ServerStutters DEF IInv
<1>3. ASSUME IInv, NEW found \in BOOLEAN, NEW connects \in BOOLEAN,
             Turn!ResolveConnects(found, connects) /\ TurnOnly /\ Note(~found \/ ~connects)
      PROVE  IInv'
  <2>1. TurnInv'
    BY <1>3, TurnKeeps DEF IInv, TurnSteps
  <2> QED
    BY <1>2, <1>3, <2>1 DEF IInv, LocalInv, Owed, TurnIsWired, Note,
      Turn!ResolveConnects, Turn!Connect
<1>4. ASSUME IInv, TurnOpens \/ TurnIgnores \/ TurnCloses
      PROVE  IInv'
  <2>1. TurnInv'
    BY <1>4, TurnKeeps DEF IInv, TurnSteps, TurnOpens, TurnIgnores, TurnCloses
  <2> QED
    BY <1>2, <1>4, <2>1 DEF IInv, LocalInv, Owed, TurnIsWired, TurnInv, Turn!TurnTypeOK, TurnFits, Note,
      TurnOpens, TurnIgnores, TurnCloses, Turn!SocketOpen, Turn!ReadIgnored,
      Turn!SocketClose
<1>5. ASSUME IInv, NEW success \in BOOLEAN, TurnReads(success)
      PROVE  IInv'
  <2>1. TurnInv'
    BY <1>5, TurnKeeps DEF IInv, TurnSteps, TurnReads
  <2>2. LocalInv'
    BY <1>5 DEF IInv, LocalInv, TurnReads, wiring, Note
  <2>3. Owed'
    BY <1>5 DEF IInv, LocalInv, Owed, TurnReads, wiring, Note, TurnIsWired, TokenSetsHeader,
      ButtonNeedsAuthorisation, AuthenticatingIsAwaited, Turn!ReadReply
  <2> QED
    BY <1>5, <2>1, <2>2, <2>3, OAuthStutters, ServerStutters DEF IInv, TurnReads
<1> QED
  BY <1>1, <1>3, <1>4, <1>5 DEF TurnResolves

LEMMA NextKeeps == IInv /\ [Next]_vars => IInv'
<1> SUFFICES ASSUME IInv, [Next]_vars PROVE IInv'
  OBVIOUS
<1>1. ASSUME NEW reply \in {"token", "no_token"}, OAuthReadsToken(reply)
      PROVE  IInv'
  <2>1. OAuthInv' /\ ServerInv'
    BY <1>1, OAuthKeeps, ServerStutters DEF IInv, OAuthReadsToken, OAuthRuns, OAuthSteps
  <2> QED
    BY <1>1, <2>1, CompleteKeeps DEF OAuthReadsToken, OAuthRuns
<1>2. ASSUME NEW success \in BOOLEAN, ServerReads(success)
      PROVE  IInv'
  <2>1. OAuthInv' /\ ServerInv'
    BY <1>2, ServerKeeps, OAuthStutters DEF IInv, ServerReads, ServerRuns, ServerSteps
  <2> QED
    BY <1>2, <2>1, CompleteKeeps DEF ServerReads, ServerRuns
<1>3. CASE UNCHANGED vars
  <2>1. UNCHANGED <<oauth, server_auth, turn, wiring, client, asks, failed>>
    BY <1>3 DEF vars, providers
  <2>2. Owed' /\ LocalInv'
    BY <2>1 DEF IInv, LocalInv, Owed, oauth, server_auth, turn, wiring, client,
      TurnIsWired, TokenSetsHeader, ButtonNeedsAuthorisation, AuthenticatingIsAwaited, OAuthWorks,
      ServerWorks
  <2> QED
    BY <2>1, <2>2, OAuthStutters, ServerStutters, TurnStutters DEF IInv
<1> QED
  BY <1>1, <1>2, <1>3, AskKeeps, OAuthAloneKeeps, ServerAloneKeeps, TurnRunsKeeps
  DEF Next, OAuthAlone, ServerAlone

-----------------------------------------------------------------------------

LEMMA Invariance == Spec => []IInv
BY InitHolds, NextKeeps, PTL DEF Spec

\* Every reachable state is well typed (main.cpp and the three providers).
THEOREM LoginTypeCorrect == Spec => []TypeOK
<1>1. IInv => TypeOK
  BY DEF IInv, LocalInv, OAuthInv, ServerInv, TurnInv, TypeOK
<1> QED
  BY <1>1, Invariance, PTL

\* The connect button shows only to a client that is allowed to sign in, however
\* often credentials are asked for and whatever fails (main.cpp, authComplete
\* and credentialsRetrieved).
THEOREM ButtonIsEarned == Spec => []ButtonNeedsAuthorisation
<1>1. IInv => ButtonNeedsAuthorisation
  BY DEF IInv, Owed
<1> QED
  BY <1>1, Invariance, PTL

\* The states the callbacks test always agree with the sockets they are called
\* for (SocketOpen and SocketRead of the three providers), and there is one poll
\* timer at most, with no connection for it to replace (PostDelayed in
\* OAuth24DProvider::SocketRead).
THEOREM StatesAndSocketsAgree == Spec => []CallbacksMeetTheirState
<1>1. IInv => CallbacksMeetTheirState
  BY DEF IInv, OAuthInv, ServerInv, TurnInv, StatesFitSockets, CallbacksMeetTheirState
<1> QED
  BY <1>1, Invariance, PTL

\* While nothing fails, a TURN provider that waits for a token has an
\* authentication provider at work on one (OnAuthenticationComplete).
THEOREM WaitsForSomeone == Spec => []AuthenticatingIsAwaited
<1>1. IInv => AuthenticatingIsAwaited
  BY DEF IInv, Owed
<1> QED
  BY <1>1, Invariance, PTL

-----------------------------------------------------------------------------
(* Where the device code is polled for *)

\* The poll host keeps its own address, both names being looked up in turn.
PollHost ==
  /\ named # {"code"}
  /\ poll_host_ = "poll"
  /\ oauth_state = "RESOLVING_CODE" => "poll" \in named
  /\ oauth_state = "RESOLVING_POLL" => "code" \notin named
  /\ oauth_state \in {"REQUEST_POLL", "ACTIVE_POLL"} => oauth_socket.to = "poll"

LEMMA AuthenticateKeepsHost ==
  ASSUME OAuthInv, PollHost, NEW ret \in BOOLEAN, OAuth!Authenticate(ret)
  PROVE  PollHost'
<1>1. named \subseteq {"code", "poll"}
  BY DEF OAuthInv, OAuth!OAuthTypeOK, OAuth!Servers
<1> QED
  BY <1>1 DEF PollHost, OAuth!Authenticate, OAuth!oauth

\* A name that is not found is a failure.
LEMMA AddressKeepsHost ==
  ASSUME OAuthInv, PollHost, NEW connects \in BOOLEAN, OAuth!AddressResolve(TRUE, connects)
  PROVE  PollHost'
<1>1. named \subseteq {"code", "poll"}
  BY DEF OAuthInv, OAuth!OAuthTypeOK, OAuth!Servers
<1> QED
  BY <1>1 DEF PollHost, OAuth!AddressResolve, OAuth!Resolved

LEMMA SocketsKeepHost ==
  ASSUME OAuthInv, PollHost,
         \/ \E connects \in BOOLEAN : OAuth!OnMessage(connects)
         \/ OAuth!SocketOpen \/ OAuth!SocketClose
         \/ \E reply \in OAuth!Replies : OAuth!ReadIgnored(reply)
         \/ \E reply \in OAuth!Replies, connects \in BOOLEAN : OAuth!ReadCode(reply, connects)
         \/ OAuth!ReadPending("pending")
         \/ \E reply \in {"token", "no_token"} : OAuth!ReadToken(reply)
  PROVE  PollHost'
<1>1. poll_host_ = "poll" /\ oauth_socket \in [to : OAuth!Servers, is : OAuth!Links]
  BY DEF OAuthInv, OAuth!OAuthTypeOK, PollHost
<1>2. ASSUME NEW connects \in BOOLEAN,
             OAuth!OnMessage(connects) \/ \E reply \in OAuth!Replies : OAuth!ReadCode(reply, connects)
      PROVE  PollHost'
  <2>1. oauth_socket'.to = "poll" /\ UNCHANGED <<named, poll_host_>>
    BY <1>1, <1>2 DEF OAuth!OnMessage, OAuth!ReadCode, OAuth!ConnectSocket
  <2>2. oauth_state' \in {oauth_state, "REQUEST_POLL"}
    BY <1>2 DEF OAuth!OnMessage, OAuth!ReadCode
  <2> QED
    BY <2>1, <2>2 DEF PollHost
<1>3. CASE \/ OAuth!SocketOpen \/ OAuth!SocketClose \/ OAuth!ReadPending("pending")
           \/ \E reply \in OAuth!Replies : OAuth!ReadIgnored(reply)
           \/ \E reply \in {"token", "no_token"} : OAuth!ReadToken(reply)
  <2>1. oauth_socket'.to = oauth_socket.to /\ UNCHANGED <<named, poll_host_>>
    BY <1>1, <1>3 DEF OAuth!SocketOpen, OAuth!SocketClose, OAuth!ReadPending, OAuth!ReadIgnored, OAuth!ReadToken
  <2>2. \/ oauth_state' \in {oauth_state, "NOT_ACTIVE", "ACTIVE_CODE"}
        \/ oauth_state \in {"REQUEST_POLL", "ACTIVE_POLL"}
           /\ oauth_state' \in {"REQUEST_POLL", "ACTIVE_POLL"}
    BY <1>3 DEF OAuth!SocketOpen, OAuth!SocketClose, OAuth!ReadPending, OAuth!ReadIgnored, OAuth!ReadToken
  <2> QED
    BY <2>1, <2>2 DEF PollHost
<1> QED
  BY <1>2, <1>3

LEMMA NextKeepsHost ==
  ASSUME IInv, failed \/ PollHost, [Next]_vars
  PROVE  failed' \/ PollHost'
<1>1. failed => failed'
  BY DEF Next, Ask, RequestCredentials, Note, providers, OAuthResolves, OAuthPolls, OAuthOpens, OAuthIgnores,
    OAuthReadsCode, OAuthIsPending, OAuthReadsToken, OAuthCloses, ServerResolves, ServerOpens, ServerIgnores,
    ServerReads, ServerCloses, AuthenticationComplete, TurnResolves, TurnOpens, TurnIgnores, TurnReads,
    TurnCloses, vars
<1>2. SUFFICES ASSUME PollHost, ~failed'
               PROVE  PollHost'
  BY <1>1
<1>3. UNCHANGED oauth => PollHost'
  BY <1>2 DEF oauth, PollHost
<1>4. \A ret \in BOOLEAN : Authenticate(ret) => PollHost'
  BY <1>2, <1>3, AuthenticateKeepsHost DEF Authenticate, IInv
<1>5. CASE Ask
  BY <1>3, <1>4, <1>5 DEF Ask, RequestCredentials, providers
<1>6. CASE OAuthResolves
  <2>1. PICK found \in BOOLEAN, connects \in BOOLEAN :
          OAuth!AddressResolve(found, connects) /\ Note(~found \/ ~connects)
    BY <1>6 DEF OAuthResolves
  <2>2. found = TRUE
    BY <1>2, <2>1 DEF Note
  <2> QED
    BY <1>2, <2>1, <2>2, AddressKeepsHost DEF IInv
<1>7. CASE \/ OAuthPolls \/ OAuthOpens \/ OAuthIgnores \/ OAuthReadsCode \/ OAuthIsPending
           \/ OAuthCloses \/ \E reply \in {"token", "no_token"} : OAuthReadsToken(reply)
  BY <1>2, <1>7, SocketsKeepHost DEF IInv, OAuthPolls, OAuthOpens, OAuthIgnores, OAuthReadsCode,
    OAuthIsPending, OAuthReadsToken, OAuthCloses
<1>8. CASE \/ ServerAlone \/ \E success \in BOOLEAN : ServerReads(success)
           \/ TurnOpens \/ TurnIgnores \/ TurnCloses \/ \E success \in BOOLEAN : TurnReads(success)
  BY <1>3, <1>8 DEF ServerAlone, ServerResolves, ServerOpens, ServerIgnores, ServerReads, ServerCloses,
    ServerOnly, ServerRuns, TurnOpens, TurnIgnores, TurnCloses, TurnReads, TurnOnly
<1>9. CASE TurnResolves
  BY <1>3, <1>4, <1>9 DEF TurnResolves, TurnOnly
<1>10. CASE UNCHANGED vars
  BY <1>3, <1>10 DEF vars, providers
<1> QED
  BY <1>5, <1>6, <1>7, <1>8, <1>9, <1>10 DEF Next, ServerAlone

\* Unless the code host is the only one given as a name (which poll_server shows
\* to go wrong) or something failed, the code is polled for where poll_uri leads,
\* for any number of requests (AddressResolve, oauth24d_provider.cpp:268-306).
THEOREM PollsWhereToldTo ==
  Spec /\ named # {"code"} => [](failed \/ PollsThePollServer)
<1>1. Init /\ named # {"code"} => failed \/ PollHost
  BY DEF Init, OAuth!OAuthInit, PollHost
<1>2. IInv /\ (failed \/ PollHost) /\ [Next]_vars => (failed \/ PollHost)'
  BY NextKeepsHost
<1>3. failed \/ PollHost => failed \/ PollsThePollServer
  BY DEF PollHost, PollsThePollServer
<1> QED
  BY <1>1, <1>2, <1>3, Invariance, PTL DEF Spec
=============================================================================
