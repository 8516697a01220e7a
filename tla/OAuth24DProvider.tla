--------------------------- MODULE OAuth24DProvider ---------------------------
(***************************************************************************)
(* OAuth 2.0 for devices (Libraries/Authentication): a code is asked from  *)
(* one server, shown to the user, and another server is polled until the   *)
(* user has entered it.  Every callback runs on the signalling thread.     *)
(* The actions leave the variables of other modules open: a module that    *)
(* listens to the provider's signals conjoins what it does in them.        *)
(***************************************************************************)
EXTENDS Naturals

VARIABLES
  oauth_state,   \* state_
  named,         \* which of code_host_ and poll_host_ are still names
  poll_host_,    \* the server that poll_host_ is the name or address of
  oauth_socket,  \* the newest socket: where it leads, and what it is
  has_code,      \* data_.device_code is not empty
  polls          \* kPollMessageId messages posted and not delivered

oauth == <<oauth_state, named, poll_host_, oauth_socket, has_code, polls>>

OAuthStates == {"NOT_ACTIVE", "RESOLVING_CODE", "RESOLVING_POLL", "REQUEST_CODE",
                "REQUEST_POLL", "ACTIVE_CODE", "ACTIVE_POLL"}
Servers == {"code", "poll"}

\* "open": a request was sent and is not answered; "spent": what was answered
\* has been read and nothing more will come.
Links == {"closed", "connecting", "open", "spent"}

\* What a read finds.  A reply may come in pieces; a piece has no header or no
\* complete JSON.
Replies == {"piece", "code", "no_code", "pending", "token", "no_token", "error"}

OAuthTypeOK ==
  /\ oauth_state \in OAuthStates
  /\ named \subseteq Servers
  /\ poll_host_ \in Servers
  /\ oauth_socket \in [to : Servers, is : Links]
  /\ has_code \in BOOLEAN
  /\ polls \in {0, 1}

OAuthInit ==
  /\ oauth_state = "NOT_ACTIVE"
  /\ named \in SUBSET Servers
  /\ poll_host_ = "poll"
  /\ oauth_socket = [to |-> "code", is |-> "closed"]
  /\ has_code = FALSE
  /\ polls = 0

-----------------------------------------------------------------------------

\* A new socket replaces the last one; Connect may fail at once.
ConnectSocket(server, connects) ==
  oauth_socket' = [to |-> server, is |-> IF connects THEN "connecting" ELSE "closed"]

\* Authenticate, which returns ret.
Authenticate(ret) ==
  \/ /\ oauth_state # "NOT_ACTIVE" /\ ~ret
     /\ UNCHANGED oauth
  \/ /\ oauth_state = "NOT_ACTIVE" /\ "code" \in named /\ ret
     /\ oauth_state' = "RESOLVING_CODE"
     /\ UNCHANGED <<named, poll_host_, oauth_socket, has_code, polls>>
  \/ /\ oauth_state = "NOT_ACTIVE" /\ named = {"poll"} /\ ret
     /\ oauth_state' = "RESOLVING_POLL"
     /\ UNCHANGED <<named, poll_host_, oauth_socket, has_code, polls>>
  \/ /\ oauth_state = "NOT_ACTIVE" /\ named = {}
     /\ oauth_state' = "REQUEST_CODE"
     /\ ConnectSocket("code", ret)
     /\ UNCHANGED <<named, poll_host_, has_code, polls>>

Resolved(server, found) == named' = IF found THEN named \ {server} ELSE named

\* AddressResolve; a name that is not found stays one and is connected to all
\* the same.  With only the code host to resolve, the address found becomes
\* that of the poll host as well.
AddressResolve(found, connects) ==
  /\ oauth_state \in {"RESOLVING_CODE", "RESOLVING_POLL"}
  /\ \/ /\ oauth_state = "RESOLVING_CODE" /\ "poll" \in named
        /\ Resolved("code", found)
        /\ oauth_state' = "RESOLVING_POLL"
        /\ UNCHANGED <<poll_host_, oauth_socket>>
     \/ /\ oauth_state = "RESOLVING_CODE" /\ "poll" \notin named
        /\ named' = IF found THEN {} ELSE Servers
        /\ poll_host_' = "code"
        /\ oauth_state' = "REQUEST_CODE"
        /\ ConnectSocket("code", connects)
     \/ /\ oauth_state = "RESOLVING_POLL"
        /\ Resolved("poll", found)
        /\ oauth_state' = "REQUEST_CODE"
        /\ ConnectSocket("code", connects)
        /\ UNCHANGED poll_host_
  /\ UNCHANGED <<has_code, polls>>

\* OnMessage: the time to poll again has come.
OnMessage(connects) ==
  /\ polls > 0
  /\ polls' = polls - 1
  /\ ConnectSocket(poll_host_, connects)
  /\ UNCHANGED <<oauth_state, named, poll_host_, has_code>>

\* SocketOpen sends the request of the state.
SocketOpen ==
  /\ oauth_socket.is = "connecting"
  /\ oauth_socket' = [oauth_socket EXCEPT !.is = "open"]
  /\ oauth_state' = CASE oauth_state = "REQUEST_CODE" -> "ACTIVE_CODE"
                      [] oauth_state = "REQUEST_POLL" -> "ACTIVE_POLL"
                      [] OTHER -> oauth_state
  /\ UNCHANGED <<named, poll_host_, has_code, polls>>

\* SocketRead drops a reply it cannot use, with the rest of it still to come.
Ignored(reply) ==
  \/ reply = "piece"
  \/ oauth_state \notin {"ACTIVE_CODE", "ACTIVE_POLL"}
  \/ oauth_state = "ACTIVE_POLL" /\ reply \notin {"pending", "token", "no_token"}

ReadIgnored(reply) ==
  /\ oauth_socket.is = "open" /\ Ignored(reply)
  /\ oauth_socket' = [oauth_socket EXCEPT !.is = "spent"]
  /\ UNCHANGED <<oauth_state, named, poll_host_, has_code, polls>>

BadReadCode(reply, connects) ==
  /\ oauth_socket.is = "open" /\ oauth_state = "ACTIVE_CODE" /\ reply # "piece"
  /\ has_code' = (has_code \/ reply = "code")
  /\ oauth_state' = "REQUEST_POLL"
  /\ oauth_socket' = [oauth_socket EXCEPT !.is = "closed"]
  /\ UNCHANGED <<named, poll_host_, polls>>

\* SocketRead, SignalCodeComplete: whatever JSON answers is taken for a code.
ReadCode(reply, connects) ==
  /\ oauth_socket.is = "open" /\ oauth_state = "ACTIVE_CODE" /\ reply # "piece"
  /\ has_code' = (has_code \/ reply = "code")
  /\ oauth_state' = "REQUEST_POLL"
  /\ ConnectSocket(poll_host_, connects)
  /\ UNCHANGED <<named, poll_host_, polls>>

BadReadPending(reply) ==
  /\ oauth_socket.is = "open" /\ oauth_state = "ACTIVE_POLL" /\ reply = "pending"
  /\ oauth_state' = "REQUEST_POLL"
  /\ ConnectSocket(poll_host_, TRUE)
  /\ polls' = polls + 1
  /\ UNCHANGED <<named, poll_host_, has_code>>

\* SocketRead of a 400: the user has not entered the code yet.
ReadPending(reply) ==
  /\ oauth_socket.is = "open" /\ oauth_state = "ACTIVE_POLL" /\ reply = "pending"
  /\ oauth_state' = "REQUEST_POLL"
  /\ oauth_socket' = [oauth_socket EXCEPT !.is = "closed"]
  /\ polls' = polls + 1
  /\ UNCHANGED <<named, poll_host_, has_code>>

\* SocketRead of a 200: SignalAuthenticationComplete tells of success, with the
\* token the reply has or an empty one.
ReadToken(reply) ==
  /\ oauth_socket.is = "open" /\ oauth_state = "ACTIVE_POLL"
  /\ reply \in {"token", "no_token"}
  /\ oauth_state' = "NOT_ACTIVE"
  /\ oauth_socket' = [oauth_socket EXCEPT !.is = "closed"]
  /\ UNCHANGED <<named, poll_host_, has_code, polls>>

\* SocketClose: nothing is done about a connection that is refused or lost.
SocketClose ==
  /\ oauth_socket.is # "closed"
  /\ oauth_socket' = [oauth_socket EXCEPT !.is = "closed"]
  /\ UNCHANGED <<oauth_state, named, poll_host_, has_code, polls>>
=============================================================================
