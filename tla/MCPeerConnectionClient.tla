----------------------- MODULE MCPeerConnectionClient -----------------------
EXTENDS PeerConnectionClient

\* Every reply a server can give, and those of one that closes the connection
\* of an HTTP/1.0 request and does not fail with a 500.
AnyReply == Reply
GoodReply == {r \in Reply : r.close /\ r.status # "500"}
=============================================================================
