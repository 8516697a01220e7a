-------------------- MODULE MCPeerConnectionClientSession --------------------
EXTENDS PeerConnectionClientSession, MCPeerConnectionClient
=============================================================================
