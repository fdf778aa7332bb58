------------------------- MODULE MCWebSocketServer -------------------------
(* Small instances of the WebSocket server. *)
EXTENDS WebSocketServer, TLC

\* Channels differ in nothing but their identity.
Symmetry == Permutations(Channels)
=============================================================================
