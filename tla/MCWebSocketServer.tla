------------------------- MODULE MCWebSocketServer -------------------------
(* Connections from different addresses.  clients.json is an empty list, a list that knows *)
(* one of the clients, or an object with one entry, "client2".                             *)
EXTENDS WebSocketServer

CONSTANT old   \* a client that does not connect

MCAddrs == Conns \cup {old}
MCAddr == [c \in Conns |-> c]
MCFiles == {<<>>, <<CHOOSE c \in Conns : TRUE>>, [k \in {2} |-> old]}
=============================================================================
