---------------------------- MODULE MCConnections ----------------------------
(* Small instances of Connections for TLC. *)
EXTENDS Connections, TLC

CONSTANTS c1, c2

MCClients == {c1, c2}

\* More than the buffers hold waits for one of the clients.
MCUnread == (c1 :> 2) @@ (c2 :> 0)

MCMaxSends == (c1 :> 2) @@ (c2 :> 1)
==============================================================================
