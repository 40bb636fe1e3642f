----------------------------- MODULE MCWsServer ------------------------------
(* WsServer with both authentication mechanisms and two connections.       *)
EXTENDS WsServer

CONSTANTS u1, u2, none

MCUser == {u1, u2}

\* Nothing, an identity both mechanisms agree on, and one they do not.
MCHandshake ==
    {[header |-> none, cred |-> none], [header |-> u1, cred |-> u1], [header |-> u1, cred |-> u2]}
=============================================================================
