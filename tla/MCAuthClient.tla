---------------------------- MODULE MCAuthClient -----------------------------
(* AuthClient with three credentials, one of them of two bytes.            *)
EXTENDS AuthClient

CONSTANTS c1, c2, c3

MCCredential == {c1, c2, c3}

MCSizeOf(c) == IF c = c3 THEN 2 ELSE 1
=============================================================================
