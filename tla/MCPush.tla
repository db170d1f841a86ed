------------------------------- MODULE MCPush -------------------------------
(* The instance of Push for TLC.                                           *)
EXTENDS Push

CONSTANTS s1, d1, d2, url

=============================================================================
