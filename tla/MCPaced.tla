------------------------------ MODULE MCPaced ------------------------------
(* The instance of PacedMain that TLC checks.  A tick is 50 ms: no pacing, *)
(* 20 frames a second, and fewer than the timeout of a wait allows.        *)
EXTENDS PacedMain

CONSTANTS c1, none

MCClients == {c1}

=============================================================================
