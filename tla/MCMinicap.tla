------------------------------ MODULE MCMinicap ------------------------------
(* The instances of MinicapMain that TLC checks.                           *)
EXTENDS MinicapInvariant

CONSTANTS c1, c2, none

MCClients == {c1, c2}

=============================================================================
