----------------------------- MODULE MCFraming -----------------------------
(***************************************************************************)
(* Framing for TLC.  A byte has 25 values, the fewest that can hold the    *)
(* banner's size, so that the length of a long frame takes two bytes.      *)
(***************************************************************************)
EXTENDS Framing

\* The two highest bytes stand for FF D8.
MCJpegHeader == <<Base - 1, Base - 2>>

=============================================================================
