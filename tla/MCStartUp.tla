----------------------------- MODULE MCStartUp -----------------------------
(* A small instance of StartUp for TLC. *)
EXTENDS StartUp

\* Refused; one that is 0 as a float, and so refused; a period that is even as
\* a fraction and not always as a float; one that does not come out even; one
\* below a millisecond; one that is an int or not as it is rounded; the
\* infinite, and what is not a number.
MCRates ==
  {[num |-> 0, den |-> 1], [num |-> 1, den |-> 1000], [num |-> 25, den |-> 2],
   [num |-> 30, den |-> 1], [num |-> 1500, den |-> 1], [num |-> 125, den |-> 32],
   [num |-> 1, den |-> 0], [num |-> 0, den |-> 0]}

=============================================================================
