----------------------------- MODULE WireBytes -----------------------------
(***************************************************************************)
(* Bytes, as the program writes and its client reads them.                 *)
(***************************************************************************)
EXTENDS Integers, SequencesExt

CONSTANT Base   \* values a byte can have: 256

ASSUME BaseAssumption == Base \in Nat /\ Base > 2

Bytes == 0 .. Base - 1
UInt32s == 0 .. Base * Base * Base * Base - 1

\* What each byte of a uint32_t counts, the least significant first.
ByteWeight == <<1, Base, Base * Base, Base * Base * Base>>

=============================================================================
