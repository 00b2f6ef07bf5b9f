----------------------------- MODULE JpgEncoder -----------------------------
(***************************************************************************)
(* class JpgEncoder (jni/minicap/JpgEncoder.cpp): the buffer a frame is    *)
(* compressed into, with room in front of it where main() puts the length, *)
(* so that both leave in one piece.  The buffer is reserved once and       *)
(* holds the bytes of earlier frames behind a shorter one.                 *)
(*                                                                         *)
(* Compression itself is external: it writes some bytes, no more than      *)
(* tjBufSize() names for the size the buffer was reserved for.             *)
(***************************************************************************)
EXTENDS WireBytes

CONSTANTS
  mPrePadding,  \* bytes left free in front of the data
  mPostPadding, \* bytes left free behind it
  BufSize       \* tjBufSize() of the real display size

ASSUME EncoderAssumption ==
  /\ mPrePadding \in Nat /\ mPostPadding \in Nat /\ BufSize \in Nat

\* What memory holds before anything is written to it.
Unwritten == -1

VARIABLES
  mEncodedData,   \* the buffer; empty: it was not reserved
  mEncodedSize,   \* length of the last frame encoded
  maxSize         \* bytes that were allocated for the buffer

encoderVars == <<mEncodedData, mEncodedSize, maxSize>>

EncoderInit ==
  /\ mEncodedData = <<>>
  /\ mEncodedSize = 0
  /\ maxSize = 0

\* Memory s once bytes b have been written at an offset, past its end too.
Overwrite(s, offset, b) ==
  [i \in 1 .. Max({Len(s), offset + Len(b)}) |->
     IF i \in offset + 1 .. offset + Len(b) THEN b[i - offset] ELSE s[i]]

\* Faulty variant: the length is not allowed for.
reserveData_Unpadded ==
  /\ maxSize' = BufSize
  /\ mEncodedData' = [i \in 1 .. maxSize' |-> Unwritten]
  /\ UNCHANGED mEncodedSize

\* reserveData() where it returns true; main() calls it once.
reserveData ==
  /\ maxSize' = mPrePadding + mPostPadding + BufSize
  /\ mEncodedData' = [i \in 1 .. maxSize' |-> Unwritten]
  /\ UNCHANGED mEncodedSize

\* encode() of a frame that compresses to jpeg, and the length main() then
\* writes in front of it.
encode(jpeg, prefix) ==
  /\ mEncodedData' = Overwrite(Overwrite(mEncodedData, mPrePadding, jpeg),
                               mPrePadding - Len(prefix), prefix)
  /\ mEncodedSize' = Len(jpeg)
  /\ UNCHANGED maxSize

=============================================================================
