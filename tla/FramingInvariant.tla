-------------------------- MODULE FramingInvariant --------------------------
(***************************************************************************)
(* The inductive invariant of Framing: where in the stream the client's    *)
(* parser is, and which bytes are still to come.                           *)
(***************************************************************************)
EXTENDS Framing

\* The frames there can be, and one with the length in front of it.
JpegFrames == {Jpeg(k, n) : k \in 1 .. MaxFrames, n \in Sizes}

Message(f) == putUInt32LE(Len(f)) \o f
MessageLen(f) == 4 + Len(f)

\* What the client has still to read, of what main() has given to pumps().
Unread == chunk \o socket \o unsent

\* The frames sent, and the one encoded last, which may be on its way or cut.
Underway == Append(sent, FrameSent)

-----------------------------------------------------------------------------
(* Where bytes u of a connection lie.  The message of frames[k] follows    *)
(* position offset[k] of u; offsets of what has been read are negative.    *)

Follow(frames_, offset) ==
  /\ offset \in [1 .. Len(frames_) -> Int]
  /\ \A k \in 1 .. Len(frames_) - 1 :
       offset[k + 1] = offset[k] + MessageLen(frames_[k])
  /\ \A k, m \in 1 .. Len(frames_) :
       k < m => offset[k] + MessageLen(frames_[k]) <= offset[m]

\* Up to the first message u is the end of the banner.
EndsBanner(u, first) ==
  \A j \in 1 .. Len(u) : j <= first => u[j] = BannerBytes[j - first + BANNER_SIZE]

\* From an offset on u has what a message of frame f begins with.
Carries(u, f, first) ==
  \A j \in 1 .. Len(u) :
    j - first \in 1 .. MessageLen(f) => u[j] = Message(f)[j - first]

LaidOut(u, frames_, offset) ==
  /\ Follow(frames_, offset)
  /\ EndsBanner(u, offset[1])
  /\ \A k \in 1 .. Len(frames_) : Carries(u, frames_[k], offset[k])

-----------------------------------------------------------------------------
(* The numbers the client reads.                                           *)

Digit(v, i) == putUInt32LE(v)[i] * ByteWeight[i]

\* What the first n bytes of v count.
FirstBytes(v, n) ==
  (IF n >= 1 THEN Digit(v, 1) ELSE 0) + (IF n >= 2 THEN Digit(v, 2) ELSE 0)
    + (IF n >= 3 THEN Digit(v, 3) ELSE 0) + (IF n >= 4 THEN Digit(v, 4) ELSE 0)

\* The banner once n of its bytes have been read.
BannerRead(n) ==
  [version       |-> IF n >= 1 THEN BANNER_VERSION ELSE 0,
   length        |-> IF n >= 2 THEN BANNER_SIZE ELSE 0,
   pid           |-> FirstBytes(Pid, n - 2),
   realWidth     |-> FirstBytes(RealWidth, n - 6),
   realHeight    |-> FirstBytes(RealHeight, n - 10),
   virtualWidth  |-> FirstBytes(VirtualWidth, n - 14),
   virtualHeight |-> FirstBytes(VirtualHeight, n - 18),
   orientation   |-> IF n >= 23 THEN 90 * Orientation ELSE 0,
   quirks        |-> IF n >= 24 THEN Quirks ELSE 0]

BannerInv ==
  /\ readBannerBytes \in 0 .. BANNER_SIZE
  /\ bannerLength = IF readBannerBytes >= 2 THEN BANNER_SIZE ELSE 2
  /\ banner = BannerRead(readBannerBytes)

-----------------------------------------------------------------------------

\* The frame the client is reading, and what it knows of it.
Reading == Underway[Len(pushed) + 1]

FrameInv ==
  /\ ~exited
  /\ pushed \in Seq(JpegFrames) /\ Len(pushed) <= Len(sent)
  /\ \A i \in 1 .. Len(pushed) : pushed[i] = sent[i]
  /\ readFrameBytes \in 0 .. MessageLen(Reading) - 1
  /\ readBannerBytes < BANNER_SIZE => pushed = <<>> /\ readFrameBytes = 0
  /\ readFrameBytes <= 4 =>
       frameBody = <<>> /\ frameBodyLength = FirstBytes(Len(Reading), readFrameBytes)
  /\ readFrameBytes >= 4 =>
       /\ frameBodyLength = MessageLen(Reading) - readFrameBytes
       /\ frameBody = SubSeq(Reading, 1, readFrameBytes - 4)

\* How far the stream goes beyond the frames that have been sent.
Ends(tail) ==
  /\ at \in {"banner", "loop", "accept", "frame", "ended"}
  /\ at = "banner" => tail = 0 /\ sent = <<>>
  /\ at \in {"loop", "accept"} => tail = 0
  /\ at = "frame"  => tail = MessageLen(FrameSent)
  /\ at = "ended"  => tail < MessageLen(FrameSent)

\* The client stands at the beginning of what lies before it.
Located(offset) ==
  /\ LaidOut(Unread, Underway, offset)
  /\ offset[Len(pushed) + 1] = BANNER_SIZE - readBannerBytes - readFrameBytes
  /\ Ends(Len(Unread) - offset[Len(sent) + 1])

Unconnected ==
  /\ sent = <<>> /\ socket = <<>> /\ chunk = <<>> /\ readBannerBytes = 0
  /\ readFrameBytes = 0 /\ frameBodyLength = 0 /\ frameBody = <<>>
  /\ pushed = <<>> /\ ~exited

ConnectionInv ==
  IF connected
  THEN FrameInv /\ \E offset \in [1 .. Len(sent) + 1 -> Int] : Located(offset)
  ELSE Unconnected

-----------------------------------------------------------------------------

BytesInv ==
  /\ chunk \in Seq(Int) /\ socket \in Seq(Int) /\ unsent \in Seq(Int)
  /\ stdout \in Seq(Int) /\ sent \in Seq(JpegFrames)
  /\ connected \in BOOLEAN /\ frames \in Nat

\* The buffer holds the last frame, the length in front of it.
EncoderInv ==
  /\ mEncodedData \in Seq(Int) /\ WithinBuffer
  /\ at \notin {"reserve", "ended"} => maxSize = mPrePadding + mPostPadding + BufSize
  /\ mEncodedSize \in 0 .. BufSize
  /\ frames = 0 => mEncodedSize = 0
  /\ frames >= 1 => mEncodedSize \in Sizes /\ FrameSent = Jpeg(frames, mEncodedSize)
  /\ at = "frame" => frames \in 1 .. MaxFrames

\* Something is being sent or written.
Writing == at \in {"banner", "frame", "shotWrite"}

ControlInv ==
  /\ at \in {"reserve", "accept", "banner", "loop", "frame", "ended",
             "shot", "shotWrite", "shotDone"}
  /\ Writing <=> unsent # <<>>
  /\ at \in {"reserve", "shot"} => frames = 0
  /\ at \in {"reserve", "shot", "shotWrite", "shotDone"} => ~connected

ShotInv ==
  /\ at \notin {"shotWrite", "shotDone", "ended"} => stdout = <<>>
  /\ at = "shotWrite" => \E n \in Sizes : stdout \o unsent = Jpeg(1, n)
  /\ ScreenshotIsJpeg

FramingInv ==
  BytesInv /\ EncoderInv /\ ControlInv /\ ShotInv /\ BannerInv /\ ConnectionInv

=============================================================================
