------------------------------ MODULE Framing ------------------------------
(***************************************************************************)
(* The bytes between main() and the example client: the banner and the     *)
(* frames main() sends with pumps() (minicap.cpp:108-152, 450-524), from   *)
(* the encoder's buffer, through a socket that takes a part of what it is  *)
(* given, to tryRead(); and the one frame of -s, which pumpf() writes to   *)
(* the standard output.  MinicapMain sends whole messages instead.         *)
(*                                                                         *)
(* at is where main() is: before a client, in one of the two pumps(), in   *)
(* the frame loop between frames, past the accept loop; with -s, before    *)
(* the frame, in pumpf(), or at the return after it.                       *)
(***************************************************************************)
EXTENDS JpgEncoder, ExampleClient

CONSTANTS
  Sizes,             \* lengths a frame can be compressed to
  SockBytes,         \* bytes a socket takes before send() blocks
  Pid, RealWidth, RealHeight, VirtualWidth, VirtualHeight,
  Orientation, Quirks,
  MaxFrames,         \* bound: frames encoded
  MaxConnections     \* bound: connections accepted

BANNER_VERSION == 1
BANNER_SIZE == 24

ASSUME FramingAssumption ==
  /\ mPrePadding = 4
  /\ JpegHeader \in Bytes \X Bytes
  /\ Sizes # {} /\ Sizes \subseteq 2 .. BufSize /\ BufSize \in UInt32s
  /\ SockBytes \in Nat \ {0}
  /\ {Pid, RealWidth, RealHeight, VirtualWidth, VirtualHeight} \subseteq UInt32s
  /\ {BANNER_SIZE, Orientation, Quirks} \subseteq Bytes
  /\ MaxFrames \in Nat /\ MaxConnections \in Nat

VARIABLES
  at,            \* "reserve", "accept", "banner", "loop", "frame", "ended",
                 \* "shot", "shotWrite", "shotDone"
  unsent,        \* what pumps() has still to send: length bytes at data
  connected,     \* the client holds its end of the connection
  connections,   \* connections accepted so far
  frames,        \* frames encoded so far
  sent,          \* frames pumps() has sent all of, on this connection
  stdout         \* what pumpf() has written

serverVars == <<at, unsent, connected, connections, frames, sent, stdout>>
vars == <<encoderVars, clientVars, serverVars>>

Init ==
  /\ EncoderInit
  /\ ClientInit
  /\ at = "reserve"
  /\ unsent = <<>>
  /\ connected = FALSE
  /\ connections = 0
  /\ frames = 0
  /\ sent = <<>>
  /\ stdout = <<>>

\* Faulty variant: the most significant byte first.
putUInt32LE_BigEndian(value) == [i \in 1 .. 4 |-> (value \div ByteWeight[5 - i]) % Base]

putUInt32LE(value) == [i \in 1 .. 4 |-> (value \div ByteWeight[i]) % Base]

BannerBytes ==
  <<BANNER_VERSION, BANNER_SIZE>>
    \o putUInt32LE(Pid)
    \o putUInt32LE(RealWidth) \o putUInt32LE(RealHeight)
    \o putUInt32LE(VirtualWidth) \o putUInt32LE(VirtualHeight)
    \o <<Orientation, Quirks>>

\* The k-th frame, compressed to n bytes.
Jpeg(k, n) == JpegHeader \o [i \in 1 .. n - 2 |-> (k + i) % Base]

-----------------------------------------------------------------------------
(* The server.                                                             *)

Reserve ==
  /\ at = "reserve"
  /\ \/ reserveData /\ at' \in {"accept", "shot"}
     \/ at' = "ended" /\ UNCHANGED encoderVars
  /\ UNCHANGED <<clientVars, unsent, connected, connections, frames, sent, stdout>>

\* A client connects and is to be sent the banner.  One that main() has left
\* reads on alone, and what it reads does not depend on the next: the next
\* comes into the model when it is gone.
Accept ==
  /\ at = "accept"
  /\ ~connected
  /\ connections < MaxConnections
  /\ at' = "banner"
  /\ unsent' = BannerBytes
  /\ connected' = TRUE
  /\ connections' = connections + 1
  /\ UNCHANGED <<encoderVars, clientVars, frames, sent, stdout>>

\* Faulty variant: the length in front of the frame is not counted.
EncodeFrame_Short ==
  /\ at = "loop"
  /\ frames < MaxFrames
  /\ \E n \in Sizes :
       /\ encode(Jpeg(frames + 1, n), putUInt32LE(n))
       /\ unsent' = SubSeq(mEncodedData', mPrePadding - 3, mEncodedSize')
  /\ frames' = frames + 1
  /\ at' = "frame"
  /\ UNCHANGED <<clientVars, connected, connections, sent, stdout>>

\* A frame is encoded and given to pumps().
EncodeFrame ==
  /\ at = "loop"
  /\ frames < MaxFrames
  /\ \E n \in Sizes :
       /\ encode(Jpeg(frames + 1, n), putUInt32LE(n))
       /\ unsent' = SubSeq(mEncodedData', mPrePadding - 3, mPrePadding + mEncodedSize')
  /\ frames' = frames + 1
  /\ at' = "frame"
  /\ UNCHANGED <<clientVars, connected, connections, sent, stdout>>

\* main() leaves the loop: for disaster or for a signal, or because consuming
\* was interrupted, which closes the connection and goes on to the next.
LeaveLoop ==
  /\ at = "loop"
  /\ at' \in {"ended", "accept"}
  /\ UNCHANGED <<encoderVars, clientVars, unsent, connected, connections, frames, sent,
                 stdout>>

\* The frame whose last byte has been given to the socket.
FrameSent ==
  SubSeq(mEncodedData, mPrePadding + 1, mPrePadding + mEncodedSize)

\* send() takes some of the bytes; pumps() goes on with the rest.
SendSome ==
  /\ connected
  /\ \E wrote \in 1 .. Len(unsent) :
       /\ Len(socket) + wrote <= SockBytes
       /\ socket' = socket \o SubSeq(unsent, 1, wrote)
       /\ unsent' = SubSeq(unsent, wrote + 1, Len(unsent))
  /\ IF unsent' # <<>>
     THEN UNCHANGED <<at, sent>>
     ELSE /\ at' = "loop"
          /\ sent' = IF at = "frame" THEN Append(sent, FrameSent) ELSE sent
  /\ UNCHANGED <<encoderVars, chunk, bannerVars, frameVars, connected, connections, frames,
                 stdout>>

\* send() fails between two parts: the client has left, or a signal has been
\* handled.  The connection is closed, and what the socket has can be read.
SendFails ==
  /\ at \in {"banner", "frame"}
  /\ \/ ~connected /\ at' = "accept"
     \/ at' = "ended"
  /\ unsent' = <<>>
  /\ UNCHANGED <<encoderVars, clientVars, connected, connections, frames, sent, stdout>>

-----------------------------------------------------------------------------
(* A screenshot.                                                           *)

\* Faulty variant: written from where a length would be.
EncodeShot_Padded ==
  /\ at = "shot"
  /\ \/ /\ \E n \in Sizes : encode(Jpeg(frames + 1, n), <<>>)
        /\ unsent' = SubSeq(mEncodedData', 1, mEncodedSize')
        /\ frames' = frames + 1
        /\ at' = "shotWrite"
     \/ at' = "ended" /\ UNCHANGED <<encoderVars, unsent, frames>>
  /\ UNCHANGED <<clientVars, connected, connections, sent, stdout>>

\* The frame is encoded and given to pumpf(), or waiting, consuming or
\* encoding has failed.
EncodeShot ==
  /\ at = "shot"
  /\ \/ /\ \E n \in Sizes : encode(Jpeg(frames + 1, n), <<>>)
        /\ unsent' = SubSeq(mEncodedData', mPrePadding + 1, mPrePadding + mEncodedSize')
        /\ frames' = frames + 1
        /\ at' = "shotWrite"
     \/ at' = "ended" /\ UNCHANGED <<encoderVars, unsent, frames>>
  /\ UNCHANGED <<clientVars, connected, connections, sent, stdout>>

\* write() takes some of the bytes; pumpf() goes on with the rest.
WriteSome ==
  /\ at = "shotWrite"
  /\ \E wrote \in 1 .. Len(unsent) :
       /\ stdout' = stdout \o SubSeq(unsent, 1, wrote)
       /\ unsent' = SubSeq(unsent, wrote + 1, Len(unsent))
  /\ at' = IF unsent' = <<>> THEN "shotDone" ELSE "shotWrite"
  /\ UNCHANGED <<encoderVars, clientVars, connected, connections, frames, sent>>

\* Nobody reads any more, or a signal has been handled.
WriteFails ==
  /\ at = "shotWrite"
  /\ at' = "ended"
  /\ unsent' = <<>>
  /\ UNCHANGED <<encoderVars, clientVars, connected, connections, frames, sent, stdout>>

-----------------------------------------------------------------------------
(* The client.                                                             *)

\* The browser closes its end: stream.end().  What was sent and read on the
\* connection goes with it; the next one has a parser of its own.
Leave ==
  /\ connected
  /\ connected' = FALSE
  /\ sent' = <<>>
  /\ ClientRestarts
  /\ UNCHANGED <<encoderVars, at, unsent, connections, frames, stdout>>

Client ==
  /\ tryRead
  /\ UNCHANGED <<encoderVars, serverVars>>

Next ==
  \/ Reserve \/ Accept \/ EncodeFrame \/ LeaveLoop \/ SendSome \/ SendFails
  \/ EncodeShot \/ WriteSome \/ WriteFails
  \/ Leave \/ Client

Spec == Init /\ [][Next]_vars

\* A blocked send() goes on when there is room, and the client reads
\* whenever there is something to read.
FairSpec == Spec /\ WF_vars(SendSome) /\ WF_vars(Client)

-----------------------------------------------------------------------------
(* What makes it correct.                                                  *)

(* The bytes implement the channel of whole frames that SimpleServer sends *)
(* over: however send() and the network cut them, whatever an earlier and  *)
(* longer frame has left in the buffer, and for a client that connects     *)
(* after another was cut off in the middle of a frame.                     *)
Channel == INSTANCE FrameChannel WITH
  Frames <- {Jpeg(k, n) : k \in 1 .. MaxFrames, n \in Sizes},
  received <- pushed

ImplementsChannel == Channel!Spec

(* The output of -s is the beginning of one JPEG, however write() cuts it,  *)
(* and all of it when the program ends with success: neither the padding in *)
(* front of the data nor the memory behind it is written.                   *)
ScreenshotIsJpeg ==
  \E n \in Sizes :
    /\ IsPrefix(stdout, Jpeg(1, n))
    /\ at = "shotDone" => stdout = Jpeg(1, n)

(* The client reads the banner main() has sent, and ends it where the      *)
(* frames begin.                                                           *)
BannerUnderstood ==
  readBannerBytes = bannerLength =>
    /\ bannerLength = BANNER_SIZE
    /\ banner = [version |-> BANNER_VERSION, length |-> BANNER_SIZE, pid |-> Pid,
                 realWidth |-> RealWidth, realHeight |-> RealHeight,
                 virtualWidth |-> VirtualWidth, virtualHeight |-> VirtualHeight,
                 orientation |-> 90 * Orientation, quirks |-> Quirks]

(* "Sanity check for JPG header" (app.js:130): the client never finds a    *)
(* frame without one, which would end it.                                  *)
NeverRefused == ~exited

(* Neither the encoder nor the length written in front of its data touches *)
(* memory outside the buffer, also for the longest frame.                  *)
WithinBuffer == Len(mEncodedData) = maxSize

(* A frame that main() has sent, and gone on from, reaches the browser of  *)
(* a client that stays, although nothing marks the end of a frame and no   *)
(* other may follow.                                                       *)
FrameDelivered ==
  \A k \in 1 .. MaxFrames :
    (connected /\ Len(sent) = k) ~> (Len(pushed) >= k \/ ~connected)

=============================================================================
