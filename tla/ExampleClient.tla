--------------------------- MODULE ExampleClient ---------------------------
(***************************************************************************)
(* The client in example/app.js: tryRead() takes the stream apart, which   *)
(* arrives in chunks that end anywhere, and pushes each frame on to a      *)
(* browser.  A step is one turn of its inner loop.                         *)
(***************************************************************************)
EXTENDS WireBytes

CONSTANT
  JpegHeader   \* the two bytes a frame starts with: FF D8

VARIABLES
  socket,            \* bytes sent and not yet read, in order
  chunk,             \* what is left of the chunk that was read last
  readBannerBytes, bannerLength, banner,
  readFrameBytes, frameBodyLength, frameBody,
  pushed,            \* frames passed on to the browser
  exited             \* process.exit(1): a frame had no JPEG header

bannerVars == <<readBannerBytes, bannerLength, banner>>
frameVars  == <<readFrameBytes, frameBodyLength, frameBody, pushed, exited>>
clientVars == <<socket, chunk, bannerVars, frameVars>>

NoBanner ==
  [version |-> 0, length |-> 0, pid |-> 0, realWidth |-> 0, realHeight |-> 0,
   virtualWidth |-> 0, virtualHeight |-> 0, orientation |-> 0, quirks |-> 0]

\* The numbers of four bytes in the banner, by the offset of their first.
UInt32Fields ==
  {<<"pid", 2>>, <<"realWidth", 6>>, <<"realHeight", 10>>,
   <<"virtualWidth", 14>>, <<"virtualHeight", 18>>}

ClientInit ==
  /\ socket = <<>> /\ chunk = <<>>
  /\ readBannerBytes = 0 /\ bannerLength = 2 /\ banner = NoBanner
  /\ readFrameBytes = 0 /\ frameBodyLength = 0 /\ frameBody = <<>>
  /\ pushed = <<>> /\ exited = FALSE

\* A new connection starts like the first.
ClientRestarts ==
  /\ socket' = <<>> /\ chunk' = <<>>
  /\ readBannerBytes' = 0 /\ bannerLength' = 2 /\ banner' = NoBanner
  /\ readFrameBytes' = 0 /\ frameBodyLength' = 0 /\ frameBody' = <<>>
  /\ pushed' = <<>> /\ exited' = FALSE

-----------------------------------------------------------------------------

\* stream.read(): some of the bytes sent have arrived.
ReadChunk ==
  /\ ~exited
  /\ chunk = <<>>
  /\ \E n \in 1 .. Len(socket) :
       /\ chunk' = SubSeq(socket, 1, n)
       /\ socket' = SubSeq(socket, n + 1, Len(socket))
  /\ UNCHANGED <<bannerVars, frameVars>>

ReadBannerByte ==
  /\ ~exited
  /\ chunk # <<>>
  /\ readBannerBytes < bannerLength
  /\ LET byte == Head(chunk) IN
       \/ readBannerBytes = 0
            /\ banner' = [banner EXCEPT !.version = byte]
            /\ UNCHANGED bannerLength
       \/ readBannerBytes = 1
            /\ banner' = [banner EXCEPT !.length = byte]
            /\ bannerLength' = byte
       \/ \E f \in UInt32Fields :
            /\ readBannerBytes - f[2] \in 0 .. 3
            /\ banner' = [banner EXCEPT ![f[1]] =
                            @ + byte * ByteWeight[readBannerBytes - f[2] + 1]]
            /\ UNCHANGED bannerLength
       \/ readBannerBytes = 22
            /\ banner' = [banner EXCEPT !.orientation = @ + byte * 90]
            /\ UNCHANGED bannerLength
       \/ readBannerBytes = 23
            /\ banner' = [banner EXCEPT !.quirks = byte]
            /\ UNCHANGED bannerLength
  /\ readBannerBytes' = readBannerBytes + 1
  /\ chunk' = Tail(chunk)
  /\ UNCHANGED <<socket, frameVars>>

InFrame == ~exited /\ chunk # <<>> /\ readBannerBytes >= bannerLength

ReadLengthByte ==
  /\ InFrame
  /\ readFrameBytes < 4
  /\ frameBodyLength' = frameBodyLength + Head(chunk) * ByteWeight[readFrameBytes + 1]
  /\ readFrameBytes' = readFrameBytes + 1
  /\ chunk' = Tail(chunk)
  /\ UNCHANGED <<socket, bannerVars, frameBody, pushed, exited>>

\* Faulty variant: the count of bytes still to come is not kept.
ReadBodyPart_Forgets ==
  /\ InFrame
  /\ readFrameBytes >= 4
  /\ Len(chunk) < frameBodyLength
  /\ frameBody' = frameBody \o chunk
  /\ readFrameBytes' = readFrameBytes + Len(chunk)
  /\ chunk' = <<>>
  /\ UNCHANGED <<socket, bannerVars, frameBodyLength, pushed, exited>>

\* The chunk ends before the frame does.
ReadBodyPart ==
  /\ InFrame
  /\ readFrameBytes >= 4
  /\ Len(chunk) < frameBodyLength
  /\ frameBody' = frameBody \o chunk
  /\ frameBodyLength' = frameBodyLength - Len(chunk)
  /\ readFrameBytes' = readFrameBytes + Len(chunk)
  /\ chunk' = <<>>
  /\ UNCHANGED <<socket, bannerVars, pushed, exited>>

\* Passing on a complete frame, or exiting if it is none.
Push(frame) ==
  IF IsPrefix(JpegHeader, frame)
  THEN pushed' = Append(pushed, frame) /\ UNCHANGED exited
  ELSE exited' = TRUE /\ UNCHANGED pushed

\* Faulty variant: the next length is not looked for.
ReadBodyEnd_NoReset ==
  /\ InFrame
  /\ readFrameBytes >= 4
  /\ Len(chunk) >= frameBodyLength
  /\ Push(frameBody \o SubSeq(chunk, 1, frameBodyLength))
  /\ chunk' = SubSeq(chunk, frameBodyLength + 1, Len(chunk))
  /\ frameBodyLength' = 0
  /\ frameBody' = <<>>
  /\ UNCHANGED <<socket, bannerVars, readFrameBytes>>

\* The frame ends in this chunk, which may go on with the next.
ReadBodyEnd ==
  /\ InFrame
  /\ readFrameBytes >= 4
  /\ Len(chunk) >= frameBodyLength
  /\ Push(frameBody \o SubSeq(chunk, 1, frameBodyLength))
  /\ chunk' = SubSeq(chunk, frameBodyLength + 1, Len(chunk))
  /\ frameBodyLength' = 0
  /\ readFrameBytes' = 0
  /\ frameBody' = <<>>
  /\ UNCHANGED <<socket, bannerVars>>

tryRead ==
  ReadChunk \/ ReadBannerByte \/ ReadLengthByte \/ ReadBodyPart \/ ReadBodyEnd

=============================================================================
