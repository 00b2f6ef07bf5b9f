-------------------------- MODULE MinicapInvariant --------------------------
(***************************************************************************)
(* The inductive invariant of MinicapMain from which its safety properties *)
(* follow.  MinicapProofs proves it; TLC checks it first.                  *)
(***************************************************************************)
EXTENDS MinicapProperties

ServeLocations ==
  {"start", "outer", "accept", "banner", "inner", "skipReport",
   "skipConsume", "skipRelease", "send", "release", "close"}

\* Which mode a statement belongs to.  Only the server sets haveFrame, and
\* not before its frame loop; only the end of main() sets exitStatus.
ModeInv ==
  /\ pc \in ServeLocations => Mode = "serve"
  /\ pc = "shotWrite" => Mode = "screenshot"
  /\ pc \in {"consume", "encode"} => Mode # "test"
  /\ haveFrame => Mode = "serve"
  /\ pc # "exited" => exitStatus = "none"
  /\ pc \in {"create", "apply", "reserve", "start", "fail"} => ~haveFrame

\* Skipping starts with two frames or more, and the binder threads only add
\* to the counter between the wait and the deduction.
SkipInv ==
  /\ pc = "skipReport" => pending >= 2 /\ mPendingFrames >= pending - 1
  /\ pc \in {"skipConsume", "skipRelease"} => pending >= 1

\* Where a frame is held, and that haveFrame says so where the loop is left.
HeldInv ==
  /\ screen >= 1
  /\ held # NoFrame =>
       pc \in {"skipRelease", "encode", "send", "release", "close",
               "shotWrite", "disaster", "disasterFree", "exited"}
  /\ (pc \in {"encode", "send", "release"} /\ Mode = "serve") => haveFrame
  /\ (pc = "close" /\ held # NoFrame) => haveFrame

\* Without a published display there is no frame to announce or to take.
DisplayInv ==
  IsVirtual =>
    /\ (~running /\ pc # "exited") =>
         queue = <<>> /\ notifying = 0 /\ mPendingFrames = 0
    /\ pc \in {"skipReport", "skipConsume", "skipRelease", "consume"} => running
    /\ (pc \in {"create", "apply"} \/ (pc = "fail" /\ Mode = "serve")) => ~running

\* A screenshot is never queued or announced by another thread.
\* Where an old value of haveFrame may release once more than it should,
\* no other screenshot is in circulation, unless the program is stopping.
ScreenshotInv ==
  ~IsVirtual =>
    /\ queue = <<>> /\ notifying = 0 /\ ~running
    /\ ~Started => mPendingFrames = 0
    /\ pc \in {"skipRelease", "encode", "send", "release"} => held # NoFrame
    /\ (pc = "close" /\ held = NoFrame) => mStopped \/ mPendingFrames = 0
    /\ (pc = "disaster" /\ haveFrame /\ held = NoFrame) => mPendingFrames = 0

\* No client is being served while the next one is awaited.
ClientInv ==
  pc \in {"create", "apply", "reserve", "start", "outer", "accept"} => fd = NoClient

ControlInv == ModeInv /\ SkipInv /\ HeldInv /\ ClientInv

VirtualInv == DisplayInv /\ QueueAccounted

CirculationInv == ScreenshotInv /\ OneScreenshotInCirculation

TidyInv == NoDescriptorLeak /\ ServerTearsDown

IInv == TypeOK /\ ControlInv /\ VirtualInv /\ CirculationInv /\ TidyInv

-----------------------------------------------------------------------------
(* The stream, on top of IInv.                                             *)

\* Each element comes before every later one.
Ordered(s) ==
  \A i, j \in 1 .. Len(s) : i < j => Precedes(s[i], s[j])

\* Frames are queued in the order of the screen contents, after the held one.
SourceOrdered ==
  /\ \A i, j \in 1 .. Len(queue) : i < j => queue[i] < queue[j]
  /\ \A i \in 1 .. Len(queue) : held < queue[i] /\ queue[i] <= screen
  /\ held <= screen

\* The messages client c has read or will read came from frames older than
\* those still to be shown.
ReceivedOrdered(c) ==
  /\ Ordered(sock[c])
  /\ got[c] <= screen
  /\ \A i \in 1 .. Len(sock[c]) : sock[c][i] <= screen /\ Precedes(got[c], sock[c][i])
  /\ \A j \in 1 .. Len(queue) :
       got[c] < queue[j] /\ \A i \in 1 .. Len(sock[c]) : sock[c][i] < queue[j]

\* Where the held frame may still be sent, it was sent to nobody.
Showing == pc \in {"skipRelease", "encode", "send"}

HeldIsNews(c) ==
  Showing =>
    /\ Precedes(got[c], held)
    /\ \A i \in 1 .. Len(sock[c]) : Precedes(sock[c][i], held)

Fresh(c) == got[c] = Nothing /\ sock[c] = <<>>

\* Where the client being served has been sent the banner.
Greeted ==
  pc \in {"inner", "waitHead", "wait", "skipReport", "skipConsume",
          "skipRelease", "consume", "encode", "send", "release"}

\* Before a connection is accepted nothing is sent on it; then the banner is.
BannerFirst(c) ==
  /\ conn[c] = "new" => Fresh(c)
  /\ got[c] = Nothing /\ sock[c] # <<>> => sock[c][1] = Banner
  /\ fd = c /\ Greeted => ~Fresh(c)

\* A connection waits once, before it is served.
BacklogInv ==
  /\ \A i \in 1 .. Len(backlog) :
       /\ Fresh(backlog[i]) /\ conn[backlog[i]] # "new" /\ backlog[i] # fd
       /\ \A j \in 1 .. Len(backlog) : i # j => backlog[i] # backlog[j]
  /\ pc = "banner" => fd \in Clients /\ Fresh(fd)
  /\ fd \in Clients => conn[fd] # "new"

OrderInv ==
  SourceOrdered /\ \A c \in Clients : ReceivedOrdered(c) /\ HeldIsNews(c)

GreetingInv ==
  BacklogInv /\ \A c \in Clients : BannerFirst(c)

StreamInv == OrderInv /\ GreetingInv

=============================================================================
