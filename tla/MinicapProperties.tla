------------------------- MODULE MinicapProperties -------------------------
(***************************************************************************)
(* What main(), the frame waiter, the capture method and the server make   *)
(* correct together.                                                       *)
(***************************************************************************)
EXTENDS MinicapMain, CaptureContract

TypeOK ==
  /\ mPendingFrames \in Int /\ mStopped \in BOOLEAN
  /\ screen \in Nat /\ queue \in Seq(Nat) /\ notifying \in Nat
  /\ held \in Nat /\ running \in BOOLEAN
  /\ mFd \in {0, 1} /\ backlog \in Seq(Clients) /\ fds \in SUBSET Clients
  /\ conn \in [Clients -> {"new", "open", "left", "closed"}]
  /\ sock \in [Clients -> Seq(Nat)] /\ got \in [Clients -> Nat \cup {Nothing}]
  /\ pc \in Locations /\ pending \in Nat /\ haveFrame \in BOOLEAN
  /\ fd \in Clients \cup {NoClient}
  /\ exitStatus \in {"none", "success", "failure", "aborted"}

-----------------------------------------------------------------------------
(* Counting frames.                                                        *)

\* The frames main() has taken off the counter and not yet consumed.
Owed ==
  CASE pc \in {"skipReport", "consume"} -> 1
    [] pc = "skipConsume"               -> pending + 1
    [] pc = "skipRelease"               -> pending
    [] OTHER                            -> 0

\* The frame whose release will announce the next screenshot.
Held == IF held # NoFrame THEN 1 ELSE 0

Started == pc \notin {"create", "apply"}

Winding == pc \in {"free", "disaster", "disasterFree", "fail", "exited"}

\* Nothing has made main() give a frame up: no signal, no stray EINTR.
Undisturbed == ~mStopped /\ ~SpuriousEINTR /\ ~Winding

(* The counter, what main() has taken and what binder threads still have   *)
(* to announce never exceed the frames in the BufferQueue, and account for *)
(* each of them until a signal or an EINTR intervenes.  This is what the   *)
(* comment "nothing else decreases the frame count" (minicap.cpp:475)      *)
(* relies on when it deducts the skipped frames before consuming them.     *)
QueueAccounted ==
  (IsVirtual /\ running) =>
    /\ mPendingFrames >= 0
    /\ mPendingFrames + Owed + notifying <= Len(queue)
    /\ Undisturbed => mPendingFrames + Owed + notifying = Len(queue)

(* With ScreenshotClient there is one frame in circulation: announced,     *)
(* taken or held.  There is never a second one in the frame loop, and it   *)
(* is not lost, or the loop would stop (minicap.cpp:526), until a signal   *)
(* or an EINTR intervenes.                                                 *)
OneScreenshotInCirculation ==
  (~IsVirtual /\ Started) =>
    /\ mPendingFrames >= 0
    /\ \/ mPendingFrames + Owed + Held <= 1
       \/ mStopped /\ (Winding \/ pc = "outer")
    /\ Undisturbed => mPendingFrames + Owed + Held = 1

(* Every consumption main() attempts finds a frame, so the server never    *)
(* ends with "Unable to consume pending frame" for want of one, whatever   *)
(* arrives between the wait and the consumption.                           *)
ConsumptionFindsFrame ==
  (IsVirtual /\ pc \in {"skipConsume", "consume"}) => queue # <<>>

(* A consumed frame is released before the next is consumed, on every path *)
(* around the loop and from client to client (Minicap.hpp:94).             *)
ReleasedBeforeConsume ==
  pc \in {"skipConsume", "consume"} => held = NoFrame

-----------------------------------------------------------------------------
(* The stream a client sees.                                               *)

Precedes(a, b) == a < b \/ (~IsVirtual /\ a = b /\ a > Banner)

\* What client c has read, will read, and the frames it may yet be sent.
Stream(c) ==
  <<got[c]>> \o sock[c]
    \o (IF pc \in {"skipRelease", "encode", "send"} THEN <<held>> ELSE <<>>)
    \o queue

(* A client sees the banner once, then frames in the order of the screen   *)
(* contents they show: none twice (the virtual display sends changes only) *)
(* and none older than the last, also across reconnections and skipping.   *)
StreamOrdered ==
  \A c \in Clients :
    /\ \A i \in 1 .. Len(Stream(c)) - 1 : Precedes(Stream(c)[i], Stream(c)[i + 1])
    /\ got[c] = Nothing /\ sock[c] # <<>> => Head(sock[c]) = Banner

\* What client c is sent, if it is not the banner, is newer than all that
\* any client has read or will read.
SendsNews(c) ==
  LET sent == sock'[c][Len(sock'[c])]
  IN  Len(sock'[c]) > Len(sock[c]) /\ sent # Banner =>
        /\ sent <= screen
        /\ \A d \in Clients :
             /\ Precedes(got[d], sent)
             /\ \A i \in DOMAIN sock[d] : Precedes(sock[d][i], sent)

\* What client c reads is the banner, then ever newer.
ReadsNews(c) ==
  got'[c] # got[c] =>
    /\ got[c] < got'[c] /\ got'[c] <= screen
    /\ got[c] = Nothing => got'[c] = Banner

(* No frame is sent that is not news to everybody, so no two clients of a  *)
(* virtual display ever get the same one, and what a client shows only     *)
(* moves forward, from the banner on, and never ahead of the screen.       *)
FramesAreNews == [][\A c \in Clients : SendsNews(c) /\ ReadsNews(c)]_vars

(* Clients come and go without the process keeping a descriptor of any but *)
(* the one it serves.                                                      *)
NoDescriptorLeak == fds \subseteq {fd}

-----------------------------------------------------------------------------
(* Stopping.                                                               *)

(* Once a signal has been handled at most the frame in progress is sent.   *)
NoFrameAfterStop == [](mStopped /\ pc = "release" => [](pc # "send"))

(* A handled signal ends the program unless the main thread stays blocked  *)
(* for ever in accept() or send(): the wait for a frame polls the flag     *)
(* (minicap.cpp:68) and every loop tests it.                               *)
StopHonoured ==
  mStopped ~> (pc = "exited" \/ [](BlockedInAccept \/ BlockedInSend))

(* "Received SIGTERM, stopping" (minicap.cpp:200): a handled signal ends   *)
(* the program.                                                            *)
StopTerminates == mStopped ~> (pc = "exited")

(* A screenshot ends, whatever fails: its first frame is announced by      *)
(* applyConfigChanges() itself, so the wait for it never lasts.            *)
ScreenshotEnds == <>(pc = "exited")

(* A server that ends well has taken its display down and given its frame  *)
(* back.                                                                   *)
ServerTearsDown ==
  (Mode = "serve" /\ exitStatus \in {"success", "failure"}) =>
    ~running /\ held = NoFrame

-----------------------------------------------------------------------------
(* Progress of the stream.                                                 *)

Served(c) == fd = c /\ conn[c] = "open" /\ pc # "exited"

(* If clients read what they are sent, a frame queued while one is served   *)
(* reaches it, or a later one that supersedes it does: when the screen      *)
(* stops changing, what the client shows is what the screen shows.          *)
QueuedFrameReachesClient ==
  ReadingClients =>
    \A c \in Clients : \A v \in 2 .. MaxScreen :
      (fd = c /\ \E i \in DOMAIN queue : queue[i] = v)
        ~> (got[c] >= v \/ ~Served(c))

(* "When you first connect to the socket, you get a global header followed *)
(* by the first frame." (README.md:154)                                    *)
FirstFrameFollowsBanner ==
  \A c \in Clients : (fd = c) ~> (got[c] > Banner \/ ~Served(c))

(* The same of a client that connects when another has read a frame: the   *)
(* display is rendered, and there is a first frame for this one too.       *)
LaterClientGetsFrame ==
  \A c \in Clients :
    (fd = c /\ \E d \in Clients \ {c} : got[d] > Banner)
      ~> (got[c] > Banner \/ ~Served(c))

-----------------------------------------------------------------------------
(* The capture method as main() uses it.                                   *)

(* main() keeps to the contract that the virtual displays implement: on    *)
(* every way around its loops it publishes once, consumes only what was    *)
(* released before, and deducts only frames that were announced.           *)
KeepsContract == ContractSpec

-----------------------------------------------------------------------------
(* What comments and messages of the code say of it.                       *)

(* "Have we consumed one frame but are still holding it?"                  *)
(* (minicap.cpp:539): where haveFrame is asked, a frame is held.           *)
HaveFrameMeansHeld ==
  (pc \in {"close", "disaster"} /\ haveFrame) => held # NoFrame

(* "Unable to start server on namespace" (minicap.cpp:446): a server that  *)
(* could not be started and was sent no signal does not end with success.  *)
StartFailureReported ==
  (Mode = "serve" /\ exitStatus = "success" /\ ~mStopped) => mFd = 1

=============================================================================
