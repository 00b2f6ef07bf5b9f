---------------------------- MODULE MinicapMain ----------------------------
(***************************************************************************)
(* main() of jni/minicap/minicap.cpp from the creation of the Minicap      *)
(* instance to the exit, composed with the frame waiter, the capture       *)
(* method and the server: one main thread, the binder threads that         *)
(* announce frames, the signal handler, the composer and the clients.      *)
(*                                                                         *)
(* pc is the next statement of the main thread.  A step is one call that   *)
(* other threads can observe, with the branch on its result.               *)
(***************************************************************************)
EXTENDS Capture, SimpleServer

CONSTANTS
  Mode,        \* "serve", "screenshot" (-s) or "test" (-t)
  SkipFrames,  \* -S, or the -r that implies it
  NoClient     \* no client is being served

Modes == {"serve", "screenshot", "test"}

ASSUME MainAssumption ==
  /\ Mode \in Modes
  /\ SkipFrames \in BOOLEAN
  /\ NoClient \notin Clients

VARIABLES
  pc,          \* next statement of the main thread
  pending,     \* the local that holds the result of waitForFrame()
  haveFrame,   \* the local: is a consumed frame being held?
  fd,          \* the client being served
  exitStatus   \* how main() has ended

mainVars == <<pc, pending, haveFrame, fd, exitStatus>>
vars == <<captureVars, serverVars, mainVars>>

Locations ==
  {"create", "apply", "reserve", "start", "outer", "accept", "banner",
   "inner", "waitHead", "wait", "skipReport", "skipConsume", "skipRelease",
   "consume", "encode", "send", "release", "close", "shotWrite", "free",
   "disaster", "disasterFree", "fail", "exited"}

Init ==
  /\ CaptureInit
  /\ ServerInit
  /\ pc = "create"
  /\ pending = 0
  /\ haveFrame = FALSE
  /\ fd = NoClient
  /\ exitStatus = "none"

Goto(l) ==
  /\ pc' = l
  /\ UNCHANGED <<pending, haveFrame, fd, exitStatus>>

Exit(status) ==
  /\ pc' = "exited"
  /\ exitStatus' = status
  /\ UNCHANGED <<pending, haveFrame, fd>>

-----------------------------------------------------------------------------
(* Start-up.  setRealInfo() and setDesiredInfo() return 0 in every         *)
(* implementation and setFrameAvailableListener() only stores a pointer;   *)
(* they belong to the step of the call that follows them.                  *)

Create ==
  /\ pc = "create"
  /\ Goto("apply") \/ Goto("fail")
  /\ UNCHANGED <<captureVars, serverVars>>

Apply ==
  /\ pc = "apply"
  /\ \/ ApplyConfigChanges /\ Goto("reserve")
     \/ IsVirtual /\ Goto("disaster") /\ UNCHANGED captureVars
  /\ UNCHANGED serverVars

Reserve ==
  /\ pc = "reserve"
  /\ \/ Goto(IF Mode = "serve" THEN "start" ELSE "waitHead")
     \/ Goto("disaster")
  /\ UNCHANGED <<captureVars, serverVars>>

\* if (!server.start(sockname)): -1 is not a failure here, 0 is.
StartServer ==
  /\ pc = "start"
  /\ \E r \in {-1, 0, 1} :
       /\ Start(r)
       /\ Goto(IF r = 0 THEN "disaster" ELSE "outer")
  /\ UNCHANGED captureVars

-----------------------------------------------------------------------------
(* The accept loop.                                                        *)

CheckStoppedBeforeAccept ==
  /\ pc = "outer"
  /\ Goto(IF mStopped THEN "free" ELSE "accept")
  /\ UNCHANGED <<captureVars, serverVars>>

Accept ==
  /\ pc = "accept"
  /\ \E c \in Clients : AcceptClient(c) /\ fd' = c
  /\ pc' = "banner"
  /\ UNCHANGED <<captureVars, pending, haveFrame, exitStatus>>

\* Without a listening socket accept() is called on descriptor 0.
AcceptOnNothing ==
  /\ pc = "accept"
  /\ mFd = 0
  /\ Goto("free")
  /\ UNCHANGED <<captureVars, serverVars>>

\* Faulty variant: a client that left before the banner keeps its descriptor.
SendBanner_Leaks ==
  /\ pc = "banner"
  /\ \/ Send(fd, Banner) /\ pc' = "inner" /\ fd' = fd
     \/ SendFails(fd) /\ pc' = "outer" /\ fd' = NoClient
  /\ UNCHANGED <<captureVars, pending, haveFrame, exitStatus>>

SendBanner ==
  /\ pc = "banner"
  /\ \/ Send(fd, Banner) /\ pc' = "inner" /\ fd' = fd
     \/ /\ conn[fd] = "left"
        /\ CloseClient(fd)
        /\ pc' = "outer"
        /\ fd' = NoClient
  /\ UNCHANGED <<captureVars, pending, haveFrame, exitStatus>>

-----------------------------------------------------------------------------
(* Waiting for a frame.                                                    *)

\* Faulty variant: the frame loop waits without a look at the stop flag.
CheckStoppedBeforeWait_Never ==
  /\ pc = "inner"
  /\ Goto("wait")
  /\ UNCHANGED <<captureVars, serverVars>>

CheckStoppedBeforeWait ==
  /\ pc = "inner"
  /\ Goto(IF mStopped THEN "close" ELSE "waitHead")
  /\ UNCHANGED <<captureVars, serverVars>>

\* Where main() goes with the n frames waitForFrame() returned.
AfterWait(n) ==
  CASE Mode = "serve" ->
         IF n = 0 THEN "close"
         ELSE IF SkipFrames /\ n > 1 THEN "skipReport" ELSE "consume"
    [] Mode = "screenshot" -> IF n = 0 THEN "disaster" ELSE "consume"
    [] Mode = "test"       -> IF n = 0 THEN "fail" ELSE "free"

WaitReturns(n) ==
  /\ pending' = n
  /\ pc' = AfterWait(n)
  /\ UNCHANGED <<haveFrame, fd, exitStatus>>

\* Faulty variant: the wait never looks at the stop flag.
WaitHead_Deaf ==
  /\ pc = "waitHead"
  /\ Goto("wait")
  /\ UNCHANGED <<captureVars, serverVars>>

\* while (!mStopped) of waitForFrame()
WaitHead ==
  /\ pc = "waitHead"
  /\ IF mStopped THEN WaitReturns(0) ELSE Goto("wait")
  /\ UNCHANGED <<captureVars, serverVars>>

\* wait_for() comes back with frames pending.
WaitTake ==
  /\ pc = "wait"
  /\ TakeFrame(mPendingFrames)
  /\ WaitReturns(mPendingFrames)
  /\ UNCHANGED <<sourceVars, serverVars>>

\* wait_for() comes back after 100 ms with none.
WaitTimeout ==
  /\ pc = "wait"
  /\ WaitTimesOut
  /\ Goto("waitHead")
  /\ UNCHANGED <<sourceVars, serverVars>>

-----------------------------------------------------------------------------
(* Consuming, encoding and sending a frame.                                *)

\* Faulty variant: one more frame deducted than is skipped.
SkipReport_OffByOne ==
  /\ pc = "skipReport"
  /\ ReportExtraConsumption(pending)
  /\ pending' = pending - 1
  /\ pc' = "skipConsume"
  /\ UNCHANGED <<sourceVars, serverVars, haveFrame, fd, exitStatus>>

\* The deduction of all frames to skip, and the first --pending of the loop.
SkipReport ==
  /\ pc = "skipReport"
  /\ ReportExtraConsumption(pending - 1)
  /\ pending' = pending - 1
  /\ pc' = "skipConsume"
  /\ UNCHANGED <<sourceVars, serverVars, haveFrame, fd, exitStatus>>

SkipConsume ==
  /\ pc = "skipConsume"
  /\ \/ ConsumeFrame /\ Goto("skipRelease")
     \/ ConsumeInterrupted /\ Goto("close")
     \/ ConsumeFails /\ Goto("disaster")
  /\ UNCHANGED serverVars

\* Faulty variant: one more frame skipped than was counted.
SkipRelease_OffByOne ==
  /\ pc = "skipRelease"
  /\ ReleaseConsumedFrame
  /\ pending' = pending - 1
  /\ pc' = IF pending' >= 0 THEN "skipConsume" ELSE "consume"
  /\ UNCHANGED <<serverVars, haveFrame, fd, exitStatus>>

\* Faulty variant: one frame less skipped than was counted.
SkipRelease_OneShort ==
  /\ pc = "skipRelease"
  /\ ReleaseConsumedFrame
  /\ pending' = pending - 1
  /\ pc' = IF pending' >= 2 THEN "skipConsume" ELSE "consume"
  /\ UNCHANGED <<serverVars, haveFrame, fd, exitStatus>>

SkipRelease ==
  /\ pc = "skipRelease"
  /\ ReleaseConsumedFrame
  /\ pending' = pending - 1
  /\ pc' = IF pending' >= 1 THEN "skipConsume" ELSE "consume"
  /\ UNCHANGED <<serverVars, haveFrame, fd, exitStatus>>

\* The consumption of the frame to show.  Any error ends a screenshot.
Consume ==
  /\ pc = "consume"
  /\ \/ /\ ConsumeFrame
        /\ haveFrame' = (haveFrame \/ Mode = "serve")
        /\ pc' = "encode"
        /\ UNCHANGED <<pending, fd, exitStatus>>
     \/ ConsumeInterrupted /\ Goto(IF Mode = "serve" THEN "close" ELSE "disaster")
     \/ ConsumeFails /\ Goto("disaster")
  /\ UNCHANGED serverVars

\* encode() succeeds, fails, or throws for a pixel format it does not know.
Encode ==
  /\ pc = "encode"
  /\ \/ Goto(IF Mode = "serve" THEN "send" ELSE "shotWrite")
     \/ Goto("disaster")
     \/ Exit("aborted")
  /\ UNCHANGED <<captureVars, serverVars>>

\* Faulty variant: a failed send gives the frame back, as close will again.
SendFrame_ReleasesToo ==
  /\ pc = "send"
  /\ \/ Send(fd, held) /\ Goto("release") /\ UNCHANGED captureVars
     \/ SendFails(fd) /\ Goto("close") /\ ReleaseConsumedFrame

SendFrame ==
  /\ pc = "send"
  /\ \/ Send(fd, held) /\ Goto("release")
     \/ SendFails(fd) /\ Goto("close")
  /\ UNCHANGED captureVars

\* The sleep of -r that follows changes nothing here: PacedMain adds it.
ReleaseSent ==
  /\ pc = "release"
  /\ ReleaseConsumedFrame
  /\ haveFrame' = FALSE
  /\ pc' = "inner"
  /\ UNCHANGED <<serverVars, pending, fd, exitStatus>>

\* Faulty variant: the frame of a failed send is not given back.
Close_Keeps ==
  /\ pc = "close"
  /\ CloseClient(fd)
  /\ pc' = "outer"
  /\ fd' = NoClient
  /\ UNCHANGED <<captureVars, pending, haveFrame, exitStatus>>

\* close: the client is closed and a frame still held is given back.
\* haveFrame keeps its value.
Close ==
  /\ pc = "close"
  /\ CloseClient(fd)
  /\ IF haveFrame THEN ReleaseConsumedFrame ELSE UNCHANGED captureVars
  /\ pc' = "outer"
  /\ fd' = NoClient
  /\ UNCHANGED <<pending, haveFrame, exitStatus>>

-----------------------------------------------------------------------------
(* The ends of main().                                                     *)

\* pumpf() writes the screenshot to stdout, and main() returns at once.
WriteScreenshot ==
  /\ pc = "shotWrite"
  /\ Exit("success") \/ Goto("disaster")
  /\ UNCHANGED <<captureVars, serverVars>>

\* Faulty variant: main() returns without freeing the instance.
Free_Nothing ==
  /\ pc = "free"
  /\ Exit("success")
  /\ UNCHANGED <<captureVars, serverVars>>

Free ==
  /\ pc = "free"
  /\ FreeCapture
  /\ Exit("success")
  /\ UNCHANGED serverVars

Disaster ==
  /\ pc = "disaster"
  /\ IF haveFrame THEN ReleaseConsumedFrame ELSE UNCHANGED captureVars
  /\ Goto("disasterFree")
  /\ UNCHANGED serverVars

DisasterFree ==
  /\ pc = "disasterFree"
  /\ FreeCapture
  /\ Exit("failure")
  /\ UNCHANGED serverVars

\* return EXIT_FAILURE where there is no instance or it is not freed
Fail ==
  /\ pc = "fail"
  /\ Exit("failure")
  /\ UNCHANGED <<captureVars, serverVars>>

-----------------------------------------------------------------------------
(* The environment of the main thread, while the process lives.            *)

BlockedInAccept == pc = "accept" /\ mFd = 1 /\ backlog = <<>>
BlockedInSend   == pc = "send" /\ SendBlocks(fd)

\* signal_handler() on any thread: nothing but the flag changes.
SignalHandled ==
  /\ pc # "exited"
  /\ Stop
  /\ UNCHANGED <<sourceVars, serverVars, mainVars>>

\* signal_handler() on the main thread while a call blocks: the call fails
\* with EINTR, since the handler was installed without SA_RESTART.
SignalInterrupts ==
  /\ Stop
  /\ \/ BlockedInAccept /\ Goto("free")
     \/ BlockedInSend /\ Goto("close")
  /\ UNCHANGED <<sourceVars, serverVars>>

\* accept() fails for a reason of the kernel's.
AcceptFails ==
  /\ pc = "accept"
  /\ mFd = 1
  /\ Goto("free")
  /\ UNCHANGED <<captureVars, serverVars>>

Binder ==
  /\ pc # "exited"
  /\ FrameProxyCalls
  /\ UNCHANGED <<serverVars, mainVars>>

Composer ==
  /\ pc # "exited"
  /\ ScreenChanges \/ ComposerQueues \/ ComposerReplaces
  /\ UNCHANGED <<serverVars, mainVars>>

ClientConnects(c) ==
  /\ pc # "exited"
  /\ Connect(c)
  /\ UNCHANGED <<captureVars, mainVars>>

ClientLeaves(c) ==
  /\ Leave(c)
  /\ UNCHANGED <<captureVars, mainVars>>

ClientReads(c) ==
  /\ Read(c)
  /\ UNCHANGED <<captureVars, mainVars>>

Exited ==
  /\ pc = "exited"
  /\ UNCHANGED vars

-----------------------------------------------------------------------------

StartUp == Create \/ Apply \/ Reserve \/ StartServer
AcceptLoop ==
  CheckStoppedBeforeAccept \/ Accept \/ AcceptOnNothing \/ SendBanner
WaitForFrame ==
  CheckStoppedBeforeWait \/ WaitHead \/ WaitTake \/ WaitTimeout
FrameLoop ==
  \/ SkipReport \/ SkipConsume \/ SkipRelease
  \/ Consume \/ Encode \/ SendFrame \/ ReleaseSent \/ Close
Ending == WriteScreenshot \/ Free \/ Disaster \/ DisasterFree \/ Fail

MainStep == StartUp \/ AcceptLoop \/ WaitForFrame \/ FrameLoop \/ Ending

Environment ==
  \/ SignalHandled \/ SignalInterrupts \/ AcceptFails \/ Binder \/ Composer
  \/ \E c \in Clients : ClientConnects(c) \/ ClientLeaves(c) \/ ClientReads(c)

Next == MainStep \/ Environment \/ Exited

Spec == Init /\ [][Next]_vars

\* The threads of the process are scheduled.  Signals, failures, the screen
\* and the clients owe the program nothing.
Fairness == WF_vars(MainStep) /\ WF_vars(Binder)

FairSpec == Spec /\ Fairness

\* A client that stays connected reads what is sent to it, as the example
\* client does on every 'readable' event.
ReadingClients == \A c \in Clients : WF_vars(ClientReads(c))

ReadingSpec == FairSpec /\ ReadingClients

=============================================================================
