---------------------------- MODULE MinicapProofs ----------------------------
(***************************************************************************)
(* Proofs about main() and what it composes, for every number of clients,  *)
(* buffers and screen contents and for both capture methods.               *)
(*                                                                         *)
(* The invariant IInv of MinicapInvariant is inductive: InitEstablishes    *)
(* and StepPreserves, the second with one lemma for each action and in it  *)
(* one step for each part of IInv.  The properties follow from it.         *)
(***************************************************************************)
EXTENDS MinicapInvariant, SequenceTheorems, TLAPS

\* Tuples of variables, and the two ways to go to the next statement.
USE DEF captureVars, waiterVars, sourceVars, serverVars, mainVars, Goto, Exit

\* A frame that replaces the last one queued leaves the queue its length.
LEMMA ReplaceLast ==
  ASSUME NEW q \in Seq(Nat), q # <<>>, NEW v \in Nat
  PROVE  /\ [q EXCEPT ![Len(q)] = v] \in Seq(Nat)
         /\ Len([q EXCEPT ![Len(q)] = v]) = Len(q)
BY ExceptSeq

\* The quantities the accounting is about are numbers.
LEMMA Numbers ==
  ASSUME IInv
  PROVE  /\ mPendingFrames \in Int /\ pending \in Nat /\ notifying \in Nat
         /\ Len(queue) \in Nat /\ Owed \in Nat
BY DEF IInv, TypeOK, Owed

\* A message sent keeps what is in the sockets well-typed.
LEMMA SendKeepsType ==
  ASSUME TypeOK, NEW c, NEW m \in Nat, Send(c, m)
  PROVE  sock' \in [Clients -> Seq(Nat)]
<1>1. sock' = [sock EXCEPT ![c] = Append(sock[c], m)]
  BY DEF Send
<1>2. ASSUME c \in Clients PROVE Append(sock[c], m) \in Seq(Nat)
  BY <1>2 DEF TypeOK
<1>q. QED BY <1>1, <1>2 DEF TypeOK

\* What a successful consumption changes, for either capture method: a
\* queued buffer is taken, or the screen, which is never NoFrame.
LEMMA ConsumeEffect ==
  ASSUME IInv, ConsumeFrame
  PROVE  /\ held' \in Nat /\ queue' \in Seq(Nat)
         /\ UNCHANGED <<mPendingFrames, mStopped, screen, notifying, running>>
         /\ IsVirtual => Len(queue') = Len(queue) - 1
         /\ ~IsVirtual => held' # NoFrame /\ queue' = queue
<1>1. CASE IsVirtual
  <2>1. /\ queue # <<>> /\ held' = Head(queue) /\ queue' = Tail(queue)
        /\ UNCHANGED <<mPendingFrames, mStopped, screen, notifying, running>>
    BY <1>1 DEF ConsumeFrame
  <2>2. queue \in Seq(Nat)
    BY DEF IInv, TypeOK
  <2>q. QED BY <1>1, <2>1, <2>2
<1>2. CASE ~IsVirtual
  BY <1>2 DEF IInv, TypeOK, ConsumeFrame, ControlInv, HeldInv, NoFrame
<1>q. QED BY <1>1, <1>2

\* A failed consumption takes no buffer; a captured heap is dropped.
LEMMA ConsumeErrorEffect ==
  ASSUME ConsumeInterrupted \/ ConsumeFails
  PROVE  /\ held' \in {held, NoFrame}
         /\ ~IsVirtual => held' = NoFrame
         /\ UNCHANGED <<mPendingFrames, mStopped, screen, queue, notifying, running>>
BY DEF ConsumeInterrupted, ConsumeFails

\* The frames counted, taken or still to be announced.
Counted == mPendingFrames + Owed + notifying

\* QueueAccounted survives a step that does not let the counted frames grow
\* past the queue, and keeps the difference where nothing disturbs it.
LEMMA StillAccounted ==
  ASSUME IInv, TypeOK', Owed' \in Nat,
         IsVirtual /\ running' => running /\ mPendingFrames' >= 0,
         IsVirtual /\ running' => Counted' - Len(queue') <= Counted - Len(queue),
         IsVirtual /\ running' /\ Undisturbed' =>
           Undisturbed /\ Counted' - Len(queue') = Counted - Len(queue)
  PROVE  QueueAccounted'
<1>1. /\ mPendingFrames' \in Int /\ notifying' \in Int
      /\ Len(queue) \in Nat /\ Len(queue') \in Nat
  BY DEF IInv, TypeOK
<1>2. Counted \in Int /\ Counted' \in Int
  BY <1>1, Numbers DEF Counted
<1>3. IsVirtual /\ running =>
        Counted <= Len(queue) /\ (Undisturbed => Counted = Len(queue))
  BY DEF IInv, VirtualInv, QueueAccounted, Counted
<1>4. IsVirtual /\ running' =>
        Counted' <= Len(queue') /\ (Undisturbed' => Counted' = Len(queue'))
  BY <1>1, <1>2, <1>3
<1>q. QED BY <1>4 DEF QueueAccounted, Counted

\* One less on either side of a difference.
LEMMA OneLessEach ==
  ASSUME NEW a \in Int, NEW b \in Int, NEW c \in Int, NEW d \in Int
  PROVE  (a + (b - 1) + c) - (d - 1) = (a + b + c) - d
OBVIOUS

\* A frame that leaves the queue as it stops being owed changes nothing.
LEMMA FrameConsumed ==
  ASSUME IInv, UNCHANGED <<mPendingFrames, notifying>>,
         Owed' = Owed - 1, Len(queue') = Len(queue) - 1
  PROVE  Counted' - Len(queue') = Counted - Len(queue)
<1>1. /\ Counted' = mPendingFrames + (Owed - 1) + notifying
      /\ Counted = mPendingFrames + Owed + notifying
  BY DEF Counted
<1>2. mPendingFrames \in Int /\ Owed \in Int /\ notifying \in Int /\ Len(queue) \in Int
  BY Numbers
<1>3. (mPendingFrames + (Owed - 1) + notifying) - (Len(queue) - 1)
        = (mPendingFrames + Owed + notifying) - Len(queue)
  BY <1>2, OneLessEach
<1>q. QED BY <1>1, <1>3

\* main() has an instance or ends; nothing else has happened yet.
LEMMA CreateStep == ASSUME IInv, Create PROVE IInv'
<1>1. TypeOK'
  BY DEF IInv, TypeOK, Create, Locations
<1>2. ControlInv'
  BY DEF IInv, ControlInv, ModeInv, ServeLocations, SkipInv, HeldInv,
         ClientInv, Create
<1>3. VirtualInv'
  BY DEF IInv, VirtualInv, DisplayInv, QueueAccounted, Create
<1>4. CirculationInv'
  BY DEF IInv, CirculationInv, ScreenshotInv, OneScreenshotInCirculation,
         Owed, Undisturbed, Winding, Started, Held, Create
<1>5. TidyInv'
  BY DEF IInv, TidyInv, NoDescriptorLeak, ServerTearsDown, Create
<1>q. QED BY <1>1, <1>2, <1>3, <1>4, <1>5 DEF IInv

\* The display is published with an empty queue and no announcement, or the
\* first screenshot is put into circulation: both counts start balanced.
LEMMA ApplyStep == ASSUME IInv, Apply PROVE IInv'
<1>a. /\ pc = "apply" /\ pc' \in {"reserve", "disaster"}
      /\ UNCHANGED <<mStopped, screen, queue, notifying, held, serverVars>>
      /\ UNCHANGED <<pending, haveFrame, fd, exitStatus>>
  BY DEF Apply, ApplyConfigChanges, OnFrameAvailable
<1>b. /\ IsVirtual => mPendingFrames' = mPendingFrames
      /\ ~IsVirtual => /\ mPendingFrames' = mPendingFrames + 1
                       /\ UNCHANGED running /\ pc' = "reserve"
  BY DEF Apply, ApplyConfigChanges, OnFrameAvailable
<1>1. TypeOK'
  <2>1. running' \in BOOLEAN
    BY Zenon DEF IInv, TypeOK, Apply, ApplyConfigChanges
  <2>2. mPendingFrames' \in Int
    BY <1>b DEF IInv, TypeOK
  <2>q. QED BY <1>a, <2>1, <2>2 DEF IInv, TypeOK, Locations
<1>2. ControlInv'
  BY <1>a DEF IInv, ControlInv, ModeInv, ServeLocations, SkipInv, HeldInv, ClientInv
<1>3. VirtualInv'
  <2>1. IsVirtual => queue = <<>> /\ notifying = 0 /\ mPendingFrames = 0
    BY <1>a DEF IInv, VirtualInv, DisplayInv
  <2>2. DisplayInv'
    BY <1>a, <1>b, <2>1 DEF DisplayInv
  <2>3. Owed' = 0
    BY <1>a DEF Owed
  <2>4. QueueAccounted'
    BY <1>a, <1>b, <2>1, <2>3 DEF QueueAccounted
  <2>q. QED BY <2>2, <2>4 DEF VirtualInv
<1>4. CirculationInv'
  <2>1. ~IsVirtual => mPendingFrames = 0 /\ held = NoFrame
    BY <1>a DEF IInv, CirculationInv, ScreenshotInv, Started, ControlInv, HeldInv
  <2>2. Owed' = 0 /\ (~IsVirtual => Held' = 0)
    BY <1>a, <2>1 DEF Owed, Held
  <2>3. OneScreenshotInCirculation'
    BY <1>b, <2>1, <2>2 DEF OneScreenshotInCirculation
  <2>4. ScreenshotInv'
    BY <1>a, <1>b DEF IInv, CirculationInv, ScreenshotInv, Started
  <2>q. QED BY <2>3, <2>4 DEF CirculationInv
<1>5. TidyInv'
  BY DEF IInv, TidyInv, NoDescriptorLeak, ServerTearsDown, Apply,
         ApplyConfigChanges, ControlInv, ModeInv, VirtualInv, DisplayInv,
         HeldInv
<1>q. QED BY <1>1, <1>2, <1>3, <1>4, <1>5 DEF IInv

\* The encoder touches neither the counter nor the capture.
LEMMA ReserveStep == ASSUME IInv, Reserve PROVE IInv'
<1>1. TypeOK'
  BY DEF IInv, TypeOK, Reserve, Locations
<1>2. ControlInv'
  BY DEF IInv, ControlInv, ModeInv, ServeLocations, SkipInv, HeldInv,
         ClientInv, Reserve
<1>3. VirtualInv'
  BY DEF IInv, VirtualInv, DisplayInv, QueueAccounted, Owed, Undisturbed,
         Winding, Reserve
<1>4. CirculationInv'
  BY DEF IInv, CirculationInv, ScreenshotInv, OneScreenshotInCirculation,
         Owed, Undisturbed, Winding, Started, Held, ControlInv, ModeInv,
         Reserve
<1>5. TidyInv'
  BY DEF IInv, TidyInv, NoDescriptorLeak, ServerTearsDown, Reserve
<1>q. QED BY <1>1, <1>2, <1>3, <1>4, <1>5 DEF IInv

\* Whatever start() returns, the frames are left alone.
LEMMA StartServerStep == ASSUME IInv, StartServer PROVE IInv'
<1>1. TypeOK'
  BY DEF IInv, TypeOK, StartServer, Start, Locations
<1>2. ControlInv'
  BY DEF IInv, ControlInv, ModeInv, ServeLocations, SkipInv, HeldInv,
         ClientInv, StartServer
<1>3. VirtualInv'
  BY DEF IInv, VirtualInv, DisplayInv, QueueAccounted, Owed, Undisturbed,
         Winding, StartServer
<1>4. CirculationInv'
  BY DEF IInv, CirculationInv, ScreenshotInv, OneScreenshotInCirculation,
         Owed, Undisturbed, Winding, Started, Held, ControlInv, ModeInv,
         StartServer
<1>5. TidyInv'
  BY DEF IInv, TidyInv, NoDescriptorLeak, ServerTearsDown, StartServer, Start
<1>q. QED BY <1>1, <1>2, <1>3, <1>4, <1>5 DEF IInv

\* A stopped server leaves the accept loop for the teardown.
LEMMA CheckStoppedBeforeAcceptStep == ASSUME IInv, CheckStoppedBeforeAccept PROVE IInv'
<1>1. TypeOK'
  BY DEF IInv, TypeOK, CheckStoppedBeforeAccept, Locations
<1>2. ControlInv'
  BY DEF IInv, ControlInv, ModeInv, ServeLocations, SkipInv, HeldInv,
         ClientInv, CheckStoppedBeforeAccept
<1>3. VirtualInv'
  BY DEF IInv, VirtualInv, DisplayInv, QueueAccounted, Owed, Undisturbed,
         Winding, CheckStoppedBeforeAccept
<1>4. CirculationInv'
  BY DEF IInv, CirculationInv, ScreenshotInv, OneScreenshotInCirculation,
         Owed, Undisturbed, Winding, Started, Held, CheckStoppedBeforeAccept
<1>5. TidyInv'
  BY DEF IInv, TidyInv, NoDescriptorLeak, ServerTearsDown,
         CheckStoppedBeforeAccept
<1>q. QED BY <1>1, <1>2, <1>3, <1>4, <1>5 DEF IInv

\* The accepted connection becomes the one being served, so its descriptor is
\* accounted for.
LEMMA AcceptStep == ASSUME IInv, Accept PROVE IInv'
<1>1. TypeOK'
  BY DEF IInv, TypeOK, Accept, AcceptClient, Locations
<1>2. ControlInv'
  BY DEF IInv, ControlInv, ModeInv, ServeLocations, SkipInv, HeldInv,
         ClientInv, Accept
<1>3. VirtualInv'
  BY DEF IInv, VirtualInv, DisplayInv, QueueAccounted, Owed, Undisturbed,
         Winding, Accept
<1>4. CirculationInv'
  BY DEF IInv, CirculationInv, ScreenshotInv, OneScreenshotInCirculation,
         Owed, Undisturbed, Winding, Started, Held, Accept
<1>5. TidyInv'
  BY MainAssumption
     DEF IInv, TidyInv, NoDescriptorLeak, ServerTearsDown, ControlInv,
         ClientInv, TypeOK, Accept, AcceptClient
<1>q. QED BY <1>1, <1>2, <1>3, <1>4, <1>5 DEF IInv

\* A server without a socket goes to the teardown.
LEMMA AcceptOnNothingStep == ASSUME IInv, AcceptOnNothing PROVE IInv'
<1>1. TypeOK'
  BY DEF IInv, TypeOK, AcceptOnNothing, Locations
<1>2. ControlInv'
  BY DEF IInv, ControlInv, ModeInv, ServeLocations, SkipInv, HeldInv,
         ClientInv, AcceptOnNothing
<1>3. VirtualInv'
  BY DEF IInv, VirtualInv, DisplayInv, QueueAccounted, Owed, Undisturbed,
         Winding, AcceptOnNothing
<1>4. CirculationInv'
  BY DEF IInv, CirculationInv, ScreenshotInv, OneScreenshotInCirculation,
         Owed, Undisturbed, Winding, Started, Held, AcceptOnNothing
<1>5. TidyInv'
  BY DEF IInv, TidyInv, NoDescriptorLeak, ServerTearsDown, AcceptOnNothing
<1>q. QED BY <1>1, <1>2, <1>3, <1>4, <1>5 DEF IInv

\* A client that left before its banner is closed at once; no frame is
\* touched.
LEMMA SendBannerStep == ASSUME IInv, SendBanner PROVE IInv'
<1>a. /\ pc = "banner" /\ pc' \in {"inner", "outer"}
      /\ UNCHANGED <<captureVars, pending, haveFrame, exitStatus>>
  BY DEF SendBanner
<1>1. TypeOK'
  <2>1. sock' \in [Clients -> Seq(Nat)]
    <3>1. CASE Send(fd, Banner)
      BY <3>1, SendKeepsType DEF IInv, Banner
    <3>2. CASE CloseClient(fd)
      BY <3>2 DEF IInv, TypeOK, CloseClient
    <3>q. QED BY <3>1, <3>2 DEF SendBanner
  <2>2. conn' \in [Clients -> {"new", "open", "left", "closed"}]
    BY DEF IInv, TypeOK, SendBanner, Send, CloseClient
  <2>q. QED
    BY <1>a, <2>1, <2>2 DEF IInv, TypeOK, SendBanner, Send, CloseClient, Locations
<1>2. ControlInv'
  BY DEF IInv, ControlInv, ModeInv, ServeLocations, SkipInv, HeldInv,
         ClientInv, SendBanner, Send, CloseClient, captureVars
<1>3. VirtualInv'
  BY DEF IInv, VirtualInv, DisplayInv, QueueAccounted, Owed, Undisturbed,
         Winding, SendBanner, CloseClient
<1>4. CirculationInv'
  BY DEF IInv, CirculationInv, ScreenshotInv, OneScreenshotInCirculation,
         Owed, Undisturbed, Winding, Started, Held, SendBanner, CloseClient
<1>5. TidyInv'
  BY DEF IInv, TidyInv, NoDescriptorLeak, ServerTearsDown, SendBanner, Send,
         CloseClient
<1>q. QED BY <1>1, <1>2, <1>3, <1>4, <1>5 DEF IInv

\* The frame loop is left with no frame in hand.
LEMMA CheckStoppedBeforeWaitStep == ASSUME IInv, CheckStoppedBeforeWait PROVE IInv'
<1>1. TypeOK'
  BY DEF IInv, TypeOK, CheckStoppedBeforeWait, Locations
<1>2. ControlInv'
  BY DEF IInv, ControlInv, ModeInv, ServeLocations, SkipInv, HeldInv,
         ClientInv, CheckStoppedBeforeWait
<1>3. VirtualInv'
  BY DEF IInv, VirtualInv, DisplayInv, QueueAccounted, Owed, Undisturbed,
         Winding, CheckStoppedBeforeWait
<1>4. CirculationInv'
  BY DEF IInv, CirculationInv, ScreenshotInv, OneScreenshotInCirculation,
         Owed, Undisturbed, Winding, Started, Held, CheckStoppedBeforeWait
<1>5. TidyInv'
  BY DEF IInv, TidyInv, NoDescriptorLeak, ServerTearsDown,
         CheckStoppedBeforeWait
<1>q. QED BY <1>1, <1>2, <1>3, <1>4, <1>5 DEF IInv

\* A stopped wait returns no frame and takes none.
LEMMA WaitHeadStep == ASSUME IInv, WaitHead PROVE IInv'
<1>1. TypeOK'
  BY MainAssumption
     DEF IInv, TypeOK, WaitHead, WaitReturns, AfterWait, Locations, Modes
<1>2. ControlInv'
  BY MainAssumption
     DEF IInv, ControlInv, ModeInv, ServeLocations, SkipInv, HeldInv,
         ClientInv, WaitHead, WaitReturns, AfterWait, Modes
<1>3. VirtualInv'
  BY MainAssumption
     DEF IInv, VirtualInv, DisplayInv, QueueAccounted, Owed, Undisturbed,
         Winding, WaitHead, WaitReturns, AfterWait, Modes
<1>4. CirculationInv'
  BY MainAssumption
     DEF IInv, CirculationInv, ScreenshotInv, OneScreenshotInCirculation,
         Owed, Undisturbed, Winding, Started, Held, ControlInv, ModeInv,
         WaitHead, WaitReturns, AfterWait, Modes
<1>5. TidyInv'
  BY DEF IInv, TidyInv, NoDescriptorLeak, ServerTearsDown, WaitHead,
         WaitReturns
<1>q. QED BY <1>1, <1>2, <1>3, <1>4, <1>5 DEF IInv

\* One announced frame moves from the counter to main(); with more than one,
\* skipping starts with at least one frame left to deduct.
LEMMA WaitTakeStep == ASSUME IInv, WaitTake PROVE IInv'
<1>1. TypeOK'
  BY MainAssumption
     DEF IInv, TypeOK, WaitTake, TakeFrame, WaitReturns, AfterWait, Locations,
         Modes
<1>2. ControlInv'
  BY MainAssumption
     DEF IInv, ControlInv, ModeInv, ServeLocations, SkipInv, HeldInv,
         ClientInv, TypeOK, WaitTake, TakeFrame, WaitReturns, AfterWait, Modes
<1>3. VirtualInv'
  <2>1. /\ pc = "wait" /\ mPendingFrames > 0
        /\ mPendingFrames' = mPendingFrames - 1 /\ pending' = mPendingFrames
        /\ pc' = AfterWait(mPendingFrames)
        /\ UNCHANGED <<mStopped, sourceVars>>
    BY DEF WaitTake, TakeFrame, WaitReturns
  <2>2. CASE Mode = "test"
    <3>1. pc' = "free"
      BY <2>1, <2>2, Numbers DEF AfterWait
    <3>2. Owed' = 0 /\ ~Undisturbed' /\ Owed = 0
      BY <2>1, <3>1 DEF Owed, Undisturbed, Winding
    <3>3. DisplayInv'
      BY <2>1, <3>1 DEF IInv, VirtualInv, DisplayInv
    <3>4. mPendingFrames' >= 0 /\ Counted' - Len(queue') <= Counted - Len(queue)
      BY <2>1, <3>2, Numbers DEF Counted
    <3>q. QED
      BY <1>1, <2>1, <3>2, <3>3, <3>4, StillAccounted DEF VirtualInv
  <2>3. CASE Mode # "test"
    <3>1. pc' \in {"skipReport", "consume"}
      BY <2>1, <2>3, Numbers, MainAssumption DEF AfterWait, Modes
    <3>2. Owed' = 1 /\ Owed = 0 /\ (Undisturbed' => Undisturbed)
      BY <2>1, <3>1 DEF Owed, Undisturbed, Winding
    <3>3. DisplayInv'
      BY <2>1, <3>1, Numbers DEF IInv, VirtualInv, DisplayInv
    <3>4. Counted' = (mPendingFrames - 1) + 1 + notifying
      BY <2>1, <3>2 DEF Counted
    <3>5. /\ mPendingFrames' >= 0 /\ Counted - Len(queue) \in Int
          /\ Counted' - Len(queue') = Counted - Len(queue)
      BY <2>1, <3>2, <3>4, Numbers DEF Counted
    <3>q. QED
      BY <1>1, <2>1, <3>2, <3>3, <3>5, StillAccounted DEF VirtualInv
  <2>q. QED BY <2>2, <2>3
<1>4. CirculationInv'
  BY MainAssumption
     DEF IInv, CirculationInv, ScreenshotInv, OneScreenshotInCirculation,
         Owed, Undisturbed, Winding, Held, TypeOK, WaitTake, TakeFrame,
         WaitReturns, AfterWait, Modes
<1>5. TidyInv'
  BY DEF IInv, TidyInv, NoDescriptorLeak, ServerTearsDown, WaitTake,
         WaitReturns
<1>q. QED BY <1>1, <1>2, <1>3, <1>4, <1>5 DEF IInv

\* A timeout takes nothing.
LEMMA WaitTimeoutStep == ASSUME IInv, WaitTimeout PROVE IInv'
<1>1. TypeOK'
  BY DEF IInv, TypeOK, WaitTimeout, WaitTimesOut, Locations
<1>2. ControlInv'
  BY DEF IInv, ControlInv, ModeInv, ServeLocations, SkipInv, HeldInv,
         ClientInv, WaitTimeout
<1>3. VirtualInv'
  BY DEF IInv, VirtualInv, DisplayInv, QueueAccounted, Owed, Undisturbed,
         Winding, WaitTimeout, WaitTimesOut
<1>4. CirculationInv'
  BY DEF IInv, CirculationInv, ScreenshotInv, OneScreenshotInCirculation,
         Owed, Undisturbed, Winding, Started, Held, WaitTimeout, WaitTimesOut
<1>5. TidyInv'
  BY DEF IInv, TidyInv, NoDescriptorLeak, ServerTearsDown, WaitTimeout
<1>q. QED BY <1>1, <1>2, <1>3, <1>4, <1>5 DEF IInv

\* The frames deducted from the counter become frames main() owes a
\* consumption, at a time when binder threads may have added more.
LEMMA SkipReportStep == ASSUME IInv, SkipReport PROVE IInv'
<1>1. TypeOK'
  BY DEF IInv, TypeOK, ControlInv, SkipInv, SkipReport,
         ReportExtraConsumption, Locations
<1>2. ControlInv'
  BY DEF IInv, ControlInv, ModeInv, ServeLocations, SkipInv, HeldInv,
         ClientInv, TypeOK, SkipReport
<1>3. VirtualInv'
  <2>1. /\ pc = "skipReport" /\ pc' = "skipConsume" /\ pending' = pending - 1
        /\ mPendingFrames' = mPendingFrames - (pending - 1)
        /\ UNCHANGED <<mStopped, sourceVars>>
    BY DEF SkipReport, ReportExtraConsumption
  <2>2. Owed = 1 /\ Owed' = pending' + 1 /\ (Undisturbed' => Undisturbed)
    BY <2>1 DEF Owed, Undisturbed, Winding
  <2>3. pending >= 2 /\ mPendingFrames >= pending - 1
    BY <2>1 DEF IInv, ControlInv, SkipInv
  <2>4. /\ Counted' - Len(queue') = Counted - Len(queue)
        /\ Counted - Len(queue) \in Int /\ Owed' \in Nat
    BY <2>1, <2>2, <2>3, Numbers DEF Counted
  <2>5. running' => running /\ mPendingFrames' >= 0
    BY <2>1, <2>3, Numbers
  <2>6. QueueAccounted'
    BY <1>1, <2>2, <2>4, <2>5, StillAccounted
  <2>7. DisplayInv'
    BY <2>1 DEF IInv, TypeOK, VirtualInv, DisplayInv
  <2>q. QED BY <2>6, <2>7 DEF VirtualInv
<1>4. CirculationInv'
  BY DEF IInv, CirculationInv, ScreenshotInv, OneScreenshotInCirculation,
         Owed, Winding, Held, ControlInv, SkipInv, TypeOK, SkipReport
<1>5. TidyInv'
  BY DEF IInv, TidyInv, NoDescriptorLeak, ServerTearsDown, SkipReport
<1>q. QED BY <1>1, <1>2, <1>3, <1>4, <1>5 DEF IInv

\* A skipped frame leaves the queue and what is owed together, or an error
\* leaves both in the queue.
LEMMA SkipConsumeStep == ASSUME IInv, SkipConsume PROVE IInv'
<1>a. /\ pc = "skipConsume" /\ pc' \in {"skipRelease", "close", "disaster"}
      /\ UNCHANGED <<serverVars, pending, haveFrame, fd, exitStatus>>
  BY DEF SkipConsume
<1>1. TypeOK'
  <2>1. CASE ConsumeFrame
    BY <1>a, <2>1, ConsumeEffect DEF IInv, TypeOK, Locations
  <2>2. CASE ConsumeInterrupted \/ ConsumeFails
    BY <1>a, <2>2, ConsumeErrorEffect DEF IInv, TypeOK, Locations, NoFrame
  <2>q. QED BY <2>1, <2>2 DEF SkipConsume
<1>2. ControlInv'
  BY DEF IInv, ControlInv, ModeInv, ServeLocations, SkipInv, HeldInv,
         ClientInv, SkipConsume, ConsumeFrame, ConsumeInterrupted,
         ConsumeFails
<1>3. VirtualInv'
  <2>1. DisplayInv'
    <3>1. UNCHANGED running
      BY ConsumeEffect, ConsumeErrorEffect DEF SkipConsume
    <3>2. IsVirtual => running
      BY <1>a DEF IInv, VirtualInv, DisplayInv
    <3>q. QED BY <1>a, <3>1, <3>2 DEF DisplayInv
  <2>2. IsVirtual /\ running => mPendingFrames >= 0
    BY DEF IInv, VirtualInv, QueueAccounted
  <2>3. Owed = pending + 1
    BY <1>a DEF Owed
  <2>4. QueueAccounted'
    <3>1. CASE ConsumeFrame /\ pc' = "skipRelease"
      <4>1. Owed' = Owed - 1 /\ (Undisturbed' => Undisturbed)
        BY <1>a, <2>3, <3>1, ConsumeEffect, Numbers DEF Owed, Undisturbed, Winding
      <4>2. /\ UNCHANGED <<mPendingFrames, notifying, running>>
            /\ IsVirtual => Len(queue') = Len(queue) - 1
        BY <3>1, ConsumeEffect
      <4>3. IsVirtual => Counted' - Len(queue') = Counted - Len(queue)
        BY <4>1, <4>2, FrameConsumed
      <4>4. Owed' \in Nat
        BY <1>a, <2>3, <4>1, Numbers
      <4>5. Counted - Len(queue) \in Int
        BY Numbers DEF Counted
      <4>q. QED
        BY <1>1, <2>2, <4>1, <4>2, <4>3, <4>4, <4>5, StillAccounted
    <3>2. CASE (ConsumeInterrupted \/ ConsumeFails) /\ pc' # "skipRelease" /\ ~Undisturbed'
      <4>1. Owed' = 0
        BY <1>a, <3>2 DEF Owed
      <4>2. UNCHANGED <<mPendingFrames, notifying, running, queue>>
        BY <3>2, ConsumeErrorEffect
      <4>3. Counted' - Len(queue') <= Counted - Len(queue)
        BY <4>1, <4>2, Numbers DEF Counted
      <4>q. QED
        BY <1>1, <2>2, <3>2, <4>1, <4>2, <4>3, StillAccounted
    <3>3. ConsumeInterrupted => ~Undisturbed'
      BY DEF ConsumeInterrupted, Undisturbed
    <3>4. pc' = "disaster" => ~Undisturbed'
      BY DEF Undisturbed, Winding
    <3>q. QED BY <3>1, <3>2, <3>3, <3>4 DEF SkipConsume
  <2>q. QED BY <2>1, <2>4 DEF VirtualInv
<1>4. CirculationInv'
  BY DEF IInv, CirculationInv, ScreenshotInv, OneScreenshotInCirculation,
         Owed, Winding, Started, Held, ControlInv, SkipInv, TypeOK,
         SkipConsume
<1>5. TidyInv'
  BY DEF IInv, TidyInv, NoDescriptorLeak, ServerTearsDown, ControlInv,
         ModeInv, SkipConsume
<1>q. QED BY <1>1, <1>2, <1>3, <1>4, <1>5 DEF IInv

\* Releasing a skipped frame is never a second release.
LEMMA SkipReleaseStep == ASSUME IInv, SkipRelease PROVE IInv'
<1>1. TypeOK'
  BY DEF IInv, TypeOK, ControlInv, SkipInv, SkipRelease, ReleaseConsumedFrame,
         OnFrameAvailable, NoFrame, Locations
<1>2. ControlInv'
  BY DEF IInv, ControlInv, ModeInv, ServeLocations, SkipInv, HeldInv,
         ClientInv, SkipRelease, ReleaseConsumedFrame
<1>3. VirtualInv'
  <2>1. /\ pc = "skipRelease" /\ pending' = pending - 1
        /\ pc' = IF pending' >= 1 THEN "skipConsume" ELSE "consume"
        /\ IsVirtual => UNCHANGED mPendingFrames
        /\ UNCHANGED <<mStopped, queue, notifying, running>>
    BY DEF SkipRelease, ReleaseConsumedFrame, OnFrameAvailable
  <2>2. pending >= 1
    BY <2>1 DEF IInv, ControlInv, SkipInv
  <2>3. Owed = pending /\ Owed' = pending
    <3>1. CASE pending' >= 1
      BY <2>1, <3>1, Numbers DEF Owed
    <3>2. CASE ~(pending' >= 1)
      BY <2>1, <2>2, <3>2, Numbers DEF Owed
    <3>q. QED BY <3>1, <3>2
  <2>4. Undisturbed' => Undisturbed
    BY <2>1 DEF Undisturbed, Winding
  <2>5. DisplayInv'
    BY <2>1 DEF IInv, VirtualInv, DisplayInv
  <2>6. IsVirtual => /\ Counted' - Len(queue') = Counted - Len(queue)
                     /\ Counted - Len(queue) \in Int
    BY <2>1, <2>3, Numbers DEF Counted
  <2>7. IsVirtual /\ running => mPendingFrames >= 0
    BY DEF IInv, VirtualInv, QueueAccounted
  <2>q. QED
    BY <1>1, <2>1, <2>3, <2>4, <2>5, <2>6, <2>7, Numbers, StillAccounted
       DEF VirtualInv
<1>4. CirculationInv'
  BY DEF IInv, CirculationInv, ScreenshotInv, OneScreenshotInCirculation,
         Owed, Winding, Started, Held, ControlInv, SkipInv, TypeOK,
         SkipRelease
<1>5. TidyInv'
  BY DEF IInv, TidyInv, NoDescriptorLeak, ServerTearsDown, ControlInv,
         ModeInv, SkipRelease
<1>q. QED BY <1>1, <1>2, <1>3, <1>4, <1>5 DEF IInv

\* The frame to show leaves the queue as it stops being owed; haveFrame
\* records it where the server is to give it back.
LEMMA ConsumeStep == ASSUME IInv, Consume PROVE IInv'
<1>a. /\ pc = "consume" /\ pc' \in {"encode", "close", "disaster"}
      /\ haveFrame' \in BOOLEAN
      /\ UNCHANGED <<serverVars, pending, fd, exitStatus>>
  BY DEF Consume, IInv, TypeOK
<1>1. TypeOK'
  <2>1. CASE ConsumeFrame
    BY <1>a, <2>1, ConsumeEffect DEF IInv, TypeOK, Locations
  <2>2. CASE ConsumeInterrupted \/ ConsumeFails
    BY <1>a, <2>2, ConsumeErrorEffect DEF IInv, TypeOK, Locations, NoFrame
  <2>q. QED BY <2>1, <2>2 DEF Consume
<1>2. ControlInv'
  <2>1. held = NoFrame /\ screen \in Nat /\ screen >= 1
    BY <1>a DEF IInv, TypeOK, ControlInv, HeldInv
  <2>2. CASE ConsumeFrame /\ pc' = "encode" /\ haveFrame' = (haveFrame \/ Mode = "serve")
    BY <1>a, <2>1, <2>2, ConsumeEffect
       DEF IInv, ControlInv, ModeInv, ServeLocations, SkipInv, HeldInv, ClientInv
  <2>3. CASE /\ ConsumeInterrupted \/ ConsumeFails
             /\ pc' \in {"close", "disaster"} /\ haveFrame' = haveFrame
             /\ pc' = "close" => Mode = "serve"
    BY <1>a, <2>1, <2>3, ConsumeErrorEffect
       DEF IInv, ControlInv, ModeInv, ServeLocations, SkipInv, HeldInv, ClientInv
  <2>q. QED BY <2>2, <2>3 DEF Consume
<1>3. VirtualInv'
  <2>1. DisplayInv'
    <3>1. UNCHANGED running
      BY ConsumeEffect, ConsumeErrorEffect DEF Consume
    <3>2. IsVirtual => running
      BY <1>a DEF IInv, VirtualInv, DisplayInv
    <3>q. QED BY <1>a, <3>1, <3>2 DEF DisplayInv
  <2>2. IsVirtual /\ running => mPendingFrames >= 0
    BY DEF IInv, VirtualInv, QueueAccounted
  <2>3. Owed = 1
    BY <1>a DEF Owed
  <2>4. QueueAccounted'
    <3>1. CASE ConsumeFrame /\ pc' = "encode"
      <4>1. Owed' = Owed - 1 /\ (Undisturbed' => Undisturbed)
        BY <1>a, <2>3, <3>1, ConsumeEffect, Numbers DEF Owed, Undisturbed, Winding
      <4>2. /\ UNCHANGED <<mPendingFrames, notifying, running>>
            /\ IsVirtual => Len(queue') = Len(queue) - 1
        BY <3>1, ConsumeEffect
      <4>3. IsVirtual => Counted' - Len(queue') = Counted - Len(queue)
        BY <4>1, <4>2, FrameConsumed
      <4>4. Owed' \in Nat
        BY <1>a, <2>3, <4>1, Numbers
      <4>5. Counted - Len(queue) \in Int
        BY Numbers DEF Counted
      <4>q. QED
        BY <1>1, <2>2, <4>1, <4>2, <4>3, <4>4, <4>5, StillAccounted
    <3>2. CASE (ConsumeInterrupted \/ ConsumeFails) /\ pc' # "encode" /\ ~Undisturbed'
      <4>1. Owed' = 0
        BY <1>a, <3>2 DEF Owed
      <4>2. UNCHANGED <<mPendingFrames, notifying, running, queue>>
        BY <3>2, ConsumeErrorEffect
      <4>3. Counted' - Len(queue') <= Counted - Len(queue)
        BY <4>1, <4>2, Numbers DEF Counted
      <4>q. QED
        BY <1>1, <2>2, <3>2, <4>1, <4>2, <4>3, StillAccounted
    <3>3. ConsumeInterrupted => ~Undisturbed'
      BY DEF ConsumeInterrupted, Undisturbed
    <3>4. pc' = "disaster" => ~Undisturbed'
      BY DEF Undisturbed, Winding
    <3>q. QED BY <3>1, <3>2, <3>3, <3>4 DEF Consume
  <2>q. QED BY <2>1, <2>4 DEF VirtualInv
<1>4. CirculationInv'
  BY DEF IInv, CirculationInv, ScreenshotInv, OneScreenshotInCirculation,
         Owed, Undisturbed, Winding, Held, ControlInv, HeldInv, TypeOK,
         Consume, ConsumeFrame, ConsumeInterrupted, ConsumeFails, NoFrame
<1>5. TidyInv'
  BY DEF IInv, TidyInv, NoDescriptorLeak, ServerTearsDown, ControlInv,
         ModeInv, Consume
<1>q. QED BY <1>1, <1>2, <1>3, <1>4, <1>5 DEF IInv

\* Encoding keeps the frame held on every way out.
LEMMA EncodeStep == ASSUME IInv, Encode PROVE IInv'
<1>1. TypeOK'
  BY DEF IInv, TypeOK, Encode, Locations
<1>2. ControlInv'
  BY MainAssumption
     DEF IInv, ControlInv, ModeInv, ServeLocations, SkipInv, HeldInv,
         ClientInv, Encode, Modes
<1>3. VirtualInv'
  BY DEF IInv, VirtualInv, DisplayInv, QueueAccounted, Owed, Undisturbed,
         Winding, Encode
<1>4. CirculationInv'
  BY DEF IInv, CirculationInv, ScreenshotInv, OneScreenshotInCirculation,
         Owed, Undisturbed, Winding, Started, Held, Encode
<1>5. TidyInv'
  BY DEF IInv, TidyInv, NoDescriptorLeak, ServerTearsDown, Encode
<1>q. QED BY <1>1, <1>2, <1>3, <1>4, <1>5 DEF IInv

\* The frame stays held whether the client took it or had left.
LEMMA SendFrameStep == ASSUME IInv, SendFrame PROVE IInv'
<1>a. /\ pc = "send" /\ pc' \in {"release", "close"}
      /\ UNCHANGED <<captureVars, pending, haveFrame, fd, exitStatus>>
  BY DEF SendFrame
<1>b. UNCHANGED <<mFd, backlog, conn, fds, got>>
  <2>1. CASE Send(fd, held)
    BY <2>1 DEF Send
  <2>2. CASE SendFails(fd)
    BY <2>2 DEF SendFails
  <2>q. QED BY <2>1, <2>2 DEF SendFrame
<1>1. TypeOK'
  <2>1. sock' \in [Clients -> Seq(Nat)]
    <3>1. CASE Send(fd, held)
      BY <3>1, SendKeepsType DEF IInv, TypeOK
    <3>2. CASE SendFails(fd)
      BY <3>2 DEF IInv, TypeOK, SendFails
    <3>q. QED BY <3>1, <3>2 DEF SendFrame
  <2>q. QED BY <1>a, <1>b, <2>1 DEF IInv, TypeOK, Locations
<1>2. ControlInv'
  BY <1>a DEF IInv, ControlInv, ModeInv, ServeLocations, SkipInv, HeldInv, ClientInv
<1>3. VirtualInv'
  BY <1>a DEF IInv, VirtualInv, DisplayInv, QueueAccounted, Owed, Undisturbed, Winding
<1>4. CirculationInv'
  BY <1>a DEF IInv, CirculationInv, ScreenshotInv, OneScreenshotInCirculation,
     Owed, Undisturbed, Winding, Started, Held
<1>5. TidyInv'
  BY <1>a, <1>b DEF IInv, TidyInv, NoDescriptorLeak, ServerTearsDown,
     ControlInv, ModeInv
<1>q. QED BY <1>1, <1>2, <1>3, <1>4, <1>5 DEF IInv

\* The frame sent is given back, and the next screenshot announced, exactly
\* once.
LEMMA ReleaseSentStep == ASSUME IInv, ReleaseSent PROVE IInv'
<1>1. TypeOK'
  <2>1. mPendingFrames' \in Int /\ mStopped' \in BOOLEAN
    BY DEF IInv, TypeOK, ReleaseSent, ReleaseConsumedFrame, OnFrameAvailable
  <2>2. held' \in Nat /\ haveFrame' \in BOOLEAN /\ pc' \in Locations
    BY DEF ReleaseSent, ReleaseConsumedFrame, NoFrame, Locations
  <2>3. /\ UNCHANGED <<screen, queue, notifying, running, serverVars>>
        /\ UNCHANGED <<pending, fd, exitStatus>>
    BY DEF ReleaseSent, ReleaseConsumedFrame
  <2>q. QED BY <2>1, <2>2, <2>3 DEF IInv, TypeOK
<1>2. ControlInv'
  BY DEF IInv, ControlInv, ModeInv, ServeLocations, SkipInv, HeldInv,
         ClientInv, ReleaseSent, ReleaseConsumedFrame
<1>3. VirtualInv'
  BY DEF IInv, VirtualInv, DisplayInv, QueueAccounted, Owed, Undisturbed,
         Winding, ReleaseSent, ReleaseConsumedFrame
<1>4. CirculationInv'
  BY DEF IInv, CirculationInv, ScreenshotInv, OneScreenshotInCirculation,
         Owed, Winding, Started, Held, TypeOK, ReleaseSent,
         ReleaseConsumedFrame, OnFrameAvailable
<1>5. TidyInv'
  BY DEF IInv, TidyInv, NoDescriptorLeak, ServerTearsDown, ControlInv,
         ModeInv, ReleaseSent
<1>q. QED BY <1>1, <1>2, <1>3, <1>4, <1>5 DEF IInv

\* A frame in hand is given back before the next client; the old value of
\* haveFrame does harm to no count but a stopping one.
LEMMA CloseStep == ASSUME IInv, Close PROVE IInv'
<1>1. TypeOK'
  <2>1. mPendingFrames' \in Int /\ mStopped' \in BOOLEAN
    BY DEF IInv, TypeOK, Close, ReleaseConsumedFrame, OnFrameAvailable
  <2>2. held' \in Nat /\ pc' \in Locations /\ fd' = NoClient
    BY DEF IInv, TypeOK, Close, ReleaseConsumedFrame, NoFrame, Locations
  <2>3. conn' \in [Clients -> {"new", "open", "left", "closed"}]
    BY DEF IInv, TypeOK, Close, CloseClient
  <2>4. fds' \in SUBSET Clients
    BY DEF IInv, TypeOK, Close, CloseClient
  <2>5. /\ UNCHANGED <<screen, queue, notifying, running>>
        /\ UNCHANGED <<mFd, backlog, sock, got, pending, haveFrame, exitStatus>>
    BY DEF Close, CloseClient, ReleaseConsumedFrame
  <2>q. QED BY <2>1, <2>2, <2>3, <2>4, <2>5 DEF IInv, TypeOK
<1>2. ControlInv'
  BY DEF IInv, ControlInv, ModeInv, ServeLocations, SkipInv, HeldInv,
         ClientInv, Close, ReleaseConsumedFrame
<1>3. VirtualInv'
  BY DEF IInv, VirtualInv, DisplayInv, QueueAccounted, Owed, Undisturbed,
         Winding, Close, ReleaseConsumedFrame
<1>4. CirculationInv'
  BY DEF IInv, CirculationInv, ScreenshotInv, OneScreenshotInCirculation,
         Owed, Undisturbed, Winding, Started, Held, TypeOK, Close,
         ReleaseConsumedFrame, OnFrameAvailable
<1>5. TidyInv'
  BY DEF IInv, TidyInv, NoDescriptorLeak, ServerTearsDown, ControlInv,
         ModeInv, Close, CloseClient
<1>q. QED BY <1>1, <1>2, <1>3, <1>4, <1>5 DEF IInv

\* main() returns from the screenshot without touching a frame.
LEMMA WriteScreenshotStep == ASSUME IInv, WriteScreenshot PROVE IInv'
<1>1. TypeOK'
  BY DEF IInv, TypeOK, WriteScreenshot, Locations
<1>2. ControlInv'
  BY DEF IInv, ControlInv, ModeInv, ServeLocations, SkipInv, HeldInv,
         ClientInv, WriteScreenshot
<1>3. VirtualInv'
  <2>1. /\ pc = "shotWrite" /\ pc' \in {"exited", "disaster"}
        /\ UNCHANGED <<captureVars, pending>>
    BY DEF WriteScreenshot
  <2>2. Winding' /\ Owed' = 0 /\ Owed = 0
    BY <2>1 DEF Winding, Owed
  <2>q. QED
    BY <2>1, <2>2 DEF IInv, VirtualInv, DisplayInv, QueueAccounted, Undisturbed
<1>4. CirculationInv'
  BY DEF IInv, CirculationInv, ScreenshotInv, OneScreenshotInCirculation,
         Owed, Undisturbed, Winding, Started, Held, ControlInv, ModeInv,
         WriteScreenshot
<1>5. TidyInv'
  BY DEF IInv, TidyInv, NoDescriptorLeak, ServerTearsDown, ControlInv,
         ModeInv, WriteScreenshot
<1>q. QED BY <1>1, <1>2, <1>3, <1>4, <1>5 DEF IInv

\* The teardown takes the display down and the frame back.
LEMMA FreeStep == ASSUME IInv, Free PROVE IInv'
<1>1. TypeOK'
  <2>1. running' \in BOOLEAN
    BY Zenon DEF Free, FreeCapture
  <2>2. held' \in Nat /\ queue' \in Seq(Nat)
    BY DEF Free, FreeCapture, NoFrame
  <2>q. QED BY <2>1, <2>2 DEF IInv, TypeOK, Free, FreeCapture, Locations
<1>2. ControlInv'
  BY DEF IInv, ControlInv, ModeInv, ServeLocations, SkipInv, HeldInv,
         ClientInv, Free, FreeCapture
<1>3. VirtualInv'
  BY DEF VirtualInv, DisplayInv, QueueAccounted, Free, FreeCapture
<1>4. CirculationInv'
  BY DEF IInv, CirculationInv, ScreenshotInv, OneScreenshotInCirculation,
         Owed, Undisturbed, Winding, Started, Held, ControlInv, HeldInv, Free,
         FreeCapture
<1>5. TidyInv'
  BY DEF IInv, TidyInv, NoDescriptorLeak, ServerTearsDown, Free, FreeCapture
<1>q. QED BY <1>1, <1>2, <1>3, <1>4, <1>5 DEF IInv

\* The way out gives back the frame that haveFrame vouches for.
LEMMA DisasterStep == ASSUME IInv, Disaster PROVE IInv'
<1>1. TypeOK'
  BY DEF IInv, TypeOK, Disaster, ReleaseConsumedFrame, OnFrameAvailable,
         NoFrame, Locations
<1>2. ControlInv'
  BY DEF IInv, ControlInv, ModeInv, ServeLocations, SkipInv, HeldInv,
         ClientInv, Disaster, ReleaseConsumedFrame
<1>3. VirtualInv'
  BY DEF IInv, VirtualInv, DisplayInv, QueueAccounted, Owed, Undisturbed,
         Winding, Disaster, ReleaseConsumedFrame
<1>4. CirculationInv'
  BY DEF IInv, CirculationInv, ScreenshotInv, OneScreenshotInCirculation,
         Owed, Undisturbed, Winding, Started, Held, TypeOK, Disaster,
         ReleaseConsumedFrame, OnFrameAvailable
<1>5. TidyInv'
  BY DEF IInv, TidyInv, NoDescriptorLeak, ServerTearsDown, ControlInv,
         ModeInv, Disaster
<1>q. QED BY <1>1, <1>2, <1>3, <1>4, <1>5 DEF IInv

\* The teardown after an error does what the regular one does.
LEMMA DisasterFreeStep == ASSUME IInv, DisasterFree PROVE IInv'
<1>1. TypeOK'
  <2>1. running' \in BOOLEAN
    BY Zenon DEF DisasterFree, FreeCapture
  <2>2. held' \in Nat /\ queue' \in Seq(Nat)
    BY DEF DisasterFree, FreeCapture, NoFrame
  <2>q. QED BY <2>1, <2>2 DEF IInv, TypeOK, DisasterFree, FreeCapture, Locations
<1>2. ControlInv'
  BY DEF IInv, ControlInv, ModeInv, ServeLocations, SkipInv, HeldInv,
         ClientInv, DisasterFree, FreeCapture
<1>3. VirtualInv'
  BY DEF VirtualInv, DisplayInv, QueueAccounted, DisasterFree, FreeCapture
<1>4. CirculationInv'
  BY DEF IInv, CirculationInv, ScreenshotInv, OneScreenshotInCirculation,
         Owed, Undisturbed, Winding, Started, Held, TypeOK, DisasterFree,
         FreeCapture
<1>5. TidyInv'
  BY DEF IInv, TidyInv, NoDescriptorLeak, ServerTearsDown, DisasterFree,
         FreeCapture
<1>q. QED BY <1>1, <1>2, <1>3, <1>4, <1>5 DEF IInv

\* Failing without an instance, or after a failed test, changes no frame.
LEMMA FailStep == ASSUME IInv, Fail PROVE IInv'
<1>1. TypeOK'
  BY DEF IInv, TypeOK, Fail, Locations
<1>2. ControlInv'
  BY DEF IInv, ControlInv, ModeInv, ServeLocations, SkipInv, HeldInv,
         ClientInv, Fail
<1>3. VirtualInv'
  BY DEF IInv, VirtualInv, DisplayInv, QueueAccounted, Owed, Undisturbed,
         Winding, Fail
<1>4. CirculationInv'
  BY DEF IInv, CirculationInv, ScreenshotInv, OneScreenshotInCirculation,
         Owed, Undisturbed, Winding, Started, Held, Fail
<1>5. TidyInv'
  BY DEF IInv, TidyInv, NoDescriptorLeak, ServerTearsDown, ControlInv,
         HeldInv, VirtualInv, DisplayInv, CirculationInv, ScreenshotInv, Fail
<1>q. QED BY <1>1, <1>2, <1>3, <1>4, <1>5 DEF IInv

\* A signal changes the flag only, which no exact count survives and no
\* inequality minds.
LEMMA SignalHandledStep == ASSUME IInv, SignalHandled PROVE IInv'
<1>1. TypeOK'
  BY DEF IInv, TypeOK, SignalHandled, Stop
<1>2. ControlInv'
  BY DEF IInv, ControlInv, ModeInv, SkipInv, HeldInv, ClientInv,
         SignalHandled, Stop
<1>3. VirtualInv'
  BY DEF IInv, VirtualInv, DisplayInv, QueueAccounted, Owed, Undisturbed,
         SignalHandled, Stop
<1>4. CirculationInv'
  BY DEF IInv, CirculationInv, ScreenshotInv, OneScreenshotInCirculation,
         Owed, Undisturbed, Winding, Started, Held, SignalHandled, Stop
<1>5. TidyInv'
  BY DEF IInv, TidyInv, NoDescriptorLeak, ServerTearsDown, SignalHandled
<1>q. QED BY <1>1, <1>2, <1>3, <1>4, <1>5 DEF IInv

\* A signal that breaks a blocking call sends main() to a place where its
\* frame, if any, is given back.
LEMMA SignalInterruptsStep == ASSUME IInv, SignalInterrupts PROVE IInv'
<1>1. TypeOK'
  BY DEF IInv, TypeOK, SignalInterrupts, Stop, Locations
<1>2. ControlInv'
  BY DEF IInv, ControlInv, ModeInv, ServeLocations, SkipInv, HeldInv,
         ClientInv, SignalInterrupts, BlockedInAccept, BlockedInSend
<1>3. VirtualInv'
  <2>1. /\ pc \in {"accept", "send"} /\ pc' \in {"free", "close"}
        /\ mStopped' = TRUE /\ UNCHANGED <<mPendingFrames, sourceVars, pending>>
    BY DEF SignalInterrupts, Stop, BlockedInAccept, BlockedInSend
  <2>2. Owed' = 0 /\ Owed = 0 /\ ~Undisturbed'
    BY <2>1 DEF Undisturbed, Owed
  <2>q. QED BY <2>1, <2>2 DEF IInv, VirtualInv, DisplayInv, QueueAccounted
<1>4. CirculationInv'
  BY DEF IInv, CirculationInv, ScreenshotInv, OneScreenshotInCirculation,
         Owed, Undisturbed, Winding, Started, Held, SignalInterrupts, Stop,
         BlockedInSend
<1>5. TidyInv'
  BY DEF IInv, TidyInv, NoDescriptorLeak, ServerTearsDown, SignalInterrupts
<1>q. QED BY <1>1, <1>2, <1>3, <1>4, <1>5 DEF IInv

\* A failed accept() leads to the teardown.
LEMMA AcceptFailsStep == ASSUME IInv, AcceptFails PROVE IInv'
<1>1. TypeOK'
  BY DEF IInv, TypeOK, AcceptFails, Locations
<1>2. ControlInv'
  BY DEF IInv, ControlInv, ModeInv, ServeLocations, SkipInv, HeldInv,
         ClientInv, AcceptFails
<1>3. VirtualInv'
  BY DEF IInv, VirtualInv, DisplayInv, QueueAccounted, Owed, Undisturbed,
         Winding, AcceptFails
<1>4. CirculationInv'
  BY DEF IInv, CirculationInv, ScreenshotInv, OneScreenshotInCirculation,
         Owed, Undisturbed, Winding, Started, Held, AcceptFails
<1>5. TidyInv'
  BY DEF IInv, TidyInv, NoDescriptorLeak, ServerTearsDown, AcceptFails
<1>q. QED BY <1>1, <1>2, <1>3, <1>4, <1>5 DEF IInv

\* A binder thread moves one frame from announced-to-be to counted.
LEMMA BinderStep == ASSUME IInv, Binder PROVE IInv'
<1>1. TypeOK'
  BY DEF IInv, TypeOK, Binder, FrameProxyCalls, OnFrameAvailable
<1>2. ControlInv'
  BY DEF IInv, ControlInv, ModeInv, SkipInv, HeldInv, ClientInv, TypeOK,
         Binder, FrameProxyCalls, OnFrameAvailable
<1>3. VirtualInv'
  <2>1. /\ notifying > 0 /\ notifying' = notifying - 1
        /\ mPendingFrames' = mPendingFrames + 1
        /\ UNCHANGED <<mStopped, screen, queue, held, running, mainVars>>
    BY DEF Binder, FrameProxyCalls, OnFrameAvailable
  <2>2. (Owed' = Owed) /\ (Undisturbed' => Undisturbed)
    BY <2>1 DEF Undisturbed, Owed, Winding
  <2>3. IsVirtual /\ running => mPendingFrames >= 0
    BY DEF IInv, VirtualInv, QueueAccounted
  <2>4. Counted' = Counted
    BY <2>1, <2>2, Numbers DEF Counted
  <2>x. Counted - Len(queue) \in Int /\ Owed' \in Nat
    BY <2>2, Numbers DEF Counted
  <2>5. IsVirtual /\ running' => running /\ mPendingFrames' >= 0
    BY <2>1, <2>3, Numbers
  <2>6. QueueAccounted'
    BY <1>1, <2>1, <2>2, <2>4, <2>x, <2>5, StillAccounted
  <2>7. DisplayInv'
    BY <2>1 DEF IInv, TypeOK, VirtualInv, DisplayInv
  <2>q. QED BY <2>6, <2>7 DEF VirtualInv
<1>4. CirculationInv'
  BY DEF IInv, CirculationInv, ScreenshotInv, OneScreenshotInCirculation,
         Binder, FrameProxyCalls
<1>5. TidyInv'
  BY DEF IInv, TidyInv, NoDescriptorLeak, ServerTearsDown, ControlInv,
         ModeInv, Binder
<1>q. QED BY <1>1, <1>2, <1>3, <1>4, <1>5 DEF IInv

\* The composer queues a frame with its announcement, or replaces one that
\* was announced.
LEMMA ComposerStep == ASSUME IInv, Composer PROVE IInv'
<1>a. UNCHANGED <<mPendingFrames, mStopped, held, running, serverVars, mainVars>>
  BY DEF Composer, ScreenChanges, ComposerQueues, ComposerReplaces
<1>b. /\ screen' \in Nat /\ screen' >= screen
      /\ queue' \in Seq(Nat) /\ notifying' \in Nat
      /\ \/ UNCHANGED <<queue, notifying>>
         \/ /\ IsVirtual /\ running
            /\ Len(queue') - Len(queue) = notifying' - notifying
  <2>1. CASE ScreenChanges
    BY <2>1 DEF IInv, TypeOK, ScreenChanges
  <2>2. CASE ComposerQueues
    BY <2>2 DEF IInv, TypeOK, ComposerQueues
  <2>3. CASE ComposerReplaces
    BY <2>3, ReplaceLast DEF IInv, TypeOK, ComposerReplaces
  <2>q. QED BY <2>1, <2>2, <2>3 DEF Composer
<1>1. TypeOK'
  BY <1>a, <1>b DEF IInv, TypeOK
<1>2. ControlInv'
  BY <1>a, <1>b DEF IInv, TypeOK, ControlInv, ModeInv, SkipInv, HeldInv, ClientInv
<1>3. VirtualInv'
  <2>1. (Owed' = Owed) /\ (Undisturbed' => Undisturbed)
    BY <1>a DEF Undisturbed, Owed, Winding
  <2>2. Len(queue') \in Nat /\ notifying' \in Nat
    BY <1>b
  <2>3. Counted' - Len(queue') = Counted - Len(queue)
    BY <1>a, <1>b, <2>1, <2>2, Numbers, SMTT(30) DEF Counted
  <2>4. Counted - Len(queue) \in Int /\ Owed' \in Nat
    BY <2>1, Numbers DEF Counted
  <2>5. IsVirtual /\ running' => running /\ mPendingFrames' >= 0
    BY <1>a DEF IInv, VirtualInv, QueueAccounted
  <2>6. QueueAccounted'
    BY <1>1, <2>1, <2>3, <2>4, <2>5, StillAccounted
  <2>7. DisplayInv'
    BY <1>a, <1>b DEF IInv, VirtualInv, DisplayInv
  <2>q. QED BY <2>6, <2>7 DEF VirtualInv
<1>4. CirculationInv'
  <2>1. ~IsVirtual => UNCHANGED <<queue, notifying>>
    BY <1>b
  <2>q. QED
    BY <1>a, <2>1 DEF IInv, CirculationInv, ScreenshotInv,
       OneScreenshotInCirculation, Owed, Undisturbed, Winding, Started, Held
<1>5. TidyInv'
  BY <1>a DEF IInv, TidyInv, NoDescriptorLeak, ServerTearsDown
<1>q. QED BY <1>1, <1>2, <1>3, <1>4, <1>5 DEF IInv

\* What clients do reaches main() through no variable of the invariant but
\* their own connections.
LEMMA ClientStep ==
  ASSUME IInv, NEW c \in Clients,
         ClientConnects(c) \/ ClientLeaves(c) \/ ClientReads(c)
  PROVE  IInv'
<1>a. UNCHANGED <<captureVars, mainVars, mFd, fds>>
  BY DEF ClientConnects, ClientLeaves, ClientReads, Connect, Leave, Read
<1>1. TypeOK'
  <2>1. CASE ClientConnects(c)
    BY <1>a, <2>1 DEF IInv, TypeOK, ClientConnects, Connect
  <2>2. CASE ClientLeaves(c)
    BY <1>a, <2>2 DEF IInv, TypeOK, ClientLeaves, Leave
  <2>3. CASE ClientReads(c)
    <3>1. /\ sock[c] \in Seq(Nat) /\ sock[c] # <<>>
          /\ got' = [got EXCEPT ![c] = Head(sock[c])]
          /\ sock' = [sock EXCEPT ![c] = Tail(sock[c])]
          /\ UNCHANGED <<backlog, conn>>
      BY <2>3 DEF IInv, TypeOK, ClientReads, Read
    <3>2. Head(sock[c]) \in Nat /\ Tail(sock[c]) \in Seq(Nat)
      BY <3>1
    <3>q. QED BY <1>a, <3>1, <3>2 DEF IInv, TypeOK
  <2>q. QED BY <2>1, <2>2, <2>3
<1>2. ControlInv'
  BY <1>a DEF IInv, ControlInv, ModeInv, SkipInv, HeldInv, ClientInv
<1>3. VirtualInv'
  BY <1>a
     DEF IInv, VirtualInv, DisplayInv, QueueAccounted, Owed, Undisturbed, Winding
<1>4. CirculationInv'
  BY <1>a DEF IInv, CirculationInv, ScreenshotInv, OneScreenshotInCirculation,
     Owed, Undisturbed, Winding, Started, Held
<1>5. TidyInv'
  BY <1>a DEF IInv, TidyInv, NoDescriptorLeak, ServerTearsDown
<1>q. QED BY <1>1, <1>2, <1>3, <1>4, <1>5 DEF IInv

-----------------------------------------------------------------------------

\* Before main() has created an instance nothing is counted, queued or held.
LEMMA InitEstablishes == Init => IInv
<1> SUFFICES ASSUME Init PROVE IInv
  OBVIOUS
<1> USE DEF Init, CaptureInit, WaiterInit, ServerInit
<1>1. TypeOK
  <2>1. mStopped \in BOOLEAN /\ running \in BOOLEAN /\ haveFrame \in BOOLEAN
    BY Zenon
  <2>2. queue \in Seq(Nat) /\ backlog \in Seq(Clients)
    OBVIOUS
  <2>3. /\ conn \in [Clients -> {"new", "open", "left", "closed"}]
        /\ sock \in [Clients -> Seq(Nat)]
        /\ got \in [Clients -> Nat \cup {Nothing}]
    OBVIOUS
  <2>q. QED BY <2>1, <2>2, <2>3 DEF TypeOK, Locations, NoFrame
<1>2. ControlInv
  BY DEF ControlInv, ModeInv, ServeLocations, SkipInv, HeldInv, ClientInv, NoFrame
<1>3. VirtualInv
  BY DEF VirtualInv, DisplayInv, QueueAccounted
<1>4. CirculationInv
  BY DEF CirculationInv, ScreenshotInv, OneScreenshotInCirculation, Started
<1>5. TidyInv
  BY DEF TidyInv, NoDescriptorLeak, ServerTearsDown
<1>q. QED BY <1>1, <1>2, <1>3, <1>4, <1>5 DEF IInv

\* Every step of the main thread, of the environment, and a stuttering step.
LEMMA StepPreserves == IInv /\ [Next]_vars => IInv'
<1> SUFFICES ASSUME IInv, [Next]_vars PROVE IInv'
  OBVIOUS
<1>1. CASE StartUp
  BY <1>1, CreateStep, ApplyStep, ReserveStep, StartServerStep DEF StartUp
<1>2. CASE AcceptLoop
  BY <1>2, CheckStoppedBeforeAcceptStep, AcceptStep, AcceptOnNothingStep,
     SendBannerStep DEF AcceptLoop
<1>3. CASE WaitForFrame
  BY <1>3, CheckStoppedBeforeWaitStep, WaitHeadStep, WaitTakeStep,
     WaitTimeoutStep DEF WaitForFrame
<1>4. CASE FrameLoop
  BY <1>4, SkipReportStep, SkipConsumeStep, SkipReleaseStep, ConsumeStep,
     EncodeStep, SendFrameStep, ReleaseSentStep, CloseStep DEF FrameLoop
<1>5. CASE Ending
  BY <1>5, WriteScreenshotStep, FreeStep, DisasterStep, DisasterFreeStep,
     FailStep DEF Ending
<1>6. CASE Environment
  BY <1>6, SignalHandledStep, SignalInterruptsStep, AcceptFailsStep,
     BinderStep, ComposerStep, ClientStep DEF Environment
<1>7. CASE UNCHANGED vars
  <2>1. UNCHANGED <<captureVars, serverVars, mainVars>>
    BY <1>7 DEF vars
  <2>2. TypeOK'
    BY <2>1 DEF IInv, TypeOK
  <2>3. ControlInv'
    BY <2>1 DEF IInv, ControlInv, ModeInv, SkipInv, HeldInv, ClientInv
  <2>4. VirtualInv'
    BY <2>1
       DEF IInv, VirtualInv, DisplayInv, QueueAccounted, Owed, Undisturbed, Winding
  <2>5. CirculationInv'
    BY <2>1 DEF IInv, CirculationInv, ScreenshotInv,
       OneScreenshotInCirculation, Owed, Undisturbed, Winding, Started, Held
  <2>6. TidyInv'
    BY <2>1 DEF IInv, TidyInv, NoDescriptorLeak, ServerTearsDown
  <2>q. QED BY <2>2, <2>3, <2>4, <2>5, <2>6 DEF IInv
<1>q. QED
  BY <1>1, <1>2, <1>3, <1>4, <1>5, <1>6, <1>7 DEF Next, MainStep, Exited

(* The inductive invariant holds of every reachable state.                 *)
THEOREM Invariance == Spec => []IInv
BY InitEstablishes, StepPreserves, PTL DEF Spec

(* Every variable keeps the type the declarations of main() give it; the   *)
(* local that counts the frames to skip never becomes negative.            *)
THEOREM TypeCorrect == Spec => []TypeOK
<1>1. IInv => TypeOK
  BY DEF IInv
<1>q. QED BY <1>1, Invariance, PTL

(* The frame waiter's counter, the frames main() has taken and the calls   *)
(* still to come from the binder threads never exceed the buffers queued,  *)
(* and equal them while nothing was interrupted (minicap.cpp:64-88,        *)
(* 472-505), for any queue length and any number of clients.               *)
THEOREM FramesAccounted == Spec => []QueueAccounted
<1>1. IInv => QueueAccounted
  BY DEF IInv, VirtualInv
<1>q. QED BY <1>1, Invariance, PTL

(* With ScreenshotClient one frame circulates between the counter, main()  *)
(* and the capture (minicap.cpp:526-529), so the loop never stops and      *)
(* never runs ahead.                                                       *)
THEOREM ScreenshotCirculates == Spec => []OneScreenshotInCirculation
<1>1. IInv => OneScreenshotInCirculation
  BY DEF IInv, CirculationInv
<1>q. QED BY <1>1, Invariance, PTL

(* A consumption is only attempted when a buffer is queued                 *)
(* (minicap.cpp:481 and 496).                                              *)
THEOREM NeverStarved == Spec => []ConsumptionFindsFrame
<1>1. IInv => ConsumptionFindsFrame
  <2> SUFFICES ASSUME IInv, IsVirtual, pc \in {"skipConsume", "consume"}
               PROVE  queue # <<>>
    BY DEF ConsumptionFindsFrame
  <2>1. running
    BY DEF IInv, VirtualInv, DisplayInv
  <2>2. Owed >= 1
    BY Numbers DEF Owed
  <2>3. mPendingFrames >= 0 /\ mPendingFrames + Owed + notifying <= Len(queue)
    BY <2>1 DEF IInv, VirtualInv, QueueAccounted
  <2>4. Len(queue) > 0
    BY <2>2, <2>3, Numbers
  <2>q. QED BY <2>4
<1>q. QED BY <1>1, Invariance, PTL

(* Every consumed frame is released before the next one is consumed        *)
(* (Minicap.hpp:94), through every client, error and interruption.         *)
THEOREM ReleasePrecedesConsume == Spec => []ReleasedBeforeConsume
<1>1. IInv => ReleasedBeforeConsume
  BY DEF IInv, ControlInv, HeldInv, ReleasedBeforeConsume
<1>q. QED BY <1>1, Invariance, PTL

(* No connection's descriptor outlives the service of its client           *)
(* (minicap.cpp:466-469 and 537).                                          *)
THEOREM DescriptorsClosed == Spec => []NoDescriptorLeak
<1>1. IInv => NoDescriptorLeak
  BY DEF IInv, TidyInv
<1>q. QED BY <1>1, Invariance, PTL

(* A server that returns has taken its display down and given back its     *)
(* frame (minicap.cpp:545-556).                                            *)
THEOREM TornDown == Spec => []ServerTearsDown
<1>1. IInv => ServerTearsDown
  BY DEF IInv, TidyInv
<1>q. QED BY <1>1, Invariance, PTL

(* main() keeps to the contract of the capture methods (Minicap.hpp, the   *)
(* calls at minicap.cpp:384-556): the display is published once, nothing   *)
(* is consumed before the last frame was released, on every way around the *)
(* loops, and only frames that were announced are deducted.                *)
THEOREM ContractIsKept == Spec => KeepsContract
<1>1. Init => CaptureInit
  BY DEF Init
<1>2. IInv /\ [Next]_vars => [ContractNext]_captureVars
  <2> SUFFICES ASSUME IInv, [Next]_vars PROVE ContractNext \/ UNCHANGED captureVars
    OBVIOUS
  <2>1. CASE \/ Create \/ Reserve \/ StartServer \/ AcceptLoop \/ CheckStoppedBeforeWait
             \/ WaitHead \/ WaitTimeout \/ Encode \/ SendFrame \/ WriteScreenshot \/ Fail
             \/ AcceptFails \/ Exited \/ UNCHANGED vars
             \/ \E c \in Clients : ClientConnects(c) \/ ClientLeaves(c) \/ ClientReads(c)
    BY <2>1 DEF Create, Reserve, StartServer, AcceptLoop, CheckStoppedBeforeAccept, Accept,
       AcceptOnNothing, SendBanner, CheckStoppedBeforeWait, WaitHead, WaitTimeout,
       WaitTimesOut, Encode, SendFrame, WriteScreenshot, Fail, AcceptFails, Exited,
       ClientConnects, ClientLeaves, ClientReads, vars
  <2>2. CASE Apply
    <3>1. ~running
      BY <2>2 DEF Apply, IInv, VirtualInv, DisplayInv, CirculationInv, ScreenshotInv
    <3>q. QED BY <2>2, <3>1 DEF Apply, Publish, ContractNext
  <2>3. CASE WaitTake
    BY <2>3 DEF WaitTake, TakeFrame, WaiterTakes, ContractNext
  <2>4. CASE SkipReport
    <3>1. /\ ReportExtraConsumption(pending - 1) /\ UNCHANGED sourceVars
          /\ pending >= 2 /\ mPendingFrames >= pending - 1
      BY <2>4 DEF SkipReport, IInv, ControlInv, SkipInv
    <3>2. pending - 1 \in 1 .. mPendingFrames
      BY <3>1, Numbers
    <3>q. QED BY <3>1, <3>2 DEF WaiterSkips, ContractNext
  <2>5. CASE SkipConsume \/ Consume
    <3>1. held = NoFrame
      BY <2>5 DEF SkipConsume, Consume, IInv, ControlInv, HeldInv
    <3>2. ConsumeFrame \/ ConsumeInterrupted \/ ConsumeFails
      BY <2>5 DEF SkipConsume, Consume
    <3>3. ConsumeFrame => ContractNext
      BY <3>1 DEF HandOut, ContractNext
    <3>4. ConsumeInterrupted \/ ConsumeFails => UNCHANGED captureVars
      BY <3>1 DEF ConsumeInterrupted, ConsumeFails
    <3>q. QED BY <3>2, <3>3, <3>4
  <2>6. CASE SkipRelease \/ ReleaseSent \/ Close \/ Disaster
    BY <2>6 DEF SkipRelease, ReleaseSent, Close, Disaster, ContractNext
  <2>7. CASE Free \/ DisasterFree
    BY <2>7 DEF Free, DisasterFree, ContractNext
  <2>8. CASE SignalHandled \/ SignalInterrupts
    BY <2>8 DEF SignalHandled, SignalInterrupts, Stopped, ContractNext
  <2>9. CASE Binder \/ Composer
    BY <2>9 DEF Binder, Composer, ContractNext
  <2>q. QED
    BY <2>1, <2>2, <2>3, <2>4, <2>5, <2>6, <2>7, <2>8, <2>9 DEF Next, MainStep, StartUp,
       WaitForFrame, FrameLoop, Ending, Environment
<1>q. QED BY <1>1, <1>2, Invariance, PTL DEF Spec, KeepsContract, ContractSpec

=============================================================================
