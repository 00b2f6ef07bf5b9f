---------------------------- MODULE StreamProofs ----------------------------
(***************************************************************************)
(* Proofs about what clients see: the order of the messages of each        *)
(* connection, whatever is skipped, replaced, interrupted or left unsent,  *)
(* and the end of the stream after a signal.                               *)
(*                                                                         *)
(* StreamInv of MinicapInvariant is inductive given IInv.  StreamMoves     *)
(* says once what a step can do to frames and messages; each part of       *)
(* StreamInv is then shown to survive each kind of step.                   *)
(***************************************************************************)
EXTENDS MinicapProofs

USE DEF captureVars, waiterVars, sourceVars, serverVars, mainVars, Goto, Exit

-----------------------------------------------------------------------------
(* The kinds of steps, as far as the stream is concerned.                  *)

\* Frames and messages stay, but for those dropped.
Quiet ==
  /\ UNCHANGED <<screen, sock, got>>
  /\ queue' \in {queue, <<>>}
  /\ held' \in {held, NoFrame}
  /\ Showing' => Showing /\ held' = held

Consumes ==
  /\ pc \in {"skipConsume", "consume"}
  /\ ConsumeFrame
  /\ UNCHANGED <<sock, got>>

Renders ==
  /\ Composer
  /\ UNCHANGED <<held, sock, got, pc>>

Greets ==
  /\ pc = "banner" /\ pc' = "inner"
  /\ Send(fd, Banner)
  /\ UNCHANGED <<captureVars, fd>>

Shows ==
  /\ pc = "send" /\ pc' = "release"
  /\ Send(fd, held)
  /\ UNCHANGED <<captureVars, fd>>

Reads ==
  /\ \E c \in Clients : Read(c)
  /\ UNCHANGED <<captureVars, mainVars>>

\* Every step is of one of these kinds.
LEMMA StreamMoves ==
  ASSUME [Next]_vars
  PROVE  Quiet \/ Consumes \/ Renders \/ Greets \/ Shows \/ Reads
<1>1. CASE StartUp
  BY <1>1 DEF StartUp, Create, Apply, ApplyConfigChanges, OnFrameAvailable,
     Reserve, StartServer, Start, Quiet, Showing
<1>2. CASE AcceptLoop
  <2>1. CASE CheckStoppedBeforeAccept \/ Accept \/ AcceptOnNothing
    BY <2>1 DEF CheckStoppedBeforeAccept, Accept, AcceptClient,
       AcceptOnNothing, Quiet, Showing
  <2>2. CASE SendBanner
    BY <2>2 DEF SendBanner, CloseClient, Quiet, Showing, Greets
  <2>q. QED BY <1>2, <2>1, <2>2 DEF AcceptLoop
<1>3. CASE WaitForFrame
  <2>1. UNCHANGED <<sourceVars, serverVars>> /\ pc \in {"inner", "waitHead", "wait"}
    BY <1>3 DEF WaitForFrame, CheckStoppedBeforeWait, WaitHead, WaitTake,
       WaitTimeout
  <2>2. pc' \in {"close", "waitHead", "wait", "skipReport", "consume",
                 "disaster", "fail", "free"}
    BY <1>3, MainAssumption
       DEF WaitForFrame, CheckStoppedBeforeWait, WaitHead, WaitTake,
           WaitTimeout, WaitReturns, AfterWait, Modes
  <2>q. QED BY <2>1, <2>2 DEF Quiet, Showing
<1>4. CASE FrameLoop
  <2>1. CASE SkipReport
    BY <2>1 DEF SkipReport, Quiet, Showing
  <2>2. CASE SkipConsume
    <3>1. CASE ConsumeFrame
      BY <2>2, <3>1 DEF SkipConsume, Consumes
    <3>2. CASE /\ ConsumeInterrupted \/ ConsumeFails
               /\ pc' \in {"close", "disaster"} /\ UNCHANGED serverVars
      BY <3>2, ConsumeErrorEffect DEF Quiet, Showing
    <3>q. QED BY <2>2, <3>1, <3>2 DEF SkipConsume
  <2>3. CASE SkipRelease
    BY <2>3 DEF SkipRelease, ReleaseConsumedFrame, Quiet, Showing
  <2>4. CASE Consume
    <3>1. CASE ConsumeFrame
      BY <2>4, <3>1 DEF Consume, Consumes
    <3>2. CASE /\ ConsumeInterrupted \/ ConsumeFails
               /\ pc' \in {"close", "disaster"} /\ UNCHANGED serverVars
      BY <3>2, ConsumeErrorEffect DEF Quiet, Showing
    <3>q. QED BY <2>4, <3>1, <3>2 DEF Consume
  <2>5. CASE Encode
    BY <2>5 DEF Encode, Quiet, Showing
  <2>6. CASE SendFrame
    BY <2>6 DEF SendFrame, SendFails, Quiet, Showing, Shows
  <2>7. CASE ReleaseSent \/ Close
    BY <2>7 DEF ReleaseSent, Close, CloseClient, ReleaseConsumedFrame, Quiet, Showing
  <2>q. QED
    BY <1>4, <2>1, <2>2, <2>3, <2>4, <2>5, <2>6, <2>7 DEF FrameLoop
<1>5. CASE Ending
  BY <1>5 DEF Ending, WriteScreenshot, Free, Disaster, DisasterFree, Fail,
     FreeCapture, ReleaseConsumedFrame, Quiet, Showing
<1>6. CASE Environment
  <2>1. CASE SignalHandled \/ SignalInterrupts \/ AcceptFails
    BY <2>1 DEF SignalHandled, SignalInterrupts, Stop, AcceptFails, Quiet, Showing
  <2>2. CASE Binder
    BY <2>2 DEF Binder, FrameProxyCalls, Quiet, Showing
  <2>3. CASE Composer
    BY <2>3 DEF Composer, ScreenChanges, ComposerQueues, ComposerReplaces, Renders
  <2>4. ASSUME NEW c \in Clients, ClientConnects(c) \/ ClientLeaves(c)
        PROVE  Quiet
    BY <2>4 DEF ClientConnects, ClientLeaves, Connect, Leave, Quiet, Showing
  <2>5. ASSUME NEW c \in Clients, ClientReads(c)
        PROVE  Reads
    BY <2>5 DEF ClientReads, Reads
  <2>q. QED BY <1>6, <2>1, <2>2, <2>3, <2>4, <2>5 DEF Environment
<1>7. CASE UNCHANGED vars
  BY <1>7 DEF vars, Quiet, Showing
<1>8. CASE Exited
  BY <1>8 DEF Exited, vars, Quiet, Showing
<1>q. QED
  BY <1>1, <1>2, <1>3, <1>4, <1>5, <1>6, <1>7, <1>8 DEF Next, MainStep

-----------------------------------------------------------------------------
(* The order of frames and messages.                                       *)

\* The types the order is about.
LEMMA StreamTypes ==
  ASSUME TypeOK
  PROVE  /\ queue \in Seq(Nat) /\ held \in Nat /\ screen \in Nat
         /\ Len(queue) \in Nat /\ \A i \in 1 .. Len(queue) : queue[i] \in Nat
         /\ \A c \in Clients :
              /\ sock[c] \in Seq(Nat) /\ Len(sock[c]) \in Nat
              /\ \A i \in 1 .. Len(sock[c]) : sock[c][i] \in Nat
              /\ got[c] \in Int
BY DEF TypeOK, Nothing

\* What is dropped leaves the rest in order.
LEMMA QuietKeepsOrder ==
  ASSUME TypeOK, OrderInv, Quiet
  PROVE  OrderInv'
<1> USE DEF Quiet
<1>1. SourceOrdered'
  <2>1. CASE queue' = <<>>
    BY <2>1, StreamTypes DEF OrderInv, SourceOrdered, NoFrame
  <2>2. CASE queue' = queue
    <3>1. \A i \in 1 .. Len(queue) : held' < queue[i]
      BY StreamTypes DEF OrderInv, SourceOrdered, NoFrame
    <3>2. held' <= screen
      BY StreamTypes DEF OrderInv, SourceOrdered, NoFrame
    <3>q. QED BY <2>2, <3>1, <3>2 DEF OrderInv, SourceOrdered
  <2>q. QED BY <2>1, <2>2
<1>2. ASSUME NEW c \in Clients PROVE ReceivedOrdered(c)'
  <2>1. CASE queue' = <<>>
    BY <1>2, <2>1 DEF OrderInv, ReceivedOrdered, Ordered
  <2>2. CASE queue' = queue
    BY <1>2, <2>2 DEF OrderInv, ReceivedOrdered, Ordered
  <2>q. QED BY <2>1, <2>2
<1>3. ASSUME NEW c \in Clients PROVE HeldIsNews(c)'
  BY <1>3 DEF OrderInv, HeldIsNews
<1>q. QED BY <1>1, <1>2, <1>3 DEF OrderInv

\* The frame consumed is the oldest queued, or the screen as it is now:
\* younger than every message, older than what remains queued.
LEMMA ConsumesKeepsOrder ==
  ASSUME IInv, OrderInv, Consumes
  PROVE  OrderInv'
<1>t. TypeOK /\ screen >= 1
  BY DEF IInv, ControlInv, HeldInv
<1>a. UNCHANGED <<screen, sock, got>>
  BY DEF Consumes, ConsumeFrame
<1>1. CASE IsVirtual
  <2>1. queue # <<>> /\ held' = Head(queue) /\ queue' = Tail(queue)
    BY <1>1 DEF Consumes, ConsumeFrame
  <2>2. /\ Len(queue') = Len(queue) - 1 /\ 1 \in 1 .. Len(queue)
        /\ held' = queue[1] /\ \A i \in 1 .. Len(queue') : queue'[i] = queue[i + 1]
    BY <1>t, <2>1, StreamTypes
  <2>3. \A i \in 1 .. Len(queue') : i + 1 \in 1 .. Len(queue) /\ 1 < i + 1
    BY <2>2, <1>t, StreamTypes
  <2>4. SourceOrdered'
    <3>1. ASSUME NEW i \in 1 .. Len(queue'), NEW j \in 1 .. Len(queue'), i < j
          PROVE  queue'[i] < queue'[j]
      <4>1. i + 1 < j + 1
        BY <3>1, <1>t, StreamTypes, <2>2
      <4>q. QED BY <2>2, <2>3, <3>1, <4>1 DEF OrderInv, SourceOrdered
    <3>2. ASSUME NEW i \in 1 .. Len(queue') PROVE held' < queue'[i] /\ queue'[i] <= screen
      BY <2>2, <2>3, <3>2 DEF OrderInv, SourceOrdered
    <3>3. held' <= screen
      BY <2>2 DEF OrderInv, SourceOrdered
    <3>q. QED BY <1>a, <3>1, <3>2, <3>3 DEF SourceOrdered
  <2>5. ASSUME NEW c \in Clients PROVE ReceivedOrdered(c)'
    BY <1>a, <2>2, <2>3, <2>5 DEF OrderInv, ReceivedOrdered, Ordered
  <2>6. ASSUME NEW c \in Clients PROVE HeldIsNews(c)'
    BY <1>a, <2>2, <2>6 DEF OrderInv, ReceivedOrdered, HeldIsNews, Precedes
  <2>q. QED BY <2>4, <2>5, <2>6 DEF OrderInv
<1>2. CASE ~IsVirtual
  <2>1. held' = screen /\ queue' = queue /\ queue = <<>>
    BY <1>2 DEF Consumes, ConsumeFrame, IInv, CirculationInv, ScreenshotInv
  <2>2. SourceOrdered'
    BY <1>t, <1>a, <2>1, StreamTypes DEF SourceOrdered
  <2>3. ASSUME NEW c \in Clients PROVE ReceivedOrdered(c)'
    BY <1>a, <2>1, <2>3 DEF OrderInv, ReceivedOrdered, Ordered
  <2>4. ASSUME NEW c \in Clients PROVE HeldIsNews(c)'
    BY <1>t, <1>a, <1>2, <2>1, <2>4, StreamTypes
       DEF OrderInv, ReceivedOrdered, HeldIsNews, Precedes, Banner
  <2>q. QED BY <2>2, <2>3, <2>4 DEF OrderInv
<1>q. QED BY <1>1, <1>2

\* The frame rendered is younger than everything there is.
LEMMA RendersKeepsOrder ==
  ASSUME IInv, OrderInv, Renders
  PROVE  OrderInv'
<1>t. TypeOK
  BY DEF IInv
<1>a. UNCHANGED <<held, sock, got, pc>>
  BY DEF Renders
<1>b. screen' \in {screen, screen + 1}
  BY DEF Renders, Composer, ScreenChanges, ComposerQueues, ComposerReplaces
<1>c. /\ Len(queue') \in Nat
      /\ \A i \in 1 .. Len(queue') :
           \/ /\ i \in 1 .. Len(queue) /\ queue'[i] = queue[i]
           \/ /\ i = Len(queue') /\ queue'[i] = screen + 1 /\ screen' = screen + 1
  <2>1. CASE ScreenChanges
    BY <1>t, <2>1, StreamTypes DEF ScreenChanges
  <2>2. CASE ComposerQueues
    BY <1>t, <2>2, StreamTypes DEF ComposerQueues
  <2>3. CASE ComposerReplaces
    <3>1. /\ queue # <<>> /\ screen' = screen + 1
          /\ queue' = [queue EXCEPT ![Len(queue)] = screen']
      BY <2>3 DEF ComposerReplaces
    <3>2. Len(queue') = Len(queue) /\ DOMAIN queue' = 1 .. Len(queue)
      BY <1>t, <3>1, StreamTypes, ReplaceLast
    <3>q. QED BY <1>t, <3>1, <3>2, StreamTypes
  <2>q. QED BY <2>1, <2>2, <2>3 DEF Renders, Composer
<1>1. SourceOrdered'
  <2>1. ASSUME NEW i \in 1 .. Len(queue'), NEW j \in 1 .. Len(queue'), i < j
        PROVE  queue'[i] < queue'[j]
    <3>1. i \in 1 .. Len(queue) /\ queue'[i] = queue[i] /\ queue[i] <= screen
      BY <1>c, <2>1 DEF OrderInv, SourceOrdered
    <3>q. QED BY <1>t, <1>c, <2>1, <3>1, StreamTypes, SMTT(30) DEF OrderInv, SourceOrdered
  <2>2. ASSUME NEW i \in 1 .. Len(queue')
        PROVE  held' < queue'[i] /\ queue'[i] <= screen'
    BY <1>t, <1>a, <1>b, <1>c, <2>2, StreamTypes DEF OrderInv, SourceOrdered
  <2>3. held' <= screen'
    BY <1>t, <1>a, <1>b, StreamTypes DEF OrderInv, SourceOrdered
  <2>q. QED BY <2>1, <2>2, <2>3 DEF SourceOrdered
<1>2. ASSUME NEW c \in Clients PROVE ReceivedOrdered(c)'
  <2>1. Ordered(sock[c]) /\ got[c] <= screen'
        /\ \A i \in 1 .. Len(sock[c]) : sock[c][i] <= screen' /\ Precedes(got[c], sock[c][i])
    BY <1>t, <1>b, StreamTypes DEF OrderInv, ReceivedOrdered
  <2>2. ASSUME NEW j \in 1 .. Len(queue')
        PROVE  got[c] < queue'[j] /\ \A i \in 1 .. Len(sock[c]) : sock[c][i] < queue'[j]
    BY <1>t, <1>c, <2>2, StreamTypes, SMTT(30) DEF OrderInv, ReceivedOrdered
  <2>q. QED BY <1>a, <2>1, <2>2 DEF ReceivedOrdered, Ordered
<1>3. ASSUME NEW c \in Clients PROVE HeldIsNews(c)'
  BY <1>a, <1>3 DEF OrderInv, HeldIsNews, Showing
<1>q. QED BY <1>1, <1>2, <1>3 DEF OrderInv

\* A message that comes after all its receiver has got or will read.
LEMMA SendKeepsOrder ==
  ASSUME TypeOK, OrderInv, NEW m \in Nat, m <= screen, Send(fd, m),
         \A j \in 1 .. Len(queue) : m < queue[j],
         fd \in Clients =>
           /\ Precedes(got[fd], m)
           /\ \A i \in 1 .. Len(sock[fd]) : Precedes(sock[fd][i], m),
         UNCHANGED captureVars, pc' \in {"inner", "release"}
  PROVE  OrderInv'
<1>1. SourceOrdered'
  BY DEF OrderInv, SourceOrdered
<1>2. ASSUME NEW c \in Clients PROVE ReceivedOrdered(c)'
  <2>1. CASE c # fd
    <3>1. sock'[c] = sock[c] /\ got' = got
      BY <2>1 DEF Send, TypeOK
    <3>q. QED BY <1>2, <3>1 DEF OrderInv, ReceivedOrdered, Ordered
  <2>2. CASE c = fd
    <3>1. sock'[c] = Append(sock[c], m) /\ got' = got
      BY <1>2, <2>2 DEF Send, TypeOK
    <3>2. /\ Len(sock'[c]) = Len(sock[c]) + 1
          /\ \A i \in 1 .. Len(sock'[c]) :
               \/ i \in 1 .. Len(sock[c]) /\ sock'[c][i] = sock[c][i]
               \/ i = Len(sock[c]) + 1 /\ sock'[c][i] = m
      BY <1>2, <3>1, StreamTypes
    <3>3. Ordered(sock[c])'
      <4>1. ASSUME NEW i \in 1 .. Len(sock'[c]), NEW j \in 1 .. Len(sock'[c]), i < j
            PROVE  Precedes(sock'[c][i], sock'[c][j])
        <5>1. i \in 1 .. Len(sock[c]) /\ sock'[c][i] = sock[c][i]
          <6>1. Len(sock[c]) \in Nat /\ i # Len(sock[c]) + 1
            BY <1>2, <3>2, <4>1, StreamTypes
          <6>q. QED BY <3>2, <6>1
        <5>2. CASE j \in 1 .. Len(sock[c]) /\ sock'[c][j] = sock[c][j]
          BY <1>2, <4>1, <5>1, <5>2 DEF OrderInv, ReceivedOrdered, Ordered
        <5>3. CASE sock'[c][j] = m
          BY <1>2, <2>2, <5>1, <5>3
        <5>q. QED BY <3>2, <4>1, <5>2, <5>3
      <4>q. QED BY <4>1 DEF Ordered
    <3>4. ASSUME NEW i \in 1 .. Len(sock'[c])
          PROVE  /\ sock'[c][i] <= screen /\ Precedes(got[c], sock'[c][i])
                 /\ \A j \in 1 .. Len(queue) : sock'[c][i] < queue[j]
      BY <1>2, <2>2, <3>2, <3>4 DEF OrderInv, ReceivedOrdered
    <3>q. QED BY <1>2, <3>1, <3>3, <3>4 DEF OrderInv, ReceivedOrdered
  <2>q. QED BY <2>1, <2>2
<1>3. ASSUME NEW c \in Clients PROVE HeldIsNews(c)'
  BY DEF HeldIsNews, Showing
<1>q. QED BY <1>1, <1>2, <1>3 DEF OrderInv

\* The banner comes before every frame, on a connection nothing was sent on.
LEMMA GreetsKeepsOrder ==
  ASSUME IInv, OrderInv, GreetingInv, Greets
  PROVE  OrderInv'
<1>t. TypeOK
  BY DEF IInv
<1>1. fd \in Clients /\ got[fd] = Nothing /\ sock[fd] = <<>>
  BY DEF Greets, GreetingInv, BacklogInv, Fresh
<1>2. /\ Precedes(got[fd], Banner)
      /\ \A i \in 1 .. Len(sock[fd]) : Precedes(sock[fd][i], Banner)
  BY <1>1 DEF Precedes, Nothing, Banner
<1>3. Banner \in Nat /\ Banner <= screen /\ \A j \in 1 .. Len(queue) : Banner < queue[j]
  BY <1>t, StreamTypes DEF OrderInv, SourceOrdered, Banner
<1>q. QED BY <1>t, <1>2, <1>3, SendKeepsOrder DEF Greets

\* The frame shown comes after what its client was sent before.
LEMMA ShowsKeepsOrder ==
  ASSUME IInv, OrderInv, Shows
  PROVE  OrderInv'
<1>t. TypeOK /\ held \in Nat
  BY StreamTypes DEF IInv
<1>1. fd \in Clients =>
        /\ Precedes(got[fd], held)
        /\ \A i \in 1 .. Len(sock[fd]) : Precedes(sock[fd][i], held)
  BY DEF Shows, OrderInv, HeldIsNews, Showing
<1>2. held <= screen /\ \A j \in 1 .. Len(queue) : held < queue[j]
  BY DEF OrderInv, SourceOrdered
<1>q. QED BY <1>t, <1>1, <1>2, SendKeepsOrder DEF Shows

\* A client reads its messages in the order they were sent in.
LEMMA ReadsKeepsOrder ==
  ASSUME IInv, OrderInv, Reads
  PROVE  OrderInv'
<1>t. TypeOK
  BY DEF IInv
<1>1. PICK r \in Clients : Read(r)
  BY DEF Reads
<1>2. UNCHANGED <<captureVars, mainVars>>
  BY DEF Reads
<1>3. SourceOrdered'
  BY <1>2 DEF OrderInv, SourceOrdered
<1>4. ASSUME NEW c \in Clients PROVE ReceivedOrdered(c)' /\ HeldIsNews(c)'
  <2>1. CASE c # r
    <3>1. sock'[c] = sock[c] /\ got'[c] = got[c]
      BY <1>t, <1>1, <1>4, <2>1 DEF Read, TypeOK
    <3>q. QED
      BY <1>2, <1>4, <3>1 DEF OrderInv, ReceivedOrdered, Ordered, HeldIsNews, Showing
  <2>2. CASE c = r
    <3>1. /\ sock[c] # <<>> /\ sock[c] \in Seq(Nat)
          /\ sock'[c] = Tail(sock[c]) /\ got'[c] = Head(sock[c])
      BY <1>t, <1>1, <1>4, <2>2 DEF Read, TypeOK
    <3>2. /\ Len(sock'[c]) \in Nat /\ 1 \in 1 .. Len(sock[c]) /\ got'[c] = sock[c][1]
          /\ \A i \in 1 .. Len(sock'[c]) :
               i + 1 \in 1 .. Len(sock[c]) /\ 1 < i + 1 /\ sock'[c][i] = sock[c][i + 1]
      BY <3>1
    <3>3. Ordered(sock[c])'
      <4>1. ASSUME NEW i \in 1 .. Len(sock'[c]), NEW j \in 1 .. Len(sock'[c]), i < j
            PROVE  Precedes(sock'[c][i], sock'[c][j])
        <5>1. i + 1 < j + 1
          BY <3>2, <4>1
        <5>q. QED BY <1>4, <3>2, <4>1, <5>1 DEF OrderInv, ReceivedOrdered, Ordered
      <4>q. QED BY <4>1 DEF Ordered
    <3>4. ASSUME NEW i \in 1 .. Len(sock'[c])
          PROVE  sock'[c][i] <= screen /\ Precedes(got'[c], sock'[c][i])
      BY <1>4, <3>2, <3>4 DEF OrderInv, ReceivedOrdered, Ordered
    <3>5. ReceivedOrdered(c)'
      BY <1>2, <1>4, <3>2, <3>3, <3>4 DEF OrderInv, ReceivedOrdered
    <3>6. HeldIsNews(c)'
      BY <1>2, <1>4, <3>2 DEF OrderInv, HeldIsNews, Showing
    <3>q. QED BY <3>5, <3>6
  <2>q. QED BY <2>1, <2>2
<1>q. QED BY <1>3, <1>4 DEF OrderInv

\* Every step keeps the order.
LEMMA OrderPreserved ==
  ASSUME IInv, StreamInv, [Next]_vars
  PROVE  OrderInv'
BY StreamMoves, QuietKeepsOrder, ConsumesKeepsOrder, RendersKeepsOrder,
   GreetsKeepsOrder, ShowsKeepsOrder, ReadsKeepsOrder DEF IInv, StreamInv

-----------------------------------------------------------------------------
(* The banner.                                                             *)

\* The connections waiting, and what was sent on any, stay as they are; the
\* client being served does, or is closed.
ServiceGoesOn ==
  /\ UNCHANGED <<backlog, sock, got>>
  /\ \A c \in Clients : conn'[c] = "new" => conn[c] = "new"
  /\ \A c \in Clients : conn[c] = "new" => conn'[c] = "new"
  /\ fd' \in {fd, NoClient}
  /\ pc' = "banner" => pc = "banner" /\ fd' = fd
  /\ Greeted' => fd' = NoClient \/ (Greeted /\ fd' = fd)

Accepts == Accept
Connects == \E c \in Clients : Connect(c) /\ UNCHANGED mainVars

\* Every step is of one of these kinds.
LEMMA ServiceMoves ==
  ASSUME IInv, [Next]_vars
  PROVE  ServiceGoesOn \/ Accepts \/ Connects \/ Greets \/ Shows \/ Reads
<1>t. TypeOK
  BY DEF IInv
<1>1. CASE StartUp
  BY <1>1 DEF StartUp, Create, Apply, Reserve, StartServer, Start, IInv,
     ControlInv, ClientInv, ServiceGoesOn, Greeted
<1>2. CASE AcceptLoop
  <2>1. CASE CheckStoppedBeforeAccept \/ AcceptOnNothing
    BY <2>1 DEF CheckStoppedBeforeAccept, AcceptOnNothing, ServiceGoesOn, Greeted
  <2>2. CASE SendBanner
    <3>1. CASE CloseClient(fd) /\ pc' = "outer" /\ fd' = NoClient
      BY <1>t, <3>1 DEF CloseClient, ServiceGoesOn, Greeted, TypeOK
    <3>q. QED BY <2>2, <3>1 DEF SendBanner, Greets
  <2>q. QED BY <1>2, <2>1, <2>2 DEF AcceptLoop, Accepts
<1>3. CASE WaitForFrame
  <2>1. pc \in {"inner", "waitHead", "wait"} /\ pc' # "banner"
    BY <1>3, MainAssumption
       DEF WaitForFrame, CheckStoppedBeforeWait, WaitHead, WaitTake,
           WaitTimeout, WaitReturns, AfterWait, Modes
  <2>2. UNCHANGED <<serverVars, fd>>
    BY <1>3 DEF WaitForFrame, CheckStoppedBeforeWait, WaitHead, WaitTake,
       WaitTimeout, WaitReturns
  <2>q. QED BY <2>1, <2>2 DEF ServiceGoesOn, Greeted
<1>4. CASE FrameLoop
  <2>1. CASE SkipReport \/ SkipConsume \/ SkipRelease
    BY <2>1 DEF SkipReport, SkipConsume, SkipRelease, ServiceGoesOn, Greeted
  <2>2. CASE Consume \/ Encode \/ ReleaseSent
    BY <2>2 DEF Consume, Encode, ReleaseSent, ServiceGoesOn, Greeted
  <2>3. CASE SendFrame
    BY <2>3 DEF SendFrame, SendFails, ServiceGoesOn, Greeted, Shows
  <2>4. CASE Close
    BY <1>t, <2>4 DEF Close, CloseClient, ServiceGoesOn, Greeted, TypeOK
  <2>q. QED BY <1>4, <2>1, <2>2, <2>3, <2>4 DEF FrameLoop
<1>5. CASE Ending
  BY <1>5 DEF Ending, WriteScreenshot, Free, Disaster, DisasterFree, Fail,
     ServiceGoesOn, Greeted
<1>6. CASE Environment
  <2>1. CASE SignalHandled \/ SignalInterrupts \/ AcceptFails
    BY <2>1 DEF SignalHandled, SignalInterrupts, AcceptFails, ServiceGoesOn, Greeted
  <2>2. CASE Binder \/ Composer
    BY <2>2 DEF Binder, Composer, ServiceGoesOn, Greeted
  <2>3. ASSUME NEW c \in Clients, ClientConnects(c) PROVE Connects
    BY <2>3 DEF ClientConnects, Connects
  <2>4. ASSUME NEW c \in Clients, ClientLeaves(c) PROVE ServiceGoesOn
    BY <1>t, <2>4 DEF ClientLeaves, Leave, ServiceGoesOn, Greeted, TypeOK
  <2>5. ASSUME NEW c \in Clients, ClientReads(c) PROVE Reads
    BY <2>5 DEF ClientReads, Reads
  <2>q. QED BY <1>6, <2>1, <2>2, <2>3, <2>4, <2>5 DEF Environment
<1>7. CASE UNCHANGED vars
  BY <1>7 DEF vars, ServiceGoesOn, Greeted
<1>q. QED
  BY <1>1, <1>2, <1>3, <1>4, <1>5, <1>6, <1>7 DEF Next, MainStep, Exited

\* A client being served stays the one that is, and waits no more.
LEMMA GoingOnKeepsGreeting ==
  ASSUME IInv, GreetingInv, ServiceGoesOn
  PROVE  GreetingInv'
<1>1. BacklogInv'
  <2>1. ASSUME NEW i \in 1 .. Len(backlog)
        PROVE  /\ backlog[i] \in Clients
               /\ Fresh(backlog[i])' /\ conn'[backlog[i]] # "new" /\ backlog[i] # fd'
               /\ \A j \in 1 .. Len(backlog) : i # j => backlog[i] # backlog[j]
    <3>1. backlog[i] \in Clients
      BY DEF IInv, TypeOK
    <3>q. QED BY <2>1, <3>1, MainAssumption DEF GreetingInv, BacklogInv, Fresh, ServiceGoesOn
  <2>2. pc' = "banner" => fd' \in Clients /\ Fresh(fd)'
    BY DEF GreetingInv, BacklogInv, Fresh, ServiceGoesOn
  <2>3. fd' \in Clients => conn'[fd'] # "new"
    BY MainAssumption DEF GreetingInv, BacklogInv, ServiceGoesOn
  <2>q. QED BY <2>1, <2>2, <2>3 DEF BacklogInv, ServiceGoesOn
<1>2. ASSUME NEW c \in Clients PROVE BannerFirst(c)'
  BY <1>2, MainAssumption DEF GreetingInv, BannerFirst, Fresh, ServiceGoesOn
<1>q. QED BY <1>1, <1>2 DEF GreetingInv

\* The connection that has waited longest is served, and no other is it.
LEMMA AcceptsKeepsGreeting ==
  ASSUME IInv, GreetingInv, Accepts
  PROVE  GreetingInv'
<1>1. /\ backlog # <<>> /\ backlog \in Seq(Clients)
      /\ fd' = Head(backlog) /\ backlog' = Tail(backlog) /\ pc' = "banner"
      /\ UNCHANGED <<conn, sock, got>>
  BY DEF Accepts, Accept, AcceptClient, IInv, TypeOK
<1>2. /\ 1 \in 1 .. Len(backlog) /\ fd' = backlog[1] /\ fd' \in Clients
      /\ \A i \in 1 .. Len(backlog') :
           i + 1 \in 1 .. Len(backlog) /\ i + 1 # 1 /\ backlog'[i] = backlog[i + 1]
  BY <1>1
<1>3. BacklogInv'
  <2>1. ASSUME NEW i \in 1 .. Len(backlog')
        PROVE  /\ Fresh(backlog[i])' /\ conn'[backlog'[i]] # "new" /\ backlog'[i] # fd'
               /\ \A j \in 1 .. Len(backlog') : i # j => backlog'[i] # backlog'[j]
    <3>1. Fresh(backlog[i])' /\ conn'[backlog'[i]] # "new" /\ backlog'[i] # fd'
      BY <1>1, <1>2, <2>1 DEF GreetingInv, BacklogInv, Fresh
    <3>2. ASSUME NEW j \in 1 .. Len(backlog'), i # j PROVE backlog'[i] # backlog'[j]
      <4>1. i + 1 # j + 1
        BY <2>1, <3>2
      <4>q. QED BY <1>2, <2>1, <3>2, <4>1 DEF GreetingInv, BacklogInv
    <3>q. QED BY <3>1, <3>2
  <2>2. fd' \in Clients /\ Fresh(fd)' /\ conn'[fd'] # "new"
    BY <1>1, <1>2 DEF GreetingInv, BacklogInv, Fresh
  <2>q. QED BY <2>1, <2>2 DEF BacklogInv
<1>4. ASSUME NEW c \in Clients PROVE BannerFirst(c)'
  BY <1>1, <1>4 DEF GreetingInv, BannerFirst, Fresh, Greeted
<1>q. QED BY <1>3, <1>4 DEF GreetingInv

\* A new connection waits behind the others.
LEMMA ConnectsKeepsGreeting ==
  ASSUME IInv, GreetingInv, Connects
  PROVE  GreetingInv'
<1>1. PICK n \in Clients : Connect(n) /\ UNCHANGED mainVars
  BY DEF Connects
<1>2. /\ backlog \in Seq(Clients) /\ conn[n] = "new"
      /\ backlog' = Append(backlog, n)
      /\ conn'[n] = "open" /\ \A c \in Clients : c # n => conn'[c] = conn[c]
      /\ UNCHANGED <<sock, got, mainVars>>
  BY <1>1 DEF Connect, IInv, TypeOK
<1>3. Fresh(n) /\ fd # n
  BY <1>2 DEF GreetingInv, BannerFirst, BacklogInv
<1>4. \A i \in 1 .. Len(backlog') :
        \/ i \in 1 .. Len(backlog) /\ backlog'[i] = backlog[i] /\ backlog[i] \in Clients
        \/ i = Len(backlog) + 1 /\ backlog'[i] = n
  BY <1>2
<1>5. \A i \in 1 .. Len(backlog) : backlog[i] # n
  BY <1>2 DEF GreetingInv, BacklogInv
<1>6. BacklogInv'
  <2>1. ASSUME NEW i \in 1 .. Len(backlog')
        PROVE  /\ Fresh(backlog[i])' /\ conn'[backlog'[i]] # "new" /\ backlog'[i] # fd'
               /\ \A j \in 1 .. Len(backlog') : i # j => backlog'[i] # backlog'[j]
    <3>1. Fresh(backlog[i])' /\ conn'[backlog'[i]] # "new" /\ backlog'[i] # fd'
      BY <1>2, <1>3, <1>4, <1>5, <2>1 DEF GreetingInv, BacklogInv, Fresh
    <3>2. ASSUME NEW j \in 1 .. Len(backlog'), i # j PROVE backlog'[i] # backlog'[j]
      BY <1>4, <1>5, <2>1, <3>2 DEF GreetingInv, BacklogInv
    <3>q. QED BY <3>1, <3>2
  <2>2. /\ pc' = "banner" => fd' \in Clients /\ Fresh(fd)'
        /\ fd' \in Clients => conn'[fd'] # "new"
    BY <1>2 DEF GreetingInv, BacklogInv, Fresh
  <2>q. QED BY <2>1, <2>2 DEF BacklogInv
<1>7. ASSUME NEW c \in Clients PROVE BannerFirst(c)'
  BY <1>2, <1>3, <1>7 DEF GreetingInv, BannerFirst, Fresh, Greeted
<1>q. QED BY <1>6, <1>7 DEF GreetingInv

\* The banner is the first message of its connection; a frame never is.
LEMMA SendsKeepGreeting ==
  ASSUME IInv, GreetingInv, Greets \/ Shows
  PROVE  GreetingInv'
<1>t. TypeOK
  BY DEF IInv
<1>1. PICK m \in Nat : Send(fd, m) /\ (m = Banner \/ pc = "send")
  BY <1>t, StreamTypes DEF Greets, Shows, Banner
<1>2. /\ fd' = fd /\ pc' \in {"inner", "release"} /\ Greeted'
      /\ pc = "banner" => m = Banner
      /\ pc = "banner" \/ Greeted
      /\ UNCHANGED <<backlog, conn, got>>
  BY <1>1 DEF Greets, Shows, Send, Greeted
<1>3. \A c \in Clients : c # fd => sock'[c] = sock[c]
  BY <1>t, <1>1 DEF Send, TypeOK
<1>4. fd \in Clients =>
        /\ sock'[fd] # <<>>
        /\ sock[fd] = <<>> => sock'[fd][1] = m
        /\ sock[fd] # <<>> => sock'[fd][1] = sock[fd][1]
  <2> SUFFICES ASSUME fd \in Clients
               PROVE  /\ sock'[fd] # <<>>
                      /\ sock[fd] = <<>> => sock'[fd][1] = m
                      /\ sock[fd] # <<>> => sock'[fd][1] = sock[fd][1]
    OBVIOUS
  <2>1. sock[fd] \in Seq(Nat) /\ sock'[fd] = Append(sock[fd], m)
    BY <1>t, <1>1 DEF Send, TypeOK
  <2>q. QED BY <2>1
<1>5. BacklogInv'
  <2>1. \A i \in 1 .. Len(backlog) : backlog[i] \in Clients
    BY <1>t DEF TypeOK
  <2>q. QED BY <1>2, <1>3, <2>1 DEF GreetingInv, BacklogInv, Fresh
<1>6. ASSUME NEW c \in Clients PROVE BannerFirst(c)'
  <2>1. CASE c # fd
    BY <1>2, <1>3, <1>6, <2>1 DEF GreetingInv, BannerFirst, Fresh
  <2>2. CASE c = fd
    <3>1. conn[c] # "new"
      BY <1>6, <2>2 DEF GreetingInv, BacklogInv
    <3>2. got[c] = Nothing /\ sock[c] = <<>> => m = Banner
      BY <1>2, <1>6, <2>2 DEF GreetingInv, BannerFirst, Fresh
    <3>q. QED
      BY <1>2, <1>4, <1>6, <2>2, <3>1, <3>2 DEF GreetingInv, BannerFirst, Fresh
  <2>q. QED BY <2>1, <2>2
<1>q. QED BY <1>5, <1>6 DEF GreetingInv

\* What was read is remembered.
LEMMA ReadsKeepsGreeting ==
  ASSUME IInv, GreetingInv, Reads
  PROVE  GreetingInv'
<1>t. TypeOK
  BY DEF IInv
<1>1. PICK r \in Clients : Read(r)
  BY DEF Reads
<1>2. UNCHANGED <<captureVars, mainVars, backlog, conn>>
  BY <1>1 DEF Reads, Read
<1>3. /\ sock[r] # <<>> /\ got'[r] \in Nat
      /\ \A c \in Clients : c # r => sock'[c] = sock[c] /\ got'[c] = got[c]
  <2>1. sock[r] \in Seq(Nat) /\ sock[r] # <<>> /\ got'[r] = Head(sock[r])
    BY <1>t, <1>1 DEF Read, TypeOK
  <2>2. \A c \in Clients : c # r => sock'[c] = sock[c] /\ got'[c] = got[c]
    BY <1>t, <1>1 DEF Read, TypeOK
  <2>q. QED BY <2>1, <2>2
<1>4. ~Fresh(r) /\ ~Fresh(r)'
  BY <1>3 DEF Fresh, Nothing
<1>5. BacklogInv'
  <2>1. \A i \in 1 .. Len(backlog) : backlog[i] \in Clients
    BY <1>t DEF TypeOK
  <2>2. ASSUME NEW c \in Clients, Fresh(c) PROVE Fresh(c)'
    BY <1>3, <1>4, <2>2 DEF Fresh
  <2>3. \A i \in 1 .. Len(backlog) : Fresh(backlog[i])'
    BY <1>2, <2>1, <2>2 DEF GreetingInv, BacklogInv, Fresh
  <2>q. QED BY <1>2, <2>2, <2>3 DEF GreetingInv, BacklogInv
<1>6. ASSUME NEW c \in Clients PROVE BannerFirst(c)'
  <2>1. CASE c # r
    BY <1>2, <1>3, <1>6, <2>1 DEF GreetingInv, BannerFirst, Fresh, Greeted
  <2>2. CASE c = r
    BY <1>2, <1>3, <1>4, <1>6, <2>2 DEF GreetingInv, BannerFirst, Nothing
  <2>q. QED BY <2>1, <2>2
<1>q. QED BY <1>5, <1>6 DEF GreetingInv

-----------------------------------------------------------------------------

\* Before main() has created an instance there is no frame and no message.
LEMMA StreamInit == Init => StreamInv
<1> SUFFICES ASSUME Init PROVE StreamInv
  OBVIOUS
<1> USE DEF Init, CaptureInit, ServerInit
<1>1. SourceOrdered
  BY DEF SourceOrdered, NoFrame
<1>2. ASSUME NEW c \in Clients
      PROVE  ReceivedOrdered(c) /\ HeldIsNews(c) /\ BannerFirst(c)
  BY <1>2 DEF ReceivedOrdered, Ordered, HeldIsNews, Showing, BannerFirst,
     Greeted, Fresh, Nothing
<1>3. BacklogInv
  BY MainAssumption DEF BacklogInv
<1>q. QED BY <1>1, <1>2, <1>3 DEF StreamInv, OrderInv, GreetingInv

\* Every step keeps the order and the banner first.
LEMMA StreamStep == IInv /\ StreamInv /\ [Next]_vars => StreamInv'
<1> SUFFICES ASSUME IInv, StreamInv, [Next]_vars PROVE StreamInv'
  OBVIOUS
<1>1. GreetingInv'
  BY ServiceMoves, GoingOnKeepsGreeting, AcceptsKeepsGreeting,
     ConnectsKeepsGreeting, SendsKeepGreeting, ReadsKeepsGreeting DEF StreamInv
<1>q. QED BY <1>1, OrderPreserved DEF StreamInv

(* The invariant of the stream holds of every reachable state.             *)
THEOREM StreamInvariance == Spec => []StreamInv
BY StreamInit, StreamStep, Invariance, PTL DEF Spec

\* Two sequences in order, and each of the first before all of the second.
LEMMA OrderedConcat ==
  ASSUME NEW s \in Seq(Int), NEW t \in Seq(Int), Ordered(s), Ordered(t),
         \A i \in 1 .. Len(s), j \in 1 .. Len(t) : Precedes(s[i], t[j])
  PROVE  s \o t \in Seq(Int) /\ Ordered(s \o t)
<1>1. /\ s \o t \in Seq(Int) /\ Len(s \o t) = Len(s) + Len(t)
      /\ Len(s) \in Nat /\ Len(t) \in Nat
      /\ \A i \in 1 .. Len(s \o t) :
           \/ i \in 1 .. Len(s) /\ (s \o t)[i] = s[i]
           \/ i - Len(s) \in 1 .. Len(t) /\ (s \o t)[i] = t[i - Len(s)]
  OBVIOUS
<1>2. ASSUME NEW i \in 1 .. Len(s \o t), NEW j \in 1 .. Len(s \o t), i < j
      PROVE  Precedes((s \o t)[i], (s \o t)[j])
  <2>1. CASE j \in 1 .. Len(s) /\ (s \o t)[j] = s[j]
    <3>1. i \in 1 .. Len(s) /\ (s \o t)[i] = s[i]
      BY <1>1, <1>2, <2>1
    <3>q. QED BY <1>2, <2>1, <3>1 DEF Ordered
  <2>2. CASE j - Len(s) \in 1 .. Len(t) /\ (s \o t)[j] = t[j - Len(s)]
    <3>1. CASE i \in 1 .. Len(s) /\ (s \o t)[i] = s[i]
      BY <2>2, <3>1
    <3>2. CASE i - Len(s) \in 1 .. Len(t) /\ (s \o t)[i] = t[i - Len(s)]
      <4>1. i - Len(s) < j - Len(s)
        BY <1>1, <1>2
      <4>q. QED BY <2>2, <3>2, <4>1 DEF Ordered
    <3>q. QED BY <1>1, <1>2, <3>1, <3>2
  <2>q. QED BY <1>1, <1>2, <2>1, <2>2
<1>q. QED BY <1>1, <1>2 DEF Ordered

\* An element of a concatenation is an element of one of its parts.
LEMMA ConcatElement ==
  ASSUME NEW s \in Seq(Int), NEW t \in Seq(Int), NEW i \in 1 .. Len(s \o t)
  PROVE  \/ \E k \in 1 .. Len(s) : (s \o t)[i] = s[k]
         \/ \E k \in 1 .. Len(t) : (s \o t)[i] = t[k]
<1>1. /\ Len(s) \in Nat /\ Len(t) \in Nat
      /\ \/ i \in 1 .. Len(s) /\ (s \o t)[i] = s[i]
         \/ i - Len(s) \in 1 .. Len(t) /\ (s \o t)[i] = t[i - Len(s)]
  OBVIOUS
<1>q. QED BY <1>1

\* A client whose messages become more is the one being sent one.
LEMMA SentIsLast ==
  ASSUME TypeOK, NEW f \in Clients \cup {NoClient}, NEW m \in Nat, Send(f, m),
         NEW c \in Clients, Len(sock'[c]) > Len(sock[c])
  PROVE  sock'[c][Len(sock'[c])] = m
<1>1. sock \in [Clients -> Seq(Nat)] /\ sock' = [sock EXCEPT ![f] = Append(@, m)]
  BY DEF TypeOK, Send
<1>2. CASE c # f
  BY <1>1, <1>2
<1>3. CASE c = f
  BY <1>1, <1>3
<1>q. QED BY <1>2, <1>3

\* What a client has read, will read and may be sent is in order.
LEMMA StreamInOrder ==
  ASSUME IInv, StreamInv
  PROVE  StreamOrdered
<1>t. TypeOK
  BY DEF IInv
<1> SUFFICES ASSUME NEW c \in Clients
             PROVE  /\ \A i \in 1 .. Len(Stream(c)) - 1 : Precedes(Stream(c)[i], Stream(c)[i + 1])
                    /\ got[c] = Nothing /\ sock[c] # <<>> => Head(sock[c]) = Banner
  BY DEF StreamOrdered
<1> DEFINE shown == IF Showing THEN <<held>> ELSE <<>>
<1>a. ReceivedOrdered(c) /\ HeldIsNews(c) /\ SourceOrdered
  BY DEF StreamInv, OrderInv
<1>1. <<got[c]>> \in Seq(Int) /\ Ordered(<<got[c]>>)
  BY <1>t, StreamTypes DEF Ordered
<1>2. sock[c] \in Seq(Int) /\ Ordered(sock[c])
  BY <1>t, <1>a, StreamTypes DEF ReceivedOrdered
<1>3. shown \in Seq(Int) /\ Ordered(shown)
  BY <1>t, StreamTypes DEF Ordered
<1>4. queue \in Seq(Int) /\ Ordered(queue)
  BY <1>t, <1>a, StreamTypes DEF SourceOrdered, Ordered, Precedes
<1> DEFINE received == <<got[c]>> \o sock[c]
<1>5. received \in Seq(Int) /\ Ordered(received)
  <2>1. \A i \in 1 .. Len(<<got[c]>>), j \in 1 .. Len(sock[c]) :
          Precedes(<<got[c]>>[i], sock[c][j])
    BY <1>a DEF ReceivedOrdered
  <2>q. QED BY <1>1, <1>2, <2>1, OrderedConcat
<1>6. ASSUME NEW i \in 1 .. Len(received)
      PROVE  received[i] = got[c] \/ \E k \in 1 .. Len(sock[c]) : received[i] = sock[c][k]
  <2>1. \A k \in 1 .. Len(<<got[c]>>) : <<got[c]>>[k] = got[c]
    OBVIOUS
  <2>2. \/ \E k \in 1 .. Len(<<got[c]>>) : received[i] = <<got[c]>>[k]
        \/ \E k \in 1 .. Len(sock[c]) : received[i] = sock[c][k]
    BY <1>1, <1>2, <1>6, ConcatElement
  <2>q. QED BY <2>1, <2>2
<1> DEFINE sent == received \o shown
<1>7. sent \in Seq(Int) /\ Ordered(sent)
  <2>1. ASSUME NEW i \in 1 .. Len(received), NEW j \in 1 .. Len(shown)
        PROVE  Precedes(received[i], shown[j])
    <3>1. Showing /\ shown[j] = held
      OBVIOUS
    <3>q. QED BY <1>a, <1>6, <3>1 DEF HeldIsNews
  <2> HIDE DEF received, shown
  <2>q. QED BY <1>3, <1>5, <2>1, OrderedConcat
<1>8. ASSUME NEW i \in 1 .. Len(sent), NEW j \in 1 .. Len(queue)
      PROVE  Precedes(sent[i], queue[j])
  <2>1. CASE \E k \in 1 .. Len(received) : sent[i] = received[k]
    BY <1>a, <1>6, <1>8, <2>1 DEF ReceivedOrdered, Precedes
  <2>2. CASE \E k \in 1 .. Len(shown) : sent[i] = shown[k]
    <3>1. sent[i] = held
      BY <2>2
    <3>q. QED BY <1>a, <1>8, <3>1 DEF SourceOrdered, Precedes
  <2> HIDE DEF received, shown
  <2>q. QED BY <1>3, <1>5, <1>8, <2>1, <2>2, ConcatElement
<1>9. Stream(c) \in Seq(Int) /\ Ordered(Stream(c))
  <2>1. Stream(c) = sent \o queue
    BY DEF Stream, Showing
  <2> HIDE DEF sent
  <2>q. QED BY <1>4, <1>7, <1>8, <2>1, OrderedConcat
<1>10. \A i \in 1 .. Len(Stream(c)) - 1 : Precedes(Stream(c)[i], Stream(c)[i + 1])
  <2>1. ASSUME NEW i \in 1 .. Len(Stream(c)) - 1
        PROVE  i \in 1 .. Len(Stream(c)) /\ i + 1 \in 1 .. Len(Stream(c)) /\ i < i + 1
    BY <1>9
  <2>q. QED BY <1>9, <2>1 DEF Ordered
<1>11. got[c] = Nothing /\ sock[c] # <<>> => Head(sock[c]) = Banner
  BY <1>2 DEF StreamInv, GreetingInv, BannerFirst
<1>q. QED BY <1>10, <1>11

(* A client sees the banner once and then frames of ever newer screen      *)
(* contents, across skipping (minicap.cpp:472-494), frames replaced in the *)
(* queue, failed sends and reconnections, for any number of clients.       *)
THEOREM StreamsOrdered == Spec => []StreamOrdered
BY StreamInOrder, Invariance, StreamInvariance, PTL

(* Every frame sent is newer than all that was sent before, to whichever   *)
(* client, and every frame read newer than the last one read               *)
(* (minicap.cpp:472-530), for any number of clients.                       *)
THEOREM NewsOnly == Spec => FramesAreNews
<1>1. ASSUME IInv, StreamInv, [Next]_vars, NEW c \in Clients
      PROVE  SendsNews(c) /\ ReadsNews(c)
  <2>t. TypeOK
    BY <1>1 DEF IInv
  <2>1. CASE Quiet \/ Consumes \/ Renders
    <3>1. UNCHANGED <<sock, got>>
      BY <2>1 DEF Quiet, Consumes, Renders
    <3>q. QED BY <2>t, <3>1, StreamTypes DEF SendsNews, ReadsNews
  <2>2. CASE Greets
    <3>1. Len(sock'[c]) > Len(sock[c]) => sock'[c][Len(sock'[c])] = Banner
      BY <2>t, <2>2, SentIsLast DEF Greets, Banner, TypeOK
    <3>q. QED BY <2>2, <3>1 DEF Greets, Send, SendsNews, ReadsNews
  <2>3. CASE Shows
    <3>1. Len(sock'[c]) > Len(sock[c]) => sock'[c][Len(sock'[c])] = held
      BY <2>t, <2>3, SentIsLast DEF Shows, TypeOK
    <3>2. \A d \in Clients : HeldIsNews(d)
      BY <1>1 DEF StreamInv, OrderInv
    <3>3. Showing /\ held <= screen
      BY <1>1, <2>3 DEF Shows, Showing, StreamInv, OrderInv, SourceOrdered
    <3>4. \A d \in Clients : DOMAIN sock[d] = 1 .. Len(sock[d])
      <4>1. \A d \in Clients : sock[d] \in Seq(Nat)
        BY <2>t, StreamTypes
      <4>q. QED BY <4>1
    <3>5. \A d \in Clients :
            /\ Precedes(got[d], held)
            /\ \A i \in DOMAIN sock[d] : Precedes(sock[d][i], held)
      BY <3>2, <3>3, <3>4 DEF HeldIsNews
    <3>6. SendsNews(c)
      <4> DEFINE sent == sock'[c][Len(sock'[c])]
      <4>1. Len(sock'[c]) > Len(sock[c]) => sent = held
        BY <3>1
      <4> HIDE DEF sent
      <4>2. Len(sock'[c]) > Len(sock[c]) =>
              /\ sent <= screen
              /\ \A d \in Clients :
                   /\ Precedes(got[d], sent)
                   /\ \A i \in DOMAIN sock[d] : Precedes(sock[d][i], sent)
        BY <3>3, <3>5, <4>1
      <4>q. QED BY <4>2 DEF sent, SendsNews
    <3>7. ReadsNews(c)
      BY <2>3 DEF Shows, Send, ReadsNews
    <3>q. QED BY <3>6, <3>7
  <2>4. CASE Reads
    <3>1. PICK r \in Clients : Read(r)
      BY <2>4 DEF Reads
    <3>2. sock \in [Clients -> Seq(Nat)] /\ got \in [Clients -> Nat \cup {Nothing}]
      BY <2>t DEF TypeOK
    <3>3. ~(Len(sock'[c]) > Len(sock[c]))
      BY <3>1, <3>2 DEF Read
    <3>4. CASE c # r
      BY <3>1, <3>2, <3>3, <3>4 DEF Read, SendsNews, ReadsNews
    <3>5. CASE c = r
      <4>1. got'[c] = sock[c][1] /\ 1 \in 1 .. Len(sock[c])
        BY <3>1, <3>2, <3>5 DEF Read
      <4>2. Precedes(got[c], got'[c]) /\ got'[c] <= screen
        BY <1>1, <4>1 DEF StreamInv, OrderInv, ReceivedOrdered
      <4>3. got[c] = Nothing => got'[c] = Banner
        BY <1>1, <4>1 DEF StreamInv, GreetingInv, BannerFirst
      <4>q. QED BY <3>3, <4>2, <4>3 DEF Precedes, SendsNews, ReadsNews
    <3>q. QED BY <3>4, <3>5
  <2>q. QED BY <1>1, <2>1, <2>2, <2>3, <2>4, StreamMoves
<1>2. IInv /\ StreamInv /\ [Next]_vars =>
        [\A c \in Clients : SendsNews(c) /\ ReadsNews(c)]_vars
  BY <1>1
<1>q. QED BY <1>2, Invariance, StreamInvariance, PTL DEF Spec, FramesAreNews

\* The statements from the release of the frame in progress to the exit.
StopPath == mStopped /\ pc \in {"release", "inner", "close", "outer", "free", "exited"}

\* Once a handled signal has met one of them, main() only goes on to the next.
LEMMA StopPathStep == StopPath /\ [Next]_vars => StopPath'
<1> SUFFICES ASSUME StopPath, [Next]_vars PROVE StopPath'
  OBVIOUS
<1> USE DEF StopPath
<1>1. CASE MainStep
  BY <1>1 DEF MainStep, StartUp, Create, Apply, Reserve, StartServer,
     AcceptLoop, CheckStoppedBeforeAccept, Accept, AcceptOnNothing, SendBanner,
     WaitForFrame, CheckStoppedBeforeWait, WaitHead, WaitTake, WaitTimeout,
     FrameLoop, SkipReport, SkipConsume, SkipRelease, Consume, Encode,
     SendFrame, ReleaseSent, Close, ReleaseConsumedFrame, OnFrameAvailable,
     Ending, WriteScreenshot, Free, FreeCapture, Disaster, DisasterFree, Fail
<1>2. CASE Environment
  BY <1>2 DEF Environment, SignalHandled, SignalInterrupts, Stop,
     BlockedInAccept, BlockedInSend, AcceptFails, Binder, FrameProxyCalls,
     OnFrameAvailable, Composer, ScreenChanges, ComposerQueues,
     ComposerReplaces, ClientConnects, ClientLeaves, ClientReads
<1>3. CASE Exited \/ UNCHANGED vars
  BY <1>3 DEF Exited, vars
<1>q. QED BY <1>1, <1>2, <1>3 DEF Next

(* Once a signal has been handled, at most the frame in progress is sent   *)
(* (minicap.cpp:198-202, 472 and 516).                                     *)
THEOREM StopEndsStream == Spec => NoFrameAfterStop
<1>1. mStopped /\ pc = "release" => StopPath
  BY DEF StopPath
<1>2. StopPath => pc # "send"
  BY DEF StopPath
<1>q. QED BY <1>1, <1>2, StopPathStep, PTL DEF Spec, NoFrameAfterStop

=============================================================================
