---------------------- MODULE VirtualDisplayRefinement ----------------------
(***************************************************************************)
(* Proof that the virtual display implements CaptureContract, step by      *)
(* step: making one publishes it, its frames are the contract's, and       *)
(* every other call is a step the contract allows or does not see.         *)
(***************************************************************************)
EXTENDS VirtualDisplayProofs, SequenceTheorems

USE DEF deviceVars, bufferVars, refVars, composerVars, infoVars, flowVars, vars, waiterVars

-----------------------------------------------------------------------------
(* The calls implement the contract.                                       *)

\* What the contract sees of the display.
ScreensIn(q) == [i \in DOMAIN q |-> q[i].screen]
Screens == ScreensIn(queue)
Held == IF mHaveBuffer THEN mBuffer.screen ELSE NoFrame.screen
Mirrors == Rendering /\ composed = Parts

LEMMA ScreensOf ==
  ASSUME NEW q \in Seq(Buffers)
  PROVE  /\ ScreensIn(q) \in Seq(0 .. MaxScreen) /\ Len(ScreensIn(q)) = Len(q)
         /\ \A i \in 1 .. Len(q) : ScreensIn(q)[i] = q[i].screen
         /\ ScreensIn(q) = <<>> <=> q = <<>>
<1>1. Len(q) \in Nat /\ DOMAIN q = 1 .. Len(q) /\ \A i \in 1 .. Len(q) : q[i] \in Buffers
  OBVIOUS
<1>2. \A i \in 1 .. Len(q) : q[i].screen \in 0 .. MaxScreen
  BY <1>1 DEF Buffers
<1> DEFINE s == ScreensIn(q)
<1>3. s = [i \in 1 .. Len(q) |-> q[i].screen]
  BY <1>1 DEF ScreensIn
<1>4. s \in Seq(0 .. MaxScreen) /\ Len(s) = Len(q)
  BY <1>1, <1>2, <1>3
<1>5. \A i \in 1 .. Len(q) : s[i] = q[i].screen
  BY <1>3
<1> HIDE DEF s
<1>6. s = <<>> <=> q = <<>>
  BY <1>1, <1>4
<1>q. QED BY <1>4, <1>5, <1>6 DEF s

\* The oldest frame is taken.
LEMMA ScreensTaken ==
  ASSUME NEW q \in Seq(Buffers), q # <<>>
  PROVE  /\ Head(ScreensIn(q)) = Head(q).screen
         /\ ScreensIn(Tail(q)) = Tail(ScreensIn(q))
<1>1. /\ Tail(q) \in Seq(Buffers) /\ Len(Tail(q)) = Len(q) - 1 /\ Len(q) \in Nat \ {0}
      /\ Head(q) = q[1] /\ \A i \in 1 .. Len(q) - 1 : Tail(q)[i] = q[i + 1]
  OBVIOUS
<1> DEFINE s == ScreensIn(q)
           t == ScreensIn(Tail(q))
<1>2. /\ s \in Seq(0 .. MaxScreen) /\ Len(s) = Len(q)
      /\ \A i \in 1 .. Len(q) : s[i] = q[i].screen
  BY ScreensOf
<1>3. /\ t \in Seq(0 .. MaxScreen) /\ Len(t) = Len(q) - 1
      /\ \A i \in 1 .. Len(q) - 1 : t[i] = q[i + 1].screen
  <2>1. /\ t \in Seq(0 .. MaxScreen) /\ Len(t) = Len(Tail(q))
        /\ \A i \in 1 .. Len(Tail(q)) : t[i] = Tail(q)[i].screen
    BY <1>1, ScreensOf
  <2> HIDE DEF t
  <2>q. QED BY <1>1, <2>1
<1> HIDE DEF s, t
<1>4. /\ Tail(s) \in Seq(0 .. MaxScreen) /\ Len(Tail(s)) = Len(q) - 1
      /\ Head(s) = s[1] /\ \A i \in 1 .. Len(q) - 1 : Tail(s)[i] = s[i + 1]
  BY <1>1, <1>2
<1>5. \A i \in 1 .. Len(q) - 1 : Tail(s)[i] = t[i]
  <2> SUFFICES ASSUME NEW i \in 1 .. Len(q) - 1
               PROVE  Tail(s)[i] = t[i]
    OBVIOUS
  <2>1. i + 1 \in 1 .. Len(q)
    BY <1>1
  <2>q. QED BY <1>2, <1>3, <1>4, <2>1
<1>6. Tail(s) = t
  BY <1>3, <1>4, <1>5, SeqEqual
<1>7. Head(s) = Head(q).screen
  BY <1>1, <1>2, <1>4
<1>q. QED BY <1>6, <1>7 DEF s, t

\* A frame is queued, or replaces the newest.
LEMMA ScreensQueued ==
  ASSUME NEW q \in Seq(Buffers), NEW b \in Buffers
  PROVE  /\ ScreensIn(Append(q, b)) = Append(ScreensIn(q), b.screen)
         /\ q # <<>> => ScreensIn([q EXCEPT ![Len(q)] = b])
                          = [ScreensIn(q) EXCEPT ![Len(ScreensIn(q))] = b.screen]
<1> DEFINE s == ScreensIn(q)
           c == b.screen
<1>0. c \in 0 .. MaxScreen
  BY DEF Buffers
<1>1. /\ s \in Seq(0 .. MaxScreen) /\ Len(s) = Len(q) /\ c \in 0 .. MaxScreen
      /\ \A i \in 1 .. Len(q) : s[i] = q[i].screen
      /\ Len(q) \in Nat
  <2> HIDE DEF c
  <2>q. QED BY <1>0, ScreensOf
<1>2. ScreensIn(Append(q, b)) = Append(s, c)
  <2> DEFINE p == Append(q, b)
             t == ScreensIn(p)
  <2>1. /\ p \in Seq(Buffers) /\ Len(p) = Len(q) + 1
        /\ \A i \in 1 .. Len(q) + 1 : p[i] = IF i <= Len(q) THEN q[i] ELSE b
    OBVIOUS
  <2> HIDE DEF p
  <2>2. /\ t \in Seq(0 .. MaxScreen) /\ Len(t) = Len(q) + 1
        /\ \A i \in 1 .. Len(q) + 1 : t[i] = p[i].screen
    BY <2>1, ScreensOf
  <2> HIDE DEF t, s, c
  <2>3. /\ Append(s, c) \in Seq(0 .. MaxScreen) /\ Len(Append(s, c)) = Len(q) + 1
        /\ \A i \in 1 .. Len(q) + 1 : Append(s, c)[i] = IF i <= Len(q) THEN s[i] ELSE c
    BY <1>1
  <2>4. \A i \in 1 .. Len(q) + 1 : t[i] = Append(s, c)[i]
    <3> SUFFICES ASSUME NEW i \in 1 .. Len(q) + 1
                 PROVE  t[i] = Append(s, c)[i]
      OBVIOUS
    <3>1. CASE i <= Len(q)
      BY <1>1, <2>1, <2>2, <2>3, <3>1
    <3>2. CASE ~(i <= Len(q))
      BY <2>1, <2>2, <2>3, <3>2 DEF c
    <3>q. QED BY <3>1, <3>2
  <2>5. t = Append(s, c)
    BY <2>2, <2>3, <2>4, SeqEqual
  <2>q. QED BY <2>5 DEF t, p
<1>3. ASSUME q # <<>>
      PROVE  ScreensIn([q EXCEPT ![Len(q)] = b]) = [s EXCEPT ![Len(s)] = c]
  <2> DEFINE p == [q EXCEPT ![Len(q)] = b]
             r == [s EXCEPT ![Len(s)] = c]
             t == ScreensIn(p)
  <2>0. Len(q) \in 1 .. Len(q)
    BY <1>1, <1>3
  <2>1. /\ p \in Seq(Buffers) /\ Len(p) = Len(q)
        /\ \A i \in 1 .. Len(q) : p[i] = IF i = Len(q) THEN b ELSE q[i]
    BY <2>0, ExceptSeq
  <2> HIDE DEF p
  <2>2. /\ t \in Seq(0 .. MaxScreen) /\ Len(t) = Len(q)
        /\ \A i \in 1 .. Len(q) : t[i] = p[i].screen
    BY <2>1, ScreensOf
  <2> HIDE DEF t, s, c
  <2>3. /\ r \in Seq(0 .. MaxScreen) /\ Len(r) = Len(q)
        /\ \A i \in 1 .. Len(q) : r[i] = IF i = Len(q) THEN c ELSE s[i]
    BY <1>1, <2>0, ExceptSeq
  <2> HIDE DEF r
  <2>4. \A i \in 1 .. Len(q) : t[i] = r[i]
    <3> SUFFICES ASSUME NEW i \in 1 .. Len(q)
                 PROVE  t[i] = r[i]
      OBVIOUS
    <3>1. CASE i = Len(q)
      BY <2>1, <2>2, <2>3, <3>1 DEF c
    <3>2. CASE i # Len(q)
      BY <1>1, <2>1, <2>2, <2>3, <3>2
    <3>q. QED BY <3>1, <3>2
  <2>5. t = r
    BY <2>2, <2>3, <2>4, SeqEqual
  <2>q. QED BY <2>5 DEF t, p, r
<1>q. QED BY <1>2, <1>3

\* A step the contract does not see.
LEMMA Unseen ==
  ASSUME UNCHANGED <<waiterVars, screen, queue, notifying, mBuffer, mHaveBuffer>>,
         Mirrors' <=> Mirrors
  PROVE  UNCHANGED Contract!captureVars
BY DEF Contract!captureVars, Contract!sourceVars, Contract!waiterVars, Mirrors

\* The display no longer mirrors the screen.
LEMMA Stops ==
  ASSUME UNCHANGED <<waiterVars, screen, queue, notifying, mBuffer, mHaveBuffer>>,
         ~Mirrors'
  PROVE  Contract!ContractNext
BY DEF Contract!ContractNext, Contract!StopMirroring, Contract!waiterVars, Mirrors

\* Making and destroying displays.
LEMMA CallsImplement ==
  ASSUME DisplayInv, Creating \/ Destroying
  PROVE  Contract!ContractNext \/ UNCHANGED Contract!captureVars
<1>0. sdk \in Sdks /\ ProgramInv /\ TypeOK /\ CallsInv
  BY DEF DisplayInv, TypeOK
<1>1. CASE \/ initCheck \/ Fails("initCheck") \/ setDefaultBufferSize \/ setDefaultBufferFormat
           \/ setListener \/ openTransaction \/ findSetDisplaySurface \/ markRunning
           \/ Sets("setSurface", "surface") \/ Sets("setProjection", "projection")
           \/ Sets("setLayerStack", "layerStack") \/ dropQueue \/ dropProxy \/ markStopped
  <2>1. UNCHANGED <<deviceVars, bufferVars, mVirtualDisplay, mConsumer, composed, abandoned>>
    BY <1>1 DEF initCheck, Fails, setDefaultBufferSize, setDefaultBufferFormat, setListener,
       openTransaction, findSetDisplaySurface, markRunning, Sets, dropQueue, dropProxy,
       markStopped
  <2>q. QED BY <2>1, Unseen DEF Mirrors, Rendering
<1>2. CASE createDisplay
  <2>1. /\ Calls("createDisplay") /\ composed' = {}
        /\ UNCHANGED <<deviceVars, bufferVars>>
    BY <1>2 DEF createDisplay
  <2>q. QED BY <2>1, Stops DEF Mirrors, Rendering
<1>3. CASE takeQueue \/ newConsumer
  <2>1. PICK c \in {"takeQueue", "newConsumer"} : Calls(c)
    BY <1>3 DEF takeQueue, newConsumer
  <2>2. c \in CallNames \ TearingDown(19)
        /\ c \notin {"closeTransaction", "applyTransaction", "markRunning"}
    BY <2>1 DEF CallNames, TearingDown
  <2>3. queue = <<>> /\ composed = {}
    BY <2>1, <2>2, EarlyEmpty
  <2>4. /\ queue' = queue \/ queue' = <<>>
        /\ UNCHANGED <<bufferVars, composed, screen, notifying, waiterVars>>
    BY <1>3 DEF takeQueue, newConsumer, FreshQueue, SameQueue
  <2>q. QED BY <2>3, <2>4, Unseen DEF Mirrors, Rendering
<1>4. CASE closeTransaction \/ applyTransaction
  <2>1. PICK c \in {"closeTransaction", "applyTransaction"} : Calls(c)
    BY <1>4 DEF closeTransaction, applyTransaction
  <2>2. UNCHANGED <<stage, deviceVars, bufferVars>>
    BY <1>4 DEF closeTransaction, applyTransaction
  <2>3. composed = {}
    BY <1>0, <2>1, <2>2, Committing DEF CallsInv, UpInv
  <2>4. ~Mirrors /\ Mirrors' \in BOOLEAN
    BY <2>3 DEF Mirrors, Rendering
  <2>5. Contract!Publish
    BY <2>2, <2>4 DEF Contract!Publish, Contract!ApplyConfigChanges, Contract!IsVirtual,
       Contract!waiterVars, Mirrors
  <2>q. QED BY <2>5 DEF Contract!ContractNext
<1>5. CASE destroyDisplay \/ dropDisplay
  <2>1. composed' = {} /\ UNCHANGED <<deviceVars, bufferVars>>
    BY <1>5 DEF destroyDisplay, dropDisplay
  <2>q. QED BY <2>1, Stops DEF Mirrors, Rendering
<1>6. CASE unlock
  <2>1. /\ mHaveBuffer' = FALSE
        /\ UNCHANGED <<mBuffer, deviceVars, refVars, composerVars, flowVars>>
    BY <1>6 DEF unlock
  <2>2. Contract!ReleaseConsumedFrame
    BY <2>1 DEF Contract!ReleaseConsumedFrame, Contract!IsVirtual, Contract!NoFrame,
       Contract!waiterVars, NoFrame, Rendering
  <2>q. QED BY <2>2 DEF Contract!ContractNext
<1>7. CASE dropConsumer
  <2>1. /\ Calls("dropConsumer") /\ mConsumer' = FALSE /\ queue' = <<>>
        /\ UNCHANGED <<bufferVars, screen, notifying, waiterVars>>
    BY <1>7 DEF dropConsumer
  <2>2. "dropConsumer" \in TearingDown(19)
    BY DEF TearingDown
  <2>3. ~Left("unlock") /\ Down
    BY <1>0, <2>1, <2>2, Tearing DEF TearingDown, Place
  <2>4. ~mHaveBuffer /\ ~mHaveBuffer'
    BY <1>0, <2>1, <2>3 DEF CallsInv, DownInv
  <2>5. [i \in DOMAIN queue' |-> queue'[i].screen] = <<>>
    BY <2>1
  <2>6. Contract!FreeCapture
    BY <2>1, <2>4, <2>5 DEF Contract!FreeCapture, Contract!NoFrame, Contract!waiterVars,
       NoFrame, Rendering
  <2>q. QED BY <2>6 DEF Contract!ContractNext
<1>q. QED BY <1>1, <1>2, <1>3, <1>4, <1>5, <1>6, <1>7 DEF Creating, Destroying

\* What the caller asks for.
LEMMA CallerImplements ==
  ASSUME DisplayInv, Caller
  PROVE  Contract!ContractNext \/ UNCHANGED Contract!captureVars
<1>0. TypeOK
  BY DEF DisplayInv
<1>1. CASE setInfo \/ applyConfigChanges \/ release
  <2>1. UNCHANGED <<deviceVars, bufferVars, refVars, composerVars>>
    BY <1>1 DEF setInfo, applyConfigChanges, release
  <2>q. QED BY <2>1, Unseen DEF Mirrors, Rendering
<1>2. CASE waitForFrame
  <2>1. /\ TakeFrame(mPendingFrames)
        /\ UNCHANGED <<screen, queue, notifying, bufferVars, refVars, composerVars>>
    BY <1>2 DEF waitForFrame
  <2>2. Contract!WaiterTakes
    BY <2>1 DEF Contract!WaiterTakes, Contract!TakeFrame, TakeFrame, Contract!sourceVars,
       Rendering
  <2>q. QED BY <2>2 DEF Contract!ContractNext
<1>3. CASE releaseConsumedFrame
  <2>1. /\ mHaveBuffer' = FALSE
        /\ UNCHANGED <<mBuffer, deviceVars, refVars, composerVars, flowVars>>
    BY <1>3 DEF releaseConsumedFrame
  <2>2. Contract!ReleaseConsumedFrame
    BY <2>1 DEF Contract!ReleaseConsumedFrame, Contract!IsVirtual, Contract!NoFrame,
       Contract!waiterVars, NoFrame, Rendering
  <2>q. QED BY <2>2 DEF Contract!ContractNext
<1>4. CASE consumePendingFrame
  <2>1. /\ ~mHaveBuffer /\ queue # <<>> /\ mBuffer' = Head(queue) /\ queue' = Tail(queue)
        /\ mHaveBuffer' = TRUE
        /\ UNCHANGED <<screen, notifying, waiterVars, refVars, composerVars>>
    BY <1>4 DEF consumePendingFrame
  <2>2. queue \in Seq(Buffers)
    BY <1>0 DEF TypeOK
  <2>3. Screens # <<>> /\ Head(Screens) = mBuffer'.screen
    BY <2>1, <2>2, ScreensOf, ScreensTaken DEF Screens
  <2>4. Screens' = Tail(Screens)
    BY <2>1, <2>2, ScreensTaken DEF Screens
  <2>5. Mirrors' <=> Mirrors
    BY <2>1 DEF Mirrors, Rendering
  <2>6. Contract!HandOut
    BY <2>1, <2>3, <2>4, <2>5 DEF Contract!HandOut, Contract!ConsumeFrame, Contract!IsVirtual,
       Contract!NoFrame, Contract!waiterVars, NoFrame, Screens, ScreensIn, Mirrors
  <2>q. QED BY <2>6 DEF Contract!ContractNext
<1>q. QED BY <1>1, <1>2, <1>3, <1>4 DEF Caller

\* Frames that arrive and are announced.
LEMMA FramesImplement ==
  ASSUME DisplayInv, Composer \/ FrameProxyCalls
  PROVE  Contract!ContractNext
<1>0. TypeOK /\ CallsInv
  BY DEF DisplayInv
<1>1. CASE FrameProxyCalls
  <2>1. /\ notifying > 0 /\ notifying' = notifying - 1 /\ OnFrameAvailable
        /\ UNCHANGED <<screen, queue, bufferVars, refVars, composerVars>>
    BY <1>1 DEF FrameProxyCalls
  <2>2. Contract!FrameProxyCalls
    BY <2>1 DEF Contract!FrameProxyCalls, Contract!OnFrameAvailable, OnFrameAvailable,
       Rendering
  <2>q. QED BY <2>2 DEF Contract!ContractNext
<1>2. CASE Composer
  <2>0. /\ UNCHANGED <<waiterVars, bufferVars, refVars, composerVars>>
        /\ screen < MaxScreen /\ screen' = screen + 1
        /\ ScreenChanges \/ ComposerQueues \/ ComposerReplaces
    BY <1>2 DEF Composer, ScreenChanges, ComposerQueues, ComposerReplaces
  <2>1. (Mirrors' <=> Mirrors) /\ (Rendering => Mirrors /\ mFrameProxy) /\ Held' = Held
    BY <1>0, <2>0 DEF Mirrors, Rendering, CallsInv, RenderingInv, Held
  <2>2. /\ queue \in Seq(Buffers) /\ Len(Screens) = Len(queue)
        /\ Screens = <<>> <=> queue = <<>>
    BY <1>0, ScreensOf DEF TypeOK, Screens
  <2>b. Buffer(screen') \in Buffers /\ Buffer(screen').screen = screen'
    <3>1. screen' \in 0 .. MaxScreen /\ options \in BuffersOptions
      BY <1>0, <2>0, DisplayAssumption DEF TypeOK
    <3>q. QED BY <3>1, BufferType DEF Buffer
  <2>3. CASE ScreenChanges
    <3>1. UNCHANGED <<queue, notifying>> /\ (Rendering => Len(queue) = MaxQueued)
      BY <2>3 DEF ScreenChanges
    <3>2. Mirrors => Len(Screens) = MaxQueued
      BY <2>2, <3>1 DEF Mirrors
    <3>3. UNCHANGED Screens
      BY <3>1 DEF Screens, ScreensIn
    <3>4. Contract!ScreenChanges
      BY <2>0, <2>1, <3>1, <3>2, <3>3 DEF Contract!ScreenChanges, Contract!waiterVars,
         Mirrors
    <3>q. QED BY <3>4 DEF Contract!ContractNext
  <2>4. CASE ComposerQueues
    <3>1. /\ Rendering /\ Len(queue) < MaxQueued /\ queue' = Append(queue, Buffer(screen'))
          /\ notifying' = notifying + 1
      BY <2>1, <2>4 DEF ComposerQueues
    <3>2. Screens' = Append(Screens, screen')
      BY <2>2, <2>b, <3>1, ScreensQueued DEF Screens
    <3>3. Contract!ComposerQueues
      BY <2>0, <2>1, <2>2, <3>1, <3>2 DEF Contract!ComposerQueues, Contract!IsVirtual,
         Contract!waiterVars, Mirrors, Screens, ScreensIn
    <3>q. QED BY <3>3 DEF Contract!ContractNext
  <2>5. CASE ComposerReplaces
    <3>1. /\ Rendering /\ queue # <<>> /\ notifying' = notifying
          /\ queue' = [queue EXCEPT ![Len(queue)] = Buffer(screen')]
      BY <2>5 DEF ComposerReplaces
    <3>2. Screens' = [Screens EXCEPT ![Len(Screens)] = screen']
      BY <2>2, <2>b, <3>1, ScreensQueued DEF Screens
    <3>3. Contract!ComposerReplaces
      BY <2>0, <2>1, <2>2, <3>1, <3>2 DEF Contract!ComposerReplaces, Contract!IsVirtual,
         Contract!waiterVars, Mirrors, Screens, ScreensIn
    <3>q. QED BY <3>3 DEF Contract!ContractNext
  <2>q. QED BY <2>0, <2>3, <2>4, <2>5
<1>q. QED BY <1>1, <1>2

(* Every implementation's sequence of calls, with everything the composer  *)
(* and the binder threads do in between, implements the contract that      *)
(* main() relies on (CaptureContract): the display is published at one     *)
(* instant, every frame is announced once, handed out in order and never   *)
(* discarded while it can be asked for.                                    *)
THEOREM CallsImplementContract == Spec => ImplementsContract
<1>1. Init => Contract!CaptureInit
  BY DEF Init, WaiterInit, Contract!CaptureInit, Contract!WaiterInit, Contract!NoFrame, NoFrame,
     Rendering
<1>2. DisplayInv /\ [Next]_vars => [Contract!ContractNext]_(Contract!captureVars)
  <2> SUFFICES ASSUME DisplayInv, [Next]_vars
               PROVE  Contract!ContractNext \/ UNCHANGED Contract!captureVars
    OBVIOUS
  <2>1. CASE Next
    BY <2>1, CallsImplement, CallerImplements, FramesImplement DEF Next
  <2>2. CASE UNCHANGED vars
    BY <2>2, Unseen DEF Mirrors, Rendering
  <2>q. QED BY <2>1, <2>2
<1>q. QED BY <1>1, <1>2, DisplayInvariance, PTL DEF Spec, ImplementsContract,
      Contract!ContractSpec

=============================================================================
