------------------------ MODULE VirtualDisplayProofs ------------------------
(***************************************************************************)
(* Proofs about the virtual display, for every implementation, every size  *)
(* and any number of configurations: the invariant of                      *)
(* VirtualDisplayInvariant is inductive, and what follows from it.         *)
(***************************************************************************)
EXTENDS VirtualDisplayCalls

USE DEF deviceVars, bufferVars, refVars, composerVars, infoVars, flowVars, vars

-----------------------------------------------------------------------------
(* The program.                                                            *)

LEMMA BuildingKeepsProgram ==
  ASSUME ProgramInv, Creating
  PROVE  ProgramInv' /\ UNCHANGED sdk
<1>1. CASE markRunning
  BY <1>1, LastCall, NoCallsLeft DEF markRunning
<1>2. ASSUME NEW c, Fails(c) PROVE ProgramInv' /\ UNCHANGED sdk
  BY <1>2, NoCallsLeft DEF Fails
<1>3. ASSUME NEW c, Calls(c), UNCHANGED <<sdk, stage>>, c # "markRunning", c # "markStopped"
      PROVE  ProgramInv'
  BY <1>3, CallLeaves
<1>4. CASE initCheck \/ createDisplay \/ takeQueue \/ newConsumer
  BY <1>3, <1>4 DEF initCheck, createDisplay, takeQueue, newConsumer
<1>5. CASE setDefaultBufferSize \/ setDefaultBufferFormat \/ setListener \/ openTransaction
  BY <1>3, <1>5 DEF setDefaultBufferSize, setDefaultBufferFormat, setListener, openTransaction
<1>6. CASE findSetDisplaySurface
  BY <1>2, <1>3, <1>6 DEF findSetDisplaySurface
<1>7. CASE Sets("setSurface", "surface") \/ Sets("setProjection", "projection")
             \/ Sets("setLayerStack", "layerStack")
  BY <1>3, <1>7 DEF Sets
<1>8. CASE closeTransaction \/ applyTransaction
  BY <1>3, <1>8 DEF closeTransaction, applyTransaction
<1>q. QED BY <1>1, <1>2, <1>4, <1>5, <1>6, <1>7, <1>8 DEF Creating

LEMMA DestroyingKeepsProgram ==
  ASSUME ProgramInv, Destroying
  PROVE  ProgramInv' /\ UNCHANGED sdk
<1>1. CASE markStopped
  <2>1. CASE stage = "freeing"
    BY <1>1, <2>1, LastCall, NoCallsLeft DEF markStopped
  <2>2. CASE stage # "freeing"
    BY <1>1, <2>2, CallMade, CallLeaves DEF markStopped
  <2>q. QED BY <2>1, <2>2
<1>2. ASSUME NEW c, Calls(c), UNCHANGED <<sdk, stage>>, c # "markRunning", c # "markStopped"
      PROVE  ProgramInv'
  BY <1>2, CallLeaves
<1>3. CASE destroyDisplay \/ unlock \/ dropQueue \/ dropConsumer \/ dropProxy \/ dropDisplay
  BY <1>2, <1>3 DEF destroyDisplay, unlock, dropQueue, dropConsumer, dropProxy, dropDisplay
<1>q. QED BY <1>1, <1>3 DEF Destroying

\* An operation that begins has all of its calls to make.
LEMMA ApplyBegins ==
  ASSUME sdk \in Sdks, applyConfigChanges
  PROVE  /\ ProgramInv' /\ UNCHANGED sdk
         /\ \A x : Left(x)' <=>
              x \in (IF mHaveRunningDisplay THEN TearingDown(sdk) ELSE {}) \cup BuildingUp(sdk)
<1>1. Holds(sdk, createVirtualDisplay(sdk), BuildingUp(sdk))
  BY CreateCalls
<1>2. CASE mHaveRunningDisplay
  <2>1. Holds(sdk, destroyVirtualDisplay(sdk), TearingDown(sdk))
    BY DestroyCalls
  <2>2. \A x \in TearingDown(sdk), y \in BuildingUp(sdk) : Place(sdk, x) < Place(sdk, y)
    BY Places
  <2>3. Holds(sdk, destroyVirtualDisplay(sdk) \o createVirtualDisplay(sdk),
              TearingDown(sdk) \cup BuildingUp(sdk))
    BY <1>1, <2>1, <2>2, JoinedHolds
  <2>4. /\ sdk' = sdk /\ stage' = "applying"
        /\ program' = destroyVirtualDisplay(sdk) \o createVirtualDisplay(sdk)
    BY <1>2 DEF applyConfigChanges
  <2>q. QED BY <1>2, <2>3, <2>4, AllCallsLeft
<1>3. CASE ~mHaveRunningDisplay
  <2>1. <<>> \o createVirtualDisplay(sdk) = createVirtualDisplay(sdk)
    BY <1>1 DEF Holds
  <2>2. /\ sdk' = sdk /\ stage' = "applying"
        /\ program' = createVirtualDisplay(sdk)
    BY <1>3, <2>1 DEF applyConfigChanges
  <2>q. QED BY <1>1, <1>3, <2>2, AllCallsLeft
<1>q. QED BY <1>2, <1>3

LEMMA ReleaseBegins ==
  ASSUME sdk \in Sdks, release
  PROVE  ProgramInv' /\ UNCHANGED sdk /\ \A x : Left(x)' <=> x \in TearingDown(sdk)
<1>1. Holds(sdk, destroyVirtualDisplay(sdk), TearingDown(sdk))
  BY DestroyCalls
<1>2. sdk' = sdk /\ stage' = "freeing" /\ program' = destroyVirtualDisplay(sdk)
  BY DEF release
<1>q. QED BY <1>1, <1>2, AllCallsLeft

\* The other steps leave the program alone.
LEMMA QuietProgram ==
  ASSUME ProgramInv, UNCHANGED <<sdk, stage, program>>
  PROVE  ProgramInv' /\ \A x : Left(x)' <=> Left(x)
BY DEF ProgramInv, Left, Operation

Quiet ==
  setInfo \/ waitForFrame \/ consumePendingFrame \/ releaseConsumedFrame
    \/ Composer \/ FrameProxyCalls

LEMMA QuietSteps ==
  ASSUME Quiet
  PROVE  UNCHANGED <<sdk, found, stage, applies, applied, mHaveRunningDisplay, program,
                     refVars, composerVars>>
BY DEF Quiet, setInfo, waitForFrame, consumePendingFrame, releaseConsumedFrame, Composer,
   FrameProxyCalls

LEMMA ProgramNext ==
  ASSUME sdk \in Sdks, ProgramInv, Next
  PROVE  ProgramInv' /\ UNCHANGED sdk
BY BuildingKeepsProgram, DestroyingKeepsProgram, ApplyBegins, ReleaseBegins, QuietSteps,
   QuietProgram DEF Next, Caller, Quiet

-----------------------------------------------------------------------------
(* Types.                                                                  *)

USE DEF waiterVars

\* TypeOK, one variable at a time.
Flags ==
  /\ mVirtualDisplay \in BOOLEAN /\ mBufferQueue \in BOOLEAN /\ mConsumer \in BOOLEAN
  /\ mFrameProxy \in BOOLEAN /\ mHaveBuffer \in BOOLEAN /\ mHaveRunningDisplay \in BOOLEAN
  /\ abandoned \in BOOLEAN /\ mStopped \in BOOLEAN /\ found \in BOOLEAN

Stages == {"new", "applying", "ready", "failed", "freeing", "freed"}

FlowType ==
  /\ sdk \in Sdks /\ applies \in 0 .. MaxApply /\ stage \in Stages
  /\ info \in Infos \cup {NoInfo} /\ applied \in Infos \cup {NoInfo}

ComposerType ==
  /\ nesting \in Nat /\ changes \subseteq Parts /\ composed \subseteq Parts
  /\ shown \in [source : Sizes, target : Sizes] /\ options \in BuffersOptions

DeviceType ==
  /\ screen \in 1 .. MaxScreen /\ mBuffer \in Buffers
  /\ queue \in Seq(Buffers) /\ Len(queue) <= MaxQueued
  /\ notifying \in Nat /\ taken \in Nat /\ mPendingFrames \in Nat

LEMMA TypeParts ==
  /\ TypeOK <=> Flags /\ FlowType /\ ComposerType /\ DeviceType
  /\ TypeOK' <=> Flags' /\ FlowType' /\ ComposerType' /\ DeviceType'
BY DEF TypeOK, Flags, FlowType, ComposerType, DeviceType, Stages

\* What leaves its variables alone leaves their types alone.
LEMMA SameTypes ==
  /\ FlowType /\ UNCHANGED <<sdk, stage, applies, infoVars>> => FlowType'
  /\ ComposerType /\ UNCHANGED composerVars => ComposerType'
  /\ DeviceType /\ UNCHANGED <<deviceVars, mBuffer>> => DeviceType'
BY DEF FlowType, ComposerType, DeviceType

LEMMA RectsAreSizes ==
  ASSUME NEW i \in Infos \cup {NoInfo}
  PROVE  /\ Rects(i).source \in Sizes /\ Rects(i).target \in Sizes
         /\ Rects(i) \in [source : Sizes, target : Sizes]
BY DisplayAssumption DEF Infos, NoInfo, Nothing, Rects, Sizes, Turned

\* A buffer of the queue's options.
LEMMA BufferType ==
  ASSUME options \in BuffersOptions, NEW n \in 0 .. MaxScreen
  PROVE  Buffer(n) \in Buffers
BY DEF Buffer, Buffers

LEMMA FlagsNext ==
  ASSUME Flags, Next
  PROVE  Flags'
<1> USE DEF Flags
<1>1. CASE Creating
  <2>1. CASE initCheck \/ createDisplay \/ takeQueue \/ newConsumer \/ setListener
    BY <2>1, ZenonT(60) DEF initCheck, createDisplay, takeQueue, newConsumer, setListener,
       FreshQueue, SameQueue
  <2>2. CASE setDefaultBufferSize \/ setDefaultBufferFormat \/ openTransaction
    BY <2>2 DEF setDefaultBufferSize, setDefaultBufferFormat, openTransaction
  <2>3. CASE Fails("initCheck") \/ findSetDisplaySurface \/ markRunning
    BY <2>3, ZenonT(60) DEF Fails, findSetDisplaySurface, markRunning
  <2>4. CASE Sets("setSurface", "surface") \/ Sets("setProjection", "projection")
               \/ Sets("setLayerStack", "layerStack")
    BY <2>4 DEF Sets
  <2>5. CASE closeTransaction \/ applyTransaction
    BY <2>5 DEF closeTransaction, applyTransaction
  <2>q. QED BY <1>1, <2>1, <2>2, <2>3, <2>4, <2>5 DEF Creating
<1>2. CASE Destroying
  <2>1. CASE destroyDisplay \/ unlock \/ dropQueue
    BY <2>1, ZenonT(60) DEF destroyDisplay, unlock, dropQueue
  <2>2. CASE dropConsumer \/ dropProxy
    BY <2>2, ZenonT(60) DEF dropConsumer, dropProxy
  <2>3. CASE dropDisplay \/ markStopped
    BY <2>3, ZenonT(60) DEF dropDisplay, markStopped
  <2>q. QED BY <1>2, <2>1, <2>2, <2>3 DEF Destroying
<1>3. CASE Caller
  <2>1. CASE setInfo \/ applyConfigChanges \/ release
    BY <2>1 DEF setInfo, applyConfigChanges, release
  <2>2. CASE waitForFrame
    BY <2>2 DEF waitForFrame, TakeFrame
  <2>3. CASE consumePendingFrame \/ releaseConsumedFrame
    BY <2>3, ZenonT(60) DEF consumePendingFrame, releaseConsumedFrame
  <2>q. QED BY <1>3, <2>1, <2>2, <2>3 DEF Caller
<1>4. CASE Composer \/ FrameProxyCalls
  BY <1>4 DEF Composer, FrameProxyCalls, OnFrameAvailable
<1>q. QED BY <1>1, <1>2, <1>3, <1>4 DEF Next

LEMMA FlowTypeNext ==
  ASSUME FlowType, Next
  PROVE  FlowType'
<1>1. CASE Creating
  BY <1>1, SameTypes DEF Creating, initCheck, Fails, createDisplay, takeQueue, newConsumer,
     setDefaultBufferSize, setDefaultBufferFormat, setListener, openTransaction,
     findSetDisplaySurface, Sets, closeTransaction, applyTransaction, markRunning,
     FlowType, Stages
<1>2. CASE Destroying
  BY <1>2, SameTypes DEF Destroying, destroyDisplay, unlock, dropQueue, dropConsumer,
     dropProxy, dropDisplay, markStopped, FlowType, Stages
<1>3. CASE Caller
  BY <1>3, SameTypes, DisplayAssumption DEF Caller, setInfo, applyConfigChanges, waitForFrame,
     consumePendingFrame, releaseConsumedFrame, release, FlowType, Stages
<1>4. CASE Composer \/ FrameProxyCalls
  BY <1>4, SameTypes DEF Composer, FrameProxyCalls
<1>q. QED BY <1>1, <1>2, <1>3, <1>4 DEF Next

LEMMA ComposerTypeNext ==
  ASSUME ComposerType, FlowType, ProgramInv, TransactionInv, Next
  PROVE  ComposerType'
<1>1. OwnOptions \in BuffersOptions
  BY DEF BuffersOptions, OwnOptions, Sizes
<1>2. CASE takeQueue \/ newConsumer \/ dropConsumer
  BY <1>1, <1>2, SameTypes DEF takeQueue, newConsumer, dropConsumer, FreshQueue, SameQueue,
     ComposerType
<1>3. CASE setDefaultBufferSize \/ setDefaultBufferFormat
  <2>1. Rects(info).target \in Sizes /\ "RGBA_8888" \in Formats
    BY RectsAreSizes DEF FlowType, Formats, NamedFormats
  <2>2. options' \in BuffersOptions
    <3> DEFINE t == Rects(info).target
    <3>1. CASE setDefaultBufferSize
      <4>1. options' = [options EXCEPT !.size = t] /\ t \in Sizes
        BY <2>1, <3>1 DEF setDefaultBufferSize
      <4> HIDE DEF t
      <4>q. QED BY <4>1 DEF BuffersOptions, ComposerType
    <3>2. CASE setDefaultBufferFormat
      BY <2>1, <3>2 DEF setDefaultBufferFormat, BuffersOptions, ComposerType
    <3>q. QED BY <1>3, <3>1, <3>2
  <2>q. QED BY <1>3, <2>2 DEF setDefaultBufferSize, setDefaultBufferFormat, ComposerType
<1>4. CASE Sets("setSurface", "surface") \/ Sets("setProjection", "projection")
             \/ Sets("setLayerStack", "layerStack")
  BY <1>4 DEF Sets, Parts, ComposerType
<1>5. CASE closeTransaction \/ applyTransaction
  <2>1. composed' \subseteq Parts /\ changes' \subseteq Parts
        /\ shown' \in [source : Sizes, target : Sizes]
    BY <1>5, RectsAreSizes DEF closeTransaction, applyTransaction, Commit, ComposerType,
       FlowType
  <2>2. nesting' \in Nat
    <3>1. CASE closeTransaction
      <4>1. Left("closeTransaction") /\ stage = "applying"
            /\ \A x : Left(x) => x = "closeTransaction"
                                 \/ Place(sdk, "closeTransaction") < Place(sdk, x)
        BY <3>1, CallMade DEF closeTransaction, Operation, TearingDown
      <4>2. ~Left("openTransaction") /\ ~Left("findSetDisplaySurface")
        BY <4>1 DEF Place
      <4>q. QED BY <3>1, <4>1, <4>2 DEF closeTransaction, TransactionInv
    <3>2. CASE applyTransaction
      BY <3>2 DEF applyTransaction, ComposerType
    <3>q. QED BY <1>5, <3>1, <3>2
  <2>q. QED BY <1>5, <2>1, <2>2 DEF closeTransaction, applyTransaction, ComposerType
<1>6. CASE createDisplay \/ destroyDisplay \/ dropDisplay \/ openTransaction
  BY <1>6 DEF createDisplay, destroyDisplay, dropDisplay, openTransaction, ComposerType
<1>7. CASE UNCHANGED composerVars
  BY <1>7, SameTypes
<1>q. QED BY <1>2, <1>3, <1>4, <1>5, <1>6, <1>7, QuietSteps DEF Next, Quiet, Creating,
      Destroying, Caller, initCheck, Fails, setListener, findSetDisplaySurface, markRunning,
      unlock, dropQueue, dropProxy, markStopped, applyConfigChanges, release

LEMMA DeviceTypeNext ==
  ASSUME DeviceType, ComposerType, Next
  PROVE  DeviceType'
<1> USE DEF DeviceType
<1>1. CASE takeQueue \/ newConsumer \/ dropConsumer
  <2>1. queue' = queue \/ queue' = <<>>
    BY <1>1 DEF takeQueue, newConsumer, dropConsumer, FreshQueue, SameQueue
  <2>2. UNCHANGED <<screen, mBuffer, notifying, taken, mPendingFrames>>
    BY <1>1 DEF takeQueue, newConsumer, dropConsumer
  <2>3. queue' \in Seq(Buffers) /\ Len(queue') <= MaxQueued
    <3>1. CASE queue' = queue
      BY <3>1
    <3>2. CASE queue' = <<>>
      <4>1. <<>> \in Seq(Buffers) /\ Len(<<>>) = 0 /\ 0 <= MaxQueued
        BY DisplayAssumption
      <4>q. QED BY <3>2, <4>1
    <3>q. QED BY <2>1, <3>1, <3>2
  <2>q. QED BY <2>2, <2>3
<1>2. CASE waitForFrame \/ FrameProxyCalls
  BY <1>2 DEF waitForFrame, FrameProxyCalls, TakeFrame, OnFrameAvailable
<1>3. CASE consumePendingFrame
  <2>1. Head(queue) \in Buffers /\ Tail(queue) \in Seq(Buffers)
        /\ Len(Tail(queue)) <= MaxQueued
    BY <1>3, DisplayAssumption DEF consumePendingFrame
  <2>q. QED BY <1>3, <2>1 DEF consumePendingFrame
<1>4. CASE Composer
  <2>1. screen < MaxScreen /\ screen' = screen + 1
    BY <1>4 DEF Composer, ScreenChanges, ComposerQueues, ComposerReplaces
  <2>2. screen' \in 1 .. MaxScreen /\ screen' \in 0 .. MaxScreen
    BY <2>1, DisplayAssumption
  <2>3. Buffer(screen') \in Buffers
    BY <2>2, BufferType DEF ComposerType
  <2>4. queue' \in Seq(Buffers) /\ Len(queue') <= MaxQueued /\ notifying' \in Nat
    <3>1. CASE ScreenChanges
      BY <3>1 DEF ScreenChanges
    <3>2. CASE ComposerQueues
      <4>1. queue' = Append(queue, Buffer(screen')) /\ Len(queue) < MaxQueued
        BY <3>2 DEF ComposerQueues
      <4>2. notifying' \in Nat
        BY <3>2 DEF ComposerQueues
      <4>q. QED BY <2>3, <4>1, <4>2, DisplayAssumption
    <3>3. CASE ComposerReplaces
      <4>1. queue' = [queue EXCEPT ![Len(queue)] = Buffer(screen')] /\ queue # <<>>
            /\ notifying' = notifying
        BY <3>3 DEF ComposerReplaces
      <4>q. QED BY <2>3, <4>1, DisplayAssumption
    <3>q. QED BY <1>4, <3>1, <3>2, <3>3 DEF Composer
  <2>q. QED BY <1>4, <2>2, <2>4 DEF Composer
<1>5. CASE UNCHANGED <<deviceVars, mBuffer>>
  BY <1>5, SameTypes
<1>q. QED BY <1>1, <1>2, <1>3, <1>4, <1>5 DEF Next, Creating, Destroying, Caller, initCheck,
      Fails, createDisplay, setDefaultBufferSize, setDefaultBufferFormat, setListener,
      openTransaction, findSetDisplaySurface, Sets, closeTransaction, applyTransaction,
      markRunning, destroyDisplay, unlock, dropQueue, dropProxy, dropDisplay, markStopped,
      setInfo, applyConfigChanges, releaseConsumedFrame, release

LEMMA TypeNext ==
  ASSUME TypeOK, ProgramInv, TransactionInv, Next
  PROVE  TypeOK'
BY TypeParts, FlagsNext, FlowTypeNext, ComposerTypeNext, DeviceTypeNext

-----------------------------------------------------------------------------
(* Where an operation stands when it makes a call.                         *)

LEMMA Building ==
  ASSUME sdk \in Sdks, ProgramInv, NEW c \in CallNames \ TearingDown(19), Calls(c)
  PROVE  /\ stage = "applying" /\ ~Down /\ c \in BuildingUp(sdk) /\ Left(c)
         /\ \A x : Left(x)' <=> Left(x) /\ x # c
         /\ \A x \in BuildingUp(sdk) : Left(x) <=> x = c \/ Place(sdk, c) < Place(sdk, x)
         /\ \A x \in TearingDown(sdk) : ~Left(x)
<1>1. c \in Operation /\ c \notin TearingDown(sdk)
  BY CallMade DEF TearingDown
<1>2. c \in BuildingUp(sdk) /\ stage = "applying"
  BY <1>1, CallMade DEF Operation
<1>3. Place(sdk, c) \in 8 .. 24 /\ \A x \in TearingDown(sdk) : Place(sdk, x) \in 1 .. 7
  BY <1>2, Places
<1>4. \A x \in TearingDown(sdk) : ~Left(x)
  <2> SUFFICES ASSUME NEW x \in TearingDown(sdk), Left(x) PROVE FALSE
    OBVIOUS
  <2>1. x = c \/ Place(sdk, c) < Place(sdk, x)
    BY CallMade
  <2>2. x # c /\ Place(sdk, x) \in 1 .. 7
    BY <1>1, <1>3
  <2>q. QED BY <1>3, <2>1, <2>2
<1>5. \A x \in BuildingUp(sdk) : Left(x) <=> x = c \/ Place(sdk, c) < Place(sdk, x)
  <2>1. \A x \in BuildingUp(sdk) : x \in Operation
    BY <1>2 DEF Operation
  <2>2. \A x \in BuildingUp(sdk) : Left(x) => x = c \/ Place(sdk, c) < Place(sdk, x)
    BY CallMade
  <2>3. \A x \in BuildingUp(sdk) : Place(sdk, c) < Place(sdk, x) => Left(x)
    BY <2>1, CallMade
  <2>q. QED BY <2>2, <2>3, CallMade
<1>q. QED BY <1>2, <1>4, <1>5, CallMade, Places DEF Down

\* Up to the commit, the display is not published.
LEMMA Early ==
  ASSUME sdk \in Sdks, ProgramInv, NEW c \in CallNames \ TearingDown(19), Calls(c),
         c \notin {"closeTransaction", "applyTransaction", "markRunning"}
  PROVE  /\ Unpublished /\ ~Published /\ ~Bare
         /\ UNCHANGED stage => Unpublished' /\ ~Down' /\ ~Published' /\ ~Bare'
<1>1. Place(sdk, c) < 22
  BY Building DEF BuildingUp, Place
<1>2. \E x \in {"closeTransaction", "applyTransaction"} : Left(x) /\ x # c
  <2>1. CASE sdk <= 27
    <3>1. "closeTransaction" \in BuildingUp(sdk) /\ Place(sdk, "closeTransaction") = 22
      BY <2>1 DEF BuildingUp, Place
    <3>q. QED BY <1>1, <3>1, Building
  <2>2. CASE ~(sdk <= 27)
    <3>1. "applyTransaction" \in BuildingUp(sdk) /\ Place(sdk, "applyTransaction") = 23
      BY <2>2 DEF BuildingUp, Place
    <3>2. Place(sdk, c) < 23
      BY <1>1, PlaceIsNumber
    <3>q. QED BY <3>1, <3>2, Building
  <2>q. QED BY <2>1, <2>2
<1>q. QED BY <1>2, Building DEF Unpublished, Published, Bare, Down

\* The commit publishes it.
LEMMA Committing ==
  ASSUME sdk \in Sdks, ProgramInv, NEW c \in {"closeTransaction", "applyTransaction"},
         Calls(c), UNCHANGED stage
  PROVE  /\ Unpublished /\ ~Published /\ ~Bare
         /\ Published' /\ ~Unpublished' /\ ~Down' /\ ~Bare'
<1>1. c \in CallNames \ TearingDown(19)
  BY DEF CallNames, TearingDown
<1>2. \A x \in {"closeTransaction", "applyTransaction"} : Left(x) => x = c
  <2>1. \A x : Left(x) => x \in Operation
    BY OfOperation DEF ProgramInv
  <2>q. QED BY <1>1, <2>1, Building DEF BuildingUp, TearingDown, Operation, Sdks
<1>q. QED BY <1>1, <1>2, Building DEF Unpublished, Published, Bare, Down

\* And nothing but markRunning comes after that.
LEMMA Publicised ==
  ASSUME sdk \in Sdks, ProgramInv, Calls("markRunning")
  PROVE  /\ Published /\ ~Unpublished /\ ~Bare
         /\ \A x : ~Left(x)'
<1>1. "markRunning" \in CallNames \ TearingDown(19)
  BY DEF CallNames, TearingDown
<1>2. \A x : Left(x) => x = "markRunning"
  <2>1. \A x : Left(x) => x \in Operation
    BY OfOperation DEF ProgramInv
  <2>2. Place(sdk, "markRunning") = 24 /\ \A x \in BuildingUp(sdk) : Place(sdk, x) \in 8 .. 24
    BY Places
  <2>q. QED BY <1>1, <2>1, <2>2, Building DEF Operation
<1>q. QED BY <1>1, <1>2, Building DEF Unpublished, Published, Bare

\* While a display is torn down, none is made.
LEMMA Tearing ==
  ASSUME sdk \in Sdks, ProgramInv, NEW c \in TearingDown(19), Calls(c)
  PROVE  /\ Down /\ stage \in {"applying", "freeing"}
         /\ ~Unpublished /\ ~Published /\ ~Bare
         /\ c \in TearingDown(sdk) /\ Left(c)
         /\ \A x : Left(x)' <=> Left(x) /\ x # c
         /\ \A x \in TearingDown(sdk) : Left(x) <=> x = c \/ Place(sdk, c) < Place(sdk, x)
         /\ stage = "applying" => \A x \in BuildingUp(sdk) : Left(x)
         /\ stage = "freeing" => \A x \in BuildingUp(sdk) : ~Left(x)
<1>1. c \in TearingDown(sdk)
  BY CallMade DEF Operation, BuildingUp, TearingDown
<1>2. Place(sdk, c) \in 1 .. 7 /\ \A x \in BuildingUp(sdk) : Place(sdk, x) \in 8 .. 24
  BY <1>1, Places
<1>3. \A x \in TearingDown(sdk) : Left(x) <=> x = c \/ Place(sdk, c) < Place(sdk, x)
  BY <1>1, CallMade DEF Operation
<1>4. Down
  BY <1>1, <1>2, <1>3, Places DEF Down
<1>5. stage = "applying" => \A x \in BuildingUp(sdk) : Left(x)
  <2> SUFFICES ASSUME stage = "applying", NEW x \in BuildingUp(sdk) PROVE Left(x)
    OBVIOUS
  <2>1. x \in Operation
    BY DEF Operation
  <2>2. Place(sdk, c) < Place(sdk, x)
    BY <1>2
  <2>q. QED BY <2>1, <2>2, CallMade
<1>6. stage = "freeing" => \A x \in BuildingUp(sdk) : ~Left(x)
  <2>1. \A x \in BuildingUp(sdk) : x \notin TearingDown(sdk)
    BY DEF BuildingUp, TearingDown
  <2>q. QED BY <2>1, OfOperation DEF ProgramInv, Operation
<1>7. stage = "applying" => Left("closeTransaction") \/ Left("applyTransaction")
  <2>1. "closeTransaction" \in BuildingUp(sdk) \/ "applyTransaction" \in BuildingUp(sdk)
    BY DEF BuildingUp
  <2>q. QED BY <1>5, <2>1
<1>8. stage \in {"applying", "freeing"} /\ \A x : Left(x)' <=> Left(x) /\ x # c
  BY CallMade
<1>q. QED BY <1>1, <1>3, <1>4, <1>5, <1>6, <1>7, <1>8, CallMade
      DEF Unpublished, Published, Bare

-----------------------------------------------------------------------------
(* Building, before the commit.                                            *)

LEMMA NoFrames ==
  /\ queue = <<>> /\ ~mHaveBuffer => Frames = {}
  /\ queue' = <<>> /\ ~mHaveBuffer' => Frames' = {}
BY DEF Frames

\* A call before the commit keeps the invariant if it keeps its own part.
LEMMA EarlyKeeps ==
  ASSUME DisplayInv, NEW c \in CallNames \ TearingDown(19), Calls(c),
         c \notin {"closeTransaction", "applyTransaction", "markRunning"},
         UNCHANGED <<flowVars, mHaveBuffer, waiterVars, notifying, taken>>,
         queue' = <<>>, composed' = {}, TransactionInv', Prepared'
  PROVE  CallsInv'
<1>1. sdk \in Sdks /\ ProgramInv /\ UNCHANGED stage
  BY DEF DisplayInv, TypeOK
<1>2. /\ Unpublished /\ Unpublished' /\ ~Down' /\ ~Published' /\ ~Bare' /\ stage = "applying"
  BY <1>1, Early, Building
<1>3. queue = <<>> /\ ~mHaveBuffer
  BY <1>2 DEF DisplayInv, CallsInv, UpInv
<1>4. StageInv'
  BY <1>2 DEF DisplayInv, CallsInv, StageInv
<1>5. DownInv' /\ FreedReleasesAll'
  BY <1>2 DEF DownInv, FreedReleasesAll
<1>6. Frames' = {} /\ ~Rendering'
  BY <1>3, NoFrames DEF Rendering
<1>7. UpInv'
  BY <1>2, <1>3 DEF UpInv
<1>8. RenderingInv'
  BY <1>3, <1>6 DEF RenderingInv, LockedBufferHasConsumer
<1>9. EveryFrameAnnounced'
  BY <1>3 DEF DisplayInv, CallsInv, EveryFrameAnnounced
<1>q. QED BY <1>4, <1>5, <1>7, <1>8, <1>9 DEF CallsInv

\* Outside the transaction, nothing of it changes.
LEMMA EarlyOutside ==
  ASSUME DisplayInv, NEW c \in CallNames \ TearingDown(19), Calls(c),
         c \notin {"closeTransaction", "applyTransaction", "markRunning", "openTransaction",
                   "findSetDisplaySurface", "setSurface", "setProjection", "setLayerStack"},
         UNCHANGED <<flowVars, nesting, changes>>
  PROVE  TransactionInv'
<1>1. sdk \in Sdks /\ ProgramInv /\ UNCHANGED stage
  BY DEF DisplayInv, TypeOK
<1>2. Unpublished /\ Unpublished'
  BY <1>1, Early
<1>3. \A x : x # c => (Left(x)' <=> Left(x))
  BY <1>1, Building
<1>q. QED BY <1>2, <1>3 DEF DisplayInv, CallsInv, TransactionInv

\* What the queue and the consumer are set up for stays so.
LEMMA EarlyPrepared ==
  ASSUME DisplayInv, NEW c \in CallNames \ TearingDown(19), Calls(c),
         c \notin {"closeTransaction", "applyTransaction", "markRunning", "newConsumer",
                   "setListener", "setDefaultBufferSize", "setDefaultBufferFormat"},
         UNCHANGED <<info, mConsumer, mFrameProxy, options>>
  PROVE  Prepared'
<1>1. sdk \in Sdks /\ ProgramInv
  BY DEF DisplayInv, TypeOK
<1>2. Unpublished
  BY <1>1, Early
<1>3. \A x : x # c => (Left(x)' <=> Left(x))
  BY <1>1, Building
<1>q. QED BY <1>2, <1>3 DEF DisplayInv, CallsInv, UpInv, Prepared

\* Before the commit there is no frame.
LEMMA EarlyEmpty ==
  ASSUME DisplayInv, NEW c \in CallNames \ TearingDown(19), Calls(c),
         c \notin {"closeTransaction", "applyTransaction", "markRunning"}
  PROVE  queue = <<>> /\ composed = {} /\ ~mHaveBuffer /\ stage = "applying" /\ Prepared
BY Early, Building DEF DisplayInv, CallsInv, UpInv, TypeOK

LEMMA EarlySteps ==
  ASSUME DisplayInv,
         \/ initCheck \/ createDisplay \/ takeQueue \/ newConsumer
         \/ setDefaultBufferSize \/ setDefaultBufferFormat \/ setListener
         \/ openTransaction \/ (findSetDisplaySurface /\ found)
         \/ Sets("setSurface", "surface") \/ Sets("setProjection", "projection")
         \/ Sets("setLayerStack", "layerStack")
  PROVE  CallsInv'
<1> DEFINE Outside == {"initCheck", "createDisplay", "takeQueue", "newConsumer",
                       "setDefaultBufferSize", "setDefaultBufferFormat", "setListener"}
           Inside == {"openTransaction", "findSetDisplaySurface", "setSurface",
                      "setProjection", "setLayerStack"}
<1>0. /\ Outside \cup Inside \subseteq CallNames \ TearingDown(19)
      /\ Outside \cap Inside = {}
      /\ "closeTransaction" \notin Outside \cup Inside
      /\ "applyTransaction" \notin Outside \cup Inside
      /\ "markRunning" \notin Outside \cup Inside
  BY DEF CallNames, TearingDown
<1>1. sdk \in Sdks /\ ProgramInv
  BY DEF DisplayInv, TypeOK
<1>2. CASE initCheck \/ createDisplay
  <2>1. PICK c \in {"initCheck", "createDisplay"} : Calls(c)
    BY <1>2 DEF initCheck, createDisplay
  <2>2. /\ UNCHANGED <<flowVars, mHaveBuffer, deviceVars, nesting, changes>>
        /\ UNCHANGED <<mConsumer, mFrameProxy, options>>
        /\ composed' = composed \/ composed' = {}
    BY <1>2 DEF initCheck, createDisplay
  <2>3. c \in Outside
    BY <2>1
  <2>q. QED BY <1>0, <2>1, <2>2, <2>3, EarlyKeeps, EarlyOutside, EarlyPrepared, EarlyEmpty
<1>3. CASE takeQueue
  <2>1. /\ Calls("takeQueue")
        /\ UNCHANGED <<flowVars, mHaveBuffer, waiterVars, notifying, taken, nesting, changes>>
        /\ UNCHANGED <<mConsumer, mFrameProxy, composed>>
        /\ queue' = queue \/ queue' = <<>>
        /\ sdk <= 19 => UNCHANGED options
    BY <1>3 DEF takeQueue, FreshQueue, SameQueue
  <2>2. "takeQueue" \in Outside
    OBVIOUS
  <2>3. Prepared'
    <3>1. CASE sdk <= 19
      BY <1>0, <2>1, <2>2, <3>1, EarlyPrepared
    <3>2. CASE ~(sdk <= 19)
      <4>1. Left("setDefaultBufferSize")' /\ Left("setDefaultBufferFormat")'
        BY <1>0, <1>1, <2>1, <2>2, Building DEF BuildingUp, Place
      <4>2. \A x \in {"newConsumer", "setListener"} : Left(x)' <=> Left(x)
        BY <1>0, <1>1, <2>1, <2>2, Building
      <4>q. QED BY <1>0, <2>1, <2>2, <4>1, <4>2, EarlyEmpty DEF Prepared
    <3>q. QED BY <3>1, <3>2
  <2>q. QED BY <1>0, <2>1, <2>2, <2>3, EarlyKeeps, EarlyOutside, EarlyEmpty
<1>4. CASE newConsumer
  <2>1. /\ Calls("newConsumer")
        /\ UNCHANGED <<flowVars, mHaveBuffer, waiterVars, notifying, taken, nesting, changes>>
        /\ UNCHANGED composed
        /\ mConsumer' = TRUE
        /\ queue' = queue \/ queue' = <<>>
        /\ sdk <= 18 \/ UNCHANGED options
    BY <1>4 DEF newConsumer, FreshQueue, SameQueue
  <2>2. "newConsumer" \in Outside
    OBVIOUS
  <2>3. Left("setListener")'
    BY <1>0, <1>1, <2>1, <2>2, Building DEF BuildingUp, Place
  <2>4. sdk <= 18 => Left("setDefaultBufferSize")' /\ Left("setDefaultBufferFormat")'
    BY <1>0, <1>1, <2>1, <2>2, Building DEF BuildingUp, Place
  <2>5. \A x \in {"setDefaultBufferSize", "setDefaultBufferFormat"} : Left(x)' <=> Left(x)
    BY <1>0, <1>1, <2>1, <2>2, Building
  <2>6. Prepared'
    BY <1>0, <2>1, <2>2, <2>3, <2>4, <2>5, EarlyEmpty DEF Prepared
  <2>q. QED BY <1>0, <2>1, <2>2, <2>6, EarlyKeeps, EarlyOutside, EarlyEmpty
<1>5. CASE setDefaultBufferSize
  <2>1. /\ Calls("setDefaultBufferSize")
        /\ UNCHANGED <<flowVars, mHaveBuffer, deviceVars, nesting, changes, composed>>
        /\ UNCHANGED <<mConsumer, mFrameProxy>>
        /\ options'.size = Rects(info).target /\ options'.format = options.format
    BY <1>5 DEF setDefaultBufferSize, DisplayInv, TypeOK, BuffersOptions
  <2>2. "setDefaultBufferSize" \in Outside
    OBVIOUS
  <2>3. \A x \in {"newConsumer", "setListener", "setDefaultBufferFormat"} :
          Left(x)' <=> Left(x)
    BY <1>0, <1>1, <2>1, <2>2, Building
  <2>4. Prepared'
    BY <1>0, <2>1, <2>2, <2>3, EarlyEmpty DEF Prepared
  <2>q. QED BY <1>0, <2>1, <2>2, <2>4, EarlyKeeps, EarlyOutside, EarlyEmpty
<1>6. CASE setDefaultBufferFormat
  <2>1. /\ Calls("setDefaultBufferFormat")
        /\ UNCHANGED <<flowVars, mHaveBuffer, deviceVars, nesting, changes, composed>>
        /\ UNCHANGED <<mConsumer, mFrameProxy>>
        /\ options'.format = "RGBA_8888" /\ options'.size = options.size
    BY <1>6 DEF setDefaultBufferFormat, DisplayInv, TypeOK, BuffersOptions
  <2>2. "setDefaultBufferFormat" \in Outside
    OBVIOUS
  <2>3. \A x \in {"newConsumer", "setListener", "setDefaultBufferSize"} :
          Left(x)' <=> Left(x)
    BY <1>0, <1>1, <2>1, <2>2, Building
  <2>4. Prepared'
    BY <1>0, <2>1, <2>2, <2>3, EarlyEmpty DEF Prepared
  <2>q. QED BY <1>0, <2>1, <2>2, <2>4, EarlyKeeps, EarlyOutside, EarlyEmpty
<1>7. CASE setListener
  <2>1. /\ Calls("setListener")
        /\ UNCHANGED <<flowVars, mHaveBuffer, deviceVars, nesting, changes, composed>>
        /\ UNCHANGED <<mConsumer, options>>
        /\ mFrameProxy'
    BY <1>7 DEF setListener
  <2>2. "setListener" \in Outside
    OBVIOUS
  <2>3. \A x \in {"newConsumer", "setDefaultBufferSize", "setDefaultBufferFormat"} :
          Left(x)' <=> Left(x)
    BY <1>0, <1>1, <2>1, <2>2, Building
  <2>4. Prepared'
    BY <1>0, <2>1, <2>2, <2>3, EarlyEmpty DEF Prepared
  <2>q. QED BY <1>0, <2>1, <2>2, <2>4, EarlyKeeps, EarlyOutside, EarlyEmpty
<1>8. ASSUME NEW c \in Inside, Calls(c), UNCHANGED <<flowVars, mHaveBuffer, deviceVars,
             mConsumer, mFrameProxy, options, composed>>, TransactionInv'
      PROVE  CallsInv'
  BY <1>0, <1>8, EarlyKeeps, EarlyPrepared, EarlyEmpty
<1>9. ASSUME NEW c \in Inside, Calls(c), UNCHANGED flowVars
      PROVE  /\ Unpublished /\ Unpublished'
             /\ \A x : Left(x)' <=> Left(x) /\ x # c
             /\ \A x \in BuildingUp(sdk) : Left(x) <=> x = c \/ Place(sdk, c) < Place(sdk, x)
             /\ Left(c) /\ c \in BuildingUp(sdk)
  BY <1>0, <1>1, <1>9, Early, Building
<1>10. CASE openTransaction
  <2>1. /\ Calls("openTransaction") /\ "openTransaction" \in Inside
        /\ UNCHANGED <<flowVars, mHaveBuffer, deviceVars, mConsumer, mFrameProxy, options,
                       composed, changes>>
        /\ nesting' = nesting + 1
    BY <1>10 DEF openTransaction
  <2>2. Left("closeTransaction") /\ sdk <= 27
    BY <1>9, <2>1 DEF BuildingUp, Place
  <2>3. TransactionInv'
    BY <1>9, <2>1, <2>2 DEF DisplayInv, CallsInv, TransactionInv
  <2>q. QED BY <1>8, <2>1, <2>3
<1>11. CASE findSetDisplaySurface /\ found
  <2>1. /\ Calls("findSetDisplaySurface") /\ "findSetDisplaySurface" \in Inside
        /\ UNCHANGED <<flowVars, mHaveBuffer, deviceVars, mConsumer, mFrameProxy, options,
                       composed, changes, nesting>>
    BY <1>11 DEF findSetDisplaySurface
  <2>2. TransactionInv'
    BY <1>9, <1>11, <2>1 DEF DisplayInv, CallsInv, TransactionInv
  <2>q. QED BY <1>8, <2>1, <2>2
<1>12. CASE Sets("setSurface", "surface")
  <2>1. /\ Calls("setSurface") /\ "setSurface" \in Inside
        /\ UNCHANGED <<flowVars, mHaveBuffer, deviceVars, mConsumer, mFrameProxy, options,
                       composed, nesting>>
        /\ changes' = changes \cup {"surface"}
    BY <1>12 DEF Sets
  <2>2. TransactionInv'
    BY <1>9, <2>1 DEF DisplayInv, CallsInv, TransactionInv
  <2>q. QED BY <1>8, <2>1, <2>2
<1>13. CASE Sets("setProjection", "projection")
  <2>1. /\ Calls("setProjection") /\ "setProjection" \in Inside
        /\ UNCHANGED <<flowVars, mHaveBuffer, deviceVars, mConsumer, mFrameProxy, options,
                       composed, nesting>>
        /\ changes' = changes \cup {"projection"}
    BY <1>13 DEF Sets
  <2>2. TransactionInv'
    BY <1>9, <2>1 DEF DisplayInv, CallsInv, TransactionInv
  <2>q. QED BY <1>8, <2>1, <2>2
<1>14. CASE Sets("setLayerStack", "layerStack")
  <2>1. /\ Calls("setLayerStack") /\ "setLayerStack" \in Inside
        /\ UNCHANGED <<flowVars, mHaveBuffer, deviceVars, mConsumer, mFrameProxy, options,
                       composed, nesting>>
        /\ changes' = changes \cup {"layerStack"}
    BY <1>14 DEF Sets
  <2>2. TransactionInv'
    BY <1>9, <2>1 DEF DisplayInv, CallsInv, TransactionInv
  <2>q. QED BY <1>8, <2>1, <2>2
<1>q. QED BY <1>2, <1>3, <1>4, <1>5, <1>6, <1>7, <1>10, <1>11, <1>12, <1>13, <1>14

-----------------------------------------------------------------------------
(* The commit, and the last call.                                          *)

\* Frames come from the queue and the locked buffer only.
LEMMA FewerFrames ==
  ASSUME queue' \in {queue, <<>>}, mBuffer' = mBuffer, mHaveBuffer' => mHaveBuffer
  PROVE  Frames' \subseteq Frames
BY DEF Frames

LEMMA CommitStep ==
  ASSUME DisplayInv, closeTransaction \/ applyTransaction
  PROVE  CallsInv'
<1>0. sdk \in Sdks /\ ProgramInv /\ TypeOK /\ CallsInv
  BY DEF DisplayInv, TypeOK
<1>1. PICK c \in {"closeTransaction", "applyTransaction"} :
        Calls(c) /\ (c = "closeTransaction" <=> closeTransaction)
  <2>1. CASE closeTransaction
    BY <2>1 DEF closeTransaction
  <2>2. CASE ~closeTransaction
    BY <2>2 DEF applyTransaction
  <2>q. QED BY <2>1, <2>2
<1>2. c \in CallNames \ TearingDown(19)
  BY DEF CallNames, TearingDown
<1>3. /\ UNCHANGED <<flowVars, bufferVars, deviceVars, refVars, options, abandoned>>
  BY DEF closeTransaction, applyTransaction
<1>4. /\ Unpublished /\ Published' /\ ~Unpublished' /\ ~Down' /\ ~Bare'
  BY <1>0, <1>1, <1>3, Committing
<1>5. /\ stage = "applying" /\ c \in BuildingUp(sdk) /\ Left(c)
      /\ \A x : Left(x)' <=> Left(x) /\ x # c
      /\ \A x \in BuildingUp(sdk) : Left(x) <=> x = c \/ Place(sdk, c) < Place(sdk, x)
  BY <1>0, <1>1, <1>2, Building
<1>6. /\ ~Left("setSurface") /\ ~Left("setProjection") /\ ~Left("setLayerStack")
      /\ ~Left("newConsumer") /\ ~Left("setListener") /\ ~Left("setDefaultBufferSize")
      /\ ~Left("setDefaultBufferFormat") /\ ~Left("openTransaction")
      /\ ~(sdk = 25 /\ ~found)
  <2>1. \A x \in {"setSurface", "setProjection", "setLayerStack", "newConsumer", "setListener",
                  "setDefaultBufferSize", "setDefaultBufferFormat"} :
          x \in BuildingUp(sdk) /\ x # c /\ ~(Place(sdk, c) < Place(sdk, x))
    BY <1>1 DEF BuildingUp, Place
  <2>2. ~Left("openTransaction")
    <3>1. Left("openTransaction") => "openTransaction" \in Operation
      BY <1>0, OfOperation DEF ProgramInv
    <3>2. "openTransaction" \notin TearingDown(sdk)
      BY DEF TearingDown
    <3>3. ~(Place(sdk, c) < Place(sdk, "openTransaction"))
      BY <1>1 DEF Place
    <3>q. QED BY <1>1, <1>5, <3>1, <3>2, <3>3 DEF Operation
  <2>3. sdk = 25 => ~Left("findSetDisplaySurface")
    <3>1. sdk = 25 => "findSetDisplaySurface" \in BuildingUp(sdk)
      BY DEF BuildingUp
    <3>2. c # "findSetDisplaySurface" /\ ~(Place(sdk, c) < Place(sdk, "findSetDisplaySurface"))
      BY <1>1 DEF Place
    <3>q. QED BY <1>5, <3>1, <3>2
  <2>q. QED BY <1>0, <1>5, <2>1, <2>2, <2>3 DEF CallsInv, TransactionInv
<1>7. changes = Parts
  BY <1>0, <1>4, <1>6 DEF CallsInv, TransactionInv, TypeOK, Parts
<1>8. /\ queue = <<>> /\ ~mHaveBuffer /\ composed = {} /\ Prepared
  BY <1>0, <1>4 DEF CallsInv, UpInv
<1>9. nesting = IF c = "closeTransaction" THEN 1 ELSE 0
  <2>1. Left("closeTransaction") <=> c = "closeTransaction"
    <3>1. Left("closeTransaction") => "closeTransaction" \in BuildingUp(sdk)
      BY <1>0, OfOperation DEF ProgramInv, Operation, TearingDown
    <3>2. c = "applyTransaction" => "closeTransaction" \notin BuildingUp(sdk)
      BY <1>5 DEF BuildingUp
    <3>q. QED BY <1>1, <1>5, <3>1, <3>2
  <2>q. QED BY <1>0, <1>6, <2>1 DEF CallsInv, TransactionInv
<1>10. Commit /\ nesting' = 0
  BY <1>1, <1>9 DEF closeTransaction, applyTransaction
<1>11. /\ changes' = {} /\ composed' \in {{}, Parts}
       /\ composed' # {} => shown' = Rects(info)
  BY <1>7, <1>8, <1>10 DEF Commit, Parts
<1>12. info \in Infos /\ applied = info
  BY <1>0, <1>5 DEF CallsInv, StageInv
<1>13. mConsumer /\ mFrameProxy /\ options = FrameOptions(applied)
  <2>1. /\ mConsumer /\ mFrameProxy /\ options.size = Rects(info).target
        /\ options.format = "RGBA_8888"
    BY <1>6, <1>8 DEF Prepared
  <2>q. QED BY <1>0, <1>12, <2>1 DEF FrameOptions, TypeOK, BuffersOptions
<1>14. Frames' = {}
  BY <1>3, <1>8, NoFrames
<1>15. StageInv' /\ DownInv' /\ FreedReleasesAll'
  BY <1>0, <1>3, <1>4, <1>5 DEF CallsInv, StageInv, DownInv, FreedReleasesAll
<1>16. TransactionInv'
  <2>1. ~Left("closeTransaction")'
    <3>1. Left("closeTransaction") => c = "closeTransaction"
      BY <1>0, <1>6, <1>9 DEF CallsInv, TransactionInv
    <3>q. QED BY <1>5, <3>1
  <2>q. QED BY <1>3, <1>4, <1>6, <1>10, <1>11, <2>1 DEF TransactionInv
<1>17. UpInv'
  BY <1>3, <1>4, <1>11, <1>12, <1>13, <1>14 DEF UpInv, FrameOptions
<1>18. RenderingInv'
  <2>1. options' = FrameOptions(info) /\ options'.size = Rects(info).target
    BY <1>3, <1>12, <1>13 DEF FrameOptions
  <2>2. Rendering' => options'.size = shown'.target
    BY <1>11, <2>1 DEF Rendering
  <2>3. options' \in GoodOptions
    BY <1>12, <2>1 DEF GoodOptions
  <2>q. QED BY <1>3, <1>8, <1>11, <1>13, <1>14, <2>2, <2>3
        DEF RenderingInv, LockedBufferHasConsumer
<1>19. EveryFrameAnnounced'
  BY <1>0, <1>3 DEF CallsInv, EveryFrameAnnounced
<1>q. QED BY <1>15, <1>16, <1>17, <1>18, <1>19 DEF CallsInv

LEMMA RunningStep ==
  ASSUME DisplayInv, markRunning
  PROVE  CallsInv'
<1>0. sdk \in Sdks /\ ProgramInv /\ TypeOK /\ CallsInv
  BY DEF DisplayInv, TypeOK
<1>1. /\ Calls("markRunning") /\ stage' = "ready" /\ mHaveRunningDisplay'
      /\ UNCHANGED <<deviceVars, bufferVars, refVars, composerVars>>
      /\ UNCHANGED <<sdk, found, applies, infoVars>>
  BY DEF markRunning
<1>2. Published /\ ~Unpublished /\ \A x : ~Left(x)'
  BY <1>0, <1>1, Publicised
<1>3. stage = "applying" /\ ~Left("closeTransaction")
  <2>1. "markRunning" \in CallNames \ TearingDown(19)
    BY DEF CallNames, TearingDown
  <2>2. stage = "applying"
    BY <1>0, <1>1, <2>1, Building
  <2>q. QED BY <1>2, <2>2 DEF Published
<1>4. Published' /\ ~Unpublished' /\ ~Down' /\ ~Bare'
  BY <1>1, <1>2 DEF Published, Unpublished, Down, Bare
<1>5. Frames' = Frames /\ (Rendering' <=> Rendering)
  BY <1>1 DEF Frames, Rendering
<1>6. StageInv' /\ DownInv' /\ FreedReleasesAll'
  BY <1>0, <1>1, <1>3, <1>4 DEF CallsInv, StageInv, DownInv, FreedReleasesAll
<1>7. TransactionInv'
  BY <1>0, <1>1, <1>2, <1>3, <1>4 DEF CallsInv, TransactionInv
<1>8. UpInv'
  BY <1>0, <1>1, <1>2, <1>4, <1>5 DEF CallsInv, UpInv
<1>9. RenderingInv'
  BY <1>0, <1>1, <1>5 DEF CallsInv, RenderingInv, LockedBufferHasConsumer
<1>10. EveryFrameAnnounced'
  BY <1>0, <1>1, <1>3 DEF CallsInv, EveryFrameAnnounced
<1>q. QED BY <1>6, <1>7, <1>8, <1>9, <1>10 DEF CallsInv

\* A configuration that fails does so before the commit.
LEMMA FailedStep ==
  ASSUME DisplayInv,
         \/ Fails("initCheck")
         \/ ~found /\ Fails("findSetDisplaySurface")
  PROVE  CallsInv'
<1>0. sdk \in Sdks /\ ProgramInv /\ TypeOK /\ CallsInv
  BY DEF DisplayInv, TypeOK
<1>1. PICK c \in {"initCheck", "findSetDisplaySurface"} :
        Fails(c) /\ (c = "findSetDisplaySurface" => ~found)
  OBVIOUS
<1>2. /\ program # <<>> /\ Head(program) = c /\ program' = <<>> /\ stage' = "failed"
      /\ UNCHANGED <<deviceVars, bufferVars, refVars, composerVars>>
      /\ UNCHANGED <<sdk, found, applies, infoVars, mHaveRunningDisplay>>
  BY <1>1 DEF Fails
<1>3. c \in CallNames \ TearingDown(19)
  BY DEF CallNames, TearingDown
<1>4. /\ stage = "applying" /\ Unpublished
      /\ c \in BuildingUp(sdk)
      /\ \A x \in BuildingUp(sdk) : Left(x) <=> x = c \/ Place(sdk, c) < Place(sdk, x)
  <2> DEFINE rest == Tail(program)
  <2>1. /\ Has(program, c) /\ InOrder(sdk, program)
        /\ \A x : Has(program, x) => x = c \/ Place(sdk, c) < Place(sdk, x)
    BY <1>0, <1>2, Rest DEF ProgramInv
  <2>2. /\ Left(c) /\ c \in Operation /\ c \notin TearingDown(sdk)
        /\ stage \in {"applying", "freeing"}
    BY <1>0, <1>2, <1>3, <2>1 DEF ProgramInv, Left, TearingDown
  <2>3. c \in BuildingUp(sdk) /\ stage = "applying"
    BY <2>2 DEF Operation
  <2>4. \A x \in BuildingUp(sdk) : Left(x) <=> x = c \/ Place(sdk, c) < Place(sdk, x)
    BY <1>0, <2>1, <2>2, <2>3 DEF ProgramInv, Left, Operation
  <2>5. Place(sdk, c) \in {8, 18}
    BY DEF Place
  <2>6. ~Down
    BY <2>1, <2>5, Places DEF Down, Left
  <2>7. Left("closeTransaction") \/ Left("applyTransaction")
    BY <2>4, <2>5 DEF BuildingUp, Place
  <2>q. QED BY <2>3, <2>4, <2>6, <2>7 DEF Unpublished
<1>5. \A x : ~Left(x)'
  BY <1>2 DEF Left, Has
<1>6. ~Published' /\ ~Unpublished' /\ ~Down' /\ Bare'
  BY <1>2, <1>5 DEF Published, Unpublished, Down, Bare
<1>7. queue = <<>> /\ ~mHaveBuffer /\ composed = {}
  BY <1>0, <1>4 DEF CallsInv, UpInv
<1>8. Frames' = {} /\ ~Rendering'
  BY <1>2, <1>7, NoFrames DEF Rendering
<1>9. StageInv' /\ DownInv' /\ FreedReleasesAll' /\ EveryFrameAnnounced'
  BY <1>0, <1>2, <1>4, <1>6 DEF CallsInv, StageInv, DownInv, FreedReleasesAll,
     EveryFrameAnnounced
<1>10. TransactionInv'
  <2>1. Left("setSurface") /\ Left("setProjection") /\ Left("setLayerStack")
    BY <1>4 DEF BuildingUp, Place
  <2>2. c = "findSetDisplaySurface" => sdk = 25
    BY <1>4 DEF BuildingUp
  <2>3. c = "initCheck" => ~Left("closeTransaction") \/ Left("openTransaction")
    <3>1. Left("closeTransaction") => "closeTransaction" \in BuildingUp(sdk)
      BY <1>0, OfOperation DEF ProgramInv, Operation, TearingDown
    <3>q. QED BY <1>4, <3>1 DEF BuildingUp, Place
  <2>4. (sdk = 25 /\ ~found) \/ nesting = 0
    BY <1>0, <1>1, <2>2, <2>3 DEF CallsInv, TransactionInv
  <2>q. QED BY <1>0, <1>2, <1>4, <1>5, <1>6, <2>1, <2>4 DEF CallsInv, TransactionInv
<1>11. UpInv'
  BY <1>2, <1>6, <1>7 DEF UpInv
<1>12. RenderingInv'
  BY <1>2, <1>7, <1>8 DEF RenderingInv, LockedBufferHasConsumer
<1>q. QED BY <1>9, <1>10, <1>11, <1>12 DEF CallsInv

LEMMA CreatingSteps ==
  ASSUME DisplayInv, Creating
  PROVE  CallsInv'
BY EarlySteps, CommitStep, RunningStep, FailedStep DEF Creating, findSetDisplaySurface

-----------------------------------------------------------------------------
(* Tearing down.                                                           *)

\* A call but the last keeps the invariant if it releases what it should.
LEMMA TearKeeps ==
  ASSUME DisplayInv, NEW c \in TearingDown(19) \ {"markStopped"}, Calls(c),
         UNCHANGED <<flowVars, nesting, changes, shown, options, mBuffer>>,
         queue' \in {queue, <<>>}, composed' \in {composed, {}},
         mHaveBuffer' => mHaveBuffer, LockedBufferHasConsumer', DownInv',
         Rendering' => Rendering /\ mFrameProxy'
  PROVE  CallsInv'
<1>0. sdk \in Sdks /\ ProgramInv /\ TypeOK /\ CallsInv
  BY DEF DisplayInv, TypeOK
<1>1. /\ Down /\ stage \in {"applying", "freeing"} /\ ~Unpublished
      /\ \A x : Left(x)' <=> Left(x) /\ x # c
      /\ stage = "applying" => \A x \in BuildingUp(sdk) : Left(x)
  BY <1>0, Tearing
<1>2. \A x \in {"markStopped", "closeTransaction", "applyTransaction", "openTransaction",
                "findSetDisplaySurface", "setSurface", "setProjection", "setLayerStack"} :
        Left(x)' <=> Left(x)
  BY <1>1 DEF TearingDown
<1>3. Down' /\ ~Unpublished' /\ ~Published' /\ ~Bare'
  <2>1. "closeTransaction" \in BuildingUp(sdk) \/ "applyTransaction" \in BuildingUp(sdk)
    BY DEF BuildingUp
  <2>q. QED BY <1>1, <1>2, <2>1 DEF Down, Unpublished, Published, Bare
<1>4. StageInv' /\ FreedReleasesAll' /\ EveryFrameAnnounced'
  BY <1>0, <1>1 DEF CallsInv, StageInv, FreedReleasesAll, EveryFrameAnnounced
<1>5. TransactionInv'
  BY <1>0, <1>1, <1>2, <1>3 DEF CallsInv, TransactionInv
<1>6. UpInv'
  BY <1>3 DEF UpInv
<1>7. RenderingInv'
  BY <1>0, FewerFrames DEF CallsInv, RenderingInv
<1>q. QED BY <1>4, <1>5, <1>6, <1>7 DEF CallsInv

LEMMA TearSteps ==
  ASSUME DisplayInv,
         \/ destroyDisplay \/ unlock \/ dropQueue \/ dropConsumer \/ dropProxy \/ dropDisplay
  PROVE  CallsInv'
<1>0. sdk \in Sdks /\ ProgramInv /\ TypeOK /\ CallsInv
  BY DEF DisplayInv, TypeOK
<1> DEFINE C == {"destroyDisplay", "unlock", "dropQueue", "dropConsumer", "dropProxy",
                 "dropDisplay"}
<1>1. C \subseteq TearingDown(19) \ {"markStopped"}
  BY DEF TearingDown
<1>2. ASSUME NEW c \in C, Calls(c)
      PROVE  /\ Down /\ LockedBufferHasConsumer
             /\ \A x : Left(x)' <=> Left(x) /\ x # c
             /\ \A x \in TearingDown(sdk) : Left(x) <=> x = c \/ Place(sdk, c) < Place(sdk, x)
  BY <1>0, <1>1, <1>2, Tearing DEF CallsInv, RenderingInv
<1>3. DownInv /\ (Rendering => mFrameProxy)
  BY <1>0 DEF CallsInv, RenderingInv
<1>4. CASE destroyDisplay
  <2>1. /\ Calls("destroyDisplay") /\ "destroyDisplay" \in C
        /\ composed' = {}
        /\ UNCHANGED <<deviceVars, bufferVars, refVars, flowVars, nesting, changes, shown,
                       options, abandoned>>
    BY <1>4 DEF destroyDisplay
  <2>2. DownInv' /\ LockedBufferHasConsumer' /\ ~Rendering'
    BY <1>2, <1>3, <2>1 DEF DownInv, LockedBufferHasConsumer, Rendering
  <2>q. QED BY <1>1, <2>1, <2>2, TearKeeps
<1>5. CASE unlock
  <2>1. /\ Calls("unlock") /\ "unlock" \in C
        /\ mHaveBuffer' = FALSE
        /\ UNCHANGED <<mBuffer, deviceVars, refVars, composerVars, flowVars>>
    BY <1>5 DEF unlock
  <2>2. DownInv' /\ LockedBufferHasConsumer' /\ (Rendering' => Rendering /\ mFrameProxy')
    BY <1>2, <1>3, <2>1 DEF DownInv, LockedBufferHasConsumer, Rendering
  <2>q. QED BY <1>1, <2>1, <2>2, TearKeeps
<1>6. CASE dropQueue
  <2>1. /\ Calls("dropQueue") /\ "dropQueue" \in C
        /\ mBufferQueue' = FALSE
        /\ UNCHANGED <<deviceVars, bufferVars, composerVars, flowVars, mVirtualDisplay,
                       mConsumer, mFrameProxy>>
    BY <1>6 DEF dropQueue
  <2>2. DownInv' /\ LockedBufferHasConsumer' /\ (Rendering' => Rendering /\ mFrameProxy')
    BY <1>2, <1>3, <2>1 DEF DownInv, LockedBufferHasConsumer, Rendering
  <2>q. QED BY <1>1, <2>1, <2>2, TearKeeps
<1>7. CASE dropConsumer
  <2>1. /\ Calls("dropConsumer") /\ "dropConsumer" \in C
        /\ mConsumer' = FALSE /\ queue' = <<>>
        /\ UNCHANGED <<bufferVars, flowVars, nesting, changes, composed, shown, options,
                       mVirtualDisplay, mBufferQueue, mFrameProxy>>
    BY <1>7 DEF dropConsumer
  <2>2. ~Left("unlock")
    BY <1>2, <2>1 DEF TearingDown, Place
  <2>3. ~mHaveBuffer
    BY <1>2, <1>3, <2>1, <2>2 DEF DownInv
  <2>4. DownInv' /\ LockedBufferHasConsumer' /\ ~Rendering'
    BY <1>2, <1>3, <2>1, <2>3 DEF DownInv, LockedBufferHasConsumer, Rendering
  <2>q. QED BY <1>1, <2>1, <2>4, TearKeeps
<1>8. CASE dropProxy
  <2>1. /\ Calls("dropProxy") /\ "dropProxy" \in C
        /\ mFrameProxy' = FALSE
        /\ UNCHANGED <<deviceVars, bufferVars, composerVars, flowVars, mVirtualDisplay,
                       mBufferQueue, mConsumer>>
    BY <1>8 DEF dropProxy
  <2>2. ~Left("dropConsumer")
    BY <1>2, <2>1 DEF TearingDown, Place
  <2>3. ~mConsumer
    BY <1>2, <1>3, <2>1, <2>2 DEF DownInv
  <2>4. DownInv' /\ LockedBufferHasConsumer' /\ ~Rendering'
    BY <1>2, <1>3, <2>1, <2>3 DEF DownInv, LockedBufferHasConsumer, Rendering
  <2>q. QED BY <1>1, <2>1, <2>4, TearKeeps
<1>9. CASE dropDisplay
  <2>1. /\ Calls("dropDisplay") /\ "dropDisplay" \in C
        /\ mVirtualDisplay' = FALSE /\ composed' = {}
        /\ UNCHANGED <<deviceVars, bufferVars, flowVars, nesting, changes, shown, options,
                       abandoned, mBufferQueue, mConsumer, mFrameProxy>>
    BY <1>9 DEF dropDisplay
  <2>2. DownInv' /\ LockedBufferHasConsumer' /\ ~Rendering'
    BY <1>2, <1>3, <2>1 DEF DownInv, LockedBufferHasConsumer, Rendering
  <2>q. QED BY <1>1, <2>1, <2>2, TearKeeps
<1>q. QED BY <1>4, <1>5, <1>6, <1>7, <1>8, <1>9

\* With the last call, everything is released.
LEMMA StoppedStep ==
  ASSUME DisplayInv, markStopped
  PROVE  CallsInv'
<1>0. sdk \in Sdks /\ ProgramInv /\ TypeOK /\ CallsInv
  BY DEF DisplayInv, TypeOK
<1>1. /\ Calls("markStopped") /\ mHaveRunningDisplay' = FALSE
      /\ stage' = IF stage = "freeing" THEN "freed" ELSE stage
      /\ UNCHANGED <<deviceVars, bufferVars, refVars, composerVars>>
      /\ UNCHANGED <<sdk, found, applies, infoVars>>
  BY DEF markStopped
<1>2. "markStopped" \in TearingDown(19)
  BY DEF TearingDown
<1>3. /\ Down /\ stage \in {"applying", "freeing"} /\ ~Unpublished
      /\ \A x : Left(x)' <=> Left(x) /\ x # "markStopped"
      /\ \A x \in TearingDown(sdk) :
           Left(x) <=> x = "markStopped" \/ Place(sdk, "markStopped") < Place(sdk, x)
      /\ stage = "applying" => \A x \in BuildingUp(sdk) : Left(x)
      /\ stage = "freeing" => \A x \in BuildingUp(sdk) : ~Left(x)
  BY <1>0, <1>1, <1>2, Tearing
<1>4. \A x \in {"unlock", "dropQueue", "dropConsumer", "dropProxy", "dropDisplay"} : ~Left(x)
  BY <1>3 DEF TearingDown, Place
<1>5. /\ ~mHaveBuffer /\ ~mBufferQueue /\ ~mConsumer /\ queue = <<>>
      /\ ~mFrameProxy /\ ~mVirtualDisplay /\ composed = {}
  BY <1>0, <1>3, <1>4 DEF CallsInv, DownInv
<1>6. changes = {}
  BY <1>0, <1>3 DEF CallsInv, TransactionInv, TypeOK, Parts
<1>7. Frames' = {} /\ ~Rendering' /\ ~Down'
  BY <1>1, <1>3, <1>5, NoFrames DEF Rendering, Down
<1>8. RenderingInv' /\ EveryFrameAnnounced' /\ DownInv' /\ FreedReleasesAll'
  BY <1>0, <1>1, <1>3, <1>5, <1>7 DEF CallsInv, RenderingInv, LockedBufferHasConsumer,
     EveryFrameAnnounced, StageInv, DownInv, FreedReleasesAll
<1>9. StageInv'
  BY <1>0, <1>1, <1>3, <1>7 DEF CallsInv, StageInv
<1>10. CASE stage = "applying"
  <2>1. \A x \in BuildingUp(sdk) : Left(x) /\ Left(x)'
    <3>1. \A x \in BuildingUp(sdk) : x # "markStopped"
      BY DEF BuildingUp
    <3>q. QED BY <1>3, <1>10, <3>1
  <2>2. "closeTransaction" \in BuildingUp(sdk) \/ "applyTransaction" \in BuildingUp(sdk)
    BY DEF BuildingUp
  <2>3. Unpublished' /\ ~Published' /\ ~Bare'
    BY <1>1, <1>7, <1>10, <2>1, <2>2 DEF Unpublished, Published, Bare
  <2>4. TransactionInv'
    <3>1. /\ Left("setSurface")' /\ Left("setProjection")' /\ Left("setLayerStack")'
          /\ sdk = 25 => Left("findSetDisplaySurface")'
      BY <2>1 DEF BuildingUp
    <3>2. /\ Left("closeTransaction")' <=> Left("closeTransaction")
          /\ Left("openTransaction")' <=> Left("openTransaction")
      BY <1>3
    <3>q. QED BY <1>0, <1>1, <1>6, <3>1, <3>2 DEF CallsInv, TransactionInv
  <2>5. Prepared'
    BY <2>1 DEF Prepared, BuildingUp
  <2>6. UpInv'
    BY <1>1, <1>5, <2>3, <2>5 DEF UpInv
  <2>q. QED BY <1>8, <1>9, <2>4, <2>6 DEF CallsInv
<1>11. CASE stage = "freeing"
  <2>1. ~Unpublished' /\ ~Published' /\ ~Bare'
    BY <1>1, <1>11 DEF Unpublished, Published, Bare
  <2>2. ~Left("closeTransaction") /\ ~Left("closeTransaction")'
    <3>1. ~Left("closeTransaction")
      BY <1>0, <1>11, OfOperation DEF ProgramInv, Operation, TearingDown
    <3>q. QED BY <1>3, <3>1
  <2>3. TransactionInv'
    BY <1>0, <1>1, <1>6, <1>11, <2>1, <2>2 DEF CallsInv, TransactionInv
  <2>4. UpInv'
    BY <2>1 DEF UpInv
  <2>q. QED BY <1>8, <1>9, <2>3, <2>4 DEF CallsInv
<1>q. QED BY <1>3, <1>10, <1>11

LEMMA DestroyingSteps ==
  ASSUME DisplayInv, Destroying
  PROVE  CallsInv'
BY TearSteps, StoppedStep DEF Destroying

-----------------------------------------------------------------------------
(* The caller's operations.                                                *)

\* Between two operations there is nothing left to do.
LEMMA BetweenOperations ==
  ASSUME ProgramInv, program = <<>>
  PROVE  /\ stage \notin {"applying", "freeing"}
         /\ ~Down /\ ~Unpublished /\ \A x : ~Left(x)
BY DEF ProgramInv, Down, Unpublished, Left, Has

LEMMA ApplyStep ==
  ASSUME DisplayInv, applyConfigChanges
  PROVE  CallsInv'
<1>0. sdk \in Sdks /\ ProgramInv /\ TypeOK /\ CallsInv /\ applies \in Nat
  BY DEF DisplayInv, TypeOK
<1>1. /\ program = <<>> /\ info # NoInfo /\ stage \in {"new", "ready", "failed"}
      /\ applies' = applies + 1 /\ applied' = info /\ stage' = "applying"
      /\ UNCHANGED <<deviceVars, bufferVars, refVars, composerVars>>
      /\ UNCHANGED <<sdk, found, info, mHaveRunningDisplay>>
  BY DEF applyConfigChanges
<1>2. info \in Infos
  BY <1>0, <1>1 DEF TypeOK
<1>3. \A x : Left(x)' <=>
        x \in (IF mHaveRunningDisplay THEN TearingDown(sdk) ELSE {}) \cup BuildingUp(sdk)
  BY <1>0, ApplyBegins
<1>4. ~Unpublished /\ \A x : ~Left(x)
  BY <1>0, <1>1, BetweenOperations
<1>5. changes = {} /\ (nesting = 0 \/ (sdk = 25 /\ ~found))
  BY <1>0, <1>4 DEF CallsInv, TransactionInv, TypeOK, Parts
<1>6. Down' <=> mHaveRunningDisplay
  <2>1. "markStopped" \in TearingDown(sdk) /\ "markStopped" \notin BuildingUp(sdk)
    BY DEF TearingDown, BuildingUp
  <2>q. QED BY <1>3, <2>1 DEF Down
<1>7. \A x \in BuildingUp(sdk) : Left(x)'
  BY <1>3
<1>8. ~Published' /\ ~Bare' /\ (Unpublished' <=> ~mHaveRunningDisplay)
  <2>1. "closeTransaction" \in BuildingUp(sdk) \/ "applyTransaction" \in BuildingUp(sdk)
    BY DEF BuildingUp
  <2>q. QED BY <1>1, <1>6, <1>7, <2>1 DEF Published, Bare, Unpublished
<1>9. Frames' = Frames /\ (Rendering' <=> Rendering)
  BY <1>1 DEF Frames, Rendering
<1>10. StageInv'
  <2>1. mHaveRunningDisplay => applies # 0
    BY <1>0 DEF CallsInv, StageInv
  <2>q. QED BY <1>0, <1>1, <1>2, <1>6, <2>1 DEF StageInv
<1>11. TransactionInv'
  <2>1. /\ Left("setSurface")' /\ Left("setProjection")' /\ Left("setLayerStack")'
        /\ sdk = 25 => Left("findSetDisplaySurface")'
    BY <1>7 DEF BuildingUp
  <2>2. ~Left("closeTransaction")' \/ Left("openTransaction")'
    BY <1>3 DEF BuildingUp, TearingDown
  <2>q. QED BY <1>1, <1>5, <2>1, <2>2 DEF TransactionInv
<1>12. DownInv'
  <2>1. Down' => \A x \in TearingDown(sdk) : Left(x)'
    BY <1>3, <1>6
  <2>q. QED BY <2>1 DEF DownInv, TearingDown
<1>13. Unpublished' => Bare
  BY <1>0, <1>1, <1>8 DEF CallsInv, StageInv, Bare
<1>14. UpInv'
  <2>1. Prepared'
    BY <1>7 DEF Prepared, BuildingUp
  <2>q. QED BY <1>0, <1>1, <1>8, <1>13, <2>1 DEF CallsInv, UpInv
<1>15. RenderingInv' /\ FreedReleasesAll'
  BY <1>0, <1>1, <1>9 DEF CallsInv, RenderingInv, LockedBufferHasConsumer, FreedReleasesAll
<1>16. EveryFrameAnnounced'
  <2> SUFFICES ASSUME applies = 0
               PROVE  mPendingFrames + notifying + taken = Len(queue)
    BY <1>0, <1>1 DEF EveryFrameAnnounced
  <2>1. stage = "new" /\ mPendingFrames = 0 /\ notifying = 0 /\ taken = 0
    BY <1>0 DEF CallsInv, StageInv
  <2>2. queue = <<>>
    BY <1>0, <2>1 DEF CallsInv, UpInv, Bare
  <2>q. QED BY <2>1, <2>2
<1>q. QED BY <1>10, <1>11, <1>12, <1>14, <1>15, <1>16 DEF CallsInv

LEMMA ReleaseStep ==
  ASSUME DisplayInv, release
  PROVE  CallsInv'
<1>0. sdk \in Sdks /\ ProgramInv /\ TypeOK /\ CallsInv
  BY DEF DisplayInv, TypeOK
<1>1. /\ program = <<>> /\ stage \in {"ready", "failed"} /\ stage' = "freeing"
      /\ UNCHANGED <<deviceVars, bufferVars, refVars, composerVars>>
      /\ UNCHANGED <<sdk, found, applies, infoVars, mHaveRunningDisplay>>
  BY DEF release
<1>2. \A x : Left(x)' <=> x \in TearingDown(sdk)
  BY <1>0, ReleaseBegins
<1>3. ~Unpublished /\ \A x : ~Left(x)
  BY <1>0, <1>1, BetweenOperations
<1>4. changes = {} /\ (nesting = 0 \/ (sdk = 25 /\ ~found))
  BY <1>0, <1>3 DEF CallsInv, TransactionInv, TypeOK, Parts
<1>5. ~Published' /\ ~Bare' /\ ~Unpublished' /\ ~Left("closeTransaction")'
  BY <1>1, <1>2 DEF Published, Bare, Unpublished, TearingDown
<1>6. Frames' = Frames /\ (Rendering' <=> Rendering)
  BY <1>1 DEF Frames, Rendering
<1>7. StageInv' /\ TransactionInv'
  BY <1>0, <1>1, <1>4, <1>5 DEF CallsInv, StageInv, TransactionInv
<1>8. DownInv' /\ UpInv'
  BY <1>2, <1>5 DEF DownInv, UpInv, TearingDown
<1>9. RenderingInv' /\ FreedReleasesAll' /\ EveryFrameAnnounced'
  BY <1>0, <1>1, <1>6 DEF CallsInv, RenderingInv, LockedBufferHasConsumer, FreedReleasesAll,
     EveryFrameAnnounced
<1>q. QED BY <1>7, <1>8, <1>9 DEF CallsInv

-----------------------------------------------------------------------------
(* Frames.                                                                 *)

\* A step that makes no call leaves everything it does not touch.
LEMMA QuietKeeps ==
  ASSUME DisplayInv, Quiet, UpInv', RenderingInv', EveryFrameAnnounced',
         Down => mHaveBuffer' = mHaveBuffer /\ (queue = <<>> /\ ~mConsumer => queue' = <<>>),
         stage = "new" => mPendingFrames' = 0 /\ notifying' = 0 /\ taken' = 0,
         stage = "freed" => mHaveBuffer' = mHaveBuffer,
         info' = info \/ program = <<>>
  PROVE  CallsInv'
<1>0. ProgramInv /\ CallsInv /\ stage \in Stages
  BY DEF DisplayInv, TypeOK, Stages
<1>1. UNCHANGED <<sdk, found, stage, applies, applied, mHaveRunningDisplay, program, refVars,
                  composerVars>>
  BY QuietSteps
<1>2. \A x : Left(x)' <=> Left(x)
  BY <1>0, <1>1, QuietProgram
<1>3. /\ Down' <=> Down
      /\ Unpublished' <=> Unpublished
  BY <1>1, <1>2 DEF Down, Unpublished
<1>4. StageInv'
  BY <1>0, <1>1, <1>3, BetweenOperations DEF CallsInv, StageInv
<1>5. TransactionInv'
  BY <1>0, <1>1, <1>2, <1>3 DEF CallsInv, TransactionInv
<1>6. DownInv'
  BY <1>0, <1>1, <1>2, <1>3 DEF CallsInv, DownInv
<1>7. FreedReleasesAll'
  BY <1>0, <1>1 DEF CallsInv, FreedReleasesAll
<1>q. QED BY <1>4, <1>5, <1>6, <1>7 DEF CallsInv

LEMMA QuietPhases ==
  ASSUME DisplayInv, Quiet
  PROVE  /\ Down' <=> Down
         /\ Unpublished' <=> Unpublished
         /\ Published' <=> Published
         /\ Bare' <=> Bare
         /\ Rendering' <=> Rendering
         /\ info' = info => (Prepared' <=> Prepared)
<1>1. UNCHANGED <<sdk, found, stage, applies, applied, mHaveRunningDisplay, program, refVars,
                  composerVars>>
  BY QuietSteps
<1>2. \A x : Left(x)' <=> Left(x)
  BY <1>1, QuietProgram DEF DisplayInv
<1>q. QED BY <1>1, <1>2 DEF Down, Unpublished, Published, Bare, Rendering, Prepared

LEMMA InfoStep ==
  ASSUME DisplayInv, setInfo
  PROVE  CallsInv'
<1>0. ProgramInv /\ CallsInv /\ Quiet
  BY DEF DisplayInv, Quiet
<1>1. /\ program = <<>>
      /\ UNCHANGED <<deviceVars, bufferVars, refVars, composerVars, applied, stage, applies>>
  BY DEF setInfo
<1>2. ~Unpublished /\ ~Down
  BY <1>0, <1>1, BetweenOperations
<1>3. Frames' = Frames
  BY <1>1 DEF Frames
<1>4. UpInv' /\ RenderingInv' /\ EveryFrameAnnounced'
  BY <1>0, <1>1, <1>2, <1>3, QuietPhases DEF CallsInv, UpInv, RenderingInv,
     LockedBufferHasConsumer, EveryFrameAnnounced
<1>q. QED BY <1>0, <1>1, <1>2, <1>4, QuietKeeps DEF CallsInv, StageInv

LEMMA WaitStep ==
  ASSUME DisplayInv, waitForFrame
  PROVE  CallsInv'
<1>0. ProgramInv /\ CallsInv /\ Quiet /\ TypeOK
  BY DEF DisplayInv, Quiet
<1>1. /\ stage = "ready" /\ program = <<>>
      /\ mPendingFrames' = mPendingFrames - 1 /\ taken' = taken + 1
      /\ UNCHANGED <<screen, queue, notifying, bufferVars, refVars, composerVars, flowVars>>
  BY DEF waitForFrame, TakeFrame
<1>2. Frames' = Frames
  BY <1>1 DEF Frames
<1>3. UpInv' /\ RenderingInv'
  BY <1>0, <1>1, <1>2, QuietPhases DEF CallsInv, UpInv, RenderingInv, LockedBufferHasConsumer
<1>4. EveryFrameAnnounced'
  <2>1. mPendingFrames \in Nat /\ taken \in Nat /\ notifying \in Nat
    BY <1>0 DEF TypeOK
  <2>q. QED BY <1>0, <1>1, <2>1 DEF CallsInv, EveryFrameAnnounced
<1>q. QED BY <1>0, <1>1, <1>3, <1>4, QuietKeeps

LEMMA ConsumeStep ==
  ASSUME DisplayInv, consumePendingFrame
  PROVE  CallsInv'
<1>0. ProgramInv /\ CallsInv /\ Quiet /\ TypeOK
  BY DEF DisplayInv, Quiet
<1>1. /\ stage = "ready" /\ program = <<>> /\ queue # <<>>
      /\ mBuffer' = Head(queue) /\ queue' = Tail(queue) /\ mHaveBuffer'
      /\ taken' = taken - 1
      /\ UNCHANGED <<screen, notifying, waiterVars, refVars, composerVars, flowVars>>
  BY DEF consumePendingFrame
<1>2. ~Down /\ ~Unpublished /\ ~Bare /\ Published
  BY <1>0, <1>1, BetweenOperations DEF Bare, Published
<1>3. /\ queue \in Seq(Buffers) /\ taken \in Nat /\ notifying \in Nat /\ mPendingFrames \in Nat
  BY <1>0 DEF TypeOK
<1>4. /\ Len(Tail(queue)) = Len(queue) - 1
      /\ Head(queue) = queue[1] /\ 1 \in DOMAIN queue
      /\ \A i \in DOMAIN Tail(queue) : i + 1 \in DOMAIN queue /\ Tail(queue)[i] = queue[i + 1]
  BY <1>1, <1>3
<1>5. Frames' \subseteq Frames
  <2>1. \A frame \in Frames' :
        frame = Head(queue) \/ \E i \in DOMAIN Tail(queue) : frame = Tail(queue)[i]
    BY <1>1 DEF Frames
  <2>q. QED BY <1>4, <2>1 DEF Frames
<1>6. UpInv'
  BY <1>0, <1>1, <1>2, <1>5, QuietPhases DEF CallsInv, UpInv
<1>7. RenderingInv'
  BY <1>0, <1>1, <1>2, <1>5, QuietPhases DEF CallsInv, UpInv, RenderingInv,
     LockedBufferHasConsumer
<1>8. EveryFrameAnnounced'
  <2>1. Len(queue) \in Nat
    BY <1>3
  <2>q. QED BY <1>0, <1>1, <1>3, <1>4, <2>1 DEF CallsInv, EveryFrameAnnounced
<1>q. QED BY <1>0, <1>1, <1>2, <1>6, <1>7, <1>8, QuietKeeps

LEMMA ReleaseFrameStep ==
  ASSUME DisplayInv, releaseConsumedFrame
  PROVE  CallsInv'
<1>0. ProgramInv /\ CallsInv /\ Quiet
  BY DEF DisplayInv, Quiet
<1>1. /\ stage \in {"ready", "failed"} /\ program = <<>> /\ mHaveBuffer' = FALSE
      /\ UNCHANGED <<mBuffer, deviceVars, refVars, composerVars, flowVars>>
  BY DEF releaseConsumedFrame
<1>2. ~Down /\ ~Unpublished
  BY <1>0, <1>1, BetweenOperations
<1>3. Frames' \subseteq Frames
  BY <1>1, FewerFrames
<1>4. UpInv' /\ RenderingInv' /\ EveryFrameAnnounced'
  BY <1>0, <1>1, <1>2, <1>3, QuietPhases DEF CallsInv, UpInv, RenderingInv,
     LockedBufferHasConsumer, EveryFrameAnnounced
<1>q. QED BY <1>0, <1>1, <1>2, <1>4, QuietKeeps

LEMMA ComposerStep ==
  ASSUME DisplayInv, Composer
  PROVE  CallsInv'
<1>0. ProgramInv /\ CallsInv /\ Quiet /\ TypeOK
  BY DEF DisplayInv, Quiet
<1>1. /\ UNCHANGED <<taken, waiterVars, bufferVars, refVars, composerVars, flowVars, program>>
      /\ queue' # queue => Rendering
      /\ notifying' # notifying => Rendering
  BY DEF Composer, ScreenChanges, ComposerQueues, ComposerReplaces
<1>2. /\ Rendering => mFrameProxy /\ options \in GoodOptions
      /\ Unpublished \/ Bare => ~Rendering
      /\ ~mConsumer => ~Rendering
  BY <1>0 DEF CallsInv, RenderingInv, UpInv, Rendering
<1>3. /\ queue \in Seq(Buffers) /\ taken \in Nat /\ notifying \in Nat /\ mPendingFrames \in Nat
  BY <1>0 DEF TypeOK
<1>4. \A frame \in Frames' : frame \in Frames \/ (Rendering /\ frame.options = options)
  <2> DEFINE b == Buffer(screen')
  <2>0. b.options = options
    BY DEF Buffer
  <2> HIDE DEF b
  <2>1. CASE queue' = queue
    BY <1>1, <2>1 DEF Frames
  <2>2. CASE Rendering /\ queue' = Append(queue, b)
    <3>1. \A i \in DOMAIN queue' :
          (i \in DOMAIN queue /\ queue'[i] = queue[i]) \/ queue'[i] = b
      BY <1>3, <2>2
    <3>q. QED BY <1>1, <2>0, <2>2, <3>1 DEF Frames
  <2>3. CASE Rendering /\ queue' = [queue EXCEPT ![Len(queue)] = b]
    <3>1. \A i \in DOMAIN queue' :
          (i \in DOMAIN queue /\ queue'[i] = queue[i]) \/ queue'[i] = b
      BY <1>3, <2>3
    <3>q. QED BY <1>1, <2>0, <2>3, <3>1 DEF Frames
  <2>q. QED BY <2>1, <2>2, <2>3 DEF Composer, ScreenChanges, ComposerQueues,
        ComposerReplaces, b
<1>5. UpInv'
  <2>1. Unpublished \/ Bare => queue' = queue
    BY <1>1, <1>2
  <2>2. Published => \A frame \in Frames' : frame.options = FrameOptions(applied)
    BY <1>0, <1>4 DEF CallsInv, UpInv
  <2>q. QED BY <1>0, <1>1, <2>1, <2>2, QuietPhases DEF CallsInv, UpInv
<1>6. RenderingInv'
  <2>1. \A frame \in Frames' : frame.options \in GoodOptions
    BY <1>0, <1>2, <1>4 DEF CallsInv, RenderingInv
  <2>q. QED BY <1>0, <1>1, <2>1, QuietPhases DEF CallsInv, RenderingInv,
        LockedBufferHasConsumer
<1>7. EveryFrameAnnounced'
  <2>1. \/ queue' = queue /\ notifying' = notifying
        \/ /\ Len(queue') = Len(queue) + 1
           /\ notifying' = notifying + 1
        \/ Len(queue') = Len(queue) /\ notifying' = notifying
    <3>1. CASE ScreenChanges
      BY <3>1 DEF ScreenChanges
    <3>2. CASE ComposerQueues
      <4>1. Rendering /\ queue' = Append(queue, Buffer(screen'))
            /\ notifying' = IF mFrameProxy THEN notifying + 1 ELSE notifying
        BY <3>2 DEF ComposerQueues
      <4>2. Len(queue') = Len(queue) + 1
        BY <1>3, <4>1
      <4>q. QED BY <1>2, <4>1, <4>2
    <3>3. CASE ComposerReplaces
      <4>1. queue' = [queue EXCEPT ![Len(queue)] = Buffer(screen')]
            /\ notifying' = notifying
        BY <3>3 DEF ComposerReplaces
      <4>2. Len(queue') = Len(queue)
        BY <1>3, <4>1
      <4>q. QED BY <4>1, <4>2
    <3>q. QED BY <3>1, <3>2, <3>3 DEF Composer
  <2>2. Len(queue) \in Nat
    BY <1>3
  <2>3. CASE Len(queue') = Len(queue) /\ notifying' = notifying
    BY <1>0, <1>1, <2>3 DEF CallsInv, EveryFrameAnnounced
  <2>4. CASE Len(queue') = Len(queue) + 1 /\ notifying' = notifying + 1
    BY <1>0, <1>1, <1>3, <2>2, <2>4 DEF CallsInv, EveryFrameAnnounced
  <2>q. QED BY <2>1, <2>3, <2>4
<1>8. stage = "new" => mPendingFrames' = 0 /\ notifying' = 0 /\ taken' = 0
  BY <1>0, <1>1, <1>2 DEF CallsInv, StageInv, Bare
<1>9. queue = <<>> /\ ~mConsumer => queue' = <<>>
  BY <1>1, <1>2
<1>q. QED BY <1>0, <1>1, <1>5, <1>6, <1>7, <1>8, <1>9, QuietKeeps

LEMMA AnnounceStep ==
  ASSUME DisplayInv, FrameProxyCalls
  PROVE  CallsInv'
<1>0. ProgramInv /\ CallsInv /\ Quiet /\ TypeOK
  BY DEF DisplayInv, Quiet
<1>1. /\ notifying > 0 /\ notifying' = notifying - 1 /\ mPendingFrames' = mPendingFrames + 1
      /\ UNCHANGED <<screen, queue, taken, bufferVars, refVars, composerVars, flowVars, program>>
  BY DEF FrameProxyCalls, OnFrameAvailable
<1>2. Frames' = Frames
  BY <1>1 DEF Frames
<1>3. UpInv' /\ RenderingInv'
  BY <1>0, <1>1, <1>2, QuietPhases DEF CallsInv, UpInv, RenderingInv, LockedBufferHasConsumer
<1>4. EveryFrameAnnounced'
  <2>1. mPendingFrames \in Nat /\ taken \in Nat /\ notifying \in Nat
    BY <1>0 DEF TypeOK
  <2>q. QED BY <1>0, <1>1, <2>1 DEF CallsInv, EveryFrameAnnounced
<1>5. stage # "new"
  BY <1>0, <1>1 DEF CallsInv, StageInv
<1>q. QED BY <1>0, <1>1, <1>3, <1>4, <1>5, QuietKeeps

-----------------------------------------------------------------------------

\* The invariant is inductive.
LEMMA DisplayNext ==
  ASSUME DisplayInv, [Next]_vars
  PROVE  DisplayInv'
<1>1. CASE Next
  <2>1. TypeOK' /\ ProgramInv'
    BY <1>1, TypeNext, ProgramNext DEF DisplayInv, CallsInv, TypeOK
  <2>2. CallsInv'
    BY <1>1, CreatingSteps, DestroyingSteps, ApplyStep, ReleaseStep, InfoStep, WaitStep,
       ConsumeStep, ReleaseFrameStep, ComposerStep, AnnounceStep DEF Next, Caller
  <2>q. QED BY <2>1, <2>2 DEF DisplayInv
<1>2. CASE UNCHANGED vars
  <2>1. TypeOK' /\ ProgramInv'
    BY <1>2 DEF DisplayInv, TypeOK, ProgramInv, Left, Operation
  <2>2. CallsInv'
    BY <1>2 DEF DisplayInv, CallsInv, StageInv, TransactionInv, DownInv, UpInv, RenderingInv,
       FreedReleasesAll, EveryFrameAnnounced, LockedBufferHasConsumer, Left, Down, Unpublished,
       Published, Bare, Prepared, Rendering, Frames
  <2>q. QED BY <2>1, <2>2 DEF DisplayInv
<1>q. QED BY <1>1, <1>2

LEMMA DisplayInit ==
  ASSUME Init
  PROVE  DisplayInv
<1> USE DEF Init, WaiterInit
<1>1. \A x : ~Left(x)
  BY DEF Left, Has
<1>2. OwnOptions \in BuffersOptions
  BY DEF BuffersOptions, OwnOptions, Sizes
<1>3. NoFrame \in Buffers
  BY <1>2, DisplayAssumption DEF NoFrame, Buffers
<1>4. TypeOK
  <2>1. Flags
    BY DEF Flags
  <2>2. FlowType
    BY DisplayAssumption DEF FlowType, Stages
  <2>3. ComposerType
    BY <1>2, RectsAreSizes DEF ComposerType
  <2>4. DeviceType
    BY <1>3, DisplayAssumption DEF DeviceType
  <2>q. QED BY <2>1, <2>2, <2>3, <2>4, TypeParts
<1>5. ProgramInv
  BY <1>1 DEF ProgramInv, InOrder
<1>6. ~Down /\ ~Unpublished /\ ~Published /\ Bare /\ Frames = {} /\ ~Rendering
  BY <1>1, NoFrames DEF Down, Unpublished, Published, Bare, Rendering
<1>7. CallsInv
  BY <1>1, <1>6 DEF CallsInv, StageInv, TransactionInv, DownInv, UpInv, RenderingInv,
     FreedReleasesAll, EveryFrameAnnounced, LockedBufferHasConsumer
<1>q. QED BY <1>4, <1>5, <1>7 DEF DisplayInv

(* Every reachable state of the virtual display satisfies DisplayInv: what  *)
(* each call of createVirtualDisplay() and destroyVirtualDisplay() finds    *)
(* when it is made, and what it leaves behind.                              *)
THEOREM DisplayInvariance == Spec => []DisplayInv
<1>1. Init => DisplayInv
  BY DisplayInit
<1>2. DisplayInv /\ [Next]_vars => DisplayInv'
  BY DisplayNext
<1>q. QED BY <1>1, <1>2, PTL DEF Spec

-----------------------------------------------------------------------------
(* What follows from it.                                                   *)

(* Every variable keeps to its type.                                       *)
THEOREM DisplayTypes == Spec => []TypeOK
<1>1. DisplayInv => TypeOK
  BY DEF DisplayInv
<1>q. QED BY <1>1, DisplayInvariance, PTL

(* SurfaceFlinger renders into no queue that is not ready for it, whatever *)
(* the order in which an SDK's createVirtualDisplay() and                  *)
(* destroyVirtualDisplay() make their calls: no frame is of another size   *)
(* than the rectangle it is shown in, and none arrives unnoticed.          *)
THEOREM RendersReady == Spec => []RendersOnlyWhenReady
<1>1. DisplayInv => RendersOnlyWhenReady
  BY DEF DisplayInv, CallsInv, RenderingInv, RendersOnlyWhenReady, Rendering
<1>q. QED BY <1>1, DisplayInvariance, PTL

(* "After the configuration has been applied, new frames should satisfy    *)
(* the requirements." (Minicap.hpp:101), for every size and orientation and *)
(* however often the configuration changes.                                *)
THEOREM FramesAsAsked == Spec => []NewFramesSatisfy
<1>1. DisplayInv => NewFramesSatisfy
  <2> SUFFICES ASSUME DisplayInv, stage = "ready", NEW frame \in Frames
               PROVE  LET size == frame.options.size
                          asked == applied.desired
                      IN  IF OnItsSide(applied.orientation)
                          THEN size.width = asked.height /\ size.height = asked.width
                          ELSE size = asked
    BY DEF NewFramesSatisfy
  <2>1. frame.options = FrameOptions(applied)
    BY DEF DisplayInv, CallsInv, UpInv, Published
  <2>2. frame.options.size = Rects(applied).target
    BY <2>1 DEF FrameOptions
  <2>q. QED BY <2>2 DEF Rects, Turned, OnItsSide
<1>q. QED BY <1>1, DisplayInvariance, PTL

\* Proportions turn with the sizes.
LEMMA TurnedInProportion ==
  ASSUME NEW size \in Sizes, NEW whole \in Sizes, InProportion(size, whole)
  PROVE  InProportion(Turned(size), Turned(whole))
<1> DEFINE a == size.width * whole.height
           b == size.height * whole.width
<1>1. a \in Nat /\ b \in Nat /\ whole.width \in Nat /\ whole.height \in Nat
  BY DEF Sizes
<1>2. \/ 2 * (a - b) \in -whole.width .. whole.width
      \/ 2 * (a - b) \in -whole.height .. whole.height
  BY DEF InProportion
<1>3. /\ Turned(size).width * Turned(whole).height = b
      /\ Turned(size).height * Turned(whole).width = a
      /\ Turned(whole).width = whole.height /\ Turned(whole).height = whole.width
  BY DEF Turned, Sizes
<1> HIDE DEF a, b
<1>4. \/ 2 * (b - a) \in -whole.height .. whole.height
      \/ 2 * (b - a) \in -whole.width .. whole.width
  BY <1>1, <1>2
<1>q. QED BY <1>3, <1>4 DEF InProportion

(* The screen is shown whole and with its proportions, whichever way it is *)
(* turned, in every orientation of every implementation's switch.          *)
THEOREM ShownWhole == Spec => []ShownInProportion
<1>1. DisplayInv => ShownInProportion
  <2> SUFFICES ASSUME DisplayInv, stage = "ready", Rendering
               PROVE  /\ IF OnItsSide(applied.orientation)
                         THEN shown.source.width = Real.height
                              /\ shown.source.height = Real.width
                         ELSE shown.source = Real
                      /\ InProportion(options.size, shown.source)
    BY DEF ShownInProportion
  <2>1. applied \in Infos
    BY DEF DisplayInv, CallsInv, StageInv
  <2>2. shown = Rects(applied) /\ options.size = Rects(applied).target
    BY DEF DisplayInv, CallsInv, UpInv, Published, Rendering, FrameOptions
  <2>3. /\ applied.real = Real /\ applied.desired \in Desired
        /\ Real \in Sizes /\ applied.desired \in Sizes
        /\ InProportion(applied.desired, Real)
    BY <2>1, DisplayAssumption DEF Infos
  <2>4. CASE OnItsSide(applied.orientation)
    <3>1. shown.source = Turned(Real) /\ options.size = Turned(applied.desired)
      BY <2>2, <2>3, <2>4 DEF Rects, OnItsSide
    <3>q. QED BY <2>3, <2>4, <3>1, TurnedInProportion DEF Turned
  <2>5. CASE ~OnItsSide(applied.orientation)
    <3>1. shown.source = Real /\ options.size = applied.desired
      BY <2>2, <2>3, <2>5 DEF Rects, OnItsSide
    <3>q. QED BY <2>3, <2>5, <3>1
  <2>q. QED BY <2>4, <2>5
<1>q. QED BY <1>1, DisplayInvariance, PTL

\* A smaller frame needs no larger buffer.
LEMMA SmallerBuffer ==
  ASSUME NEW a \in Nat, NEW b \in Nat, NEW c \in Nat, NEW d \in Nat, a <= c, b <= d
  PROVE  (3 * Padded(a) * Padded(b)) \div 2 <= (3 * Padded(c) * Padded(d)) \div 2
<1>1. \A n \in Nat : Padded(n) \in Nat
  BY DEF Padded
<1>2. Padded(a) <= Padded(c) /\ Padded(b) <= Padded(d)
  BY DEF Padded
<1> DEFINE p == Padded(a)
           q == Padded(b)
           r == Padded(c)
           s == Padded(d)
<1>3. p \in Nat /\ q \in Nat /\ r \in Nat /\ s \in Nat /\ p <= r /\ q <= s
  BY <1>1, <1>2
<1> HIDE DEF p, q, r, s
<1>4. p * q <= r * q /\ r * q <= r * s
  BY <1>3
<1>5. p * q \in Nat /\ r * s \in Nat /\ p * q <= r * s
  BY <1>3, <1>4
<1> DEFINE x == p * q
           y == r * s
<1>6. 3 * p * q = 3 * x /\ 3 * r * s = 3 * y
  BY <1>3
<1>7. x \in Nat /\ y \in Nat /\ x <= y
  BY <1>5
<1> HIDE DEF x, y
<1>8. (3 * x) \div 2 <= (3 * y) \div 2
  BY <1>7
<1>q. QED BY <1>6, <1>8 DEF p, q, r, s

(* Every frame that is handed out has a format JpgEncoder takes, and fits  *)
(* the buffer that was reserved for the real size, whichever way it is     *)
(* turned.                                                                 *)
THEOREM HandedOutEncodable == Spec => []FramesEncodable
<1>1. DisplayInv => FramesEncodable
  <2> SUFFICES ASSUME DisplayInv, mHaveBuffer
               PROVE  /\ convertFormat(mBuffer.options.format) \in EncodableFormats
                      /\ tjBufSize(mBuffer.options.size) <= tjBufSize(Real)
    BY DEF FramesEncodable
  <2>1. mBuffer.options \in GoodOptions
    BY DEF DisplayInv, CallsInv, RenderingInv, Frames
  <2>2. PICK i \in Infos : mBuffer.options = FrameOptions(i)
    BY <2>1 DEF GoodOptions
  <2>3. /\ i.desired \in Sizes /\ Real \in Sizes
        /\ i.desired.width <= Real.width /\ i.desired.height <= Real.height
    BY DisplayAssumption DEF Infos
  <2>4. mBuffer.options.format = "RGBA_8888" /\ mBuffer.options.size = Rects(i).target
    BY <2>2 DEF FrameOptions
  <2>5. convertFormat(mBuffer.options.format) \in EncodableFormats
    BY <2>4 DEF convertFormat, NamedFormats, EncodableFormats
  <2>6. Rects(i).target = i.desired \/ Rects(i).target = Turned(i.desired)
    BY DEF Rects
  <2>7. \A n \in Nat : Padded(n) \in Nat
    BY DEF Padded
  <2> DEFINE w == i.desired.width
             h == i.desired.height
             W == Real.width
             H == Real.height
  <2>8. w \in Nat /\ h \in Nat /\ W \in Nat /\ H \in Nat /\ w <= W /\ h <= H
    BY <2>3 DEF Sizes
  <2>9. tjBufSize(Real) = (3 * Padded(W) * Padded(H)) \div 2 + 2048
    BY DEF tjBufSize
  <2>10. \/ tjBufSize(mBuffer.options.size) = (3 * Padded(w) * Padded(h)) \div 2 + 2048
         \/ tjBufSize(mBuffer.options.size) = (3 * Padded(h) * Padded(w)) \div 2 + 2048
    BY <2>4, <2>6 DEF tjBufSize, Turned
  <2> HIDE DEF w, h, W, H
  <2>11. 3 * Padded(h) * Padded(w) = 3 * Padded(w) * Padded(h)
    BY <2>7, <2>8
  <2>12. (3 * Padded(w) * Padded(h)) \div 2 <= (3 * Padded(W) * Padded(H)) \div 2
    BY <2>8, SmallerBuffer
  <2> DEFINE less == (3 * Padded(w) * Padded(h)) \div 2
             more == (3 * Padded(W) * Padded(H)) \div 2
  <2>13. less \in Int /\ more \in Int
    BY <2>7, <2>8
  <2>14. less <= more /\ tjBufSize(Real) = more + 2048
         /\ tjBufSize(mBuffer.options.size) = less + 2048
    BY <2>9, <2>10, <2>11, <2>12
  <2> HIDE DEF less, more
  <2>q. QED BY <2>5, <2>13, <2>14
<1>q. QED BY <1>1, DisplayInvariance, PTL

(* A locked buffer can be unlocked: no call drops the consumer before.     *)
THEOREM UnlockedByConsumer == Spec => []LockedBufferHasConsumer
<1>1. DisplayInv => LockedBufferHasConsumer
  BY DEF DisplayInv, CallsInv, RenderingInv
<1>q. QED BY <1>1, DisplayInvariance, PTL

(* An operation that has returned, failed or not, leaves no transaction    *)
(* open and no change in one, except where setDisplaySurface() is missing. *)
THEOREM TransactionsClose == Spec => []TransactionClosed
<1>1. DisplayInv => TransactionClosed
  <2> SUFFICES ASSUME DisplayInv, program = <<>>
               PROVE  (nesting = 0 /\ changes = {}) \/ (sdk = 25 /\ ~found)
    BY DEF TransactionClosed
  <2>1. ~Unpublished /\ \A x : ~Left(x)
    BY BetweenOperations DEF DisplayInv
  <2>q. QED BY <2>1 DEF DisplayInv, CallsInv, TransactionInv, TypeOK, Parts
<1>q. QED BY <1>1, DisplayInvariance, PTL

(* Freeing releases everything, whatever failed before.                    *)
THEOREM FreeReleasesAll == Spec => []FreedReleasesAll
<1>1. DisplayInv => FreedReleasesAll
  BY DEF DisplayInv, CallsInv
<1>q. QED BY <1>1, DisplayInvariance, PTL

(* Until the configuration is applied again, frames queued, announced and  *)
(* waited for are counted exactly, whichever call frames arrive between.   *)
THEOREM FramesAnnounced == Spec => []EveryFrameAnnounced
<1>1. DisplayInv => EveryFrameAnnounced
  BY DEF DisplayInv, CallsInv
<1>q. QED BY <1>1, DisplayInvariance, PTL

=============================================================================
