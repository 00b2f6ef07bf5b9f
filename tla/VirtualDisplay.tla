--------------------------- MODULE VirtualDisplay ---------------------------
(***************************************************************************)
(* class MinicapImpl of minicap_17.cpp to minicap_29.cpp, one call to      *)
(* Android at a time: what SurfaceFlinger, the BufferQueue and the binder  *)
(* threads can do between two calls, and what is left when one fails.      *)
(*                                                                         *)
(* program holds the calls the current operation has still to make.        *)
(* Android is modelled from how the code uses it.                          *)
(***************************************************************************)
EXTENDS FrameWaiter, VirtualDisplaySdks, FrameGeometry

CONSTANTS
  Real,         \* what setRealInfo() is given
  Desired,      \* the sizes setDesiredInfo() may be given
  MaxQueued,    \* buffers that can be queued at a time
  MaxScreen,    \* bound: the number of screen contents of a behaviour
  MaxApply      \* bound: calls of applyConfigChanges()

ASSUME DisplayAssumption ==
  /\ Real \in Sizes
  /\ Desired \subseteq Sizes
  /\ \A size \in Desired :
       /\ size.width <= Real.width /\ size.height <= Real.height
       /\ InProportion(size, Real)
  /\ MaxQueued \in Nat \ {0}
  /\ MaxScreen \in Nat \ {0}
  /\ MaxApply \in Nat \ {0}

Parts == {"surface", "projection", "layerStack"}

\* mRealWidth and mRealHeight; mDesiredWidth, mDesiredHeight and
\* mDesiredOrientation
Infos == [real : {Real}, desired : Desired, orientation : 0 .. 3]

Nothing == [width |-> 0, height |-> 0]
NoInfo == [real |-> Nothing, desired |-> Nothing, orientation |-> 0]

\* What is queued before the size and the format are set.
OwnOptions == [size |-> [width |-> 1, height |-> 1], format |-> "IMPLEMENTATION_DEFINED"]

\* A buffer: the screen content it shows, with its size and format.
NoFrame == [screen |-> 0, options |-> OwnOptions]

VARIABLES
  sdk,                  \* which of the implementations this is
  found,                \* SDK 25: setDisplaySurface() has a name it knows
  stage,                \* where the instance is in its life
  program,              \* calls the operation in progress has still to make
  applies,              \* calls of applyConfigChanges() so far
  info,                 \* what setRealInfo() and setDesiredInfo() were given
  applied,              \* info when applyConfigChanges() was last called
  mVirtualDisplay,      \* a display token is held
  mBufferQueue,         \* a reference to the queue (its producer) is held
  mConsumer,            \* a CpuConsumer is held
  mFrameProxy,          \* the consumer has a listener
  mHaveBuffer, mBuffer, \* the locked buffer
  mHaveRunningDisplay,
  nesting,              \* global transactions opened and not closed
  changes,              \* what the open transaction will set
  composed,             \* what SurfaceFlinger knows of the display
  shown,                \* the rectangles of its projection
  options,              \* size and format of the buffers queued from now on
  abandoned,            \* the queue's consumer is gone
  screen, queue, notifying,  \* as in Capture
  taken                 \* frames the caller has waited for, not yet consumed

deviceVars == <<screen, queue, notifying, taken, waiterVars>>
bufferVars == <<mHaveBuffer, mBuffer>>
refVars == <<mVirtualDisplay, mBufferQueue, mConsumer, mFrameProxy>>
composerVars == <<nesting, changes, composed, shown, options, abandoned>>
infoVars == <<info, applied>>
flowVars == <<sdk, found, stage, applies, infoVars, mHaveRunningDisplay>>
vars == <<deviceVars, bufferVars, refVars, composerVars, flowVars, program>>

Init ==
  /\ WaiterInit
  /\ sdk \in Sdks /\ found \in BOOLEAN /\ (sdk # 25 => found)
  /\ stage = "new" /\ program = <<>> /\ applies = 0
  /\ mVirtualDisplay = FALSE /\ mBufferQueue = FALSE
  /\ mConsumer = FALSE /\ mFrameProxy = FALSE
  /\ mHaveBuffer = FALSE /\ mBuffer = NoFrame /\ mHaveRunningDisplay = FALSE
  /\ info = NoInfo /\ applied = NoInfo
  /\ nesting = 0 /\ changes = {} /\ composed = {}
  /\ shown = Rects(NoInfo) /\ options = OwnOptions /\ abandoned = FALSE
  /\ screen = 1 /\ queue = <<>> /\ notifying = 0 /\ taken = 0

-----------------------------------------------------------------------------
(* The calls of an operation.                                              *)

Calls(name) ==
  /\ program # <<>>
  /\ Head(program) = name
  /\ program' = Tail(program)

initCheck ==
  /\ Calls("initCheck")
  /\ UNCHANGED <<deviceVars, bufferVars, refVars, composerVars, flowVars>>

\* A call that fails ends the operation there and then.
Fails(name) ==
  /\ program # <<>>
  /\ Head(program) = name
  /\ program' = <<>>
  /\ stage' = "failed"
  /\ UNCHANGED <<deviceVars, bufferVars, refVars, composerVars>>
  /\ UNCHANGED <<sdk, found, applies, infoVars, mHaveRunningDisplay>>

\* The result is not looked at: there may be no display.  The token of an
\* earlier display is dropped, and the display with it.
createDisplay ==
  /\ Calls("createDisplay")
  /\ mVirtualDisplay' \in BOOLEAN
  /\ composed' = {}
  /\ UNCHANGED <<deviceVars, bufferVars, flowVars, nesting, changes, shown, options, abandoned>>
  /\ UNCHANGED <<mBufferQueue, mConsumer, mFrameProxy>>

\* A queue of its own: with options of its own, and a consumer to come.
FreshQueue ==
  /\ queue' = <<>>
  /\ options' = OwnOptions
  /\ abandoned' = FALSE

SameQueue == UNCHANGED <<queue, options, abandoned>>

\* getBufferQueue() of the consumer, ScreenshotClient's mBufferQueue, which is
\* made once and stays ScreenshotClient's, or createBufferQueue()
takeQueue ==
  /\ Calls("takeQueue")
  /\ mBufferQueue' = TRUE
  /\ IF sdk <= 19 THEN SameQueue ELSE FreshQueue
  /\ UNCHANGED <<bufferVars, flowVars, nesting, changes, composed, shown>>
  /\ UNCHANGED <<mVirtualDisplay, mConsumer, mFrameProxy>>
  /\ UNCHANGED <<screen, notifying, taken, waiterVars>>

\* CpuConsumer(3), which makes its queue, or CpuConsumer(queue, 3, false)
newConsumer ==
  /\ Calls("newConsumer")
  /\ mConsumer' = TRUE
  /\ mFrameProxy' = FALSE
  /\ IF sdk <= 18 THEN FreshQueue ELSE SameQueue
  /\ UNCHANGED <<bufferVars, flowVars, nesting, changes, composed, shown>>
  /\ UNCHANGED <<mVirtualDisplay, mBufferQueue>>
  /\ UNCHANGED <<screen, notifying, taken, waiterVars>>

setDefaultBufferSize ==
  /\ Calls("setDefaultBufferSize")
  /\ options' = [options EXCEPT !.size = Rects(info).target]
  /\ UNCHANGED <<deviceVars, bufferVars, refVars, flowVars>>
  /\ UNCHANGED <<nesting, changes, composed, shown, abandoned>>

setDefaultBufferFormat ==
  /\ Calls("setDefaultBufferFormat")
  /\ options' = [options EXCEPT !.format = "RGBA_8888"]
  /\ UNCHANGED <<deviceVars, bufferVars, refVars, flowVars>>
  /\ UNCHANGED <<nesting, changes, composed, shown, abandoned>>

setListener ==
  /\ Calls("setListener")
  /\ mFrameProxy' = TRUE
  /\ UNCHANGED <<deviceVars, bufferVars, composerVars, flowVars>>
  /\ UNCHANGED <<mVirtualDisplay, mBufferQueue, mConsumer>>

openTransaction ==
  /\ Calls("openTransaction")
  /\ nesting' = nesting + 1
  /\ UNCHANGED <<deviceVars, bufferVars, refVars, flowVars>>
  /\ UNCHANGED <<changes, composed, shown, options, abandoned>>

findSetDisplaySurface ==
  \/ /\ found
     /\ Calls("findSetDisplaySurface")
     /\ UNCHANGED <<deviceVars, bufferVars, refVars, composerVars, flowVars>>
  \/ ~found /\ Fails("findSetDisplaySurface")

Sets(name, part) ==
  /\ Calls(name)
  /\ changes' = changes \cup {part}
  /\ UNCHANGED <<deviceVars, bufferVars, refVars, flowVars>>
  /\ UNCHANGED <<nesting, composed, shown, options, abandoned>>

\* What was set reaches SurfaceFlinger as one change, if there is a display.
\* The rectangles are those of the operation that set them.
Commit ==
  /\ IF mVirtualDisplay
     THEN /\ composed' = composed \cup changes
          /\ shown' = IF "projection" \in changes THEN Rects(info) ELSE shown
     ELSE UNCHANGED <<composed, shown>>
  /\ changes' = {}

\* A global transaction takes effect when the outermost one is closed.
closeTransaction ==
  /\ Calls("closeTransaction")
  /\ nesting' = nesting - 1
  /\ IF nesting = 1 THEN Commit ELSE UNCHANGED <<composed, shown, changes>>
  /\ UNCHANGED <<deviceVars, bufferVars, refVars, flowVars, options, abandoned>>

applyTransaction ==
  /\ Calls("applyTransaction")
  /\ Commit
  /\ UNCHANGED <<deviceVars, bufferVars, refVars, flowVars>>
  /\ UNCHANGED <<nesting, options, abandoned>>

markRunning ==
  /\ Calls("markRunning")
  /\ mHaveRunningDisplay' = TRUE
  /\ stage' = "ready"
  /\ UNCHANGED <<deviceVars, bufferVars, refVars, composerVars>>
  /\ UNCHANGED <<sdk, found, applies, infoVars>>

destroyDisplay ==
  /\ Calls("destroyDisplay")
  /\ composed' = {}
  /\ UNCHANGED <<deviceVars, bufferVars, refVars, flowVars, nesting, changes, shown, options, abandoned>>

unlock ==
  /\ Calls("unlock")
  /\ mHaveBuffer' = FALSE
  /\ UNCHANGED <<mBuffer, deviceVars, refVars, composerVars, flowVars>>

dropQueue ==
  /\ Calls("dropQueue")
  /\ mBufferQueue' = FALSE
  /\ UNCHANGED <<deviceVars, bufferVars, composerVars, flowVars>>
  /\ UNCHANGED <<mVirtualDisplay, mConsumer, mFrameProxy>>

\* The consumer abandons the queue; what is in it is lost.
dropConsumer ==
  /\ Calls("dropConsumer")
  /\ mConsumer' = FALSE
  /\ queue' = <<>>
  /\ abandoned' = TRUE
  /\ UNCHANGED <<bufferVars, flowVars, nesting, changes, composed, shown, options>>
  /\ UNCHANGED <<mVirtualDisplay, mBufferQueue, mFrameProxy>>
  /\ UNCHANGED <<screen, notifying, taken, waiterVars>>

dropProxy ==
  /\ Calls("dropProxy")
  /\ mFrameProxy' = FALSE
  /\ UNCHANGED <<deviceVars, bufferVars, composerVars, flowVars>>
  /\ UNCHANGED <<mVirtualDisplay, mBufferQueue, mConsumer>>

\* SurfaceFlinger removes a display whose token is gone.
dropDisplay ==
  /\ Calls("dropDisplay")
  /\ mVirtualDisplay' = FALSE
  /\ composed' = {}
  /\ UNCHANGED <<deviceVars, bufferVars, flowVars, nesting, changes, shown, options, abandoned>>
  /\ UNCHANGED <<mBufferQueue, mConsumer, mFrameProxy>>

markStopped ==
  /\ Calls("markStopped")
  /\ mHaveRunningDisplay' = FALSE
  /\ stage' = IF stage = "freeing" THEN "freed" ELSE stage
  /\ UNCHANGED <<deviceVars, bufferVars, refVars, composerVars>>
  /\ UNCHANGED <<sdk, found, applies, infoVars>>

Creating ==
  \/ initCheck \/ Fails("initCheck") \/ createDisplay \/ takeQueue
  \/ newConsumer \/ setDefaultBufferSize \/ setDefaultBufferFormat
  \/ setListener \/ openTransaction \/ findSetDisplaySurface
  \/ Sets("setSurface", "surface") \/ Sets("setProjection", "projection")
  \/ Sets("setLayerStack", "layerStack")
  \/ closeTransaction \/ applyTransaction \/ markRunning

Destroying ==
  \/ destroyDisplay \/ unlock \/ dropQueue \/ dropConsumer \/ dropProxy
  \/ dropDisplay \/ markStopped

-----------------------------------------------------------------------------
(* The operations, as a caller that keeps to Minicap.hpp makes them.       *)

\* setRealInfo() and setDesiredInfo(); the frames are told apart from the
\* next applyConfigChanges() on.
setInfo ==
  /\ program = <<>>
  /\ stage \in {"new", "ready", "failed"}
  /\ applies < MaxApply
  /\ info' \in Infos
  /\ UNCHANGED <<deviceVars, bufferVars, refVars, composerVars, program>>
  /\ UNCHANGED <<sdk, found, stage, applies, applied, mHaveRunningDisplay>>

applyConfigChanges ==
  /\ program = <<>>
  /\ info # NoInfo
  /\ stage \in {"new", "ready", "failed"}
  /\ applies < MaxApply
  /\ applies' = applies + 1
  /\ applied' = info
  /\ stage' = "applying"
  /\ program' = (IF mHaveRunningDisplay THEN destroyVirtualDisplay(sdk) ELSE <<>>)
                  \o createVirtualDisplay(sdk)
  /\ UNCHANGED <<deviceVars, bufferVars, refVars, composerVars>>
  /\ UNCHANGED <<sdk, found, info, mHaveRunningDisplay>>

waitForFrame ==
  /\ program = <<>> /\ stage = "ready"
  /\ TakeFrame(mPendingFrames)
  /\ taken' = taken + 1
  /\ UNCHANGED <<screen, queue, notifying, bufferVars, refVars, composerVars>>
  /\ UNCHANGED <<flowVars, program>>

\* lockNextBuffer() that finds a buffer; otherwise nothing changes.
consumePendingFrame ==
  /\ program = <<>> /\ stage = "ready"
  /\ taken > 0 /\ ~mHaveBuffer
  /\ queue # <<>>
  /\ mBuffer' = Head(queue)
  /\ queue' = Tail(queue)
  /\ mHaveBuffer' = TRUE
  /\ taken' = taken - 1
  /\ UNCHANGED <<screen, notifying, waiterVars, refVars, composerVars>>
  /\ UNCHANGED <<flowVars, program>>

releaseConsumedFrame ==
  /\ program = <<>> /\ stage \in {"ready", "failed"}
  /\ mHaveBuffer
  /\ mHaveBuffer' = FALSE
  /\ UNCHANGED <<mBuffer, deviceVars, refVars, composerVars, flowVars, program>>

\* minicap_free(), also of an instance whose configuration failed
release ==
  /\ program = <<>>
  /\ stage \in {"ready", "failed"}
  /\ stage' = "freeing"
  /\ program' = destroyVirtualDisplay(sdk)
  /\ UNCHANGED <<deviceVars, bufferVars, refVars, composerVars>>
  /\ UNCHANGED <<sdk, found, applies, infoVars, mHaveRunningDisplay>>

Caller ==
  \/ setInfo \/ applyConfigChanges \/ waitForFrame \/ consumePendingFrame
  \/ releaseConsumedFrame \/ release

-----------------------------------------------------------------------------
(* SurfaceFlinger and the binder threads.                                  *)

\* Frames flow from a display that has a surface whose queue has a consumer.
Rendering ==
  mVirtualDisplay /\ "surface" \in composed /\ mConsumer /\ ~abandoned

Buffer(n) == [screen |-> n, options |-> options]

\* No frame of the change: nothing is rendered, or every buffer is taken.
ScreenChanges ==
  /\ Rendering => Len(queue) = MaxQueued
  /\ screen < MaxScreen
  /\ screen' = screen + 1
  /\ UNCHANGED <<queue, notifying>>

\* A queued frame is announced if there is a listener when it arrives.
ComposerQueues ==
  /\ Rendering
  /\ screen < MaxScreen
  /\ Len(queue) < MaxQueued
  /\ screen' = screen + 1
  /\ queue' = Append(queue, Buffer(screen'))
  /\ notifying' = IF mFrameProxy THEN notifying + 1 ELSE notifying

ComposerReplaces ==
  /\ Rendering
  /\ screen < MaxScreen
  /\ queue # <<>>
  /\ screen' = screen + 1
  /\ queue' = [queue EXCEPT ![Len(queue)] = Buffer(screen')]
  /\ UNCHANGED notifying

Composer ==
  /\ ScreenChanges \/ ComposerQueues \/ ComposerReplaces
  /\ UNCHANGED <<taken, waiterVars, bufferVars, refVars, composerVars>>
  /\ UNCHANGED <<flowVars, program>>

\* A call in progress keeps the proxy alive when the instance drops it.
FrameProxyCalls ==
  /\ notifying > 0
  /\ notifying' = notifying - 1
  /\ OnFrameAvailable
  /\ UNCHANGED <<screen, queue, taken, bufferVars, refVars, composerVars>>
  /\ UNCHANGED <<flowVars, program>>

Next == Creating \/ Destroying \/ Caller \/ Composer \/ FrameProxyCalls

Spec == Init /\ [][Next]_vars

-----------------------------------------------------------------------------

BuffersOptions == [size : Sizes, format : Formats \cup {OwnOptions.format}]
Buffers == [screen : 0 .. MaxScreen, options : BuffersOptions]

TypeOK ==
  /\ sdk \in Sdks /\ applies \in 0 .. MaxApply
  /\ stage \in {"new", "applying", "ready", "failed", "freeing", "freed"}
  /\ {info, applied} \subseteq Infos \cup {NoInfo}
  /\ {mVirtualDisplay, mBufferQueue, mConsumer, mFrameProxy, mHaveBuffer,
      mHaveRunningDisplay, abandoned, mStopped, found} \subseteq BOOLEAN
  /\ nesting \in Nat /\ changes \subseteq Parts /\ composed \subseteq Parts
  /\ shown \in [source : Sizes, target : Sizes] /\ options \in BuffersOptions
  /\ screen \in 1 .. MaxScreen /\ mBuffer \in Buffers
  /\ queue \in Seq(Buffers) /\ Len(queue) <= MaxQueued
  /\ notifying \in Nat /\ taken \in Nat /\ mPendingFrames \in Nat

(* A display renders only into a queue that is ready for it: its projection *)
(* and layer stack are set, its buffers are as large as the rectangle it is *)
(* shown in, and the listener is there, so that no frame arrives unnoticed  *)
(* (every SDK).                                                             *)
RendersOnlyWhenReady ==
  Rendering => composed = Parts /\ options.size = shown.target /\ mFrameProxy

-----------------------------------------------------------------------------
(* The frames a caller holds or can still be given.                        *)

Frames ==
  {queue[i] : i \in DOMAIN queue} \cup (IF mHaveBuffer THEN {mBuffer} ELSE {})

OnItsSide(orientation) == orientation \in {ORIENTATION_90, ORIENTATION_270}

(* "After the configuration has been applied, new frames should satisfy the *)
(* requirements." (Minicap.hpp:101): when applyConfigChanges() has returned, *)
(* every frame, queued or held, has the size the last one applied asks for,  *)
(* in the orientation it asks for, though frames of another configuration   *)
(* were queued, announced or held before, and others arrived in between.    *)
NewFramesSatisfy ==
  stage = "ready" =>
    \A frame \in Frames :
      LET size == frame.options.size
          asked == applied.desired
      IN  IF OnItsSide(applied.orientation)
          THEN size.width = asked.height /\ size.height = asked.width
          ELSE size = asked

(* The screen is shown whole and with its proportions: the frame's shape is *)
(* that of the display as it is turned, as near as the desired size is to   *)
(* the real one.                                                            *)
ShownInProportion ==
  (stage = "ready" /\ Rendering) =>
    /\ IF OnItsSide(applied.orientation)
       THEN shown.source.width = Real.height /\ shown.source.height = Real.width
       ELSE shown.source = Real
    /\ InProportion(options.size, shown.source)

(* Every frame that is handed out can be encoded: JpgEncoder knows what     *)
(* convertFormat() makes of its format, so main() is not aborted by an      *)
(* exception, and the buffer that was reserved for the real size, whichever *)
(* way that is turned, has room for it.                                     *)
FramesEncodable ==
  mHaveBuffer =>
    /\ convertFormat(mBuffer.options.format) \in EncodableFormats
    /\ tjBufSize(mBuffer.options.size) <= tjBufSize(Real)

-----------------------------------------------------------------------------

(* A locked buffer has a consumer to unlock it: no path drops mConsumer     *)
(* with a buffer held, and releaseConsumedFrame() and destroyVirtualDisplay *)
(* never go through a null mConsumer.                                       *)
LockedBufferHasConsumer == mHaveBuffer => mConsumer

(* No transaction stays open when an operation has returned, but where SDK  *)
(* 25 does not find setDisplaySurface() and returns between open and close. *)
TransactionClosed ==
  program = <<>> => (nesting = 0 /\ changes = {}) \/ (sdk = 25 /\ ~found)

(* Freeing releases everything, also after a configuration that failed half *)
(* way and left mHaveRunningDisplay unset.                                  *)
FreedReleasesAll ==
  stage = "freed" =>
    /\ ~mVirtualDisplay /\ ~mBufferQueue /\ ~mConsumer /\ ~mFrameProxy
    /\ ~mHaveBuffer /\ ~mHaveRunningDisplay /\ composed = {}

(* Every frame queued is announced, whichever call the operation has got to *)
(* when it arrives; a second configuration alone leaves counted frames of   *)
(* the queue it has dropped.                                                *)
EveryFrameAnnounced ==
  (applies = 1 /\ stage \in {"applying", "ready"}) =>
    mPendingFrames + notifying + taken = Len(queue)

\* The contract, with the display published while it mirrors the screen.
Contract == INSTANCE CaptureContract WITH
  Method <- "VIRTUAL_DISPLAY",
  SpuriousEINTR <- TRUE,
  MayLackDisplay <- TRUE,
  queue <- [i \in DOMAIN queue |-> queue[i].screen],
  held <- IF mHaveBuffer THEN mBuffer.screen ELSE NoFrame.screen,
  running <- Rendering /\ composed = Parts

(* Each SDK's sequence of calls implements the contract of CaptureContract: *)
(* publication and everything else the caller relies on is atomic and       *)
(* ordered, whatever the composer does between two calls.                   *)
ImplementsContract == Contract!ContractSpec

=============================================================================
