----------------------- MODULE VirtualDisplayInvariant -----------------------
(***************************************************************************)
(* The inductive invariant of VirtualDisplay: which calls an operation has *)
(* left, and what each call it has made has left behind.                   *)
(***************************************************************************)
EXTENDS VirtualDisplay

-----------------------------------------------------------------------------
(* The calls of an operation and their order.                              *)

CallNames ==
  {"destroyDisplay", "unlock", "dropQueue", "dropConsumer", "dropProxy", "dropDisplay",
   "markStopped", "initCheck", "createDisplay", "takeQueue", "newConsumer",
   "setDefaultBufferSize", "setDefaultBufferFormat", "setListener", "openTransaction",
   "findSetDisplaySurface", "setSurface", "setProjection", "setLayerStack",
   "closeTransaction", "applyTransaction", "markRunning"}

TearingDown(s) ==
  {"unlock", "dropQueue", "dropConsumer", "dropProxy", "dropDisplay", "markStopped"}
    \cup (IF s <= 18 THEN {} ELSE {"destroyDisplay"})

BuildingUp(s) ==
  {"initCheck", "createDisplay", "takeQueue", "newConsumer", "setDefaultBufferSize",
   "setDefaultBufferFormat", "setListener", "setSurface", "setProjection",
   "setLayerStack", "markRunning"}
    \cup (IF s = 25 THEN {"findSetDisplaySurface"} ELSE {})
    \cup (IF s <= 27 THEN {"openTransaction", "closeTransaction"}
                     ELSE {"applyTransaction"})

\* The calls whose place is the same for every SDK; the consumer is made
\* before its queue is taken, after that, or after the queue is set up.
Place(s, call) ==
  CASE call = "destroyDisplay"         -> 1
    [] call = "unlock"                 -> 2
    [] call = "dropQueue"              -> 3
    [] call = "dropConsumer"           -> 4
    [] call = "dropProxy"              -> 5
    [] call = "dropDisplay"            -> 6
    [] call = "markStopped"            -> 7
    [] call = "initCheck"              -> 8
    [] call = "createDisplay"          -> 9
    [] call = "newConsumer"            -> IF s <= 18 THEN 10 ELSE IF s = 19 THEN 12 ELSE 15
    [] call = "takeQueue"              -> 11
    [] call = "setDefaultBufferSize"   -> 13
    [] call = "setDefaultBufferFormat" -> 14
    [] call = "setListener"            -> 16
    [] call = "openTransaction"        -> 17
    [] call = "findSetDisplaySurface"  -> 18
    [] call = "setSurface"             -> 19
    [] call = "setProjection"          -> 20
    [] call = "setLayerStack"          -> 21
    [] call = "closeTransaction"       -> 22
    [] call = "applyTransaction"       -> 23
    [] call = "markRunning"            -> 24
    [] OTHER                           -> 0

Has(calls, call) == \E i \in DOMAIN calls : calls[i] = call

InOrder(s, calls) ==
  \A i, j \in DOMAIN calls : i < j => Place(s, calls[i]) < Place(s, calls[j])

Left(call) == Has(program, call)

\* The calls the operation in progress can have to make.
Operation ==
  TearingDown(sdk) \cup (IF stage = "freeing" THEN {} ELSE BuildingUp(sdk))

\* What is left of an operation is its end, in order.
ProgramInv ==
  /\ program \in Seq(CallNames)
  /\ program # <<>> <=> stage \in {"applying", "freeing"}
  /\ {program[i] : i \in DOMAIN program} \subseteq Operation
  /\ InOrder(sdk, program)
  /\ \A x, y \in Operation : Left(x) /\ Place(sdk, x) < Place(sdk, y) => Left(y)

-----------------------------------------------------------------------------
(* Where an operation has got to.                                          *)

\* The old display is being destroyed.
Down == Left("markStopped")

\* A new one is being made, and SurfaceFlinger does not know its surface.
Unpublished ==
  /\ stage = "applying" /\ ~Down
  /\ Left("closeTransaction") \/ Left("applyTransaction")

\* There is none, and none is being made.
Bare == stage \in {"new", "failed"}

Published ==
  \/ stage = "ready"
  \/ stage = "applying" /\ ~Left("closeTransaction") /\ ~Left("applyTransaction")

\* Size and format of the frames of a configuration.
FrameOptions(i) == [size |-> Rects(i).target, format |-> "RGBA_8888"]

GoodOptions == {FrameOptions(i) : i \in Infos}

-----------------------------------------------------------------------------

StageInv ==
  /\ stage = "applying" => info \in Infos /\ applied = info
  /\ stage = "ready" => applied \in Infos /\ mHaveRunningDisplay
  /\ stage = "new" => ~mHaveRunningDisplay
  /\ applies = 0 <=> stage = "new"
  /\ applies = 1 /\ stage = "applying" => ~Down
  /\ stage = "new" => mPendingFrames = 0 /\ notifying = 0 /\ taken = 0

\* A change is pending from the call that sets it to the commit.  SDK 25
\* without setDisplaySurface() never gets as far.
TransactionInv ==
  /\ "surface" \in changes <=> Unpublished /\ ~Left("setSurface")
  /\ "projection" \in changes <=> Unpublished /\ ~Left("setProjection")
  /\ "layerStack" \in changes <=> Unpublished /\ ~Left("setLayerStack")
  /\ sdk = 25 /\ ~found /\ stage = "applying" => Left("findSetDisplaySurface")
  /\ \/ sdk = 25 /\ ~found
     \/ nesting = IF Left("closeTransaction") /\ ~Left("openTransaction") THEN 1 ELSE 0

\* What the calls made so far have made and released.
DownInv ==
  Down =>
    /\ ~Left("unlock") => ~mHaveBuffer
    /\ ~Left("dropQueue") => ~mBufferQueue
    /\ ~Left("dropConsumer") => ~mConsumer /\ queue = <<>>
    /\ ~Left("dropProxy") => ~mFrameProxy
    /\ ~Left("dropDisplay") => ~mVirtualDisplay /\ composed = {}

Prepared ==
  /\ ~Left("newConsumer") => mConsumer
  /\ ~Left("setListener") => mFrameProxy
  /\ ~Left("setDefaultBufferSize") => options.size = Rects(info).target
  /\ ~Left("setDefaultBufferFormat") => options.format = "RGBA_8888"

UpInv ==
  /\ Unpublished \/ Bare => composed = {} /\ queue = <<>> /\ ~mHaveBuffer
  /\ Unpublished => Prepared
  /\ Published =>
       /\ mConsumer /\ mFrameProxy
       /\ options = FrameOptions(applied)
       /\ composed # {} => shown = Rects(applied)
       /\ \A frame \in Frames : frame.options = FrameOptions(applied)

\* A display that SurfaceFlinger renders, and every frame of one.
RenderingInv ==
  /\ composed \in {{}, Parts}
  /\ Rendering => mFrameProxy /\ options.size = shown.target /\ options \in GoodOptions
  /\ \A frame \in Frames : frame.options \in GoodOptions
  /\ LockedBufferHasConsumer

\* What the operations' calls keep.
CallsInv ==
  /\ StageInv /\ TransactionInv /\ DownInv /\ UpInv /\ RenderingInv
  /\ FreedReleasesAll /\ EveryFrameAnnounced

DisplayInv == TypeOK /\ ProgramInv /\ CallsInv

=============================================================================
