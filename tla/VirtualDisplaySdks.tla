------------------------- MODULE VirtualDisplaySdks -------------------------
(***************************************************************************)
(* createVirtualDisplay() and destroyVirtualDisplay() of every             *)
(* minicap-shared/aosp/src/minicap_<sdk>.cpp that captures through a       *)
(* virtual display: the calls they make, in order.  VirtualDisplay says    *)
(* what each call does, and FrameGeometry which rectangles they pass.      *)
(* Names, logging, the padding of CpuConsumer and the queue's synchronous  *)
(* mode are left out.                                                      *)
(***************************************************************************)
EXTENDS Sequences

Sdks == {17, 18, 19, 21, 22, 23, 24, 25, 26, 27, 28, 29}

\* Size and format of the buffers that are queued from now on.
BufferOptions == <<"setDefaultBufferSize", "setDefaultBufferFormat">>

\* The display parameters a transaction sets.
Publication == <<"setSurface", "setProjection", "setLayerStack">>

\* Faulty variant: the transaction is closed and was never opened.
GlobalTransaction_NotOpened(calls) == calls \o <<"closeTransaction">>

GlobalTransaction(calls) ==
  <<"openTransaction">> \o calls \o <<"closeTransaction">>

-----------------------------------------------------------------------------
(* Faulty variants, used only to show that the properties can fail.        *)

\* The display is published before the listener is set.
Create17_ListenerLast ==
  <<"initCheck", "createDisplay", "newConsumer", "takeQueue">> \o BufferOptions
    \o GlobalTransaction(Publication) \o <<"setListener", "markRunning">>

\* The surface is set outside the transaction that sets the rest.
Create19_SurfaceFirst ==
  <<"initCheck", "createDisplay", "takeQueue", "newConsumer">> \o BufferOptions
    \o <<"setListener">>
    \o GlobalTransaction(<<"setSurface">>)
    \o GlobalTransaction(<<"setProjection", "setLayerStack">>)
    \o <<"markRunning">>

\* The transaction is never closed.
Create24_LeavesOpen ==
  <<"initCheck", "createDisplay", "takeQueue">> \o BufferOptions
    \o <<"newConsumer", "setListener", "openTransaction">>
    \o Publication \o <<"markRunning">>

\* The consumer is dropped before its buffer is unlocked.
Destroy18_ConsumerFirst ==
  <<"dropQueue", "dropConsumer", "unlock", "dropProxy", "dropDisplay",
    "markStopped">>

\* The display is destroyed, and its token and its queue are kept.
Destroy29_KeepsDisplay ==
  <<"destroyDisplay", "unlock", "dropConsumer", "dropProxy", "markStopped">>

-----------------------------------------------------------------------------
(* Android 4.2 and 4.3: the consumer brings its own queue, and dropping    *)
(* the display's token is what removes the display.                        *)

Create17 ==
  <<"initCheck", "createDisplay", "newConsumer", "takeQueue">> \o BufferOptions
    \o <<"setListener">>
    \o GlobalTransaction(Publication) \o <<"markRunning">>

Destroy17 ==
  <<"unlock", "dropQueue", "dropConsumer", "dropProxy", "dropDisplay",
    "markStopped">>

Create18 ==
  <<"initCheck", "createDisplay", "newConsumer", "takeQueue">> \o BufferOptions
    \o <<"setListener">>
    \o GlobalTransaction(Publication) \o <<"markRunning">>

Destroy18 ==
  <<"unlock", "dropQueue", "dropConsumer", "dropProxy", "dropDisplay",
    "markStopped">>

\* Android 4.4: the queue is ScreenshotClient's, and is there first.
Create19 ==
  <<"initCheck", "createDisplay", "takeQueue", "newConsumer">> \o BufferOptions
    \o <<"setListener">>
    \o GlobalTransaction(Publication) \o <<"markRunning">>

Destroy19 ==
  <<"destroyDisplay", "unlock", "dropQueue", "dropConsumer", "dropProxy",
    "dropDisplay", "markStopped">>

-----------------------------------------------------------------------------
(* Android 5.0 to 7.0: createBufferQueue() makes the queue.                *)

Create21 ==
  <<"initCheck", "createDisplay", "takeQueue">> \o BufferOptions
    \o <<"newConsumer", "setListener">>
    \o GlobalTransaction(Publication) \o <<"markRunning">>

Destroy21 ==
  <<"destroyDisplay", "unlock", "dropQueue", "dropConsumer", "dropProxy",
    "dropDisplay", "markStopped">>

\* The proxy is passed on as another listener type, for Samsung's devices.
Create22 == Create21
Destroy22 == Destroy21

Create23 == Create21
Destroy23 == Destroy21

Create24 == Create21
Destroy24 == Destroy21

\* Android 7.1: setDisplaySurface() is looked up inside the transaction.
Create25 ==
  <<"initCheck", "createDisplay", "takeQueue">> \o BufferOptions
    \o <<"newConsumer", "setListener">>
    \o GlobalTransaction(<<"findSetDisplaySurface">> \o Publication)
    \o <<"markRunning">>

Destroy25 == Destroy21

-----------------------------------------------------------------------------
(* Android 8.0 to 10.  The client of the init check is dropped at once,    *)
(* which nothing here sees.                                                *)

Create26 == Create21
Destroy26 == Destroy21

Create27 == Create21
Destroy27 == Destroy21

\* A Transaction of the function's own replaces the global one.
Create28 ==
  <<"initCheck", "createDisplay", "takeQueue">> \o BufferOptions
    \o <<"newConsumer", "setListener">>
    \o Publication \o <<"applyTransaction", "markRunning">>

Destroy28 == Destroy21

Create29 == Create28

Destroy29 ==
  <<"destroyDisplay", "unlock", "dropQueue", "dropConsumer", "dropProxy",
    "dropDisplay", "markStopped">>

-----------------------------------------------------------------------------

createVirtualDisplay(sdk) ==
  CASE sdk = 17 -> Create17 [] sdk = 18 -> Create18 [] sdk = 19 -> Create19
    [] sdk = 21 -> Create21 [] sdk = 22 -> Create22 [] sdk = 23 -> Create23
    [] sdk = 24 -> Create24 [] sdk = 25 -> Create25 [] sdk = 26 -> Create26
    [] sdk = 27 -> Create27 [] sdk = 28 -> Create28 [] sdk = 29 -> Create29

destroyVirtualDisplay(sdk) ==
  CASE sdk = 17 -> Destroy17 [] sdk = 18 -> Destroy18 [] sdk = 19 -> Destroy19
    [] sdk = 21 -> Destroy21 [] sdk = 22 -> Destroy22 [] sdk = 23 -> Destroy23
    [] sdk = 24 -> Destroy24 [] sdk = 25 -> Destroy25 [] sdk = 26 -> Destroy26
    [] sdk = 27 -> Destroy27 [] sdk = 28 -> Destroy28 [] sdk = 29 -> Destroy29

=============================================================================
