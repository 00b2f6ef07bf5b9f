------------------------------ MODULE Capture ------------------------------
(***************************************************************************)
(* The Minicap interface of minicap-shared as the main program uses it,    *)
(* with its two implementations: the virtual display (SDK 17 and later,    *)
(* frames come through a BufferQueue and are announced by binder threads)  *)
(* and ScreenshotClient (SDK 9 to 16, a frame is captured when asked for,  *)
(* and the next one is announced by releasing the last).                   *)
(*                                                                         *)
(* A frame is the number of the screen content it shows.  What Android     *)
(* does (the composer, the BufferQueue, the failures of its calls) is      *)
(* modelled from how the code uses it.                                     *)
(***************************************************************************)
EXTENDS FrameWaiter, Sequences

CONSTANTS
  Method,         \* the capture method the shared library implements
  MaxQueued,      \* buffers the composer can have queued at a time
  MaxScreen,      \* bound: the number of screen contents of a behaviour
  SpuriousEINTR,  \* may lockNextBuffer return -EINTR with no signal handled?
  MayLackDisplay  \* may createDisplay() return no display, and nobody notice?

Methods == {"SCREENSHOT", "VIRTUAL_DISPLAY"}

ASSUME CaptureAssumption ==
  /\ Method \in Methods
  /\ MaxQueued \in Nat \ {0}
  /\ MaxScreen \in Nat \ {0}
  /\ SpuriousEINTR \in BOOLEAN
  /\ MayLackDisplay \in BOOLEAN

IsVirtual == Method = "VIRTUAL_DISPLAY"

NoFrame == 0

VARIABLES
  screen,      \* the content the device shows: contents are numbered from 1
  queue,       \* frames in the BufferQueue that were not acquired, oldest first
  notifying,   \* frames queued whose onFrameAvailable call is still to come
  held,        \* the locked buffer (mBuffer) or captured heap (mHeap)
  running      \* a virtual display is published and mirrors the screen

sourceVars  == <<screen, queue, notifying, held, running>>
captureVars == <<waiterVars, sourceVars>>

CaptureInit ==
  /\ WaiterInit
  /\ screen = 1
  /\ queue = <<>>
  /\ notifying = 0
  /\ held = NoFrame
  /\ running = FALSE

-----------------------------------------------------------------------------
(* Faulty variants, used only to show that the properties can fail.        *)

\* The newest buffer is acquired, out of order.
ConsumeFrame_Newest ==
  /\ IsVirtual
  /\ queue # <<>>
  /\ held' = queue[Len(queue)]
  /\ queue' = SubSeq(queue, 1, Len(queue) - 1)
  /\ UNCHANGED <<waiterVars, screen, notifying, running>>

\* The first screenshot is not announced.
ApplyConfigChanges_Silent ==
  /\ running' = IsVirtual
  /\ UNCHANGED <<waiterVars, screen, queue, notifying, held>>

-----------------------------------------------------------------------------
(* The composer, outside the program.                                      *)

\* The screen changes and no frame of it is queued: no display mirrors it,
\* or every buffer is taken.
ScreenChanges ==
  /\ IsVirtual /\ running => Len(queue) = MaxQueued
  /\ screen < MaxScreen
  /\ screen' = screen + 1
  /\ UNCHANGED <<waiterVars, queue, notifying, held, running>>

\* The screen changes and its frame takes a free buffer; the listener is
\* called afterwards.
ComposerQueues ==
  /\ IsVirtual
  /\ running
  /\ screen < MaxScreen
  /\ Len(queue) < MaxQueued
  /\ screen' = screen + 1
  /\ queue' = Append(queue, screen')
  /\ notifying' = notifying + 1
  /\ UNCHANGED <<waiterVars, held, running>>

\* The screen changes and its frame replaces the last one queued, which was
\* announced before: the listener is not called again.
ComposerReplaces ==
  /\ IsVirtual
  /\ running
  /\ screen < MaxScreen
  /\ queue # <<>>
  /\ screen' = screen + 1
  /\ queue' = [queue EXCEPT ![Len(queue)] = screen']
  /\ UNCHANGED <<waiterVars, notifying, held, running>>

-----------------------------------------------------------------------------
(* FrameProxy: a binder thread passes an announcement on.                  *)

FrameProxyCalls ==
  /\ notifying > 0
  /\ notifying' = notifying - 1
  /\ OnFrameAvailable
  /\ UNCHANGED <<screen, queue, held, running>>

-----------------------------------------------------------------------------
(* The operations of the Minicap interface.                                *)

\* applyConfigChanges() that succeeds: the display is published, if there is
\* one, or the first screenshot is announced at once.
ApplyConfigChanges ==
  \/ /\ IsVirtual
     /\ running' \in (IF MayLackDisplay THEN BOOLEAN ELSE {TRUE})
     /\ UNCHANGED <<waiterVars, screen, queue, notifying, held>>
  \/ /\ ~IsVirtual
     /\ OnFrameAvailable
     /\ UNCHANGED sourceVars

\* consumePendingFrame() that returns 0: the oldest queued buffer is locked,
\* or the screen as it is now is captured.
ConsumeFrame ==
  \/ /\ IsVirtual
     /\ queue # <<>>
     /\ held' = Head(queue)
     /\ queue' = Tail(queue)
     /\ UNCHANGED <<waiterVars, screen, notifying, running>>
  \/ /\ ~IsVirtual
     /\ held' = screen
     /\ UNCHANGED <<waiterVars, screen, queue, notifying, running>>

\* consumePendingFrame() that returns -EINTR, for a frame that stays queued.
ConsumeInterrupted ==
  /\ mStopped \/ SpuriousEINTR
  /\ held' = IF IsVirtual THEN held ELSE NoFrame
  /\ UNCHANGED <<waiterVars, screen, queue, notifying, running>>

\* consumePendingFrame() that returns another error, which it always does
\* when no buffer is queued.  captureScreen drops the last heap first.
ConsumeFails ==
  /\ held' = IF IsVirtual THEN held ELSE NoFrame
  /\ UNCHANGED <<waiterVars, screen, queue, notifying, running>>

\* releaseConsumedFrame(): the buffer is unlocked if there is one; the heap
\* is dropped and the next screenshot announced in any case.
ReleaseConsumedFrame ==
  /\ held' = NoFrame
  /\ \/ IsVirtual /\ UNCHANGED waiterVars
     \/ ~IsVirtual /\ OnFrameAvailable
  /\ UNCHANGED <<screen, queue, notifying, running>>

\* minicap_free(): the destructor releases the display, the buffer and the
\* queue whether or not applyConfigChanges() got to create them.
FreeCapture ==
  /\ held' = NoFrame
  /\ queue' = <<>>
  /\ running' = FALSE
  /\ UNCHANGED <<waiterVars, screen, notifying>>

=============================================================================
