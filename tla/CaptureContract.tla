-------------------------- MODULE CaptureContract --------------------------
(***************************************************************************)
(* What a capture method and main() promise each other, whatever the one   *)
(* does call by call and the other between its calls (Minicap.hpp): the    *)
(* display is published at one instant, from then on every frame that is   *)
(* queued is announced once, frames are handed out one at a time in the    *)
(* order they were queued, none is discarded before the instance is freed, *)
(* and no more frames are taken off the counter than were announced.       *)
(***************************************************************************)
EXTENDS Capture

\* The display no longer mirrors the screen; frames may still be queued.
StopMirroring ==
  /\ running' = FALSE
  /\ UNCHANGED <<waiterVars, screen, queue, notifying, held>>

Publish == ~running /\ ApplyConfigChanges

HandOut == held = NoFrame /\ ConsumeFrame

\* A frame is taken for the one that was waited for, or for some to skip.
WaiterTakes == TakeFrame(mPendingFrames) /\ UNCHANGED sourceVars
WaiterSkips ==
  (\E n \in 1 .. mPendingFrames : ReportExtraConsumption(n)) /\ UNCHANGED sourceVars

Stopped == Stop /\ UNCHANGED sourceVars

ContractNext ==
  \/ ScreenChanges \/ ComposerQueues \/ ComposerReplaces \/ FrameProxyCalls
  \/ Publish \/ WaiterTakes \/ HandOut \/ ReleaseConsumedFrame
  \/ StopMirroring \/ FreeCapture \/ WaiterSkips \/ Stopped

ContractSpec == CaptureInit /\ [][ContractNext]_captureVars

=============================================================================
