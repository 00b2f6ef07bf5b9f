---------------------------- MODULE FrameWaiter ----------------------------
(***************************************************************************)
(* class FrameWaiter of jni/minicap/minicap.cpp: the counter of frames     *)
(* that were announced and not yet taken, shared by the binder threads     *)
(* that announce them and the one thread that consumes them, and the stop  *)
(* flag the signal handler sets.                                           *)
(*                                                                         *)
(* Every method but stop() and isStopped() runs under mMutex, so each is   *)
(* one step.  stop() and isStopped() touch a plain bool without the mutex: *)
(* a reader sees the old or the new value, and reading the old one is the  *)
(* behaviour in which the signal arrived later, which the module that      *)
(* schedules Stop also has.                                                *)
(***************************************************************************)
EXTENDS Integers

VARIABLES
  mPendingFrames,   \* frames announced and not yet taken
  mStopped          \* a termination signal has been handled

waiterVars == <<mPendingFrames, mStopped>>

WaiterInit ==
  /\ mPendingFrames = 0
  /\ mStopped = FALSE

-----------------------------------------------------------------------------
(* Faulty variants, used only to show that the properties can fail.        *)

\* The counter kept as a flag: two announcements count once.
OnFrameAvailable_Flag ==
  /\ mPendingFrames' = 1
  /\ UNCHANGED mStopped

\* The wait reports the frames without taking one.
TakeFrame_Peeks(n) ==
  /\ mPendingFrames > 0
  /\ n = mPendingFrames
  /\ UNCHANGED waiterVars

-----------------------------------------------------------------------------

\* onFrameAvailable(): one more frame, and the waiter is notified.
OnFrameAvailable ==
  /\ mPendingFrames' = mPendingFrames + 1
  /\ UNCHANGED mStopped

\* waitForFrame() when wait_for finds its predicate true: it returns the
\* number of frames there were, the one it takes included.
TakeFrame(n) ==
  /\ mPendingFrames > 0
  /\ n = mPendingFrames
  /\ mPendingFrames' = mPendingFrames - 1
  /\ UNCHANGED mStopped

\* wait_for gives up after mTimeout with its predicate still false.
WaitTimesOut ==
  /\ mPendingFrames <= 0
  /\ UNCHANGED waiterVars

\* reportExtraConsumption(count)
ReportExtraConsumption(count) ==
  /\ mPendingFrames' = mPendingFrames - count
  /\ UNCHANGED mStopped

\* stop(), from the signal handler
Stop ==
  /\ mStopped' = TRUE
  /\ UNCHANGED mPendingFrames

=============================================================================
