--------------------------- MODULE PacedInvariant ---------------------------
(***************************************************************************)
(* The inductive invariant of PacedMain from which its properties follow,  *)
(* on top of those of MinicapMain.  PacedProofs proves it.                 *)
(***************************************************************************)
EXTENDS PacedMain, MinicapInvariant

\* The statements between the wait that took a frame and the next wait.
WithFrame ==
  {"skipReport", "skipConsume", "skipRelease", "consume", "encode", "send", "release"}

\* The statements before a wait, or in one.
BeforeFrame ==
  {"create", "apply", "reserve", "start", "outer", "accept", "banner", "waitHead", "wait"}

\* The timers stay within what they are compared with, and only the end of
\* the frame loop sleeps.
TimerInv ==
  /\ framePeriodMs \in Nat
  /\ waiting \in 0 .. mTimeout
  /\ frameAge \in 0 .. framePeriodMs
  /\ sinceTaken \in frameAge .. framePeriodMs
  /\ asleep \in BOOLEAN /\ (asleep => pc = "inner")
  /\ announced \in Nat /\ stopDelay \in Nat

\* Where a wait may follow without a sleep, the last period is over.
PeriodOver ==
  (pc \in BeforeFrame \/ (pc = "inner" /\ ~asleep)) => sinceTaken = framePeriodMs

\* A signal is held up for as long as the wait it arrived in has lasted, and
\* then for the sleep after the frame that ended the wait.
DelayInv ==
  /\ ~mStopped => stopDelay = 0
  /\ pc = "wait" => stopDelay <= waiting
  /\ (pc \in WithFrame \/ asleep) => stopDelay <= mTimeout + frameAge
  /\ StopDelayed

TimeInv == TimerInv /\ PeriodOver /\ DelayInv

-----------------------------------------------------------------------------
(* Without a stray EINTR, the only interrupted consumption is the last.    *)

\* The frames still to be consumed, the one to be shown included.
ToConsume ==
  CASE pc = "skipReport"  -> pending
    [] pc = "skipConsume" -> pending + 1
    [] pc = "skipRelease" -> pending
    [] pc = "consume"     -> 1
    [] OTHER              -> 0

\* A signal disturbs no count before a consumption is interrupted, and no
\* wait is entered after one was.
NothingGivenUp ==
  \/ ~mStopped /\ ~Winding
  \/ pc \in {"wait", "skipReport", "skipConsume", "skipRelease", "consume"}

CountExact ==
  (IsVirtual /\ running /\ NothingGivenUp) =>
    mPendingFrames + Owed + notifying = Len(queue)

\* The last frame to be consumed is the newest that was announced when the
\* wait was over, or one that replaced it in the queue.
NewestQueued ==
  (IsVirtual /\ pc \in {"skipReport", "skipConsume", "skipRelease", "consume"}) =>
    /\ ToConsume \in 1 .. Len(queue)
    /\ queue[ToConsume] >= announced

NewestInv ==
  /\ CountExact /\ NewestQueued
  /\ announced <= screen
  /\ ~IsVirtual => announced = NoFrame
  /\ pc \in {"encode", "send"} => held >= announced

=============================================================================
