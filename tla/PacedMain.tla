----------------------------- MODULE PacedMain -----------------------------
(***************************************************************************)
(* MinicapMain with time: the 100 ms a wait for a frame lasts at most      *)
(* (mTimeout) and the sleep with which -r paces the frame loop, neither of *)
(* which a signal cuts short.                                              *)
(*                                                                         *)
(* Time passes in ticks.  A step of the main thread may take any number of *)
(* them; a wait and a sleep end in the tick in which they are due.  Timers *)
(* are relative and stop at the largest value anything compares them with, *)
(* so that time itself needs no bound.                                     *)
(***************************************************************************)
EXTENDS MinicapMain

CONSTANTS
  mTimeout,   \* ticks wait_for() waits for a frame
  Periods     \* the values of framePeriodMs to start from, in ticks

ASSUME PacedAssumption ==
  /\ mTimeout \in Nat \ {0}
  /\ Periods \subseteq Nat
  /\ Mode = "serve" /\ SkipFrames

VARIABLES
  framePeriodMs,  \* the local: 0 without -r
  waiting,        \* ticks the current wait_for() has lasted
  frameAge,       \* ticks since frameAvailableAt
  asleep,         \* sleep_until() has been called
  sinceTaken,     \* history: ticks since the client's last frame was taken
  announced,      \* history: the newest frame announced when it was taken
  stopDelay       \* history: ticks waited and slept through since the signal

historyVars == <<sinceTaken, announced, stopDelay>>
timerVars == <<waiting, frameAge, asleep, historyVars>>
timeVars == <<framePeriodMs, timerVars>>
pacedVars == <<vars, timeVars>>

LongestDelay == mTimeout + framePeriodMs

PacedInit ==
  /\ Init
  /\ framePeriodMs \in Periods
  /\ waiting = 0 /\ frameAge = framePeriodMs /\ asleep = FALSE
  /\ sinceTaken = framePeriodMs /\ announced = NoFrame /\ stopDelay = 0

-----------------------------------------------------------------------------
(* Faulty variants, used only to show that the properties can fail.        *)

\* wait() in place of wait_for(): only a frame ends it.
GiveUpWait_Never ==
  /\ FALSE
  /\ WaitTimeout
  /\ UNCHANGED timeVars

\* frameAvailableAt is read before the wait.
TakeFrameNow_TimeOfCall ==
  /\ WaitTake
  /\ frameAge' = IF waiting < framePeriodMs THEN waiting ELSE framePeriodMs
  /\ sinceTaken' = 0
  /\ announced' = IF notifying < Len(queue) THEN queue[Len(queue) - notifying] ELSE NoFrame
  /\ UNCHANGED <<framePeriodMs, waiting, asleep, stopDelay>>

-----------------------------------------------------------------------------
(* The steps of the main thread that start, read or are held up by a timer. *)

\* wait_for() is called.
StartWait ==
  /\ WaitHead
  /\ waiting' = 0
  /\ UNCHANGED <<framePeriodMs, frameAge, asleep, historyVars>>

\* It comes back with a frame, and main() reads the clock.
TakeFrameNow ==
  /\ WaitTake
  /\ frameAge' = 0
  /\ sinceTaken' = 0
  /\ announced' = IF notifying < Len(queue) THEN queue[Len(queue) - notifying] ELSE NoFrame
  /\ UNCHANGED <<framePeriodMs, waiting, asleep, stopDelay>>

\* It comes back without one.
GiveUpWait ==
  /\ waiting = mTimeout
  /\ WaitTimeout
  /\ UNCHANGED timeVars

\* The frame is released and, with -r, sleep_until() called: for the end of
\* the period that began when the frame was taken, which may be over.
ReleaseAndSleep ==
  /\ ReleaseSent
  /\ asleep' = (framePeriodMs > 0)
  /\ UNCHANGED <<framePeriodMs, waiting, frameAge, historyVars>>

\* sleep_until() returns, if it was called, and the loop goes round.
WakeAndCheck ==
  /\ asleep => frameAge = framePeriodMs
  /\ CheckStoppedBeforeWait
  /\ asleep' = FALSE
  /\ UNCHANGED <<framePeriodMs, waiting, frameAge, historyVars>>

\* A client that is closed ends the pacing: the next one does not wait for
\* the end of its period.
CloseUnpaced ==
  /\ Close
  /\ sinceTaken' = framePeriodMs
  /\ UNCHANGED <<framePeriodMs, waiting, frameAge, asleep, announced, stopDelay>>

\* The steps that know no time.
Untimed ==
  /\ \/ StartUp \/ AcceptLoop
     \/ SkipReport \/ SkipConsume \/ SkipRelease \/ Consume \/ Encode \/ SendFrame
     \/ Ending
  /\ UNCHANGED timeVars

PacedStep ==
  \/ StartWait \/ TakeFrameNow \/ GiveUpWait
  \/ ReleaseAndSleep \/ WakeAndCheck \/ CloseUnpaced \/ Untimed

-----------------------------------------------------------------------------

UpTo(limit, n) == IF n < limit THEN n + 1 ELSE limit

\* The main thread is due: it runs before the next tick.
Due ==
  \/ pc = "wait" /\ waiting = mTimeout
  \/ asleep /\ frameAge = framePeriodMs

Tick ==
  /\ pc # "exited"
  /\ ~Due
  /\ waiting' = IF pc = "wait" THEN waiting + 1 ELSE waiting
  /\ frameAge' = UpTo(framePeriodMs, frameAge)
  /\ sinceTaken' = UpTo(framePeriodMs, sinceTaken)
  /\ stopDelay' = IF mStopped /\ (pc = "wait" \/ asleep)
                  THEN stopDelay + 1 ELSE stopDelay
  /\ UNCHANGED <<vars, framePeriodMs, asleep, announced>>

PacedNext ==
  \/ PacedStep
  \/ Environment /\ UNCHANGED timeVars
  \/ Tick
  \/ Exited /\ UNCHANGED timeVars

\* Time goes on, and the threads are scheduled.
PacedSpec ==
  /\ PacedInit /\ [][PacedNext]_pacedVars
  /\ WF_pacedVars(PacedStep) /\ WF_pacedVars(Tick)
  /\ WF_pacedVars(Binder /\ UNCHANGED timeVars)

-----------------------------------------------------------------------------
(* What makes it correct.                                                  *)

(* Leaving time out of MinicapMain is sound: a loop that waits and sleeps  *)
(* does what the untimed one does, fairness included, so what is shown of  *)
(* that one under FairSpec holds at every frame rate.                      *)
ImplementsUntimed == FairSpec

(* -r limits the rate: between two frames taken for a client a whole period *)
(* passes, however long the wait for each lasted and however long encoding *)
(* and sending it took.                                                    *)
Paced == [][pc = "wait" /\ pc' \in {"skipReport", "consume"}
              => sinceTaken = framePeriodMs]_pacedVars

(* A paced client is not shown the past: the frame it is sent is the newest *)
(* of those announced when the wait for it was over, or a later one, though *)
(* as many may have been queued during the sleep as there are buffers, and *)
(* others arrive while they are skipped.                                   *)
SendsNewest == pc = "send" => held >= announced

(* What a handled signal is held up for: not the period alone, since a wait *)
(* that was entered before the signal may still end with a frame, which is *)
(* then sent and slept over.                                               *)
StopDelayed == stopDelay <= LongestDelay

=============================================================================
