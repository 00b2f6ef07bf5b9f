---------------------------- MODULE PacedProofs ----------------------------
(***************************************************************************)
(* Proofs about the frame loop with time, for every timeout, every pacing  *)
(* period and either capture method: every timed step is a step of         *)
(* MinicapMain, so that what is proved of that one carries over, and the   *)
(* invariant of PacedInvariant is inductive.                               *)
(***************************************************************************)
EXTENDS PacedInvariant, StreamProofs

USE DEF captureVars, waiterVars, sourceVars, serverVars, mainVars, Goto, Exit,
        timeVars, timerVars, historyVars

-----------------------------------------------------------------------------
(* Time refines no time.                                                   *)

\* Without its timers a step of the timed loop is one of the untimed loop.
LEMMA TimedStep == [PacedNext]_pacedVars => [Next]_vars
<1> SUFFICES ASSUME [PacedNext]_pacedVars PROVE [Next]_vars
  OBVIOUS
<1>1. CASE PacedStep
  BY <1>1 DEF PacedStep, StartWait, TakeFrameNow, GiveUpWait, ReleaseAndSleep,
     WakeAndCheck, CloseUnpaced, Untimed, Next, MainStep, WaitForFrame, FrameLoop
<1>2. CASE Tick
  BY <1>2 DEF Tick
<1>3. CASE Environment \/ Exited
  BY <1>3 DEF Next
<1>4. CASE UNCHANGED pacedVars
  BY <1>4 DEF pacedVars
<1>q. QED BY <1>1, <1>2, <1>3, <1>4 DEF PacedNext

(* Leaving time out of MinicapMain is sound for safety: a loop that waits  *)
(* 100 ms at most (minicap.cpp:70) and sleeps for the rest of a period     *)
(* (minicap.cpp:532) does nothing the untimed loop does not do.            *)
THEOREM TimeIsSafe == PacedSpec => Spec
<1>1. PacedInit => Init
  BY DEF PacedInit
<1>q. QED BY <1>1, TimedStep, PTL DEF PacedSpec, Spec

\* So the invariants of the untimed loop hold of the timed one.
THEOREM UntimedInvariants == PacedSpec => [](IInv /\ StreamInv)
BY TimeIsSafe, Invariance, StreamInvariance, PTL

-----------------------------------------------------------------------------
(* Pacing and stopping.                                                    *)

\* What a step that knows no time does to the place main() is at: it neither
\* waits, sleeps, nor takes a frame.
LEMMA UntimedMoves ==
  ASSUME IInv, Untimed
  PROVE  /\ UNCHANGED <<mStopped, timeVars>>
         /\ pc # "inner" /\ pc' # "wait"
         /\ pc' \in WithFrame => pc \in WithFrame
         /\ pc' \in BeforeFrame \cup {"inner"} => pc \in BeforeFrame
<1> USE DEF WithFrame, BeforeFrame
<1>a. UNCHANGED timeVars
  BY DEF Untimed
<1>1. CASE StartUp
  BY <1>a, <1>1, PacedAssumption DEF StartUp, Create, Apply, ApplyConfigChanges,
     OnFrameAvailable, Reserve, StartServer
<1>2. CASE AcceptLoop
  BY <1>a, <1>2 DEF AcceptLoop, CheckStoppedBeforeAccept, Accept,
     AcceptOnNothing, SendBanner
<1>3. CASE SkipReport \/ SkipConsume \/ SkipRelease
  BY <1>a, <1>3 DEF SkipReport, ReportExtraConsumption, SkipConsume,
     ConsumeFrame, ConsumeInterrupted, ConsumeFails, SkipRelease,
     ReleaseConsumedFrame, OnFrameAvailable
<1>4. CASE Consume \/ Encode \/ SendFrame
  BY <1>a, <1>4, PacedAssumption DEF Consume, ConsumeFrame,
     ConsumeInterrupted, ConsumeFails, Encode, SendFrame
<1>5. CASE Ending
  BY <1>a, <1>5 DEF Ending, WriteScreenshot, Free, FreeCapture, Disaster,
     ReleaseConsumedFrame, OnFrameAvailable, DisasterFree, Fail
<1>q. QED BY <1>1, <1>2, <1>3, <1>4, <1>5 DEF Untimed

\* The environment stops main(), or breaks the call it blocks in.
LEMMA EnvironmentMoves ==
  ASSUME IInv, Environment
  PROVE  /\ mStopped => mStopped'
         /\ pc' # pc => pc # "inner" /\ pc' \in {"free", "close"}
<1>1. CASE SignalHandled \/ SignalInterrupts \/ AcceptFails
  BY <1>1 DEF SignalHandled, SignalInterrupts, Stop, BlockedInAccept,
     BlockedInSend, AcceptFails
<1>2. CASE Binder
  BY <1>2 DEF Binder, FrameProxyCalls, OnFrameAvailable
<1>3. CASE Composer
  BY <1>3 DEF Composer, ScreenChanges, ComposerQueues, ComposerReplaces
<1>4. CASE \E c \in Clients : ClientConnects(c) \/ ClientLeaves(c) \/ ClientReads(c)
  BY <1>4 DEF ClientConnects, ClientLeaves, ClientReads
<1>q. QED BY <1>1, <1>2, <1>3, <1>4 DEF Environment

\* Constants and timers are natural numbers.
LEMMA TimerTypes ==
  ASSUME TimerInv
  PROVE  /\ mTimeout \in Nat /\ framePeriodMs \in Nat /\ waiting \in Nat
         /\ frameAge \in Nat /\ sinceTaken \in Nat /\ stopDelay \in Nat
         /\ waiting <= mTimeout /\ frameAge <= sinceTaken /\ sinceTaken <= framePeriodMs
BY PacedAssumption DEF TimerInv

\* A wait that ends with frames takes one, and main() goes on to skip the
\* others if there are any.
LEMMA TakenEffect ==
  ASSUME TypeOK, TakeFrameNow
  PROVE  /\ pc = "wait" /\ mPendingFrames > 0 /\ mPendingFrames' = mPendingFrames - 1
         /\ pending' = mPendingFrames
         /\ pc' = IF mPendingFrames > 1 THEN "skipReport" ELSE "consume"
         /\ frameAge' = 0 /\ sinceTaken' = 0
         /\ announced' = IF notifying < Len(queue) THEN queue[Len(queue) - notifying] ELSE NoFrame
         /\ UNCHANGED <<mStopped, sourceVars, framePeriodMs, waiting, asleep, stopDelay>>
BY PacedAssumption
   DEF TakeFrameNow, WaitTake, TakeFrame, WaitReturns, AfterWait, TypeOK

\* Every timed step keeps the timers, the pace and the delay of a stop.
LEMMA TimeStep == IInv /\ TimeInv /\ [PacedNext]_pacedVars => TimeInv'
<1> SUFFICES ASSUME IInv, TimeInv, [PacedNext]_pacedVars PROVE TimeInv'
  OBVIOUS
<1> USE DEF TimeInv, TimerInv, PeriodOver, DelayInv, StopDelayed, LongestDelay
<1>t. TypeOK
  BY DEF IInv
<1>1. CASE StartWait
  BY <1>t, <1>1, TimerTypes, PacedAssumption
     DEF StartWait, WaitHead, WaitReturns, AfterWait, WithFrame, BeforeFrame
<1>2. CASE TakeFrameNow
  <2>1. /\ pc = "wait" /\ pc' \in {"skipReport", "consume"}
        /\ UNCHANGED <<mStopped, framePeriodMs, waiting, asleep, stopDelay>>
        /\ frameAge' = 0 /\ sinceTaken' = 0
    BY <1>t, <1>2, TakenEffect
  <2>2. announced' \in Nat
    BY <1>t, <1>2 DEF TakeFrameNow, TypeOK, NoFrame
  <2>q. QED BY <2>1, <2>2, TimerTypes DEF WithFrame, BeforeFrame
<1>3. CASE GiveUpWait
  BY <1>3, TimerTypes DEF GiveUpWait, WaitTimeout, WaitTimesOut, WithFrame, BeforeFrame
<1>4. CASE ReleaseAndSleep
  <2>1. /\ pc = "release" /\ pc' = "inner" /\ asleep' = (framePeriodMs > 0)
        /\ UNCHANGED <<mStopped, framePeriodMs, waiting, frameAge, historyVars>>
    BY <1>4 DEF ReleaseAndSleep, ReleaseSent, ReleaseConsumedFrame, OnFrameAvailable
  <2>a. ~asleep' => ~(framePeriodMs > 0)
    BY <2>1, Zenon
  <2>2. TimerInv'
    BY <2>1
  <2>3. PeriodOver'
    BY <2>1, <2>a, TimerTypes DEF BeforeFrame
  <2>4. DelayInv'
    BY <2>1, TimerTypes DEF WithFrame
  <2>q. QED BY <2>2, <2>3, <2>4
<1>5. CASE WakeAndCheck
  <2>1. /\ pc = "inner" /\ pc' \in {"close", "waitHead"} /\ ~asleep'
        /\ asleep => frameAge = framePeriodMs
        /\ UNCHANGED <<mStopped, framePeriodMs, waiting, frameAge, historyVars>>
    BY <1>5 DEF WakeAndCheck, CheckStoppedBeforeWait
  <2>2. asleep' \in BOOLEAN
    BY <1>5, Zenon DEF WakeAndCheck
  <2>3. sinceTaken = framePeriodMs
    BY <2>1, TimerTypes
  <2>q. QED BY <2>1, <2>2, <2>3, TimerTypes DEF WithFrame, BeforeFrame
<1>6. CASE CloseUnpaced
  <2>1. /\ pc = "close" /\ pc' = "outer" /\ sinceTaken' = framePeriodMs
        /\ UNCHANGED <<mStopped, framePeriodMs, waiting, frameAge, asleep,
                       announced, stopDelay>>
    BY <1>6 DEF CloseUnpaced, Close, ReleaseConsumedFrame, OnFrameAvailable
  <2>q. QED BY <2>1, TimerTypes DEF WithFrame, BeforeFrame
<1>7. CASE Untimed
  BY <1>7, UntimedMoves, TimerTypes DEF WithFrame, BeforeFrame
<1>8. CASE Environment /\ UNCHANGED timeVars
  BY <1>8, EnvironmentMoves, TimerTypes DEF WithFrame, BeforeFrame
<1>9. CASE Tick
  <2>1. /\ UNCHANGED <<pc, mStopped, framePeriodMs, asleep, announced>>
        /\ waiting' = IF pc = "wait" THEN waiting + 1 ELSE waiting
        /\ pc = "wait" => waiting # mTimeout
        /\ asleep => frameAge # framePeriodMs
    BY <1>9 DEF Tick, Due, vars
  <2>2. /\ frameAge' = IF frameAge < framePeriodMs THEN frameAge + 1 ELSE framePeriodMs
        /\ sinceTaken' = IF sinceTaken < framePeriodMs THEN sinceTaken + 1 ELSE framePeriodMs
        /\ stopDelay' = IF mStopped /\ (pc = "wait" \/ asleep) THEN stopDelay + 1 ELSE stopDelay
    BY <1>9 DEF Tick, UpTo
  <2>3. TimerInv'
    BY <2>1, <2>2, TimerTypes
  <2>4. PeriodOver'
    BY <2>1, <2>2, TimerTypes
  <2>5. DelayInv'
    BY <2>1, <2>2, TimerTypes DEF WithFrame
  <2>q. QED BY <2>3, <2>4, <2>5
<1>10. CASE (Exited /\ UNCHANGED timeVars) \/ UNCHANGED pacedVars
  BY <1>10 DEF Exited, vars, pacedVars
<1>q. QED
  BY <1>1, <1>2, <1>3, <1>4, <1>5, <1>6, <1>7, <1>8, <1>9, <1>10
     DEF PacedNext, PacedStep

\* The clock starts with the first period over.
LEMMA TimeInit == PacedInit => TimeInv
<1> SUFFICES ASSUME PacedInit PROVE TimeInv
  OBVIOUS
<1>1. /\ pc = "create" /\ ~mStopped /\ framePeriodMs \in Nat
      /\ waiting = 0 /\ frameAge = framePeriodMs /\ asleep = FALSE
      /\ sinceTaken = framePeriodMs /\ announced = 0 /\ stopDelay = 0
  BY PacedAssumption DEF PacedInit, Init, CaptureInit, WaiterInit, NoFrame
<1>2. asleep \in BOOLEAN
  BY <1>1, Zenon
<1>3. TimerInv
  BY <1>1, <1>2, PacedAssumption DEF TimerInv
<1>4. PeriodOver /\ DelayInv
  BY <1>1, PacedAssumption DEF PeriodOver, DelayInv, StopDelayed, LongestDelay, WithFrame
<1>q. QED BY <1>3, <1>4 DEF TimeInv

\* The timers' invariant holds of every reachable state.
THEOREM TimeInvariance == PacedSpec => []TimeInv
BY TimeInit, TimeStep, UntimedInvariants, PTL DEF PacedSpec

(* A handled signal is held up by no more than one wait and one period     *)
(* (minicap.cpp:68-70 and 532), whatever the main thread was doing.        *)
THEOREM StopIsDelayedAtMost == PacedSpec => []StopDelayed
<1>1. TimeInv => StopDelayed
  BY DEF TimeInv, DelayInv
<1>q. QED BY <1>1, TimeInvariance, PTL

(* -r limits the rate of every client's frames (minicap.cpp:530-534).      *)
THEOREM RateLimited == PacedSpec => Paced
<1>1. TimeInv => (pc = "wait" => sinceTaken = framePeriodMs)
  BY DEF TimeInv, PeriodOver, BeforeFrame
<1>2. TimeInv => [pc = "wait" /\ pc' \in {"skipReport", "consume"}
                    => sinceTaken = framePeriodMs]_pacedVars
  BY <1>1
<1>q. QED BY <1>2, TimeInvariance, PTL DEF Paced

-----------------------------------------------------------------------------
(* The newest frame.                                                       *)

\* What is counted stays in step with the queue.
Balanced == Counted' - Len(queue') = Counted - Len(queue)

\* A step that moves no frame, and goes where frames are owed only from
\* where as many were.
LEMMA NothingMoved ==
  ASSUME UNCHANGED <<mPendingFrames, notifying, queue>>, Owed' = Owed
  PROVE  Balanced
BY DEF Balanced, Counted

\* The only interruption is a signal's, and it ends the frame loop.
LEMMA InterruptGivesUp ==
  ASSUME ~SpuriousEINTR, ConsumeInterrupted, Goto("close")
  PROVE  ~NothingGivenUp'
BY DEF ConsumeInterrupted, NothingGivenUp

\* The untimed steps of the main thread count exactly.
LEMMA UntimedCounts ==
  ASSUME ~SpuriousEINTR, IInv, IsVirtual, running', NothingGivenUp', Untimed
  PROVE  \/ NothingGivenUp /\ running /\ Balanced
         \/ pc' = "reserve" /\ queue' = <<>> /\ notifying' = 0 /\ mPendingFrames' = 0
<1> USE DEF NothingGivenUp, Winding
<1>t. TypeOK
  BY DEF IInv
<1>1. CASE StartUp
  <2>1. CASE Apply /\ ApplyConfigChanges
    BY <2>1 DEF Apply, ApplyConfigChanges, IInv, VirtualInv, DisplayInv
  <2>2. CASE Create \/ Reserve \/ StartServer
    <3>1. UNCHANGED captureVars /\ Owed' = Owed
      BY <2>2, PacedAssumption DEF Create, Reserve, StartServer, Owed
    <3>2. ~Winding
      BY <2>2 DEF Create, Reserve, StartServer
    <3>3. pc' \notin {"wait", "skipReport", "skipConsume", "skipRelease", "consume"}
      BY <2>2, PacedAssumption DEF Create, Reserve, StartServer
    <3>q. QED BY <3>1, <3>2, <3>3, NothingMoved
  <2>q. QED BY <1>1, <2>1, <2>2 DEF StartUp, Apply
<1>2. CASE AcceptLoop
  <2>1. UNCHANGED captureVars /\ Owed' = Owed
    BY <1>2 DEF AcceptLoop, CheckStoppedBeforeAccept, Accept, AcceptOnNothing,
       SendBanner, Owed
  <2>2. NothingGivenUp
    BY <1>2 DEF AcceptLoop, CheckStoppedBeforeAccept, Accept, AcceptOnNothing,
       SendBanner
  <2>q. QED BY <2>1, <2>2, NothingMoved
<1>3. CASE SkipReport
  <2>1. /\ pc = "skipReport" /\ pc' = "skipConsume" /\ pending' = pending - 1
        /\ mPendingFrames' = mPendingFrames - (pending - 1)
        /\ UNCHANGED <<mStopped, sourceVars>>
    BY <1>3 DEF SkipReport, ReportExtraConsumption
  <2>2. Owed = 1 /\ Owed' = pending
    BY <1>t, <2>1 DEF Owed, TypeOK
  <2>q. QED BY <1>t, <2>1, <2>2, Numbers DEF Balanced, Counted
<1>4. CASE SkipConsume
  <2>1. ConsumeFrame /\ pc = "skipConsume" /\ pc' = "skipRelease" /\ pending' = pending
    <3>1. ~(ConsumeInterrupted /\ Goto("close"))
      BY InterruptGivesUp
    <3>2. ~Goto("disaster")
      OBVIOUS
    <3>q. QED BY <1>4, <3>1, <3>2 DEF SkipConsume
  <2>2. Owed' = Owed - 1
    BY <1>t, <2>1 DEF Owed, TypeOK
  <2>3. Balanced
    BY <2>1, <2>2, ConsumeEffect, FrameConsumed DEF Balanced
  <2>q. QED BY <2>1, <2>3, ConsumeEffect
<1>5. CASE SkipRelease
  <2>1. /\ pc = "skipRelease" /\ pending' = pending - 1
        /\ pc' = IF pending' >= 1 THEN "skipConsume" ELSE "consume"
        /\ UNCHANGED <<mPendingFrames, mStopped, screen, queue, notifying, running>>
    BY <1>5 DEF SkipRelease, ReleaseConsumedFrame
  <2>2. pending >= 1
    BY <2>1 DEF IInv, ControlInv, SkipInv
  <2>3. Owed' = Owed
    BY <1>t, <2>1, <2>2 DEF Owed, TypeOK
  <2>q. QED BY <2>1, <2>3, NothingMoved
<1>6. CASE Consume
  <2>1. ConsumeFrame /\ pc = "consume" /\ pc' = "encode"
    <3>1. ~(ConsumeInterrupted /\ Goto("close"))
      BY InterruptGivesUp
    <3>2. ~Goto("disaster")
      OBVIOUS
    <3>q. QED BY <1>6, <3>1, <3>2, PacedAssumption DEF Consume
  <2>2. Owed' = Owed - 1
    BY <2>1 DEF Owed
  <2>3. Balanced
    BY <2>1, <2>2, ConsumeEffect, FrameConsumed DEF Balanced
  <2>q. QED BY <2>1, <2>3, ConsumeEffect
<1>7. CASE Encode \/ SendFrame
  <2>1. UNCHANGED captureVars /\ pc \in {"encode", "send"}
        /\ pc' \in {"send", "shotWrite", "disaster", "exited", "release", "close"}
    BY <1>7 DEF Encode, SendFrame
  <2>2. Owed' = Owed
    BY <2>1 DEF Owed
  <2>q. QED BY <2>1, <2>2, NothingMoved
<1>8. CASE Ending
  BY <1>8 DEF Ending, WriteScreenshot, Free, Disaster, DisasterFree, Fail
<1>q. QED BY <1>1, <1>2, <1>3, <1>4, <1>5, <1>6, <1>7, <1>8 DEF Untimed

\* The timed steps of the main thread, the environment and time itself do.
LEMMA OtherCounts ==
  ASSUME ~SpuriousEINTR, IInv, IsVirtual, running', NothingGivenUp',
         [PacedNext]_pacedVars, ~Untimed
  PROVE  NothingGivenUp /\ running /\ Balanced
<1> USE DEF NothingGivenUp, Winding
<1>t. TypeOK
  BY DEF IInv
<1>1. CASE StartWait \/ GiveUpWait \/ WakeAndCheck
  <2>1. /\ UNCHANGED captureVars /\ pc \in {"waitHead", "wait", "inner"}
        /\ \/ pc' = "close" /\ mStopped
           \/ pc' \in {"waitHead", "wait"} /\ (mStopped => pc = "wait")
    BY <1>1, PacedAssumption DEF StartWait, WaitHead, WaitReturns, AfterWait,
       GiveUpWait, WaitTimeout, WaitTimesOut, WakeAndCheck, CheckStoppedBeforeWait
  <2>2. Owed' = Owed
    BY <2>1 DEF Owed
  <2>q. QED BY <2>1, <2>2, NothingMoved
<1>2. CASE TakeFrameNow
  <2>1. /\ pc = "wait" /\ pc' \in {"skipReport", "consume"}
        /\ mPendingFrames' = mPendingFrames - 1
        /\ UNCHANGED sourceVars
    BY <1>t, <1>2, TakenEffect
  <2>2. Owed = 0 /\ Owed' = 1
    BY <2>1 DEF Owed
  <2>q. QED BY <1>t, <2>1, <2>2, Numbers DEF Balanced, Counted
<1>3. CASE ReleaseAndSleep \/ CloseUnpaced
  <2>1. /\ UNCHANGED <<waiterVars, screen, queue, notifying, running>>
        /\ Owed' = Owed /\ NothingGivenUp
    BY <1>3 DEF ReleaseAndSleep, ReleaseSent, CloseUnpaced, Close,
       ReleaseConsumedFrame, Owed
  <2>q. QED BY <2>1, NothingMoved
<1>4. CASE Tick \/ UNCHANGED pacedVars \/ Exited
  <2>1. UNCHANGED <<captureVars, mainVars>>
    BY <1>4 DEF Tick, pacedVars, vars, Exited
  <2>2. Owed' = Owed /\ NothingGivenUp
    BY <2>1 DEF Owed
  <2>q. QED BY <2>1, <2>2, NothingMoved
<1>5. CASE SignalHandled \/ SignalInterrupts \/ AcceptFails
  <2>1. UNCHANGED <<mPendingFrames, sourceVars>> /\ Owed' = Owed /\ NothingGivenUp
    BY <1>5 DEF SignalHandled, SignalInterrupts, Stop, AcceptFails,
       BlockedInAccept, BlockedInSend, Owed
  <2>q. QED BY <2>1, NothingMoved
<1>6. CASE Binder
  <2>1. /\ mPendingFrames' = mPendingFrames + 1 /\ notifying' = notifying - 1
        /\ UNCHANGED <<mStopped, queue, running, mainVars>>
    BY <1>6 DEF Binder, FrameProxyCalls, OnFrameAvailable
  <2>2. Owed' = Owed /\ NothingGivenUp
    BY <2>1 DEF Owed
  <2>3. Balanced
    BY <1>t, <2>1, <2>2, Numbers DEF Balanced, Counted
  <2>q. QED BY <2>1, <2>2, <2>3
<1>7. CASE Composer
  <2>1. UNCHANGED <<mPendingFrames, mStopped, running, mainVars>>
    BY <1>7 DEF Composer, ScreenChanges, ComposerQueues, ComposerReplaces
  <2>2. Owed' = Owed /\ NothingGivenUp
    BY <2>1 DEF Owed
  <2>3. Len(queue') - Len(queue) = notifying' - notifying /\ Len(queue') \in Nat
        /\ notifying' \in Nat
    <3>1. CASE ScreenChanges
      BY <1>t, <3>1 DEF ScreenChanges, TypeOK
    <3>2. CASE ComposerQueues
      BY <1>t, <3>2 DEF ComposerQueues, TypeOK
    <3>3. CASE ComposerReplaces
      BY <1>t, <3>3, ReplaceLast DEF ComposerReplaces, TypeOK
    <3>q. QED BY <1>7, <3>1, <3>2, <3>3 DEF Composer
  <2>4. Balanced
    BY <1>t, <2>1, <2>2, <2>3, Numbers, SMTT(30) DEF Balanced, Counted
  <2>q. QED BY <2>1, <2>2, <2>4
<1>8. CASE \E c \in Clients : ClientConnects(c) \/ ClientLeaves(c) \/ ClientReads(c)
  <2>1. UNCHANGED <<captureVars, mainVars>>
    BY <1>8 DEF ClientConnects, ClientLeaves, ClientReads
  <2>2. Owed' = Owed /\ NothingGivenUp
    BY <2>1 DEF Owed
  <2>q. QED BY <2>1, <2>2, NothingMoved
<1>q. QED
  BY <1>1, <1>2, <1>3, <1>4, <1>5, <1>6, <1>7, <1>8
     DEF PacedNext, PacedStep, Environment

\* While nothing has been given up, every queued frame is accounted for.
LEMMA CountExactStep ==
  ASSUME ~SpuriousEINTR, IInv, IInv', CountExact, [PacedNext]_pacedVars
  PROVE  CountExact'
<1> SUFFICES ASSUME IsVirtual, running', NothingGivenUp'
             PROVE  Counted' = Len(queue')
  BY DEF CountExact, Counted
<1>1. CASE NothingGivenUp /\ running /\ Balanced
  <2>1. Counted = Len(queue)
    BY <1>1 DEF CountExact, Counted
  <2>2. Len(queue) \in Int /\ Len(queue') \in Int /\ Counted \in Int
    <3>1. queue' \in Seq(Nat)
      BY DEF IInv, TypeOK
    <3>2. Len(queue) \in Int /\ Counted \in Int
      BY Numbers DEF Counted
    <3>q. QED BY <3>1, <3>2
  <2>3. Counted' \in Int
    <3>1. mPendingFrames' \in Int /\ notifying' \in Int /\ Owed' \in Int
      BY DEF IInv, TypeOK, Owed
    <3>q. QED BY <3>1 DEF Counted
  <2>q. QED BY <1>1, <2>1, <2>2, <2>3, SMTT(30) DEF Balanced
<1>2. CASE pc' = "reserve" /\ queue' = <<>> /\ notifying' = 0 /\ mPendingFrames' = 0
  <2>1. Owed' = 0
    BY <1>2 DEF Owed
  <2>q. QED BY <1>2, <2>1 DEF Counted
<1>q. QED BY <1>1, <1>2, UntimedCounts, OtherCounts

\* Where frames are skipped and shown from.
Skipping == pc \in {"skipReport", "skipConsume", "skipRelease", "consume"}

\* The frames announced when the wait is over are those main() will consume.
LEMMA TakenAreQueued ==
  ASSUME IInv, SourceOrdered, CountExact, TakeFrameNow
  PROVE  /\ IsVirtual => /\ mPendingFrames \in 1 .. Len(queue)
                         /\ announced' = queue[mPendingFrames]
         /\ ~IsVirtual => announced' = NoFrame
         /\ announced' \in Nat /\ announced' <= screen
<1>t. TypeOK
  BY DEF IInv
<1>1. /\ pc = "wait" /\ mPendingFrames > 0
      /\ announced' = IF notifying < Len(queue) THEN queue[Len(queue) - notifying] ELSE NoFrame
  BY <1>t, TakenEffect
<1>2. CASE IsVirtual
  <2>1. running
    BY <1>1, <1>2 DEF IInv, VirtualInv, DisplayInv
  <2>2. Owed = 0 /\ NothingGivenUp
    BY <1>1 DEF Owed, NothingGivenUp
  <2>3. mPendingFrames + 0 + notifying = Len(queue)
    BY <1>2, <2>1, <2>2 DEF CountExact
  <2>4. /\ notifying < Len(queue) /\ Len(queue) - notifying = mPendingFrames
        /\ mPendingFrames \in 1 .. Len(queue)
    BY <1>1, <2>3, Numbers
  <2>5. queue[mPendingFrames] \in Nat /\ queue[mPendingFrames] <= screen
    BY <1>t, <2>4, StreamTypes DEF SourceOrdered
  <2>q. QED BY <1>1, <1>2, <2>4, <2>5
<1>3. CASE ~IsVirtual
  <2>1. queue = <<>> /\ notifying = 0
    BY <1>3 DEF IInv, CirculationInv, ScreenshotInv
  <2>q. QED BY <1>t, <1>1, <1>3, <2>1 DEF NoFrame, TypeOK
<1>q. QED BY <1>2, <1>3

\* A frame is shown after all that were to be skipped before it.
LEMMA NewestStep ==
  ASSUME ~SpuriousEINTR, IInv, IInv', StreamInv, TimeInv, NewestInv,
         [PacedNext]_pacedVars
  PROVE  NewestInv'
<1>t. /\ TypeOK /\ SourceOrdered /\ announced \in Nat /\ screen \in Nat /\ pending \in Nat
      /\ queue \in Seq(Nat) /\ Len(queue) \in Nat /\ held \in Nat
  <2>1. TypeOK /\ SourceOrdered /\ announced \in Nat
    BY DEF IInv, StreamInv, OrderInv, TimeInv, TimerInv
  <2>2. screen \in Nat /\ queue \in Seq(Nat) /\ held \in Nat /\ pending \in Nat
    BY <2>1 DEF TypeOK
  <2>q. QED BY <2>1, <2>2
<1>n. CountExact /\ NewestQueued /\ announced <= screen
      /\ (~IsVirtual => announced = NoFrame)
      /\ (pc \in {"encode", "send"} => held >= announced)
  BY DEF NewestInv
<1>c. CountExact'
  BY <1>n, CountExactStep
<1> SUFFICES /\ NewestQueued'
             /\ announced' <= screen' /\ (~IsVirtual => announced' = NoFrame)
             /\ pc' \in {"encode", "send"} => held' >= announced'
  BY <1>c DEF NewestInv
<1>1. CASE TakeFrameNow
  <2>1. /\ pc' = IF mPendingFrames > 1 THEN "skipReport" ELSE "consume"
        /\ pending' = mPendingFrames
        /\ UNCHANGED <<screen, queue>>
    BY <1>t, <1>1, TakenEffect
  <2>2. /\ IsVirtual => /\ mPendingFrames \in 1 .. Len(queue)
                        /\ announced' = queue[mPendingFrames]
        /\ ~IsVirtual => announced' = NoFrame
        /\ announced' \in Nat /\ announced' <= screen
    BY <1>t, <1>n, <1>1, TakenAreQueued
  <2>3. IsVirtual => ToConsume' = mPendingFrames
    BY <2>1, <2>2 DEF ToConsume
  <2>4. NewestQueued'
    BY <1>t, <2>1, <2>2, <2>3 DEF NewestQueued
  <2>q. QED BY <2>1, <2>2, <2>4
<1>2. CASE SkipReport /\ UNCHANGED timeVars
  <2>1. /\ pc = "skipReport" /\ pc' = "skipConsume" /\ pending' = pending - 1
        /\ UNCHANGED <<screen, queue, held, announced>>
    BY <1>2 DEF SkipReport
  <2>2. ToConsume' = ToConsume
    BY <1>t, <2>1 DEF ToConsume
  <2>q. QED BY <1>n, <2>1, <2>2 DEF NewestQueued
<1>3. CASE SkipConsume /\ UNCHANGED timeVars
  <2>1. CASE ConsumeFrame /\ pc' = "skipRelease" /\ UNCHANGED pending
    <3>1. pc = "skipConsume" /\ UNCHANGED <<screen, announced>>
      BY <1>3, <2>1 DEF SkipConsume, ConsumeFrame
    <3>2. pending >= 1
      BY <3>1 DEF IInv, ControlInv, SkipInv
    <3>3. ToConsume = pending + 1 /\ ToConsume' = pending
      BY <2>1, <3>1 DEF ToConsume
    <3>4. NewestQueued'
      <4> SUFFICES ASSUME IsVirtual
                   PROVE  pending \in 1 .. Len(queue') /\ queue'[pending] >= announced
        BY <3>1, <3>3 DEF NewestQueued
      <4>1. queue # <<>> /\ queue' = Tail(queue)
        BY <2>1 DEF ConsumeFrame
      <4>2. pending + 1 \in 1 .. Len(queue) /\ queue[pending + 1] >= announced
        BY <1>n, <3>1, <3>3 DEF NewestQueued
      <4>3. Len(queue') = Len(queue) - 1 /\ pending \in 1 .. Len(queue')
        BY <1>t, <3>2, <4>1, <4>2
      <4>4. queue'[pending] = queue[pending + 1]
        BY <1>t, <4>1, <4>3
      <4>q. QED BY <4>2, <4>3, <4>4
    <3>q. QED BY <1>n, <2>1, <3>1, <3>4
  <2>2. CASE pc' \in {"close", "disaster"} /\ (ConsumeInterrupted \/ ConsumeFails)
    <3>1. UNCHANGED <<screen, announced>>
      BY <1>3, <2>2, ConsumeErrorEffect
    <3>q. QED BY <1>n, <2>2, <3>1 DEF NewestQueued
  <2>q. QED BY <1>3, <2>1, <2>2 DEF SkipConsume
<1>4. CASE SkipRelease /\ UNCHANGED timeVars
  <2>1. /\ pc = "skipRelease" /\ pending' = pending - 1
        /\ pc' = IF pending' >= 1 THEN "skipConsume" ELSE "consume"
        /\ UNCHANGED <<screen, queue, announced>>
    BY <1>4 DEF SkipRelease, ReleaseConsumedFrame
  <2>2. pending >= 1
    BY <2>1 DEF IInv, ControlInv, SkipInv
  <2>3. ToConsume' = ToConsume
    BY <1>t, <2>1, <2>2 DEF ToConsume
  <2>q. QED BY <1>n, <2>1, <2>3 DEF NewestQueued
<1>5. CASE Consume /\ UNCHANGED timeVars
  <2>1. CASE ConsumeFrame /\ pc' = "encode"
    <3>1. pc = "consume" /\ UNCHANGED <<screen, announced>>
      BY <1>5, <2>1 DEF Consume, ConsumeFrame
    <3>2. held' >= announced
      <4>1. CASE IsVirtual
        <5>1. 1 \in 1 .. Len(queue) /\ queue[1] >= announced
          BY <1>n, <3>1, <4>1 DEF NewestQueued, ToConsume
        <5>2. held' = queue[1]
          BY <1>t, <2>1, <4>1, <5>1 DEF ConsumeFrame
        <5>q. QED BY <5>1, <5>2
      <4>2. CASE ~IsVirtual
        BY <1>t, <1>n, <2>1, <4>2 DEF ConsumeFrame, NoFrame
      <4>q. QED BY <4>1, <4>2
    <3>q. QED BY <1>n, <2>1, <3>1, <3>2 DEF NewestQueued
  <2>2. CASE pc' \in {"close", "disaster"} /\ (ConsumeInterrupted \/ ConsumeFails)
    <3>1. UNCHANGED <<screen, announced>>
      BY <1>5, <2>2, ConsumeErrorEffect
    <3>q. QED BY <1>n, <2>2, <3>1 DEF NewestQueued
  <2>q. QED BY <1>5, <2>1, <2>2 DEF Consume
<1>6. CASE Composer /\ UNCHANGED timeVars
  <2>1. /\ UNCHANGED <<pc, pending, held, announced>>
        /\ screen' = screen + 1
    BY <1>6 DEF Composer, ScreenChanges, ComposerQueues, ComposerReplaces
  <2>2. ToConsume' = ToConsume
    BY <2>1 DEF ToConsume
  <2>3. \A i \in 1 .. Len(queue) :
          i \in 1 .. Len(queue') /\ queue'[i] \in {queue[i], screen + 1}
    <3>1. CASE ScreenChanges
      BY <3>1 DEF ScreenChanges
    <3>2. CASE ComposerQueues
      BY <1>t, <3>2 DEF ComposerQueues
    <3>3. CASE ComposerReplaces
      <4>1. /\ queue # <<>> /\ screen' = screen + 1
            /\ queue' = [queue EXCEPT ![Len(queue)] = screen']
        BY <3>3 DEF ComposerReplaces
      <4>2. Len(queue') = Len(queue) /\ DOMAIN queue' = 1 .. Len(queue)
        BY <1>t, <4>1, ReplaceLast
      <4>q. QED BY <1>t, <4>1, <4>2
    <3>q. QED BY <1>6, <3>1, <3>2, <3>3 DEF Composer
  <2>4. NewestQueued'
    <3> SUFFICES ASSUME IsVirtual, Skipping
                 PROVE  ToConsume \in 1 .. Len(queue') /\ queue'[ToConsume] >= announced
      BY <2>1, <2>2 DEF NewestQueued, Skipping
    <3>1. ToConsume \in 1 .. Len(queue) /\ queue[ToConsume] >= announced
      BY <1>n DEF NewestQueued, Skipping
    <3>2. screen + 1 >= announced
      BY <1>t, <1>n
    <3>q. QED BY <2>3, <3>1, <3>2
  <2>5. announced <= screen + 1
    BY <1>t, <1>n
  <2>q. QED BY <1>n, <2>1, <2>4, <2>5
<1>7. ASSUME UNCHANGED <<screen, announced>>,
             (IsVirtual /\ Skipping') => UNCHANGED <<pc, pending, queue>>,
             pc' \in {"encode", "send"} => pc \in {"encode", "send"} /\ held' = held
      PROVE  /\ NewestQueued'
             /\ announced' <= screen' /\ (~IsVirtual => announced' = NoFrame)
             /\ pc' \in {"encode", "send"} => held' >= announced'
  <2>1. IsVirtual /\ Skipping' => ToConsume' = ToConsume
    BY <1>7 DEF ToConsume
  <2>q. QED BY <1>n, <1>7, <2>1 DEF NewestQueued, Skipping
<1> USE DEF Skipping
<1>8. CASE StartWait \/ GiveUpWait \/ ReleaseAndSleep \/ WakeAndCheck \/ CloseUnpaced
  <2>1. /\ pc' \in {"wait", "waitHead", "close", "outer", "inner"}
        /\ UNCHANGED <<screen, announced>>
    BY <1>8, PacedAssumption DEF StartWait, WaitHead, WaitReturns, AfterWait,
       GiveUpWait, WaitTimeout, ReleaseAndSleep, ReleaseSent,
       ReleaseConsumedFrame, WakeAndCheck, CheckStoppedBeforeWait,
       CloseUnpaced, Close
  <2>q. QED BY <1>7, <2>1
<1>9. CASE (StartUp \/ AcceptLoop \/ Encode \/ SendFrame \/ Ending) /\ UNCHANGED timeVars
  <2>1. CASE StartUp
    BY <1>7, <1>9, <2>1, PacedAssumption DEF StartUp, Create, Apply,
       ApplyConfigChanges, Reserve, StartServer
  <2>2. CASE AcceptLoop
    BY <1>7, <1>9, <2>2 DEF AcceptLoop, CheckStoppedBeforeAccept, Accept,
       AcceptOnNothing, SendBanner
  <2>3. CASE Encode \/ SendFrame
    BY <1>7, <1>9, <2>3 DEF Encode, SendFrame
  <2>4. CASE Ending
    BY <1>7, <1>9, <2>4 DEF Ending, WriteScreenshot, Free, FreeCapture,
       Disaster, ReleaseConsumedFrame, DisasterFree, Fail
  <2>q. QED BY <1>9, <2>1, <2>2, <2>3, <2>4
<1>10. CASE (SignalHandled \/ SignalInterrupts \/ AcceptFails \/ Binder) /\ UNCHANGED timeVars
  BY <1>7, <1>10 DEF SignalHandled, SignalInterrupts, AcceptFails, Binder, FrameProxyCalls
<1>11. CASE /\ \E c \in Clients : ClientConnects(c) \/ ClientLeaves(c) \/ ClientReads(c)
            /\ UNCHANGED timeVars
  <2>1. UNCHANGED <<captureVars, mainVars, timeVars>>
    BY <1>11 DEF ClientConnects, ClientLeaves, ClientReads
  <2>q. QED BY <1>7, <2>1
<1>12. CASE Tick \/ UNCHANGED pacedVars \/ (Exited /\ UNCHANGED timeVars)
  <2>1. UNCHANGED <<captureVars, mainVars, announced>>
    BY <1>12 DEF Tick, pacedVars, vars, Exited
  <2>q. QED BY <1>7, <2>1
<1>q. QED
  BY <1>1, <1>2, <1>3, <1>4, <1>5, <1>6, <1>8, <1>9, <1>10, <1>11, <1>12
     DEF PacedNext, PacedStep, Untimed, Environment

\* Nothing has been announced when the program starts.
LEMMA NewestInit == PacedInit => NewestInv
BY DEF PacedInit, Init, CaptureInit, NewestInv, CountExact, NewestQueued, NoFrame

(* A client that is paced is sent the newest frame announced when the wait *)
(* for it was over, or a later one (minicap.cpp:472-505): whatever is      *)
(* queued or replaced during the sleep and during the skipping.  Where the *)
(* capture may report an EINTR nobody caused, a frame stays queued that is *)
(* no longer counted, and every later one is shown late by one.            *)
THEOREM ShownFrameIsNewest ==
  ASSUME ~SpuriousEINTR
  PROVE  PacedSpec => []SendsNewest
<1>1. NewestInv => SendsNewest
  BY DEF NewestInv, SendsNewest
<1>2. IInv /\ IInv' /\ StreamInv /\ TimeInv /\ NewestInv /\ [PacedNext]_pacedVars => NewestInv'
  BY NewestStep
<1>q. QED BY <1>1, <1>2, NewestInit, UntimedInvariants, TimeInvariance, PTL DEF PacedSpec

=============================================================================
