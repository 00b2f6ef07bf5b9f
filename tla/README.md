# minicap in TLA+

minicap runs on an Android device, captures the screen and streams it as JPEG
frames to whoever connects to an abstract Unix socket. It is one executable
(`jni/minicap`) and one shared library per Android version
(`jni/minicap-shared/aosp/src/minicap_<sdk>.cpp`) behind the interface
`Minicap.hpp`. This directory models the parts of it in which something
happens between threads, processes or calls, checks them with TLC and proves
their safety properties with TLAPS.

## Inventory

| Part | State it keeps | Operations | Works with |
| --- | --- | --- | --- |
| Frame waiter (`FrameWaiter`, minicap.cpp:56-106) | `mPendingFrames`, `mStopped` | `waitForFrame`, `reportExtraConsumption`, `onFrameAvailable`, `stop`, `isStopped` | called by the main thread, the binder threads and the signal handler |
| Main program (minicap.cpp:209-557) | options, `pending`, `haveFrame`, `fd`, the statement it is at | option loop, start-up, accept loop, frame loop with skipping and pacing, screenshot, test, `close` and `disaster` | calls every other part |
| Signal handler (192-207) | none | sets the stop flag | any thread, or the main thread in a blocking call |
| Capture interface (`Minicap.hpp`) | a held frame | `applyConfigChanges`, `consumePendingFrame`, `releaseConsumedFrame`, `release` | main program; announces frames to the waiter |
| Screenshot capture (`minicap_9/14/16.cpp`) | `mHeap` | captures when asked; a release announces the next frame | as above |
| Virtual display (`minicap_17` to `minicap_29.cpp`) | display token, queue, `CpuConsumer`, `FrameProxy`, locked buffer, `mHaveRunningDisplay` | `createVirtualDisplay`, `destroyVirtualDisplay` | SurfaceFlinger queues buffers, binder threads announce them |
| Server (`SimpleServer.cpp`) and `pumps()` | `mFd`, backlog, connections | `start`, `accept`, `send`, `close` | clients |
| Projection (`Projection.hpp`) | five numbers, parser state | `parse`, `forceMaximumSize`, `forceAspectRatio`, `valid` | option loop of `main()` |
| JPEG encoder (`JpgEncoder.cpp`) | buffer and its size | `reserveData`, `encode`, `convertFormat` | main program |
| Wire format (minicap.cpp:108-152, 450-460; `example/app.js`) | none; the client's parser counters | `pumps`, `pumpf`, `putUInt32LE`, `tryRead` | server and client |
| Display information (minicap.cpp:153-188, 287-330; `minicap_try_get_display_info`) | none | one query for each SDK, the framebuffer as fallback | `-i`; SurfaceFlinger, the kernel |

### What is hard in it

* Binder threads announce frames between the wait of the main thread and the
  deduction of the frames it skips. The code says of it "Not particularly
  thread safe" and relies on nobody else decreasing the counter.
* Frames may be skipped, interrupted by `EINTR`, lost with a client, or held
  when an error strikes. The counter, the queue and the held frame must agree
  on every way around the loop and from one client to the next.
* With ScreenshotClient the release of a frame is the only announcement of the
  next. One release too few and the stream stops; one too many and the loop
  runs ahead.
* The composer runs between any two calls that set a display up or take it
  down. Twelve files repeat that sequence with differences in order.
* A signal may be handled on any thread, at any time, with only a flag to show
  for it.
* A client may leave at any time, or not read.
* The wait for a frame has a timeout and the sleep of `-r` a deadline; a signal
  ends neither.
* The size asked for goes through doubles and back, and is turned on its side
  with the display; an encoder that was told the unturned size has to take it.

`PROJECT.json` lists these at their lines as hazards, with the properties that
would catch each.

## Modules

| Module | Models | Notes |
| --- | --- | --- |
| `FrameWaiter` | the class of that name | each method runs under its mutex and is one step |
| `Capture` | `Minicap.hpp` as `main()` sees it, both capture methods | `Method` chooses; a frame is the number of the screen content it shows |
| `SimpleServer` | server, `pumps()`, clients | a message is a number; a socket holds `SockCap` of them before `send()` blocks |
| `MinicapMain` | `main()` from `minicap_create()` on, with all of the above | one action per call that others can observe, with the branch on its result; `pc` names the statement |
| `MinicapProperties` | what should hold of it | |
| `MinicapInvariant` | the inductive invariants `IInv` and `StreamInv` | |
| `MinicapProofs`, `StreamProofs` | their proofs and what follows | |
| `MCMinicap` | the instances for TLC | |
| `CaptureContract` | the abstract specification of a capture method | published at one instant, every queued frame announced once, handed out in order, one at a time, no more of them taken than announced; `VirtualDisplay` implements it, `MinicapMain` keeps to it |
| `VirtualDisplaySdks` | `createVirtualDisplay()` and `destroyVirtualDisplay()` of the twelve SDKs | each a sequence of calls |
| `VirtualDisplay` | what each call does, with composer and binder threads in between | refines `CaptureContract` |
| `FrameGeometry` | the rectangles by orientation, the pixel formats of library and encoder, the size of the encoder's buffer | pure operators, used by `VirtualDisplay` |
| `VirtualDisplayInvariant` | its inductive invariant `DisplayInv` | |
| `VirtualDisplayCalls`, `VirtualDisplayProofs`, `VirtualDisplayRefinement` | proofs: the sequences of the SDKs, the invariant, the refinement | |
| `MCVirtualDisplay` | its instance for TLC | |
| `PacedMain` | `MinicapMain` with the timeout of the wait and the sleep of `-r` | refines `MinicapMain` |
| `PacedInvariant`, `PacedProofs` | its inductive invariants `TimeInv` and `NewestInv`, the proofs | |
| `MCPaced` | its instance for TLC | |
| `Projection` | the `-P` option: parser, fitting, check | a turn of the parser's loop is a step |
| `DisplayInfo` | `-i`: the query of each SDK as the sequence of calls it makes, the framebuffer, the rotation printed | |
| `StartUp` | the option loop and what follows it | schedules the actions of `Projection` and `DisplayInfo` |
| `StartUpInvariant`, `StartUpProofs` | its inductive invariant `StartUpInv` and what it hands over (`HandsOver`), the proofs | `HandsOver` measures sizes with `FrameGeometry` |
| `MCStartUp` | its instance for TLC | |
| `WireBytes`, `JpgEncoder`, `ExampleClient` | bytes; the encoder's buffer; `tryRead()` of `example/app.js` | a turn of the client's loop is a step |
| `FrameChannel` | the abstract specification of a connection | whole frames, each received once, unchanged, in order |
| `Framing` | banner, length, `pumps()` and the socket between encoder and client | refines `FrameChannel` |
| `FramingInvariant`, `FramingProofs` | its inductive invariant `FramingInv`, the proofs | |
| `MCFraming` | its instance for TLC | |

`Capture` extends `FrameWaiter`; `MinicapMain` extends `Capture` and
`SimpleServer`; `PacedMain` extends `MinicapMain` and has its
`FairSpec` as a property; `VirtualDisplay` extends `FrameWaiter`,
`VirtualDisplaySdks` and `FrameGeometry` and instantiates `CaptureContract` with `held` and
`running` computed from its own state. `Framing` extends `JpgEncoder` and
`ExampleClient` and instantiates `FrameChannel`; that refinement is what allows
`SimpleServer` to send a message in one step.

`StartUp` ends in the phase `"running"` where `MinicapMain` begins; what
`MinicapMain` and `PacedMain` take as constants (`Mode`, `SkipFrames`,
`Periods`) is there in `flags` and `framePeriodMs`. `HandsOver` says that what is
there, and the sizes and the rotation of the projection, meet the assumptions
`PacedAssumption` and `DisplayAssumption` on the constants of the modules that go
on; it is proved (`OptionsAreAsAssumed`).

Operators whose names carry a suffix after an underscore (`Close_Keeps`,
`Create17_ListenerLast`) are faulty variants of the definition that follows
them. Nothing uses them; they take a definition's place to show that a
property can fail.

### How the main program is cut into steps

A step of the main thread is one call whose effect another thread, the kernel
or a client can see, together with the branch on its result: `WaitTake` is the
return from `wait_for()` with the decrement, `SkipReport` the deduction and the
first `--pending`, `Close` the `close()` and the release that follows it. The
values the statement `pc` takes are named for the source: `skipConsume` is the
`consumePendingFrame()` of minicap.cpp:481, `consume` the one of 496, `close`
and `disaster` are the labels.

`haveFrame` keeps its value at `close`, as in the code. `encode()` may succeed,
fail, or throw (`convertFormat()` of JpgEncoder.cpp:90), which aborts the
program. `server.start()` returns -1, 0 or a descriptor, and `main()` tests it
as the code does.

`SignalHandled` is a handler on another thread, or on the main thread where
nothing blocks; `SignalInterrupts` is one on the main thread in a blocking
`accept()` or `send()`, which then fails with `EINTR` because the handler is
installed without `SA_RESTART`. Reading the plain bool `mStopped` late is the
same behaviour as a signal that comes later, so the data race needs no variable
of its own.

### Time

`PacedMain` adds timers to the steps of `MinicapMain` and changes none of them.
`Tick` advances the timers. `wait_for()` comes back without a frame when
`waiting` has reached `mTimeout`, and `sleep_until()` when a period has passed
since `frameAvailableAt`; neither is held up beyond its tick, while every other
step, encoding and sending among them, may take any number of ticks. The
timers count no further than what they are compared with, so time has no
bound. `framePeriodMs` is chosen at the start from `Periods`.

`ImplementsUntimed` states that hiding the timers leaves a behaviour of
`MinicapMain`, its fairness included. Whatever a run with `FairSpec` shows
therefore holds at every frame rate; in particular the unconditional timeout of
`MinicapMain` is one that always comes.

### Android, the kernel and the clients

They are modelled from how the code uses them. The screen changes; if a display
mirrors it, its frame takes a free buffer and the listener is called
afterwards, or it replaces the last buffer queued without a call; only when
every buffer is taken may it be lost.
`createDisplay()` may return no display, which no SDK's code notices
(`MayLackDisplay`). `lockNextBuffer()` may return `-EINTR` after a signal, or
for no reason (`SpuriousEINTR`), or another error at any time. Clients connect,
read, and leave when they like.

## Runs

| Run | Instance | Shows |
| --- | --- | --- |
| `VirtualSafety` | server, virtual display, skipping, stray EINTR, display may be missing; 3 buffers, 5 screens | types; `QueueAccounted`: counter, frames taken and announcements to come never exceed the queue; `ConsumptionFindsFrame`; `StreamOrdered`: banner once, then frames in screen order across clients; `NoDescriptorLeak`; `ServerTearsDown`; `KeepsContract`: `main()` keeps to `CaptureContract`, so that a frame is released before the next is consumed; `FramesAreNews`: a frame sent is newer than all that any client was sent |
| `VirtualLive` | the same without stray EINTR, under `FairSpec`; 4 screens | `NoFrameAfterStop`; `QueuedFrameReachesClient`; `StopHonoured` |
| `Screenshot` | server, ScreenshotClient, under `ReadingSpec`; 3 screens | `OneScreenshotInCirculation`, and `FirstFrameFollowsBanner`, which does hold for this method; `StreamOrdered` is proved for it with the rest |
| `ShotMode` | `-s`, ScreenshotClient, stray EINTR | `ScreenshotEnds` |
| `VirtualDisplayLife` | all SDKs, all orientations; 2 buffers, 4 screens, 2 configurations; a display of 24x80 shown as 20x66 | no frame before the display is ready, a locked buffer has its consumer, transactions are closed, freeing frees all, every frame is announced, and the refinement of `CaptureContract`; `NewFramesSatisfy`: after a configuration is applied every frame at hand has the size it asks for; `ShownInProportion`: the screen is shown whole; `FramesEncodable`: format and size suit the encoder |
| `Pacing` | `PacedSpec`, one client, periods of 0, 50 and 150 ms, a timeout of 100 ms; 3 buffers, 4 screens | `Paced`: a whole period between two frames of a client; `SendsNewest`: skipping ends at the newest frame announced; `StopDelayed`: the waits and sleeps a signal has to sit out are one timeout and one period at most; `ImplementsUntimed` |
| `StartUpOptions` | every `-P` argument with at most 5 size digits out of 0, 2, 3, 7, and up to two other options; integers up to 63; every SDK's query | the parser accepts the documented form, all of it, reads it as written; the size fits display and request and keeps the aspect; `PacedAsAsked`: period and skipping are those of the last `-r`; `AnswerAsFound`: `-i` prints what it was told, from inside the list of configurations |
| `WireFormat` | two connections, two frames of 3 or 27 bytes, a socket of 14 bytes | `ImplementsChannel`: what the client passes on is what was sent, however sends and chunks cut it and wherever a client leaves; the banner is understood; no frame is refused; nothing is written outside the buffer; what was sent arrives; `ScreenshotIsJpeg`: the output of `-s` is one JPEG, however `write()` cuts it |

Four runs show a disagreement between the code and what it or its README says,
and are expected to end in a counterexample:

* `StopInAccept`: a signal that comes between `isStopped()` and `accept()`, or
  is handled on a binder thread, does not end the server. It prints "Received
  SIGTERM, stopping" and waits for a client.
* `FirstFrame`: the README promises the header "followed by the first frame".
  On a screen that does not change, a second client of a virtual display gets
  the header and nothing. `LaterClientGetsFrame` asks for the frame only when
  another client has read one, so the display is known to be rendered, and a
  change of the screen is queued unless every buffer is taken: in the
  counterexample a client reads a frame and leaves, the next is served, and
  `main()` polls an empty queue for ever.
* `HaveFrame`: `haveFrame` outlives the frame. `OneScreenshotInCirculation`
  shows what comes of it: a second screenshot is announced only while the
  program stops.
* `StartFailure`: a server that cannot bind its name, and is sent no signal,
  calls `accept()` on descriptor 0 and exits with success.

### Bounds and why they are enough

Two clients: every property is about one client, or about what one leaves to
the next. Three buffers and one more screen content than the startup, the queue
and a replacement need: skipping two frames, replacing the last one and
queueing another during the skip all occur. Sockets buffer one message, so that
blocking occurs; more would only delay it. The backlog is the 1 of `listen()`.
Screen contents are bounded by `MaxScreen` alone; a behaviour at the bound is
one on a screen that no longer changes, which is a real and interesting
behaviour. `VirtualDisplayLife` stops where the instance is freed, and
`StartUpOptions` where the program has ended or begins to serve; those two runs do not check
deadlock. `WireFormat` stops where its frames are used up and does not
check deadlock either. A byte has 25 values there, the fewest that can hold the
banner's size, so that 27 is a length of two non-zero bytes; 14 bytes of socket
hold two short frames at once and cut the banner and a long frame anywhere.
With 63 for the largest integer (`UintMax`) a size of two digits wraps, as one
of ten digits does in 32 bits. Next to another option the sizes of a `-P` are 0 or 3 only
(`PlainSizes`): the options share no variable with the parser. Two options
that are not `-P` are enough for one to overrule the other (`-r 30 -r 0.5`,
`-i -S`). The rates are two that are refused, one of them because it is 0 as a
`float`; one whose period is even only as a fraction and one whose period never
is; one above 1000; one whose period is an `int` or not as it is rounded, with
`IntMax` 255; `inf` and `nan`. A `float` is 1024 times as exact as a period
(`FloatPrecision`), which keeps the products within the integers of TLC; in the
code it is four million times, two roundings of 24 bits. `SizeMax`, the largest `size_t`, is 7: enough for a negative
index to become one that is too large.

In `VirtualDisplayLife` 24x80 is high enough that a frame turned to the wrong
side does not fit the encoder's buffer, which is padded to 16 pixels and has
2048 bytes to spare, and 20x66 is a size `forceAspectRatio()` had to round.
Two configurations let a frame of the first be queued, announced and held when
the second is applied. A tick of `Pacing` is 50 ms: the timeout is 2, a period
may be none, shorter than the timeout or longer. Three buffers are as many as
`CpuConsumer` is asked for, and are full after a sleep; one client suffices, as
`CloseUnpaced` ends the pacing with each.

The constants matter to what TLC checks and not to what is proved.

### Fairness

`FairSpec` asks that the main thread and the binder threads be scheduled (weak
fairness of their next steps). Nothing is asked of signals, failures, the
screen or the composer. That `QueuedFrameReachesClient` and `ReadingSpec` need
clients to read is the example client's behaviour, which reads on every
`readable` event; `FairSpec` of `Framing` asks the same, and that a send with
room in the socket goes on. `StopHonoured` does without it. `PacedSpec` asks that the main
thread and the binder threads be scheduled and that time go on, which it does
unless a wait or a sleep is due. A screenshot is written to a
stdout that somebody drains.

## Proofs

TLC checks small instances; the theorems hold for every set of clients, every
size of queue, backlog and socket, every mode, method, SDK, orientation,
display size, period and timeout that the modules' assumptions on their
constants (`CaptureAssumption`, `ServerAssumption`, `MainAssumption`,
`PacedAssumption` and so on) allow. An invariant module states what is
inductive; the proof module next to it shows `Init => Inv`, `Inv /\ [Next]_vars
=> Inv'`, one step or lemma per action, and then what follows.

| Module | On top of | Theorems |
| --- | --- | --- |
| `MinicapProofs` | `MinicapInvariant` | `Invariance`; `TypeCorrect`, `FramesAccounted`, `ScreenshotCirculates`, `NeverStarved`, `ReleasePrecedesConsume`, `DescriptorsClosed`, `TornDown`; `ContractIsKept`: the refinement of `CaptureContract` |
| `StreamProofs` | `MinicapProofs` | `StreamInvariance`; `StreamsOrdered`, `NewsOnly`, `StopEndsStream` |
| `PacedProofs` | `PacedInvariant`, `StreamProofs` | `TimeIsSafe`, `UntimedInvariants`, `TimeInvariance`; `StopIsDelayedAtMost`, `RateLimited`, `ShownFrameIsNewest` |
| `StartUpProofs` | `StartUpInvariant` | `StartUpInvariance`; `InfoIsFound`, `RateIsKept`, `ProjectionFits`, `OptionsAreAsAssumed`, `ArgumentsAreRead`, `NoneIsRefused`, `RefusalsAreFinal` |
| `VirtualDisplayCalls`, `VirtualDisplayProofs` | `VirtualDisplayInvariant` | `DisplayInvariance`; `DisplayTypes`, `RendersReady`, `FramesAsAsked`, `ShownWhole`, `HandedOutEncodable`, `UnlockedByConsumer`, `TransactionsClose`, `FreeReleasesAll`, `FramesAnnounced` |
| `VirtualDisplayRefinement` | `VirtualDisplayProofs` | `CallsImplementContract`: the refinement of `CaptureContract` |
| `FramingProofs` | `FramingInvariant` | `FramingInvariance`; `BannerIsUnderstood`, `ClientNeverRefuses`, `BufferIsKeptTo`, `ScreenshotIsOneJpeg`; `ChannelIsImplemented`: the refinement of `FrameChannel` |

### The main program

None of the properties is inductive alone. `QueueAccounted` needs to know that
skipping starts with two frames and that the counter has not dropped below what
will be deducted (`SkipInv`), that without a display there is nothing to count
(`DisplayInv`), and which mode a statement belongs to (`ModeInv`).
`OneScreenshotInCirculation` needs that a frame held at `close` is vouched for
by `haveFrame` (`HeldInv`), and that where a stale `haveFrame` could release
once more than it should, no other screenshot is in circulation unless the
program is stopping (`ScreenshotInv`). `NoDescriptorLeak` needs that nobody is
served while the next client is awaited (`ClientInv`).

The step lemma of each action proves the five groups of `IInv` one by one.
`StillAccounted` carries the arithmetic of `QueueAccounted` through the actions
that move frames between queue, counter and main thread, so that each of them
shows only what it adds and what it takes.

`ContractIsKept` is where the invariant pays: a consumption is a step of the
contract only where nothing is held (`HeldInv`), the deduction of skipped frames
only where that many were announced (`SkipInv`), and `applyConfigChanges()` only
where nothing is published yet (`DisplayInv`). The
virtual displays implement the same contract (`CallsImplementContract`), so the
two halves of the system, which are modelled apart, rely on the same promises.

### The stream

`StreamOrdered` speaks of one client at a time and is not inductive: what a
client is sent next depends on what lies in the queue, and what is queued on
the screen. `OrderInv` orders all of it: what a client has read, then what its
socket holds, then the held frame where it may still be sent (`Showing`), then
the queue, then the screen. `GreetingInv` adds that a connection that waits in
the backlog waits once and was sent nothing (`BacklogInv`), which is why the
banner is the first message of each. Because `OrderInv` sets the held frame
against what every client was sent, not only the one being served, it also gives
`FramesAreNews`: no two clients of a virtual display get the same frame, which
is what the finding of `FirstFrame` comes from. `NoFrameAfterStop` follows from the
statements a stopped program can still reach (`StopPath`).

### Time

`TimeIsSafe` is the safety half of `ImplementsUntimed`: a step of `PacedMain` is
one of `MinicapMain` or leaves its variables alone. So `IInv` and `StreamInv`
hold with time, and `TimeInv` is proved on top of them. `Paced` needs that
wherever a wait may begin without a sleep the last period is over
(`PeriodOver`); `StopDelayed`, that a signal cannot have been held up for longer
than the wait it fell into and the sleep that follows it (`DelayInv`).

`ShownFrameIsNewest` is proved where `consumePendingFrame()` reports `-EINTR`
for a signal only (`~SpuriousEINTR`), as the run `Pacing` checks it. The
hypothesis is needed: after a stray `EINTR` main() leaves a frame in the queue
that the counter no longer knows of, and every later frame is shown one late.
Its invariant is that the counter is exact until a consumption is interrupted
(`CountExact`), and which place of the queue the newest frame has while frames
are skipped (`NewestQueued`).

### The start-up

Three invariants are independent of the rest. `QueryInv`: which calls a query
can have left, and that an index below zero, cast to `size_t`, lies above the
length of every list. `RateInv`: the period of the last `-r` is what was asked
for, to the precision of a `float` and cut to milliseconds, and no other option
touches it. It says nothing of the period of a rate so low that it is no `int`,
nor of that of `nan`, which the test `frameRate <= 0.0` lets through
(`PeriodIsInt`); a program may go on with any period there, and `HandsOver`
excepts them too. `SizeInv`: what is
accepted fits and keeps the aspect. The arithmetic of `forceAspectRatio()` is in
lemmas about `Rounded` and the truncated quotients, for every size; that the
product of two sizes and the quotient by a third behave as they should is
nonlinear, and each such fact is a lemma of its own.

The parser has two more, which face opposite ways. `CourseInv` looks ahead, at
every well-formed text that begins with what was looked at: the parser is then
in the state that text prescribes after that many characters (`StateAfter`) and
has not given up. So what is refused begins no well-formed text, for any `-P`
(`NoneIsRefused`). `ReadInv` looks back, at the only `-P`: some split of the text
into sizes and rotation accounts for the state, and every size in the Projection
is what its digits write so far (`PartlyRead`). At the end of an argument that is
accepted it becomes `ParsedAsWritten`.

What digits write (`Decimal`) is recursive, and the theorems hold for arguments
of every length, so the lemmas about it are by induction. It is done over a set,
as no prover can be handed a predicate: the least element of the natural numbers
outside the set of those for which the claim holds (`LeastElement`,
`SetInduction`). `Decimal` is shown to exist, to depend on its digits only and
to take one more digit as `* 10 +` does; that the parser may reduce modulo 2^32
after each digit instead of once is `WrapsAlike`.

### The virtual display

`VirtualDisplayCalls` shows of each of the twelve SDKs' sequences which calls it
makes and that all of them agree on an order (`Place`), but for the place of the
consumer. So what an operation has left is the end of that order (`ProgramInv`),
and what it has done can be said by the calls it has left: `DownInv` for what is
released while the old display is destroyed, `UpInv` for what is made before the
new one is published, `TransactionInv` for what waits for the commit. A frame
can only arrive while the display renders, and then the listener is set and the
buffers have their size (`RenderingInv`); that is what `EveryFrameAnnounced`
and `RendersOnlyWhenReady` need. One lemma covers each call, whichever SDK
makes it, and so each SDK's order.

`CallsImplementContract` is the whole refinement, as the contract has no
fairness: of the calls only the two that publish a display or end its rendering
are steps of the contract, the others are hidden; the frames of the composer and
the binder threads map one to one; consuming and releasing are the contract's.

### The wire

The client sees no boundaries, so that nothing can be said of it without saying
which bytes are still to come. `FramingInv` does so for all of them at once:
`Unread`, what lies in chunk, socket and `unsent` together, is a stretch of the
banner followed by the messages of the frames underway, and some function
`offset` gives the place of each message in it, negative where it has been read
(`LaidOut`). A cut of the stream moves nothing in `Unread`; a byte read shifts
every offset by one (`LaidOutDropped`); a frame encoded continues it
(`LaidOutAdded`); the end of a send makes room for the next message
(`LaidOutSent`). The client's counters are tied to it by one equation: they
stand where `Unread` begins (`Located`). What the counters mean is in `BannerInv`
and `FrameInv`: each number of four bytes is the sum of the bytes read so far
(`FirstBytes`), and that four of them make the number is Euclid's division
(`FourDigits`).

`Ends` says how far the stream reaches beyond the frames sent. It is what keeps
apart a frame still being sent, the rest of one that a failing `send()` cut, and
nothing, also for a client whose connection an interrupted consumption closed
(`LeaveLoop`); from it a frame whose last byte the client has is one main() has
sent (`WholeFrameIsSent`), which the refinement of `FrameChannel` rests on. That the
buffer holds exactly the length and the frame, and behind them what earlier
frames left, is `EncoderInv` and the lemma `Encoded`.

The theorems hold for every base of at least three values to a byte: 256 is
that of the program, and the instance TLC checks is smaller. They assume that
every size a frame can be compressed to lies within `tjBufSize()`, and that this
fits a `uint32_t` (`FramingAssumption`).

### Proved without a run

`ReleasedBeforeConsume` is a part of what `KeepsContract` says of each step, and
`HandsOver` of what `FitsRequest`, `KeepsAspect` and `PacedAsAsked` say, put in
the terms of the other modules; `NoneIsRefused` speaks of texts of every length,
which no run can enumerate.

### Only model-checked

* Liveness, which the prover cannot treat: `QueuedFrameReachesClient`,
  `StopHonoured`, `FirstFrameFollowsBanner`, `ScreenshotEnds`, `FrameDelivered`
  and the fairness in `ImplementsUntimed`.

## Plan

Done: frame waiter, capture, server, main program with options and pacing,
per-SDK displays with geometry and reconfiguration and their refinement,
projection, display information, encoder buffer, wire format, screenshot output
and example client with the refinement of `FrameChannel`; the inductive
invariants and theorems above.

Every part whose steps change state is modelled, and every safety property the
passing runs check is proved. `main()` and the virtual displays meet in
`CaptureContract`, with a proof on either side. What is left is the other seam:
that what `SimpleServer` sends each of its clients is a `FrameChannel`, which
takes a history variable for the messages sent.

## Not modelled, and why

* What `-d`, `-n` and `-Q` are given, usage text, logging. `-Q` is not checked
  against the 0-100 of the usage text; a quality the library refuses is the
  failure of `Encode`.
* The unit of time below a tick, and clocks that jump: `steady_clock` does not.
* Compression: a frame is its header and bytes that depend on its number. A
  second `reserveData()` for the same size returns false; nobody makes one.
* Sizes, densities and frame rate in the answer of `-i`, and its JSON layout:
  copied or computed without a decision.
* Size and format of a screenshot: they are the device's, and no code chooses
  them.
* What happens after `main()` has returned: static objects are destroyed while
  binder threads may still run. The screenshot mode returns without freeing its
  instance.
* A second `-P`: each one has a parser of its own, but the digits are added to
  the same projection. `Projection` has the behaviour (`MaxOptions`), and
  nothing in the repository says what it should be.
* The mock library, build files, scripts and prebuilt libraries.
