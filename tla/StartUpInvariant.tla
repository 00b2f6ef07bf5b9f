-------------------------- MODULE StartUpInvariant --------------------------
(***************************************************************************)
(* The inductive invariant of StartUp: what makes the query of -i find     *)
(* what is there, what -r leaves behind, how far the parser has got in a   *)
(* well-formed argument, what it has read, and the Projection minicap runs *)
(* with.                                                                   *)
(***************************************************************************)
EXTENDS StartUp

\* The calls a query of -i can have left.
CallsLeft ==
  Queries \cup {Tail(Info29), <<"getDisplayConfigs", "getActiveConfig">>,
                <<"getActiveConfig">>, Framebuffer, <<"ioctl">>, <<"print">>, <<>>}

\* main() is asking, or has asked.
Asked == phase \in {"info", "shown", "noInfo"}

\* Nothing is asked before all options are read.
NotAskedInv ==
  ~Asked =>
    /\ calls = <<>> /\ dpy = "none" /\ configs = 1
    /\ info = NoInfo /\ rotation = Uninitialised /\ answer = "none"

\* Only a list of configurations makes their number other than one, and an
\* error cast to size_t is above every such number.
ConfigsInv ==
  /\ calls \in CallsLeft
  /\ dpy \in {"none", "asked", "internal"}
  /\ configs \in 0 .. SizeMax
  /\ calls = Info9 \/ calls = Info17 => configs = 1

\* A composer gives an orientation that the switch knows.
Known(i) ==
  i.display # "framebuffer" => i.config \in 0 .. configs - 1 /\ i.orientation \in 0 .. 3

AnswerInv ==
  /\ info \in [display : {"none", "asked", "internal", "framebuffer"},
               config : Int, orientation : Int]
  /\ answer \in {"none", "json", "failure"}
  /\ calls # <<>> => answer = "none"
  /\ calls = <<"print">> \/ answer = "json" => Known(info)

QueryInv == NotAskedInv /\ ConfigsInv /\ AnswerInv /\ AnswerAsFound

-----------------------------------------------------------------------------

\* What an -r leaves behind is left alone by every other option.
RateInv ==
  /\ framePeriodMs \in Int
  /\ IF rate = NoRate THEN framePeriodMs = 0
     ELSE /\ "skipFrames" \in flags
          /\ PeriodIsInt(rate) => framePeriodMs >= 0 /\ IsPeriod(framePeriodMs, rate)

-----------------------------------------------------------------------------

Projections ==
  [realWidth : Nat, realHeight : Nat, virtualWidth : Int, virtualHeight : Int,
   rotation : 0 .. 3]

\* Only what is valid runs, and a program that runs keeps its Projection.
SizeInv ==
  /\ phase \in {"options", "parsing"} =>
       proj \in Projections /\ proj.virtualWidth >= 0 /\ proj.virtualHeight >= 0
  /\ phase = "running" => proj \in Projections /\ valid(proj)
  /\ FitsRequest
  /\ KeepsAspect

-----------------------------------------------------------------------------

Characters == Digits \cup Separators

\* The states of the parser while it reads size k, and while it reads the
\* four rotations.
Starts ==
  <<"real_width_start", "real_height_start", "virtual_width_start", "virtual_height_start">>
Continues ==
  <<"real_width_continued", "real_height_continued",
    "virtual_width_continued", "virtual_height_continued">>
Turns ==
  <<<<"rotation_start", "satisfied">>,
    <<"rotation_start", "rotation_90_2", "satisfied">>,
    <<"rotation_start", "rotation_180_2", "rotation_180_3", "satisfied">>,
    <<"rotation_start", "rotation_270_2", "rotation_270_3", "satisfied">>>>

Begins(t, u) == Len(t) <= Len(u) /\ \A i \in 1 .. Len(t) : t[i] = u[i]

\* The state after n characters of a text that is split at s and turned r.
StateAfter(s, r, n, state) ==
  /\ \A k \in 1 .. 4 :
       /\ n = From(s, k) - 1 => state = Starts[k]
       /\ n \in From(s, k) .. s[k] - 1 => state = Continues[k]
  /\ n >= s[4] => state = Turns[r + 1][n - s[4] + 1]

\* If what was looked at begins u, and u is well-formed, then the parser is
\* where u takes it, and has not given up.
OnCourse(u) ==
  \A s \in Splits(u), r \in 0 .. 3 :
    IsWritten(u, s, r) /\ Begins(text, u) =>
      /\ phase = "parsing" => StateAfter(s, r, Len(text), mState)
      /\ phase # "badCharacter"
      /\ phase = "cutShort" => Len(text) < Len(u)

CourseInv == text \in Seq(Characters) /\ \A u \in Seq(Characters) : OnCourse(u)

-----------------------------------------------------------------------------

\* Size k stands in proj as the characters from its beginning to hi write it.
SizeIsRead(s, k, hi) ==
  /\ AllDigits(text, From(s, k), hi)
  /\ proj[Sizes[k]] = Decimal(text, From(s, k), hi) % Wrap

\* The sizes before size k were read, and those after it were not.
ReadBefore(s, k) ==
  /\ \A j \in 1 .. k - 1 : SizeIsRead(s, j, s[j] - 1) /\ text[s[j]] = Ends[j]
  /\ \A j \in k + 1 .. 4 : proj[Sizes[j]] = 0

\* The parser is in the middle of size k, or before it.
ReadingSize(s, k) ==
  /\ ReadBefore(s, k)
  /\ \/ mState = Starts[k] /\ Len(text) = From(s, k) - 1 /\ proj[Sizes[k]] = 0
     \/ mState = Continues[k] /\ SizeIsRead(s, k, Len(text))
  /\ proj.rotation = 0

\* The parser has read n characters of rotation r.
ReadingRotation(s, r, n) ==
  /\ ReadBefore(s, 5)
  /\ Len(text) = s[4] + n
  /\ \A i \in 1 .. n : text[s[4] + i] = Rotations[r + 1][i]
  /\ mState = Turns[r + 1][n + 1]
  /\ proj.rotation = IF n = Len(Rotations[r + 1]) THEN r ELSE 0

Marks(t) == {i \in DOMAIN t : t[i] \in Separators}

\* A split of what was looked at so far: 0 where there is no end yet.
SplitSoFar == [1 .. 4 -> {0} \cup Marks(text)]

\* What was looked at so far is read, as far as it goes.
PartlyRead ==
  \E s \in SplitSoFar :
    \/ \E k \in 1 .. 4 : ReadingSize(s, k)
    \/ \E r \in 0 .. 3 : \E n \in 0 .. Len(Rotations[r + 1]) : ReadingRotation(s, r, n)

ReadInv ==
  /\ options \in Nat
  /\ options = 0 /\ phase = "options" => proj = NoProjection
  /\ phase = "parsing" => options > 0
  /\ options = 1 /\ phase = "parsing" => PartlyRead
  /\ ParsedAsWritten

StartUpInv == QueryInv /\ RateInv /\ SizeInv /\ CourseInv /\ ReadInv

-----------------------------------------------------------------------------
(* What the other modules assume of the options.                           *)

Geometry == INSTANCE FrameGeometry

\* What main() gives setRealInfo() and setDesiredInfo() (minicap.cpp:329-338).
RealSize == [width |-> proj.realWidth, height |-> proj.realHeight]
DesiredSize == [width |-> proj.virtualWidth, height |-> proj.virtualHeight]

(* Where the rest of main() takes over, the sizes are those VirtualDisplay *)
(* assumes (DisplayAssumption) and not empty, the rotation is one its      *)
(* switch knows, and a period, unless it was no int, is one PacedMain      *)
(* assumes and has its frames skipped (PacedAssumption).                   *)
HandsOver ==
  phase = "running" =>
    /\ {RealSize, DesiredSize} \subseteq Geometry!Sizes
    /\ DesiredSize.width \in 1 .. RealSize.width
    /\ DesiredSize.height \in 1 .. RealSize.height
    /\ Geometry!InProportion(DesiredSize, RealSize)
    /\ proj.rotation \in 0 .. 3
    /\ rate = NoRate \/ PeriodIsInt(rate) => framePeriodMs \in Nat
    /\ framePeriodMs # 0 => "skipFrames" \in flags

=============================================================================
