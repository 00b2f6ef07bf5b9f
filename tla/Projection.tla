----------------------------- MODULE Projection -----------------------------
(***************************************************************************)
(* class Projection (jni/minicap/Projection.hpp) and its use in main():    *)
(* every -P <w>x<h>@<w>x<h>/{0|90|180|270} is parsed into the same         *)
(* Projection, whose virtual size is then made to fit and checked.         *)
(*                                                                         *)
(* The parser takes one character at a time, so the argument need not be   *)
(* known in advance: a step is one turn of its loop.  StartUp schedules the *)
(* parser among the other options.                                         *)
(***************************************************************************)
EXTENDS Integers, Sequences, FiniteSets

CONSTANTS
  UintMax,      \* UINT32_MAX
  SizeDigits,   \* bound: the digits that occur in a size
  MaxDigits,    \* bound: digits an argument spends on its four sizes
  MaxOptions    \* bound: number of -P options

Digits == {"0", "1", "2", "3", "4", "5", "6", "7", "8", "9"}
Separators == {"x", "@", "/"}

ASSUME ProjectionAssumption ==
  /\ UintMax \in Nat
  /\ SizeDigits \subseteq Digits
  /\ MaxDigits \in Nat
  /\ MaxOptions \in Nat

\* Arithmetic on uint32_t is modulo this.
Wrap == UintMax + 1

DigitValue ==
  [d \in Digits |->
     CASE d = "0" -> 0 [] d = "1" -> 1 [] d = "2" -> 2 [] d = "3" -> 3
       [] d = "4" -> 4 [] d = "5" -> 5 [] d = "6" -> 6 [] d = "7" -> 7
       [] d = "8" -> 8 [] d = "9" -> 9]

VARIABLES
  phase,      \* where main() is, and how it has ended
  options,    \* -P options met so far
  mState,     \* state of the Parser of the current -P
  text,       \* characters the Parser has looked at
  proj,       \* the Projection
  requested   \* the Projection as it was before it was made to fit

projectionVars == <<phase, options, mState, text, proj, requested>>

NoProjection ==
  [realWidth |-> 0, realHeight |-> 0,
   virtualWidth |-> 0, virtualHeight |-> 0, rotation |-> 0]

ProjectionInit ==
  /\ phase = "options"
  /\ options = 0
  /\ mState = "real_width_start"
  /\ text = <<>>
  /\ proj = NoProjection
  /\ requested = NoProjection

-----------------------------------------------------------------------------
(* Parser::parse()                                                         *)

\* The state that expects the first digit of a size, the state it leads to.
SizeStart ==
  [real_width_start     |-> [size |-> "realWidth", next |-> "real_width_continued"],
   real_height_start    |-> [size |-> "realHeight", next |-> "real_height_continued"],
   virtual_width_start  |-> [size |-> "virtualWidth", next |-> "virtual_width_continued"],
   virtual_height_start |-> [size |-> "virtualHeight", next |-> "virtual_height_continued"]]

\* The state that takes further digits, what ends the size, what follows.
SizeContinued ==
  [real_width_continued     |-> [size |-> "realWidth", end |-> "x", next |-> "real_height_start"],
   real_height_continued    |-> [size |-> "realHeight", end |-> "@", next |-> "virtual_width_start"],
   virtual_width_continued  |-> [size |-> "virtualWidth", end |-> "x", next |-> "virtual_height_start"],
   virtual_height_continued |-> [size |-> "virtualHeight", end |-> "/", next |-> "rotation_start"]]

\* Faulty variant: 180 degrees are forgotten.
RotationMoves_No180 ==
  {<<"rotation_start", "0", "satisfied">>,
   <<"rotation_start", "9", "rotation_90_2">>,
   <<"rotation_start", "2", "rotation_270_2">>,
   <<"rotation_90_2", "0", "satisfied">>,
   <<"rotation_270_2", "7", "rotation_270_3">>,
   <<"rotation_270_3", "0", "satisfied">>}

\* The states of the rotation: a character, the state it leads to.
RotationMoves ==
  {<<"rotation_start", "0", "satisfied">>,
   <<"rotation_start", "9", "rotation_90_2">>,
   <<"rotation_start", "1", "rotation_180_2">>,
   <<"rotation_start", "2", "rotation_270_2">>,
   <<"rotation_90_2", "0", "satisfied">>,
   <<"rotation_180_2", "8", "rotation_180_3">>,
   <<"rotation_180_3", "0", "satisfied">>,
   <<"rotation_270_2", "7", "rotation_270_3">>,
   <<"rotation_270_3", "0", "satisfied">>}

\* The rotation a state sets when it is the last one.
RotationOf ==
  [rotation_start |-> 0, rotation_90_2 |-> 1, rotation_180_3 |-> 2, rotation_270_3 |-> 3]

\* Faulty variant: the digits so far are not shifted.
DigitContinues_Unshifted(ch) ==
  /\ mState \in DOMAIN SizeContinued
  /\ ch \in Digits
  /\ LET size == SizeContinued[mState].size
     IN  proj' = [proj EXCEPT ![size] = (@ + DigitValue[ch]) % Wrap]
  /\ UNCHANGED <<mState, phase>>

DigitStarts(ch) ==
  /\ mState \in DOMAIN SizeStart
  /\ ch \in Digits
  /\ LET size == SizeStart[mState].size
     IN  proj' = [proj EXCEPT ![size] = (@ + DigitValue[ch]) % Wrap]
  /\ mState' = SizeStart[mState].next
  /\ UNCHANGED phase

DigitContinues(ch) ==
  /\ mState \in DOMAIN SizeContinued
  /\ ch \in Digits
  /\ LET size == SizeContinued[mState].size
     IN  proj' = [proj EXCEPT ![size] = (@ * 10 + DigitValue[ch]) % Wrap]
  /\ UNCHANGED <<mState, phase>>

SizeEnds(ch) ==
  /\ mState \in DOMAIN SizeContinued
  /\ ch = SizeContinued[mState].end
  /\ mState' = SizeContinued[mState].next
  /\ UNCHANGED <<proj, phase>>

RotationGoesOn(ch) ==
  /\ \E move \in RotationMoves :
       /\ move[1] = mState /\ move[2] = ch
       /\ mState' = move[3]
       /\ proj' = IF mState' = "satisfied"
                  THEN [proj EXCEPT !.rotation = RotationOf[mState]] ELSE proj
  /\ UNCHANGED phase

Takes(ch) ==
  \/ mState \in DOMAIN SizeStart /\ ch \in Digits
  \/ mState \in DOMAIN SizeContinued /\ ch \in Digits \cup {SizeContinued[mState].end}
  \/ \E move \in RotationMoves : move[1] = mState /\ move[2] = ch

\* return false; main() then ends.
Refuses(ch) ==
  /\ ~Takes(ch)
  /\ phase' = "badCharacter"
  /\ UNCHANGED <<mState, proj>>

\* The characters that can be next, within the bounds.
NextCharacters ==
  Separators \cup
    (IF mState \notin DOMAIN SizeStart \cup DOMAIN SizeContinued THEN Digits
     ELSE IF Cardinality({i \in DOMAIN text : text[i] \in Digits}) < MaxDigits
     THEN SizeDigits ELSE {})

LooksAt(ch) ==
  /\ phase = "parsing"
  /\ text' = Append(text, ch)
  /\ DigitStarts(ch) \/ DigitContinues(ch) \/ SizeEnds(ch) \/ RotationGoesOn(ch) \/ Refuses(ch)
  /\ UNCHANGED <<options, requested>>

\* return mState == satisfied
EndOfArgument ==
  /\ phase = "parsing"
  /\ phase' = IF mState = "satisfied" THEN "options" ELSE "cutShort"
  /\ UNCHANGED <<options, mState, text, proj, requested>>

\* case 'P': a Parser of its own for the one Projection.
OptionP ==
  /\ phase = "options"
  /\ options < MaxOptions
  /\ options' = options + 1
  /\ phase' = "parsing"
  /\ mState' = "real_width_start"
  /\ text' = <<>>
  /\ UNCHANGED <<proj, requested>>

-----------------------------------------------------------------------------
(* Making the virtual size fit.  round() and the truncation to uint32_t    *)
(* are those of a double: where the exact quotient is an integer, or half  *)
(* way between two, the double may be just below it.  Elsewhere its error  *)
(* tells nothing as long as sizes are below 2^25, as those of displays are. *)

Truncated(n, d) == {n \div d} \cup (IF n % d = 0 /\ n > 0 THEN {n \div d - 1} ELSE {})

\* Faulty variant: rounded up.
Rounded_Up(n, d) == {(n + d - 1) \div d}

Rounded(n, d) ==
  LET up == (2 * n + d) \div (2 * d)
  IN  {up} \cup (IF (2 * n + d) % (2 * d) = 0 THEN {up - 1} ELSE {})

AtMost(a, b) == IF a > b THEN b ELSE a

forceMaximumSize(p) ==
  [p EXCEPT !.virtualWidth = AtMost(@, p.realWidth),
            !.virtualHeight = AtMost(@, p.realHeight)]

\* The results forceAspectRatio() can have.  With no real width or height
\* the double is no number, and its conversion may give anything.
forceAspectRatio(p) ==
  IF p.realWidth = 0 \/ p.realHeight = 0
  THEN {[p EXCEPT !.virtualHeight = h] : h \in {0, 1, UintMax}}
         \cup {[p EXCEPT !.virtualWidth = w] : w \in {0, 1, UintMax}}
  ELSE UNION {
         IF p.virtualHeight > limit
         THEN {[p EXCEPT !.virtualHeight = h] :
                 h \in Rounded(p.virtualWidth * p.realHeight, p.realWidth)}
         ELSE {[p EXCEPT !.virtualWidth = w] :
                 w \in Rounded(p.virtualHeight * p.realWidth, p.realHeight)}
         : limit \in Truncated(p.virtualWidth * p.realHeight, p.realWidth)}

\* Faulty variant: the real size is not looked at.
valid_VirtualOnly(p) ==
  /\ p.virtualWidth > 0 /\ p.virtualHeight > 0

valid(p) ==
  /\ p.realWidth > 0 /\ p.realHeight > 0
  /\ p.virtualWidth > 0 /\ p.virtualHeight > 0
  /\ p.virtualWidth <= p.realWidth /\ p.virtualHeight <= p.realHeight

\* No option is left and -i was not one of them: the Projection is made to
\* fit, and used or refused.
UseProjection ==
  /\ phase = "options"
  /\ requested' = proj
  /\ proj' \in forceAspectRatio(forceMaximumSize(proj))
  /\ phase' = IF valid(proj') THEN "running" ELSE "badSize"
  /\ UNCHANGED <<options, mState, text>>

-----------------------------------------------------------------------------
(* What a -P argument is and says, read as a whole.                        *)

\* The four sizes in the order they are written, and what ends each.
Sizes == <<"realWidth", "realHeight", "virtualWidth", "virtualHeight">>
Ends  == <<"x", "@", "x", "/">>

Rotations == <<<<"0">>, <<"9", "0">>, <<"1", "8", "0">>, <<"2", "7", "0">>>>

\* The characters lo to hi of t are digits, and not none.
AllDigits(t, lo, hi) == lo <= hi /\ \A i \in lo .. hi : t[i] \in Digits

\* The number these characters write.
Decimal(t, lo, hi) ==
  LET value[i \in lo - 1 .. hi] ==
        IF i < lo THEN 0 ELSE value[i - 1] * 10 + DigitValue[t[i]]
  IN  value[hi]

\* Where a text can be split: s[k] is the place of what ends size k.
Splits(t) ==
  LET At(ch) == {i \in DOMAIN t : t[i] = ch}
  IN  At("x") \X At("@") \X At("x") \X At("/")

\* Where size k begins if what ends the others is in the places s.
From(s, k) == IF k = 1 THEN 1 ELSE s[k - 1] + 1

\* t is <w>x<h>@<w>x<h>/<rotation>, split at s, with rotation r.
IsWritten(t, s, r) ==
  /\ Len(t) = s[4] + Len(Rotations[r + 1])
  /\ \A k \in 1 .. 4 : t[s[k]] = Ends[k] /\ AllDigits(t, From(s, k), s[k] - 1)
  /\ \A i \in 1 .. Len(Rotations[r + 1]) : t[s[4] + i] = Rotations[r + 1][i]

IsProjection(t) ==
  /\ Cardinality({i \in DOMAIN t : t[i] \in Separators}) = 4
  /\ \E s \in Splits(t), r \in 0 .. 3 : IsWritten(t, s, r)

Reading(t, s, r) ==
  LET Size(k) == Decimal(t, From(s, k), s[k] - 1) % Wrap
  IN  [realWidth |-> Size(1), realHeight |-> Size(2),
       virtualWidth |-> Size(3), virtualHeight |-> Size(4), rotation |-> r]

\* Whatever a text lacks to be a projection, one of these completes it.
Completions ==
  LET whole == <<"1", "x", "1", "@", "1", "x", "1", "/", "0">>
  IN  {SubSeq(whole, i, 9) : i \in 1 .. 10} \cup {<<"8", "0">>, <<"7", "0">>}

-----------------------------------------------------------------------------

(* A -P argument is accepted when it has the form the usage text gives, and *)
(* it is then read as written, modulo the width of uint32_t (one -P only:   *)
(* a second one finds the digits of the first).                             *)
ParsedAsWritten ==
  (options = 1 /\ phase = "options") =>
    \E s \in Splits(text), r \in 0 .. 3 :
      IsWritten(text, s, r) /\ proj = Reading(text, s, r)

(* The parser gives up at the first character after which no argument can  *)
(* be well-formed, and never refuses a well-formed one.                    *)
RefusesOnlyMalformed ==
  /\ phase = "badCharacter" => \A rest \in Completions : ~IsProjection(text \o rest)
  /\ phase = "cutShort" => ~IsProjection(text)

(* The size minicap runs with fits into the real display and into the size  *)
(* asked for, whatever a double does to the quotients: nothing is enlarged, *)
(* and a conversion of NaN or infinity never gets as far as a running       *)
(* program.                                                                 *)
FitsRequest ==
  phase = "running" =>
    /\ proj.virtualWidth \in 1 .. AtMost(requested.virtualWidth, proj.realWidth)
    /\ proj.virtualHeight \in 1 .. AtMost(requested.virtualHeight, proj.realHeight)

Distance(a, b) == IF a > b THEN a - b ELSE b - a

(* The virtual size has the aspect ratio of the display, to half a pixel of *)
(* one side.                                                                *)
KeepsAspect ==
  phase = "running" =>
    LET off == 2 * Distance(proj.virtualWidth * proj.realHeight,
                            proj.virtualHeight * proj.realWidth)
    IN  off <= proj.realWidth \/ off <= proj.realHeight

=============================================================================
