------------------------------ MODULE StartUp ------------------------------
(***************************************************************************)
(* The beginning of main() (jni/minicap/minicap.cpp): the loop over the    *)
(* options, then either the query of -i or the projection the rest of the  *)
(* program runs with.  MinicapMain and PacedMain go on where phase is      *)
(* "running".                                                              *)
(*                                                                         *)
(* -d, -n and -Q only store what they are given; -s and -t choose the mode *)
(* MinicapMain has as a constant.                                          *)
(***************************************************************************)
EXTENDS Projection, DisplayInfo

CONSTANTS
  Rates,       \* bound: the rates -r is given, as fractions; n/0 is infinite,
               \* and 0/0 is not a number
  IntMax,      \* the largest int
  FloatPrecision,  \* a quotient of floats is off by less than one in so many
  FloatZero,   \* one in so many, and anything smaller, is 0 as a float
  MaxOthers,   \* bound: number of options that are not -P
  PlainSizes   \* bound: the sizes a -P has that comes with such options

ASSUME StartUpAssumption ==
  /\ Rates \subseteq [num : Int, den : Nat]
  /\ {FloatPrecision, FloatZero} \subseteq Nat \ {0}
  /\ IntMax \in Nat /\ MaxOthers \in Nat
  /\ PlainSizes \subseteq Nat

VARIABLES
  others,         \* options met so far that are not -P
  flags,          \* showInfo, takeScreenshot, skipFrames, testOnly
  rate,           \* what the last -r was given
  framePeriodMs

optionVars == <<others, flags, rate, framePeriodMs>>
vars == <<projectionVars, infoVars, optionVars>>

NoRate == [num |-> 0, den |-> 1]

Init ==
  /\ ProjectionInit
  /\ InfoInit
  /\ others = 0 /\ flags = {} /\ rate = NoRate /\ framePeriodMs = 0

-----------------------------------------------------------------------------

\* An option that is not -P, and where main() is after it.
Option(then) ==
  /\ phase = "options"
  /\ others < MaxOthers
  /\ others' = others + 1
  /\ phase' = then
  /\ UNCHANGED <<options, mState, text, proj, requested>>

\* case 's', 'i', 'S', 't'
OptionFlag ==
  /\ Option("options")
  /\ \E f \in {"takeScreenshot", "showInfo", "skipFrames", "testOnly"} :
       flags' = flags \cup {f}
  /\ UNCHANGED <<rate, framePeriodMs>>

\* frameRate <= 0.0, which no comparison with what is not a number is.
Refused(r) ==
  /\ r.num < 0 \/ r.num * FloatZero <= r.den
  /\ r # [num |-> 0, den |-> 0]

\* The period of a rate is an int, however the quotient is rounded.
PeriodIsInt(r) ==
  1000 * r.den * (FloatPrecision + 1) < (IntMax + 1) * r.num * FloatPrecision

\* t milliseconds are the period of a rate, rounded as a float and cut off.
IsPeriod(t, r) ==
  /\ t * r.num * FloatPrecision <= 1000 * r.den * (FloatPrecision + 1)
  /\ 1000 * r.den * (FloatPrecision - 1) < (t + 1) * r.num * FloatPrecision

\* 1000/frameRate as an int.  The conversion of what is no int, or not a
\* number, may give anything.
PeriodsOf(r) ==
  {t \in 0 .. IntMax : IsPeriod(t, r)}
    \cup (IF PeriodIsInt(r) THEN {} ELSE {-(IntMax + 1), 0, IntMax})

\* Faulty variant: the frames of a paced run are not skipped.
OptionR_KeepsFrames ==
  \E r \in Rates :
    \/ Refused(r) /\ Option("badRate") /\ UNCHANGED <<flags, rate, framePeriodMs>>
    \/ /\ ~Refused(r) /\ Option("options")
       /\ rate' = r
       /\ framePeriodMs' \in PeriodsOf(r)
       /\ UNCHANGED flags

\* case 'r'
OptionR ==
  \E r \in Rates :
    \/ Refused(r) /\ Option("badRate") /\ UNCHANGED <<flags, rate, framePeriodMs>>
    \/ /\ ~Refused(r) /\ Option("options")
       /\ rate' = r
       /\ framePeriodMs' \in PeriodsOf(r)
       /\ flags' = flags \cup {"skipFrames"}

\* case 'h' ends with success, '?' with failure.
OptionUsage ==
  /\ Option("helped") \/ Option("badOption")
  /\ UNCHANGED <<flags, rate, framePeriodMs>>

ShowInfo ==
  /\ phase = "options"
  /\ "showInfo" \in flags
  /\ phase' = "info"
  /\ AskForInfo
  /\ UNCHANGED <<options, mState, text, proj, requested>>

QueryStep ==
  /\ phase = "info"
  /\ InfoStep
  /\ phase' = CASE answer' = "json" -> "shown"
                [] answer' = "failure" -> "noInfo"
                [] OTHER -> "info"
  /\ UNCHANGED <<options, mState, text, proj, requested>>

Run == "showInfo" \notin flags /\ UseProjection

PlainEnough ==
  others' > 0 =>
    {proj'.realWidth, proj'.realHeight,
     proj'.virtualWidth, proj'.virtualHeight} \subseteq PlainSizes

Next ==
  \/ /\ OptionFlag \/ OptionR \/ OptionUsage
     /\ UNCHANGED infoVars
     /\ PlainEnough
  \/ /\ OptionP \/ EndOfArgument \/ Run
     /\ UNCHANGED <<infoVars, optionVars>>
  \/ /\ \E ch \in NextCharacters : LooksAt(ch)
     /\ UNCHANGED <<infoVars, optionVars>>
     /\ PlainEnough
  \/ /\ ShowInfo \/ QueryStep
     /\ UNCHANGED optionVars

Spec == Init /\ [][Next]_vars

-----------------------------------------------------------------------------

(* The period a serving program sleeps is that of the last -r, to the      *)
(* millisecond and the precision of a float, and a program that sleeps     *)
(* skips the frames that pile up meanwhile: what PacedMain assumes.  Two    *)
(* rates have no period: one so low that it is no int, and "nan", which    *)
(* the test for a positive rate lets through.                              *)
PacedAsAsked ==
  phase = "running" =>
    IF rate = NoRate THEN framePeriodMs = 0
    ELSE /\ "skipFrames" \in flags
         /\ PeriodIsInt(rate) => framePeriodMs >= 0 /\ IsPeriod(framePeriodMs, rate)

=============================================================================
