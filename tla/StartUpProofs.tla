---------------------------- MODULE StartUpProofs ----------------------------
(***************************************************************************)
(* Proofs about the beginning of main(): what -i answers, what -r leaves   *)
(* behind, what the parser reads and refuses, and the size minicap runs    *)
(* with, for every width of the integers, arguments of every length and    *)
(* whatever the composer and the framebuffer say.                          *)
(***************************************************************************)
EXTENDS StartUpInvariant, SequenceTheorems, WellFoundedInduction, TLAPS

USE DEF projectionVars, infoVars, optionVars

-----------------------------------------------------------------------------
(* Quotients.                                                              *)

\* Euclid's division.
LEMMA Division ==
  ASSUME NEW n \in Int, NEW d \in Nat \ {0}
  PROVE  /\ n \div d \in Int
         /\ n % d \in 0 .. d - 1
         /\ n = d * (n \div d) + (n % d)
OBVIOUS

LEMMA TimesMonotone ==
  ASSUME NEW a \in Int, NEW b \in Int, NEW d \in Nat, a <= b
  PROVE  a * d <= b * d
OBVIOUS

\* A conversion to int is at most the quotient, and less than one off it.
LEMMA TruncatedBounds ==
  ASSUME NEW n \in Int, NEW d \in Nat \ {0}, NEW t \in Truncated(n, d)
  PROVE  /\ t \in Int
         /\ t * d <= n
         /\ n <= (t + 1) * d
         /\ n < (t + 2) * d
<1> DEFINE q == n \div d
<1>1. q \in Int /\ n % d \in 0 .. d - 1 /\ n = d * q + (n % d)
  BY Division
<1>2. t = q \/ (n % d = 0 /\ t = q - 1)
  BY DEF Truncated
<1> HIDE DEF q
<1>3. (q + 1) * d = d * q + d /\ (q + 2) * d = d * q + d + d /\ q * d = d * q
      /\ (q - 1) * d = d * q - d
  BY <1>1
<1>q. QED BY <1>1, <1>2, <1>3

\* Nothing positive is cut to less than zero.
LEMMA TruncatedPositive ==
  ASSUME NEW n \in Nat \ {0}, NEW d \in Nat \ {0}, NEW t \in Truncated(n, d)
  PROVE  t >= 0
<1> DEFINE q == n \div d
<1>1. q \in Int /\ n % d \in 0 .. d - 1 /\ n = d * q + (n % d)
  BY Division
<1>2. t = q \/ (n % d = 0 /\ t = q - 1)
  BY DEF Truncated
<1> HIDE DEF q
<1>3. q >= 0
  <2> SUFFICES ASSUME q <= -1 PROVE FALSE
    BY <1>1
  <2>1. q * d <= (-1) * d
    BY <1>1, TimesMonotone
  <2>q. QED BY <1>1, <2>1
<1>4. n % d = 0 => q # 0
  BY <1>1
<1>q. QED BY <1>1, <1>2, <1>3, <1>4

\* round() is at most half off the quotient.
LEMMA RoundedBounds ==
  ASSUME NEW n \in Int, NEW d \in Nat \ {0}, NEW r \in Rounded(n, d)
  PROVE  /\ r \in Int
         /\ 2 * n <= 2 * (r * d) + d
         /\ 2 * (r * d) <= 2 * n + d
<1> DEFINE m == 2 * n + d
           q == m \div (2 * d)
<1>1. m \in Int /\ 2 * d \in Nat \ {0}
  OBVIOUS
<1>2. q \in Int /\ m % (2 * d) \in 0 .. 2 * d - 1 /\ m = (2 * d) * q + (m % (2 * d))
  BY <1>1, Division
<1>3. r = q \/ (m % (2 * d) = 0 /\ r = q - 1)
  BY DEF Rounded
<1> DEFINE x == m % (2 * d)
<1>4. x \in 0 .. 2 * d - 1 /\ 2 * n + d = (2 * d) * q + x
  BY <1>2
<1>5. r = q \/ (x = 0 /\ r = q - 1)
  BY <1>3
<1> HIDE DEF q, m, x
<1>6. (2 * d) * q = 2 * (q * d) /\ (q - 1) * d = q * d - d
  BY <1>2
<1>7. DEFINE p == q * d
<1>8. p \in Int
  BY <1>2
<1>9. r * d = p \/ (x = 0 /\ r * d = p - d)
  BY <1>5, <1>6
<1>10. 2 * n + d = 2 * p + x
  BY <1>4, <1>6
<1> HIDE DEF p
<1>11. r \in Int /\ r * d \in Int
  BY <1>2, <1>5
<1>q. QED BY <1>4, <1>8, <1>9, <1>10, <1>11

\* Half of a divisor is less than one.
LEMMA HalfStep ==
  ASSUME NEW r \in Int, NEW v \in Int, NEW d \in Nat \ {0},
         2 * (r * d) <= 2 * (v * d) + d
  PROVE  r <= v
<1> SUFFICES ASSUME v + 1 <= r PROVE FALSE
  OBVIOUS
<1>1. (v + 1) * d <= r * d
  BY TimesMonotone
<1>2. (v + 1) * d = v * d + d
  OBVIOUS
<1>q. QED BY <1>1, <1>2

-----------------------------------------------------------------------------
(* Making the virtual size fit.                                            *)

\* A product of sizes is a number, which is all a solver should know of it.
LEMMA Product ==
  ASSUME NEW a \in Int, NEW b \in Int
  PROVE  a * b \in Int
OBVIOUS

\* The height an aspect ratio asks for is not above one that was above the
\* limit, and near it.
LEMMA HeightFits ==
  ASSUME NEW vw \in Int, NEW vh \in Int, NEW rh \in Nat, NEW rw \in Nat \ {0},
         NEW limit \in Truncated(vw * rh, rw), vh > limit,
         NEW h \in Rounded(vw * rh, rw)
  PROVE  /\ h \in Int /\ h <= vh
         /\ 2 * Distance(vw * rh, h * rw) <= rw
<1> DEFINE n == vw * rh
           p == h * rw
<1>1. n \in Int
  OBVIOUS
<1>2. limit \in Int /\ n <= (limit + 1) * rw
  BY <1>1, TruncatedBounds
<1>3. h \in Int /\ 2 * n <= 2 * p + rw /\ 2 * p <= 2 * n + rw
  BY <1>1, RoundedBounds
<1>4. (limit + 1) * rw <= vh * rw
  BY <1>2, TimesMonotone
<1>5. p \in Int /\ vh * rw \in Int /\ (limit + 1) * rw \in Int
  BY <1>2, <1>3, Product
<1> HIDE DEF n
<1>6. 2 * p <= 2 * (vh * rw) + rw
  BY <1>1, <1>2, <1>3, <1>4, <1>5
<1>7. h <= vh
  BY <1>3, <1>6, HalfStep
<1> HIDE DEF p
<1>8. 2 * Distance(n, p) <= rw
  BY <1>1, <1>3, <1>5 DEF Distance
<1>q. QED BY <1>3, <1>7, <1>8 DEF n, p

\* The same of the width, for a height within the limit.
LEMMA WidthFits ==
  ASSUME NEW vw \in Int, NEW vh \in Int, NEW rh \in Nat \ {0}, NEW rw \in Nat \ {0},
         NEW limit \in Truncated(vw * rh, rw), vh <= limit,
         NEW w \in Rounded(vh * rw, rh)
  PROVE  /\ w \in Int /\ w <= vw
         /\ 2 * Distance(w * rh, vh * rw) <= rh
<1> DEFINE n == vh * rw
           p == w * rh
           m == vw * rh
<1>1. n \in Int /\ m \in Int
  BY Product
<1>2. limit \in Int /\ limit * rw <= m
  BY <1>1, TruncatedBounds
<1>3. w \in Int /\ 2 * n <= 2 * p + rh /\ 2 * p <= 2 * n + rh
  BY <1>1, RoundedBounds
<1>4. n <= limit * rw
  BY <1>2, TimesMonotone
<1>5. p \in Int /\ limit * rw \in Int
  BY <1>2, <1>3, Product
<1> HIDE DEF n
<1>6. 2 * p <= 2 * m + rh
  BY <1>1, <1>2, <1>3, <1>4, <1>5
<1>7. w <= vw
  BY <1>3, <1>6, HalfStep
<1> HIDE DEF p, m
<1>8. 2 * Distance(p, n) <= rh
  BY <1>1, <1>3, <1>5 DEF Distance
<1>q. QED BY <1>3, <1>7, <1>8 DEF n, p

\* What is valid once it was made to fit is no larger than asked for and than
\* the display, and has the display's proportions.
LEMMA ForcedFits ==
  ASSUME NEW p \in Projections, p.virtualWidth >= 0, p.virtualHeight >= 0,
         NEW q \in forceAspectRatio(forceMaximumSize(p)), valid(q)
  PROVE  /\ q.realWidth = p.realWidth /\ q.realHeight = p.realHeight
         /\ q \in Projections
         /\ q.virtualWidth \in 1 .. AtMost(p.virtualWidth, q.realWidth)
         /\ q.virtualHeight \in 1 .. AtMost(p.virtualHeight, q.realHeight)
         /\ LET off == 2 * Distance(q.virtualWidth * q.realHeight,
                                    q.virtualHeight * q.realWidth)
            IN  off <= q.realWidth \/ off <= q.realHeight
<1> DEFINE m == forceMaximumSize(p)
           rw == p.realWidth
           rh == p.realHeight
           vw == AtMost(p.virtualWidth, rw)
           vh == AtMost(p.virtualHeight, rh)
<1>1. /\ m.realWidth = rw /\ m.realHeight = rh
      /\ m.virtualWidth = vw /\ m.virtualHeight = vh
      /\ m \in Projections
  <2>1. vw \in Int /\ vh \in Int
    BY DEF Projections, AtMost
  <2>2. m = [[p EXCEPT !.virtualWidth = vw] EXCEPT !.virtualHeight = vh]
    BY DEF forceMaximumSize, Projections
  <2> HIDE DEF m, vw, vh
  <2>q. QED BY <2>1, <2>2 DEF Projections
<1>2. rw \in Nat /\ rh \in Nat /\ vw \in Int /\ vh \in Int
  BY DEF Projections, AtMost
<1>3. q.realWidth = rw /\ q.realHeight = rh /\ q \in Projections
  <2>1. m \in Projections /\ q \in forceAspectRatio(m)
    BY <1>1
  <2> HIDE DEF m
  <2>2. CASE m.realWidth = 0 \/ m.realHeight = 0
    <3>1. q \in {[m EXCEPT !.virtualHeight = h] : h \in {0, 1, UintMax}}
               \cup {[m EXCEPT !.virtualWidth = w] : w \in {0, 1, UintMax}}
      BY <2>1, <2>2 DEF forceAspectRatio
    <3>2. {0, 1, UintMax} \subseteq Int
      BY ProjectionAssumption
    <3>3. PICK a \in Int : q = [m EXCEPT !.virtualHeight = a] \/ q = [m EXCEPT !.virtualWidth = a]
      BY <3>1, <3>2
    <3> HIDE DEF rw, rh, vw, vh
    <3>q. QED BY <1>1, <2>1, <3>3 DEF Projections
  <2>3. CASE ~(m.realWidth = 0 \/ m.realHeight = 0)
    <3>1. PICK limit \in Truncated(vw * rh, rw) :
            q \in IF vh > limit
                  THEN {[m EXCEPT !.virtualHeight = h] : h \in Rounded(vw * rh, rw)}
                  ELSE {[m EXCEPT !.virtualWidth = w] : w \in Rounded(vh * rw, rh)}
      BY <1>1, <2>3 DEF forceAspectRatio, m
    <3>2. Rounded(vw * rh, rw) \subseteq Int /\ Rounded(vh * rw, rh) \subseteq Int
      BY <1>1, <1>2, <2>3, RoundedBounds, Product
    <3> HIDE DEF rw, rh, vw, vh
    <3>q. QED BY <1>1, <2>1, <3>1, <3>2 DEF Projections
  <2>q. QED BY <2>2, <2>3 DEF m
<1>4. rw > 0 /\ rh > 0 /\ q.virtualWidth > 0 /\ q.virtualHeight > 0
  BY <1>3 DEF valid
<1>5. PICK limit \in Truncated(vw * rh, rw) :
        q \in IF vh > limit
              THEN {[m EXCEPT !.virtualHeight = h] : h \in Rounded(vw * rh, rw)}
              ELSE {[m EXCEPT !.virtualWidth = w] : w \in Rounded(vh * rw, rh)}
  <2> HIDE DEF m
  <2>1. ~(m.realWidth = 0 \/ m.realHeight = 0)
    BY <1>1, <1>2, <1>4
  <2>q. QED BY <1>1, <2>1 DEF forceAspectRatio, m
<1> HIDE DEF m, rw, rh, vw, vh
<1>p. rw \in Nat \ {0} /\ rh \in Nat \ {0}
  BY <1>2, <1>4
<1>6. /\ q.virtualWidth <= vw /\ q.virtualHeight <= vh
      /\ \/ 2 * Distance(q.virtualWidth * rh, q.virtualHeight * rw) <= rw
         \/ 2 * Distance(q.virtualWidth * rh, q.virtualHeight * rw) <= rh
  <2>1. CASE vh > limit
    <3>1. PICK h \in Rounded(vw * rh, rw) : q = [m EXCEPT !.virtualHeight = h]
      BY <1>5, <2>1
    <3>2. q.virtualWidth = vw /\ q.virtualHeight = h
      BY <1>1, <3>1 DEF Projections
    <3>3. h <= vh /\ 2 * Distance(vw * rh, h * rw) <= rw
      BY <1>2, <1>p, <2>1, HeightFits
    <3>q. QED BY <1>2, <3>2, <3>3
  <2>2. CASE vh <= limit
    <3>0. ~(vh > limit)
      BY <1>2, <1>4, <2>2, TruncatedBounds, Product
    <3>1. PICK w \in Rounded(vh * rw, rh) : q = [m EXCEPT !.virtualWidth = w]
      BY <1>5, <3>0
    <3>2. q.virtualHeight = vh /\ q.virtualWidth = w
      BY <1>1, <3>1 DEF Projections
    <3>3. w <= vw /\ 2 * Distance(w * rh, vh * rw) <= rh
      BY <1>2, <1>p, <2>2, WidthFits
    <3>q. QED BY <1>2, <3>2, <3>3
  <2>3. limit \in Int
    BY <1>2, <1>4, TruncatedBounds, Product
  <2>q. QED BY <1>2, <2>1, <2>2, <2>3
<1>7. q.virtualWidth \in Int /\ q.virtualHeight \in Int
  BY <1>3 DEF Projections
<1>q. QED BY <1>2, <1>3, <1>4, <1>6, <1>7 DEF rw, rh, vw, vh

-----------------------------------------------------------------------------
(* The query of -i.                                                        *)

\* The calls a query makes one after the other.
LEMMA CallsInOrder ==
  /\ Tail(Info9) = <<>> /\ Head(Info9) = "getDisplayInfo"
  /\ Tail(Info17) = Info9 /\ Head(Info17) = "getBuiltInDisplay"
  /\ Tail(Info21) = <<"getDisplayConfigs", "getActiveConfig">>
  /\ Head(Info21) = "getBuiltInDisplay"
  /\ Tail(Tail(Info29)) = <<"getDisplayConfigs", "getActiveConfig">>
  /\ Head(Info29) = "getPhysicalDisplayToken"
  /\ Head(Tail(Info29)) = "getInternalDisplayToken"
  /\ Tail(<<"getDisplayConfigs", "getActiveConfig">>) = <<"getActiveConfig">>
  /\ Head(<<"getDisplayConfigs", "getActiveConfig">>) = "getDisplayConfigs"
  /\ Head(<<"getActiveConfig">>) = "getActiveConfig"
  /\ Tail(Framebuffer) = <<"ioctl">> /\ Head(Framebuffer) = "open"
  /\ Head(<<"ioctl">>) = "ioctl" /\ Head(<<"print">>) = "print"
BY DEF Info9, Info17, Info21, Info29, Framebuffer

\* The calls that are left once the list of configurations is to be asked for.
ListCalls == <<"getDisplayConfigs", "getActiveConfig">>

\* What a call leaves to be made.
LEMMA CallsAfter ==
  ASSUME NEW c \in CallsLeft, c # <<>>
  PROVE  /\ Head(c) \in {"getBuiltInDisplay", "getPhysicalDisplayToken"} =>
              Tail(c) \in {Tail(Info29), ListCalls} \/ (c = Info17 /\ Tail(c) = Info9)
         /\ Head(c) = "getInternalDisplayToken" => Tail(c) = ListCalls
         /\ Head(c) = "getDisplayInfo" => c = Info9
         /\ Head(c) = "getDisplayConfigs" => Tail(c) = <<"getActiveConfig">>
         /\ Head(c) = "open" => Tail(c) = <<"ioctl">>
         /\ Head(c) = "print" => c = <<"print">>
<1>1. c \in {Info9, Info17, Info21, Info29, Tail(Info29), ListCalls,
             <<"getActiveConfig">>, Framebuffer, <<"ioctl">>, <<"print">>}
  BY DEF CallsLeft, Queries, Info14, Info16, Info18, Info19, Info22, Info23, Info24,
     Info25, Info26, Info27, Info28, ListCalls
<1>q. QED BY <1>1, CallsInOrder DEF ListCalls

\* Neither a token nor a composer's only configuration is asked for in these.
LEMMA LaterCalls ==
  ASSUME NEW c \in {Tail(Info29), ListCalls, <<"getActiveConfig">>, Framebuffer,
                    <<"ioctl">>, <<"print">>, <<>>}
  PROVE  c \in CallsLeft /\ c # Info9 /\ c # Info17
<1>1. Info9 # <<>> /\ Info17 # <<>>
  BY DEF Info9, Info17
<1>q. QED BY <1>1, CallsInOrder DEF CallsLeft, ListCalls

\* Asking says nothing about an answer before there is one.
LEMMA NotPrinting ==
  ASSUME NEW c \in {Tail(Info29), ListCalls, <<"getActiveConfig">>, Framebuffer,
                    <<"ioctl">>} \cup Queries
  PROVE  c # <<"print">> /\ c # <<>>
<1>1. c \in {Info9, Info17, Info21, Info29, Tail(Info29), ListCalls,
             <<"getActiveConfig">>, Framebuffer, <<"ioctl">>}
  BY DEF Queries, Info14, Info16, Info18, Info19, Info22, Info23, Info24,
     Info25, Info26, Info27, Info28
<1>q. QED BY <1>1, CallsInOrder DEF ListCalls, Info9, Info17, Info21, Info29, Framebuffer

\* An error cast to size_t is above every number of configurations.
LEMMA CastIndex ==
  ASSUME NEW a \in -1 .. MaxConfigs, configs \in 0 .. SizeMax, ~OutsideConfigs(a)
  PROVE  a \in 0 .. configs - 1
<1>1. SizeMax \in Nat /\ MaxConfigs \in Nat /\ MaxConfigs < SizeMax
  BY InfoAssumption
<1>2. (-1) % (SizeMax + 1) = SizeMax
  BY <1>1
<1>3. a % (SizeMax + 1) < configs
  BY <1>1 DEF OutsideConfigs
<1>4. a # -1
  BY <1>1, <1>2, <1>3
<1>5. a % (SizeMax + 1) = a
  BY <1>1, <1>4
<1>q. QED BY <1>1, <1>3, <1>4, <1>5

\* The calls of the query keep its invariant.
LEMMA QueryStepInv ==
  ASSUME ConfigsInv, AnswerInv, AnswerAsFound, InfoStep
  PROVE  ConfigsInv' /\ AnswerInv' /\ AnswerAsFound'
<1> USE DEF Calls, ConfigsInv, AnswerInv, AnswerAsFound
<1>0. calls # <<>> /\ answer = "none"
  BY DEF InfoStep, GetToken, GetInternalToken, GetDisplayInfo, GetDisplayConfigs,
     GetActiveConfig, OpenFramebuffer, ReadFramebuffer, PrintInfo
<1>a. ASSUME Composerless PROVE ConfigsInv' /\ AnswerInv' /\ AnswerAsFound'
  <2>1. calls' # Info9 /\ calls' # Info17 /\ calls' \in CallsLeft /\ calls' # <<"print">>
    BY <1>a, LaterCalls, NotPrinting DEF Composerless
  <2>q. QED BY <1>0, <1>a, <2>1 DEF Composerless
<1>b. ASSUME FailsWith PROVE ConfigsInv' /\ AnswerInv' /\ AnswerAsFound'
  <2>1. calls' # Info9 /\ calls' # Info17 /\ calls' \in CallsLeft /\ calls' # <<"print">>
    BY <1>b, LaterCalls DEF FailsWith
  <2>q. QED BY <1>0, <1>b, <2>1 DEF FailsWith
<1>c. ASSUME NEW i, Answers(i),
             i \in [display : {"none", "asked", "internal", "framebuffer"},
                    config : Int, orientation : Int],
             Known(i)
      PROVE  ConfigsInv' /\ AnswerInv' /\ AnswerAsFound'
  <2>1. calls' # Info9 /\ calls' # Info17 /\ calls' \in CallsLeft
    BY <1>c, LaterCalls DEF Answers
  <2>2. Known(info)'
    BY <1>c DEF Answers, Known
  <2>q. QED BY <1>0, <1>c, <2>1, <2>2 DEF Answers
<1>1. CASE GetToken
  <2>1. \/ calls' \in {Tail(Info29), ListCalls}
        \/ calls = Info17 /\ calls' = Info9
    BY <1>0, <1>1, CallsAfter DEF GetToken
  <2>2. calls' \in CallsLeft /\ calls' # <<"print">>
    BY <2>1, LaterCalls, NotPrinting DEF CallsLeft, Queries
  <2>3. calls' = Info9 \/ calls' = Info17 => configs = 1
    BY <2>1, LaterCalls
  <2>q. QED BY <1>0, <1>1, <2>2, <2>3 DEF GetToken
<1>2. CASE GetInternalToken
  <2>1. calls' = ListCalls
    BY <1>0, <1>2, CallsAfter DEF GetInternalToken
  <2>2. calls' \in CallsLeft /\ calls' # <<"print">> /\ calls' # Info9 /\ calls' # Info17
    BY <2>1, LaterCalls, NotPrinting
  <2>q. QED BY <1>0, <1>2, <2>2 DEF GetInternalToken
<1>3. CASE GetDisplayInfo
  <2>1. configs = 1
    BY <1>0, <1>3, CallsAfter DEF GetDisplayInfo
  <2>2. CASE Composerless
    BY <2>2, <1>a
  <2>3. ASSUME NEW o \in 0 .. 3, Answers(Info(dpy, 0, o))
        PROVE  ConfigsInv' /\ AnswerInv' /\ AnswerAsFound'
    <3>1. /\ Info(dpy, 0, o) \in [display : {"none", "asked", "internal", "framebuffer"},
                                  config : Int, orientation : Int]
          /\ Known(Info(dpy, 0, o))
      BY <2>1 DEF Info, Known
    <3>q. QED BY <1>c, <2>3, <3>1
  <2>q. QED BY <1>3, <2>2, <2>3 DEF GetDisplayInfo
<1>4. CASE GetDisplayConfigs
  <2>1. CASE Composerless
    BY <2>1, <1>a
  <2>2. CASE /\ configs' \in 0 .. MaxConfigs
             /\ calls' = Tail(calls)
             /\ UNCHANGED <<dpy, info, rotation, answer>>
    <3>1. calls' = <<"getActiveConfig">>
      BY <1>0, <1>4, <2>2, CallsAfter DEF GetDisplayConfigs
    <3>2. calls' \in CallsLeft /\ calls' # <<"print">> /\ calls' # Info9 /\ calls' # Info17
      BY <3>1, LaterCalls, NotPrinting
    <3>3. configs' \in 0 .. SizeMax
      BY <2>2, InfoAssumption
    <3>q. QED BY <1>0, <2>2, <3>2, <3>3
  <2>q. QED BY <1>4, <2>1, <2>2 DEF GetDisplayConfigs
<1>5. CASE GetActiveConfig
  <2>1. PICK a \in -1 .. MaxConfigs :
          IF OutsideConfigs(a) THEN Composerless
          ELSE \E o \in 0 .. 3 : Answers(Info(dpy, a, o))
    BY <1>5 DEF GetActiveConfig
  <2>2. CASE OutsideConfigs(a)
    BY <2>1, <2>2, <1>a
  <2>3. CASE ~OutsideConfigs(a)
    <3>1. a \in 0 .. configs - 1
      BY <2>3, CastIndex
    <3>2. PICK o \in 0 .. 3 : Answers(Info(dpy, a, o))
      BY <2>1, <2>3
    <3>3. /\ Info(dpy, a, o) \in [display : {"none", "asked", "internal", "framebuffer"},
                                  config : Int, orientation : Int]
          /\ Known(Info(dpy, a, o))
      BY <3>1 DEF Info, Known
    <3>q. QED BY <1>c, <3>2, <3>3
  <2>q. QED BY <2>2, <2>3
<1>6. CASE OpenFramebuffer
  <2>1. CASE FailsWith
    BY <2>1, <1>b
  <2>2. CASE /\ calls' = Tail(calls)
             /\ UNCHANGED <<dpy, configs, info, rotation, answer>>
    <3>1. calls' = <<"ioctl">>
      BY <1>0, <1>6, <2>2, CallsAfter DEF OpenFramebuffer
    <3>2. calls' \in CallsLeft /\ calls' # <<"print">> /\ calls' # Info9 /\ calls' # Info17
      BY <3>1, LaterCalls, NotPrinting
    <3>q. QED BY <1>0, <2>2, <3>2
  <2>q. QED BY <1>6, <2>1, <2>2 DEF OpenFramebuffer
<1>7. CASE ReadFramebuffer
  <2>1. CASE FailsWith
    BY <2>1, <1>b
  <2>2. ASSUME NEW r \in FbRotations, Answers(Info("framebuffer", 0, r % 256))
        PROVE  ConfigsInv' /\ AnswerInv' /\ AnswerAsFound'
    <3>1. r % 256 \in Int
      BY InfoAssumption
    <3>2. /\ Info("framebuffer", 0, r % 256)
               \in [display : {"none", "asked", "internal", "framebuffer"},
                    config : Int, orientation : Int]
          /\ Known(Info("framebuffer", 0, r % 256))
      BY <3>1 DEF Info, Known
    <3>q. QED BY <1>c, <2>2, <3>2
  <2>q. QED BY <1>7, <2>1, <2>2 DEF ReadFramebuffer
<1>8. CASE PrintInfo
  <2>1. calls = <<"print">>
    BY <1>0, <1>8, CallsAfter DEF PrintInfo
  <2>2. calls' # Info9 /\ calls' # Info17 /\ calls' \in CallsLeft /\ calls' # <<"print">>
    BY <1>8, LaterCalls DEF PrintInfo
  <2>3. Known(info)'
    BY <1>8, <2>1 DEF PrintInfo, Known
  <2>4. \/ rotation' = 90 * info'.orientation
        \/ info'.display = "framebuffer" /\ info'.orientation \notin 0 .. 3
    BY <1>8, <2>1 DEF PrintInfo, Known, Degrees
  <2>5. info'.display # "framebuffer" => info'.config \in 0 .. configs' - 1
    BY <2>3 DEF Known
  <2>q. QED BY <1>8, <2>2, <2>3, <2>4, <2>5 DEF PrintInfo
<1>q. QED BY <1>1, <1>2, <1>3, <1>4, <1>5, <1>6, <1>7, <1>8 DEF InfoStep

-----------------------------------------------------------------------------
(* The steps of main().                                                    *)

\* Where each step is taken, and where it leads.
LEMMA StepPlaces ==
  ASSUME Next
  PROVE  \/ InfoStep /\ phase = "info" /\ Asked' /\ UNCHANGED <<optionVars, proj, requested>>
         \/ ShowInfo /\ phase = "options" /\ Asked' /\ UNCHANGED optionVars
         \/ UNCHANGED infoVars /\ phase \in {"options", "parsing"} /\ ~Asked'
<1>1. CASE (OptionFlag \/ OptionR \/ OptionUsage) /\ UNCHANGED infoVars /\ PlainEnough
  BY <1>1 DEF OptionFlag, OptionR, OptionUsage, Option, Asked
<1>2. CASE (OptionP \/ EndOfArgument \/ Run) /\ UNCHANGED <<infoVars, optionVars>>
  BY <1>2 DEF OptionP, EndOfArgument, Run, UseProjection, Asked
<1>3. CASE (\E ch \in NextCharacters : LooksAt(ch)) /\ UNCHANGED <<infoVars, optionVars>>
  BY <1>3 DEF LooksAt, DigitStarts, DigitContinues, SizeEnds, RotationGoesOn, Refuses, Asked
<1>4. CASE ShowInfo /\ UNCHANGED optionVars
  BY <1>4 DEF ShowInfo, Asked
<1>5. CASE QueryStep /\ UNCHANGED optionVars
  BY <1>5 DEF QueryStep, Asked
<1>q. QED BY <1>1, <1>2, <1>3, <1>4, <1>5 DEF Next

LEMMA QueryNext ==
  ASSUME QueryInv, Next
  PROVE  QueryInv'
<1> USE DEF QueryInv
<1>1. CASE InfoStep /\ phase = "info" /\ Asked'
  BY <1>1, QueryStepInv DEF NotAskedInv
<1>2. CASE ShowInfo /\ phase = "options" /\ Asked'
  <2>1. /\ calls = <<>> /\ configs = 1 /\ info = NoInfo /\ answer = "none"
        /\ calls' \in Queries /\ dpy' \in {"asked", "none"}
        /\ UNCHANGED <<configs, info, rotation, answer>>
    BY <1>2 DEF NotAskedInv, Asked, ShowInfo, AskForInfo
  <2>2. calls' # <<"print">>
    BY <2>1, NotPrinting
  <2>3. calls' \in CallsLeft
    BY <2>1 DEF CallsLeft
  <2>4. ConfigsInv'
    BY <2>1, <2>3 DEF ConfigsInv
  <2>5. AnswerInv' /\ AnswerAsFound'
    BY <2>1, <2>2 DEF AnswerInv, AnswerAsFound
  <2>q. QED BY <1>2, <2>4, <2>5 DEF NotAskedInv
<1>3. CASE UNCHANGED infoVars /\ phase \in {"options", "parsing"} /\ ~Asked'
  BY <1>3 DEF NotAskedInv, Asked, ConfigsInv, AnswerInv, AnswerAsFound, Known
<1>q. QED BY <1>1, <1>2, <1>3, StepPlaces

\* The period an -r asks for, and that it is not without -r.
LEMMA PeriodAsAsked ==
  ASSUME NEW r \in Rates, ~Refused(r), NEW t \in PeriodsOf(r)
  PROVE  /\ t \in Int /\ r # NoRate
         /\ PeriodIsInt(r) => t >= 0 /\ IsPeriod(t, r)
<1>1. t \in Int
  BY StartUpAssumption DEF PeriodsOf
<1>2. PeriodIsInt(r) => t >= 0 /\ IsPeriod(t, r)
  BY StartUpAssumption DEF PeriodsOf
<1>3. r # NoRate
  <2>1. 0 * FloatZero <= 1
    BY StartUpAssumption
  <2>q. QED BY <2>1 DEF Refused, NoRate
<1>q. QED BY <1>1, <1>2, <1>3

LEMMA RateNext ==
  ASSUME RateInv, Next
  PROVE  RateInv'
<1> USE DEF RateInv
<1>1. CASE OptionR
  <2>1. PICK r \in Rates :
          \/ Option("badRate") /\ UNCHANGED <<flags, rate, framePeriodMs>>
          \/ /\ ~Refused(r) /\ rate' = r
             /\ framePeriodMs' \in PeriodsOf(r)
             /\ flags' = flags \cup {"skipFrames"}
    BY <1>1 DEF OptionR
  <2>2. CASE UNCHANGED <<flags, rate, framePeriodMs>>
    BY <2>2
  <2>3. CASE /\ ~Refused(r) /\ rate' = r
             /\ framePeriodMs' \in PeriodsOf(r)
             /\ flags' = flags \cup {"skipFrames"}
    BY <2>3, PeriodAsAsked
  <2>q. QED BY <2>1, <2>2, <2>3
<1>2. CASE flags \subseteq flags' /\ UNCHANGED <<rate, framePeriodMs>>
  BY <1>2
<1>3. OptionR \/ (flags \subseteq flags' /\ UNCHANGED <<rate, framePeriodMs>>)
  BY DEF Next, OptionFlag, OptionUsage
<1>q. QED BY <1>1, <1>2, <1>3

\* The sizes of a Projection that is being read.
Readable(p) == p \in Projections /\ p.virtualWidth >= 0 /\ p.virtualHeight >= 0

\* A digit makes a number of a size again, whatever its width.
LEMMA SizeRead ==
  ASSUME NEW p, Readable(p),
         NEW size \in {"realWidth", "realHeight", "virtualWidth", "virtualHeight"},
         NEW a \in Int
  PROVE  Readable([p EXCEPT ![size] = a % Wrap])
<1>1. a % Wrap \in Nat
  BY ProjectionAssumption DEF Wrap
<1> DEFINE v == a % Wrap
<1> HIDE DEF v
<1>2. CASE size = "realWidth"
  BY <1>1, <1>2 DEF Readable, Projections, v
<1>3. CASE size = "realHeight"
  BY <1>1, <1>3 DEF Readable, Projections, v
<1>4. CASE size = "virtualWidth"
  BY <1>1, <1>4 DEF Readable, Projections, v
<1>5. CASE size = "virtualHeight"
  BY <1>1, <1>5 DEF Readable, Projections, v
<1>q. QED BY <1>2, <1>3, <1>4, <1>5

\* What ends a rotation sets one of four.
LEMMA RotationsAreFour ==
  \A move \in RotationMoves : move[3] = "satisfied" => RotationOf[move[1]] \in 0 .. 3
<1>1. ASSUME NEW move \in RotationMoves, move[3] = "satisfied"
      PROVE  move[1] \in {"rotation_start", "rotation_90_2", "rotation_180_3", "rotation_270_3"}
  BY <1>1 DEF RotationMoves
<1>2. \A s \in {"rotation_start", "rotation_90_2", "rotation_180_3", "rotation_270_3"} :
        RotationOf[s] \in 0 .. 3
  BY DEF RotationOf
<1>q. QED BY <1>1, <1>2

\* The parser keeps the Projection a Projection.
LEMMA ParserReads ==
  ASSUME Readable(proj), NEW ch, LooksAt(ch)
  PROVE  Readable(proj')
<1> DEFINE Size == {"realWidth", "realHeight", "virtualWidth", "virtualHeight"}
<1>0. /\ \A size \in Size : proj[size] \in Int
      /\ \A d \in Digits : DigitValue[d] \in Int
      /\ \A s \in DOMAIN SizeStart : SizeStart[s].size \in Size
      /\ \A s \in DOMAIN SizeContinued : SizeContinued[s].size \in Size
  BY DEF Readable, Projections, Digits, DigitValue, SizeStart, SizeContinued
<1>1. CASE DigitStarts(ch)
  <2> DEFINE size == SizeStart[mState].size
             a == proj[size] + DigitValue[ch]
  <2>1. size \in Size /\ proj' = [proj EXCEPT ![size] = a % Wrap]
    BY <1>0, <1>1 DEF DigitStarts
  <2>2. a \in Int
    BY <1>0, <1>1, <2>1 DEF DigitStarts
  <2> HIDE DEF size, a
  <2>q. QED BY <2>1, <2>2, SizeRead
<1>2. CASE DigitContinues(ch)
  <2> DEFINE size == SizeContinued[mState].size
             a == proj[size] * 10 + DigitValue[ch]
  <2>1. size \in Size /\ proj' = [proj EXCEPT ![size] = a % Wrap]
    BY <1>0, <1>2 DEF DigitContinues
  <2>2. a \in Int
    BY <1>0, <1>2, <2>1 DEF DigitContinues
  <2> HIDE DEF size, a
  <2>q. QED BY <2>1, <2>2, SizeRead
<1>3. CASE SizeEnds(ch) \/ Refuses(ch)
  BY <1>3 DEF SizeEnds, Refuses
<1>4. CASE RotationGoesOn(ch)
  <2>1. PICK move \in RotationMoves :
          /\ move[1] = mState /\ mState' = move[3]
          /\ proj' = IF mState' = "satisfied"
                     THEN [proj EXCEPT !.rotation = RotationOf[mState]] ELSE proj
    BY <1>4 DEF RotationGoesOn
  <2>2. mState' = "satisfied" => RotationOf[mState] \in 0 .. 3
    BY <2>1, RotationsAreFour
  <2>3. CASE mState' = "satisfied"
    <3> DEFINE o == RotationOf[mState]
    <3>1. o \in 0 .. 3 /\ proj' = [proj EXCEPT !.rotation = o]
      BY <2>1, <2>2, <2>3
    <3> HIDE DEF o
    <3>q. QED BY <3>1 DEF Readable, Projections
  <2>q. QED BY <2>1, <2>3
<1>q. QED BY <1>1, <1>2, <1>3, <1>4 DEF LooksAt

LEMMA SizeNext ==
  ASSUME SizeInv, Next
  PROVE  SizeInv'
<1> USE DEF SizeInv
<1>1. CASE Run
  <2>1. /\ phase = "options" /\ requested' = proj
        /\ proj' \in forceAspectRatio(forceMaximumSize(proj))
        /\ phase' = IF valid(proj') THEN "running" ELSE "badSize"
    BY <1>1 DEF Run, UseProjection
  <2>2. proj \in Projections /\ proj.virtualWidth >= 0 /\ proj.virtualHeight >= 0
    BY <2>1
  <2>3. CASE valid(proj')
    <3> DEFINE off(p) == 2 * Distance(p.virtualWidth * p.realHeight,
                                      p.virtualHeight * p.realWidth)
    <3>1. /\ proj'.virtualWidth \in 1 .. AtMost(proj.virtualWidth, proj'.realWidth)
          /\ proj'.virtualHeight \in 1 .. AtMost(proj.virtualHeight, proj'.realHeight)
          /\ proj' \in Projections
          /\ off(proj') <= proj'.realWidth \/ off(proj') <= proj'.realHeight
      BY <2>1, <2>2, <2>3, ForcedFits
    <3>q. QED BY <2>1, <2>3, <3>1 DEF FitsRequest, KeepsAspect, AtMost, Distance
  <2>4. CASE ~valid(proj')
    BY <2>1, <2>4 DEF FitsRequest, KeepsAspect
  <2>q. QED BY <2>3, <2>4
<1>2. ASSUME NEW ch, LooksAt(ch)
      PROVE  SizeInv'
  <2>1. phase = "parsing" /\ phase' # "running"
    BY <1>2 DEF LooksAt, DigitStarts, DigitContinues, SizeEnds, RotationGoesOn, Refuses
  <2>2. Readable(proj')
    BY <1>2, <2>1, ParserReads DEF Readable
  <2>q. QED BY <2>1, <2>2 DEF Readable, FitsRequest, KeepsAspect
<1>3. CASE /\ UNCHANGED <<proj, requested>>
           /\ phase' # "running"
           /\ phase' \in {"options", "parsing"} => phase \in {"options", "parsing"}
  BY <1>3 DEF FitsRequest, KeepsAspect
<1>4. ASSUME OptionFlag \/ OptionR \/ OptionUsage \/ OptionP \/ EndOfArgument
             \/ ShowInfo \/ QueryStep
      PROVE  /\ UNCHANGED <<proj, requested>>
             /\ phase' # "running"
             /\ phase' \in {"options", "parsing"} => phase \in {"options", "parsing"}
  <2>1. CASE QueryStep
    <3>1. phase' = "shown" \/ phase' = "noInfo" \/ phase' = "info"
      BY <2>1 DEF QueryStep
    <3>q. QED BY <2>1, <3>1 DEF QueryStep
  <2>q. QED BY <1>4, <2>1 DEF OptionFlag, OptionR, OptionUsage, Option, OptionP,
               EndOfArgument, ShowInfo
<1>q. QED BY <1>1, <1>2, <1>3, <1>4 DEF Next

-----------------------------------------------------------------------------
(* The number a row of digits writes.  The induction is over a set, since  *)
(* no prover can be given a predicate.                                     *)

\* A set of natural numbers has a least element.
LEMMA LeastElement ==
  ASSUME NEW S, S \subseteq Nat, S # {}
  PROVE  \E m \in S : \A n \in S : m <= n
<1> DEFINE R == OpToRel(<, Nat)
<1>1. \A x, y \in Nat : y < x => <<y, x>> \in R
  BY DEF OpToRel
<1>2. IsWellFoundedOn(R, Nat)
  BY NatLessThanWellFounded
<1> HIDE DEF R
<1>3. PICK m \in S : \A n \in S : ~ (<<n, m>> \in R)
  BY <1>2, WFMin
<1>4. \A n \in S : n \in Nat /\ ~ (n < m)
  BY <1>1, <1>3
<1>q. QED BY <1>4

\* What has 0, and with every number its successor, has them all.
LEMMA SetInduction ==
  ASSUME NEW S, 0 \in S, \A n \in Nat : n \in S => n + 1 \in S
  PROVE  Nat \subseteq S
<1> DEFINE T == {n \in Nat : n \notin S}
<1>1. ASSUME T # {} PROVE FALSE
  <2>1. T \subseteq Nat
    OBVIOUS
  <2>2. PICK m \in T : \A n \in T : m <= n
    BY <1>1, <2>1, LeastElement
  <2>3. m \in Nat /\ m \notin S /\ m # 0
    BY <2>2
  <2>4. m - 1 \in Nat /\ (m - 1) + 1 = m
    BY <2>3
  <2>5. m - 1 \notin T
    BY <2>2, <2>3, <2>4
  <2>6. m - 1 \in S
    BY <2>4, <2>5
  <2>q. QED BY <2>3, <2>4, <2>6
<1>q. QED BY <1>1

\* f holds the values of the digits of t from lo on, as far as hi.
IsValue(t, lo, hi, f) ==
  f = [i \in lo - 1 .. hi |-> IF i < lo THEN 0 ELSE f[i - 1] * 10 + DigitValue[t[i]]]

\* Its values, one by one.
LEMMA ValueAt ==
  ASSUME NEW t, NEW lo \in Int, NEW hi \in Int, NEW f, IsValue(t, lo, hi, f),
         NEW i \in lo - 1 .. hi
  PROVE  f[i] = IF i < lo THEN 0 ELSE f[i - 1] * 10 + DigitValue[t[i]]
BY DEF IsValue

\* There is such an f.
LEMMA ValueExists ==
  ASSUME NEW t, NEW lo \in Int, NEW hi \in Int, lo - 1 <= hi
  PROVE  \E f : IsValue(t, lo, hi, f)
<1> DEFINE S == {n \in Nat : \E f : IsValue(t, lo, lo - 1 + n, f)}
<1>1. 0 \in S
  <2> DEFINE f == [i \in lo - 1 .. lo - 1 |-> 0]
  <2>1. \A i \in lo - 1 .. lo - 1 : i < lo
    OBVIOUS
  <2>2. IsValue(t, lo, lo - 1, f)
    BY <2>1 DEF IsValue
  <2>3. lo - 1 + 0 = lo - 1
    OBVIOUS
  <2>q. QED BY <2>2, <2>3
<1>2. ASSUME NEW n \in Nat, n \in S
      PROVE  n + 1 \in S
  <2> DEFINE h == lo - 1 + n
  <2>1. PICK f : IsValue(t, lo, h, f)
    BY <1>2
  <2>2. h \in Int /\ h >= lo - 1 /\ lo - 1 + (n + 1) = h + 1
    OBVIOUS
  <2> HIDE DEF h
  <2> DEFINE g == [i \in lo - 1 .. h + 1 |->
                     IF i = h + 1 THEN f[h] * 10 + DigitValue[t[h + 1]] ELSE f[i]]
  <2>3. ASSUME NEW i \in lo - 1 .. h + 1
        PROVE  g[i] = IF i < lo THEN 0 ELSE g[i - 1] * 10 + DigitValue[t[i]]
    <3>1. CASE i = h + 1
      <4>1. i - 1 = h /\ ~(i < lo) /\ h \in lo - 1 .. h + 1 /\ h # h + 1
        BY <2>2, <3>1
      <4>2. g[i - 1] = f[h] /\ g[i] = f[h] * 10 + DigitValue[t[h + 1]]
        BY <3>1, <4>1
      <4>q. QED BY <3>1, <4>1, <4>2
    <3>2. CASE i # h + 1
      <4>1. i \in lo - 1 .. h
        BY <2>2, <3>2
      <4>2. f[i] = IF i < lo THEN 0 ELSE f[i - 1] * 10 + DigitValue[t[i]]
        BY <2>1, <2>2, <4>1, ValueAt
      <4>3. ~(i < lo) => i - 1 \in lo - 1 .. h + 1 /\ i - 1 # h + 1
        BY <2>2, <4>1
      <4>q. QED BY <3>2, <4>2, <4>3
    <3>q. QED BY <3>1, <3>2
  <2>4. IsValue(t, lo, h + 1, g)
    <3>1. g = [i \in lo - 1 .. h + 1 |-> g[i]]
      OBVIOUS
    <3> HIDE DEF g
    <3>q. QED BY <2>3, <3>1 DEF IsValue
  <2>q. QED BY <2>2, <2>4
<1>3. hi - (lo - 1) \in Nat /\ lo - 1 + (hi - (lo - 1)) = hi
  OBVIOUS
<1> HIDE DEF S
<1>4. hi - (lo - 1) \in S
  BY <1>1, <1>2, <1>3, SetInduction
<1>q. QED BY <1>3, <1>4 DEF S

\* The value depends on the digits only.
LEMMA ValuesAgree ==
  ASSUME NEW t, NEW u, NEW lo \in Int, NEW hi \in Int, NEW m \in Int, NEW n \in Int,
         NEW f, IsValue(t, lo, m, f), NEW g, IsValue(u, lo, n, g),
         lo - 1 <= hi, hi <= m, hi <= n, \A i \in lo .. hi : t[i] = u[i]
  PROVE  f[hi] = g[hi]
<1> DEFINE S == {k \in Nat : lo - 1 + k <= hi => f[lo - 1 + k] = g[lo - 1 + k]}
<1>1. 0 \in S
  <2>1. lo - 1 + 0 = lo - 1 /\ lo - 1 \in lo - 1 .. m /\ lo - 1 \in lo - 1 .. n /\ lo - 1 < lo
    OBVIOUS
  <2>2. f[lo - 1] = 0 /\ g[lo - 1] = 0
    BY <2>1, ValueAt
  <2>q. QED BY <2>1, <2>2
<1>2. ASSUME NEW k \in Nat, k \in S
      PROVE  k + 1 \in S
  <2> DEFINE i == lo - 1 + (k + 1)
  <2> SUFFICES ASSUME i <= hi PROVE f[i] = g[i]
    OBVIOUS
  <2>1. i \in Int /\ i \in lo - 1 .. m /\ i \in lo - 1 .. n /\ ~(i < lo) /\ i \in lo .. hi
        /\ i - 1 = lo - 1 + k /\ lo - 1 + k <= hi
    OBVIOUS
  <2>2. f[i - 1] = g[i - 1]
    BY <1>2, <2>1
  <2> HIDE DEF i
  <2>3. f[i] = f[i - 1] * 10 + DigitValue[t[i]] /\ g[i] = g[i - 1] * 10 + DigitValue[u[i]]
    BY <2>1, ValueAt
  <2>q. QED BY <2>1, <2>2, <2>3
<1>3. hi - (lo - 1) \in Nat /\ lo - 1 + (hi - (lo - 1)) = hi
  OBVIOUS
<1> HIDE DEF S
<1>4. hi - (lo - 1) \in S
  BY <1>1, <1>2, <1>3, SetInduction
<1>q. QED BY <1>3, <1>4 DEF S

\* What Decimal writes is the last of these values.
LEMMA DecimalIs ==
  ASSUME NEW t, NEW lo \in Int, NEW hi \in Int, lo - 1 <= hi,
         NEW m \in Int, hi <= m, NEW f, IsValue(t, lo, m, f)
  PROVE  Decimal(t, lo, hi) = f[hi]
<1>1. PICK g : IsValue(t, lo, hi, g) /\ Decimal(t, lo, hi) = g[hi]
  <2>1. PICK e : IsValue(t, lo, hi, e)
    BY ValueExists
  <2>q. QED BY <2>1 DEF Decimal, IsValue
<1>2. g[hi] = f[hi]
  BY <1>1, ValuesAgree
<1>q. QED BY <1>1, <1>2

\* No digit.
LEMMA DecimalEmpty ==
  ASSUME NEW t, NEW lo \in Int
  PROVE  Decimal(t, lo, lo - 1) = 0
<1>1. lo - 1 \in Int /\ lo - 1 <= lo - 1 /\ lo - 1 \in lo - 1 .. lo - 1 /\ lo - 1 < lo
  OBVIOUS
<1>2. PICK f : IsValue(t, lo, lo - 1, f)
  BY <1>1, ValueExists
<1>3. f[lo - 1] = 0
  BY <1>1, <1>2, ValueAt
<1>q. QED BY <1>1, <1>2, <1>3, DecimalIs

\* One more digit.
LEMMA DecimalMore ==
  ASSUME NEW t, NEW lo \in Int, NEW hi \in Int, lo - 1 <= hi
  PROVE  Decimal(t, lo, hi + 1) = Decimal(t, lo, hi) * 10 + DigitValue[t[hi + 1]]
<1>1. /\ hi + 1 \in Int /\ lo - 1 <= hi + 1 /\ hi <= hi + 1 /\ hi + 1 <= hi + 1
      /\ hi + 1 \in lo - 1 .. hi + 1 /\ ~(hi + 1 < lo) /\ hi + 1 - 1 = hi
  OBVIOUS
<1>2. PICK f : IsValue(t, lo, hi + 1, f)
  BY <1>1, ValueExists
<1>3. f[hi + 1] = f[hi] * 10 + DigitValue[t[hi + 1]]
  BY <1>1, <1>2, ValueAt
<1>4. Decimal(t, lo, hi) = f[hi] /\ Decimal(t, lo, hi + 1) = f[hi + 1]
  BY <1>1, <1>2, DecimalIs
<1>q. QED BY <1>3, <1>4

\* What is not among the digits does not matter.
LEMMA DecimalSame ==
  ASSUME NEW t, NEW u, NEW lo \in Int, NEW hi \in Int, lo - 1 <= hi,
         \A i \in lo .. hi : t[i] = u[i]
  PROVE  Decimal(t, lo, hi) = Decimal(u, lo, hi)
<1>1. PICK f : IsValue(t, lo, hi, f)
  BY ValueExists
<1>2. PICK g : IsValue(u, lo, hi, g)
  BY ValueExists
<1>3. f[hi] = g[hi]
  BY <1>1, <1>2, ValuesAgree
<1>q. QED BY <1>1, <1>2, <1>3, DecimalIs

\* Digits write a natural number.
LEMMA DecimalNat ==
  ASSUME NEW t, NEW lo \in Int, NEW hi \in Int, AllDigits(t, lo, hi)
  PROVE  Decimal(t, lo, hi) \in Nat
<1> DEFINE S == {k \in Nat : lo - 1 + k <= hi => Decimal(t, lo, lo - 1 + k) \in Nat}
<1>1. 0 \in S
  <2>1. lo - 1 + 0 = lo - 1
    OBVIOUS
  <2>q. QED BY <2>1, DecimalEmpty
<1>2. ASSUME NEW k \in Nat, k \in S
      PROVE  k + 1 \in S
  <2> DEFINE i == lo - 1 + k
             v == Decimal(t, lo, i)
  <2> SUFFICES ASSUME i + 1 <= hi PROVE Decimal(t, lo, i + 1) \in Nat
    <3>1. lo - 1 + (k + 1) = i + 1
      OBVIOUS
    <3>q. QED BY <3>1
  <2>1. i \in Int /\ lo - 1 <= i /\ i + 1 \in lo .. hi /\ i <= hi
    OBVIOUS
  <2>2. v \in Nat
    BY <1>2, <2>1
  <2>3. t[i + 1] \in Digits /\ \A d \in Digits : DigitValue[d] \in Nat
    BY <2>1 DEF AllDigits, Digits, DigitValue
  <2>4. Decimal(t, lo, i + 1) = v * 10 + DigitValue[t[i + 1]]
    BY <2>1, DecimalMore
  <2> HIDE DEF i, v
  <2>q. QED BY <2>2, <2>3, <2>4
<1>3. hi - (lo - 1) \in Nat /\ lo - 1 + (hi - (lo - 1)) = hi
  BY DEF AllDigits
<1> HIDE DEF S
<1>4. hi - (lo - 1) \in S
  BY <1>1, <1>2, <1>3, SetInduction
<1>q. QED BY <1>3, <1>4 DEF S

\* A number that wraps at each digit wraps as if it had done so at the end.
LEMMA WrapsAlike ==
  ASSUME NEW w \in Nat \ {0}, NEW x \in Nat, NEW d \in Nat
  PROVE  ((x % w) * 10 + d) % w = (x * 10 + d) % w
<1> DEFINE q == x \div w
           r == x % w
           y == r * 10 + d
           p == y \div w
           s == y % w
           z == x * 10 + d
           m == z \div w
           n == z % w
<1>1. q \in Int /\ r \in 0 .. w - 1 /\ x = w * q + r
  BY Division
<1>2. y \in Int
  BY <1>1
<1>3. p \in Int /\ s \in 0 .. w - 1 /\ y = w * p + s
  BY <1>2, Division
<1>4. m \in Int /\ n \in 0 .. w - 1 /\ z = w * m + n
  <2>1. z \in Int
    OBVIOUS
  <2>q. QED BY <2>1, Division
<1>5. z = w * (10 * q + p) + s
  <2> HIDE DEF q, p, s
  <2>1. z = (w * q + r) * 10 + d
    BY <1>1
  <2>2. (w * q + r) * 10 + d = w * (10 * q) + y
    BY <1>1
  <2>3. w * (10 * q) + w * p = w * (10 * q + p)
    BY <1>1, <1>3
  <2> HIDE DEF y, z, r
  <2>4. w * (10 * q) \in Int /\ w * p \in Int /\ w * (10 * q + p) \in Int
    BY <1>1, <1>3
  <2>q. QED BY <1>3, <2>1, <2>2, <2>3, <2>4
<1>6. n = s
  <2> DEFINE k == m - (10 * q + p)
  <2>1. k \in Int /\ w * k = w * m - w * (10 * q + p)
    <3> HIDE DEF q, p, m
    <3>q. QED BY <1>1, <1>3, <1>4
  <2> DEFINE a == w * m
             b == w * (10 * q + p)
  <2>2. a \in Int /\ b \in Int /\ w * k = a - b /\ a + n = b + s
    <3> HIDE DEF q, p, m, z, n, s, k
    <3>q. QED BY <1>1, <1>3, <1>4, <1>5, <2>1
  <2> HIDE DEF q, p, m, z, n, s, k, a, b
  <2>3. w * k = s - n
    BY <1>3, <1>4, <2>2
  <2>4. k <= 0
    <3> SUFFICES ASSUME k >= 1 PROVE FALSE
      BY <2>1
    <3>1. w * k >= w
      BY <2>1
    <3>q. QED BY <1>3, <1>4, <2>3, <3>1
  <2>5. k >= 0
    <3> SUFFICES ASSUME k <= -1 PROVE FALSE
      BY <2>1
    <3>1. w * k <= -w
      BY <2>1
    <3>q. QED BY <1>3, <1>4, <2>3, <3>1
  <2>6. w * k = 0
    BY <2>1, <2>4, <2>5
  <2>q. QED BY <1>3, <1>4, <2>3, <2>6
<1>q. QED BY <1>6 DEF n, s, y, z, r
-----------------------------------------------------------------------------
(* Where a character takes the parser.                                     *)

\* The two states of each size, by its place.
LEMMA SizeStates ==
  ASSUME NEW k \in 1 .. 4
  PROVE  /\ Starts[k] \in DOMAIN SizeStart /\ Starts[k] \notin DOMAIN SizeContinued
         /\ SizeStart[Starts[k]].size = Sizes[k] /\ SizeStart[Starts[k]].next = Continues[k]
         /\ Continues[k] \in DOMAIN SizeContinued /\ Continues[k] \notin DOMAIN SizeStart
         /\ SizeContinued[Continues[k]].size = Sizes[k]
         /\ SizeContinued[Continues[k]].end = Ends[k]
         /\ SizeContinued[Continues[k]].next = IF k = 4 THEN "rotation_start" ELSE Starts[k + 1]
         /\ Ends[k] \notin Digits
<1>1. CASE k = 1
  BY <1>1 DEF Starts, Continues, SizeStart, SizeContinued, Sizes, Ends, Digits
<1>2. CASE k = 2
  BY <1>2 DEF Starts, Continues, SizeStart, SizeContinued, Sizes, Ends, Digits
<1>3. CASE k = 3
  BY <1>3 DEF Starts, Continues, SizeStart, SizeContinued, Sizes, Ends, Digits
<1>4. CASE k = 4
  BY <1>4 DEF Starts, Continues, SizeStart, SizeContinued, Sizes, Ends, Digits
<1>q. QED BY <1>1, <1>2, <1>3, <1>4

\* The parser turns only in the states of a rotation.
LEMMA TurnStates ==
  \A move \in RotationMoves :
    move[1] \notin DOMAIN SizeStart /\ move[1] \notin DOMAIN SizeContinued
BY DEF RotationMoves, SizeStart, SizeContinued

\* Where a size begins, a digit is taken and all else refused.
LEMMA AfterStart ==
  ASSUME NEW k \in 1 .. 4, mState = Starts[k], NEW ch, LooksAt(ch)
  PROVE  \/ /\ ch \in Digits
            /\ mState' = Continues[k] /\ phase' = "parsing"
            /\ proj' = [proj EXCEPT ![Sizes[k]] = (@ + DigitValue[ch]) % Wrap]
         \/ ch \notin Digits /\ Refuses(ch)
<1>1. /\ mState \in DOMAIN SizeStart /\ mState \notin DOMAIN SizeContinued
      /\ SizeStart[mState].size = Sizes[k] /\ SizeStart[mState].next = Continues[k]
  BY SizeStates
<1>2. ~RotationGoesOn(ch) /\ ~DigitContinues(ch) /\ ~SizeEnds(ch)
  BY <1>1, TurnStates DEF RotationGoesOn, DigitContinues, SizeEnds
<1>3. CASE DigitStarts(ch)
  BY <1>1, <1>3 DEF DigitStarts, LooksAt
<1>4. CASE Refuses(ch)
  BY <1>1, <1>4 DEF Refuses, Takes
<1>q. QED BY <1>2, <1>3, <1>4 DEF LooksAt

\* Further on, a digit or what ends the size is taken and all else refused.
LEMMA AfterContinued ==
  ASSUME NEW k \in 1 .. 4, mState = Continues[k], NEW ch, LooksAt(ch)
  PROVE  \/ /\ ch \in Digits
            /\ mState' = mState /\ phase' = "parsing"
            /\ proj' = [proj EXCEPT ![Sizes[k]] = (@ * 10 + DigitValue[ch]) % Wrap]
         \/ /\ ch = Ends[k] /\ phase' = "parsing" /\ proj' = proj
            /\ mState' = IF k = 4 THEN "rotation_start" ELSE Starts[k + 1]
         \/ ch \notin Digits /\ ch # Ends[k] /\ Refuses(ch)
<1>1. /\ mState \in DOMAIN SizeContinued /\ mState \notin DOMAIN SizeStart
      /\ SizeContinued[mState].size = Sizes[k] /\ SizeContinued[mState].end = Ends[k]
      /\ SizeContinued[mState].next = IF k = 4 THEN "rotation_start" ELSE Starts[k + 1]
  BY SizeStates
<1>2. ~RotationGoesOn(ch) /\ ~DigitStarts(ch)
  BY <1>1, TurnStates DEF RotationGoesOn, DigitStarts
<1>3. CASE DigitContinues(ch)
  BY <1>1, <1>3 DEF DigitContinues, LooksAt
<1>4. CASE SizeEnds(ch)
  BY <1>1, <1>4 DEF SizeEnds, LooksAt
<1>5. CASE Refuses(ch)
  BY <1>1, <1>5 DEF Refuses, Takes
<1>q. QED BY <1>2, <1>3, <1>4, <1>5 DEF LooksAt

\* The character that comes next in a rotation is taken.
LEMMA TurnTaken ==
  ASSUME NEW r \in 0 .. 3, NEW n \in 0 .. Len(Rotations[r + 1]) - 1
  PROVE  /\ <<Turns[r + 1][n + 1], Rotations[r + 1][n + 1], Turns[r + 1][n + 2]>>
              \in RotationMoves
         /\ \A move \in RotationMoves :
              /\ move[1] = Turns[r + 1][n + 1] /\ move[2] = Rotations[r + 1][n + 1]
              => move[3] = Turns[r + 1][n + 2]
<1>1. CASE r = 0
  <2>1. n = 0
    BY <1>1 DEF Rotations
  <2>q. QED BY <1>1, <2>1 DEF Rotations, Turns, RotationMoves
<1>2. CASE r = 1
  <2>1. n = 0 \/ n = 1
    BY <1>2 DEF Rotations
  <2>q. QED BY <1>2, <2>1 DEF Rotations, Turns, RotationMoves
<1>3. CASE r = 2
  <2>1. n = 0 \/ n = 1 \/ n = 2
    BY <1>3 DEF Rotations
  <2>q. QED BY <1>3, <2>1 DEF Rotations, Turns, RotationMoves
<1>4. CASE r = 3
  <2>1. n = 0 \/ n = 1 \/ n = 2
    BY <1>4 DEF Rotations
  <2>q. QED BY <1>4, <2>1 DEF Rotations, Turns, RotationMoves
<1>q. QED BY <1>1, <1>2, <1>3, <1>4

\* A character that is taken goes on with one of the rotations.
LEMMA TurnGoesOn ==
  ASSUME NEW r \in 0 .. 3, NEW n \in 0 .. Len(Rotations[r + 1]),
         NEW move \in RotationMoves, move[1] = Turns[r + 1][n + 1]
  PROVE  \E q \in 0 .. 3 :
           /\ n + 1 \in 1 .. Len(Rotations[q + 1])
           /\ \A i \in 1 .. n : Rotations[q + 1][i] = Rotations[r + 1][i]
           /\ move[2] = Rotations[q + 1][n + 1]
           /\ move[3] = Turns[q + 1][n + 2]
           /\ (move[3] = "satisfied") = (n + 1 = Len(Rotations[q + 1]))
           /\ move[3] = "satisfied" => RotationOf[move[1]] = q
<1>1. CASE n = 0
  <2>1. move[1] = "rotation_start"
    BY <1>1 DEF Turns
  <2>2. move \in {<<"rotation_start", "0", "satisfied">>,
                  <<"rotation_start", "9", "rotation_90_2">>,
                  <<"rotation_start", "1", "rotation_180_2">>,
                  <<"rotation_start", "2", "rotation_270_2">>}
    BY <2>1 DEF RotationMoves
  <2>3. CASE move = <<"rotation_start", "0", "satisfied">>
    <3> WITNESS 0 \in 0 .. 3
    <3>q. QED BY <1>1, <2>3 DEF Rotations, Turns, RotationOf
  <2>4. CASE move = <<"rotation_start", "9", "rotation_90_2">>
    <3> WITNESS 1 \in 0 .. 3
    <3>q. QED BY <1>1, <2>4 DEF Rotations, Turns, RotationOf
  <2>5. CASE move = <<"rotation_start", "1", "rotation_180_2">>
    <3> WITNESS 2 \in 0 .. 3
    <3>q. QED BY <1>1, <2>5 DEF Rotations, Turns, RotationOf
  <2>6. CASE move = <<"rotation_start", "2", "rotation_270_2">>
    <3> WITNESS 3 \in 0 .. 3
    <3>q. QED BY <1>1, <2>6 DEF Rotations, Turns, RotationOf
  <2>q. QED BY <2>2, <2>3, <2>4, <2>5, <2>6
<1>2. CASE n # 0
  <2> WITNESS r \in 0 .. 3
  <2>1. CASE r = 0
    <3>1. n = 1
      BY <1>2, <2>1 DEF Rotations
    <3>q. QED BY <2>1, <3>1 DEF Rotations, Turns, RotationMoves
  <2>2. CASE r = 1
    <3>1. n = 1 \/ n = 2
      BY <1>2, <2>2 DEF Rotations
    <3>q. QED BY <2>2, <3>1 DEF Rotations, Turns, RotationMoves, RotationOf
  <2>3. CASE r = 2
    <3>1. n = 1 \/ n = 2 \/ n = 3
      BY <1>2, <2>3 DEF Rotations
    <3>q. QED BY <2>3, <3>1 DEF Rotations, Turns, RotationMoves, RotationOf
  <2>4. CASE r = 3
    <3>1. n = 1 \/ n = 2 \/ n = 3
      BY <1>2, <2>4 DEF Rotations
    <3>q. QED BY <2>4, <3>1 DEF Rotations, Turns, RotationMoves, RotationOf
  <2>q. QED BY <2>1, <2>2, <2>3, <2>4
<1>q. QED BY <1>1, <1>2

\* In a rotation a character goes on with one, or is refused.
LEMMA AfterTurn ==
  ASSUME NEW r \in 0 .. 3, NEW n \in 0 .. Len(Rotations[r + 1]),
         mState = Turns[r + 1][n + 1], NEW ch, LooksAt(ch)
  PROVE  RotationGoesOn(ch) \/ Refuses(ch)
<1>1. mState \notin DOMAIN SizeStart /\ mState \notin DOMAIN SizeContinued
  <2>1. mState \in {"rotation_start", "rotation_90_2", "rotation_180_2", "rotation_180_3",
                    "rotation_270_2", "rotation_270_3", "satisfied"}
    <3>1. CASE r = 0
      <4>1. n \in 0 .. 1
        BY <3>1 DEF Rotations
      <4>q. QED BY <3>1, <4>1 DEF Turns
    <3>2. CASE r = 1
      <4>1. n \in 0 .. 2
        BY <3>2 DEF Rotations
      <4>q. QED BY <3>2, <4>1 DEF Turns
    <3>3. CASE r = 2
      <4>1. n \in 0 .. 3
        BY <3>3 DEF Rotations
      <4>q. QED BY <3>3, <4>1 DEF Turns
    <3>4. CASE r = 3
      <4>1. n \in 0 .. 3
        BY <3>4 DEF Rotations
      <4>q. QED BY <3>4, <4>1 DEF Turns
    <3>q. QED BY <3>1, <3>2, <3>3, <3>4
  <2>q. QED BY <2>1 DEF SizeStart, SizeContinued
<1>q. QED BY <1>1 DEF LooksAt, DigitStarts, DigitContinues, SizeEnds
-----------------------------------------------------------------------------
(* The parser in a well-formed text.                                       *)

\* A rotation has one to three digits.
LEMMA RotationLengths ==
  \A r \in 0 .. 3 : Len(Rotations[r + 1]) \in 1 .. 3
<1> SUFFICES ASSUME NEW r \in 0 .. 3 PROVE Len(Rotations[r + 1]) \in 1 .. 3
  OBVIOUS
<1>1. CASE r = 0
  BY <1>1 DEF Rotations
<1>2. CASE r = 1
  BY <1>2 DEF Rotations
<1>3. CASE r = 2
  BY <1>3 DEF Rotations
<1>4. CASE r = 3
  BY <1>4 DEF Rotations
<1>q. QED BY <1>1, <1>2, <1>3, <1>4

\* A split is made of places in the text.
LEMMA SplitPlaces ==
  ASSUME NEW u \in Seq(Characters), NEW s \in Splits(u)
  PROVE  \A k \in 1 .. 4 : s[k] \in 1 .. Len(u)
BY DEF Splits

\* x characters lie before or in size k.
Within(s, k, x) == From(s, k) - 1 <= x /\ x < s[k]

\* The sizes come one after the other, and the rotation last.
LEMMA Places ==
  ASSUME NEW u \in Seq(Characters), NEW s \in Splits(u), NEW r \in 0 .. 3,
         IsWritten(u, s, r)
  PROVE  /\ \A k \in 1 .. 4 : /\ s[k] \in Int /\ From(s, k) \in Int
                              /\ 1 <= From(s, k) /\ From(s, k) <= s[k] - 1 /\ s[k] <= s[4]
         /\ \A k \in 1 .. 3 : From(s, k + 1) - 1 = s[k]
         /\ \A j, k \in 1 .. 4 : \A x \in Int : Within(s, j, x) /\ Within(s, k, x) => j = k
         /\ \A x \in 0 .. s[4] - 1 : \E k \in 1 .. 4 : Within(s, k, x)
         /\ s[4] \in Nat
<1> DEFINE a == s[1]
           b == s[2]
           c == s[3]
           d == s[4]
<1>1. a \in Int /\ b \in Int /\ c \in Int /\ d \in Int
  BY SplitPlaces
<1>2. From(s, 1) = 1 /\ From(s, 2) = a + 1 /\ From(s, 3) = b + 1 /\ From(s, 4) = c + 1
  BY DEF From
<1>3. \A k \in 1 .. 4 : From(s, k) <= s[k] - 1
  BY DEF IsWritten, AllDigits
<1>4. /\ From(s, 1) <= a - 1 /\ From(s, 2) <= b - 1 /\ From(s, 3) <= c - 1
      /\ From(s, 4) <= d - 1
  BY <1>3
<1>5. \A k \in 1 .. 4 :
        \/ k = 1 /\ s[k] = a /\ From(s, k) = 1
        \/ k = 2 /\ s[k] = b /\ From(s, k) = a + 1
        \/ k = 3 /\ s[k] = c /\ From(s, k) = b + 1
        \/ k = 4 /\ s[k] = d /\ From(s, k) = c + 1
  <2> SUFFICES ASSUME NEW k \in 1 .. 4
               PROVE  \/ k = 1 /\ s[k] = a /\ From(s, k) = 1
                      \/ k = 2 /\ s[k] = b /\ From(s, k) = a + 1
                      \/ k = 3 /\ s[k] = c /\ From(s, k) = b + 1
                      \/ k = 4 /\ s[k] = d /\ From(s, k) = c + 1
    OBVIOUS
  <2>1. k = 1 \/ k = 2 \/ k = 3 \/ k = 4
    OBVIOUS
  <2>q. QED BY <1>2, <2>1
<1>6. \A k \in 1 .. 3 : From(s, k + 1) - 1 = s[k]
  <2> SUFFICES ASSUME NEW k \in 1 .. 3 PROVE From(s, k + 1) - 1 = s[k]
    OBVIOUS
  <2>1. CASE k = 1
    BY <1>1, <1>2, <2>1
  <2>2. CASE k = 2
    BY <1>1, <1>2, <2>2
  <2>3. CASE k = 3
    BY <1>1, <1>2, <2>3
  <2>q. QED BY <2>1, <2>2, <2>3
<1>7. 1 <= a - 1 /\ a + 1 <= b - 1 /\ b + 1 <= c - 1 /\ c + 1 <= d - 1
  BY <1>2, <1>4
<1> HIDE DEF a, b, c, d
<1>8. /\ a \in 1 .. d /\ b \in 1 .. d /\ c \in 1 .. d /\ d \in 1 .. d
      /\ 1 \in 1 .. a - 1 /\ a + 1 \in 1 .. b - 1 /\ b + 1 \in 1 .. c - 1
      /\ c + 1 \in 1 .. d - 1
  BY <1>1, <1>7
<1>9. \A k \in 1 .. 4 : s[k] \in 1 .. d /\ From(s, k) \in 1 .. s[k] - 1
  BY <1>5, <1>8
<1>10. ASSUME NEW k \in 1 .. 4
       PROVE  /\ s[k] \in Int /\ From(s, k) \in Int
              /\ 1 <= From(s, k) /\ From(s, k) <= s[k] - 1 /\ s[k] <= d
  <2>1. s[k] \in 1 .. d /\ From(s, k) \in 1 .. s[k] - 1
    BY <1>9
  <2> DEFINE x == s[k]
             y == From(s, k)
  <2>2. x \in 1 .. d /\ y \in 1 .. x - 1
    BY <2>1
  <2> HIDE DEF x, y
  <2>3. x \in Int /\ y \in Int /\ 1 <= y /\ y <= x - 1 /\ x <= d
    BY <1>1, <2>2
  <2>q. QED BY <2>3 DEF x, y
<1>11. ASSUME NEW j \in 1 .. 4, NEW k \in 1 .. 4, NEW x \in Int,
              Within(s, j, x), Within(s, k, x)
       PROVE  j = k
  <2> DEFINE In(i) == \/ i = 1 /\ 0 <= x /\ x < a
                      \/ i = 2 /\ a <= x /\ x < b
                      \/ i = 3 /\ b <= x /\ x < c
                      \/ i = 4 /\ c <= x /\ x < d
  <2>1. \A i \in 1 .. 4 : Within(s, i, x) => In(i)
    <3> SUFFICES ASSUME NEW i \in 1 .. 4, Within(s, i, x) PROVE In(i)
      OBVIOUS
    <3>1. CASE i = 1
      BY <1>1, <1>5, <3>1 DEF Within
    <3>2. CASE i = 2
      BY <1>1, <1>5, <3>2 DEF Within
    <3>3. CASE i = 3
      BY <1>1, <1>5, <3>3 DEF Within
    <3>4. CASE i = 4
      BY <1>1, <1>5, <3>4 DEF Within
    <3>q. QED BY <3>1, <3>2, <3>3, <3>4
  <2>2. In(j) /\ In(k)
    BY <1>11, <2>1
  <2>q. QED BY <1>1, <1>7, <2>2
<1>12. ASSUME NEW x \in 0 .. d - 1
       PROVE  \E k \in 1 .. 4 : Within(s, k, x)
  <2>1. \/ 0 <= x /\ x < a
        \/ a <= x /\ x < b
        \/ b <= x /\ x < c
        \/ c <= x /\ x < d
    BY <1>1, <1>7
  <2>2. /\ From(s, 1) - 1 = 0 /\ From(s, 2) - 1 = a /\ From(s, 3) - 1 = b /\ From(s, 4) - 1 = c
    BY <1>1, <1>2
  <2>3. s[1] = a /\ s[2] = b /\ s[3] = c /\ s[4] = d
    BY DEF a, b, c, d
  <2>4. 1 \in 1 .. 4 /\ 2 \in 1 .. 4 /\ 3 \in 1 .. 4 /\ 4 \in 1 .. 4
    OBVIOUS
  <2>q. QED BY <2>1, <2>2, <2>3, <2>4, Zenon DEF Within
<1>13. d \in Nat
  BY <1>8
<1>q. QED BY <1>6, <1>10, <1>11, <1>12, <1>13 DEF d

\* A character of a well-formed text is taken, and to where the text goes on.
LEMMA CourseStep ==
  ASSUME NEW u \in Seq(Characters), NEW s \in Splits(u), NEW r \in 0 .. 3,
         IsWritten(u, s, r), NEW n \in 0 .. Len(u) - 1,
         StateAfter(s, r, n, mState), LooksAt(u[n + 1])
  PROVE  phase' = "parsing" /\ StateAfter(s, r, n + 1, mState')
<1> DEFINE ch == u[n + 1]
<1>1. LooksAt(ch) /\ phase = "parsing"
  BY DEF LooksAt
<1>2. \A k \in 1 .. 4 : /\ s[k] \in Int /\ From(s, k) \in Int
                        /\ 1 <= From(s, k) /\ From(s, k) <= s[k] - 1 /\ s[k] <= s[4]
  BY Places
<1>s. s[4] \in Int
  BY <1>2
<1>3. \A j, k \in 1 .. 4 : \A x \in Int : Within(s, j, x) /\ Within(s, k, x) => j = k
  BY Places
<1>4. /\ \A x \in 0 .. s[4] - 1 : \E k \in 1 .. 4 : Within(s, k, x)
      /\ \A k \in 1 .. 3 : From(s, k + 1) - 1 = s[k]
  BY Places
<1>5. /\ \A k \in 1 .. 4 : /\ \A i \in From(s, k) .. s[k] - 1 : u[i] \in Digits
                           /\ u[s[k]] = Ends[k]
      /\ Len(u) = s[4] + Len(Rotations[r + 1])
      /\ \A i \in 1 .. Len(Rotations[r + 1]) : u[s[4] + i] = Rotations[r + 1][i]
  BY DEF IsWritten, AllDigits
\* The state of a place within size k, and of the one before it.
<1>6. ASSUME NEW k \in 1 .. 4, NEW x \in Int, From(s, k) - 1 <= x, x < s[k], NEW m,
             m = IF x = From(s, k) - 1 THEN Starts[k] ELSE Continues[k]
      PROVE  StateAfter(s, r, x, m)
  <2>1. s[k] \in Int /\ s[k] <= s[4]
    BY <1>2
  <2>2. ~(x >= s[4])
    BY <1>2, <1>6, <2>1
  <2>3. Within(s, k, x)
    BY <1>6 DEF Within
  <2>4. ASSUME NEW j \in 1 .. 4, x = From(s, j) - 1 \/ x \in From(s, j) .. s[j] - 1
        PROVE  j = k
    <3>1. s[j] \in Int /\ From(s, j) \in Int /\ From(s, j) <= s[j] - 1
      BY <1>2
    <3>2. Within(s, j, x)
      BY <2>4, <3>1 DEF Within
    <3>q. QED BY <1>3, <2>3, <3>2
  <2>5. From(s, k) \in Int
    BY <1>2
  <2>6. x = From(s, k) - 1 => x \notin From(s, k) .. s[k] - 1
    BY <2>1, <2>5
  <2>7. x \in From(s, k) .. s[k] - 1 => x # From(s, k) - 1
    BY <2>1, <2>5
  <2>8. \A j \in 1 .. 4 : x = From(s, j) - 1 => m = Starts[j]
    BY <1>6, <2>4
  <2>9. \A j \in 1 .. 4 : x \in From(s, j) .. s[j] - 1 => m = Continues[j]
    BY <1>6, <2>4, <2>7
  <2>q. QED BY <2>2, <2>8, <2>9 DEF StateAfter
\* The state in the rotation.
<1>7. ASSUME NEW x \in Int, x >= s[4], NEW m, m = Turns[r + 1][x - s[4] + 1]
      PROVE  StateAfter(s, r, x, m)
  <2>1. ASSUME NEW j \in 1 .. 4, x = From(s, j) - 1 \/ x \in From(s, j) .. s[j] - 1
        PROVE  FALSE
    <3>1. s[j] \in Int /\ From(s, j) \in Int /\ From(s, j) <= s[j] - 1 /\ s[j] <= s[4]
      BY <1>2
    <3>2. x < s[j]
      BY <2>1, <3>1
    <3>q. QED BY <1>s, <1>7, <3>1, <3>2
  <2>q. QED BY <1>7, <2>1 DEF StateAfter
<1>n. n \in Int /\ 0 <= n /\ n < Len(u) /\ Len(u) \in Int
  OBVIOUS
<1>8. CASE n >= s[4]
  <2> DEFINE i == n - s[4]
  <2>0. i \in Int /\ n = s[4] + i /\ i >= 0
    BY <1>s, <1>8, <1>n
  <2>1. i \in 0 .. Len(Rotations[r + 1]) - 1 /\ Len(Rotations[r + 1]) \in Nat
    <3> DEFINE l == Len(Rotations[r + 1])
    <3>1. l \in Nat /\ Len(u) = s[4] + l
      BY <1>5, RotationLengths
    <3> HIDE DEF i, l
    <3>2. i < l
      BY <1>s, <1>n, <2>0, <3>1
    <3>q. QED BY <2>0, <3>1, <3>2 DEF l
  <2>2. mState = Turns[r + 1][i + 1]
    BY <1>8 DEF StateAfter
  <2>3. ch = Rotations[r + 1][i + 1]
    <3> DEFINE l == Len(Rotations[r + 1])
    <3>0. i \in 0 .. l - 1 /\ l \in Nat
      BY <2>1
    <3> HIDE DEF i, l
    <3>1. i + 1 \in 1 .. l
      BY <3>0
    <3>2. s[4] + (i + 1) = n + 1
      BY <1>s, <2>0
    <3>3. u[s[4] + (i + 1)] = Rotations[r + 1][i + 1]
      BY <1>5, <3>1 DEF l
    <3>q. QED BY <3>2, <3>3
  <2>4. RotationGoesOn(ch) \/ Refuses(ch)
    <3>1. i \in 0 .. Len(Rotations[r + 1])
      BY <2>1
    <3>q. QED BY <1>1, <2>2, <3>1, AfterTurn
  <2>5. ~Refuses(ch)
    <3>1. <<Turns[r + 1][i + 1], Rotations[r + 1][i + 1], Turns[r + 1][i + 2]>>
            \in RotationMoves
      BY <2>1, TurnTaken
    <3>2. \E move \in RotationMoves : move[1] = mState /\ move[2] = ch
      BY <2>2, <2>3, <3>1
    <3>q. QED BY <3>2 DEF Refuses, Takes
  <2>6. mState' = Turns[r + 1][i + 2] /\ phase' = "parsing"
    <3>1. PICK move \in RotationMoves :
            move[1] = mState /\ move[2] = ch /\ mState' = move[3]
      BY <2>4, <2>5 DEF RotationGoesOn
    <3>2. move[3] = Turns[r + 1][i + 2]
      BY <2>1, <2>2, <2>3, <3>1, TurnTaken
    <3>q. QED BY <1>1, <2>4, <2>5, <3>1, <3>2 DEF RotationGoesOn
  <2>7. n + 1 \in Int /\ n + 1 >= s[4] /\ (n + 1) - s[4] + 1 = i + 2
    <3> DEFINE a == s[4]
    <3>1. a \in Int /\ i \in Int /\ i >= 0 /\ n = a + i
      BY <1>s, <2>0
    <3> HIDE DEF i, a
    <3>2. n + 1 \in Int /\ n + 1 >= a
      BY <3>1
    <3>3. (n + 1) - a + 1 = i + 2
      BY <3>1
    <3>q. QED BY <3>2, <3>3 DEF a
  <2>8. StateAfter(s, r, n + 1, mState')
    BY <1>7, <2>6, <2>7
  <2>q. QED BY <2>6, <2>8
<1>9. CASE n < s[4]
  <2>1. PICK k \in 1 .. 4 : Within(s, k, n)
    <3>1. n \in 0 .. s[4] - 1
      BY <1>2, <1>9, <1>n
    <3>q. QED BY <1>4, <3>1
  <2>2. /\ s[k] \in Int /\ From(s, k) \in Int /\ From(s, k) <= s[k] - 1
        /\ From(s, k) - 1 <= n /\ n < s[k]
    BY <1>2, <2>1 DEF Within
  <2>3. CASE n = From(s, k) - 1
    <3>1. mState = Starts[k]
      BY <2>3 DEF StateAfter
    <3>2. /\ n + 1 \in From(s, k) .. s[k] - 1 /\ n + 1 # From(s, k) - 1
          /\ n + 1 \in Int /\ From(s, k) - 1 <= n + 1 /\ n + 1 < s[k]
      BY <1>n, <2>2, <2>3
    <3>3. ch \in Digits
      BY <1>5, <3>2
    <3>4. mState' = Continues[k] /\ phase' = "parsing"
      BY <1>1, <3>1, <3>3, AfterStart
    <3>5. StateAfter(s, r, n + 1, mState')
      BY <1>6, <3>2, <3>4
    <3>q. QED BY <3>4, <3>5
  <2>4. CASE n # From(s, k) - 1 /\ n # s[k] - 1
    <3>1. /\ n \in From(s, k) .. s[k] - 1
          /\ n + 1 \in From(s, k) .. s[k] - 1 /\ n + 1 # From(s, k) - 1
          /\ n + 1 \in Int /\ From(s, k) - 1 <= n + 1 /\ n + 1 < s[k]
      BY <1>n, <2>2, <2>4
    <3>2. mState = Continues[k]
      BY <3>1 DEF StateAfter
    <3>3. ch \in Digits
      BY <1>5, <3>1
    <3>4. ch # Ends[k]
      BY <3>3, SizeStates
    <3>5. mState' = Continues[k] /\ phase' = "parsing"
      BY <1>1, <3>2, <3>3, <3>4, AfterContinued
    <3>6. StateAfter(s, r, n + 1, mState')
      BY <1>6, <3>1, <3>5
    <3>q. QED BY <3>5, <3>6
  <2>5. CASE n # From(s, k) - 1 /\ n = s[k] - 1
    <3>1. n \in From(s, k) .. s[k] - 1 /\ n + 1 = s[k] /\ n + 1 \in Int
      BY <1>n, <2>2, <2>5
    <3>2. mState = Continues[k]
      BY <3>1 DEF StateAfter
    <3>3. ch = Ends[k] /\ ch \notin Digits
      BY <1>5, <3>1, SizeStates
    <3>4. /\ mState' = IF k = 4 THEN "rotation_start" ELSE Starts[k + 1]
          /\ phase' = "parsing"
      BY <1>1, <3>2, <3>3, AfterContinued
    <3>5. CASE k = 4
      <4>1. n + 1 >= s[4] /\ (n + 1) - s[4] + 1 = 1
        BY <1>2, <3>1, <3>5
      <4>2. Turns[r + 1][1] = "rotation_start"
        <5>1. r = 0 \/ r = 1 \/ r = 2 \/ r = 3
          OBVIOUS
        <5>q. QED BY <5>1 DEF Turns
      <4>3. StateAfter(s, r, n + 1, mState')
        BY <1>7, <3>1, <3>4, <3>5, <4>1, <4>2
      <4>q. QED BY <3>4, <4>3
    <3>6. CASE k # 4
      <4>1. k \in 1 .. 3 /\ k + 1 \in 1 .. 4
        BY <3>6
      <4>2. n + 1 = From(s, k + 1) - 1
        BY <1>4, <3>1, <4>1
      <4>3. /\ s[k + 1] \in Int /\ From(s, k + 1) \in Int
            /\ From(s, k + 1) <= s[k + 1] - 1
        BY <1>2, <4>1
      <4>4. From(s, k + 1) - 1 <= n + 1 /\ n + 1 < s[k + 1]
        BY <3>1, <4>2, <4>3
      <4>5. StateAfter(s, r, n + 1, mState')
        BY <1>6, <3>1, <3>4, <3>6, <4>1, <4>2, <4>4
      <4>q. QED BY <3>4, <4>5
    <3>q. QED BY <3>5, <3>6
  <2>q. QED BY <2>3, <2>4, <2>5
<1>q. QED BY <1>2, <1>n, <1>8, <1>9

\* The parser is given the characters of arguments only.
LEMMA CharactersNext == NextCharacters \subseteq Characters
BY ProjectionAssumption DEF NextCharacters, Characters

\* The state a Parser is made with is the one before every text.
LEMMA CourseBegins ==
  ASSUME NEW u \in Seq(Characters), NEW s \in Splits(u), NEW r \in 0 .. 3,
         IsWritten(u, s, r)
  PROVE  StateAfter(s, r, 0, "real_width_start")
<1>1. \A k \in 1 .. 4 : /\ s[k] \in Int /\ From(s, k) \in Int
                        /\ 1 <= From(s, k) /\ From(s, k) <= s[k] - 1 /\ s[k] <= s[4]
  BY Places
<1>2. \A j, k \in 1 .. 4 : \A x \in Int : Within(s, j, x) /\ Within(s, k, x) => j = k
  BY Places
<1>3. s[1] \in Int /\ From(s, 1) = 1 /\ 1 <= s[1] - 1 /\ s[4] \in Int /\ s[1] <= s[4]
  BY <1>1 DEF From
<1>4. ~(0 >= s[4])
  BY <1>3
<1>5. Within(s, 1, 0)
  BY <1>3 DEF Within
<1>6. \A k \in 1 .. 4 : 0 \notin From(s, k) .. s[k] - 1
  <2> SUFFICES ASSUME NEW k \in 1 .. 4 PROVE 0 \notin From(s, k) .. s[k] - 1
    OBVIOUS
  <2>1. s[k] \in Int /\ From(s, k) \in Int /\ 1 <= From(s, k)
    BY <1>1
  <2>q. QED BY <2>1
<1>7. ASSUME NEW k \in 1 .. 4, 0 = From(s, k) - 1
      PROVE  k = 1
  <2>1. s[k] \in Int /\ From(s, k) \in Int /\ From(s, k) <= s[k] - 1
    BY <1>1
  <2>2. Within(s, k, 0)
    BY <1>7, <2>1 DEF Within
  <2>q. QED BY <1>2, <1>5, <2>2
<1>8. Starts[1] = "real_width_start"
  BY DEF Starts
<1>q. QED BY <1>4, <1>6, <1>7, <1>8 DEF StateAfter

\* After the whole of a well-formed text it is satisfied.
LEMMA CourseEnds ==
  ASSUME NEW u \in Seq(Characters), NEW s \in Splits(u), NEW r \in 0 .. 3,
         IsWritten(u, s, r), NEW m, StateAfter(s, r, Len(u), m)
  PROVE  m = "satisfied"
<1> DEFINE l == Len(Rotations[r + 1])
<1>1. Len(u) = s[4] + l
  BY DEF IsWritten
<1>2. l \in Int /\ 1 <= l
  <2>1. l \in 1 .. 3
    BY RotationLengths
  <2> HIDE DEF l
  <2>q. QED BY <2>1
<1>2a. s[4] \in Int
  BY Places
<1>2b. Len(u) >= s[4] /\ Len(u) - s[4] + 1 = l + 1
  <2> HIDE DEF l
  <2>q. QED BY <1>1, <1>2, <1>2a
<1>3. m = Turns[r + 1][l + 1]
  BY <1>2b DEF StateAfter
<1>4. Turns[r + 1][l + 1] = "satisfied"
  <2>0. Turns[1][1 + 1] = "satisfied" /\ Turns[2][2 + 1] = "satisfied"
        /\ Turns[3][3 + 1] = "satisfied" /\ Turns[4][3 + 1] = "satisfied"
    BY DEF Turns
  <2>1. Len(Rotations[1]) = 1 /\ Len(Rotations[2]) = 2 /\ Len(Rotations[3]) = 3
        /\ Len(Rotations[4]) = 3
    BY DEF Rotations
  <2>2. r = 0 \/ r = 1 \/ r = 2 \/ r = 3
    OBVIOUS
  <2>3. CASE r = 0
    <3>1. r + 1 = 1
      BY <2>3
    <3>q. QED BY <2>0, <2>1, <3>1
  <2>4. CASE r = 1
    <3>1. r + 1 = 2
      BY <2>4
    <3>q. QED BY <2>0, <2>1, <3>1
  <2>5. CASE r = 2
    <3>1. r + 1 = 3
      BY <2>5
    <3>q. QED BY <2>0, <2>1, <3>1
  <2>6. CASE r = 3
    <3>1. r + 1 = 4
      BY <2>6
    <3>q. QED BY <2>0, <2>1, <3>1
  <2>q. QED BY <2>2, <2>3, <2>4, <2>5, <2>6
<1>q. QED BY <1>3, <1>4

\* Steps that leave the parser alone end in no phase of it.
LEMMA OutsideParser ==
  ASSUME OptionFlag \/ OptionR \/ OptionUsage \/ Run \/ ShowInfo \/ QueryStep
  PROVE  /\ UNCHANGED <<options, mState, text>>
         /\ phase' \notin {"parsing", "badCharacter", "cutShort"}
<1>1. CASE QueryStep
  <2>1. phase' = "shown" \/ phase' = "noInfo" \/ phase' = "info"
    BY <1>1 DEF QueryStep
  <2>q. QED BY <1>1, <2>1 DEF QueryStep
<1>2. CASE Run
  <2>1. phase' = "running" \/ phase' = "badSize"
    BY <1>2 DEF Run, UseProjection
  <2>q. QED BY <1>2, <2>1 DEF Run, UseProjection
<1>q. QED BY <1>1, <1>2 DEF OptionFlag, OptionR, OptionUsage, Option, ShowInfo

\* The parser stays on the course of every well-formed text.
LEMMA CourseNext ==
  ASSUME CourseInv, Next
  PROVE  CourseInv'
<1>1. ASSUME NEW ch \in NextCharacters, LooksAt(ch)
      PROVE  CourseInv'
  <2>1. ch \in Characters /\ text \in Seq(Characters) /\ text' = Append(text, ch)
        /\ phase = "parsing"
    BY <1>1, CharactersNext DEF CourseInv, LooksAt
  <2>2. /\ text' \in Seq(Characters) /\ Len(text') = Len(text) + 1 /\ Len(text) \in Nat
        /\ \A i \in 1 .. Len(text) : text'[i] = text[i]
        /\ text'[Len(text) + 1] = ch
    BY <2>1
  <2>3. ASSUME NEW u \in Seq(Characters), NEW s \in Splits(u), NEW r \in 0 .. 3,
               IsWritten(u, s, r), Begins(text, u)'
        PROVE  phase' = "parsing" /\ StateAfter(s, r, Len(text'), mState')
    <3> DEFINE n == Len(text)
    <3>1. Len(text') <= Len(u) /\ \A i \in 1 .. Len(text') : text'[i] = u[i]
      BY <2>3 DEF Begins
    <3>2. Len(u) \in Nat /\ n \in Nat /\ n + 1 <= Len(u) /\ Len(text') = n + 1
      BY <2>2, <3>1
    <3>3. n \in 0 .. Len(u) - 1 /\ n <= Len(u)
      BY <3>2
    <3>4. u[n + 1] = ch
      BY <2>2, <3>1, <3>2
    <3>5. \A i \in 1 .. n : text[i] = u[i]
      BY <2>2, <3>1, <3>2
    <3>6. Begins(text, u)
      BY <3>3, <3>5 DEF Begins
    <3>7. StateAfter(s, r, n, mState)
      BY <2>1, <2>3, <3>6 DEF CourseInv, OnCourse
    <3>8. LooksAt(u[n + 1])
      BY <1>1, <3>4
    <3> HIDE DEF n
    <3>9. phase' = "parsing" /\ StateAfter(s, r, n + 1, mState')
      BY <2>3, <3>3, <3>7, <3>8, CourseStep
    <3>q. QED BY <3>2, <3>9
  <2>q. QED BY <2>2, <2>3 DEF CourseInv, OnCourse
<1>2. CASE OptionP
  <2>1. text' = <<>> /\ mState' = "real_width_start" /\ phase' = "parsing"
    BY <1>2 DEF OptionP
  <2>2. text' \in Seq(Characters) /\ Len(text') = 0
    BY <2>1
  <2>q. QED BY <2>1, <2>2, CourseBegins DEF CourseInv, OnCourse
<1>3. CASE EndOfArgument
  <2>1. /\ text' = text /\ mState' = mState /\ phase = "parsing"
        /\ phase' = IF mState = "satisfied" THEN "options" ELSE "cutShort"
    BY <1>3 DEF EndOfArgument
  <2>2. ASSUME NEW u \in Seq(Characters), NEW s \in Splits(u), NEW r \in 0 .. 3,
               IsWritten(u, s, r), Begins(text, u), mState # "satisfied"
        PROVE  Len(text) < Len(u)
    <3>1. StateAfter(s, r, Len(text), mState)
      BY <2>1, <2>2 DEF CourseInv, OnCourse
    <3>2. Len(text) # Len(u)
      BY <2>2, <3>1, CourseEnds
    <3>3. Len(text) <= Len(u) /\ Len(text) \in Nat /\ Len(u) \in Nat
      BY <2>2 DEF Begins, CourseInv
    <3>q. QED BY <3>2, <3>3
  <2>3. ASSUME NEW u \in Seq(Characters)
        PROVE  OnCourse(u)'
    <3>1. Begins(text, u)' <=> Begins(text, u)
      BY <2>1 DEF Begins
    <3>q. QED BY <2>1, <2>2, <3>1 DEF OnCourse
  <2>q. QED BY <2>1, <2>3 DEF CourseInv
<1>4. CASE OptionFlag \/ OptionR \/ OptionUsage \/ Run \/ ShowInfo \/ QueryStep
  <2>1. text' = text /\ phase' \notin {"parsing", "badCharacter", "cutShort"}
    BY <1>4, OutsideParser
  <2>q. QED BY <2>1 DEF CourseInv, OnCourse
<1>q. QED BY <1>1, <1>2, <1>3, <1>4 DEF Next

-----------------------------------------------------------------------------
(* What the parser has read.                                               *)

\* Where a rotation ends.
LEMMA TurnsEnd ==
  /\ \A r \in 0 .. 3 : \A n \in 0 .. Len(Rotations[r + 1]) :
       (Turns[r + 1][n + 1] = "satisfied") <=> n = Len(Rotations[r + 1])
  /\ \A move \in RotationMoves : move[1] # "satisfied"
  /\ \A k \in 1 .. 4 : Starts[k] # "satisfied" /\ Continues[k] # "satisfied"
  /\ Turns[1][1] = "rotation_start" /\ Len(Rotations[1]) = 1
<1>1. ASSUME NEW r \in 0 .. 3, NEW n \in 0 .. Len(Rotations[r + 1])
      PROVE  (Turns[r + 1][n + 1] = "satisfied") <=> n = Len(Rotations[r + 1])
  <2>1. CASE r = 0
    <3>1. n \in 0 .. 1
      BY <2>1 DEF Rotations
    <3>q. QED BY <2>1, <3>1 DEF Turns, Rotations
  <2>2. CASE r = 1
    <3>1. n \in 0 .. 2
      BY <2>2 DEF Rotations
    <3>q. QED BY <2>2, <3>1 DEF Turns, Rotations
  <2>3. CASE r = 2
    <3>1. n \in 0 .. 3
      BY <2>3 DEF Rotations
    <3>q. QED BY <2>3, <3>1 DEF Turns, Rotations
  <2>4. CASE r = 3
    <3>1. n \in 0 .. 3
      BY <2>4 DEF Rotations
    <3>q. QED BY <2>4, <3>1 DEF Turns, Rotations
  <2>q. QED BY <2>1, <2>2, <2>3, <2>4
<1>2. \A move \in RotationMoves : move[1] # "satisfied"
  BY DEF RotationMoves
<1>3. \A k \in 1 .. 4 : Starts[k] # "satisfied" /\ Continues[k] # "satisfied"
  BY DEF Starts, Continues
<1>4. Turns[1][1] = "rotation_start" /\ Len(Rotations[1]) = 1
  BY DEF Turns, Rotations
<1>q. QED BY <1>1, <1>2, <1>3, <1>4

\* p with size k made v.
Put(p, k, v) == [p EXCEPT ![Sizes[k]] = v]

\* One more digit of a size changes nothing else.
LEMMA OneSize ==
  ASSUME NEW p \in Projections, NEW k \in 1 .. 4, NEW v
  PROVE  /\ Put(p, k, v)[Sizes[k]] = v
         /\ \A j \in 1 .. 4 : j # k => Put(p, k, v)[Sizes[j]] = p[Sizes[j]]
         /\ Put(p, k, v).rotation = p.rotation
<1> USE DEF Put
<1>1. CASE k = 1
  BY <1>1 DEF Projections, Sizes
<1>2. CASE k = 2
  BY <1>2 DEF Projections, Sizes
<1>3. CASE k = 3
  BY <1>3 DEF Projections, Sizes
<1>4. CASE k = 4
  BY <1>4 DEF Projections, Sizes
<1>q. QED BY <1>1, <1>2, <1>3, <1>4

\* A split of what was looked at has its places there, or 0.
LEMMA PlacesSoFar ==
  ASSUME text \in Seq(Characters), NEW s \in SplitSoFar
  PROVE  \A k \in 1 .. 4 : /\ s[k] \in Int /\ 0 <= s[k] /\ s[k] <= Len(text)
                           /\ From(s, k) \in Int /\ 1 <= From(s, k)
                           /\ From(s, k) <= Len(text) + 1
<1>1. \A k \in 1 .. 4 : s[k] \in 0 .. Len(text)
  BY DEF SplitSoFar, Marks
<1>2. Len(text) \in Nat
  OBVIOUS
<1> DEFINE n == Len(text)
<1> HIDE DEF n
<1>3. \A k \in 1 .. 4 : s[k] \in Int /\ 0 <= s[k] /\ s[k] <= n
  BY <1>1, <1>2 DEF n
<1>4. ASSUME NEW k \in 1 .. 4
      PROVE  From(s, k) \in Int /\ 1 <= From(s, k) /\ From(s, k) <= n + 1
  <2>1. CASE k = 1
    BY <1>2, <2>1 DEF From, n
  <2>2. CASE k # 1
    <3>1. k - 1 \in 1 .. 4
      BY <2>2
    <3> DEFINE a == s[k - 1]
    <3>2. a \in Int /\ 0 <= a /\ a <= n
      BY <1>3, <3>1
    <3>3. From(s, k) = a + 1
      BY <2>2 DEF From
    <3> HIDE DEF a
    <3>q. QED BY <1>2, <3>2, <3>3 DEF n
  <2>q. QED BY <2>1, <2>2
<1>q. QED BY <1>3, <1>4 DEF n

\* One more character leaves what was split before.
LEMMA SplitOn ==
  ASSUME text \in Seq(Characters), NEW ch \in Characters, text' = Append(text, ch)
  PROVE  /\ text' \in Seq(Characters) /\ Len(text) \in Nat /\ Len(text') = Len(text) + 1
         /\ \A i \in 1 .. Len(text) : text'[i] = text[i]
         /\ text'[Len(text) + 1] = ch
         /\ SplitSoFar \subseteq SplitSoFar'
         /\ ch \in Separators => Len(text') \in Marks(text)'
<1>1. /\ text' \in Seq(Characters) /\ Len(text) \in Nat /\ Len(text') = Len(text) + 1
      /\ \A i \in 1 .. Len(text) : text'[i] = text[i]
      /\ text'[Len(text) + 1] = ch
  OBVIOUS
<1>2. Marks(text) \subseteq Marks(text)'
  <2> SUFFICES ASSUME NEW i \in Marks(text) PROVE i \in Marks(text)'
    OBVIOUS
  <2>1. i \in 1 .. Len(text) /\ text[i] \in Separators
    BY DEF Marks
  <2>2. i \in 1 .. Len(text') /\ text'[i] \in Separators
    BY <1>1, <2>1
  <2>q. QED BY <1>1, <2>2 DEF Marks
<1>3. SplitSoFar \subseteq SplitSoFar'
  BY <1>2 DEF SplitSoFar
<1>4. ch \in Separators => Len(text') \in Marks(text)'
  <2>1. Len(text') \in 1 .. Len(text') /\ text'[Len(text')] = ch
    BY <1>1
  <2>q. QED BY <1>1, <2>1 DEF Marks
<1>q. QED BY <1>1, <1>3, <1>4

\* What was read of a size stays read while its place in proj is left alone.
LEMMA StillRead ==
  ASSUME text \in Seq(Characters), NEW ch \in Characters, text' = Append(text, ch),
         NEW s \in SplitSoFar, NEW z, NEW k \in 1 .. 4, From(z, k) = From(s, k),
         NEW h \in Int, h <= Len(text), SizeIsRead(s, k, h),
         proj'[Sizes[k]] = proj[Sizes[k]]
  PROVE  SizeIsRead(z, k, h)'
<1> DEFINE lo == From(s, k)
<1>1. lo \in Int /\ 1 <= lo
  BY PlacesSoFar
<1>2. lo <= h /\ (\A i \in lo .. h : text[i] \in Digits)
      /\ proj[Sizes[k]] = Decimal(text, lo, h) % Wrap
  BY DEF SizeIsRead, AllDigits
<1> HIDE DEF lo
<1>3. \A i \in lo .. h : i \in 1 .. Len(text)
  <2>1. Len(text) \in Nat
    OBVIOUS
  <2>q. QED BY <1>1, <2>1
<1>4. \A i \in lo .. h : text'[i] = text[i]
  BY <1>3, SplitOn
<1>5. lo - 1 <= h
  BY <1>1, <1>2
<1>6. Decimal(text', lo, h) = Decimal(text, lo, h)
  BY <1>1, <1>4, <1>5, DecimalSame
<1>7. AllDigits(text', lo, h)
  BY <1>2, <1>4 DEF AllDigits
<1>8. From(z, k) = lo
  BY DEF lo
<1>q. QED BY <1>2, <1>6, <1>7, <1>8 DEF SizeIsRead

\* The sizes before and after the one that is being read.
LEMMA StillReadBefore ==
  ASSUME text \in Seq(Characters), NEW ch \in Characters, text' = Append(text, ch),
         NEW s \in SplitSoFar, NEW k \in 1 .. 5, ReadBefore(s, k),
         \A j \in 1 .. 4 : j # k => proj'[Sizes[j]] = proj[Sizes[j]]
  PROVE  ReadBefore(s, k)'
<1>1. ASSUME NEW j \in 1 .. k - 1
      PROVE  SizeIsRead(s, j, s[j] - 1)' /\ text'[s[j]] = Ends[j]
  <2>1. j \in 1 .. 4 /\ j # k
    OBVIOUS
  <2>2. SizeIsRead(s, j, s[j] - 1) /\ text[s[j]] = Ends[j]
    BY DEF ReadBefore
  <2>3. s[j] \in Int /\ s[j] <= Len(text) /\ From(s, j) \in Int /\ 1 <= From(s, j)
    BY <2>1, PlacesSoFar
  <2>4. From(s, j) <= s[j] - 1
    BY <2>2 DEF SizeIsRead, AllDigits
  <2> DEFINE h == s[j] - 1
  <2>5. Len(text) \in Int
    OBVIOUS
  <2>6. h \in Int /\ h <= Len(text) /\ s[j] \in 1 .. Len(text)
    BY <2>3, <2>4, <2>5
  <2>7. SizeIsRead(s, j, h)
    BY <2>2
  <2>8. From(s, j) = From(s, j) /\ proj'[Sizes[j]] = proj[Sizes[j]]
    BY <2>1
  <2>9. text'[s[j]] = text[s[j]]
    BY <2>6, SplitOn
  <2> HIDE DEF h
  <2>10. SizeIsRead(s, j, h)'
    BY <2>1, <2>6, <2>7, <2>8, StillRead
  <2>q. QED BY <2>2, <2>9, <2>10 DEF h
<1>2. ASSUME NEW j \in k + 1 .. 4
      PROVE  proj'[Sizes[j]] = 0
  <2>1. j \in 1 .. 4 /\ j # k
    OBVIOUS
  <2>q. QED BY <2>1 DEF ReadBefore
<1>q. QED BY <1>1, <1>2 DEF ReadBefore

\* A digit makes the number that is being read the one with that digit.
LEMMA DigitRead ==
  ASSUME text \in Seq(Characters), NEW ch \in Digits, text' = Append(text, ch),
         NEW s \in SplitSoFar, NEW k \in 1 .. 4, NEW x \in Nat,
         From(s, k) - 1 <= Len(text),
         \A i \in From(s, k) .. Len(text) : text[i] \in Digits,
         x = Decimal(text, From(s, k), Len(text)),
         proj'[Sizes[k]] = ((x % Wrap) * 10 + DigitValue[ch]) % Wrap
  PROVE  SizeIsRead(s, k, Len(text))'
<1> DEFINE lo == From(s, k)
           d == DigitValue[ch]
<1>n. PICK n \in Nat : n = Len(text)
  OBVIOUS
<1>0. ch \in Characters
  BY DEF Characters
<1>1. /\ Len(text') = n + 1 /\ text'[n + 1] = ch
      /\ \A i \in 1 .. n : text'[i] = text[i]
  BY <1>0, <1>n, SplitOn
<1>2. lo \in Int /\ 1 <= lo /\ lo - 1 <= n
  BY <1>n, PlacesSoFar
<1>3. \A i \in lo .. n : text[i] \in Digits
  BY <1>n
<1>4. d \in Nat
  BY DEF DigitValue, Digits
<1>5. Wrap \in Nat \ {0}
  BY ProjectionAssumption DEF Wrap
<1>2a. n \in Int /\ lo \in Int /\ lo - 1 <= n
  BY <1>2
<1>5a. x = Decimal(text, lo, n)
  BY <1>n
<1>5b. proj'[Sizes[k]] = ((x % Wrap) * 10 + d) % Wrap
  OBVIOUS
<1> HIDE DEF lo, d
<1>6. \A i \in lo .. n : text'[i] = text[i]
  BY <1>1, <1>2
<1>7. Decimal(text', lo, n) = x
  <2>1. Decimal(text', lo, n) = Decimal(text, lo, n)
    BY <1>2a, <1>6, DecimalSame
  <2>q. QED BY <1>5a, <2>1
<1>8. Decimal(text', lo, n + 1) = Decimal(text', lo, n) * 10 + DigitValue[text'[n + 1]]
  BY <1>2a, DecimalMore
<1>9. Decimal(text', lo, n + 1) = x * 10 + d
  BY <1>1, <1>7, <1>8 DEF d
<1>10. proj'[Sizes[k]] = Decimal(text', lo, n + 1) % Wrap
  <2>1. ((x % Wrap) * 10 + d) % Wrap = (x * 10 + d) % Wrap
    BY <1>4, <1>5, WrapsAlike
  <2>q. QED BY <1>5b, <1>9, <2>1
<1>11. AllDigits(text', lo, n + 1)
  <2>1. lo <= n + 1
    BY <1>1, <1>2
  <2>2. ASSUME NEW i \in lo .. n + 1 PROVE text'[i] \in Digits
    <3>1. CASE i = n + 1
      BY <1>1, <3>1
    <3>2. CASE i # n + 1
      <4>1. i \in lo .. n
        BY <1>1, <1>2, <3>2
      <4>q. QED BY <1>3, <1>6, <4>1
    <3>q. QED BY <3>1, <3>2
  <2>q. QED BY <2>1, <2>2 DEF AllDigits
<1>q. QED BY <1>1, <1>10, <1>11 DEF SizeIsRead, lo

\* A digit of a size.
LEMMA ReadDigit ==
  ASSUME text \in Seq(Characters), proj \in Projections, NEW ch \in Digits,
         text' = Append(text, ch), NEW s \in SplitSoFar, NEW k \in 1 .. 4,
         ReadingSize(s, k), mState' = Continues[k],
         \/ /\ mState = Starts[k] /\ Len(text) = From(s, k) - 1 /\ proj[Sizes[k]] = 0
            /\ proj' = [proj EXCEPT ![Sizes[k]] = (@ + DigitValue[ch]) % Wrap]
         \/ /\ SizeIsRead(s, k, Len(text))
            /\ proj' = [proj EXCEPT ![Sizes[k]] = (@ * 10 + DigitValue[ch]) % Wrap]
  PROVE  ReadingSize(s, k)'
<1> DEFINE lo == From(s, k)
           n == Len(text)
           d == DigitValue[ch]
           a == proj[Sizes[k]]
<1>0. ch \in Characters
  BY DEF Characters
<1>1. lo \in Int /\ 1 <= lo /\ lo <= n + 1 /\ n \in Nat
  BY PlacesSoFar
<1>2. d \in Nat
  BY DEF DigitValue, Digits
<1>3. Wrap \in Nat \ {0}
  BY ProjectionAssumption DEF Wrap
<1>4. PICK x \in Nat :
        /\ x = Decimal(text, lo, n)
        /\ \A i \in lo .. n : text[i] \in Digits
        /\ proj' = [proj EXCEPT ![Sizes[k]] = ((x % Wrap) * 10 + d) % Wrap]
  <2>1. CASE /\ n = lo - 1 /\ a = 0
             /\ proj' = [proj EXCEPT ![Sizes[k]] = (a + d) % Wrap]
    <3> WITNESS 0 \in Nat
    <3>1. Decimal(text, lo, lo - 1) = 0
      BY <1>1, DecimalEmpty
    <3>2. 0 % Wrap = 0
      BY <1>3
    <3>3. a + d = (0 % Wrap) * 10 + d
      BY <1>2, <2>1, <3>2
    <3> HIDE DEF lo, n, d, a
    <3>4. lo .. n = {}
      BY <1>1, <2>1
    <3>q. QED BY <2>1, <3>1, <3>3, <3>4
  <2>2. CASE /\ SizeIsRead(s, k, n)
             /\ proj' = [proj EXCEPT ![Sizes[k]] = (a * 10 + d) % Wrap]
    <3>1. AllDigits(text, lo, n) /\ a = Decimal(text, lo, n) % Wrap
      BY <2>2 DEF SizeIsRead
    <3>2. Decimal(text, lo, n) \in Nat
      BY <1>1, <3>1, DecimalNat
    <3> WITNESS Decimal(text, lo, n) \in Nat
    <3>q. QED BY <2>2, <3>1 DEF AllDigits
  <2>q. QED BY <2>1, <2>2
<1>5. /\ proj'[Sizes[k]] = ((x % Wrap) * 10 + d) % Wrap
      /\ \A j \in 1 .. 4 : j # k => proj'[Sizes[j]] = proj[Sizes[j]]
      /\ proj'.rotation = proj.rotation
  <2> DEFINE v == ((x % Wrap) * 10 + d) % Wrap
  <2>1. proj' = Put(proj, k, v)
    BY <1>4 DEF Put
  <2> HIDE DEF v
  <2>2. /\ Put(proj, k, v)[Sizes[k]] = v
        /\ \A j \in 1 .. 4 : j # k => Put(proj, k, v)[Sizes[j]] = proj[Sizes[j]]
        /\ Put(proj, k, v).rotation = proj.rotation
    BY OneSize
  <2>q. QED BY <2>1, <2>2 DEF v
<1>6. From(s, k) - 1 <= Len(text)
  BY <1>1
<1>7. SizeIsRead(s, k, Len(text))'
  BY <1>4, <1>5, <1>6, DigitRead
<1>8. ReadBefore(s, k) /\ proj.rotation = 0
  BY DEF ReadingSize
<1>9. ReadBefore(s, k)'
  BY <1>0, <1>5, <1>8, StillReadBefore
<1>q. QED BY <1>5, <1>7, <1>8, <1>9 DEF ReadingSize

\* The character that ends a size.
LEMMA ReadEnd ==
  ASSUME text \in Seq(Characters), proj' = proj, NEW s \in SplitSoFar, NEW k \in 1 .. 4,
         NEW ch \in Characters, ch = Ends[k], text' = Append(text, ch),
         ReadingSize(s, k), SizeIsRead(s, k, Len(text)),
         mState' = IF k = 4 THEN "rotation_start" ELSE Starts[k + 1]
  PROVE  PartlyRead'
<1>n. PICK n \in Nat : n = Len(text)
  OBVIOUS
<1>z. PICK z : z = [s EXCEPT ![k] = n + 1]
  OBVIOUS
<1>1. /\ Len(text') = n + 1 /\ text'[n + 1] = ch /\ text' \in Seq(Characters)
      /\ \A i \in 1 .. n : text'[i] = text[i]
      /\ SplitSoFar \subseteq SplitSoFar'
  BY <1>n, SplitOn
<1>2. z \in SplitSoFar'
  <2>1. ch \in Separators
    BY DEF Ends, Separators
  <2>2. n + 1 \in Marks(text)'
    BY <1>1, <2>1, SplitOn
  <2>3. s \in SplitSoFar'
    BY <1>1
  <2>q. QED BY <1>z, <2>2, <2>3 DEF SplitSoFar
<1>3. z[k] = n + 1 /\ \A j \in 1 .. 4 : j # k => z[j] = s[j]
  BY <1>z DEF SplitSoFar
<1>4. \A j \in 1 .. k : From(z, j) = From(s, j)
  BY <1>3 DEF From
<1>5. ReadBefore(s, k) /\ proj.rotation = 0
  BY DEF ReadingSize
<1>6. ReadBefore(s, k)'
  BY <1>5, StillReadBefore
<1>7. SizeIsRead(z, k, n)'
  <2>1. SizeIsRead(s, k, n) /\ n \in Int /\ n <= Len(text)
    BY <1>n
  <2>2. From(z, k) = From(s, k)
    BY <1>4
  <2>q. QED BY <2>1, <2>2, StillRead
<1>8. ASSUME NEW j \in 1 .. k
      PROVE  SizeIsRead(z, j, z[j] - 1)' /\ text'[z[j]] = Ends[j]
  <2>1. CASE j = k
    <3>1. z[j] - 1 = n /\ text'[z[j]] = Ends[j]
      BY <1>1, <1>3, <2>1
    <3>q. QED BY <1>7, <2>1, <3>1
  <2>2. CASE j # k
    <3>1. j \in 1 .. k - 1 /\ j \in 1 .. 4
      BY <2>2
    <3>2. z[j] = s[j] /\ From(z, j) = From(s, j)
      BY <1>3, <1>4, <2>2, <3>1
    <3>3. SizeIsRead(s, j, s[j] - 1)' /\ text'[s[j]] = Ends[j]
      BY <1>6, <3>1 DEF ReadBefore
    <3>q. QED BY <3>2, <3>3 DEF SizeIsRead
  <2>q. QED BY <2>1, <2>2
<1>9. ASSUME NEW m, m = k + 1
      PROVE  ReadBefore(z, m)'
  <2>1. m - 1 = k /\ m \in Int
    BY <1>9
  <2>2. \A j \in 1 .. m - 1 : SizeIsRead(z, j, z[j] - 1)' /\ text'[z[j]] = Ends[j]
    BY <1>8, <2>1
  <2>3. ASSUME NEW j \in m + 1 .. 4 PROVE proj'[Sizes[j]] = 0
    <3>1. j \in k + 1 .. 4
      BY <1>9, <2>1
    <3>q. QED BY <1>5, <3>1 DEF ReadBefore
  <2>q. QED BY <2>2, <2>3 DEF ReadBefore
<1>10. CASE k = 4
  <2>1. ReadBefore(z, 5)'
    <3>1. 5 = k + 1
      BY <1>10
    <3>q. QED BY <1>9, <3>1
  <2>1a. mState' = Turns[0 + 1][0 + 1] /\ Len(Rotations[0 + 1]) = 1
    BY <1>10, TurnsEnd
  <2>2. Len(text') = z[4] + 0
    BY <1>1, <1>3, <1>10
  <2>3. proj'.rotation = IF 0 = Len(Rotations[0 + 1]) THEN 0 ELSE 0
    BY <1>5
  <2>4. ReadingRotation(z, 0, 0)'
    BY <2>1, <2>1a, <2>2, <2>3 DEF ReadingRotation
  <2>5. 0 \in 0 .. 3 /\ 0 \in 0 .. Len(Rotations[0 + 1])
    BY <2>1a
  <2>q. QED BY <1>2, <2>4, <2>5 DEF PartlyRead
<1>11. CASE k # 4
  <2>1. k + 1 \in 1 .. 4 /\ From(z, k + 1) = z[k] + 1
    BY <1>11 DEF From
  <2>2. mState' = Starts[k + 1] /\ Len(text') = From(z, k + 1) - 1
    BY <1>1, <1>3, <1>11, <2>1
  <2>3. proj'[Sizes[k + 1]] = 0
    BY <1>5, <2>1 DEF ReadBefore
  <2>4. ReadingSize(z, k + 1)'
    BY <1>5, <1>9, <2>2, <2>3 DEF ReadingSize
  <2>q. QED BY <1>2, <2>1, <2>4 DEF PartlyRead
<1>q. QED BY <1>10, <1>11

\* A character of the rotation.
LEMMA ReadTurn ==
  ASSUME text \in Seq(Characters), proj \in Projections, NEW ch \in Characters,
         text' = Append(text, ch), NEW s \in SplitSoFar, NEW r \in 0 .. 3,
         NEW n \in 0 .. Len(Rotations[r + 1]), ReadingRotation(s, r, n),
         RotationGoesOn(ch)
  PROVE  PartlyRead'
<1>1. PICK move \in RotationMoves :
        /\ move[1] = mState /\ move[2] = ch /\ mState' = move[3]
        /\ proj' = IF mState' = "satisfied"
                   THEN [proj EXCEPT !.rotation = RotationOf[mState]] ELSE proj
  BY DEF RotationGoesOn
<1>2. /\ ReadBefore(s, 5) /\ Len(text) = s[4] + n
      /\ \A i \in 1 .. n : text[s[4] + i] = Rotations[r + 1][i]
      /\ mState = Turns[r + 1][n + 1]
      /\ proj.rotation = IF n = Len(Rotations[r + 1]) THEN r ELSE 0
  BY DEF ReadingRotation
<1>3. PICK q \in 0 .. 3 :
        /\ n + 1 \in 1 .. Len(Rotations[q + 1])
        /\ \A i \in 1 .. n : Rotations[q + 1][i] = Rotations[r + 1][i]
        /\ move[2] = Rotations[q + 1][n + 1]
        /\ move[3] = Turns[q + 1][n + 2]
        /\ (move[3] = "satisfied") = (n + 1 = Len(Rotations[q + 1]))
        /\ move[3] = "satisfied" => RotationOf[move[1]] = q
  <2>1. move[1] = Turns[r + 1][n + 1]
    BY <1>1, <1>2
  <2>q. QED BY <2>1, TurnGoesOn
<1>4. proj.rotation = 0
  BY <1>1, <1>2, TurnsEnd
<1>5. /\ \A j \in 1 .. 4 : proj'[Sizes[j]] = proj[Sizes[j]]
      /\ proj'.rotation = IF n + 1 = Len(Rotations[q + 1]) THEN q ELSE 0
  <2>1. CASE mState' = "satisfied"
    <3>1. proj' = [proj EXCEPT !.rotation = q]
      BY <1>1, <1>3, <2>1
    <3>2. proj'.rotation = q
      BY <3>1 DEF Projections
    <3>3. \A j \in 1 .. 4 : proj'[Sizes[j]] = proj[Sizes[j]]
      <4>1. \A j \in 1 .. 4 : Sizes[j] \in {"realWidth", "realHeight", "virtualWidth", "virtualHeight"}
        BY DEF Sizes
      <4>q. QED BY <3>1, <4>1 DEF Projections
    <3>q. QED BY <1>1, <1>3, <2>1, <3>2, <3>3
  <2>2. CASE mState' # "satisfied"
    BY <1>1, <1>3, <1>4, <2>2
  <2>q. QED BY <2>1, <2>2
<1>6. ReadBefore(s, 5)'
  BY <1>2, <1>5, StillReadBefore
<1>7. s[4] \in Int /\ 0 <= s[4]
  BY PlacesSoFar
<1>8. n \in Int /\ 0 <= n
  <2>1. Len(Rotations[r + 1]) \in 1 .. 3
    BY RotationLengths
  <2>q. QED BY <2>1
<1>9. /\ Len(text') = Len(text) + 1 /\ text'[Len(text) + 1] = ch
      /\ \A i \in 1 .. Len(text) : text'[i] = text[i]
      /\ SplitSoFar \subseteq SplitSoFar'
  BY SplitOn
<1>10. Len(text') = s[4] + (n + 1) /\ text'[s[4] + (n + 1)] = ch
  <2> DEFINE a == s[4]
             l == Len(text)
  <2>1. a \in Int /\ l = a + n
    BY <1>2, <1>7
  <2>2. Len(text') = l + 1 /\ text'[l + 1] = ch
    BY <1>9
  <2> HIDE DEF a, l
  <2>3. l + 1 = a + (n + 1)
    BY <1>8, <2>1
  <2>4. Len(text') = a + (n + 1) /\ text'[a + (n + 1)] = ch
    BY <2>2, <2>3
  <2>q. QED BY <2>4 DEF a
<1>11. ASSUME NEW i \in 1 .. n + 1
       PROVE  text'[s[4] + i] = Rotations[q + 1][i]
  <2>1. CASE i = n + 1
    BY <1>1, <1>3, <1>10, <2>1
  <2>2. CASE i # n + 1
    <3>1. i \in 1 .. n
      BY <1>8, <2>2
    <3> DEFINE a == s[4]
    <3>2. a \in Int /\ 0 <= a /\ Len(text) = a + n
      BY <1>2, <1>7
    <3> HIDE DEF a
    <3>3. a + i \in 1 .. Len(text)
      BY <1>8, <3>1, <3>2
    <3>4. text'[a + i] = text[a + i]
      BY <1>9, <3>3
    <3>q. QED BY <1>2, <1>3, <3>1, <3>4 DEF a
  <2>q. QED BY <2>1, <2>2
<1>12. mState' = Turns[q + 1][n + 1 + 1]
  <2>1. n + 1 + 1 = n + 2
    BY <1>8
  <2>q. QED BY <1>1, <1>3, <2>1
<1>13. ReadingRotation(s, q, n + 1)'
  BY <1>5, <1>6, <1>10, <1>11, <1>12 DEF ReadingRotation
<1>14. s \in SplitSoFar' /\ n + 1 \in 0 .. Len(Rotations[q + 1])
  <2>1. Len(Rotations[q + 1]) \in 1 .. 3
    BY RotationLengths
  <2>q. QED BY <1>3, <1>9, <2>1
<1>q. QED BY <1>13, <1>14 DEF PartlyRead

\* A character that is not refused.
LEMMA ReadMore ==
  ASSUME text \in Seq(Characters), proj \in Projections, PartlyRead,
         NEW ch \in Characters, LooksAt(ch), phase' = "parsing"
  PROVE  PartlyRead'
<1>0. text' = Append(text, ch) /\ ~Refuses(ch)
  BY DEF LooksAt, Refuses
<1>1. ASSUME NEW s \in SplitSoFar, NEW k \in 1 .. 4, ReadingSize(s, k)
      PROVE  PartlyRead'
  <2>1. CASE mState = Starts[k] /\ Len(text) = From(s, k) - 1 /\ proj[Sizes[k]] = 0
    <3>1. /\ ch \in Digits /\ mState' = Continues[k]
          /\ proj' = [proj EXCEPT ![Sizes[k]] = (@ + DigitValue[ch]) % Wrap]
      BY <1>0, <2>1, AfterStart
    <3>2. ReadingSize(s, k)'
      BY <1>0, <1>1, <2>1, <3>1, ReadDigit
    <3>q. QED BY <1>0, <3>2, SplitOn DEF PartlyRead
  <2>2. CASE mState = Continues[k] /\ SizeIsRead(s, k, Len(text))
    <3>1. CASE /\ ch \in Digits /\ mState' = mState
               /\ proj' = [proj EXCEPT ![Sizes[k]] = (@ * 10 + DigitValue[ch]) % Wrap]
      <4>1. ReadingSize(s, k)'
        BY <1>0, <1>1, <2>2, <3>1, ReadDigit
      <4>q. QED BY <1>0, <4>1, SplitOn DEF PartlyRead
    <3>2. CASE /\ ch = Ends[k] /\ proj' = proj
               /\ mState' = IF k = 4 THEN "rotation_start" ELSE Starts[k + 1]
      BY <1>0, <1>1, <2>2, <3>2, ReadEnd
    <3>q. QED BY <1>0, <2>2, <3>1, <3>2, AfterContinued
  <2>q. QED BY <1>1, <2>1, <2>2 DEF ReadingSize
<1>2. ASSUME NEW s \in SplitSoFar, NEW r \in 0 .. 3, NEW n \in 0 .. Len(Rotations[r + 1]),
             ReadingRotation(s, r, n)
      PROVE  PartlyRead'
  <2>1. mState = Turns[r + 1][n + 1]
    BY <1>2 DEF ReadingRotation
  <2>2. RotationGoesOn(ch)
    BY <1>0, <2>1, AfterTurn
  <2>q. QED BY <1>0, <1>2, <2>2, ReadTurn
<1>q. QED BY <1>1, <1>2 DEF PartlyRead

\* What is read when the argument ends is what is written.
LEMMA ReadWhole ==
  ASSUME text \in Seq(Characters), proj \in Projections, PartlyRead, mState = "satisfied"
  PROVE  \E s \in Splits(text), r \in 0 .. 3 :
           IsWritten(text, s, r) /\ proj = Reading(text, s, r)
<1>1. PICK s \in SplitSoFar, r \in 0 .. 3 : \E n \in 0 .. Len(Rotations[r + 1]) :
        ReadingRotation(s, r, n)
  BY TurnsEnd DEF PartlyRead, ReadingSize
<1>2. PICK n \in 0 .. Len(Rotations[r + 1]) : ReadingRotation(s, r, n)
  BY <1>1
<1>3. n = Len(Rotations[r + 1])
  BY <1>2, TurnsEnd DEF ReadingRotation
<1>4. /\ Len(text) = s[4] + Len(Rotations[r + 1])
      /\ \A i \in 1 .. Len(Rotations[r + 1]) : text[s[4] + i] = Rotations[r + 1][i]
      /\ proj.rotation = r
      /\ \A j \in 1 .. 4 : SizeIsRead(s, j, s[j] - 1) /\ text[s[j]] = Ends[j]
  BY <1>2, <1>3 DEF ReadingRotation, ReadBefore
<1>5. ASSUME NEW k \in 1 .. 4
      PROVE  s[k] \in DOMAIN text
  <2>1. /\ s[k] \in Int /\ s[k] <= Len(text) /\ From(s, k) \in Int /\ 1 <= From(s, k)
    BY PlacesSoFar
  <2>2. From(s, k) <= s[k] - 1
    BY <1>4 DEF SizeIsRead, AllDigits
  <2>3. 1 <= s[k]
    BY <2>1, <2>2
  <2>4. s[k] \in 1 .. Len(text)
    BY <2>1, <2>3
  <2>q. QED BY <2>4
<1> DEFINE z == <<s[1], s[2], s[3], s[4]>>
<1>6. \A k \in 1 .. 4 : z[k] = s[k]
  OBVIOUS
<1>7. z \in Splits(text)
  BY <1>4, <1>5 DEF Splits, Ends
<1> HIDE DEF z
<1>8. \A k \in 1 .. 4 : From(z, k) = From(s, k)
  BY <1>6 DEF From
<1>9. IsWritten(text, z, r)
  <2>1. z[4] = s[4]
    BY <1>6
  <2>2. \A k \in 1 .. 4 : text[z[k]] = Ends[k]
    BY <1>4, <1>6
  <2>3. \A k \in 1 .. 4 : AllDigits(text, From(z, k), z[k] - 1)
    BY <1>4, <1>6, <1>8 DEF SizeIsRead
  <2>q. QED BY <1>4, <2>1, <2>2, <2>3 DEF IsWritten
<1>10. \A k \in 1 .. 4 : proj[Sizes[k]] = Decimal(text, From(z, k), z[k] - 1) % Wrap
  BY <1>4, <1>6, <1>8 DEF SizeIsRead
<1>11. proj = Reading(text, z, r)
  BY <1>4, <1>10 DEF Reading, Sizes, Projections
<1>q. QED BY <1>7, <1>9, <1>11

\* Where an argument begins nothing is read.
LEMMA ReadNothing ==
  ASSUME text' = <<>>, mState' = "real_width_start", proj' = NoProjection
  PROVE  PartlyRead'
<1>z. PICK s : s = [k \in 1 .. 4 |-> 0]
  OBVIOUS
<1>1. s \in SplitSoFar'
  BY <1>z DEF SplitSoFar
<1>2. \A j \in 1 .. 4 : proj'[Sizes[j]] = 0
  BY DEF NoProjection, Sizes
<1>3. ReadBefore(s, 1)'
  BY <1>2 DEF ReadBefore
<1>4. mState' = Starts[1] /\ Len(text') = From(s, 1) - 1 /\ proj'.rotation = 0
  BY DEF Starts, From, NoProjection
<1>5. ReadingSize(s, 1)'
  BY <1>2, <1>3, <1>4 DEF ReadingSize
<1>q. QED BY <1>1, <1>5 DEF PartlyRead

\* Of the steps outside the parser, one that does not end the options changes
\* nothing of what was read.
LEMMA OptionsGoOn ==
  ASSUME OptionFlag \/ OptionR \/ OptionUsage \/ Run \/ ShowInfo \/ QueryStep,
         phase' = "options"
  PROVE  phase = "options" /\ UNCHANGED <<options, text, proj>>
<1>1. CASE QueryStep
  <2>1. phase' = "shown" \/ phase' = "noInfo" \/ phase' = "info"
    BY <1>1 DEF QueryStep
  <2>q. QED BY <2>1
<1>2. CASE Run
  <2>1. phase' = "running" \/ phase' = "badSize"
    BY <1>2 DEF Run, UseProjection
  <2>q. QED BY <2>1
<1>q. QED BY <1>1, <1>2 DEF OptionFlag, OptionR, OptionUsage, Option, ShowInfo

\* What the parser has read stays what is written.
LEMMA ReadNext ==
  ASSUME SizeInv, CourseInv, ReadInv, Next
  PROVE  ReadInv'
<1>1. ASSUME NEW ch \in NextCharacters, LooksAt(ch)
      PROVE  ReadInv'
  <2>1. /\ ch \in Characters /\ text \in Seq(Characters) /\ phase = "parsing"
        /\ options' = options
    BY <1>1, CharactersNext DEF CourseInv, LooksAt
  <2>2. phase' = "parsing" \/ phase' = "badCharacter"
    BY <1>1, <2>1 DEF LooksAt, DigitStarts, DigitContinues, SizeEnds, RotationGoesOn, Refuses
  <2>3. options \in Nat /\ options > 0
    BY <2>1 DEF ReadInv
  <2>4. ASSUME options = 1, phase' = "parsing"
        PROVE  PartlyRead'
    <3>1. PartlyRead /\ proj \in Projections
      BY <2>1, <2>4 DEF ReadInv, SizeInv
    <3>q. QED BY <1>1, <2>1, <2>4, <3>1, ReadMore
  <2>q. QED BY <2>1, <2>2, <2>3, <2>4 DEF ReadInv, ParsedAsWritten
<1>2. CASE OptionP
  <2>1. /\ text' = <<>> /\ mState' = "real_width_start" /\ phase' = "parsing"
        /\ phase = "options" /\ options' = options + 1 /\ proj' = proj
    BY <1>2 DEF OptionP
  <2>2. options \in Nat /\ (options = 0 => proj = NoProjection)
    BY <2>1 DEF ReadInv
  <2>3. options' \in Nat /\ options' > 0 /\ (options' = 1 => options = 0)
    BY <2>1, <2>2
  <2>4. ASSUME options' = 1 PROVE PartlyRead'
    BY <2>1, <2>2, <2>3, <2>4, ReadNothing
  <2>q. QED BY <2>1, <2>3, <2>4 DEF ReadInv, ParsedAsWritten
<1>3. CASE EndOfArgument
  <2>1. /\ phase = "parsing" /\ phase' = IF mState = "satisfied" THEN "options" ELSE "cutShort"
        /\ UNCHANGED <<options, mState, text, proj>>
    BY <1>3 DEF EndOfArgument
  <2>2. options \in Nat /\ options > 0 /\ (options = 1 => PartlyRead)
    BY <2>1 DEF ReadInv
  <2>3. text \in Seq(Characters) /\ proj \in Projections
    BY <2>1 DEF CourseInv, SizeInv
  <2>4. ParsedAsWritten'
    <3> SUFFICES ASSUME options = 1, mState = "satisfied"
                 PROVE  \E s \in Splits(text), r \in 0 .. 3 :
                          IsWritten(text, s, r) /\ proj = Reading(text, s, r)
      BY <2>1 DEF ParsedAsWritten
    <3>q. QED BY <2>2, <2>3, ReadWhole
  <2>5. options' \in Nat /\ options' > 0 /\ phase' # "parsing"
    BY <2>1, <2>2
  <2>q. QED BY <2>4, <2>5 DEF ReadInv
<1>4. CASE OptionFlag \/ OptionR \/ OptionUsage \/ Run \/ ShowInfo \/ QueryStep
  <2>1. options' = options /\ phase' # "parsing"
    BY <1>4, OutsideParser
  <2>2. phase' = "options" => phase = "options" /\ UNCHANGED <<options, text, proj>>
    BY <1>4, OptionsGoOn
  <2>q. QED BY <2>1, <2>2 DEF ReadInv, ParsedAsWritten
<1>q. QED BY <1>1, <1>2, <1>3, <1>4 DEF Next

\* How the parser begins and what leaves it alone.
LEMMA ParserInit ==
  ASSUME Init
  PROVE  CourseInv /\ ReadInv
<1>1. text = <<>> /\ phase = "options" /\ options = 0 /\ proj = NoProjection
  BY DEF Init, ProjectionInit
<1>2. text \in Seq(Characters)
  BY <1>1
<1>q. QED BY <1>1, <1>2 DEF CourseInv, OnCourse, ReadInv, ParsedAsWritten

\* Nothing is read or refused while nothing changes.
LEMMA ParserStutters ==
  ASSUME CourseInv, ReadInv, UNCHANGED vars
  PROVE  CourseInv' /\ ReadInv'
<1>1. UNCHANGED <<phase, options, mState, text, proj>>
  BY DEF vars
<1>2. CourseInv'
  BY <1>1 DEF CourseInv, OnCourse, Begins
<1>3. ReadInv'
  <2>1. PartlyRead' <=> PartlyRead
    BY <1>1 DEF PartlyRead, SplitSoFar, Marks, ReadingSize, ReadingRotation, ReadBefore,
       SizeIsRead
  <2>q. QED BY <1>1, <2>1 DEF ReadInv, ParsedAsWritten
<1>q. QED BY <1>2, <1>3

\* What the completions are made of.
LEMMA CompletionsAreTexts == Completions \subseteq Seq(Characters)
<1> SUFFICES ASSUME NEW rest \in Completions PROVE rest \in Seq(Characters)
  OBVIOUS
<1> DEFINE whole == <<"1", "x", "1", "@", "1", "x", "1", "/", "0">>
<1>1. "8" \in Characters /\ "7" \in Characters /\ "0" \in Characters
  BY DEF Characters, Digits
<1>2. CASE rest = <<"8", "0">>
  BY <1>1, <1>2
<1>3. CASE rest = <<"7", "0">>
  BY <1>1, <1>3
<1>4. CASE \E i \in 1 .. 10 : rest = SubSeq(whole, i, 9)
  <2>1. \A j \in 1 .. 9 : whole[j] \in Characters
    BY DEF Characters, Digits, Separators
  <2> HIDE DEF whole
  <2>2. PICK i \in 1 .. 10 : rest = SubSeq(whole, i, 9)
    BY <1>4
  <2>3. \A j \in i .. 9 : whole[j] \in Characters
    BY <2>1
  <2>q. QED BY <2>2, <2>3, SubSeqProperties
<1>q. QED BY <1>2, <1>3, <1>4 DEF Completions

\* A refused text begins no well-formed one.
LEMMA RefusedBegins ==
  ASSUME CourseInv, phase = "badCharacter", NEW u \in Seq(Characters), Begins(text, u)
  PROVE  ~IsProjection(u)
BY DEF CourseInv, OnCourse, IsProjection

\* One that is cut short is not well-formed.
LEMMA CutShort ==
  ASSUME CourseInv, phase = "cutShort"
  PROVE  ~IsProjection(text)
<1>1. text \in Seq(Characters) /\ Begins(text, text) /\ ~(Len(text) < Len(text))
  BY DEF CourseInv, Begins
<1>q. QED BY <1>1 DEF CourseInv, OnCourse, IsProjection

-----------------------------------------------------------------------------
(* What holds of the beginning of main().                                  *)

\* The invariant is inductive.
THEOREM StartUpInvariance == Spec => []StartUpInv
<1> USE DEF StartUpInv
<1>1. Init => StartUpInv
  <2> SUFFICES ASSUME Init PROVE StartUpInv
    OBVIOUS
  <2>1. QueryInv
    BY InfoAssumption DEF Init, InfoInit, QueryInv, NotAskedInv, ConfigsInv, AnswerInv,
       AnswerAsFound, CallsLeft, NoInfo
  <2>2. RateInv
    BY DEF Init, RateInv, NoRate
  <2>3. SizeInv
    BY DEF Init, ProjectionInit, SizeInv, NoProjection, Projections, FitsRequest,
       KeepsAspect
  <2>4. CourseInv /\ ReadInv
    BY ParserInit
  <2>q. QED BY <2>1, <2>2, <2>3, <2>4
<1>2. StartUpInv /\ [Next]_vars => StartUpInv'
  <2> SUFFICES ASSUME StartUpInv, [Next]_vars PROVE StartUpInv'
    OBVIOUS
  <2>1. CASE Next
    BY <2>1, QueryNext, RateNext, SizeNext, CourseNext, ReadNext
  <2>2. CASE UNCHANGED vars
    <3>1. CourseInv' /\ ReadInv'
      BY <2>2, ParserStutters
    <3>2. QueryInv' /\ RateInv' /\ SizeInv'
      BY <2>2 DEF vars, QueryInv, NotAskedInv, Asked, ConfigsInv, AnswerInv, Known,
         AnswerAsFound, RateInv, SizeInv, FitsRequest, KeepsAspect
    <3>q. QED BY <3>1, <3>2
  <2>q. QED BY <2>1, <2>2
<1>q. QED BY <1>1, <1>2, PTL DEF Spec

(* The JSON of -i comes from inside the list of configurations, and its     *)
(* rotation is uninitialised only where a framebuffer driver gives one that *)
(* the switch does not know, for any width of size_t and any rotation a     *)
(* driver may give (minicap_29.cpp:417-470, minicap.cpp:276-302).           *)
THEOREM InfoIsFound == Spec => []AnswerAsFound
BY StartUpInvariance, PTL DEF StartUpInv, QueryInv

(* The period of the last -r, whatever other options follow it, is what was *)
(* asked for, rounded as a float and cut to milliseconds, unless it is no  *)
(* int, and frames are skipped (minicap.cpp:252-262).                      *)
THEOREM RateIsKept == Spec => []PacedAsAsked
<1>1. RateInv => PacedAsAsked
  BY DEF RateInv, PacedAsAsked
<1>q. QED BY <1>1, StartUpInvariance, PTL DEF StartUpInv

(* Whatever sizes are asked for, and however a double rounds them, what     *)
(* minicap runs with fits into the display and into the size asked for, is  *)
(* not empty, and has the display's aspect ratio to half a pixel            *)
(* (Projection.hpp:205-242).                                                *)
THEOREM ProjectionFits == Spec => [](FitsRequest /\ KeepsAspect)
BY StartUpInvariance, PTL DEF StartUpInv, SizeInv

(* What main() goes on with is what the modules about the rest of it       *)
(* assume: sizes a display can be configured with, a rotation its switch    *)
(* knows, a period that can be slept, with skipping where there is one      *)
(* (minicap.cpp:247-262 and 311-392).                                       *)
THEOREM OptionsAreAsAssumed == Spec => []HandsOver
<1>1. SizeInv /\ RateInv => HandsOver
  <2> SUFFICES ASSUME SizeInv, RateInv, phase = "running" PROVE HandsOver
    BY DEF HandsOver
  <2>1. proj \in Projections /\ valid(proj)
    BY DEF SizeInv
  <2>2. /\ {RealSize, DesiredSize} \subseteq Geometry!Sizes
        /\ DesiredSize.width \in 1 .. RealSize.width
        /\ DesiredSize.height \in 1 .. RealSize.height
        /\ proj.rotation \in 0 .. 3
    BY <2>1 DEF RealSize, DesiredSize, Projections, valid, Geometry!Sizes
  <2>3. Geometry!InProportion(DesiredSize, RealSize)
    <3> DEFINE a == proj.virtualWidth * proj.realHeight
               b == proj.virtualHeight * proj.realWidth
    <3>1. a \in Int /\ b \in Int /\ proj.realWidth \in Nat /\ proj.realHeight \in Nat
      BY <2>1, Product DEF Projections
    <3>2. 2 * Distance(a, b) <= proj.realWidth \/ 2 * Distance(a, b) <= proj.realHeight
      BY DEF SizeInv, KeepsAspect
    <3> HIDE DEF a, b
    <3>3. \/ 2 * (a - b) \in -proj.realWidth .. proj.realWidth
          \/ 2 * (a - b) \in -proj.realHeight .. proj.realHeight
      BY <3>1, <3>2 DEF Distance
    <3>q. QED BY <3>3 DEF Geometry!InProportion, RealSize, DesiredSize, a, b
  <2>4. /\ rate = NoRate \/ PeriodIsInt(rate) => framePeriodMs \in Nat
        /\ framePeriodMs # 0 => "skipFrames" \in flags
    BY DEF RateInv
  <2>q. QED BY <2>2, <2>3, <2>4 DEF HandsOver
<1>q. QED BY <1>1, StartUpInvariance, PTL DEF StartUpInv

(* The argument of the only -P, whatever its length, is accepted only when  *)
(* it is <w>x<h>@<w>x<h>/{0|90|180|270}, and every size of it is then the   *)
(* number its digits write, modulo the width of uint32_t                    *)
(* (Projection.hpp:47-187).                                                 *)
THEOREM ArgumentsAreRead == Spec => []ParsedAsWritten
<1>1. ReadInv => ParsedAsWritten
  BY DEF ReadInv
<1>q. QED BY <1>1, StartUpInvariance, PTL DEF StartUpInv

(* No argument of any -P is given up on that could still be well-formed:    *)
(* what the parser has looked at when it refuses begins no well-formed text *)
(* at all, and an argument that ends too soon is not well-formed            *)
(* (Projection.hpp:47-187, minicap.cpp:231-239).                            *)
THEOREM NoneIsRefused ==
  Spec => []( /\ phase = "badCharacter" =>
                   \A u \in Seq(Characters) : Begins(text, u) => ~IsProjection(u)
              /\ phase = "cutShort" => ~IsProjection(text) )
<1>1. CourseInv => /\ phase = "badCharacter" =>
                        \A u \in Seq(Characters) : Begins(text, u) => ~IsProjection(u)
                   /\ phase = "cutShort" => ~IsProjection(text)
  BY RefusedBegins, CutShort
<1>q. QED BY <1>1, StartUpInvariance, PTL DEF StartUpInv

(* In particular none of the completions a run tries makes a refused text   *)
(* well-formed (Projection.hpp:47-187).                                     *)
THEOREM RefusalsAreFinal == Spec => []RefusesOnlyMalformed
<1>1. CourseInv => RefusesOnlyMalformed
  <2> SUFFICES ASSUME CourseInv PROVE RefusesOnlyMalformed
    OBVIOUS
  <2>1. ASSUME phase = "badCharacter", NEW rest \in Completions
        PROVE  ~IsProjection(text \o rest)
    <3>1. text \in Seq(Characters) /\ rest \in Seq(Characters)
      BY CompletionsAreTexts DEF CourseInv
    <3>2. text \o rest \in Seq(Characters) /\ Begins(text, text \o rest)
      BY <3>1 DEF Begins
    <3>q. QED BY <2>1, <3>2, RefusedBegins
  <2>q. QED BY <2>1, CutShort DEF RefusesOnlyMalformed
<1>q. QED BY <1>1, StartUpInvariance, PTL DEF StartUpInv

=============================================================================
