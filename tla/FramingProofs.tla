---------------------------- MODULE FramingProofs ----------------------------
(***************************************************************************)
(* Proofs about Framing: its inductive invariant, what the client reads,   *)
(* the output of a screenshot, and the channel of whole frames that the    *)
(* bytes implement.                                                        *)
(***************************************************************************)
EXTENDS FramingInvariant, SequenceTheorems, TLAPS

LEMMA FunctionIsSeq ==
  ASSUME NEW S, NEW n \in Nat, NEW p \in [1 .. n -> S]
  PROVE  p \in Seq(S) /\ Len(p) = n
<1>1. p \in Seq(S)
  BY SeqDef, Zenon
<1>2. Len(p) \in Nat /\ DOMAIN p = 1 .. Len(p) /\ DOMAIN p = 1 .. n
  BY <1>1, LenProperties
<1>q. QED BY <1>1, <1>2

LEMMA NothingIsShort ==
  Len(<<>>) = 0 /\ <<>> \in Seq(Int)
BY EmptySeq

LEMMA ConcatInts ==
  ASSUME NEW s \in Seq(Int), NEW t \in Seq(Int)
  PROVE  /\ s \o t \in Seq(Int) /\ Len(s) \in Nat /\ Len(t) \in Nat
         /\ Len(s \o t) = Len(s) + Len(t)
         /\ \A i \in 1 .. Len(s) : (s \o t)[i] = s[i]
         /\ \A i \in 1 .. Len(t) : (s \o t)[Len(s) + i] = t[i]
<1>1. Len(s) \in Nat /\ Len(t) \in Nat
  BY LenProperties
<1>2. /\ s \o t \in Seq(Int) /\ Len(s \o t) = Len(s) + Len(t)
      /\ \A i \in 1 .. Len(s) + Len(t) : (s \o t)[i] =
           IF i <= Len(s) THEN s[i] ELSE t[i - Len(s)]
  BY ConcatProperties
<1>q. QED BY <1>1, <1>2

-----------------------------------------------------------------------------
(* Numbers of four bytes.                                                  *)

LEMMA Euclid ==
  ASSUME NEW n \in Int, NEW d \in Nat \ {0}
  PROVE  /\ n \div d \in Int
         /\ n % d \in 0 .. d - 1
         /\ n = d * (n \div d) + (n % d)
OBVIOUS

LEMMA QuotientUnique ==
  ASSUME NEW n \in Int, NEW d \in Nat \ {0}, NEW q \in Int, NEW r \in 0 .. d - 1,
         n = d * q + r
  PROVE  n \div d = q /\ n % d = r
OBVIOUS

LEMMA TwiceDivided ==
  ASSUME NEW n \in Int, NEW d \in Nat \ {0}, NEW e \in Nat \ {0}
  PROVE  n \div (d * e) = (n \div d) \div e
<1> DEFINE q == n \div d
           r == n % d
           p == q \div e
           s == q % e
<1>1. q \in Int /\ r \in 0 .. d - 1 /\ n = d * q + r
  BY Euclid
<1>2. p \in Int /\ s \in 0 .. e - 1 /\ q = e * p + s
  BY <1>1, Euclid
<1> HIDE DEF q, r, p, s
<1>3. d * e \in Nat \ {0}
  OBVIOUS
<1>4. n = (d * e) * p + (d * s + r)
  BY <1>1, <1>2
<1>5. d * s + r \in 0 .. d * e - 1
  <2>1. d * s \in Nat /\ d * s <= d * (e - 1)
    BY <1>2
  <2>2. d * (e - 1) = d * e - d
    OBVIOUS
  <2>q. QED BY <1>1, <1>3, <2>1, <2>2
<1>6. n \div (d * e) = p
  BY <1>2, <1>3, <1>4, <1>5, QuotientUnique
<1>q. QED BY <1>6 DEF p, q

LEMMA SmallQuotient ==
  ASSUME NEW n \in Nat, NEW d \in Nat \ {0}, NEW m \in Nat, n < d * m
  PROVE  n \div d \in 0 .. m - 1
<1> DEFINE q == n \div d
           r == n % d
<1>1. q \in Int /\ r \in 0 .. d - 1 /\ n = d * q + r
  BY Euclid
<1> HIDE DEF q, r
<1>2. ASSUME q >= m PROVE FALSE
  <2>1. d * m <= d * q
    BY <1>1, <1>2
  <2>2. d * q \in Int /\ d * m \in Int
    BY <1>1
  <2>q. QED BY <1>1, <2>1, <2>2
<1>3. ASSUME q < 0 PROVE FALSE
  <2>1. d * q <= d * (-1)
    BY <1>1, <1>3
  <2>2. d * q \in Int /\ d * (-1) = -d
    BY <1>1
  <2>q. QED BY <1>1, <2>1, <2>2
<1>q. QED BY <1>1, <1>2, <1>3 DEF q

\* A number below b^4, byte by byte.
LEMMA FourDigits ==
  ASSUME NEW b \in Nat \ {0}, NEW v \in Nat, v < b * b * b * b
  PROVE  /\ v \div 1 = v
         /\ v = (v % b) + ((v \div b) % b) * b + ((v \div (b * b)) % b) * (b * b)
                  + ((v \div (b * b * b)) % b) * (b * b * b)
<1> DEFINE x == v \div b
           y == x \div b
           z == y \div b
           c == b * b
           d == b * b * b
<1>1. c \in Nat \ {0} /\ d \in Nat \ {0} /\ c = b * b /\ d = c * b
  OBVIOUS
<1>i. v \in Int /\ b \in Nat \ {0}
  OBVIOUS
<1>2. v \div c = y
  BY <1>i, TwiceDivided, Zenon
<1>3. v \div d = z
  <2> HIDE DEF c
  <2>1. v \div (c * b) = (v \div c) \div b
    BY <1>i, <1>1, TwiceDivided, Zenon
  <2>q. QED BY <1>1, <1>2, <2>1
<1>4. x \in Nat /\ x < b * c
  <2>1. v < b * (b * c)
    BY <1>1
  <2>2. b * c \in Nat
    BY <1>1
  <2> HIDE DEF c
  <2>q. QED BY <2>1, <2>2, SmallQuotient
<1>5. y \in Nat /\ y < c
  <2> HIDE DEF c, x
  <2>q. QED BY <1>1, <1>4, SmallQuotient
<1>6. z \in 0 .. b - 1
  <2> HIDE DEF y
  <2>q. QED BY <1>1, <1>5, SmallQuotient
<1>7. v % b \in 0 .. b - 1 /\ v = b * x + (v % b)
  BY Euclid
<1>8. x % b \in 0 .. b - 1 /\ x = b * y + (x % b)
  BY <1>4, Euclid
<1>9. y % b \in 0 .. b - 1 /\ y = b * z + (y % b)
  BY <1>5, Euclid
<1>10. z % b = z
  BY <1>6
<1>11. v = (v % b) + (x % b) * b + (y % b) * (b * b) + z * (b * b * b)
  <2> DEFINE p == v % b
             q == x % b
             r == y % b
  <2>1. p \in Int /\ q \in Int /\ r \in Int /\ x \in Int /\ y \in Int /\ z \in Int
    BY <1>4, <1>5, <1>6, <1>7, <1>8, <1>9
  <2>2. v = b * (b * (b * z + r) + q) + p
    BY <1>7, <1>8, <1>9
  <2> HIDE DEF p, q, r, x, y, z
  <2>3. b * (b * (b * z + r) + q) + p = p + q * b + r * (b * b) + z * (b * b * b)
    BY <2>1
  <2>q. QED BY <2>2, <2>3 DEF p, q, r
<1>12. v \div 1 = v
  OBVIOUS
<1>q. QED BY <1>2, <1>3, <1>10, <1>11, <1>12

\* The four bytes of a number make it up.
LEMMA WholeNumber ==
  ASSUME NEW v \in UInt32s
  PROVE  FirstBytes(v, 4) = v
<1>1. Base \in Nat \ {0} /\ v \in Nat /\ v < Base * Base * Base * Base
  BY BaseAssumption DEF UInt32s
<1>2. /\ Digit(v, 1) = v % Base
      /\ Digit(v, 2) = ((v \div Base) % Base) * Base
      /\ Digit(v, 3) = ((v \div (Base * Base)) % Base) * (Base * Base)
      /\ Digit(v, 4) = ((v \div (Base * Base * Base)) % Base) * (Base * Base * Base)
  <2>1. /\ putUInt32LE(v)[1] = (v \div 1) % Base
        /\ putUInt32LE(v)[2] = (v \div Base) % Base
        /\ putUInt32LE(v)[3] = (v \div (Base * Base)) % Base
        /\ putUInt32LE(v)[4] = (v \div (Base * Base * Base)) % Base
    BY DEF putUInt32LE, ByteWeight
  <2>2. v \div 1 = v /\ (v % Base) * 1 = v % Base
    BY <1>1
  <2>q. QED BY <2>1, <2>2 DEF Digit, ByteWeight
<1>3. v = Digit(v, 1) + Digit(v, 2) + Digit(v, 3) + Digit(v, 4)
  BY <1>1, <1>2, FourDigits, Zenon
<1>q. QED BY <1>3 DEF FirstBytes

LEMMA DigitsAreNumbers ==
  ASSUME NEW v \in Int
  PROVE  /\ putUInt32LE(v) \in Seq(Int) /\ Len(putUInt32LE(v)) = 4
         /\ \A i \in 1 .. 4 : ByteWeight[i] \in Int /\ Digit(v, i) \in Int
<1>1. Base \in Nat \ {0} /\ Base * Base \in Nat \ {0} /\ Base * Base * Base \in Nat \ {0}
  BY BaseAssumption
<1>2. \A i \in 1 .. 4 : ByteWeight[i] \in Nat \ {0}
  BY <1>1 DEF ByteWeight
<1>3. \A i \in 1 .. 4 : (v \div ByteWeight[i]) % Base \in Int
  BY <1>1, <1>2
<1>4. /\ putUInt32LE(v) = [i \in 1 .. 4 |-> (v \div ByteWeight[i]) % Base]
      /\ \A i \in 1 .. 4 : putUInt32LE(v)[i] \in Int
  BY <1>3 DEF putUInt32LE
<1> DEFINE p == putUInt32LE(v)
<1>5. p \in [1 .. 4 -> Int]
  BY <1>3 DEF putUInt32LE
<1> HIDE DEF p
<1>6. p \in Seq(Int) /\ Len(p) = 4
  <2>1. 4 \in Nat
    OBVIOUS
  <2>q. QED BY <1>5, <2>1, FunctionIsSeq, ZenonT(30)
<1>7. \A i \in 1 .. 4 : Digit(v, i) \in Int
  <2> SUFFICES ASSUME NEW i \in 1 .. 4 PROVE putUInt32LE(v)[i] * ByteWeight[i] \in Int
    BY DEF Digit
  <2>1. putUInt32LE(v)[i] \in Int /\ ByteWeight[i] \in Int
    BY <1>2, <1>4
  <2>q. QED BY <2>1
<1>q. QED BY <1>2, <1>6, <1>7, SMTT(20) DEF p

\* The byte after the first n adds what it counts.
LEMMA NextByte ==
  ASSUME NEW v \in UInt32s, NEW n \in 0 .. 3
  PROVE  FirstBytes(v, n + 1) = FirstBytes(v, n) + putUInt32LE(v)[n + 1] * ByteWeight[n + 1]
<1>1. v \in Int
  BY BaseAssumption DEF UInt32s
<1>2. \A i \in 1 .. 4 : Digit(v, i) \in Int
  BY <1>1, DigitsAreNumbers
<1>3. FirstBytes(v, n + 1) = FirstBytes(v, n) + Digit(v, n + 1)
  BY <1>2 DEF FirstBytes
<1>q. QED BY <1>3 DEF Digit

-----------------------------------------------------------------------------
(* The messages.                                                           *)

LEMMA MessageIsSeq ==
  ASSUME NEW f \in Seq(Int)
  PROVE  /\ Message(f) \in Seq(Int) /\ Len(f) \in Nat
         /\ Len(Message(f)) = MessageLen(f) /\ MessageLen(f) \in Nat
         /\ \A i \in 1 .. 4 : Message(f)[i] = putUInt32LE(Len(f))[i]
         /\ \A i \in 5 .. MessageLen(f) : Message(f)[i] = f[i - 4]
<1> DEFINE p == putUInt32LE(Len(f))
<1>1. Len(f) \in Nat
  BY LenProperties
<1>2. p \in Seq(Int) /\ Len(p) = 4
  BY <1>1, DigitsAreNumbers
<1> HIDE DEF p
<1>3. /\ p \o f \in Seq(Int) /\ Len(p \o f) = 4 + Len(f)
      /\ \A i \in 1 .. 4 + Len(f) : (p \o f)[i] = IF i <= 4 THEN p[i] ELSE f[i - 4]
  <2>1. /\ p \o f \in Seq(Int) /\ Len(p \o f) = Len(p) + Len(f)
        /\ \A i \in 1 .. Len(p) : (p \o f)[i] = p[i]
        /\ \A i \in 1 .. Len(f) : (p \o f)[Len(p) + i] = f[i]
    BY <1>2, ConcatInts, Zenon
  <2>2. ASSUME NEW i \in 5 .. 4 + Len(f)
        PROVE  (p \o f)[i] = f[i - 4]
    <3>1. i - 4 \in 1 .. Len(f) /\ Len(p) + (i - 4) = i
      BY <1>1, <1>2
    <3>2. (p \o f)[Len(p) + (i - 4)] = f[i - 4]
      BY <2>1, <3>1, Zenon
    <3>q. QED BY <3>1, <3>2, Zenon
  <2>q. QED BY <1>1, <1>2, <2>1, <2>2, SMTT(20)
<1>q. QED BY <1>1, <1>3 DEF Message, MessageLen, p

LEMMA JpegIsSeq ==
  ASSUME NEW k \in Int, NEW n \in Sizes
  PROVE  /\ Jpeg(k, n) \in Seq(Int) /\ Len(Jpeg(k, n)) = n
         /\ n \in 2 .. BufSize /\ IsPrefix(JpegHeader, Jpeg(k, n))
<1> DEFINE b == [i \in 1 .. n - 2 |-> (k + i) % Base]
<1>1. n \in 2 .. BufSize /\ BufSize \in Nat /\ n - 2 \in Nat /\ Base \in Nat \ {0}
  BY FramingAssumption, EncoderAssumption, BaseAssumption
<1>2. b \in [1 .. n - 2 -> Int]
  BY <1>1
<1> HIDE DEF b
<1>3. b \in Seq(Int) /\ Len(b) = n - 2
  BY <1>1, <1>2, FunctionIsSeq
<1>4. JpegHeader \in Seq(Int) /\ Len(JpegHeader) = 2
  <2>1. PICK x \in Bytes, y \in Bytes : JpegHeader = <<x, y>>
    BY FramingAssumption
  <2>2. x \in Int /\ y \in Int
    BY <1>1 DEF Bytes
  <2>q. QED BY <2>1, <2>2
<1>5. /\ JpegHeader \o b \in Seq(Int) /\ Len(JpegHeader \o b) = n
      /\ \A i \in 1 .. 2 : (JpegHeader \o b)[i] = JpegHeader[i]
  <2>1. /\ JpegHeader \o b \in Seq(Int) /\ Len(JpegHeader \o b) = Len(JpegHeader) + Len(b)
        /\ \A i \in 1 .. Len(JpegHeader) : (JpegHeader \o b)[i] = JpegHeader[i]
    BY <1>3, <1>4, ConcatInts, Zenon
  <2>q. QED BY <1>1, <1>3, <1>4, <2>1
<1>6. SubSeq(JpegHeader, 1, 2) = SubSeq(JpegHeader \o b, 1, 2)
  BY <1>3, <1>4, <1>5, SubSeqOfConcat1
<1>7. IsPrefix(JpegHeader, JpegHeader \o b)
  BY <1>1, <1>4, <1>5, <1>6 DEF IsPrefix
<1>q. QED BY <1>1, <1>5, <1>7 DEF Jpeg, b

\* The constants of the banner are numbers of one and of four bytes.
LEMMA BannerFields ==
  /\ {Pid, RealWidth, RealHeight, VirtualWidth, VirtualHeight} \subseteq UInt32s
  /\ {Orientation, Quirks} \subseteq Int /\ UInt32s \subseteq Int
<1>1. Base \in Int /\ Base * Base * Base * Base \in Int
  BY BaseAssumption
<1>q. QED BY <1>1, FramingAssumption DEF UInt32s, Bytes

LEMMA BannerIsSeq ==
  /\ BannerBytes \in Seq(Int) /\ Len(BannerBytes) = 24
  /\ BannerBytes[1] = BANNER_VERSION /\ BannerBytes[2] = BANNER_SIZE
  /\ \A i \in 1 .. 4 : /\ BannerBytes[2 + i] = putUInt32LE(Pid)[i]
                       /\ BannerBytes[6 + i] = putUInt32LE(RealWidth)[i]
                       /\ BannerBytes[10 + i] = putUInt32LE(RealHeight)[i]
                       /\ BannerBytes[14 + i] = putUInt32LE(VirtualWidth)[i]
                       /\ BannerBytes[18 + i] = putUInt32LE(VirtualHeight)[i]
  /\ BannerBytes[23] = Orientation /\ BannerBytes[24] = Quirks
<1> DEFINE h == <<BANNER_VERSION, BANNER_SIZE>>
           p == putUInt32LE(Pid)
           q == putUInt32LE(RealWidth)
           r == putUInt32LE(RealHeight)
           s == putUInt32LE(VirtualWidth)
           t == putUInt32LE(VirtualHeight)
           e == <<Orientation, Quirks>>
<1>1. /\ h \in Seq(Int) /\ Len(h) = 2 /\ h[1] = BANNER_VERSION /\ h[2] = BANNER_SIZE
      /\ e \in Seq(Int) /\ Len(e) = 2 /\ e[1] = Orientation /\ e[2] = Quirks
  BY BannerFields DEF BANNER_VERSION, BANNER_SIZE
<1>2. /\ p \in Seq(Int) /\ Len(p) = 4 /\ q \in Seq(Int) /\ Len(q) = 4
      /\ r \in Seq(Int) /\ Len(r) = 4 /\ s \in Seq(Int) /\ Len(s) = 4
      /\ t \in Seq(Int) /\ Len(t) = 4
  BY BannerFields, DigitsAreNumbers
<1>3. BannerBytes = h \o p \o q \o r \o s \o t \o e
  BY DEF BannerBytes
<1> HIDE DEF h, p, q, r, s, t, e
<1> DEFINE hp == h \o p
           hq == hp \o q
           hr == hq \o r
           hs == hr \o s
           ht == hs \o t
           he == ht \o e
<1>4. /\ hp \in Seq(Int) /\ Len(hp) = 6
      /\ \A i \in 1 .. 2 : hp[i] = h[i]
      /\ \A i \in 1 .. 4 : hp[2 + i] = p[i]
  <2>1. h \in Seq(Int) /\ p \in Seq(Int)
    BY <1>1, <1>2
  <2>2. /\ hp \in Seq(Int) /\ Len(hp) = Len(h) + Len(p)
        /\ \A i \in 1 .. Len(h) : hp[i] = h[i]
        /\ \A i \in 1 .. Len(p) : hp[Len(h) + i] = p[i]
    BY <2>1, ConcatInts, Zenon
  <2> HIDE DEF hp
  <2>q. QED BY <1>1, <1>2, <2>2
<1> HIDE DEF hp
<1>5. /\ hq \in Seq(Int) /\ Len(hq) = 10
      /\ \A i \in 1 .. 6 : hq[i] = hp[i]
      /\ \A i \in 1 .. 4 : hq[6 + i] = q[i]
  <2>1. hp \in Seq(Int) /\ q \in Seq(Int)
    BY <1>2, <1>4
  <2>2. /\ hq \in Seq(Int) /\ Len(hq) = Len(hp) + Len(q)
        /\ \A i \in 1 .. Len(hp) : hq[i] = hp[i]
        /\ \A i \in 1 .. Len(q) : hq[Len(hp) + i] = q[i]
    BY <2>1, ConcatInts, Zenon
  <2> HIDE DEF hq
  <2>q. QED BY <1>2, <1>4, <2>2
<1> HIDE DEF hq
<1>6. /\ hr \in Seq(Int) /\ Len(hr) = 14
      /\ \A i \in 1 .. 10 : hr[i] = hq[i]
      /\ \A i \in 1 .. 4 : hr[10 + i] = r[i]
  <2>1. hq \in Seq(Int) /\ r \in Seq(Int)
    BY <1>2, <1>5
  <2>2. /\ hr \in Seq(Int) /\ Len(hr) = Len(hq) + Len(r)
        /\ \A i \in 1 .. Len(hq) : hr[i] = hq[i]
        /\ \A i \in 1 .. Len(r) : hr[Len(hq) + i] = r[i]
    BY <2>1, ConcatInts, Zenon
  <2> HIDE DEF hr
  <2>q. QED BY <1>2, <1>5, <2>2
<1> HIDE DEF hr
<1>7. /\ hs \in Seq(Int) /\ Len(hs) = 18
      /\ \A i \in 1 .. 14 : hs[i] = hr[i]
      /\ \A i \in 1 .. 4 : hs[14 + i] = s[i]
  <2>1. hr \in Seq(Int) /\ s \in Seq(Int)
    BY <1>2, <1>6
  <2>2. /\ hs \in Seq(Int) /\ Len(hs) = Len(hr) + Len(s)
        /\ \A i \in 1 .. Len(hr) : hs[i] = hr[i]
        /\ \A i \in 1 .. Len(s) : hs[Len(hr) + i] = s[i]
    BY <2>1, ConcatInts, Zenon
  <2> HIDE DEF hs
  <2>q. QED BY <1>2, <1>6, <2>2
<1> HIDE DEF hs
<1>8. /\ ht \in Seq(Int) /\ Len(ht) = 22
      /\ \A i \in 1 .. 18 : ht[i] = hs[i]
      /\ \A i \in 1 .. 4 : ht[18 + i] = t[i]
  <2>1. hs \in Seq(Int) /\ t \in Seq(Int)
    BY <1>2, <1>7
  <2>2. /\ ht \in Seq(Int) /\ Len(ht) = Len(hs) + Len(t)
        /\ \A i \in 1 .. Len(hs) : ht[i] = hs[i]
        /\ \A i \in 1 .. Len(t) : ht[Len(hs) + i] = t[i]
    BY <2>1, ConcatInts, Zenon
  <2> HIDE DEF ht
  <2>q. QED BY <1>2, <1>7, <2>2
<1> HIDE DEF ht
<1>9. /\ he \in Seq(Int) /\ Len(he) = 24
      /\ \A i \in 1 .. 22 : he[i] = ht[i]
      /\ \A i \in 1 .. 2 : he[22 + i] = e[i]
  <2>1. ht \in Seq(Int) /\ e \in Seq(Int)
    BY <1>1, <1>8
  <2>2. /\ he \in Seq(Int) /\ Len(he) = Len(ht) + Len(e)
        /\ \A i \in 1 .. Len(ht) : he[i] = ht[i]
        /\ \A i \in 1 .. Len(e) : he[Len(ht) + i] = e[i]
    BY <2>1, ConcatInts, Zenon
  <2> HIDE DEF he
  <2>q. QED BY <1>1, <1>8, <2>2
<1>10. BannerBytes = he
  BY <1>3 DEF he, ht, hs, hr, hq, hp
<1> HIDE DEF he
<1>11. /\ \A i \in 1 .. 18 : ht[i] = hs[i]
       /\ \A i \in 1 .. 14 : ht[i] = hr[i]
       /\ \A i \in 1 .. 10 : ht[i] = hq[i]
       /\ \A i \in 1 .. 6 : ht[i] = hp[i]
       /\ \A i \in 1 .. 2 : ht[i] = hp[i] /\ hp[i] = h[i]
  <2>1. /\ \A i \in 1 .. 2 : hp[i] = h[i]
        /\ \A i \in 1 .. 6 : hq[i] = hp[i]
        /\ \A i \in 1 .. 10 : hr[i] = hq[i]
        /\ \A i \in 1 .. 14 : hs[i] = hr[i]
        /\ \A i \in 1 .. 18 : ht[i] = hs[i]
    BY <1>4, <1>5, <1>6, <1>7, <1>8, Zenon
  <2>q. QED BY <2>1
<1>12. \A i \in 1 .. 22 : he[i] = ht[i]
  BY <1>9
<1>13. ASSUME NEW i \in 1 .. 4
       PROVE  /\ he[2 + i] = p[i] /\ he[6 + i] = q[i] /\ he[10 + i] = r[i]
              /\ he[14 + i] = s[i] /\ he[18 + i] = t[i]
  <2>1. /\ 2 + i \in 1 .. 6 /\ 6 + i \in 1 .. 10 /\ 10 + i \in 1 .. 14
        /\ 14 + i \in 1 .. 18
    OBVIOUS
  <2>2. /\ ht[2 + i] = hp[2 + i] /\ ht[6 + i] = hq[6 + i] /\ ht[10 + i] = hr[10 + i]
        /\ ht[14 + i] = hs[14 + i]
    BY <1>11, <2>1, Zenon
  <2>4. /\ hp[2 + i] = p[i] /\ hq[6 + i] = q[i] /\ hr[10 + i] = r[i]
        /\ hs[14 + i] = s[i] /\ ht[18 + i] = t[i]
    BY <1>4, <1>5, <1>6, <1>7, <1>8
  <2>3. {2 + i, 6 + i, 10 + i, 14 + i, 18 + i} \subseteq 1 .. 22
    OBVIOUS
  <2>q. QED BY <1>12, <2>2, <2>3, <2>4
<1>14. he[1] = BANNER_VERSION /\ he[2] = BANNER_SIZE
  <2>1. ht[1] = hp[1] /\ ht[2] = hp[2] /\ hp[1] = h[1] /\ hp[2] = h[2]
    BY <1>11
  <2>2. he[1] = ht[1] /\ he[2] = ht[2]
    BY <1>12
  <2>q. QED BY <1>1, <2>1, <2>2
<1>15. he[23] = Orientation /\ he[24] = Quirks
  <2>1. he[22 + 1] = e[1] /\ he[22 + 2] = e[2]
    BY <1>9
  <2>q. QED BY <1>1, <2>1
<1>q. QED BY <1>9, <1>10, <1>13, <1>14, <1>15 DEF p, q, r, s, t

LEMMA BannerNotEmpty ==
  BannerBytes # <<>>
<1>1. Len(BannerBytes) = 24
  BY BannerIsSeq
<1>q. QED BY <1>1, NothingIsShort

-----------------------------------------------------------------------------
(* How the bytes of a connection lie, when some are read or given up, when *)
(* a message has been sent and when one is added.                          *)

\* Sequences of frames.
Bodies == Seq(Seq(Int))

LEMMA OffsetsInOrder ==
  ASSUME NEW F \in Bodies, F # <<>>, NEW o, Follow(F, o)
  PROVE  /\ Len(F) \in Nat \ {0}
         /\ \A k \in 1 .. Len(F) : /\ o[k] \in Int /\ MessageLen(F[k]) \in Nat
                                   /\ o[1] <= o[k]
                                   /\ k < Len(F) => o[k] + MessageLen(F[k]) <= o[Len(F)]
<1>1. Len(F) \in Nat \ {0} /\ \A k \in 1 .. Len(F) : F[k] \in Seq(Int)
  BY ElementOfSeq, EmptySeq DEF Bodies
<1>2. \A k \in 1 .. Len(F) : o[k] \in Int /\ MessageLen(F[k]) \in Nat
  BY <1>1, MessageIsSeq DEF Follow
<1>3. \A k, m \in 1 .. Len(F) : k < m => o[k] + MessageLen(F[k]) <= o[m]
  BY DEF Follow
<1>4. \A k \in 1 .. Len(F) : o[1] <= o[k]
  <2> SUFFICES ASSUME NEW k \in 1 .. Len(F), k # 1 PROVE o[1] <= o[k]
    BY <1>1, <1>2
  <2>1. 1 \in 1 .. Len(F) /\ 1 < k
    BY <1>1
  <2>2. o[1] + MessageLen(F[1]) <= o[k]
    BY <1>3, <2>1
  <2>q. QED BY <1>2, <2>1, <2>2
<1>q. QED BY <1>1, <1>2, <1>3, <1>4

\* What is left of u without its first d bytes.
Dropped(u, w, d) ==
  /\ d \in 0 .. Len(u) /\ Len(w) = Len(u) - d
  /\ \A j \in 1 .. Len(w) : w[j] = u[j + d]

LEMMA LaidOutDropped ==
  ASSUME NEW u \in Seq(Int), NEW w \in Seq(Int), NEW d \in Int, Dropped(u, w, d),
         NEW F \in Bodies, F # <<>>, NEW o, LaidOut(u, F, o)
  PROVE  LaidOut(w, F, [k \in 1 .. Len(F) |-> o[k] - d])
<1> DEFINE e == [k \in 1 .. Len(F) |-> o[k] - d]
<1>1. /\ Len(F) \in Nat \ {0}
      /\ \A k \in 1 .. Len(F) : o[k] \in Int /\ MessageLen(F[k]) \in Nat
  BY OffsetsInOrder DEF LaidOut
<1>2. Len(u) \in Nat /\ Len(w) \in Nat /\ d \in Nat /\ Len(w) = Len(u) - d
  BY LenProperties DEF Dropped
<1>8. \A j \in 1 .. Len(w) : w[j] = u[j + d]
  BY DEF Dropped
<1>3. \A k \in 1 .. Len(F) : e[k] = o[k] - d /\ e[k] \in Int
  BY <1>1, <1>2
<1>4. e \in [1 .. Len(F) -> Int]
  BY <1>1, <1>2
<1> HIDE DEF e
<1>5. Follow(F, e)
  <2>1. ASSUME NEW k \in 1 .. Len(F) - 1 PROVE e[k + 1] = e[k] + MessageLen(F[k])
    <3>1. k \in 1 .. Len(F) /\ k + 1 \in 1 .. Len(F) /\ o[k + 1] = o[k] + MessageLen(F[k])
      BY <1>1 DEF LaidOut, Follow
    <3>2. /\ e[k] = o[k] - d /\ e[k + 1] = o[k + 1] - d
          /\ o[k] \in Int /\ o[k + 1] \in Int /\ MessageLen(F[k]) \in Int
      BY <1>1, <1>3, <3>1, SMTT(20)
    <3>q. QED BY <1>2, <3>1, <3>2
  <2>2. ASSUME NEW k \in 1 .. Len(F), NEW m \in 1 .. Len(F), k < m
        PROVE  e[k] + MessageLen(F[k]) <= e[m]
    <3>1. o[k] + MessageLen(F[k]) <= o[m]
      BY <2>2 DEF LaidOut, Follow
    <3>2. /\ e[k] = o[k] - d /\ e[m] = o[m] - d
          /\ o[k] \in Int /\ o[m] \in Int /\ MessageLen(F[k]) \in Int
      BY <1>1, <1>3
    <3>q. QED BY <3>1, <3>2
  <2>q. QED BY <1>4, <2>1, <2>2 DEF Follow
<1>6. EndsBanner(w, e[1])
  <2> SUFFICES ASSUME NEW j \in 1 .. Len(w), j <= e[1]
               PROVE  w[j] = BannerBytes[j - e[1] + BANNER_SIZE]
    BY DEF EndsBanner
  <2>1. e[1] = o[1] - d /\ o[1] \in Int /\ e[1] \in Int
    BY <1>1, <1>3
  <2>2. j + d \in 1 .. Len(u) /\ j + d <= o[1]
    <3>1. j + d \in 1 .. Len(u) /\ j \in Int
      BY <1>2
    <3>2. j <= o[1] - d
      BY <2>1
    <3>q. QED BY <2>1, <3>1, <3>2
  <2>3. u[j + d] = BannerBytes[(j + d) - o[1] + BANNER_SIZE]
    BY <2>2 DEF LaidOut, EndsBanner
  <2>4. (j + d) - o[1] + BANNER_SIZE = j - e[1] + BANNER_SIZE
    <3>1. j \in Int /\ BANNER_SIZE \in Int
      BY DEF BANNER_SIZE
    <3>q. QED BY <2>1, <3>1
  <2>q. QED BY <1>8, <2>3, <2>4
<1>7. ASSUME NEW k \in 1 .. Len(F) PROVE Carries(w, F[k], e[k])
  <2> SUFFICES ASSUME NEW j \in 1 .. Len(w), j - e[k] \in 1 .. MessageLen(F[k])
               PROVE  w[j] = Message(F[k])[j - e[k]]
    BY DEF Carries
  <2>1. e[k] = o[k] - d /\ o[k] \in Int /\ e[k] \in Int
    BY <1>1, <1>3
  <2>2. j + d \in 1 .. Len(u) /\ (j + d) - o[k] = j - e[k]
    <3>1. j \in Int /\ MessageLen(F[k]) \in Nat
      BY <1>1, <1>2
    <3>2. (j + d) - o[k] = j - e[k]
      <4>1. \A x, y, z \in Int : x = y - d => (z + d) - y = z - x
        OBVIOUS
      <4>q. QED BY <2>1, <3>1, <4>1
    <3>3. j + d \in 1 .. Len(u)
      BY <1>2
    <3>q. QED BY <3>2, <3>3
  <2>3. u[j + d] = Message(F[k])[(j + d) - o[k]]
    BY <2>2 DEF LaidOut, Carries
  <2>q. QED BY <1>8, <2>2, <2>3
<1>q. QED BY <1>5, <1>6, <1>7 DEF LaidOut, e

LEMMA LaidOutCut ==
  ASSUME NEW u \in Seq(Int), NEW w \in Seq(Int), Len(w) <= Len(u),
         \A j \in 1 .. Len(w) : w[j] = u[j],
         NEW F, NEW o, LaidOut(u, F, o)
  PROVE  LaidOut(w, F, o)
<1>1. \A j \in 1 .. Len(w) : j \in 1 .. Len(u)
  BY LenProperties
<1>q. QED BY <1>1 DEF LaidOut, EndsBanner, Carries

LEMMA LaidOutSent ==
  ASSUME NEW u \in Seq(Int), NEW F \in Bodies, F # <<>>, NEW f \in Seq(Int),
         NEW o, LaidOut(u, F, o), Len(u) <= o[Len(F)] + MessageLen(F[Len(F)])
  PROVE  LaidOut(u, Append(F, f),
                 [k \in 1 .. Len(F) + 1 |->
                    IF k <= Len(F) THEN o[k] ELSE o[Len(F)] + MessageLen(F[Len(F)])])
<1> DEFINE n == Len(F)
           G == Append(F, f)
           last == o[n] + MessageLen(F[n])
           e == [k \in 1 .. n + 1 |-> IF k <= n THEN o[k] ELSE last]
<1>1. /\ n \in Nat \ {0}
      /\ \A k \in 1 .. n : /\ o[k] \in Int /\ MessageLen(F[k]) \in Nat
                           /\ k < n => o[k] + MessageLen(F[k]) <= o[n]
  BY OffsetsInOrder DEF LaidOut
<1>2. /\ Len(G) = n + 1 /\ G[n + 1] = f
      /\ \A k \in 1 .. n : G[k] = F[k]
  BY AppendProperties DEF Bodies
<1>3. last \in Int
  BY <1>1
<1>4. e[n + 1] = last /\ \A k \in 1 .. n : e[k] = o[k]
  BY <1>1
<1>5. e \in [1 .. n + 1 -> Int]
  BY <1>1, <1>3
<1>6. Len(u) <= last /\ Len(u) \in Nat
  BY LenProperties
<1> HIDE DEF G, e
<1>7. Follow(G, e)
  <2>1. ASSUME NEW k \in 1 .. n PROVE e[k + 1] = e[k] + MessageLen(G[k])
    <3>1. CASE k = n
      BY <1>1, <1>2, <1>4, <3>1
    <3>2. CASE k # n
      <4>1. k \in 1 .. n - 1 /\ k + 1 \in 1 .. n
        BY <1>1, <3>2
      <4>2. o[k + 1] = o[k] + MessageLen(F[k])
        BY <4>1 DEF LaidOut, Follow
      <4>q. QED BY <1>2, <1>4, <4>1, <4>2
    <3>q. QED BY <3>1, <3>2
  <2>2. ASSUME NEW k \in 1 .. n + 1, NEW m \in 1 .. n + 1, k < m
        PROVE  e[k] + MessageLen(G[k]) <= e[m]
    <3>1. k \in 1 .. n /\ G[k] = F[k] /\ e[k] = o[k]
      BY <1>1, <1>2, <1>4, <2>2
    <3>2. CASE m = n + 1
      <4>1. k = n \/ o[k] + MessageLen(F[k]) <= o[n]
        BY <1>1, <3>1
      <4>2. o[k] + MessageLen(F[k]) <= last
        <5>1. /\ o[n] \in Int /\ MessageLen(F[n]) \in Nat
              /\ o[k] \in Int /\ MessageLen(F[k]) \in Nat
          BY <1>1, <3>1
        <5>q. QED BY <4>1, <5>1
      <4>q. QED BY <1>4, <3>1, <3>2, <4>2
    <3>3. CASE m # n + 1
      <4>1. m \in 1 .. n
        BY <1>1, <3>3
      <4>2. o[k] + MessageLen(F[k]) <= o[m]
        BY <2>2, <3>1, <4>1 DEF LaidOut, Follow
      <4>q. QED BY <1>4, <3>1, <4>1, <4>2
    <3>q. QED BY <3>2, <3>3
  <2>3. Len(G) - 1 = n
    BY <1>1, <1>2
  <2>q. QED BY <1>2, <1>5, <2>1, <2>2, <2>3 DEF Follow
<1>8. EndsBanner(u, e[1])
  <2>1. e[1] = o[1]
    BY <1>1, <1>4
  <2>q. QED BY <2>1 DEF LaidOut
<1>9. ASSUME NEW k \in 1 .. n + 1 PROVE Carries(u, G[k], e[k])
  <2>1. CASE k = n + 1
    <3>1. \A j \in 1 .. Len(u) : ~(j - last >= 1)
      BY <1>3, <1>6
    <3>q. QED BY <1>2, <1>4, <2>1, <3>1 DEF Carries
  <2>2. CASE k # n + 1
    <3>1. k \in 1 .. n
      BY <1>1, <2>2
    <3>q. QED BY <1>2, <1>4, <3>1 DEF LaidOut
  <2>q. QED BY <2>1, <2>2
<1>q. QED BY <1>2, <1>7, <1>8, <1>9 DEF LaidOut, G, e

LEMMA LaidOutAdded ==
  ASSUME NEW u \in Seq(Int), NEW S \in Bodies, NEW x \in Seq(Int),
         NEW f \in Seq(Int),
         NEW o, LaidOut(u, Append(S, x), o), o[Len(S) + 1] = Len(u)
  PROVE  LaidOut(u \o Message(f), Append(S, f), o)
<1> DEFINE n == Len(S) + 1
           F == Append(S, x)
           G == Append(S, f)
           w == u \o Message(f)
<1>1. /\ F \in Bodies /\ F # <<>> /\ Len(F) = n /\ Len(G) = n /\ n \in Nat \ {0}
      /\ F[n] = x /\ G[n] = f /\ \A k \in 1 .. n - 1 : F[k] = S[k] /\ G[k] = S[k]
  BY AppendProperties, LenProperties, SMTT(20) DEF Bodies
<1>2. /\ Message(f) \in Seq(Int) /\ Len(Message(f)) = MessageLen(f) /\ MessageLen(f) \in Nat
  BY MessageIsSeq
<1>3. /\ w \in Seq(Int) /\ Len(w) = Len(u) + MessageLen(f) /\ Len(u) \in Nat
      /\ \A j \in 1 .. Len(u) : w[j] = u[j]
      /\ \A j \in 1 .. MessageLen(f) : w[Len(u) + j] = Message(f)[j]
  <2>1. /\ w \in Seq(Int) /\ Len(u) \in Nat /\ Len(w) = Len(u) + Len(Message(f))
        /\ \A j \in 1 .. Len(u) : w[j] = u[j]
        /\ \A j \in 1 .. Len(Message(f)) : w[Len(u) + j] = Message(f)[j]
    BY <1>2, ConcatInts, Zenon
  <2>q. QED BY <1>2, <2>1
<1> HIDE DEF n, F, G, w
<1>4. \A k \in 1 .. n : /\ o[k] \in Int /\ MessageLen(F[k]) \in Nat /\ o[1] <= o[k]
                        /\ k < n => o[k] + MessageLen(F[k]) <= o[n]
  BY <1>1, OffsetsInOrder DEF LaidOut, F
<1>5. o[n] = Len(u)
  BY DEF n
<1>6. \A k \in 1 .. n : k # n => k \in 1 .. n - 1 /\ k < n /\ G[k] = F[k]
  BY <1>1
<1>7. Follow(F, o) /\ EndsBanner(u, o[1]) /\ \A k \in 1 .. n : Carries(u, F[k], o[k])
  BY <1>1 DEF LaidOut, F
<1>8. Follow(G, o)
  <2>1. ASSUME NEW k \in 1 .. n - 1 PROVE o[k + 1] = o[k] + MessageLen(G[k])
    BY <1>1, <1>7 DEF Follow
  <2>2. ASSUME NEW k \in 1 .. n, NEW m \in 1 .. n, k < m
        PROVE  o[k] + MessageLen(G[k]) <= o[m]
    <3>1. k # n
      BY <1>1, <2>2
    <3>q. QED BY <1>1, <1>6, <1>7, <2>2, <3>1 DEF Follow
  <2>q. QED BY <1>1, <1>7, <2>1, <2>2 DEF Follow
<1>9. EndsBanner(w, o[1])
  <2> SUFFICES ASSUME NEW j \in 1 .. Len(w), j <= o[1]
               PROVE  w[j] = BannerBytes[j - o[1] + BANNER_SIZE]
    BY DEF EndsBanner
  <2>1. j \in 1 .. Len(u)
    <3>1. n \in 1 .. n /\ o[1] \in Int /\ o[1] <= Len(u)
      BY <1>1, <1>4, <1>5
    <3>q. QED BY <1>3, <3>1
  <2>q. QED BY <1>3, <1>7, <2>1 DEF EndsBanner
<1>10. ASSUME NEW k \in 1 .. n PROVE Carries(w, G[k], o[k])
  <2> SUFFICES ASSUME NEW j \in 1 .. Len(w), j - o[k] \in 1 .. MessageLen(G[k])
               PROVE  w[j] = Message(G[k])[j - o[k]]
    BY DEF Carries
  <2>1. CASE k = n
    <3>1. j - Len(u) \in 1 .. MessageLen(f) /\ Len(u) + (j - Len(u)) = j
      <4>1. MessageLen(G[k]) = MessageLen(f) /\ o[k] = Len(u)
        BY <1>1, <1>5, <2>1
      <4>2. j \in Int /\ j - Len(u) \in 1 .. MessageLen(f)
        BY <1>3, <4>1
      <4>q. QED BY <1>3, <4>2
    <3>2. w[Len(u) + (j - Len(u))] = Message(f)[j - Len(u)]
      BY <1>3, <3>1
    <3>q. QED BY <1>1, <1>5, <2>1, <3>1, <3>2
  <2>2. CASE k # n
    <3>1. G[k] = F[k] /\ o[k] + MessageLen(F[k]) <= Len(u)
      BY <1>4, <1>5, <1>6, <2>2
    <3>2. j \in 1 .. Len(u)
      <4>1. o[k] \in Int /\ MessageLen(F[k]) \in Nat
        BY <1>4
      <4>2. j - o[k] <= MessageLen(F[k]) /\ j \in Nat /\ j >= 1
        BY <1>2, <1>3, <3>1
      <4>3. Len(u) \in Nat
        BY <1>3, Zenon
      <4>q. QED BY <3>1, <4>1, <4>2, <4>3
    <3>q. QED BY <1>3, <1>7, <3>1, <3>2 DEF Carries
  <2>q. QED BY <2>1, <2>2
<1>q. QED BY <1>1, <1>8, <1>9, <1>10 DEF LaidOut, G, w

LEMMA LaidOutFirst ==
  ASSUME NEW f \in Seq(Int)
  PROVE  LaidOut(BannerBytes, <<f>>, [k \in 1 .. 1 |-> BANNER_SIZE])
<1> DEFINE o == [k \in 1 .. 1 |-> BANNER_SIZE]
<1>1. Len(<<f>>) = 1 /\ <<f>>[1] = f /\ o[1] = 24 /\ BANNER_SIZE = 24
  BY DEF BANNER_SIZE
<1>2. Len(BannerBytes) = 24
  BY BannerIsSeq
<1>3. o \in [1 .. 1 -> Int]
  BY <1>1
<1> HIDE DEF o
<1>4. Follow(<<f>>, o)
  BY <1>1, <1>3 DEF Follow
<1>5. EndsBanner(BannerBytes, o[1])
  BY <1>1, <1>2 DEF EndsBanner
<1>6. Carries(BannerBytes, f, o[1])
  <2>1. \A j \in 1 .. 24 : ~(j - 24 >= 1)
    OBVIOUS
  <2>q. QED BY <1>1, <1>2, <2>1 DEF Carries
<1>q. QED BY <1>1, <1>4, <1>5, <1>6 DEF LaidOut, o

-----------------------------------------------------------------------------
(* The encoder's buffer.                                                   *)

LEMMA Overwritten ==
  ASSUME NEW s \in Seq(Int), NEW offset \in Nat, NEW b \in Seq(Int),
         offset + Len(b) <= Len(s)
  PROVE  /\ Overwrite(s, offset, b) \in Seq(Int) /\ Len(Overwrite(s, offset, b)) = Len(s)
         /\ \A i \in 1 .. Len(b) : Overwrite(s, offset, b)[offset + i] = b[i]
         /\ \A i \in 1 .. Len(s) :
              i \notin offset + 1 .. offset + Len(b) => Overwrite(s, offset, b)[i] = s[i]
<1> DEFINE w == [i \in 1 .. Len(s) |->
                   IF i \in offset + 1 .. offset + Len(b) THEN b[i - offset] ELSE s[i]]
<1>1. Len(s) \in Nat /\ Len(b) \in Nat
  BY LenProperties
<1>2. Max({Len(s), offset + Len(b)}) = Len(s)
  BY <1>1 DEF Max
<1>3. Overwrite(s, offset, b) = w
  BY <1>2 DEF Overwrite
<1>4. \A i \in 1 .. Len(s) : w[i] \in Int
  <2> SUFFICES ASSUME NEW i \in 1 .. Len(s) PROVE w[i] \in Int
    OBVIOUS
  <2>1. CASE i \in offset + 1 .. offset + Len(b)
    <3>1. i - offset \in 1 .. Len(b)
      BY <1>1, <2>1
    <3>q. QED BY <2>1, <3>1, ElementOfSeq
  <2>2. CASE i \notin offset + 1 .. offset + Len(b)
    BY <2>2, ElementOfSeq
  <2>q. QED BY <2>1, <2>2
<1>5. w \in [1 .. Len(s) -> Int]
  BY <1>4
<1>6. \A i \in 1 .. Len(b) : w[offset + i] = b[i]
  <2> SUFFICES ASSUME NEW i \in 1 .. Len(b) PROVE w[offset + i] = b[i]
    OBVIOUS
  <2>1. /\ offset + i \in 1 .. Len(s) /\ (offset + i) - offset = i
        /\ offset + i \in offset + 1 .. offset + Len(b)
    BY <1>1
  <2>q. QED BY <2>1
<1>7. \A i \in 1 .. Len(s) : i \notin offset + 1 .. offset + Len(b) => w[i] = s[i]
  OBVIOUS
<1> HIDE DEF w
<1>8. w \in Seq(Int) /\ Len(w) = Len(s)
  BY <1>1, <1>5, FunctionIsSeq
<1>q. QED BY <1>3, <1>6, <1>7, <1>8

\* What lies in the buffer when a frame has been encoded, with a prefix.
LEMMA Encoded ==
  ASSUME NEW s \in Seq(Int), Len(s) = mPrePadding + mPostPadding + BufSize,
         NEW b \in Seq(Int), Len(b) <= BufSize,
         NEW prefix \in Seq(Int), Len(prefix) <= mPrePadding
  PROVE  LET w == Overwrite(Overwrite(s, mPrePadding, b), mPrePadding - Len(prefix), prefix)
         IN  /\ w \in Seq(Int) /\ Len(w) = Len(s)
             /\ SubSeq(w, mPrePadding + 1, mPrePadding + Len(b)) = b
             /\ SubSeq(w, mPrePadding - Len(prefix) + 1, mPrePadding + Len(b)) = prefix \o b
<1> DEFINE v == Overwrite(s, mPrePadding, b)
           p == Len(prefix)
           n == Len(b)
           m == mPrePadding
           w == Overwrite(v, m - p, prefix)
<1>1. /\ n \in Nat /\ p \in Nat /\ m \in Nat /\ mPostPadding \in Nat /\ BufSize \in Nat
      /\ m - p \in Nat
  BY LenProperties, EncoderAssumption
<1>2. m + n <= Len(s) /\ Len(s) \in Nat
  BY <1>1
<1>3. /\ v \in Seq(Int) /\ Len(v) = Len(s) /\ \A i \in 1 .. n : v[m + i] = b[i]
  BY <1>1, <1>2, Overwritten, ZenonT(40)
<1> HIDE DEF v
<1>4. (m - p) + p <= Len(v)
  BY <1>1, <1>3
<1>5. w = Overwrite(v, m - p, prefix)
  OBVIOUS
<1> HIDE DEF w
<1>6. /\ w \in Seq(Int) /\ Len(w) = Len(v) /\ \A i \in 1 .. p : w[(m - p) + i] = prefix[i]
      /\ \A i \in 1 .. Len(v) : i \notin (m - p) + 1 .. (m - p) + p => w[i] = v[i]
  <2> DEFINE k == m - p
             x == Overwrite(v, k, prefix)
  <2>1. k \in Nat /\ k + Len(prefix) <= Len(v)
    BY <1>1, <1>4
  <2> HIDE DEF k
  <2>2. /\ x \in Seq(Int) /\ Len(x) = Len(v) /\ \A i \in 1 .. p : x[k + i] = prefix[i]
        /\ \A i \in 1 .. Len(v) : i \notin k + 1 .. k + p => x[i] = v[i]
    BY <1>3, <2>1, Overwritten, ZenonT(40)
  <2>q. QED BY <1>5, <2>2, Zenon DEF k
<1>7. \A i \in 1 .. n : w[m + i] = b[i]
  <2> SUFFICES ASSUME NEW i \in 1 .. n PROVE w[m + i] = b[i]
    OBVIOUS
  <2>1. m + i \in 1 .. Len(v) /\ m + i \notin (m - p) + 1 .. (m - p) + p
    BY <1>1, <1>2, <1>3
  <2>q. QED BY <1>3, <1>6, <2>1
<1>8. SubSeq(w, m + 1, m + n) = b
  <2> DEFINE x == SubSeq(w, m + 1, m + n)
  <2>1. \A i \in m + 1 .. m + n : w[i] \in Int
    <3>1. \A i \in m + 1 .. m + n : i \in 1 .. Len(w)
      BY <1>1, <1>2, <1>3, <1>6
    <3>q. QED BY <1>6, <3>1, ElementOfSeq
  <2>2. /\ x \in Seq(Int) /\ Len(x) = (IF m + 1 <= m + n THEN (m + n) - (m + 1) + 1 ELSE 0)
        /\ \A i \in 1 .. (m + n) - (m + 1) + 1 : x[i] = w[(m + 1) + i - 1]
    <3>1. m + 1 \in Int /\ m + n \in Int
      BY <1>1
    <3>q. QED BY <2>1, <3>1, SubSeqProperties, SMTT(30)
  <2> HIDE DEF x
  <2>3. Len(x) = n
    BY <1>1, <2>2
  <2>4. \A i \in 1 .. n : x[i] = b[i]
    <3> SUFFICES ASSUME NEW i \in 1 .. n PROVE x[i] = b[i]
      OBVIOUS
    <3>1. i \in 1 .. (m + n) - (m + 1) + 1 /\ (m + 1) + i - 1 = m + i
      BY <1>1
    <3>q. QED BY <1>7, <2>2, <3>1
  <2>5. x = b
    BY <2>2, <2>3, <2>4, SeqEqual
  <2>q. QED BY <2>5 DEF x
<1>9. SubSeq(w, m - p + 1, m + n) = prefix \o b
  <2> DEFINE x == SubSeq(w, m - p + 1, m + n)
             y == prefix \o b
  <2>1. \A i \in m - p + 1 .. m + n : w[i] \in Int
    <3>1. \A i \in m - p + 1 .. m + n : i \in 1 .. Len(w)
      BY <1>1, <1>2, <1>3, <1>6
    <3>q. QED BY <1>6, <3>1, ElementOfSeq
  <2>2. /\ x \in Seq(Int)
        /\ Len(x) = (IF m - p + 1 <= m + n THEN (m + n) - (m - p + 1) + 1 ELSE 0)
        /\ \A i \in 1 .. (m + n) - (m - p + 1) + 1 : x[i] = w[(m - p + 1) + i - 1]
    <3>1. m - p + 1 \in Int /\ m + n \in Int
      BY <1>1
    <3>q. QED BY <2>1, <3>1, SubSeqProperties, SMTT(30)
  <2>3. /\ y \in Seq(Int) /\ Len(y) = p + n /\ \A i \in 1 .. p : y[i] = prefix[i]
        /\ \A i \in 1 .. n : y[p + i] = b[i]
    BY ConcatInts, Zenon
  <2> HIDE DEF x, y
  <2>4. Len(x) = p + n
    BY <1>1, <2>2
  <2>5. \A i \in 1 .. p + n : x[i] = y[i]
    <3> SUFFICES ASSUME NEW i \in 1 .. p + n PROVE x[i] = y[i]
      OBVIOUS
    <3>1. /\ i \in 1 .. (m + n) - (m - p + 1) + 1 /\ (m - p + 1) + i - 1 = (m - p) + i
      BY <1>1
    <3>2. x[i] = w[(m - p) + i]
      BY <2>2, <3>1
    <3>3. CASE i <= p
      <4>1. i \in 1 .. p
        BY <1>1, <3>3
      <4>q. QED BY <1>6, <2>3, <3>2, <4>1
    <3>4. CASE ~(i <= p)
      <4>1. i - p \in 1 .. n /\ (m - p) + i = m + (i - p) /\ p + (i - p) = i
        BY <1>1, <3>4
      <4>2. w[m + (i - p)] = b[i - p] /\ y[p + (i - p)] = b[i - p]
        BY <1>7, <2>3, <4>1
      <4>q. QED BY <3>2, <4>1, <4>2
    <3>q. QED BY <3>3, <3>4
  <2>6. x = y
    BY <2>2, <2>3, <2>4, <2>5, SeqEqual
  <2>q. QED BY <2>6 DEF x, y
<1>q. QED BY <1>3, <1>6, <1>8, <1>9 DEF v, w

-----------------------------------------------------------------------------
(* What the invariant says of the frames and of the stream.                *)

LEMMA JpegFrame ==
  ASSUME NEW f \in JpegFrames
  PROVE  /\ f \in Seq(Int) /\ Len(f) \in 2 .. BufSize /\ BufSize \in UInt32s
         /\ IsPrefix(JpegHeader, f)
<1>1. PICK k \in 1 .. MaxFrames, n \in Sizes : f = Jpeg(k, n)
  BY DEF JpegFrames
<1>2. k \in Int
  OBVIOUS
<1>q. QED BY <1>1, <1>2, JpegIsSeq, FramingAssumption

LEMMA FrameSentIs ==
  ASSUME FramingInv
  PROVE  /\ FrameSent \in Seq(Int) /\ Len(FrameSent) = mEncodedSize
         /\ mEncodedSize \in 0 .. BufSize /\ mEncodedSize \in UInt32s /\ BufSize \in Nat
         /\ at = "frame" => FrameSent \in JpegFrames
<1>1. /\ frames \in Nat /\ mEncodedSize \in 0 .. BufSize
      /\ frames = 0 => mEncodedSize = 0
      /\ frames >= 1 => mEncodedSize \in Sizes /\ FrameSent = Jpeg(frames, mEncodedSize)
      /\ at = "frame" => frames \in 1 .. MaxFrames
  BY DEF FramingInv, BytesInv, EncoderInv
<1>2. BufSize \in Nat /\ mPrePadding \in Nat /\ BufSize \in UInt32s
  BY EncoderAssumption, FramingAssumption
<1>3. mEncodedSize \in UInt32s
  <2> DEFINE q == Base * Base * Base * Base
  <2>1. q \in Int /\ UInt32s = 0 .. q - 1
    BY BaseAssumption DEF UInt32s
  <2> HIDE DEF q
  <2>q. QED BY <1>1, <1>2, <2>1
<1>4. CASE frames = 0
  <2>1. mPrePadding + mEncodedSize < mPrePadding + 1
    BY <1>1, <1>2, <1>4
  <2>2. FrameSent = <<>>
    BY <1>1, <1>2, <2>1, SubSeqEmpty DEF FrameSent
  <2>3. at # "frame"
    BY <1>1, <1>4
  <2>q. QED BY <1>1, <1>2, <1>4, <1>3, <2>2, <2>3
<1>5. CASE frames # 0
  <2>1. frames \in Int /\ frames >= 1
    BY <1>1, <1>5
  <2>2. FrameSent \in Seq(Int) /\ Len(FrameSent) = mEncodedSize
    BY <1>1, <2>1, JpegIsSeq
  <2>3. at = "frame" => FrameSent \in JpegFrames
    <3> SUFFICES ASSUME at = "frame" PROVE FrameSent \in JpegFrames
      OBVIOUS
    <3>1. /\ frames \in 1 .. MaxFrames /\ mEncodedSize \in Sizes
          /\ FrameSent = Jpeg(frames, mEncodedSize)
      BY <1>1, <2>1
    <3>q. QED BY <3>1 DEF JpegFrames
  <2>q. QED BY <1>1, <1>2, <1>3, <2>2, <2>3
<1>q. QED BY <1>4, <1>5

LEMMA FramesUnderway ==
  ASSUME FramingInv
  PROVE  /\ Len(sent) \in Nat /\ sent \in Bodies
         /\ Underway \in Bodies /\ Underway # <<>> /\ Len(Underway) = Len(sent) + 1
         /\ Underway[Len(sent) + 1] = FrameSent
         /\ \A k \in 1 .. Len(sent) : Underway[k] = sent[k] /\ sent[k] \in JpegFrames
         /\ \A k \in 1 .. Len(sent) + 1 :
              Underway[k] \in Seq(Int) /\ Len(Underway[k]) \in 0 .. BufSize
<1>1. sent \in Seq(JpegFrames) /\ JpegFrames \subseteq Seq(Int)
  BY JpegFrame DEF FramingInv, BytesInv
<1>2. sent \in Bodies
  BY <1>1, SeqMonotonic DEF Bodies
<1>3. Len(sent) \in Nat /\ \A k \in 1 .. Len(sent) : sent[k] \in JpegFrames
  BY <1>1, LenProperties, ElementOfSeq
<1>4. FrameSent \in Seq(Int) /\ Len(FrameSent) \in 0 .. BufSize /\ BufSize \in Nat
  BY FrameSentIs
<1>5. /\ Underway \in Bodies /\ Underway # <<>> /\ Len(Underway) = Len(sent) + 1
      /\ Underway[Len(sent) + 1] = FrameSent
      /\ \A k \in 1 .. Len(sent) : Underway[k] = sent[k]
  BY <1>2, <1>4, AppendProperties DEF Underway, Bodies
<1>6. ASSUME NEW k \in 1 .. Len(sent) + 1
      PROVE  Underway[k] \in Seq(Int) /\ Len(Underway[k]) \in 0 .. BufSize
  <2>1. CASE k = Len(sent) + 1
    BY <1>4, <1>5, <2>1
  <2>2. CASE k # Len(sent) + 1
    <3>1. k \in 1 .. Len(sent)
      BY <1>3, <2>2
    <3>2. Underway[k] \in JpegFrames
      BY <1>3, <1>5, <3>1
    <3>3. Underway[k] \in Seq(Int) /\ Len(Underway[k]) \in 2 .. BufSize
      BY <3>2, JpegFrame
    <3>q. QED BY <1>4, <3>3
  <2>q. QED BY <2>1, <2>2
<1>q. QED BY <1>2, <1>3, <1>5, <1>6

LEMMA Parts ==
  ASSUME NEW t \in Seq(Int), NEW n \in 0 .. Len(t)
  PROVE  /\ SubSeq(t, 1, n) \in Seq(Int) /\ Len(SubSeq(t, 1, n)) = n
         /\ SubSeq(t, n + 1, Len(t)) \in Seq(Int)
         /\ Len(SubSeq(t, n + 1, Len(t))) = Len(t) - n
         /\ SubSeq(t, 1, n) \o SubSeq(t, n + 1, Len(t)) = t
         /\ \A j \in 1 .. n : SubSeq(t, 1, n)[j] = t[j]
         /\ \A j \in 1 .. Len(t) - n : SubSeq(t, n + 1, Len(t))[j] = t[j + n]
<1>1. Len(t) \in Nat /\ n \in Nat /\ \A i \in 1 .. Len(t) : t[i] \in Int
  BY LenProperties, ElementOfSeq
<1>2. /\ \A i \in 1 .. n : t[i] \in Int
      /\ \A i \in n + 1 .. Len(t) : t[i] \in Int
  BY <1>1
<1> DEFINE a == SubSeq(t, 1, n)
           b == SubSeq(t, n + 1, Len(t))
<1>3. /\ a \in Seq(Int) /\ Len(a) = (IF 1 <= n THEN n - 1 + 1 ELSE 0)
      /\ \A i \in 1 .. n - 1 + 1 : a[i] = t[1 + i - 1]
  BY <1>1, <1>2, SubSeqProperties
<1>4. /\ b \in Seq(Int)
      /\ Len(b) = (IF n + 1 <= Len(t) THEN Len(t) - (n + 1) + 1 ELSE 0)
      /\ \A i \in 1 .. Len(t) - (n + 1) + 1 : b[i] = t[(n + 1) + i - 1]
  <2>1. n + 1 \in Int /\ Len(t) \in Int
    BY <1>1
  <2>q. QED BY <1>2, <2>1, SubSeqProperties
<1>5. a \o b = t
  <2>1. SubSeq(t, 1, n) \o SubSeq(t, n + 1, Len(t)) = SubSeq(t, 1, Len(t))
    <3>1. 1 \in 1 .. Len(t) + 1 /\ n \in 1 - 1 .. Len(t) /\ Len(t) \in n .. Len(t)
      BY <1>1
    <3>q. QED BY <3>1, ConcatAdjacentSubSeq, Zenon
  <2>q. QED BY <2>1, SubSeqFull
<1> HIDE DEF a, b
<1>6. Len(a) = n /\ Len(b) = Len(t) - n
  BY <1>1, <1>3, <1>4
<1>7. \A j \in 1 .. n : a[j] = t[j]
  <2> SUFFICES ASSUME NEW j \in 1 .. n PROVE a[j] = t[j]
    OBVIOUS
  <2>1. j \in 1 .. n - 1 + 1 /\ 1 + j - 1 = j
    BY <1>1
  <2>q. QED BY <1>3, <2>1
<1>8. \A j \in 1 .. Len(t) - n : b[j] = t[j + n]
  <2> SUFFICES ASSUME NEW j \in 1 .. Len(t) - n PROVE b[j] = t[j + n]
    OBVIOUS
  <2>1. j \in 1 .. Len(t) - (n + 1) + 1 /\ (n + 1) + j - 1 = j + n
    BY <1>1
  <2>q. QED BY <1>4, <2>1
<1>q. QED BY <1>3, <1>4, <1>5, <1>6, <1>7, <1>8 DEF a, b

-----------------------------------------------------------------------------
(* The banner, byte by byte.                                               *)

\* Bytes that are not a number's own leave what is counted of it.
LEMMA OtherByte ==
  ASSUME NEW v \in UInt32s, NEW n \in Int, n \notin 0 .. 3
  PROVE  FirstBytes(v, n + 1) = FirstBytes(v, n)
BY DEF FirstBytes

LEMMA Counted ==
  ASSUME NEW v \in UInt32s, NEW n \in Int
  PROVE  /\ FirstBytes(v, n) \in Int
         /\ n <= 0 => FirstBytes(v, n) = 0
         /\ n >= 4 => FirstBytes(v, n) = v
<1>1. v \in Int /\ \A i \in 1 .. 4 : Digit(v, i) \in Int
  BY BannerFields, DigitsAreNumbers
<1>2. FirstBytes(v, 4) = v
  BY WholeNumber
<1>3. n >= 4 => FirstBytes(v, n) = FirstBytes(v, 4)
  BY DEF FirstBytes
<1>4. n <= 0 => FirstBytes(v, n) = 0
  BY DEF FirstBytes
<1>5. FirstBytes(v, n) \in Int
  BY <1>1 DEF FirstBytes
<1>q. QED BY <1>2, <1>3, <1>4, <1>5

\* What ReadBannerByte does to the banner.
BannerWith(b, n, byte) ==
  CASE n = 0 -> [b EXCEPT !.version = byte]
    [] n = 1 -> [b EXCEPT !.length = byte]
    [] n \in 2 .. 5 -> [b EXCEPT !.pid = @ + byte * ByteWeight[n - 2 + 1]]
    [] n \in 6 .. 9 -> [b EXCEPT !.realWidth = @ + byte * ByteWeight[n - 6 + 1]]
    [] n \in 10 .. 13 -> [b EXCEPT !.realHeight = @ + byte * ByteWeight[n - 10 + 1]]
    [] n \in 14 .. 17 -> [b EXCEPT !.virtualWidth = @ + byte * ByteWeight[n - 14 + 1]]
    [] n \in 18 .. 21 -> [b EXCEPT !.virtualHeight = @ + byte * ByteWeight[n - 18 + 1]]
    [] n = 22 -> [b EXCEPT !.orientation = @ + byte * 90]
    [] n = 23 -> [b EXCEPT !.quirks = byte]

LEMMA NextInNumber ==
  ASSUME NEW v \in UInt32s, NEW n \in 0 .. 23, NEW first \in {2, 6, 10, 14, 18},
         n - first \in 0 .. 3,
         BannerBytes[first + (n - first + 1)] = putUInt32LE(v)[n - first + 1]
  PROVE  FirstBytes(v, n + 1 - first) =
           FirstBytes(v, n - first) + BannerBytes[n + 1] * ByteWeight[n - first + 1]
<1>1. n + 1 - first = (n - first) + 1 /\ first + (n - first + 1) = n + 1
  OBVIOUS
<1>2. FirstBytes(v, (n - first) + 1) =
        FirstBytes(v, n - first)
          + putUInt32LE(v)[(n - first) + 1] * ByteWeight[(n - first) + 1]
  BY NextByte, Zenon
<1>q. QED BY <1>1, <1>2, Zenon

LEMMA NumberRead ==
  ASSUME NEW v \in UInt32s, NEW n \in 0 .. 23, NEW first \in {2, 6, 10, 14, 18},
         \A i \in 1 .. 4 : BannerBytes[first + i] = putUInt32LE(v)[i]
  PROVE  FirstBytes(v, n + 1 - first) =
           IF n \in first .. first + 3
           THEN FirstBytes(v, n - first) + BannerBytes[n + 1] * ByteWeight[n - first + 1]
           ELSE FirstBytes(v, n - first)
<1>1. CASE n \in first .. first + 3
  <2>1. n - first \in 0 .. 3 /\ n - first + 1 \in 1 .. 4
    BY <1>1
  <2>q. QED BY <1>1, <2>1, NextInNumber, Zenon
<1>2. CASE n \notin first .. first + 3
  <2>1. n - first \in Int /\ n - first \notin 0 .. 3 /\ n + 1 - first = (n - first) + 1
    BY <1>2
  <2>2. FirstBytes(v, (n - first) + 1) = FirstBytes(v, n - first)
    BY <2>1, OtherByte, Zenon
  <2>q. QED BY <1>2, <2>1, <2>2, Zenon
<1>q. QED BY <1>1, <1>2

LEMMA NextBanner ==
  ASSUME NEW n \in 0 .. 23
  PROVE  BannerRead(n + 1) = BannerWith(BannerRead(n), n, BannerBytes[n + 1])
<1> DEFINE byte == BannerBytes[n + 1]
<1>1. FirstBytes(Pid, n + 1 - 2) =
        IF n \in 2 .. 2 + 3
        THEN FirstBytes(Pid, n - 2) + byte * ByteWeight[n - 2 + 1]
        ELSE FirstBytes(Pid, n - 2)
  <2>1. Pid \in UInt32s /\ \A i \in 1 .. 4 : BannerBytes[2 + i] = putUInt32LE(Pid)[i]
    BY BannerFields, BannerIsSeq
  <2>q. QED BY <2>1, NumberRead
<1>2. FirstBytes(RealWidth, n + 1 - 6) =
        IF n \in 6 .. 6 + 3
        THEN FirstBytes(RealWidth, n - 6) + byte * ByteWeight[n - 6 + 1]
        ELSE FirstBytes(RealWidth, n - 6)
  <2>1. /\ RealWidth \in UInt32s
        /\ \A i \in 1 .. 4 : BannerBytes[6 + i] = putUInt32LE(RealWidth)[i]
    BY BannerFields, BannerIsSeq
  <2>q. QED BY <2>1, NumberRead
<1>3. FirstBytes(RealHeight, n + 1 - 10) =
        IF n \in 10 .. 10 + 3
        THEN FirstBytes(RealHeight, n - 10) + byte * ByteWeight[n - 10 + 1]
        ELSE FirstBytes(RealHeight, n - 10)
  <2>1. /\ RealHeight \in UInt32s
        /\ \A i \in 1 .. 4 : BannerBytes[10 + i] = putUInt32LE(RealHeight)[i]
    BY BannerFields, BannerIsSeq
  <2>q. QED BY <2>1, NumberRead
<1>4. FirstBytes(VirtualWidth, n + 1 - 14) =
        IF n \in 14 .. 14 + 3
        THEN FirstBytes(VirtualWidth, n - 14) + byte * ByteWeight[n - 14 + 1]
        ELSE FirstBytes(VirtualWidth, n - 14)
  <2>1. /\ VirtualWidth \in UInt32s
        /\ \A i \in 1 .. 4 : BannerBytes[14 + i] = putUInt32LE(VirtualWidth)[i]
    BY BannerFields, BannerIsSeq
  <2>q. QED BY <2>1, NumberRead
<1>5. FirstBytes(VirtualHeight, n + 1 - 18) =
        IF n \in 18 .. 18 + 3
        THEN FirstBytes(VirtualHeight, n - 18) + byte * ByteWeight[n - 18 + 1]
        ELSE FirstBytes(VirtualHeight, n - 18)
  <2>1. /\ VirtualHeight \in UInt32s
        /\ \A i \in 1 .. 4 : BannerBytes[18 + i] = putUInt32LE(VirtualHeight)[i]
    BY BannerFields, BannerIsSeq
  <2>q. QED BY <2>1, NumberRead
<1>6. BannerBytes[1] = BANNER_VERSION /\ BannerBytes[2] = BANNER_SIZE
  BY BannerIsSeq
<1>7. /\ BannerBytes[23] = Orientation /\ BannerBytes[24] = Quirks
      /\ Orientation \in Int
  BY BannerIsSeq, BannerFields
<1>8. CASE n = 0
  BY <1>1, <1>2, <1>3, <1>4, <1>5, <1>6, <1>8 DEF BannerRead, BannerWith
<1>9. CASE n = 1
  BY <1>1, <1>2, <1>3, <1>4, <1>5, <1>6, <1>9 DEF BannerRead, BannerWith
<1>10. CASE n \in 2 .. 5
  BY <1>1, <1>2, <1>3, <1>4, <1>5, <1>10 DEF BannerRead, BannerWith
<1>11. CASE n \in 6 .. 9
  BY <1>1, <1>2, <1>3, <1>4, <1>5, <1>11 DEF BannerRead, BannerWith
<1>12. CASE n \in 10 .. 13
  BY <1>1, <1>2, <1>3, <1>4, <1>5, <1>12 DEF BannerRead, BannerWith
<1>13. CASE n \in 14 .. 17
  BY <1>1, <1>2, <1>3, <1>4, <1>5, <1>13 DEF BannerRead, BannerWith
<1>14. CASE n \in 18 .. 21
  BY <1>1, <1>2, <1>3, <1>4, <1>5, <1>14 DEF BannerRead, BannerWith
<1>15. CASE n = 22
  BY <1>1, <1>2, <1>3, <1>4, <1>5, <1>7, <1>15 DEF BannerRead, BannerWith
<1>16. CASE n = 23
  BY <1>1, <1>2, <1>3, <1>4, <1>5, <1>7, <1>16 DEF BannerRead, BannerWith
<1>q. QED BY <1>8, <1>9, <1>10, <1>11, <1>12, <1>13, <1>14, <1>15, <1>16

LEMMA ReadBannerByteIs ==
  ASSUME ReadBannerByte, readBannerBytes \in 0 .. 23
  PROVE  /\ banner' = BannerWith(banner, readBannerBytes, Head(chunk))
         /\ bannerLength' = IF readBannerBytes = 1 THEN Head(chunk) ELSE bannerLength
<1> DEFINE n == readBannerBytes
           byte == Head(chunk)
<1>1. CASE n = 0 /\ banner' = [banner EXCEPT !.version = byte] /\ UNCHANGED bannerLength
  BY <1>1 DEF BannerWith
<1>2. CASE n = 1 /\ banner' = [banner EXCEPT !.length = byte] /\ bannerLength' = byte
  BY <1>2 DEF BannerWith
<1>3. CASE \E f \in UInt32Fields :
             /\ n - f[2] \in 0 .. 3
             /\ banner' = [banner EXCEPT ![f[1]] = @ + byte * ByteWeight[n - f[2] + 1]]
             /\ UNCHANGED bannerLength
  <2>1. PICK f \in UInt32Fields :
             /\ n - f[2] \in 0 .. 3
             /\ banner' = [banner EXCEPT ![f[1]] = @ + byte * ByteWeight[n - f[2] + 1]]
             /\ UNCHANGED bannerLength
    BY <1>3
  <2>2. CASE f = <<"pid", 2>>
    <3>1. f[1] = "pid" /\ f[2] = 2 /\ n \in 2 .. 5
      BY <2>1, <2>2
    <3>2. banner' = [banner EXCEPT !.pid = @ + byte * ByteWeight[n - 2 + 1]]
      BY <2>1, <3>1
    <3>3. BannerWith(banner, n, byte) =
            [banner EXCEPT !.pid = @ + byte * ByteWeight[n - 2 + 1]]
      BY <3>1 DEF BannerWith
    <3>4. n # 1
      BY <3>1
    <3>5. UNCHANGED bannerLength
      BY <2>1, Zenon
    <3>q. QED BY <3>2, <3>3, <3>4, <3>5
  <2>3. CASE f = <<"realWidth", 6>>
    <3>1. f[1] = "realWidth" /\ f[2] = 6 /\ n \in 6 .. 9
      BY <2>1, <2>3
    <3>2. banner' = [banner EXCEPT !.realWidth = @ + byte * ByteWeight[n - 6 + 1]]
      BY <2>1, <3>1
    <3>3. BannerWith(banner, n, byte) =
            [banner EXCEPT !.realWidth = @ + byte * ByteWeight[n - 6 + 1]]
      BY <3>1 DEF BannerWith
    <3>4. n # 1
      BY <3>1
    <3>5. UNCHANGED bannerLength
      BY <2>1, Zenon
    <3>q. QED BY <3>2, <3>3, <3>4, <3>5
  <2>4. CASE f = <<"realHeight", 10>>
    <3>1. f[1] = "realHeight" /\ f[2] = 10 /\ n \in 10 .. 13
      BY <2>1, <2>4
    <3>2. banner' = [banner EXCEPT !.realHeight = @ + byte * ByteWeight[n - 10 + 1]]
      BY <2>1, <3>1
    <3>3. BannerWith(banner, n, byte) =
            [banner EXCEPT !.realHeight = @ + byte * ByteWeight[n - 10 + 1]]
      BY <3>1 DEF BannerWith
    <3>4. n # 1
      BY <3>1
    <3>5. UNCHANGED bannerLength
      BY <2>1, Zenon
    <3>q. QED BY <3>2, <3>3, <3>4, <3>5
  <2>5. CASE f = <<"virtualWidth", 14>>
    <3>1. f[1] = "virtualWidth" /\ f[2] = 14 /\ n \in 14 .. 17
      BY <2>1, <2>5
    <3>2. banner' = [banner EXCEPT !.virtualWidth = @ + byte * ByteWeight[n - 14 + 1]]
      BY <2>1, <3>1
    <3>3. BannerWith(banner, n, byte) =
            [banner EXCEPT !.virtualWidth = @ + byte * ByteWeight[n - 14 + 1]]
      BY <3>1 DEF BannerWith
    <3>4. n # 1
      BY <3>1
    <3>5. UNCHANGED bannerLength
      BY <2>1, Zenon
    <3>q. QED BY <3>2, <3>3, <3>4, <3>5
  <2>6. CASE f = <<"virtualHeight", 18>>
    <3>1. f[1] = "virtualHeight" /\ f[2] = 18 /\ n \in 18 .. 21
      BY <2>1, <2>6
    <3>2. banner' = [banner EXCEPT !.virtualHeight = @ + byte * ByteWeight[n - 18 + 1]]
      BY <2>1, <3>1
    <3>3. BannerWith(banner, n, byte) =
            [banner EXCEPT !.virtualHeight = @ + byte * ByteWeight[n - 18 + 1]]
      BY <3>1 DEF BannerWith
    <3>4. n # 1
      BY <3>1
    <3>5. UNCHANGED bannerLength
      BY <2>1, Zenon
    <3>q. QED BY <3>2, <3>3, <3>4, <3>5
  <2>q. QED BY <2>2, <2>3, <2>4, <2>5, <2>6 DEF UInt32Fields
<1>4. CASE n = 22 /\ banner' = [banner EXCEPT !.orientation = @ + byte * 90]
                  /\ UNCHANGED bannerLength
  BY <1>4 DEF BannerWith
<1>5. CASE n = 23 /\ banner' = [banner EXCEPT !.quirks = byte] /\ UNCHANGED bannerLength
  BY <1>5 DEF BannerWith
<1>q. QED BY <1>1, <1>2, <1>3, <1>4, <1>5, Zenon DEF ReadBannerByte

-----------------------------------------------------------------------------
(* Parts of the invariant that many steps leave alone.                     *)

LEMMA EncoderStays ==
  ASSUME FramingInv, UNCHANGED <<encoderVars, frames>>,
         at' = "ended" \/ (at \notin {"reserve", "ended"} /\ (at' = "frame" => at = "frame"))
  PROVE  EncoderInv'
BY DEF FramingInv, EncoderInv, encoderVars, WithinBuffer, FrameSent

LEMMA BannerStays ==
  ASSUME FramingInv, UNCHANGED bannerVars
  PROVE  BannerInv'
BY DEF FramingInv, BannerInv, bannerVars

LEMMA StdoutStays ==
  ASSUME FramingInv, UNCHANGED stdout, at' \notin {"shotWrite", "shotDone"},
         at' = "ended" \/ at \notin {"shotWrite", "shotDone", "ended"}
  PROVE  ShotInv'
<1>1. ScreenshotIsJpeg'
  BY DEF FramingInv, ShotInv, ScreenshotIsJpeg
<1>q. QED BY <1>1 DEF FramingInv, ShotInv

LEMMA StaysUnconnected ==
  ASSUME FramingInv, ~connected, UNCHANGED <<clientVars, connected, sent>>
  PROVE  ConnectionInv'
BY DEF FramingInv, ConnectionInv, Unconnected, clientVars, bannerVars, frameVars

-----------------------------------------------------------------------------
(* The steps.                                                              *)

LEMMA FirstState ==
  ASSUME Init
  PROVE  FramingInv
<1> USE DEF Init, EncoderInit, ClientInit
<1>1. BytesInv
  BY EmptySeq DEF BytesInv
<1>2. EncoderInv
  BY EncoderAssumption DEF EncoderInv, WithinBuffer
<1>3. ControlInv
  BY DEF ControlInv, Writing
<1>4. ShotInv
  <2>1. PICK n \in Sizes : TRUE
    BY FramingAssumption
  <2>2. IsPrefix(<<>>, Jpeg(1, n))
    <3>1. Jpeg(1, n) \in Seq(Int) /\ Len(Jpeg(1, n)) \in Nat
      BY JpegIsSeq, LenProperties
    <3>2. SubSeq(<<>>, 1, 0) = <<>> /\ SubSeq(Jpeg(1, n), 1, 0) = <<>> /\ Len(<<>>) = 0
      BY SubSeqEmpty, EmptySeq
    <3>q. QED BY <3>1, <3>2 DEF IsPrefix
  <2>q. QED BY <2>2 DEF ShotInv, ScreenshotIsJpeg
<1>5. BannerInv
  <2>1. BannerRead(0) = NoBanner
    BY DEF BannerRead, NoBanner, FirstBytes
  <2>q. QED BY <2>1 DEF BannerInv, BANNER_SIZE
<1>6. ConnectionInv
  BY DEF ConnectionInv, Unconnected
<1>q. QED BY <1>1, <1>2, <1>3, <1>4, <1>5, <1>6 DEF FramingInv

LEMMA ReserveStep ==
  ASSUME FramingInv, Reserve
  PROVE  FramingInv'
<1> USE DEF Reserve
<1>1. /\ BytesInv /\ EncoderInv /\ ControlInv /\ ShotInv /\ at = "reserve" /\ frames = 0
      /\ ~connected /\ stdout = <<>> /\ unsent = <<>>
  BY DEF FramingInv, ControlInv, ShotInv, Writing
<1>2. BytesInv' /\ EncoderInv'
  <2>1. CASE reserveData /\ at' \in {"accept", "shot"}
    <3> DEFINE n == mPrePadding + mPostPadding + BufSize
    <3>1. n \in Nat /\ Unwritten \in Int
      BY EncoderAssumption DEF Unwritten
    <3>2. maxSize' = n /\ mEncodedData' = [i \in 1 .. n |-> Unwritten]
      BY <2>1 DEF reserveData
    <3> HIDE DEF n
    <3>3. mEncodedData' \in Seq(Int) /\ Len(mEncodedData') = n
      <4>1. [i \in 1 .. n |-> Unwritten] \in [1 .. n -> Int]
        BY <3>1
      <4>q. QED BY <3>1, <3>2, <4>1, FunctionIsSeq
    <3>4. mEncodedSize' = mEncodedSize
      BY <2>1 DEF reserveData
    <3>5. BytesInv'
      BY <1>1 DEF BytesInv, clientVars
    <3>6. EncoderInv'
      <4>1. mEncodedSize' \in 0 .. BufSize /\ mEncodedSize' = 0 /\ frames' = 0
        BY <1>1, <3>4 DEF EncoderInv
      <4>2. maxSize' = mPrePadding + mPostPadding + BufSize /\ WithinBuffer'
        BY <3>2, <3>3 DEF WithinBuffer, n
      <4>3. at' # "frame" /\ ~(frames' >= 1)
        BY <2>1, <4>1
      <4>q. QED BY <3>3, <4>1, <4>2, <4>3 DEF EncoderInv
    <3>q. QED BY <3>5, <3>6
  <2>2. CASE at' = "ended" /\ UNCHANGED encoderVars
    <3>1. BytesInv'
      BY <1>1 DEF BytesInv, clientVars
    <3>q. QED BY <2>2, <3>1, EncoderStays
  <2>q. QED BY <2>1, <2>2
<1>3. ControlInv'
  BY <1>1 DEF ControlInv, Writing
<1>4. ShotInv'
  BY <1>1, StdoutStays
<1>5. BannerInv' /\ ConnectionInv'
  BY <1>1, BannerStays, StaysUnconnected DEF clientVars
<1>q. QED BY <1>2, <1>3, <1>4, <1>5 DEF FramingInv

LEMMA AcceptStep ==
  ASSUME FramingInv, Accept
  PROVE  FramingInv'
<1> USE DEF Accept
<1>1. /\ BytesInv /\ EncoderInv /\ ControlInv /\ ShotInv /\ at = "accept" /\ ~connected
      /\ Unconnected /\ BannerInv
  BY DEF FramingInv, ControlInv, ConnectionInv
<1>2. BytesInv'
  BY <1>1, BannerIsSeq DEF BytesInv, clientVars
<1>3. EncoderInv' /\ ShotInv' /\ BannerInv'
  BY EncoderStays, StdoutStays, BannerStays DEF clientVars
<1>4. ControlInv'
  <2>1. BannerBytes # <<>>
    BY BannerNotEmpty
  <2>2. at' = "banner" /\ unsent' # <<>>
    BY <2>1
  <2> HIDE DEF Accept
  <2>q. QED BY <2>2 DEF ControlInv, Writing
<1>5. FrameSent' = FrameSent /\ FrameSent \in Seq(Int) /\ Len(FrameSent) \in Nat
  BY FrameSentIs, LenProperties DEF FrameSent, encoderVars
<1>6. Underway' = <<FrameSent>> /\ Len(sent') = 0 /\ Len(pushed') = 0
  BY <1>1, <1>5 DEF Underway, Unconnected, clientVars, frameVars
<1>7. FrameInv'
  <2>1. Reading' = FrameSent /\ MessageLen(FrameSent) = 4 + Len(FrameSent)
    BY <1>6 DEF Reading, MessageLen
  <2>2. FirstBytes(Len(FrameSent), 0) = 0
    BY DEF FirstBytes
  <2>3. /\ pushed' = <<>> /\ ~exited' /\ readFrameBytes' = 0 /\ frameBody' = <<>>
        /\ frameBodyLength' = 0 /\ sent' = <<>>
    BY <1>1 DEF Unconnected, clientVars, frameVars
  <2>4. readFrameBytes' \in 0 .. MessageLen(Reading') - 1
    BY <1>5, <2>1, <2>3
  <2>q. QED BY <1>6, <2>1, <2>2, <2>3, <2>4, EmptySeq DEF FrameInv
<1>8. \E offset \in [1 .. Len(sent') + 1 -> Int] : Located(offset)'
  <2> DEFINE o == [k \in 1 .. 1 |-> BANNER_SIZE]
  <2>1. Unread' = BannerBytes
    <3>1. chunk' = <<>> /\ socket' = <<>> /\ unsent' = BannerBytes
      BY <1>1 DEF Unconnected, clientVars
    <3>2. <<>> \in Seq(Int) /\ <<>> \o BannerBytes = BannerBytes /\ <<>> \o <<>> = <<>>
      BY BannerIsSeq, EmptySeq, ConcatEmptySeq
    <3>q. QED BY <3>1, <3>2 DEF Unread
  <2>2. LaidOut(BannerBytes, <<FrameSent>>, o)
    BY <1>5, LaidOutFirst
  <2>3. o \in [1 .. 1 -> Int] /\ o[1] = 24 /\ BANNER_SIZE = 24
    BY DEF BANNER_SIZE
  <2>4. readBannerBytes' = 0 /\ readFrameBytes' = 0 /\ sent' = <<>>
    BY <1>1 DEF Unconnected, clientVars, bannerVars, frameVars
  <2> HIDE DEF o
  <2>5. Ends(Len(BannerBytes) - o[1])'
    BY <2>3, <2>4, BannerIsSeq DEF Ends
  <2>6. Located(o)'
    BY <1>6, <2>1, <2>2, <2>3, <2>4, <2>5 DEF Located
  <2>q. QED BY <1>6, <2>3, <2>6
<1>q. QED BY <1>2, <1>3, <1>4, <1>7, <1>8 DEF FramingInv, ConnectionInv

\* A frame that encode() has compressed to n bytes, for which there is room.
LEMMA EncodeIs ==
  ASSUME FramingInv, at \in {"loop", "shot"}, NEW n \in Sizes, NEW k \in Nat,
         NEW prefix \in Seq(Int), Len(prefix) <= mPrePadding, encode(Jpeg(k, n), prefix)
  PROVE  /\ mEncodedData' \in Seq(Int) /\ WithinBuffer'
         /\ maxSize' = mPrePadding + mPostPadding + BufSize
         /\ mEncodedSize' = n /\ n \in 0 .. BufSize /\ FrameSent' = Jpeg(k, n)
         /\ SubSeq(mEncodedData', mPrePadding - Len(prefix) + 1, mPrePadding + n)
              = prefix \o Jpeg(k, n)
<1> DEFINE b == Jpeg(k, n)
<1>1. /\ mEncodedData \in Seq(Int) /\ Len(mEncodedData) = mPrePadding + mPostPadding + BufSize
      /\ maxSize = mPrePadding + mPostPadding + BufSize
  BY DEF FramingInv, EncoderInv, WithinBuffer
<1>2. b \in Seq(Int) /\ Len(b) = n /\ n \in 2 .. BufSize /\ BufSize \in Nat
  BY JpegIsSeq, EncoderAssumption
<1> HIDE DEF b
<1>3. Len(b) <= BufSize
  BY <1>2
<1>4. /\ mEncodedData' = Overwrite(Overwrite(mEncodedData, mPrePadding, b),
                                   mPrePadding - Len(prefix), prefix)
      /\ mEncodedSize' = n /\ maxSize' = maxSize
  BY <1>2 DEF encode, b
<1>5. /\ mEncodedData' \in Seq(Int) /\ Len(mEncodedData') = Len(mEncodedData)
      /\ SubSeq(mEncodedData', mPrePadding + 1, mPrePadding + Len(b)) = b
      /\ SubSeq(mEncodedData', mPrePadding - Len(prefix) + 1, mPrePadding + Len(b))
           = prefix \o b
  <2>1. mEncodedData' = Overwrite(Overwrite(mEncodedData, mPrePadding, b),
                                  mPrePadding - Len(prefix), prefix)
    BY <1>4
  <2>2. Len(mEncodedData) = mPrePadding + mPostPadding + BufSize /\ b \in Seq(Int)
    BY <1>1, <1>2
  <2>q. QED BY <1>1, <1>3, <2>1, <2>2, Encoded, ZenonT(40)
<1>6. WithinBuffer'
  BY <1>1, <1>4, <1>5, Zenon DEF WithinBuffer
<1>7. FrameSent' = b
  BY <1>2, <1>4, <1>5, Zenon DEF FrameSent
<1>8. n \in 0 .. BufSize
  BY <1>2
<1>q. QED BY <1>1, <1>2, <1>4, <1>5, <1>6, <1>7, <1>8 DEF b

LEMMA EncodeFrameStep ==
  ASSUME FramingInv, EncodeFrame
  PROVE  FramingInv'
<1>1. /\ at = "loop" /\ frames < MaxFrames /\ frames' = frames + 1 /\ at' = "frame"
      /\ UNCHANGED <<clientVars, connected, connections, sent, stdout>>
  BY DEF EncodeFrame
<1>2. PICK n \in Sizes :
        /\ encode(Jpeg(frames + 1, n), putUInt32LE(n))
        /\ unsent' = SubSeq(mEncodedData', mPrePadding - 3, mPrePadding + mEncodedSize')
  BY DEF EncodeFrame
<1> DEFINE f == Jpeg(frames + 1, n)
<1>3. /\ BytesInv /\ ControlInv /\ ShotInv /\ unsent = <<>> /\ frames \in Nat
      /\ frames + 1 \in Nat /\ frames + 1 \in 1 .. MaxFrames /\ mPrePadding = 4
  BY <1>1, FramingAssumption DEF FramingInv, BytesInv, ControlInv, Writing
<1>4. f \in Seq(Int) /\ Len(f) = n /\ n \in Nat /\ n >= 2 /\ f \in JpegFrames
  <2>1. frames + 1 \in Int
    BY <1>3
  <2>2. f \in Seq(Int) /\ Len(f) = n /\ n \in 2 .. BufSize /\ BufSize \in Nat
    BY <2>1, JpegIsSeq, EncoderAssumption
  <2>3. f \in JpegFrames
    BY <1>3 DEF JpegFrames
  <2>q. QED BY <2>2, <2>3
<1>5. /\ putUInt32LE(n) \in Seq(Int) /\ Len(putUInt32LE(n)) = 4
      /\ Len(putUInt32LE(n)) <= mPrePadding
  <2>1. n \in Int
    BY <1>4
  <2>2. putUInt32LE(n) \in Seq(Int) /\ Len(putUInt32LE(n)) = 4
    BY <2>1, DigitsAreNumbers
  <2>q. QED BY <1>3, <2>2
<1>6. /\ mEncodedData' \in Seq(Int) /\ WithinBuffer'
      /\ maxSize' = mPrePadding + mPostPadding + BufSize
      /\ mEncodedSize' = n /\ n \in 0 .. BufSize /\ FrameSent' = f
      /\ SubSeq(mEncodedData', mPrePadding - Len(putUInt32LE(n)) + 1, mPrePadding + n)
           = putUInt32LE(n) \o f
  <2>1. at \in {"loop", "shot"}
    BY <1>1
  <2>q. QED BY <1>2, <1>3, <1>5, <2>1, EncodeIs, Zenon
<1> HIDE DEF f
<1>7. unsent' = Message(f)
  <2>1. mPrePadding - Len(putUInt32LE(n)) + 1 = mPrePadding - 3
    BY <1>3, <1>5
  <2>q. QED BY <1>2, <1>4, <1>6, <2>1, Zenon DEF Message
<1>8. /\ Message(f) \in Seq(Int) /\ Len(Message(f)) = MessageLen(f)
      /\ MessageLen(f) \in Nat /\ MessageLen(f) >= 6
  <2>1. MessageLen(f) = 4 + n
    BY <1>4 DEF MessageLen
  <2>q. QED BY <1>4, <2>1, MessageIsSeq
<1>9. BytesInv'
  BY <1>1, <1>3, <1>7, <1>8 DEF BytesInv, clientVars
<1>10. EncoderInv'
  <2>1. frames' \in 1 .. MaxFrames /\ frames' # 0
    BY <1>1, <1>3
  <2>2. FrameSent' = Jpeg(frames', mEncodedSize')
    BY <1>1, <1>6 DEF f
  <2>q. QED BY <1>6, <2>1, <2>2 DEF EncoderInv
<1>11. ControlInv'
  <2>1. unsent' # <<>>
    BY <1>7, <1>8, NothingIsShort
  <2>q. QED BY <1>1, <2>1 DEF ControlInv, Writing
<1>12. ShotInv' /\ BannerInv'
  BY <1>1, StdoutStays, BannerStays DEF clientVars
<1>13. CASE ~connected
  <2>1. ConnectionInv'
    BY <1>1, <1>13, StaysUnconnected
  <2>q. QED BY <1>9, <1>10, <1>11, <1>12, <2>1 DEF FramingInv
<1>14. CASE connected
  <2>1. FrameInv /\ BannerInv
    BY <1>14 DEF FramingInv, ConnectionInv
  <2>2. PICK o \in [1 .. Len(sent) + 1 -> Int] : Located(o)
    BY <1>14 DEF FramingInv, ConnectionInv
  <2> DEFINE last == Len(sent) + 1
             p == Len(pushed) + 1
  <2>3. /\ sent \in Bodies /\ Len(sent) \in Nat /\ FrameSent \in Seq(Int)
        /\ Underway[last] = FrameSent
    BY FramesUnderway, FrameSentIs
  <2>4. /\ Unread \in Seq(Int) /\ Len(Unread) \in Nat
        /\ Unread' = Unread \o Message(f)
        /\ Len(Unread') = Len(Unread) + MessageLen(f)
    <3>1. chunk \in Seq(Int) /\ socket \in Seq(Int)
      BY <1>3 DEF BytesInv
    <3>2. chunk \o socket \in Seq(Int)
      BY <3>1, ConcatProperties
    <3>3. (chunk \o socket) \o <<>> = chunk \o socket
      BY <3>2, ConcatEmptySeq
    <3>4. Unread = chunk \o socket
      BY <1>3, <3>3 DEF Unread
    <3>5. Unread' = (chunk \o socket) \o Message(f)
      BY <1>1, <1>7 DEF Unread, clientVars
    <3>6. /\ Len(Unread) \in Nat
          /\ Len(Unread \o Message(f)) = Len(Unread) + Len(Message(f))
      BY <1>8, <3>2, <3>4, ConcatInts, Zenon
    <3>q. QED BY <1>8, <3>2, <3>4, <3>5, <3>6
  <2>5. Underway' = Append(sent, f)
    BY <1>1, <1>6 DEF Underway
  <2>6. LaidOut(Unread, Append(sent, FrameSent), o) /\ o[last] = Len(Unread)
    <3>1. o[last] \in Int
      BY <2>2, <2>3
    <3>2. Len(Unread) - o[last] = 0
      BY <1>1, <2>2 DEF Located, Ends
    <3>q. QED BY <2>2, <2>4, <3>1, <3>2 DEF Located, Underway
  <2>7. LaidOut(Unread', Underway', o)
    BY <1>4, <2>3, <2>4, <2>5, <2>6, LaidOutAdded, Zenon
  <2>8. /\ Len(pushed) \in Nat /\ Len(pushed) <= Len(sent)
        /\ readBannerBytes \in 0 .. BANNER_SIZE /\ BANNER_SIZE = 24
        /\ readFrameBytes \in Int
        /\ o[p] = BANNER_SIZE - readBannerBytes - readFrameBytes
    <3>1. Len(pushed) \in Nat /\ Len(pushed) <= Len(sent)
      BY <2>1, LenProperties DEF FrameInv
    <3>q. QED BY <2>1, <2>2, <3>1 DEF FrameInv, BannerInv, Located, BANNER_SIZE
  <2>9. p = last => readFrameBytes = 0
    <3> SUFFICES ASSUME p = last PROVE readFrameBytes = 0
      OBVIOUS
    <3>1. BANNER_SIZE - readBannerBytes - readFrameBytes = Len(Unread)
      BY <2>6, <2>8
    <3>2. readFrameBytes >= 0
      BY <2>1 DEF FrameInv
    <3>3. readBannerBytes < BANNER_SIZE => readFrameBytes = 0
      BY <2>1 DEF FrameInv
    <3>q. QED BY <2>4, <2>8, <3>1, <3>2, <3>3
  <2>10. Append(sent, f)[last] = f /\ \A k \in 1 .. Len(sent) : Append(sent, f)[k] = sent[k]
    BY <1>4, <2>3, AppendProperties DEF Bodies
  <2>11. Located(o)'
    <3>1. Ends(Len(Unread) - o[last])'
      <4>1. Len(Unread') - o[last] = MessageLen(f)
        BY <1>8, <2>4, <2>6
      <4>2. FrameSent' = f /\ at' = "frame" /\ sent' = sent
        BY <1>1, <1>6
      <4>q. QED BY <4>1, <4>2 DEF Ends
    <3>q. QED BY <1>1, <2>7, <2>8, <3>1 DEF Located, clientVars, bannerVars, frameVars
  <2>12. FrameInv'
    <3>1. UNCHANGED <<exited, pushed, sent, readFrameBytes, readBannerBytes, frameBody,
                      frameBodyLength>>
      BY <1>1 DEF clientVars, bannerVars, frameVars
    <3>2. Reading' = Append(sent, f)[p]
      BY <2>5, <3>1 DEF Reading
    <3>3. CASE p = last
      <4>1. Reading' = f /\ readFrameBytes = 0
        BY <2>9, <2>10, <3>2, <3>3
      <4>2. FirstBytes(Len(f), 0) = 0 /\ FirstBytes(Len(Reading), 0) = 0
        BY DEF FirstBytes
      <4>3. frameBody = <<>> /\ frameBodyLength = 0
        BY <2>1, <4>1, <4>2 DEF FrameInv
      <4>4. readFrameBytes' \in 0 .. MessageLen(Reading') - 1
        BY <1>8, <3>1, <4>1
      <4>q. QED BY <2>1, <3>1, <4>1, <4>2, <4>3, <4>4 DEF FrameInv
    <3>4. CASE p # last
      <4>1. p \in 1 .. Len(sent)
        BY <2>3, <2>8, <3>4
      <4>2. Reading' = Reading
        BY <2>10, <3>2, <4>1, FramesUnderway DEF Reading
      <4>q. QED BY <2>1, <3>1, <4>2 DEF FrameInv
    <3>q. QED BY <3>3, <3>4
  <2>13. ConnectionInv'
    BY <1>1, <1>14, <2>2, <2>11, <2>12 DEF ConnectionInv
  <2>q. QED BY <1>9, <1>10, <1>11, <1>12, <2>13 DEF FramingInv
<1>q. QED BY <1>13, <1>14

LEMMA UnreadIs ==
  ASSUME FramingInv
  PROVE  /\ Unread \in Seq(Int) /\ chunk \o socket \in Seq(Int)
         /\ Len(chunk) \in Nat /\ Len(socket) \in Nat /\ Len(unsent) \in Nat
         /\ Len(Unread) = Len(chunk) + Len(socket) + Len(unsent)
         /\ Len(chunk \o socket) = Len(chunk) + Len(socket)
         /\ \A j \in 1 .. Len(chunk) : Unread[j] = chunk[j]
         /\ \A j \in 1 .. Len(chunk) + Len(socket) : Unread[j] = (chunk \o socket)[j]
<1> DEFINE p == chunk \o socket
           u == p \o unsent
<1>1. chunk \in Seq(Int) /\ socket \in Seq(Int) /\ unsent \in Seq(Int)
  BY DEF FramingInv, BytesInv
<1>2. /\ p \in Seq(Int) /\ Len(chunk) \in Nat /\ Len(socket) \in Nat
      /\ Len(p) = Len(chunk) + Len(socket)
      /\ \A j \in 1 .. Len(chunk) : p[j] = chunk[j]
  BY <1>1, ConcatInts, Zenon
<1> HIDE DEF p
<1>3. /\ u \in Seq(Int) /\ Len(unsent) \in Nat /\ Len(u) = Len(p) + Len(unsent)
      /\ \A j \in 1 .. Len(p) : u[j] = p[j]
  BY <1>1, <1>2, ConcatInts, Zenon
<1> HIDE DEF u
<1>4. \A j \in 1 .. Len(chunk) : u[j] = chunk[j]
  BY <1>2, <1>3
<1>5. Unread = u
  BY DEF Unread, u, p
<1>q. QED BY <1>2, <1>3, <1>4, <1>5 DEF p

LEMMA ReaderStays ==
  ASSUME FramingInv, connected, UNCHANGED <<bannerVars, frameVars, sent, encoderVars>>
  PROVE  FrameInv' /\ Underway' = Underway /\ FrameSent' = FrameSent
<1>1. FrameInv
  BY DEF FramingInv, ConnectionInv
<1>2. FrameSent' = FrameSent
  BY DEF FrameSent, encoderVars
<1>3. Underway' = Underway
  BY <1>2 DEF Underway
<1>4. Reading' = Reading
  BY <1>3 DEF Reading, frameVars
<1>q. QED BY <1>1, <1>2, <1>3, <1>4 DEF FrameInv, frameVars, bannerVars

\* The stream, and how far it goes beyond the frames that have been sent.
LEMMA TailFacts ==
  ASSUME FramingInv, connected
  PROVE  /\ Unread \in Seq(Int) /\ Len(Unread) \in Nat
         /\ Len(chunk) \in Nat /\ Len(socket) \in Nat /\ Len(unsent) \in Nat
         /\ Len(Unread) = Len(chunk) + Len(socket) + Len(unsent)
         /\ MessageLen(FrameSent) \in Nat
         /\ \E offset \in [1 .. Len(sent) + 1 -> Int] :
              Located(offset) /\ offset[Len(sent) + 1] \in Int
<1>2. /\ Unread \in Seq(Int)
      /\ Len(chunk) \in Nat /\ Len(socket) \in Nat /\ Len(unsent) \in Nat
      /\ Len(Unread) = Len(chunk) + Len(socket) + Len(unsent)
  BY UnreadIs
<1>3. MessageLen(FrameSent) \in Nat
  BY FrameSentIs, MessageIsSeq
<1>4. PICK o \in [1 .. Len(sent) + 1 -> Int] : Located(o)
  BY DEF FramingInv, ConnectionInv
<1>5. Len(sent) \in Nat
  BY FramesUnderway
<1>6. o[Len(sent) + 1] \in Int
  BY <1>4, <1>5
<1>7. Len(Unread) \in Nat
  BY <1>2
<1>q. QED BY <1>2, <1>3, <1>4, <1>6, <1>7, Zenon

LEMMA LeaveLoopStep ==
  ASSUME FramingInv, LeaveLoop
  PROVE  FramingInv'
<1>1. /\ at = "loop" /\ at' \in {"ended", "accept"}
      /\ UNCHANGED <<encoderVars, clientVars, unsent, connected, frames, sent, stdout>>
  BY DEF LeaveLoop
<1>2. BytesInv' /\ ControlInv'
  BY <1>1 DEF FramingInv, BytesInv, ControlInv, Writing, clientVars
<1>3. EncoderInv' /\ ShotInv' /\ BannerInv'
  BY <1>1, EncoderStays, StdoutStays, BannerStays DEF clientVars
<1>4. CASE ~connected
  BY <1>1, <1>2, <1>3, <1>4, StaysUnconnected DEF FramingInv
<1>5. CASE connected
  <2>1. PICK o \in [1 .. Len(sent) + 1 -> Int] : Located(o) /\ o[Len(sent) + 1] \in Int
    BY <1>5, TailFacts
  <2>2. FrameInv' /\ Underway' = Underway /\ FrameSent' = FrameSent
    BY <1>1, <1>5, ReaderStays DEF clientVars
  <2>3. Unread' = Unread
    BY <1>1 DEF Unread, clientVars
  <2>4. /\ Len(Unread) - o[Len(sent) + 1] = 0
        /\ Len(Unread) - o[Len(sent) + 1] < MessageLen(FrameSent)
    <3>1. MessageLen(FrameSent) >= 4 /\ MessageLen(FrameSent) \in Nat
      BY FrameSentIs DEF MessageLen
    <3>2. Len(Unread) - o[Len(sent) + 1] = 0
      BY <1>1, <2>1 DEF Located, Ends
    <3>q. QED BY <3>1, <3>2
  <2>5. Located(o)'
    <3>1. Ends(Len(Unread) - o[Len(sent) + 1])'
      BY <1>1, <2>2, <2>3, <2>4 DEF Ends
    <3>q. QED BY <1>1, <2>1, <2>2, <2>3, <3>1
             DEF Located, clientVars, bannerVars, frameVars
  <2>6. ConnectionInv'
    BY <1>1, <1>5, <2>1, <2>2, <2>5 DEF ConnectionInv
  <2>q. QED BY <1>2, <1>3, <2>6 DEF FramingInv
<1>q. QED BY <1>4, <1>5

LEMMA SendFailsStep ==
  ASSUME FramingInv, SendFails
  PROVE  FramingInv'
<1>1. /\ at \in {"banner", "frame"} /\ unsent' = <<>>
      /\ (~connected /\ at' = "accept") \/ at' = "ended"
      /\ UNCHANGED <<encoderVars, clientVars, connected, frames, sent, stdout>>
  BY DEF SendFails
<1>2. BytesInv' /\ ControlInv'
  <2>1. BytesInv'
    BY <1>1, NothingIsShort DEF FramingInv, BytesInv, clientVars
  <2>2. at' \in {"accept", "ended"} /\ (at' = "accept" => ~connected')
    BY <1>1
  <2>3. ControlInv'
    BY <1>1, <2>2 DEF ControlInv, Writing
  <2>q. QED BY <2>1, <2>3
<1>3. EncoderInv' /\ ShotInv' /\ BannerInv'
  BY <1>1, EncoderStays, StdoutStays, BannerStays DEF clientVars
<1>4. CASE ~connected
  BY <1>1, <1>2, <1>3, <1>4, StaysUnconnected DEF FramingInv
<1>5. CASE connected
  <2>1. PICK o \in [1 .. Len(sent) + 1 -> Int] : Located(o) /\ o[Len(sent) + 1] \in Int
    BY <1>5, TailFacts
  <2>2. FrameInv' /\ Underway' = Underway /\ FrameSent' = FrameSent
    BY <1>1, <1>5, ReaderStays DEF clientVars
  <2>3. /\ chunk \in Seq(Int) /\ socket \in Seq(Int) /\ unsent \in Seq(Int) /\ unsent # <<>>
    BY <1>1 DEF FramingInv, BytesInv, ControlInv, Writing
  <2>4. Unread' = chunk \o socket
    <3>1. chunk \o socket \in Seq(Int)
      BY <2>3, ConcatProperties
    <3>2. (chunk \o socket) \o <<>> = chunk \o socket
      BY <3>1, ConcatEmptySeq
    <3>q. QED BY <1>1, <3>2 DEF Unread, clientVars
  <2>5. /\ Unread \in Seq(Int) /\ Unread' \in Seq(Int) /\ Len(Unread') \in Nat
        /\ Len(Unread) \in Nat /\ Len(Unread') < Len(Unread)
        /\ \A j \in 1 .. Len(Unread') : Unread'[j] = Unread[j]
    <3>1. Len(unsent) \in Nat \ {0}
      BY <2>3, EmptySeq
    <3> DEFINE w == chunk \o socket
    <3>2. /\ Unread \in Seq(Int) /\ w \in Seq(Int)
          /\ Len(chunk) \in Nat /\ Len(socket) \in Nat
          /\ Len(Unread) = Len(chunk) + Len(socket) + Len(unsent)
          /\ Len(w) = Len(chunk) + Len(socket)
          /\ \A j \in 1 .. Len(chunk) + Len(socket) : Unread[j] = w[j]
      BY UnreadIs
    <3> HIDE DEF w
    <3>3. Unread' = w
      BY <2>4 DEF w
    <3>4. /\ Len(w) \in Nat /\ Len(Unread) \in Nat /\ Len(w) < Len(Unread)
          /\ \A j \in 1 .. Len(w) : w[j] = Unread[j]
      BY <3>1, <3>2
    <3>q. QED BY <3>2, <3>3, <3>4, Zenon
  <2>6. Len(Unread') - o[Len(sent) + 1] < MessageLen(FrameSent)
    <3>1. MessageLen(FrameSent) \in Nat
      BY <1>5, TailFacts
    <3>2. \/ Len(Unread) - o[Len(sent) + 1] = 0
          \/ Len(Unread) - o[Len(sent) + 1] = MessageLen(FrameSent)
      BY <1>1, <2>1 DEF Located, Ends
    <3>q. QED BY <2>1, <2>5, <3>1, <3>2
  <2>7. LaidOut(Unread', Underway, o)
    <3>1. Len(Unread') <= Len(Unread)
      BY <2>5
    <3>q. QED BY <2>1, <2>5, <3>1, LaidOutCut, Zenon DEF Located
  <2>8. Located(o)'
    <3>1. Ends(Len(Unread) - o[Len(sent) + 1])'
      BY <1>1, <1>5, <2>2, <2>6 DEF Ends
    <3>q. QED BY <1>1, <2>1, <2>2, <2>7, <3>1
             DEF Located, clientVars, bannerVars, frameVars
  <2>9. ConnectionInv'
    BY <1>1, <1>5, <2>1, <2>2, <2>8 DEF ConnectionInv
  <2>q. QED BY <1>2, <1>3, <2>9 DEF FramingInv
<1>q. QED BY <1>4, <1>5

LEMMA Reassociated ==
  ASSUME NEW x \in Seq(Int), NEW y \in Seq(Int), NEW z \in Seq(Int)
  PROVE  (x \o y) \o z = x \o (y \o z)
BY ConcatAssociative, SMTT(30)

\* Bytes that go from one place to the next stay in the stream.
LEMMA SendSomeStep ==
  ASSUME FramingInv, SendSome
  PROVE  FramingInv'
<1>1. /\ connected
      /\ UNCHANGED <<encoderVars, chunk, bannerVars, frameVars, connected, frames, stdout>>
      /\ IF unsent' # <<>>
         THEN UNCHANGED <<at, sent>>
         ELSE /\ at' = "loop"
              /\ sent' = IF at = "frame" THEN Append(sent, FrameSent) ELSE sent
  BY DEF SendSome
<1>2. PICK wrote \in 1 .. Len(unsent) :
        /\ socket' = socket \o SubSeq(unsent, 1, wrote)
        /\ unsent' = SubSeq(unsent, wrote + 1, Len(unsent))
  BY DEF SendSome
<1>3. /\ chunk \in Seq(Int) /\ socket \in Seq(Int) /\ unsent \in Seq(Int)
      /\ ControlInv /\ BytesInv
  BY DEF FramingInv, BytesInv
<1>4. wrote \in 0 .. Len(unsent) /\ Len(unsent) \in Nat /\ Len(unsent) # 0
  BY <1>2, <1>3, LenProperties
<1>5. at \in {"banner", "frame"}
  <2>1. unsent # <<>>
    BY <1>4, NothingIsShort
  <2>q. QED BY <1>1, <1>3, <2>1 DEF ControlInv, Writing
<1>6. socket' \in Seq(Int) /\ unsent' \in Seq(Int)
  <2>1. /\ SubSeq(unsent, 1, wrote) \in Seq(Int)
        /\ SubSeq(unsent, wrote + 1, Len(unsent)) \in Seq(Int)
    BY <1>3, <1>4, Parts
  <2>q. QED BY <1>2, <1>3, <2>1, ConcatProperties
<1>7. Unread' = Unread
  <2> DEFINE a == SubSeq(unsent, 1, wrote)
             b == SubSeq(unsent, wrote + 1, Len(unsent))
             x == chunk \o socket
  <2>1. chunk \in Seq(Int) /\ socket \in Seq(Int)
    BY <1>3
  <2>2. a \in Seq(Int) /\ b \in Seq(Int)
    BY <1>3, <1>4, Parts
  <2>3. a \o b = unsent
    BY <1>3, <1>4, Parts
  <2>4. socket' = socket \o a
    BY <1>2
  <2>5. unsent' = b
    BY <1>2
  <2>6. x \in Seq(Int)
    BY <2>1, ConcatInts, Zenon
  <2> HIDE DEF a, b
  <2>7. x \o a = chunk \o (socket \o a)
    BY <2>1, <2>2, Reassociated, Zenon
  <2> HIDE DEF x
  <2>8. (x \o a) \o b = x \o (a \o b)
    BY <2>2, <2>6, Reassociated, Zenon
  <2>9. Unread' = (x \o a) \o b
    BY <1>1, <2>4, <2>5, <2>7, Zenon DEF Unread
  <2>q. QED BY <2>3, <2>8, <2>9 DEF Unread, x
<1>8. /\ FrameSent \in Seq(Int) /\ FrameSent' = FrameSent
      /\ at = "frame" => FrameSent \in JpegFrames
  BY <1>1, FrameSentIs DEF FrameSent, encoderVars
<1>9. BytesInv'
  <2>1. sent' \in Seq(JpegFrames)
    <3>1. sent \in Seq(JpegFrames)
      BY <1>3 DEF BytesInv
    <3>2. CASE sent' = sent
      BY <3>1, <3>2
    <3>3. CASE sent' = Append(sent, FrameSent) /\ at = "frame"
      BY <1>8, <3>1, <3>3, AppendProperties
    <3>q. QED BY <1>1, <3>2, <3>3
  <2>q. QED BY <1>1, <1>3, <1>6, <2>1 DEF BytesInv
<1>10. /\ at' \in {at, "loop"}
       /\ at' = at => unsent' # <<>>
       /\ at' = "loop" => unsent' = <<>>
  BY <1>1, <1>5
<1>11. EncoderInv'
  BY <1>1, <1>5, <1>10, EncoderStays
<1>12. ControlInv'
  BY <1>1, <1>3, <1>5, <1>10 DEF ControlInv, Writing
<1>13. ShotInv' /\ BannerInv'
  BY <1>1, <1>5, <1>10, StdoutStays, BannerStays
<1>14. PICK o \in [1 .. Len(sent) + 1 -> Int] : Located(o) /\ o[Len(sent) + 1] \in Int
  BY <1>1, TailFacts
<1>15. /\ Unread \in Seq(Int) /\ Len(Unread) \in Nat /\ MessageLen(FrameSent) \in Nat
  BY <1>1, TailFacts
<1>16. FrameInv
  BY <1>1 DEF FramingInv, ConnectionInv
<1>17. CASE ~(at' = "loop" /\ at = "frame")
  <2>1. sent' = sent
    BY <1>1, <1>10, <1>17
  <2>2. FrameInv' /\ Underway' = Underway /\ FrameSent' = FrameSent
    BY <1>1, <2>1, ReaderStays
  <2>3. Ends(Len(Unread) - o[Len(sent) + 1])'
    <3>1. CASE at' = at
      BY <1>7, <1>8, <1>14, <2>1, <3>1 DEF Ends, Located
    <3>2. CASE at' # at
      <4>1. at = "banner" /\ at' = "loop"
        BY <1>5, <1>10, <1>17, <3>2
      <4>2. Len(Unread) - o[Len(sent) + 1] = 0
        BY <1>14, <4>1 DEF Ends, Located
      <4>q. QED BY <1>7, <2>1, <4>1, <4>2 DEF Ends
    <3>q. QED BY <3>1, <3>2
  <2>4. Located(o)'
    BY <1>1, <1>7, <1>14, <2>1, <2>2, <2>3 DEF Located, bannerVars, frameVars
  <2>5. ConnectionInv'
    BY <1>1, <1>14, <2>1, <2>2, <2>4 DEF ConnectionInv
  <2>q. QED BY <1>9, <1>11, <1>12, <1>13, <2>5 DEF FramingInv
<1>18. CASE at' = "loop" /\ at = "frame"
  <2> DEFINE n == Len(sent) + 1
             last == o[n] + MessageLen(FrameSent)
             x == [k \in 1 .. Len(Underway) + 1 |->
                     IF k <= Len(Underway) THEN o[k]
                     ELSE o[Len(Underway)] + MessageLen(Underway[Len(Underway)])]
  <2>1. sent' = Append(sent, FrameSent) /\ sent' = Underway
    BY <1>1, <1>10, <1>18 DEF Underway
  <2>2. /\ Len(sent) \in Nat /\ Underway \in Bodies /\ Underway # <<>> /\ Len(Underway) = n
        /\ Underway[n] = FrameSent
        /\ \A k \in 1 .. Len(sent) : Underway[k] = sent[k] /\ sent[k] \in JpegFrames
    BY FramesUnderway
  <2>3. Underway' = Append(Underway, FrameSent)
    BY <1>8, <2>1 DEF Underway
  <2>4. /\ \A k \in 1 .. n : Append(Underway, FrameSent)[k] = Underway[k]
        /\ Append(Underway, FrameSent)[n + 1] = FrameSent
    BY <1>8, <2>2, AppendProperties DEF Bodies
  <2>5. Len(Unread) - o[n] = MessageLen(FrameSent)
    BY <1>14, <1>18 DEF Located, Ends
  <2>6. LaidOut(Unread, Append(Underway, FrameSent), x)
    <3>1. Len(Unread) <= o[Len(Underway)] + MessageLen(Underway[Len(Underway)])
      BY <1>14, <1>15, <2>2, <2>5
    <3>2. LaidOut(Unread, Underway, o)
      BY <1>14 DEF Located
    <3>q. QED BY <1>8, <1>15, <2>2, <3>1, <3>2, LaidOutSent
  <2>7. /\ x \in [1 .. n + 1 -> Int] /\ x[n + 1] = last
        /\ \A k \in 1 .. n : x[k] = o[k]
    <3>1. last \in Int
      BY <1>14, <1>15
    <3>2. x = [k \in 1 .. n + 1 |-> IF k <= n THEN o[k] ELSE last]
      BY <2>2
    <3> HIDE DEF x, last
    <3>3. \A k \in 1 .. n + 1 : (IF k <= n THEN o[k] ELSE last) \in Int
      BY <1>14, <2>2, <3>1
    <3>4. n + 1 \in 1 .. n + 1 /\ ~(n + 1 <= n) /\ \A k \in 1 .. n : k \in 1 .. n + 1 /\ k <= n
      BY <2>2
    <3>q. QED BY <3>2, <3>3, <3>4
  <2> HIDE DEF x
  <2>8. PICK e \in [1 .. n + 1 -> Int] :
           /\ LaidOut(Unread, Append(Underway, FrameSent), e)
           /\ e[n + 1] = last /\ \A k \in 1 .. n : e[k] = o[k]
    BY <2>6, <2>7, Zenon
  <2>9. /\ Len(pushed) \in Nat /\ Len(pushed) <= Len(sent) /\ Len(pushed) + 1 \in 1 .. n
        /\ pushed' = pushed
    <3>1. Len(pushed) \in Nat /\ Len(pushed) <= Len(sent)
      BY <1>16, LenProperties DEF FrameInv
    <3>q. QED BY <1>1, <2>2, <3>1 DEF frameVars
  <2>10. Len(sent') = n
    BY <2>1, <2>2
  <2>11. Located(e)'
    <3>1. e[n + 1] \in Int /\ Len(Unread) - e[n + 1] = 0
      BY <1>14, <1>15, <2>2, <2>5, <2>8
    <3>2. Ends(0)'
      BY <1>18 DEF Ends
    <3>3. e[Len(pushed) + 1] = o[Len(pushed) + 1]
      BY <2>9, <2>8
    <3>4. UNCHANGED <<readBannerBytes, readFrameBytes>>
      BY <1>1 DEF bannerVars, frameVars
    <3>5. e[Len(pushed') + 1] = BANNER_SIZE - readBannerBytes' - readFrameBytes'
      BY <1>14, <2>9, <3>3, <3>4 DEF Located
    <3>6. Len(Unread') - e[Len(sent') + 1] = 0
      BY <1>7, <2>10, <3>1
    <3>7. LaidOut(Unread', Underway', e)
      BY <1>7, <2>3, <2>8
    <3>q. QED BY <3>2, <3>5, <3>6, <3>7, Zenon DEF Located
  <2>12. FrameInv'
    <3>1. Reading' = Reading
      BY <2>3, <2>4, <2>9 DEF Reading
    <3>2. \A i \in 1 .. Len(pushed) : pushed[i] = sent'[i]
      <4>1. \A i \in 1 .. Len(pushed) : i \in 1 .. Len(sent)
        BY <2>2, <2>9
      <4>q. QED BY <1>16, <2>1, <2>2, <4>1 DEF FrameInv
    <3>3. Len(pushed) <= Len(sent')
      BY <2>2, <2>9, <2>10
    <3>4. UNCHANGED <<exited, pushed, readFrameBytes, readBannerBytes, frameBody,
                      frameBodyLength>>
      BY <1>1 DEF bannerVars, frameVars
    <3>5. /\ ~exited /\ pushed \in Seq(JpegFrames)
          /\ readFrameBytes \in 0 .. MessageLen(Reading) - 1
          /\ readBannerBytes < BANNER_SIZE => pushed = <<>> /\ readFrameBytes = 0
      BY <1>16 DEF FrameInv
    <3>6. /\ readFrameBytes <= 4 =>
               frameBody = <<>> /\ frameBodyLength = FirstBytes(Len(Reading), readFrameBytes)
          /\ readFrameBytes >= 4 =>
               /\ frameBodyLength = MessageLen(Reading) - readFrameBytes
               /\ frameBody = SubSeq(Reading, 1, readFrameBytes - 4)
      BY <1>16 DEF FrameInv
    <3>q. QED BY <3>1, <3>2, <3>3, <3>4, <3>5, <3>6, Zenon DEF FrameInv
  <2>13. ConnectionInv'
    BY <1>1, <2>10, <2>11, <2>12, <2>8 DEF ConnectionInv
  <2>q. QED BY <1>9, <1>11, <1>12, <1>13, <2>13 DEF FramingInv
<1>q. QED BY <1>17, <1>18

LEMMA EncodeShotStep ==
  ASSUME FramingInv, EncodeShot
  PROVE  FramingInv'
<1>1. /\ at = "shot" /\ UNCHANGED <<clientVars, connected, sent, stdout>>
  BY DEF EncodeShot
<1>2. /\ BytesInv /\ ControlInv /\ ShotInv /\ unsent = <<>> /\ frames = 0 /\ ~connected
      /\ stdout = <<>>
  BY <1>1 DEF FramingInv, ControlInv, Writing, ShotInv
<1>3. BannerInv' /\ ConnectionInv'
  BY <1>1, <1>2, BannerStays, StaysUnconnected DEF clientVars
<1>4. CASE at' = "ended" /\ UNCHANGED <<encoderVars, unsent, frames>>
  <2>1. BytesInv' /\ ControlInv'
    BY <1>1, <1>2, <1>4 DEF BytesInv, ControlInv, Writing, clientVars
  <2>2. EncoderInv' /\ ShotInv'
    BY <1>1, <1>4, EncoderStays, StdoutStays
  <2>q. QED BY <1>3, <2>1, <2>2 DEF FramingInv
<1>5. CASE /\ \E n \in Sizes : encode(Jpeg(frames + 1, n), <<>>)
           /\ unsent' = SubSeq(mEncodedData', mPrePadding + 1, mPrePadding + mEncodedSize')
           /\ frames' = frames + 1
           /\ at' = "shotWrite"
  <2>1. PICK n \in Sizes : encode(Jpeg(frames + 1, n), <<>>)
    BY <1>5
  <2>2. frames + 1 = 1
    BY <1>2
  <2>3. encode(Jpeg(1, n), <<>>)
    BY <2>1, <2>2
  <2>4. /\ mEncodedData' \in Seq(Int) /\ WithinBuffer'
        /\ maxSize' = mPrePadding + mPostPadding + BufSize
        /\ mEncodedSize' = n /\ n \in 0 .. BufSize /\ FrameSent' = Jpeg(1, n)
    <3>1. at \in {"loop", "shot"} /\ 1 \in Nat
      BY <1>1
    <3>2. Len(<<>>) <= mPrePadding /\ <<>> \in Seq(Int)
      BY NothingIsShort, EncoderAssumption
    <3>q. QED BY <2>3, <3>1, <3>2, EncodeIs, Zenon
  <2>5. unsent' = Jpeg(1, n) /\ Jpeg(1, n) \in Seq(Int) /\ Jpeg(1, n) # <<>>
    <3>1. unsent' = FrameSent'
      BY <1>5 DEF FrameSent
    <3>2. Jpeg(1, n) \in Seq(Int) /\ Len(Jpeg(1, n)) >= 2
      BY JpegIsSeq, EncoderAssumption
    <3>q. QED BY <2>4, <3>1, <3>2, NothingIsShort
  <2>6. frames' = 1 /\ frames' \in Nat
    BY <1>5, <2>2
  <2>7. BytesInv'
    BY <1>1, <1>2, <2>5, <2>6 DEF BytesInv, clientVars
  <2>8. EncoderInv'
    BY <1>5, <2>4, <2>6 DEF EncoderInv
  <2>9. ControlInv'
    BY <1>1, <1>2, <1>5, <2>5 DEF ControlInv, Writing
  <2>10. ShotInv'
    <3>1. ScreenshotIsJpeg'
      BY <1>1, <1>2, <1>5 DEF ShotInv, ScreenshotIsJpeg
    <3>2. stdout' \o unsent' = Jpeg(1, n)
      <4>1. <<>> \o Jpeg(1, n) = Jpeg(1, n)
        BY <2>5, ConcatEmptySeq
      <4>q. QED BY <1>1, <1>2, <2>5, <4>1
    <3>3. at' \notin {"shotDone", "ended"} /\ at' = "shotWrite"
      BY <1>5
    <3>q. QED BY <3>1, <3>2, <3>3, Zenon DEF ShotInv
  <2>q. QED BY <1>3, <2>7, <2>8, <2>9, <2>10 DEF FramingInv
<1>q. QED BY <1>4, <1>5 DEF EncodeShot

LEMMA WriteSomeStep ==
  ASSUME FramingInv, WriteSome
  PROVE  FramingInv'
<1>1. /\ at = "shotWrite" /\ at' = IF unsent' = <<>> THEN "shotDone" ELSE "shotWrite"
      /\ UNCHANGED <<encoderVars, clientVars, connected, frames, sent>>
  BY DEF WriteSome
<1>2. PICK wrote \in 1 .. Len(unsent) :
        /\ stdout' = stdout \o SubSeq(unsent, 1, wrote)
        /\ unsent' = SubSeq(unsent, wrote + 1, Len(unsent))
  BY DEF WriteSome
<1>3. /\ unsent \in Seq(Int) /\ stdout \in Seq(Int) /\ BytesInv /\ ControlInv /\ ~connected
  BY <1>1 DEF FramingInv, BytesInv, ControlInv
<1>4. PICK n \in Sizes : stdout \o unsent = Jpeg(1, n)
  BY <1>1 DEF FramingInv, ShotInv
<1>5. wrote \in 0 .. Len(unsent) /\ wrote >= 1
  BY <1>3, LenProperties
<1> DEFINE a == SubSeq(unsent, 1, wrote)
           b == SubSeq(unsent, wrote + 1, Len(unsent))
<1>6. a \in Seq(Int) /\ b \in Seq(Int) /\ Len(a) = wrote /\ a \o b = unsent
  BY <1>3, <1>5, Parts
<1>7. stdout' = stdout \o a /\ unsent' = b
  BY <1>2
<1> HIDE DEF a, b
<1>8. /\ stdout' \in Seq(Int) /\ unsent' \in Seq(Int) /\ Len(stdout') \in Nat
      /\ Len(stdout') >= 1
  <2>1. /\ stdout \o a \in Seq(Int) /\ Len(stdout) \in Nat
        /\ Len(stdout \o a) = Len(stdout) + Len(a)
    BY <1>3, <1>6, ConcatInts, Zenon
  <2>q. QED BY <1>5, <1>6, <1>7, <2>1
<1>9. stdout' \o unsent' = Jpeg(1, n)
  <2>1. (stdout \o a) \o b = stdout \o (a \o b)
    BY <1>3, <1>6, Reassociated, Zenon
  <2>q. QED BY <1>4, <1>6, <1>7, <2>1
<1>10. BytesInv'
  BY <1>1, <1>3, <1>8 DEF BytesInv, clientVars
<1>11. at' \in {"shotWrite", "shotDone"} /\ (at' = "shotDone" <=> unsent' = <<>>)
  BY <1>1
<1>12. EncoderInv' /\ BannerInv' /\ ConnectionInv'
  BY <1>1, <1>3, <1>11, EncoderStays, BannerStays, StaysUnconnected DEF clientVars
<1>13. ControlInv'
  BY <1>1, <1>3, <1>11 DEF ControlInv, Writing
<1>14. ShotInv'
  <2>1. IsPrefix(stdout', Jpeg(1, n))
    <3> DEFINE x == stdout' \o unsent'
               m == Len(stdout')
    <3>1. Len(x) = m + Len(unsent') /\ Len(unsent') \in Nat
      BY <1>8, ConcatInts, Zenon
    <3>2. SubSeq(x, 1, m) = SubSeq(stdout', 1, m)
      <4>1. 1 \in 1 .. m /\ m \in 1 .. m
        BY <1>8
      <4>q. QED BY <1>8, <4>1, SubSeqOfConcat1, Zenon
    <3> HIDE DEF x
    <3>3. Len(stdout') <= Len(x)
      BY <1>8, <3>1
    <3>4. IsPrefix(stdout', x)
      BY <3>2, <3>3 DEF IsPrefix
    <3>q. QED BY <1>9, <3>4 DEF x
  <2>2. at' = "shotDone" => stdout' = Jpeg(1, n)
    <3>1. stdout' \o <<>> = stdout'
      BY <1>8, ConcatEmptySeq
    <3>q. QED BY <1>9, <1>11, <3>1
  <2>3. ScreenshotIsJpeg'
    BY <2>1, <2>2, Zenon DEF ScreenshotIsJpeg
  <2>q. QED BY <1>9, <1>11, <2>3 DEF ShotInv
<1>q. QED BY <1>10, <1>12, <1>13, <1>14 DEF FramingInv

LEMMA WriteFailsStep ==
  ASSUME FramingInv, WriteFails
  PROVE  FramingInv'
<1>1. /\ at = "shotWrite" /\ at' = "ended" /\ unsent' = <<>>
      /\ UNCHANGED <<encoderVars, clientVars, connected, frames, sent, stdout>>
  BY DEF WriteFails
<1>2. BytesInv /\ ControlInv /\ ~connected
  BY <1>1 DEF FramingInv, ControlInv
<1>3. BytesInv' /\ ControlInv'
  BY <1>1, <1>2, NothingIsShort DEF BytesInv, ControlInv, Writing, clientVars
<1>4. EncoderInv' /\ ShotInv' /\ BannerInv' /\ ConnectionInv'
  BY <1>1, <1>2, EncoderStays, StdoutStays, BannerStays, StaysUnconnected DEF clientVars
<1>q. QED BY <1>3, <1>4 DEF FramingInv

LEMMA LeaveStep ==
  ASSUME FramingInv, Leave
  PROVE  FramingInv'
<1>1. /\ connected /\ connected' = FALSE /\ sent' = <<>> /\ ClientRestarts
      /\ UNCHANGED <<encoderVars, at, unsent, frames, stdout>>
  BY DEF Leave
<1>2. BytesInv'
  <2>1. <<>> \in Seq(Int) /\ <<>> \in Seq(JpegFrames)
    BY EmptySeq
  <2>q. QED BY <1>1, <2>1 DEF FramingInv, BytesInv, ClientRestarts
<1>3. EncoderInv'
  BY <1>1 DEF FramingInv, EncoderInv, encoderVars, WithinBuffer, FrameSent
<1>4. ControlInv' /\ ShotInv'
  BY <1>1 DEF FramingInv, ControlInv, Writing, ShotInv, ScreenshotIsJpeg
<1>5. BannerInv'
  <2>1. BannerRead(0) = NoBanner
    BY DEF BannerRead, NoBanner, FirstBytes
  <2>q. QED BY <1>1, <2>1 DEF BannerInv, ClientRestarts, BANNER_SIZE
<1>6. ConnectionInv'
  BY <1>1 DEF ConnectionInv, Unconnected, ClientRestarts
<1>q. QED BY <1>2, <1>3, <1>4, <1>5, <1>6 DEF FramingInv

\* What a client that has bytes to read knows.
LEMMA ReaderFacts ==
  ASSUME FramingInv, chunk # <<>>
  PROVE  /\ connected /\ FrameInv /\ BannerInv /\ chunk \in Seq(Int)
         /\ Len(chunk) \in Nat \ {0}
         /\ Len(pushed) \in Nat /\ Len(pushed) <= Len(sent) /\ Len(sent) \in Nat
         /\ readBannerBytes \in 0 .. 24 /\ BANNER_SIZE = 24
         /\ readBannerBytes < 24 => readFrameBytes = 0 /\ Len(pushed) = 0
         /\ Reading \in Seq(Int) /\ Len(Reading) \in UInt32s /\ Len(Reading) \in Nat
         /\ MessageLen(Reading) = 4 + Len(Reading) /\ readFrameBytes \in Nat
         /\ Len(pushed) < Len(sent) =>
              Reading = sent[Len(pushed) + 1] /\ Reading \in JpegFrames
<1>1. connected /\ FrameInv /\ BannerInv
  BY DEF FramingInv, ConnectionInv, Unconnected
<1>2. chunk \in Seq(Int) /\ Len(chunk) \in Nat \ {0}
  BY EmptySeq DEF FramingInv, BytesInv
<1>3. Len(pushed) \in Nat /\ Len(pushed) <= Len(sent) /\ Len(sent) \in Nat
  BY <1>1, LenProperties, FramesUnderway DEF FrameInv
<1>4. readBannerBytes \in 0 .. 24 /\ BANNER_SIZE = 24
  BY <1>1 DEF BannerInv, BANNER_SIZE
<1>5. readBannerBytes < 24 => readFrameBytes = 0 /\ Len(pushed) = 0
  BY <1>1, <1>4, NothingIsShort DEF FrameInv
<1>6. Reading \in Seq(Int) /\ Len(Reading) \in 0 .. BufSize
  <2>1. Len(pushed) + 1 \in 1 .. Len(sent) + 1
    BY <1>3
  <2>q. QED BY <2>1, FramesUnderway DEF Reading
<1>7. Len(Reading) \in UInt32s /\ Len(Reading) \in Nat
  <2> DEFINE q == Base * Base * Base * Base
  <2>1. q \in Int /\ UInt32s = 0 .. q - 1
    BY BaseAssumption DEF UInt32s
  <2>2. BufSize \in Nat /\ BufSize \in UInt32s
    BY EncoderAssumption, FramingAssumption
  <2> HIDE DEF q
  <2>q. QED BY <1>6, <2>1, <2>2
<1>8. MessageLen(Reading) = 4 + Len(Reading)
  BY DEF MessageLen
<1>9. readFrameBytes \in Nat
  BY <1>1 DEF FrameInv
<1>10. ASSUME Len(pushed) < Len(sent)
       PROVE  Reading = sent[Len(pushed) + 1] /\ Reading \in JpegFrames
  <2>1. Len(pushed) + 1 \in 1 .. Len(sent)
    BY <1>3, <1>10
  <2>q. QED BY <2>1, FramesUnderway DEF Reading
<1>q. QED BY <1>1, <1>2, <1>3, <1>4, <1>5, <1>6, <1>7, <1>8, <1>9, <1>10

LEMMA FirstByteIs ==
  ASSUME FramingInv, chunk # <<>>
  PROVE  /\ \A j \in 1 .. Len(chunk) : j \in 1 .. Len(Unread) /\ chunk[j] = Unread[j]
         /\ 1 \in 1 .. Len(chunk) /\ Head(chunk) = chunk[1] /\ Len(chunk) <= Len(Unread)
<1>1. /\ \A j \in 1 .. Len(chunk) : Unread[j] = chunk[j]
      /\ Len(Unread) = Len(chunk) + Len(socket) + Len(unsent)
      /\ Len(chunk) \in Nat /\ Len(socket) \in Nat /\ Len(unsent) \in Nat
  BY UnreadIs
<1>2. Len(chunk) \in Nat \ {0} /\ Head(chunk) = chunk[1]
  BY EmptySeq DEF FramingInv, BytesInv
<1>3. \A j \in 1 .. Len(chunk) : j \in 1 .. Len(Unread)
  BY <1>1
<1>4. 1 \in 1 .. Len(chunk) /\ Len(chunk) <= Len(Unread)
  BY <1>1, <1>2
<1>q. QED BY <1>1, <1>2, <1>3, <1>4, Zenon

LEMMA BannerByteIs ==
  ASSUME FramingInv, chunk # <<>>, readBannerBytes < 24
  PROVE  Head(chunk) = BannerBytes[readBannerBytes + 1]
<1>1. /\ connected /\ readBannerBytes \in 0 .. 24 /\ BANNER_SIZE = 24
      /\ readFrameBytes = 0 /\ Len(pushed) = 0
  BY ReaderFacts
<1>2. PICK o \in [1 .. Len(sent) + 1 -> Int] : Located(o)
  BY <1>1 DEF FramingInv, ConnectionInv
<1>3. o[1] = 24 - readBannerBytes
  <2>1. o[Len(pushed) + 1] = BANNER_SIZE - readBannerBytes - readFrameBytes
    BY <1>2 DEF Located
  <2>q. QED BY <1>1, <2>1
<1>4. 1 \in 1 .. Len(Unread) /\ Head(chunk) = Unread[1]
  BY FirstByteIs
<1>5. EndsBanner(Unread, o[1])
  BY <1>2 DEF Located, LaidOut
<1>6. 1 <= o[1] /\ 1 - o[1] + BANNER_SIZE = readBannerBytes + 1
  BY <1>1, <1>3
<1>7. Unread[1] = BannerBytes[1 - o[1] + BANNER_SIZE]
  BY <1>4, <1>5, <1>6, Zenon DEF EndsBanner
<1>q. QED BY <1>4, <1>6, <1>7, Zenon

LEMMA MessageByteIs ==
  ASSUME FramingInv, chunk # <<>>, readBannerBytes = 24,
         NEW j \in 1 .. Len(chunk), readFrameBytes + j <= MessageLen(Reading)
  PROVE  chunk[j] = Message(Reading)[readFrameBytes + j]
<1>1. /\ connected /\ BANNER_SIZE = 24 /\ Len(pushed) \in Nat /\ Len(sent) \in Nat
      /\ Len(pushed) <= Len(sent) /\ readFrameBytes \in Nat /\ Len(chunk) \in Nat
      /\ MessageLen(Reading) = 4 + Len(Reading) /\ Len(Reading) \in Nat
  BY ReaderFacts
<1>2. PICK o \in [1 .. Len(sent) + 1 -> Int] : Located(o)
  BY <1>1 DEF FramingInv, ConnectionInv
<1> DEFINE p == Len(pushed) + 1
<1>3. o[p] = BANNER_SIZE - readBannerBytes - readFrameBytes
  BY <1>2 DEF Located
<1>4. j - o[p] = readFrameBytes + j
  BY <1>1, <1>3
<1>5. p \in 1 .. Len(Underway)
  BY <1>1, FramesUnderway
<1>6. Carries(Unread, Underway[p], o[p])
  BY <1>2, <1>5 DEF Located, LaidOut
<1>7. j \in 1 .. Len(Unread) /\ chunk[j] = Unread[j]
  BY FirstByteIs
<1>8. readFrameBytes + j \in 1 .. MessageLen(Reading)
  BY <1>1
<1>9. Unread[j] = Message(Reading)[j - o[p]]
  BY <1>4, <1>6, <1>7, <1>8, Zenon DEF Carries, Reading
<1>q. QED BY <1>4, <1>7, <1>9, Zenon

\* A frame whose end has arrived is one that main() has sent.
LEMMA WholeFrameIsSent ==
  ASSUME FramingInv, chunk # <<>>, readBannerBytes = 24,
         readFrameBytes + Len(chunk) >= MessageLen(Reading)
  PROVE  Len(pushed) < Len(sent)
<1>1. /\ connected /\ BANNER_SIZE = 24 /\ Len(pushed) \in Nat /\ Len(sent) \in Nat
      /\ Len(pushed) <= Len(sent) /\ readFrameBytes \in Nat /\ Len(chunk) \in Nat
      /\ MessageLen(Reading) = 4 + Len(Reading) /\ Len(Reading) \in Nat
  BY ReaderFacts
<1>2. PICK o \in [1 .. Len(sent) + 1 -> Int] : Located(o) /\ o[Len(sent) + 1] \in Int
  BY <1>1, TailFacts
<1> SUFFICES ASSUME Len(pushed) = Len(sent) PROVE FALSE
  BY <1>1
<1>3. Reading = FrameSent
  BY FramesUnderway DEF Reading
<1>4. o[Len(sent) + 1] = 0 - readFrameBytes
  <2>1. o[Len(pushed) + 1] = BANNER_SIZE - readBannerBytes - readFrameBytes
    BY <1>2 DEF Located
  <2>q. QED BY <1>1, <2>1
<1>5. /\ Len(Unread) \in Nat /\ Len(Unread) = Len(chunk) + Len(socket) + Len(unsent)
      /\ Len(socket) \in Nat /\ Len(unsent) \in Nat
  BY <1>1, TailFacts
<1>6. Len(Unread) - o[Len(sent) + 1] >= MessageLen(FrameSent)
  BY <1>1, <1>3, <1>4, <1>5
<1>7. MessageLen(FrameSent) \in Nat /\ MessageLen(FrameSent) >= 4
  BY <1>1, <1>3
<1>8. Ends(Len(Unread) - o[Len(sent) + 1])
  BY <1>2 DEF Located
<1>9. Len(Unread) - o[Len(sent) + 1] \in Int
  BY <1>2, <1>5
<1>10. at = "frame" /\ Len(Unread) - o[Len(sent) + 1] = MessageLen(FrameSent)
  <2> DEFINE tail == Len(Unread) - o[Len(sent) + 1]
  <2>1. Ends(tail) /\ tail \in Int /\ tail >= MessageLen(FrameSent)
    BY <1>6, <1>8, <1>9
  <2> HIDE DEF tail
  <2>2. at = "frame" /\ tail = MessageLen(FrameSent)
    BY <1>7, <2>1 DEF Ends
  <2>q. QED BY <2>2 DEF tail
<1>11. Len(unsent) # 0
  <2>1. unsent # <<>> /\ unsent \in Seq(Int)
    BY <1>10 DEF FramingInv, BytesInv, ControlInv, Writing
  <2>q. QED BY <2>1, EmptySeq
<1>q. QED BY <1>1, <1>3, <1>4, <1>5, <1>10, <1>11

\* The client reads on by d bytes.
LEMMA Consumed ==
  ASSUME FramingInv, chunk # <<>>, NEW d \in 1 .. Len(chunk),
         chunk' = SubSeq(chunk, d + 1, Len(chunk)),
         UNCHANGED <<socket, encoderVars, serverVars>>,
         NEW o \in [1 .. Len(sent) + 1 -> Int], Located(o),
         Len(pushed') + 1 \in 1 .. Len(sent) + 1,
         BANNER_SIZE - readBannerBytes' - readFrameBytes' = o[Len(pushed') + 1] - d
  PROVE  /\ \E offset \in [1 .. Len(sent') + 1 -> Int] : Located(offset)'
         /\ chunk' \in Seq(Int)
<1> DEFINE n == Len(sent) + 1
           x == [k \in 1 .. Len(Underway) |-> o[k] - d]
<1>1. /\ chunk \in Seq(Int) /\ socket \in Seq(Int) /\ unsent \in Seq(Int) /\ connected
  BY ReaderFacts DEF FramingInv, BytesInv
<1>2. unsent' = unsent /\ socket' = socket /\ sent' = sent /\ at' = at
  BY DEF serverVars
<1>3. FrameSent' = FrameSent /\ Underway' = Underway
  BY <1>2 DEF FrameSent, encoderVars, Underway
<1>4. Len(chunk) \in Nat /\ d \in 0 .. Len(chunk) /\ d \in Nat
  BY <1>1, LenProperties
<1>5. /\ chunk' \in Seq(Int) /\ Len(chunk') = Len(chunk) - d
      /\ \A j \in 1 .. Len(chunk) - d : chunk'[j] = chunk[j + d]
  BY <1>1, <1>4, Parts
<1>6. Unread \in Seq(Int) /\ Unread' \in Seq(Int) /\ Dropped(Unread, Unread', d)
  <2> DEFINE r == socket \o unsent
             u == chunk \o r
             w == chunk' \o r
  <2>1. r \in Seq(Int)
    BY <1>1, ConcatInts
  <2> HIDE DEF r
  <2>2. /\ u \in Seq(Int) /\ Len(r) \in Nat /\ Len(u) = Len(chunk) + Len(r)
        /\ \A i \in 1 .. Len(chunk) : u[i] = chunk[i]
        /\ \A i \in 1 .. Len(r) : u[Len(chunk) + i] = r[i]
    BY <1>1, <2>1, ConcatInts, Zenon
  <2>3. /\ w \in Seq(Int) /\ Len(w) = Len(chunk') + Len(r)
        /\ \A i \in 1 .. Len(chunk') : w[i] = chunk'[i]
        /\ \A i \in 1 .. Len(r) : w[Len(chunk') + i] = r[i]
    BY <1>5, <2>1, ConcatInts, Zenon
  <2>4. Unread = u /\ Unread' = w
    <3>1. Unread = u
      BY <1>1, Reassociated, Zenon DEF Unread, r
    <3>2. chunk' \o socket \o unsent = chunk' \o (socket \o unsent)
      BY <1>1, <1>5, Reassociated, ZenonT(40)
    <3>q. QED BY <1>2, <3>1, <3>2, Zenon DEF Unread, r
  <2> HIDE DEF u, w
  <2>5. Len(w) = Len(u) - d /\ d \in 0 .. Len(u)
    BY <1>4, <1>5, <2>2, <2>3
  <2>6. ASSUME NEW j \in 1 .. Len(w) PROVE w[j] = u[j + d]
    <3>1. CASE j <= Len(chunk) - d
      <4>1. j \in 1 .. Len(chunk') /\ j \in 1 .. Len(chunk) - d /\ j + d \in 1 .. Len(chunk)
        BY <1>4, <1>5, <2>2, <2>3, <3>1
      <4>q. QED BY <1>5, <2>2, <2>3, <4>1
    <3>2. CASE ~(j <= Len(chunk) - d)
      <4> DEFINE i == j - (Len(chunk) - d)
      <4>1. /\ i \in 1 .. Len(r) /\ Len(chunk') + i = j /\ Len(chunk) + i = j + d
        <5>1. /\ Len(chunk') = Len(chunk) - d /\ Len(w) = Len(chunk) - d + Len(r)
              /\ Len(r) \in Nat /\ Len(chunk) - d \in Nat
          BY <1>4, <1>5, <2>2, <2>3
        <5>2. j \in Int /\ j <= Len(chunk) - d + Len(r) /\ j > Len(chunk) - d
          BY <1>4, <3>2, <5>1
        <5>3. i \in 1 .. Len(r)
          BY <5>1, <5>2
        <5>4. (Len(chunk) - d) + i = j /\ Len(chunk) + i = j + d
          BY <1>4, <5>2
        <5>q. QED BY <5>1, <5>3, <5>4, Zenon
      <4> HIDE DEF i
      <4>2. w[Len(chunk') + i] = r[i] /\ u[Len(chunk) + i] = r[i]
        BY <2>2, <2>3, <4>1, Zenon
      <4>q. QED BY <4>1, <4>2, Zenon
    <3>q. QED BY <3>1, <3>2
  <2>q. QED BY <2>2, <2>3, <2>4, <2>5, <2>6, Zenon DEF Dropped
<1>7. Underway \in Bodies /\ Underway # <<>> /\ Len(Underway) = n /\ Len(sent) \in Nat
  BY FramesUnderway
<1>8. LaidOut(Unread', Underway, x)
  <2>1. LaidOut(Unread, Underway, o) /\ d \in Int
    BY <1>4 DEF Located
  <2>q. QED BY <1>6, <1>7, <2>1, LaidOutDropped, Zenon
<1>9. x \in [1 .. n -> Int] /\ \A k \in 1 .. n : x[k] = o[k] - d
  <2>1. x = [k \in 1 .. n |-> o[k] - d]
    BY <1>7
  <2> HIDE DEF x
  <2>2. \A k \in 1 .. n : o[k] - d \in Int
    BY <1>4
  <2>q. QED BY <2>1, <2>2
<1> HIDE DEF x
<1>10. PICK e \in [1 .. n -> Int] :
         LaidOut(Unread', Underway, e) /\ \A k \in 1 .. n : e[k] = o[k] - d
  BY <1>8, <1>9, Zenon
<1>11. Ends(Len(Unread) - o[n])
  BY DEF Located
<1>12. Len(Unread') - e[n] = Len(Unread) - o[n]
  <2>1. Len(Unread) \in Nat /\ Len(Unread') = Len(Unread) - d
    BY <1>6, LenProperties DEF Dropped
  <2>2. n \in 1 .. n
    BY <1>7
  <2>3. e[n] = o[n] - d /\ o[n] \in Int
    BY <1>10, <2>2
  <2>q. QED BY <1>4, <2>1, <2>3
<1>13. Located(e)'
  <2>1. e[Len(pushed') + 1] = BANNER_SIZE - readBannerBytes' - readFrameBytes'
    BY <1>10
  <2>2. LaidOut(Unread', Underway', e)
    BY <1>3, <1>10
  <2>3. Ends(Len(Unread) - e[Len(sent) + 1])'
    BY <1>2, <1>3, <1>11, <1>12 DEF Ends
  <2>q. QED BY <2>1, <2>2, <2>3 DEF Located
<1>q. QED BY <1>2, <1>5, <1>10, <1>13

\* A step of the client changes what it has read, and nothing of main()'s.
LEMMA ReaderMoves ==
  ASSUME FramingInv, connected, UNCHANGED <<encoderVars, serverVars>>,
         chunk' \in Seq(Int), socket' \in Seq(Int), BannerInv', FrameInv',
         \E offset \in [1 .. Len(sent') + 1 -> Int] : Located(offset)'
  PROVE  FramingInv'
<1>1. UNCHANGED <<at, unsent, connected, frames, sent, stdout>>
  BY DEF serverVars
<1>2. BytesInv'
  BY <1>1 DEF FramingInv, BytesInv
<1>3. EncoderInv'
  BY <1>1 DEF FramingInv, EncoderInv, encoderVars, WithinBuffer, FrameSent
<1>4. ControlInv' /\ ShotInv'
  BY <1>1 DEF FramingInv, ControlInv, Writing, ShotInv, ScreenshotIsJpeg
<1>5. ConnectionInv'
  BY <1>1 DEF ConnectionInv
<1>q. QED BY <1>2, <1>3, <1>4, <1>5 DEF FramingInv

LEMMA ReadChunkStep ==
  ASSUME FramingInv, ReadChunk, UNCHANGED <<encoderVars, serverVars>>
  PROVE  FramingInv'
<1>1. PICK n \in 1 .. Len(socket) :
        chunk' = SubSeq(socket, 1, n) /\ socket' = SubSeq(socket, n + 1, Len(socket))
  BY DEF ReadChunk
<1>2. chunk = <<>> /\ UNCHANGED <<bannerVars, frameVars>>
  BY DEF ReadChunk
<1>3. /\ UNCHANGED <<at, unsent, connected, sent>>
      /\ UNCHANGED <<readBannerBytes, readFrameBytes, pushed>>
  BY <1>2 DEF serverVars, bannerVars, frameVars
<1>4. /\ chunk \in Seq(Int) /\ socket \in Seq(Int) /\ unsent \in Seq(Int)
  BY DEF FramingInv, BytesInv
<1>5. connected
  BY <1>1, NothingIsShort DEF FramingInv, ConnectionInv, Unconnected
<1>6. n \in 0 .. Len(socket)
  BY <1>1
<1>7. /\ chunk' \in Seq(Int) /\ socket' \in Seq(Int) /\ chunk' \o socket' = socket
  BY <1>1, <1>4, <1>6, Parts, Zenon
<1>8. Unread' = Unread
  <2>1. <<>> \o socket = socket
    BY <1>4, ConcatEmptySeq
  <2>q. QED BY <1>2, <1>3, <1>7, <2>1 DEF Unread
<1>9. BannerInv'
  BY <1>2, BannerStays
<1>10. FrameInv' /\ Underway' = Underway /\ FrameSent' = FrameSent
  BY <1>2, <1>3, <1>5, ReaderStays
<1>11. PICK offset \in [1 .. Len(sent) + 1 -> Int] : Located(offset)
  BY <1>5 DEF FramingInv, ConnectionInv
<1>12. Located(offset)'
  BY <1>3, <1>8, <1>10, <1>11 DEF Located, Ends
<1>13. \E o \in [1 .. Len(sent') + 1 -> Int] : Located(o)'
  BY <1>3, <1>12
<1>q. QED BY <1>5, <1>7, <1>9, <1>10, <1>13, ReaderMoves

\* One byte read is a step by one.
LEMMA OneByte ==
  ASSUME FramingInv, chunk # <<>>, chunk' = Tail(chunk)
  PROVE  1 \in 1 .. Len(chunk) /\ chunk' = SubSeq(chunk, 1 + 1, Len(chunk))
<1>1. chunk \in Seq(Int) /\ Len(chunk) \in Nat \ {0}
  BY ReaderFacts
<1>2. Tail(chunk) = SubSeq(chunk, 2, Len(chunk))
  BY <1>1, TailIsSubSeq
<1>q. QED BY <1>1, <1>2

LEMMA ReadBannerByteStep ==
  ASSUME FramingInv, ReadBannerByte, UNCHANGED <<encoderVars, serverVars>>
  PROVE  FramingInv'
<1>1. /\ chunk # <<>> /\ readBannerBytes < bannerLength
      /\ readBannerBytes' = readBannerBytes + 1 /\ chunk' = Tail(chunk)
      /\ UNCHANGED <<socket, frameVars>>
  BY DEF ReadBannerByte
<1>2. /\ connected /\ FrameInv /\ BannerInv /\ BANNER_SIZE = 24
      /\ readBannerBytes \in 0 .. 24 /\ Len(pushed) \in Nat /\ Len(sent) \in Nat
      /\ Len(pushed) <= Len(sent)
  BY <1>1, ReaderFacts
<1>3. readBannerBytes \in 0 .. 23
  BY <1>1, <1>2 DEF BannerInv
<1>4. readFrameBytes = 0 /\ Len(pushed) = 0
  BY <1>1, <1>3, ReaderFacts
<1>5. Head(chunk) = BannerBytes[readBannerBytes + 1]
  BY <1>1, <1>3, BannerByteIs
<1>6. /\ banner' = BannerWith(banner, readBannerBytes, Head(chunk))
      /\ bannerLength' = IF readBannerBytes = 1 THEN Head(chunk) ELSE bannerLength
  BY <1>3, ReadBannerByteIs
<1>7. BannerInv'
  <2>1. banner' = BannerRead(readBannerBytes + 1)
    BY <1>2, <1>3, <1>5, <1>6, NextBanner, Zenon DEF BannerInv
  <2>2. bannerLength' = IF readBannerBytes + 1 >= 2 THEN 24 ELSE 2
    <3>1. readBannerBytes = 1 => Head(chunk) = 24
      BY <1>2, <1>5, BannerIsSeq
    <3>q. QED BY <1>2, <1>3, <1>6, <3>1 DEF BannerInv
  <2>3. banner' = BannerRead(readBannerBytes')
    BY <1>1, <2>1
  <2>q. QED BY <1>1, <1>2, <1>3, <2>2, <2>3 DEF BannerInv
<1>8. UNCHANGED <<sent, readFrameBytes, pushed, frameBody, frameBodyLength, exited>>
  BY <1>1 DEF serverVars, frameVars
<1>9. Reading' = Reading
  BY <1>8 DEF Reading, Underway, FrameSent, encoderVars
<1>10. FrameInv'
  <2>1. pushed = <<>>
    BY <1>2, <1>4, EmptySeq DEF FrameInv
  <2>2. MessageLen(Reading)' = MessageLen(Reading)
    BY <1>9 DEF MessageLen
  <2>q. QED BY <1>2, <1>4, <1>8, <1>9, <2>1, <2>2 DEF FrameInv
<1>11. PICK o \in [1 .. Len(sent) + 1 -> Int] : Located(o)
  BY <1>2 DEF FramingInv, ConnectionInv
<1>12. 1 \in 1 .. Len(chunk) /\ chunk' = SubSeq(chunk, 1 + 1, Len(chunk))
  BY <1>1, OneByte
<1>13. Len(pushed') + 1 \in 1 .. Len(sent) + 1
  BY <1>2, <1>8
<1>14. BANNER_SIZE - readBannerBytes' - readFrameBytes' = o[Len(pushed') + 1] - 1
  <2>1. o[Len(pushed) + 1] = BANNER_SIZE - readBannerBytes - readFrameBytes
    BY <1>11 DEF Located
  <2>q. QED BY <1>1, <1>2, <1>3, <1>4, <1>8, <2>1
<1>15. /\ \E offset \in [1 .. Len(sent') + 1 -> Int] : Located(offset)'
       /\ chunk' \in Seq(Int)
  BY <1>1, <1>11, <1>12, <1>13, <1>14, Consumed
<1>16. socket' \in Seq(Int)
  BY <1>1 DEF FramingInv, BytesInv
<1>q. QED BY <1>2, <1>7, <1>10, <1>15, <1>16, ReaderMoves

\* A client past the banner has read all of it.
LEMMA InFrameFacts ==
  ASSUME FramingInv, InFrame
  PROVE  chunk # <<>> /\ readBannerBytes = 24 /\ connected /\ FrameInv /\ BannerInv
<1>1. chunk # <<>> /\ readBannerBytes >= bannerLength
  BY DEF InFrame
<1>2. connected /\ FrameInv /\ BannerInv /\ readBannerBytes \in 0 .. 24 /\ BANNER_SIZE = 24
  BY <1>1, ReaderFacts
<1>3. bannerLength = IF readBannerBytes >= 2 THEN 24 ELSE 2
  BY <1>2 DEF BannerInv
<1>q. QED BY <1>1, <1>2, <1>3

\* What a step within a frame keeps, and where it leaves the client.
LEMMA InFrameConsumed ==
  ASSUME FramingInv, InFrame, UNCHANGED <<socket, bannerVars>>,
         UNCHANGED <<encoderVars, serverVars>>,
         NEW d \in 1 .. Len(chunk), chunk' = SubSeq(chunk, d + 1, Len(chunk)),
         pushed' = pushed, readFrameBytes' = readFrameBytes + d, FrameInv'
  PROVE  FramingInv'
<1>1. /\ chunk # <<>> /\ readBannerBytes = 24 /\ connected /\ FrameInv
  BY InFrameFacts
<1>2. /\ BANNER_SIZE = 24 /\ Len(pushed) \in Nat /\ Len(sent) \in Nat
      /\ Len(pushed) <= Len(sent) /\ readFrameBytes \in Nat /\ Len(chunk) \in Nat
  BY <1>1, ReaderFacts
<1>3. PICK o \in [1 .. Len(sent) + 1 -> Int] : Located(o)
  BY <1>1 DEF FramingInv, ConnectionInv
<1>4. Len(pushed') + 1 \in 1 .. Len(sent) + 1
  BY <1>2
<1>5. BANNER_SIZE - readBannerBytes' - readFrameBytes' = o[Len(pushed') + 1] - d
  <2>1. o[Len(pushed) + 1] = BANNER_SIZE - readBannerBytes - readFrameBytes
    BY <1>3 DEF Located
  <2>2. readBannerBytes' = readBannerBytes
    BY DEF bannerVars
  <2>q. QED BY <1>1, <1>2, <2>1, <2>2
<1>6. /\ \E offset \in [1 .. Len(sent') + 1 -> Int] : Located(offset)'
      /\ chunk' \in Seq(Int)
  BY <1>1, <1>3, <1>4, <1>5, Consumed
<1>7. BannerInv'
  BY BannerStays
<1>8. socket' \in Seq(Int)
  BY DEF FramingInv, BytesInv
<1>q. QED BY <1>1, <1>6, <1>7, <1>8, ReaderMoves

LEMMA ReadLengthByteStep ==
  ASSUME FramingInv, ReadLengthByte, UNCHANGED <<encoderVars, serverVars>>
  PROVE  FramingInv'
<1>1. /\ InFrame /\ readFrameBytes < 4
      /\ frameBodyLength' =
           frameBodyLength + Head(chunk) * ByteWeight[readFrameBytes + 1]
      /\ readFrameBytes' = readFrameBytes + 1 /\ chunk' = Tail(chunk)
      /\ UNCHANGED <<socket, bannerVars, frameBody, pushed, exited>>
  BY DEF ReadLengthByte
<1>2. chunk # <<>> /\ readBannerBytes = 24 /\ connected /\ FrameInv
  BY <1>1, InFrameFacts
<1>3. /\ readFrameBytes \in 0 .. 3 /\ Len(Reading) \in UInt32s /\ Len(Reading) \in Nat
      /\ MessageLen(Reading) = 4 + Len(Reading) /\ Reading \in Seq(Int)
      /\ Len(chunk) \in Nat \ {0} /\ BANNER_SIZE = 24
      /\ Len(pushed) < Len(sent) => Reading \in JpegFrames
  <2>1. /\ readFrameBytes \in Nat /\ Len(Reading) \in UInt32s /\ Len(Reading) \in Nat
        /\ MessageLen(Reading) = 4 + Len(Reading) /\ Reading \in Seq(Int)
        /\ Len(chunk) \in Nat \ {0} /\ BANNER_SIZE = 24
        /\ Len(pushed) < Len(sent) => Reading \in JpegFrames
    BY <1>2, ReaderFacts, Zenon
  <2>2. readFrameBytes \in 0 .. 3
    BY <1>1, <2>1
  <2>q. QED BY <2>1, <2>2, Zenon
<1>4. readFrameBytes + 1 < MessageLen(Reading)
  <2> SUFFICES ASSUME readFrameBytes + 1 >= MessageLen(Reading) PROVE FALSE
    BY <1>3
  <2>1. readFrameBytes + Len(chunk) >= MessageLen(Reading)
    BY <1>3
  <2>2. Reading \in JpegFrames
    BY <1>2, <1>3, <2>1, WholeFrameIsSent
  <2>3. Len(Reading) >= 2
    BY <2>2, JpegFrame
  <2>q. QED BY <1>3, <2>3
<1>5. Head(chunk) = putUInt32LE(Len(Reading))[readFrameBytes + 1]
  <2>1. 1 \in 1 .. Len(chunk) /\ Head(chunk) = chunk[1]
    BY <1>2, FirstByteIs
  <2>5. readFrameBytes + 1 <= MessageLen(Reading)
    BY <1>3, <1>4
  <2>2. chunk[1] = Message(Reading)[readFrameBytes + 1]
    BY <1>2, <2>1, <2>5, MessageByteIs, Zenon
  <2>3. readFrameBytes + 1 \in 1 .. 4
    BY <1>3
  <2>4. Message(Reading)[readFrameBytes + 1] = putUInt32LE(Len(Reading))[readFrameBytes + 1]
    BY <1>3, <2>3, MessageIsSeq, Zenon
  <2>q. QED BY <2>1, <2>2, <2>4
<1>6. frameBodyLength' = FirstBytes(Len(Reading), readFrameBytes + 1)
  <2>1. frameBodyLength = FirstBytes(Len(Reading), readFrameBytes)
    BY <1>2, <1>3 DEF FrameInv
  <2>2. FirstBytes(Len(Reading), readFrameBytes + 1) =
          FirstBytes(Len(Reading), readFrameBytes)
            + putUInt32LE(Len(Reading))[readFrameBytes + 1] * ByteWeight[readFrameBytes + 1]
    BY <1>3, NextByte, Zenon
  <2>q. QED BY <1>1, <1>5, <2>1, <2>2, Zenon
<1>7. sent' = sent /\ Reading' = Reading /\ MessageLen(Reading)' = MessageLen(Reading)
  BY <1>1 DEF serverVars, encoderVars, Reading, Underway, FrameSent, MessageLen
<1>8. frameBody' = <<>>
  BY <1>1, <1>2, <1>3 DEF FrameInv
<1>9. readFrameBytes' \in 1 .. 4 /\ readFrameBytes' \in 0 .. MessageLen(Reading) - 1
  BY <1>1, <1>3, <1>4
<1>10. ASSUME readFrameBytes' >= 4
       PROVE  /\ frameBodyLength' = MessageLen(Reading) - readFrameBytes'
              /\ frameBody' = SubSeq(Reading, 1, readFrameBytes' - 4)
  <2>1. readFrameBytes' = 4 /\ readFrameBytes + 1 = 4
    BY <1>1, <1>9, <1>10
  <2>2. frameBodyLength' = Len(Reading)
    BY <1>3, <1>6, <2>1, WholeNumber
  <2>3. SubSeq(Reading, 1, 0) = <<>>
    BY <1>3, EmptySeq
  <2>q. QED BY <1>3, <1>8, <2>1, <2>2, <2>3
<1>11. FrameInv'
  <2>1. /\ ~exited' /\ pushed' = pushed /\ Len(pushed) <= Len(sent)
        /\ pushed \in Seq(JpegFrames) /\ \A i \in 1 .. Len(pushed) : pushed[i] = sent[i]
    BY <1>1, <1>2 DEF FrameInv
  <2>2. ~(readBannerBytes' < BANNER_SIZE)
    BY <1>1, <1>2, <1>3 DEF bannerVars
  <2>3. frameBodyLength' = FirstBytes(Len(Reading), readFrameBytes')
    BY <1>1, <1>6
  <2>q. QED BY <1>7, <1>8, <1>9, <1>10, <2>1, <2>2, <2>3 DEF FrameInv
<1>12. 1 \in 1 .. Len(chunk) /\ chunk' = SubSeq(chunk, 1 + 1, Len(chunk))
  BY <1>1, <1>2, OneByte
<1>q. QED BY <1>1, <1>11, <1>12, InFrameConsumed

\* The beginning of r, and bytes that go on where it ends.
LEMMA GoneOn ==
  ASSUME NEW r \in Seq(Int), NEW c \in Seq(Int),
         NEW a \in 0 .. Len(r), NEW d \in 0 .. Len(c),
         a + d <= Len(r), \A j \in 1 .. d : c[j] = r[a + j]
  PROVE  SubSeq(r, 1, a) \o SubSeq(c, 1, d) = SubSeq(r, 1, a + d)
<1> DEFINE x == SubSeq(r, 1, a)
           y == SubSeq(c, 1, d)
           z == SubSeq(r, 1, a + d)
<1>1. Len(r) \in Nat /\ Len(c) \in Nat /\ a \in Nat /\ d \in Nat
  BY LenProperties
<1>2. x \in Seq(Int) /\ Len(x) = a /\ \A j \in 1 .. a : x[j] = r[j]
  BY Parts, Zenon
<1>3. y \in Seq(Int) /\ Len(y) = d /\ \A j \in 1 .. d : y[j] = c[j]
  BY Parts, Zenon
<1>4. z \in Seq(Int) /\ Len(z) = a + d /\ \A j \in 1 .. a + d : z[j] = r[j]
  <2>1. a + d \in 0 .. Len(r)
    BY <1>1
  <2>q. QED BY <2>1, Parts, Zenon
<1> HIDE DEF x, y, z
<1>5. /\ x \o y \in Seq(Int) /\ Len(x \o y) = Len(x) + Len(y)
      /\ \A i \in 1 .. Len(x) : (x \o y)[i] = x[i]
      /\ \A i \in 1 .. Len(y) : (x \o y)[Len(x) + i] = y[i]
  BY <1>2, <1>3, ConcatInts, Zenon
<1> DEFINE w == x \o y
<1>6. /\ w \in Seq(Int) /\ Len(w) = a + d
      /\ \A i \in 1 .. a : w[i] = x[i]
      /\ \A i \in 1 .. d : w[a + i] = y[i]
  BY <1>2, <1>3, <1>5
<1> HIDE DEF w
<1>7. ASSUME NEW i \in 1 .. Len(w) PROVE w[i] = z[i]
  <2>1. i \in 1 .. a + d
    BY <1>6
  <2>2. CASE i <= a
    <3>1. i \in 1 .. a
      BY <1>1, <2>1, <2>2
    <3>q. QED BY <1>2, <1>4, <1>6, <2>1, <3>1
  <2>3. CASE ~(i <= a)
    <3>1. i - a \in 1 .. d /\ a + (i - a) = i
      BY <1>1, <2>1, <2>3
    <3>2. w[a + (i - a)] = c[i - a] /\ c[i - a] = r[a + (i - a)]
      BY <1>3, <1>6, <3>1, Zenon
    <3>q. QED BY <1>4, <2>1, <3>1, <3>2, Zenon
  <2>q. QED BY <2>2, <2>3
<1>8. w = z
  BY <1>4, <1>6, <1>7, SeqEqual
<1>q. QED BY <1>8 DEF w, x, y, z

\* What the client has of a frame after reading d bytes of its body.
LEMMA BodyRead ==
  ASSUME FramingInv, InFrame, readFrameBytes >= 4, NEW d \in 1 .. Len(chunk),
         readFrameBytes + d <= MessageLen(Reading)
  PROVE  frameBody \o SubSeq(chunk, 1, d) = SubSeq(Reading, 1, readFrameBytes + d - 4)
<1>1. chunk # <<>> /\ readBannerBytes = 24 /\ FrameInv
  BY InFrameFacts
<1>2. /\ Reading \in Seq(Int) /\ Len(Reading) \in Nat /\ chunk \in Seq(Int)
      /\ Len(chunk) \in Nat /\ MessageLen(Reading) = 4 + Len(Reading)
      /\ readFrameBytes \in Nat
  BY <1>1, ReaderFacts
<1>3. frameBody = SubSeq(Reading, 1, readFrameBytes - 4)
  BY <1>1 DEF FrameInv
<1> DEFINE a == readFrameBytes - 4
<1>4. /\ a \in 0 .. Len(Reading) /\ d \in 0 .. Len(chunk) /\ a + d <= Len(Reading)
      /\ readFrameBytes + d - 4 = a + d
  BY <1>2
<1>5. ASSUME NEW j \in 1 .. d PROVE chunk[j] = Reading[a + j]
  <2>1. j \in 1 .. Len(chunk) /\ readFrameBytes + j <= MessageLen(Reading)
    BY <1>2
  <2>2. chunk[j] = Message(Reading)[readFrameBytes + j]
    BY <1>1, <2>1, MessageByteIs
  <2>3. readFrameBytes + j \in 5 .. MessageLen(Reading)
        /\ (readFrameBytes + j) - 4 = a + j
    BY <1>2, <2>1
  <2>4. Message(Reading)[readFrameBytes + j] = Reading[(readFrameBytes + j) - 4]
    BY <1>2, <2>3, MessageIsSeq, Zenon
  <2>q. QED BY <2>2, <2>3, <2>4, Zenon
<1> HIDE DEF a
<1>6. SubSeq(Reading, 1, a) \o SubSeq(chunk, 1, d) = SubSeq(Reading, 1, a + d)
  BY <1>2, <1>4, <1>5, GoneOn, Zenon
<1>q. QED BY <1>3, <1>4, <1>6 DEF a

LEMMA ReadBodyPartStep ==
  ASSUME FramingInv, ReadBodyPart, UNCHANGED <<encoderVars, serverVars>>
  PROVE  FramingInv'
<1> DEFINE d == Len(chunk)
<1>1. /\ InFrame /\ readFrameBytes >= 4 /\ d < frameBodyLength
      /\ frameBody' = frameBody \o chunk
      /\ frameBodyLength' = frameBodyLength - d
      /\ readFrameBytes' = readFrameBytes + d
      /\ chunk' = <<>>
      /\ UNCHANGED <<socket, bannerVars, pushed, exited>>
  BY DEF ReadBodyPart
<1>2. chunk # <<>> /\ readBannerBytes = 24 /\ connected /\ FrameInv
  BY <1>1, InFrameFacts
<1>3. /\ readFrameBytes \in Nat /\ Len(Reading) \in Nat
      /\ MessageLen(Reading) = 4 + Len(Reading) /\ chunk \in Seq(Int)
      /\ d \in Nat \ {0} /\ BANNER_SIZE = 24 /\ Reading \in Seq(Int)
  BY <1>1, <1>2, ReaderFacts
<1>4. frameBodyLength = MessageLen(Reading) - readFrameBytes
  BY <1>1, <1>2 DEF FrameInv
<1>5. SubSeq(chunk, 1, d) = chunk /\ SubSeq(chunk, d + 1, d) = <<>>
  <2>1. SubSeq(chunk, 1, Len(chunk)) = chunk
    BY <1>3, SubSeqFull
  <2>2. SubSeq(chunk, d + 1, d) \in Seq(Int) /\ Len(SubSeq(chunk, d + 1, d)) = 0
    <3>1. d \in 0 .. Len(chunk) /\ Len(chunk) - d = 0
      BY <1>3
    <3>q. QED BY <1>3, <3>1, Parts, Zenon
  <2>q. QED BY <2>1, <2>2, EmptySeq
<1>6. frameBody' = SubSeq(Reading, 1, readFrameBytes' - 4)
  <2>1. readFrameBytes + d <= MessageLen(Reading) /\ d \in 1 .. Len(chunk)
    <3>1. d < MessageLen(Reading) - readFrameBytes
      BY <1>1, <1>4
    <3>q. QED BY <1>3, <3>1
  <2>2. frameBody \o SubSeq(chunk, 1, d) = SubSeq(Reading, 1, readFrameBytes + d - 4)
    BY <1>1, <2>1, BodyRead
  <2>3. frameBody' = SubSeq(Reading, 1, readFrameBytes + d - 4)
    BY <1>1, <1>5, <2>2, Zenon
  <2>4. readFrameBytes' - 4 = readFrameBytes + d - 4
    BY <1>1, <1>3
  <2>q. QED BY <2>3, <2>4, Zenon
<1>7. sent' = sent /\ Reading' = Reading /\ MessageLen(Reading)' = MessageLen(Reading)
  BY <1>1 DEF serverVars, encoderVars, Reading, Underway, FrameSent, MessageLen
<1>8. /\ readFrameBytes' \in 0 .. MessageLen(Reading) - 1 /\ readFrameBytes' > 4
      /\ frameBodyLength' = MessageLen(Reading) - readFrameBytes'
  <2>1. /\ readFrameBytes' = readFrameBytes + d /\ readFrameBytes >= 4
        /\ d < MessageLen(Reading) - readFrameBytes
        /\ frameBodyLength' = (MessageLen(Reading) - readFrameBytes) - d
    BY <1>1, <1>4
  <2> HIDE DEF d
  <2>q. QED BY <1>3, <2>1
<1>9. FrameInv'
  <2>1. /\ ~exited' /\ pushed' = pushed /\ Len(pushed) <= Len(sent)
        /\ pushed \in Seq(JpegFrames) /\ \A i \in 1 .. Len(pushed) : pushed[i] = sent[i]
    BY <1>1, <1>2 DEF FrameInv
  <2>2. ~(readBannerBytes' < BANNER_SIZE)
    BY <1>1, <1>2, <1>3 DEF bannerVars
  <2>3. ~(readFrameBytes' <= 4)
    BY <1>8
  <2>q. QED BY <1>6, <1>7, <1>8, <2>1, <2>2, <2>3, Zenon DEF FrameInv
<1>10. d \in 1 .. Len(chunk) /\ chunk' = SubSeq(chunk, d + 1, Len(chunk))
  BY <1>1, <1>3, <1>5
<1>q. QED BY <1>1, <1>9, <1>10, InFrameConsumed

\* What the client pushes is the next of the frames main() has sent.
LEMMA NextFrameRead ==
  ASSUME FramingInv, ReadBodyEnd
  PROVE  /\ Len(pushed) \in Nat /\ Len(pushed) < Len(sent) /\ Len(sent) \in Nat
         /\ Reading = sent[Len(pushed) + 1] /\ Reading \in JpegFrames
         /\ pushed' = Append(pushed, sent[Len(pushed) + 1]) /\ UNCHANGED exited
         /\ frameBodyLength \in 1 .. Len(chunk)
         /\ readFrameBytes + frameBodyLength = MessageLen(Reading)
<1> DEFINE d == frameBodyLength
           frame == frameBody \o SubSeq(chunk, 1, d)
<1>1. InFrame /\ readFrameBytes >= 4 /\ Len(chunk) >= d /\ Push(frame)
  BY DEF ReadBodyEnd
<1>2. chunk # <<>> /\ readBannerBytes = 24 /\ connected /\ FrameInv
  BY <1>1, InFrameFacts
<1>3. /\ readFrameBytes \in Nat /\ Len(Reading) \in Nat
      /\ MessageLen(Reading) = 4 + Len(Reading) /\ Reading \in Seq(Int)
      /\ Len(chunk) \in Nat \ {0} /\ Len(pushed) \in Nat /\ Len(sent) \in Nat
      /\ Len(pushed) < Len(sent) =>
           Reading = sent[Len(pushed) + 1] /\ Reading \in JpegFrames
  BY <1>1, <1>2, ReaderFacts
<1>4. /\ d = MessageLen(Reading) - readFrameBytes
      /\ readFrameBytes \in 0 .. MessageLen(Reading) - 1
  BY <1>1, <1>2 DEF FrameInv
<1>5. d \in 1 .. Len(chunk) /\ readFrameBytes + d = MessageLen(Reading)
  BY <1>1, <1>3, <1>4
<1>6. frame = Reading
  <2>1. readFrameBytes + d <= MessageLen(Reading) /\ readFrameBytes + d - 4 = Len(Reading)
    BY <1>3, <1>5
  <2>2. frame = SubSeq(Reading, 1, readFrameBytes + d - 4)
    BY <1>1, <1>5, <2>1, BodyRead
  <2>3. SubSeq(Reading, 1, Len(Reading)) = Reading
    BY <1>3, SubSeqFull
  <2>q. QED BY <2>1, <2>2, <2>3
<1>7. Len(pushed) < Len(sent)
  <2>1. readFrameBytes + Len(chunk) >= MessageLen(Reading)
    BY <1>1, <1>3, <1>4
  <2>q. QED BY <1>2, <2>1, WholeFrameIsSent
<1>8. IsPrefix(JpegHeader, Reading)
  BY <1>3, <1>7, JpegFrame
<1>9. pushed' = Append(pushed, Reading) /\ UNCHANGED exited
  BY <1>1, <1>6, <1>8 DEF Push
<1>q. QED BY <1>3, <1>5, <1>7, <1>9

LEMMA ReadBodyEndStep ==
  ASSUME FramingInv, ReadBodyEnd, UNCHANGED <<encoderVars, serverVars>>
  PROVE  FramingInv'
<1> DEFINE d == frameBodyLength
           p == Len(pushed) + 1
<1>1. /\ InFrame /\ chunk' = SubSeq(chunk, d + 1, Len(chunk))
      /\ frameBodyLength' = 0 /\ readFrameBytes' = 0 /\ frameBody' = <<>>
      /\ UNCHANGED <<socket, bannerVars>>
  BY DEF ReadBodyEnd
<1>2. chunk # <<>> /\ readBannerBytes = 24 /\ connected /\ FrameInv
  BY <1>1, InFrameFacts
<1>3. /\ Len(pushed) \in Nat /\ Len(pushed) < Len(sent) /\ Len(sent) \in Nat
      /\ Reading = sent[p] /\ Reading \in JpegFrames
      /\ pushed' = Append(pushed, sent[p]) /\ UNCHANGED exited
      /\ d \in 1 .. Len(chunk) /\ readFrameBytes + d = MessageLen(Reading)
  BY NextFrameRead
<1>4. /\ readFrameBytes \in Nat /\ BANNER_SIZE = 24 /\ Len(chunk) \in Nat
  BY <1>2, ReaderFacts
<1>5. sent' = sent /\ Underway' = Underway /\ BannerInv'
  BY <1>1, BannerStays DEF serverVars, encoderVars, Underway, FrameSent
<1>6. /\ pushed' \in Seq(JpegFrames) /\ Len(pushed') = p
      /\ \A i \in 1 .. p : pushed'[i] = sent[i]
  <2>1. pushed \in Seq(JpegFrames) /\ \A i \in 1 .. Len(pushed) : pushed[i] = sent[i]
    BY <1>2 DEF FrameInv
  <2>2. sent[p] \in JpegFrames
    BY <1>3
  <2> HIDE DEF p
  <2>3. /\ Append(pushed, sent[p]) \in Seq(JpegFrames)
        /\ Len(Append(pushed, sent[p])) = Len(pushed) + 1
        /\ \A i \in 1 .. Len(pushed) : Append(pushed, sent[p])[i] = pushed[i]
        /\ Append(pushed, sent[p])[Len(pushed) + 1] = sent[p]
    BY <2>1, <2>2, AppendProperties
  <2>4. Len(pushed') = p /\ pushed'[p] = sent[p]
    BY <1>3, <2>3, Zenon DEF p
  <2>5. \A i \in 1 .. Len(pushed) : pushed'[i] = sent[i]
    BY <1>3, <2>1, <2>3, Zenon
  <2>6. \A i \in 1 .. p : i \in 1 .. Len(pushed) \/ i = p
    BY <1>3 DEF p
  <2>7. pushed' \in Seq(JpegFrames)
    BY <1>3, <2>3
  <2>q. QED BY <2>4, <2>5, <2>6, <2>7, Zenon
<1>7. p + 1 \in 1 .. Len(sent) + 1 /\ p \in 1 .. Len(sent)
  BY <1>3
<1>8. /\ Reading' \in Seq(Int) /\ Len(Reading') \in Nat
      /\ MessageLen(Reading)' = 4 + Len(Reading')
  <2>1. Reading' = Underway[p + 1]
    BY <1>5, <1>6 DEF Reading
  <2>2. Underway[p + 1] \in Seq(Int)
    BY <1>7, FramesUnderway
  <2>q. QED BY <2>1, <2>2, LenProperties DEF MessageLen
<1>9. FrameInv'
  <2>1. FirstBytes(Len(Reading'), 0) = 0
    BY DEF FirstBytes
  <2>2. ~(readBannerBytes' < BANNER_SIZE)
    BY <1>1, <1>2, <1>4 DEF bannerVars
  <2>3. ~exited' /\ Len(pushed') <= Len(sent')
    BY <1>2, <1>3, <1>5, <1>6 DEF FrameInv
  <2>4. readFrameBytes' \in 0 .. MessageLen(Reading)' - 1
    BY <1>1, <1>8
  <2>5. frameBodyLength' = FirstBytes(Len(Reading'), readFrameBytes')
    BY <1>1, <2>1
  <2>q. QED BY <1>1, <1>5, <1>6, <2>2, <2>3, <2>4, <2>5 DEF FrameInv
<1>10. PICK o \in [1 .. Len(sent) + 1 -> Int] : Located(o)
  BY <1>2 DEF FramingInv, ConnectionInv
<1>11. BANNER_SIZE - readBannerBytes' - readFrameBytes' = o[Len(pushed') + 1] - d
  <2>1. o[Len(pushed) + 1] = BANNER_SIZE - readBannerBytes - readFrameBytes
    BY <1>10 DEF Located
  <2>2. o[p + 1] = o[p] + MessageLen(Reading)
    <3>1. Follow(Underway, o)
      BY <1>10 DEF Located, LaidOut
    <3>2. p \in 1 .. Len(Underway) - 1
      BY <1>7, FramesUnderway
    <3>q. QED BY <3>1, <3>2 DEF Follow, Reading
  <2>3. o[p] = 0 - readFrameBytes
    BY <1>2, <1>4, <2>1
  <2>4. o[p + 1] = d
    BY <1>3, <1>4, <2>2, <2>3
  <2>5. readBannerBytes' = 24 /\ o[Len(pushed') + 1] = o[p + 1]
    BY <1>1, <1>2, <1>6 DEF bannerVars
  <2>q. QED BY <1>1, <1>3, <1>4, <2>4, <2>5
<1>12. Len(pushed') + 1 \in 1 .. Len(sent) + 1
  BY <1>6, <1>7
<1>13. /\ \E offset \in [1 .. Len(sent') + 1 -> Int] : Located(offset)'
       /\ chunk' \in Seq(Int)
  BY <1>1, <1>2, <1>3, <1>10, <1>11, <1>12, Consumed
<1>14. socket' \in Seq(Int)
  BY <1>1 DEF FramingInv, BytesInv
<1>q. QED BY <1>2, <1>5, <1>9, <1>13, <1>14, ReaderMoves

-----------------------------------------------------------------------------
(* The invariant holds.                                                    *)

LEMMA StutterKeeps ==
  ASSUME FramingInv, UNCHANGED vars
  PROVE  FramingInv'
<1>1. UNCHANGED <<encoderVars, clientVars, serverVars>>
  BY DEF vars
<1>2. /\ UNCHANGED <<socket, chunk, bannerVars, frameVars>>
      /\ UNCHANGED <<at, unsent, connected, frames, sent, stdout>>
  BY <1>1 DEF clientVars, serverVars
<1>3. BytesInv'
  BY <1>2 DEF FramingInv, BytesInv
<1>4. EncoderInv'
  BY <1>1, <1>2 DEF FramingInv, EncoderInv, encoderVars, WithinBuffer, FrameSent
<1>5. ControlInv' /\ ShotInv'
  BY <1>2 DEF FramingInv, ControlInv, Writing, ShotInv, ScreenshotIsJpeg
<1>6. BannerInv'
  BY <1>2, BannerStays
<1>7. CASE ~connected
  <2>1. ConnectionInv'
    BY <1>1, <1>2, <1>7, StaysUnconnected
  <2>q. QED BY <1>3, <1>4, <1>5, <1>6, <2>1 DEF FramingInv
<1>8. CASE connected
  <2>1. FrameInv' /\ Underway' = Underway /\ FrameSent' = FrameSent
    BY <1>1, <1>2, <1>8, ReaderStays
  <2>2. Unread' = Unread
    BY <1>2 DEF Unread
  <2>3. PICK offset \in [1 .. Len(sent) + 1 -> Int] : Located(offset)
    BY <1>8 DEF FramingInv, ConnectionInv
  <2>4. UNCHANGED <<readBannerBytes, readFrameBytes, pushed>>
    BY <1>2 DEF bannerVars, frameVars
  <2>5. Located(offset)'
    BY <1>2, <2>1, <2>2, <2>3, <2>4 DEF Located, Ends
  <2>6. ConnectionInv'
    BY <1>2, <1>8, <2>1, <2>3, <2>5 DEF ConnectionInv
  <2>q. QED BY <1>3, <1>4, <1>5, <1>6, <2>6 DEF FramingInv
<1>q. QED BY <1>7, <1>8

LEMMA ClientStep ==
  ASSUME FramingInv, Client
  PROVE  FramingInv'
<1>1. tryRead /\ UNCHANGED <<encoderVars, serverVars>>
  BY DEF Client
<1>2. CASE ReadChunk
  BY <1>1, <1>2, ReadChunkStep
<1>3. CASE ReadBannerByte
  BY <1>1, <1>3, ReadBannerByteStep
<1>4. CASE ReadLengthByte
  BY <1>1, <1>4, ReadLengthByteStep
<1>5. CASE ReadBodyPart
  BY <1>1, <1>5, ReadBodyPartStep
<1>6. CASE ReadBodyEnd
  BY <1>1, <1>6, ReadBodyEndStep
<1>q. QED BY <1>1, <1>2, <1>3, <1>4, <1>5, <1>6 DEF tryRead

LEMMA EveryStep ==
  ASSUME FramingInv, [Next]_vars
  PROVE  FramingInv'
<1>1. CASE UNCHANGED vars
  BY <1>1, StutterKeeps
<1>2. ASSUME Next PROVE FramingInv'
  <2>1. CASE Reserve
    BY <2>1, ReserveStep
  <2>2. CASE Accept
    BY <2>2, AcceptStep
  <2>3. CASE EncodeFrame
    BY <2>3, EncodeFrameStep
  <2>4. CASE LeaveLoop
    BY <2>4, LeaveLoopStep
  <2>5. CASE SendSome
    BY <2>5, SendSomeStep
  <2>6. CASE SendFails
    BY <2>6, SendFailsStep
  <2>7. CASE EncodeShot
    BY <2>7, EncodeShotStep
  <2>8. CASE WriteSome
    BY <2>8, WriteSomeStep
  <2>9. CASE WriteFails
    BY <2>9, WriteFailsStep
  <2>10. CASE Leave
    BY <2>10, LeaveStep
  <2>11. CASE Client
    BY <2>11, ClientStep
  <2>q. QED BY <1>2, <2>1, <2>2, <2>3, <2>4, <2>5, <2>6, <2>7, <2>8, <2>9, <2>10, <2>11
        DEF Next
<1>q. QED BY <1>1, <1>2

\* At every moment the bytes between the encoder's buffer and the client are
\* the rest of the banner and of the frames encoded for this connection, and
\* the client's counters stand where they begin (pumps() at minicap.cpp:109,
\* tryRead() at example/app.js:44).
THEOREM FramingInvariance == Spec => []FramingInv
<1>1. Init => FramingInv
  BY FirstState
<1>2. FramingInv /\ [Next]_vars => FramingInv'
  BY EveryStep
<1>q. QED BY <1>1, <1>2, PTL DEF Spec

-----------------------------------------------------------------------------
(* What follows from it.                                                   *)

\* The client ends the banner where the frames begin, and has read in it
\* every value main() has put there, to the last byte (minicap.cpp:450-462,
\* example/app.js:48-113).
THEOREM BannerIsUnderstood == Spec => []BannerUnderstood
<1>1. ASSUME FramingInv PROVE BannerUnderstood
  <2> SUFFICES ASSUME readBannerBytes = bannerLength PROVE BannerUnderstood
    BY DEF BannerUnderstood
  <2>1. /\ readBannerBytes \in 0 .. 24 /\ BANNER_SIZE = 24
        /\ bannerLength = (IF readBannerBytes >= 2 THEN 24 ELSE 2)
        /\ banner = BannerRead(readBannerBytes)
    <3>1. /\ readBannerBytes \in 0 .. BANNER_SIZE
          /\ bannerLength = (IF readBannerBytes >= 2 THEN BANNER_SIZE ELSE 2)
          /\ banner = BannerRead(readBannerBytes)
      BY <1>1, Zenon DEF FramingInv, BannerInv
    <3>2. BANNER_SIZE = 24
      BY DEF BANNER_SIZE
    <3>q. QED BY <3>1, <3>2, Zenon
  <2>2. readBannerBytes = 24 /\ bannerLength = 24
    BY <2>1
  <2>3. BannerRead(24) =
          [version |-> BANNER_VERSION, length |-> BANNER_SIZE, pid |-> Pid,
           realWidth |-> RealWidth, realHeight |-> RealHeight,
           virtualWidth |-> VirtualWidth, virtualHeight |-> VirtualHeight,
           orientation |-> 90 * Orientation, quirks |-> Quirks]
    <3>1. /\ FirstBytes(Pid, 22) = Pid /\ FirstBytes(RealWidth, 18) = RealWidth
          /\ FirstBytes(RealHeight, 14) = RealHeight
          /\ FirstBytes(VirtualWidth, 10) = VirtualWidth
          /\ FirstBytes(VirtualHeight, 6) = VirtualHeight
      <4>1. /\ Pid \in UInt32s /\ RealWidth \in UInt32s /\ RealHeight \in UInt32s
            /\ VirtualWidth \in UInt32s /\ VirtualHeight \in UInt32s
        BY BannerFields
      <4>2. ASSUME NEW v \in UInt32s, NEW n \in {6, 10, 14, 18, 22}
            PROVE  FirstBytes(v, n) = v
        BY Counted
      <4>q. QED BY <4>1, <4>2
    <3>2. /\ 24 - 2 = 22 /\ 24 - 6 = 18 /\ 24 - 10 = 14 /\ 24 - 14 = 10 /\ 24 - 18 = 6
          /\ 24 >= 1 /\ 24 >= 2 /\ 24 >= 23 /\ 24 >= 24
      OBVIOUS
    <3>q. QED BY <3>1, <3>2, Zenon DEF BannerRead
  <2>q. QED BY <2>1, <2>2, <2>3 DEF BannerUnderstood
<1>q. QED BY <1>1, FramingInvariance, PTL

\* Whatever cuts the stream, no frame the client takes out of it lacks the
\* JPEG header, so that the check at example/app.js:130 never ends it.
THEOREM ClientNeverRefuses == Spec => []NeverRefused
<1>1. FramingInv => NeverRefused
  BY DEF FramingInv, ConnectionInv, FrameInv, Unconnected, NeverRefused
<1>q. QED BY <1>1, FramingInvariance, PTL

\* encode() and the length putUInt32LE() writes in front of its data stay in
\* the buffer reserveData() allocated (JpgEncoder.cpp:25-36 and :58,
\* minicap.cpp:517-520).
THEOREM BufferIsKeptTo == Spec => []WithinBuffer
<1>1. FramingInv => WithinBuffer
  BY DEF FramingInv, EncoderInv
<1>q. QED BY <1>1, FramingInvariance, PTL

\* With -s, what pumpf() has written is the beginning of one JPEG, and all of
\* it when main() returns with success (minicap.cpp:128 and :425-430).
THEOREM ScreenshotIsOneJpeg == Spec => []ScreenshotIsJpeg
<1>1. FramingInv => ScreenshotIsJpeg
  BY DEF FramingInv, ShotInv
<1>q. QED BY <1>1, FramingInvariance, PTL

-----------------------------------------------------------------------------
(* The channel of whole frames.                                            *)

LEMMA ChannelBegins ==
  Init => Channel!Init
BY DEF Init, ClientInit, Channel!Init

LEMMA SendSomeSends ==
  ASSUME FramingInv, SendSome
  PROVE  Channel!Send \/ UNCHANGED <<sent, pushed>>
<1>1. /\ pushed' = pushed
      /\ sent' = sent \/ (at = "frame" /\ sent' = Append(sent, FrameSent))
  BY DEF SendSome, frameVars
<1>2. at = "frame" => FrameSent \in {Jpeg(k, n) : k \in 1 .. MaxFrames, n \in Sizes}
  BY FrameSentIs DEF JpegFrames
<1>3. CASE sent' = sent
  BY <1>1, <1>3
<1>4. CASE at = "frame" /\ sent' = Append(sent, FrameSent)
  BY <1>1, <1>2, <1>4 DEF Channel!Send
<1>q. QED BY <1>1, <1>3, <1>4

LEMMA ClientReceives ==
  ASSUME FramingInv, Client
  PROVE  Channel!Receive \/ UNCHANGED <<sent, pushed>>
<1>1. tryRead /\ sent' = sent
  BY DEF Client, serverVars
<1>2. CASE ReadBodyEnd
  BY <1>1, <1>2, NextFrameRead DEF Channel!Receive
<1>3. CASE ~ReadBodyEnd
  BY <1>1, <1>3
  DEF tryRead, ReadChunk, ReadBannerByte, ReadLengthByte, ReadBodyPart, frameVars
<1>q. QED BY <1>2, <1>3

LEMMA ChannelStep ==
  ASSUME FramingInv, [Next]_vars
  PROVE  [Channel!Next]_<<sent, pushed>>
<1>1. CASE SendSome
  BY <1>1, SendSomeSends DEF Channel!Next
<1>2. CASE Client
  BY <1>2, ClientReceives DEF Channel!Next
<1>3. CASE Leave
  BY <1>3 DEF Leave, ClientRestarts, Channel!Next, Channel!Reconnect
<1>4. ASSUME Reserve \/ Accept \/ EncodeFrame \/ LeaveLoop \/ SendFails
             \/ EncodeShot \/ WriteSome \/ WriteFails
      PROVE  UNCHANGED <<sent, pushed>>
  BY <1>4 DEF Reserve, Accept, EncodeFrame, LeaveLoop, SendFails, EncodeShot, WriteSome,
              WriteFails, clientVars, frameVars
<1>5. CASE UNCHANGED vars
  BY <1>5 DEF vars, clientVars, frameVars, serverVars
<1>q. QED BY <1>1, <1>2, <1>3, <1>4, <1>5 DEF Next

\* The bytes implement what SimpleServer takes a connection to be: a step of
\* pumps() that gives away a frame's last byte sends it, a step of tryRead()
\* that reads its last byte receives it, and every other step is invisible.
THEOREM ChannelIsImplemented == Spec => ImplementsChannel
<1>1. Init => Channel!Init
  BY ChannelBegins
<1>2. FramingInv /\ [Next]_vars => [Channel!Next]_<<sent, pushed>>
  BY ChannelStep
<1>q. QED BY <1>1, <1>2, FramingInvariance, PTL DEF Spec, ImplementsChannel, Channel!Spec

=============================================================================
