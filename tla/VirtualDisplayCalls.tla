------------------------- MODULE VirtualDisplayCalls -------------------------
(***************************************************************************)
(* Proofs about the calls an operation of the virtual display makes: each  *)
(* SDK's sequences hold the calls they should, each once and in order, and *)
(* what is left of an operation is its end (ProgramInv is inductive).      *)
(***************************************************************************)
EXTENDS VirtualDisplayInvariant, TLAPS

-----------------------------------------------------------------------------
(* Calls in order.                                                         *)

LEMMA PlaceIsNumber ==
  ASSUME NEW s, NEW call
  PROVE  Place(s, call) \in Nat
BY DEF Place

\* What a call leaves of an operation.
LEMMA Rest ==
  ASSUME NEW s, NEW p \in Seq(CallNames), p # <<>>, InOrder(s, p)
  PROVE  /\ Tail(p) \in Seq(CallNames)
         /\ InOrder(s, Tail(p))
         /\ Has(p, Head(p))
         /\ \A call : Has(Tail(p), call) <=> Has(p, call) /\ call # Head(p)
         /\ \A call : Has(p, call) => call = Head(p) \/ Place(s, Head(p)) < Place(s, call)
<1>1. /\ Tail(p) \in Seq(CallNames) /\ Head(p) = p[1] /\ 1 \in DOMAIN p
      /\ DOMAIN Tail(p) = 1 .. Len(p) - 1 /\ DOMAIN p = 1 .. Len(p) /\ Len(p) \in Nat
      /\ \A i \in 1 .. Len(p) - 1 : Tail(p)[i] = p[i + 1]
  OBVIOUS
<1>2. InOrder(s, Tail(p))
  <2> SUFFICES ASSUME NEW i \in DOMAIN Tail(p), NEW j \in DOMAIN Tail(p), i < j
               PROVE  Place(s, Tail(p)[i]) < Place(s, Tail(p)[j])
    BY DEF InOrder
  <2>1. i + 1 \in DOMAIN p /\ j + 1 \in DOMAIN p /\ i + 1 < j + 1
    BY <1>1
  <2>q. QED BY <1>1, <2>1 DEF InOrder
<1>3. \A i \in DOMAIN p : i = 1 \/ Place(s, Head(p)) < Place(s, p[i])
  BY <1>1 DEF InOrder
<1>4. \A i \in 2 .. Len(p) : p[i] # Head(p)
  BY <1>1, <1>3, PlaceIsNumber
<1>5. ASSUME NEW call, Has(Tail(p), call) PROVE Has(p, call) /\ call # Head(p)
  BY <1>1, <1>4, <1>5 DEF Has
<1>6. ASSUME NEW call, Has(p, call), call # Head(p) PROVE Has(Tail(p), call)
  <2>1. PICK i \in DOMAIN p : p[i] = call
    BY <1>6 DEF Has
  <2>2. i - 1 \in DOMAIN Tail(p) /\ Tail(p)[i - 1] = call
    BY <1>1, <1>6, <2>1
  <2>q. QED BY <2>2 DEF Has
<1>q. QED BY <1>1, <1>2, <1>3, <1>5, <1>6 DEF Has

\* One operation after another.
LEMMA Joined ==
  ASSUME NEW s, NEW p \in Seq(CallNames), NEW q \in Seq(CallNames)
  PROVE  /\ p \o q \in Seq(CallNames)
         /\ \A call : Has(p \o q, call) <=> Has(p, call) \/ Has(q, call)
         /\ /\ InOrder(s, p) /\ InOrder(s, q)
            /\ \A x, y : Has(p, x) /\ Has(q, y) => Place(s, x) < Place(s, y)
            => InOrder(s, p \o q)
<1>1. /\ p \o q \in Seq(CallNames)
      /\ DOMAIN (p \o q) = 1 .. Len(p) + Len(q)
      /\ DOMAIN p = 1 .. Len(p) /\ DOMAIN q = 1 .. Len(q)
      /\ Len(p) \in Nat /\ Len(q) \in Nat
      /\ \A i \in 1 .. Len(p) + Len(q) :
           (p \o q)[i] = IF i <= Len(p) THEN p[i] ELSE q[i - Len(p)]
  OBVIOUS
<1>2. \A call : Has(p \o q, call) <=> Has(p, call) \/ Has(q, call)
  <2>1. ASSUME NEW call, Has(p \o q, call) PROVE Has(p, call) \/ Has(q, call)
    <3>1. PICK i \in 1 .. Len(p) + Len(q) : (p \o q)[i] = call
      BY <1>1, <2>1 DEF Has
    <3>2. CASE i <= Len(p)
      BY <1>1, <3>1, <3>2 DEF Has
    <3>3. CASE ~(i <= Len(p))
      <4>1. i - Len(p) \in DOMAIN q /\ q[i - Len(p)] = call
        BY <1>1, <3>1, <3>3
      <4>q. QED BY <4>1 DEF Has
    <3>q. QED BY <3>2, <3>3
  <2>2. ASSUME NEW call, Has(p, call) PROVE Has(p \o q, call)
    BY <1>1, <2>2 DEF Has
  <2>3. ASSUME NEW call, Has(q, call) PROVE Has(p \o q, call)
    <3>1. PICK i \in DOMAIN q : q[i] = call
      BY <2>3 DEF Has
    <3>2. i + Len(p) \in DOMAIN (p \o q) /\ (p \o q)[i + Len(p)] = call
      BY <1>1, <3>1
    <3>q. QED BY <3>2 DEF Has
  <2>q. QED BY <2>1, <2>2, <2>3
<1>3. ASSUME InOrder(s, p), InOrder(s, q),
             \A x, y : Has(p, x) /\ Has(q, y) => Place(s, x) < Place(s, y)
      PROVE  InOrder(s, p \o q)
  <2> SUFFICES ASSUME NEW i \in 1 .. Len(p) + Len(q), NEW j \in 1 .. Len(p) + Len(q), i < j
               PROVE  Place(s, (p \o q)[i]) < Place(s, (p \o q)[j])
    BY <1>1 DEF InOrder
  <2>1. CASE j <= Len(p)
    BY <1>1, <1>3, <2>1 DEF InOrder
  <2>2. CASE i <= Len(p) /\ ~(j <= Len(p))
    <3>1. Has(p, p[i]) /\ Has(q, q[j - Len(p)])
      BY <1>1, <2>2 DEF Has
    <3>q. QED BY <1>1, <1>3, <2>2, <3>1, SMTT(60)
  <2>3. CASE ~(i <= Len(p))
    <3>1. i - Len(p) \in DOMAIN q /\ j - Len(p) \in DOMAIN q /\ i - Len(p) < j - Len(p)
      BY <1>1, <2>3
    <3>2. (p \o q)[i] = q[i - Len(p)] /\ (p \o q)[j] = q[j - Len(p)]
      BY <1>1, <2>3
    <3>q. QED BY <1>3, <3>1, <3>2 DEF InOrder
  <2>q. QED BY <1>1, <2>1, <2>2, <2>3
<1>q. QED BY <1>1, <1>2, <1>3

\* A sequence holds these calls, each once and in its place.
Holds(s, p, calls) ==
  p \in Seq(CallNames) /\ InOrder(s, p) /\ \A call : Has(p, call) <=> call \in calls

LEMMA JoinedHolds ==
  ASSUME NEW s, NEW p, NEW q, NEW A, NEW B, Holds(s, p, A), Holds(s, q, B),
         \A x \in A, y \in B : Place(s, x) < Place(s, y)
  PROVE  Holds(s, p \o q, A \cup B)
BY Joined DEF Holds

\* The pieces the sequences are made of.
LEMMA Pieces ==
  ASSUME NEW s \in Sdks
  PROVE  /\ Holds(s, BufferOptions, {"setDefaultBufferSize", "setDefaultBufferFormat"})
         /\ Holds(s, Publication, {"setSurface", "setProjection", "setLayerStack"})
         /\ Holds(s, <<"applyTransaction", "markRunning">>, {"applyTransaction", "markRunning"})
         /\ \A call \in CallNames : Holds(s, <<call>>, {call})
<1>1. Holds(s, BufferOptions, {"setDefaultBufferSize", "setDefaultBufferFormat"})
  <2>1. BufferOptions \in Seq(CallNames) /\ InOrder(s, BufferOptions)
    BY DEF CallNames, BufferOptions, InOrder, Place
  <2>2. \A call : Has(BufferOptions, call) =>
        call \in {"setDefaultBufferSize", "setDefaultBufferFormat"}
    BY DEF BufferOptions, Has
  <2>3. \A call : call \in {"setDefaultBufferSize", "setDefaultBufferFormat"} =>
        Has(BufferOptions, call)
    BY DEF BufferOptions, Has
  <2>q. QED BY <2>1, <2>2, <2>3 DEF Holds
<1>2. Holds(s, Publication, {"setSurface", "setProjection", "setLayerStack"})
  <2>1. Publication \in Seq(CallNames) /\ InOrder(s, Publication)
    BY DEF CallNames, Publication, InOrder, Place
  <2>2. \A call : Has(Publication, call) =>
        call \in {"setSurface", "setProjection", "setLayerStack"}
    BY DEF Publication, Has
  <2>3. \A call : call \in {"setSurface", "setProjection", "setLayerStack"} =>
        Has(Publication, call)
    BY DEF Publication, Has
  <2>q. QED BY <2>1, <2>2, <2>3 DEF Holds
<1>3. \A call \in CallNames : Holds(s, <<call>>, {call})
  <2> SUFFICES ASSUME NEW call \in CallNames PROVE Holds(s, <<call>>, {call})
    OBVIOUS
  <2>1. <<call>> \in Seq(CallNames) /\ DOMAIN <<call>> = {1} /\ <<call>>[1] = call
    OBVIOUS
  <2>q. QED BY <2>1 DEF Holds, InOrder, Has
<1>4. Holds(s, <<"applyTransaction", "markRunning">>, {"applyTransaction", "markRunning"})
  <2> DEFINE p == <<"applyTransaction", "markRunning">>
  <2>1. p \in Seq(CallNames) /\ InOrder(s, p)
    BY DEF CallNames, InOrder, Place
  <2>2. \A call : Has(p, call) => call \in {"applyTransaction", "markRunning"}
    BY DEF Has
  <2>3. \A call : call \in {"applyTransaction", "markRunning"} => Has(p, call)
    BY DEF Has
  <2>q. QED BY <2>1, <2>2, <2>3 DEF Holds
<1>q. QED BY <1>1, <1>2, <1>3, <1>4

\* The sequences of every SDK hold the calls they should, in order.
LEMMA DestroyCalls ==
  ASSUME NEW s \in Sdks
  PROVE  Holds(s, destroyVirtualDisplay(s), TearingDown(s))
<1> USE DEF Holds
<1>1. CASE s \in {17, 18}
  <2>1. destroyVirtualDisplay(s) = Destroy17
    BY <1>1 DEF destroyVirtualDisplay, Destroy17, Destroy18
  <2>2. Destroy17 \in Seq(CallNames) /\ InOrder(s, Destroy17)
    BY DEF CallNames, Destroy17, InOrder, Place
  <2>3. \A call : Has(Destroy17, call) => call \in TearingDown(17)
    BY DEF Destroy17, Has, TearingDown
  <2>4. \A call : call \in TearingDown(17) => Has(Destroy17, call)
    BY DEF Destroy17, Has, TearingDown
  <2>q. QED BY <1>1, <2>1, <2>2, <2>3, <2>4 DEF TearingDown
<1>2. CASE s \in Sdks \ {17, 18}
  <2>1. destroyVirtualDisplay(s) = Destroy21
    <3>1. /\ Destroy19 = Destroy21 /\ Destroy22 = Destroy21 /\ Destroy23 = Destroy21
          /\ Destroy24 = Destroy21 /\ Destroy25 = Destroy21 /\ Destroy26 = Destroy21
          /\ Destroy27 = Destroy21 /\ Destroy28 = Destroy21 /\ Destroy29 = Destroy21
      BY DEF Destroy19, Destroy21, Destroy22, Destroy23, Destroy24, Destroy25, Destroy26,
         Destroy27, Destroy28, Destroy29
    <3>q. QED BY <1>2, <3>1 DEF Sdks, destroyVirtualDisplay
  <2>2. Destroy21 \in Seq(CallNames) /\ InOrder(s, Destroy21)
    BY DEF CallNames, Destroy21, InOrder, Place
  <2>3. \A call : Has(Destroy21, call) => call \in TearingDown(19)
    BY DEF Destroy21, Has, TearingDown
  <2>4. \A call : call \in TearingDown(19) => Has(Destroy21, call)
    BY DEF Destroy21, Has, TearingDown
  <2>q. QED BY <1>2, <2>1, <2>2, <2>3, <2>4 DEF TearingDown, Sdks
<1>q. QED BY <1>1, <1>2

\* How the sequences that make a display begin and go on.
Start17 == <<"initCheck", "createDisplay", "newConsumer", "takeQueue">>
Start19 == <<"initCheck", "createDisplay", "takeQueue", "newConsumer">>
Start21 == <<"initCheck", "createDisplay", "takeQueue">>
Consumer == <<"newConsumer", "setListener">>

LEMMA Starts ==
  ASSUME NEW s \in Sdks
  PROVE  /\ s \in {17, 18} => Holds(s, Start17, {"initCheck", "createDisplay", "newConsumer", "takeQueue"})
         /\ s = 19 => Holds(s, Start19, {"initCheck", "createDisplay", "takeQueue", "newConsumer"})
         /\ s \in Sdks \ {17, 18, 19} =>
              Holds(s, Start21, {"initCheck", "createDisplay", "takeQueue"})
         /\ s \in Sdks \ {17, 18, 19} => Holds(s, Consumer, {"newConsumer", "setListener"})
<1>1. ASSUME s \in {17, 18}
      PROVE Holds(s, Start17, {"initCheck", "createDisplay", "newConsumer", "takeQueue"})
  <2>1. Start17 \in Seq(CallNames) /\ InOrder(s, Start17)
    BY <1>1 DEF Sdks, CallNames, Start17, InOrder, Place
  <2>2. \A call : Has(Start17, call) =>
        call \in {"initCheck", "createDisplay", "newConsumer", "takeQueue"}
    BY DEF Start17, Has
  <2>3. \A call : call \in {"initCheck", "createDisplay", "newConsumer", "takeQueue"} =>
        Has(Start17, call)
    BY DEF Start17, Has
  <2>q. QED BY <2>1, <2>2, <2>3 DEF Holds
<1>2. ASSUME s = 19
      PROVE Holds(s, Start19, {"initCheck", "createDisplay", "takeQueue", "newConsumer"})
  <2>1. Start19 \in Seq(CallNames) /\ InOrder(s, Start19)
    BY <1>2 DEF Sdks, CallNames, Start19, InOrder, Place
  <2>2. \A call : Has(Start19, call) =>
        call \in {"initCheck", "createDisplay", "takeQueue", "newConsumer"}
    BY DEF Start19, Has
  <2>3. \A call : call \in {"initCheck", "createDisplay", "takeQueue", "newConsumer"} =>
        Has(Start19, call)
    BY DEF Start19, Has
  <2>q. QED BY <2>1, <2>2, <2>3 DEF Holds
<1>3. ASSUME s \in Sdks \ {17, 18, 19}
      PROVE Holds(s, Start21, {"initCheck", "createDisplay", "takeQueue"})
  <2>1. Start21 \in Seq(CallNames) /\ InOrder(s, Start21)
    BY <1>3 DEF Sdks, CallNames, Start21, InOrder, Place
  <2>2. \A call : Has(Start21, call) => call \in {"initCheck", "createDisplay", "takeQueue"}
    BY DEF Start21, Has
  <2>3. \A call : call \in {"initCheck", "createDisplay", "takeQueue"} => Has(Start21, call)
    BY DEF Start21, Has
  <2>q. QED BY <2>1, <2>2, <2>3 DEF Holds
<1>4. ASSUME s \in Sdks \ {17, 18, 19} PROVE Holds(s, Consumer, {"newConsumer", "setListener"})
  <2>1. Consumer \in Seq(CallNames) /\ InOrder(s, Consumer)
    BY <1>4 DEF Sdks, CallNames, Consumer, InOrder, Place
  <2>2. \A call : Has(Consumer, call) => call \in {"newConsumer", "setListener"}
    BY DEF Consumer, Has
  <2>3. \A call : call \in {"newConsumer", "setListener"} => Has(Consumer, call)
    BY DEF Consumer, Has
  <2>q. QED BY <2>1, <2>2, <2>3 DEF Holds
<1>q. QED BY <1>1, <1>2, <1>3, <1>4

\* A transaction around what it sets.
LEMMA Transactions ==
  ASSUME NEW s \in Sdks
  PROVE  /\ Holds(s, GlobalTransaction(Publication),
                  {"openTransaction", "closeTransaction", "setSurface", "setProjection",
                   "setLayerStack"})
         /\ Holds(s, GlobalTransaction(<<"findSetDisplaySurface">> \o Publication),
                  {"openTransaction", "closeTransaction", "setSurface", "setProjection",
                   "setLayerStack", "findSetDisplaySurface"})
<1> DEFINE S == {"setSurface", "setProjection", "setLayerStack"}
<1>1. Holds(s, <<"openTransaction">>, {"openTransaction"})
      /\ Holds(s, <<"closeTransaction">>, {"closeTransaction"})
      /\ Holds(s, <<"findSetDisplaySurface">>, {"findSetDisplaySurface"})
      /\ Holds(s, Publication, S)
  BY Pieces DEF CallNames
<1>2. Holds(s, <<"openTransaction">> \o Publication, {"openTransaction"} \cup S)
  BY <1>1, JoinedHolds DEF Place
<1>3. Holds(s, GlobalTransaction(Publication),
            ({"openTransaction"} \cup S) \cup {"closeTransaction"})
  <2>1. \A x \in {"openTransaction"} \cup S, y \in {"closeTransaction"} :
          Place(s, x) < Place(s, y)
    BY DEF Place
  <2>q. QED BY <1>1, <1>2, <2>1, JoinedHolds DEF GlobalTransaction
<1>4. Holds(s, <<"findSetDisplaySurface">> \o Publication, {"findSetDisplaySurface"} \cup S)
  BY <1>1, JoinedHolds DEF Place
<1>5. Holds(s, <<"openTransaction">> \o (<<"findSetDisplaySurface">> \o Publication),
            {"openTransaction"} \cup ({"findSetDisplaySurface"} \cup S))
  BY <1>1, <1>4, JoinedHolds DEF Place
<1>6. Holds(s, GlobalTransaction(<<"findSetDisplaySurface">> \o Publication),
            ({"openTransaction"} \cup ({"findSetDisplaySurface"} \cup S))
               \cup {"closeTransaction"})
  <2>1. \A x \in {"openTransaction"} \cup ({"findSetDisplaySurface"} \cup S),
           y \in {"closeTransaction"} : Place(s, x) < Place(s, y)
    BY DEF Place
  <2>q. QED BY <1>1, <1>5, <2>1, JoinedHolds DEF GlobalTransaction
<1>7. /\ ({"openTransaction"} \cup S) \cup {"closeTransaction"}
           = {"openTransaction", "closeTransaction"} \cup S
      /\ ({"openTransaction"} \cup ({"findSetDisplaySurface"} \cup S)) \cup {"closeTransaction"}
           = {"openTransaction", "closeTransaction", "setSurface", "setProjection",
              "setLayerStack", "findSetDisplaySurface"}
  OBVIOUS
<1>q. QED BY <1>3, <1>6, <1>7

\* Five pieces.
LEMMA JoinedFive ==
  ASSUME NEW s, NEW a, NEW b, NEW c, NEW d, NEW e,
         NEW A, NEW B, NEW C, NEW D, NEW E,
         Holds(s, a, A), Holds(s, b, B), Holds(s, c, C), Holds(s, d, D), Holds(s, e, E),
         \A x \in A, y \in B \cup C \cup D \cup E : Place(s, x) < Place(s, y),
         \A x \in B, y \in C \cup D \cup E : Place(s, x) < Place(s, y),
         \A x \in C, y \in D \cup E : Place(s, x) < Place(s, y),
         \A x \in D, y \in E : Place(s, x) < Place(s, y)
  PROVE  Holds(s, a \o b \o c \o d \o e, A \cup B \cup C \cup D \cup E)
<1>1. Holds(s, a \o b, A \cup B)
  BY JoinedHolds
<1>2. Holds(s, a \o b \o c, A \cup B \cup C)
  BY <1>1, JoinedHolds
<1>3. Holds(s, a \o b \o c \o d, A \cup B \cup C \cup D)
  BY <1>2, JoinedHolds
<1>q. QED BY <1>3, JoinedHolds

LEMMA CreateCalls ==
  ASSUME NEW s \in Sdks
  PROVE  Holds(s, createVirtualDisplay(s), BuildingUp(s))
<1> DEFINE Options == {"setDefaultBufferSize", "setDefaultBufferFormat"}
           Parameters == {"setSurface", "setProjection", "setLayerStack"}
           Transaction == {"openTransaction", "closeTransaction", "setSurface",
                           "setProjection", "setLayerStack"}
           Listener == {"setListener"}
           Last == {"markRunning"}
<1>0. /\ Holds(s, <<"setListener">>, Listener)
      /\ Holds(s, <<"markRunning">>, Last)
  BY Pieces DEF CallNames
<1>1. CASE s \in {17, 18}
  <2> DEFINE A == {"initCheck", "createDisplay", "newConsumer", "takeQueue"}
  <2>1. createVirtualDisplay(s) =
          Start17 \o BufferOptions \o <<"setListener">> \o GlobalTransaction(Publication)
            \o <<"markRunning">>
    <3>1. createVirtualDisplay(s) = Create17
      <4>1. Create18 = Create17
        BY DEF Create17, Create18
      <4>2. CASE s = 17
        BY <4>2 DEF createVirtualDisplay
      <4>3. CASE s = 18
        BY <4>1, <4>3 DEF createVirtualDisplay
      <4>q. QED BY <1>1, <4>2, <4>3
    <3>q. QED BY <3>1 DEF Create17, Start17
  <2>2. Holds(s, createVirtualDisplay(s),
              A \cup Options \cup Listener \cup Transaction \cup Last)
    <3>1. \A x \in A, y \in Options \cup Listener \cup Transaction \cup Last :
            Place(s, x) < Place(s, y)
      BY <1>1 DEF Place
    <3>2. \A x \in Options, y \in Listener \cup Transaction \cup Last :
            Place(s, x) < Place(s, y)
      BY DEF Place
    <3>3. \A x \in Listener, y \in Transaction \cup Last :
            Place(s, x) < Place(s, y)
      BY DEF Place
    <3>4. \A x \in Transaction, y \in Last : Place(s, x) < Place(s, y)
      BY DEF Place
    <3>5. Holds(s, Start17, A) /\ Holds(s, BufferOptions, Options)
          /\ Holds(s, GlobalTransaction(Publication), Transaction)
      BY <1>1, Starts, Pieces, Transactions
    <3> HIDE DEF A, Options, Transaction, Listener, Last
    <3>q. QED BY <1>0, <2>1, <3>1, <3>2, <3>3, <3>4, <3>5, JoinedFive
  <2>3. A \cup Options \cup Listener \cup Transaction \cup Last = BuildingUp(s)
    BY <1>1 DEF BuildingUp
  <2>q. QED BY <2>2, <2>3
<1>2. CASE s = 19
  <2> DEFINE A == {"initCheck", "createDisplay", "takeQueue", "newConsumer"}
  <2>1. createVirtualDisplay(s) =
          Start19 \o BufferOptions \o <<"setListener">> \o GlobalTransaction(Publication)
            \o <<"markRunning">>
    BY <1>2 DEF createVirtualDisplay, Create19, Start19
  <2>2. Holds(s, createVirtualDisplay(s),
              A \cup Options \cup Listener \cup Transaction \cup Last)
    <3>1. \A x \in A, y \in Options \cup Listener \cup Transaction \cup Last :
            Place(s, x) < Place(s, y)
      BY <1>2 DEF Place
    <3>2. \A x \in Options, y \in Listener \cup Transaction \cup Last :
            Place(s, x) < Place(s, y)
      BY DEF Place
    <3>3. \A x \in Listener, y \in Transaction \cup Last :
            Place(s, x) < Place(s, y)
      BY DEF Place
    <3>4. \A x \in Transaction, y \in Last : Place(s, x) < Place(s, y)
      BY DEF Place
    <3>5. Holds(s, Start19, A) /\ Holds(s, BufferOptions, Options)
          /\ Holds(s, GlobalTransaction(Publication), Transaction)
      BY <1>2, Starts, Pieces, Transactions
    <3> HIDE DEF A, Options, Transaction, Listener, Last
    <3>q. QED BY <1>0, <2>1, <3>1, <3>2, <3>3, <3>4, <3>5, JoinedFive
  <2>3. A \cup Options \cup Listener \cup Transaction \cup Last = BuildingUp(s)
    BY <1>2 DEF BuildingUp
  <2>q. QED BY <2>2, <2>3
<1>3. CASE s \in Sdks \ {17, 18, 19}
  <2> DEFINE A == {"initCheck", "createDisplay", "takeQueue"}
             C == {"newConsumer", "setListener"}
             Find == {"findSetDisplaySurface"}
             Applied == {"applyTransaction", "markRunning"}
  <2>0. /\ Holds(s, Start21, A) /\ Holds(s, BufferOptions, Options) /\ Holds(s, Consumer, C)
        /\ Holds(s, GlobalTransaction(Publication), Transaction)
        /\ Holds(s, GlobalTransaction(<<"findSetDisplaySurface">> \o Publication),
                 Transaction \cup Find)
        /\ Holds(s, Publication, Parameters)
        /\ Holds(s, <<"applyTransaction", "markRunning">>, Applied)
    <3>1. Transaction \cup Find = {"openTransaction", "closeTransaction", "setSurface",
            "setProjection", "setLayerStack", "findSetDisplaySurface"}
      OBVIOUS
    <3>2. Holds(s, Start21, A) /\ Holds(s, Consumer, C)
      BY <1>3, Starts
    <3>3. /\ Holds(s, BufferOptions, Options) /\ Holds(s, Publication, Parameters)
          /\ Holds(s, <<"applyTransaction", "markRunning">>, Applied)
      BY Pieces
    <3>q. QED BY <3>1, <3>2, <3>3, Transactions
  <2> DEFINE Rest3 == C \cup Transaction \cup Find \cup Applied
  <2>1. /\ \A x \in A, y \in Options \cup Rest3 : Place(s, x) < Place(s, y)
        /\ \A x \in Options, y \in Rest3 : Place(s, x) < Place(s, y)
    BY <1>3 DEF Place, Sdks
  <2>2. \A x \in C, y \in Transaction \cup Find \cup Applied :
          Place(s, x) < Place(s, y)
    BY <1>3 DEF Place, Sdks
  <2>3. /\ \A x \in Transaction \cup Find, y \in Last : Place(s, x) < Place(s, y)
        /\ \A x \in Parameters, y \in Applied : Place(s, x) < Place(s, y)
        /\ Last \subseteq Applied /\ Parameters \subseteq Transaction
    BY DEF Place
  <2>4. CASE s \in {21, 22, 23, 24, 26, 27}
    <3>1. createVirtualDisplay(s) =
            Start21 \o BufferOptions \o Consumer \o GlobalTransaction(Publication)
              \o <<"markRunning">>
      <4>1. createVirtualDisplay(s) = Create21
        BY <2>4 DEF createVirtualDisplay, Create22, Create23, Create24, Create26, Create27
      <4>q. QED BY <4>1 DEF Create21, Start21, Consumer
    <3>2. A \cup Options \cup C \cup Transaction \cup Last = BuildingUp(s)
      BY <2>4 DEF BuildingUp
    <3> HIDE DEF A, Options, C, Transaction, Find, Parameters, Applied, Last
    <3>3. /\ \A x \in A, y \in Options \cup C \cup Transaction \cup Last :
               Place(s, x) < Place(s, y)
          /\ \A x \in Options, y \in C \cup Transaction \cup Last : Place(s, x) < Place(s, y)
          /\ \A x \in C, y \in Transaction \cup Last : Place(s, x) < Place(s, y)
          /\ \A x \in Transaction, y \in Last : Place(s, x) < Place(s, y)
      BY <2>1, <2>2, <2>3
    <3>q. QED BY <1>0, <2>0, <3>1, <3>2, <3>3, JoinedFive, SMTT(60)
  <2>5. CASE s = 25
    <3>1. createVirtualDisplay(s) =
            Start21 \o BufferOptions \o Consumer
              \o GlobalTransaction(<<"findSetDisplaySurface">> \o Publication)
              \o <<"markRunning">>
      BY <2>5 DEF createVirtualDisplay, Create25, Start21, Consumer
    <3>2. A \cup Options \cup C \cup (Transaction \cup Find) \cup Last = BuildingUp(s)
      BY <2>5 DEF BuildingUp
    <3> HIDE DEF A, Options, C, Transaction, Find, Parameters, Applied, Last
    <3>3. /\ \A x \in A, y \in Options \cup C \cup (Transaction \cup Find) \cup Last :
               Place(s, x) < Place(s, y)
          /\ \A x \in Options, y \in C \cup (Transaction \cup Find) \cup Last :
               Place(s, x) < Place(s, y)
          /\ \A x \in C, y \in (Transaction \cup Find) \cup Last : Place(s, x) < Place(s, y)
          /\ \A x \in (Transaction \cup Find), y \in Last : Place(s, x) < Place(s, y)
      BY <2>1, <2>2, <2>3
    <3>q. QED BY <1>0, <2>0, <3>1, <3>2, <3>3, JoinedFive
  <2>6. CASE s \in {28, 29}
    <3>1. createVirtualDisplay(s) =
            Start21 \o BufferOptions \o Consumer \o Publication
              \o <<"applyTransaction", "markRunning">>
      <4>1. createVirtualDisplay(s) = Create28
        BY <2>6 DEF createVirtualDisplay, Create29
      <4>q. QED BY <4>1 DEF Create28, Start21, Consumer
    <3>2. A \cup Options \cup C \cup Parameters \cup Applied = BuildingUp(s)
      BY <2>6 DEF BuildingUp
    <3> HIDE DEF A, Options, C, Transaction, Find, Parameters, Applied, Last
    <3>q. QED BY <2>0, <2>1, <2>2, <2>3, <3>1, <3>2, JoinedFive
  <2>q. QED BY <1>3, <2>4, <2>5, <2>6 DEF Sdks
<1>q. QED BY <1>1, <1>2, <1>3

-----------------------------------------------------------------------------
(* What is left of an operation.                                           *)

USE DEF deviceVars, bufferVars, refVars, composerVars, infoVars, flowVars, vars

LEMMA NothingLeft ==
  ASSUME NEW p \in Seq(CallNames)
  PROVE  p = <<>> <=> \A call : ~Has(p, call)
<1>1. CASE p = <<>>
  BY <1>1 DEF Has
<1>2. CASE p # <<>>
  <2>1. Has(p, p[1])
    BY <1>2 DEF Has
  <2>q. QED BY <1>2, <2>1
<1>q. QED BY <1>1, <1>2

\* The calls left are calls of the operation.
LEMMA OfOperation ==
  /\ {program[i] : i \in DOMAIN program} \subseteq Operation
       <=> \A x : Left(x) => x \in Operation
  /\ ({program[i] : i \in DOMAIN program} \subseteq Operation)'
       <=> \A x : Left(x)' => x \in Operation'
BY DEF Left, Has

\* A call that is made was the first of those left.
LEMMA CallMade ==
  ASSUME ProgramInv, NEW c, Calls(c)
  PROVE  /\ Left(c) /\ c \in Operation
         /\ stage \in {"applying", "freeing"}
         /\ program' \in Seq(CallNames)
         /\ InOrder(sdk, program')
         /\ \A x : Left(x)' <=> Left(x) /\ x # c
         /\ \A x : Left(x) => x = c \/ Place(sdk, c) < Place(sdk, x)
         /\ \A x \in Operation : Place(sdk, c) < Place(sdk, x) => Left(x)
<1>1. program \in Seq(CallNames) /\ program # <<>> /\ InOrder(sdk, program)
      /\ c = Head(program) /\ program' = Tail(program)
  BY DEF ProgramInv, Calls
<1>2. /\ program' \in Seq(CallNames) /\ InOrder(sdk, program') /\ Has(program, c)
      /\ \A x : Has(program', x) <=> Has(program, x) /\ x # c
      /\ \A x : Has(program, x) => x = c \/ Place(sdk, c) < Place(sdk, x)
  BY <1>1, Rest
<1>q. QED BY <1>1, <1>2 DEF ProgramInv, Left

\* The calls of the two sequences and their places.
LEMMA Places ==
  /\ \A s : \A x \in TearingDown(s) : Place(s, x) \in 1 .. 7
  /\ \A s : \A x \in TearingDown(s) : x = "markStopped" \/ Place(s, x) < 7
  /\ \A s : \A x \in BuildingUp(s) : Place(s, x) \in 8 .. 24
  /\ \A s : \A x \in BuildingUp(s) : x = "markRunning" \/ Place(s, x) < 24
  /\ \A s : Place(s, "markStopped") = 7 /\ "markStopped" \in TearingDown(s)
  /\ \A s : Place(s, "markRunning") = 24 /\ "markRunning" \in BuildingUp(s)
BY DEF TearingDown, BuildingUp, Place

\* A call but the last leaves some.
LEMMA CallLeaves ==
  ASSUME ProgramInv, NEW c, Calls(c), UNCHANGED <<sdk, stage>>,
         c # "markRunning", c # "markStopped" \/ stage = "applying"
  PROVE  ProgramInv'
<1> USE CallMade
<1>1. Operation' = Operation
  BY DEF Operation
<1>2. \A x, y \in Operation : Left(x)' /\ Place(sdk, x) < Place(sdk, y) => Left(y)'
  <2> SUFFICES ASSUME NEW x \in Operation, NEW y \in Operation,
                      Left(x)', Place(sdk, x) < Place(sdk, y)
               PROVE  Left(y)'
    OBVIOUS
  <2>1. Left(x) /\ Place(sdk, c) < Place(sdk, x) /\ Left(y)
    BY DEF ProgramInv
  <2>2. Place(sdk, c) \in Nat /\ Place(sdk, x) \in Nat /\ Place(sdk, y) \in Nat
    BY PlaceIsNumber
  <2>3. y # c
    BY <2>1, <2>2
  <2>q. QED BY <2>1, <2>3
<1>3. program' # <<>>
  <2>1. CASE stage = "applying"
    <3>1. "markRunning" \in Operation
      BY <2>1, Places DEF Operation
    <3>2. Place(sdk, c) < Place(sdk, "markRunning")
      BY Places DEF Operation
    <3>3. Left("markRunning")'
      BY <3>1, <3>2
    <3>q. QED BY <3>3, NothingLeft DEF Left
  <2>2. CASE stage = "freeing"
    <3>1. c \in TearingDown(sdk) /\ "markStopped" \in Operation
      BY <2>2, Places DEF Operation
    <3>2. Place(sdk, c) < Place(sdk, "markStopped")
      BY <2>2, <3>1, Places
    <3>3. Left("markStopped")'
      BY <2>2, <3>1, <3>2
    <3>q. QED BY <3>3, NothingLeft DEF Left
  <2>q. QED BY <2>1, <2>2
<1>4. \A x : Left(x)' => x \in Operation'
  BY <1>1, OfOperation DEF ProgramInv
<1>q. QED BY <1>1, <1>2, <1>3, <1>4, OfOperation DEF ProgramInv

\* The last call leaves none.
LEMMA LastCall ==
  ASSUME ProgramInv, NEW c, Calls(c),
         c = "markRunning" \/ (c = "markStopped" /\ stage = "freeing")
  PROVE  program' = <<>>
<1> SUFFICES ASSUME NEW x, Left(x), x # c PROVE FALSE
  BY CallMade, NothingLeft DEF Left
<1>1. Place(sdk, c) < Place(sdk, x) /\ x \in Operation
  BY CallMade, OfOperation DEF ProgramInv
<1>2. CASE c = "markRunning"
  BY <1>1, <1>2, Places DEF Operation
<1>3. CASE c = "markStopped" /\ stage = "freeing"
  BY <1>1, <1>3, Places DEF Operation
<1>q. QED BY <1>2, <1>3

\* Without calls left there is nothing else to say of them.
LEMMA NoCallsLeft ==
  ASSUME program' = <<>>, stage' \notin {"applying", "freeing"}
  PROVE  ProgramInv'
<1>1. \A x : ~Left(x)'
  BY DEF Left, Has
<1>q. QED BY <1>1 DEF ProgramInv, InOrder

\* An operation begins with all of its calls.
LEMMA AllCallsLeft ==
  ASSUME NEW calls, Holds(sdk', program', calls),
         \/ stage' = "freeing" /\ calls = TearingDown(sdk')
         \/ stage' = "applying" /\ calls = BuildingUp(sdk')
         \/ stage' = "applying" /\ calls = TearingDown(sdk') \cup BuildingUp(sdk')
  PROVE  ProgramInv' /\ \A x : Left(x)' <=> x \in calls
<1>1. \A x : Left(x)' <=> x \in calls
  BY DEF Holds, Left
<1>2. program' # <<>>
  <2>1. \E x : Left(x)'
    BY <1>1, Places
  <2>q. QED BY <2>1, NothingLeft DEF Holds, Left
<1>3. \A x : Left(x)' => x \in Operation'
  BY <1>1 DEF Operation
<1>4. \A x, y \in Operation' : Left(x)' /\ Place(sdk', x) < Place(sdk', y) => Left(y)'
  <2>1. CASE stage' = "applying" /\ calls = BuildingUp(sdk')
    BY <1>1, <2>1, Places DEF Operation
  <2>q. QED BY <1>1, <2>1 DEF Operation
<1>q. QED BY <1>1, <1>2, <1>3, <1>4, OfOperation DEF ProgramInv, Holds

=============================================================================
