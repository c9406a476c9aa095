-------------------------- MODULE BipBufferProofs --------------------------
(***************************************************************************)
(* The bip buffer keeps its bytes in order, for every size, for callers    *)
(* that poll no more than region A holds.  A streambuf into which nothing  *)
(* is put while its sink has a part to take is such a caller, and its sink *)
(* receives every byte in order.                                           *)
(***************************************************************************)
EXTENDS OutBipbuf, TLAPS

LEMMA InitInv == Init => IInv
  <1> SUFFICES ASSUME Init PROVE IInv
    OBVIOUS
  <1>1. TypeOK
    <2>1. 0 \in 0..MaxBytes /\ 0 \in 0..Size /\ 0 \in 0..0
      BY BipAssumption
    <2>2. /\ data \in [0..Size-1 -> 0..MaxBytes]
          /\ a_start \in 0..Size /\ a_end \in a_start..Size /\ b_end \in 0..a_start
          /\ offered \in 0..MaxBytes /\ polled \in 0..offered
      BY <2>1 DEF Init
    <2>3. b_inuse \in BOOLEAN
      BY DEF Init
    <2>. QED  BY <2>2, <2>3 DEF TypeOK
  <1>2. InOrder /\ RegionsInv
    BY BipAssumption DEF Init, InOrder, RegionsInv, Used
  <1>. QED  BY <1>1, <1>2 DEF IInv

\* What an offer writes are the numbers of the bytes that come next.
LEMMA Written ==
    ASSUME TypeOK, NEW p \in 0..Size, NEW n \in 0..Size, p + n <= Size,
           offered + n <= MaxBytes, Write(p, n)
    PROVE  /\ data' \in [0..Size-1 -> 0..MaxBytes]
           /\ offered' = offered + n /\ offered' \in 0..MaxBytes
           /\ \A i \in p..p+n-1 : data'[i] = offered + 1 + (i - p)
           /\ \A i \in 0..Size-1 : i < p \/ i >= p + n => data'[i] = data[i]
  <1>1. \A i \in p..p+n-1 : offered + 1 + (i - p) \in 0..MaxBytes
    BY BipAssumption DEF TypeOK
  <1>2. data' \in [0..Size-1 -> 0..MaxBytes]
    BY <1>1, BipAssumption DEF TypeOK, Write
  <1>. QED  BY <1>2, BipAssumption DEF TypeOK, Write

LEMMA OfferInv ==
    ASSUME IInv, NEW n \in 0..Size, Offer(n)
    PROVE  IInv'
  <1> USE BipAssumption DEF IInv
  <1>1. CASE OfferA(n)
    <2>1. a_end + n <= Size /\ b_end = 0 /\ a_end \in 0..Size /\ ~b_inuse
      BY <1>1 DEF OfferA, Unused, TypeOK, RegionsInv
    <2>2. /\ a_end' = a_end + n /\ a_start' = a_start /\ b_end' = b_end
          /\ polled' = polled /\ Write(a_end, n) /\ offered + n <= MaxBytes
          /\ b_inuse' = (Size - (a_end + n) < a_start - b_end)
      BY <1>1 DEF OfferA, SwitchToB
    <2>3. /\ data' \in [0..Size-1 -> 0..MaxBytes]
          /\ offered' = offered + n /\ offered' \in 0..MaxBytes
          /\ \A i \in a_end..a_end+n-1 : data'[i] = offered + 1 + (i - a_end)
          /\ \A i \in 0..Size-1 : i < a_end \/ i >= a_end + n => data'[i] = data[i]
      BY <2>1, <2>2, Written
    <2>4. TypeOK'
      BY <2>1, <2>2, <2>3 DEF TypeOK
    <2>5. InOrder'
      <3>1. Used' = offered' - polled'
        BY <2>2, <2>3 DEF InOrder, Used, TypeOK
      <3>2. ASSUME NEW i \in a_start..(a_end + n)-1
            PROVE  data'[i] = polled + 1 + (i - a_start)
        <4>1. CASE i < a_end
          BY <4>1, <2>1, <2>3 DEF InOrder, TypeOK
        <4>2. CASE i >= a_end
          <5>1. data'[i] = offered + 1 + (i - a_end)
            BY <4>2, <2>1, <2>3 DEF TypeOK
          <5>2. offered - polled = a_end - a_start
            BY <2>1 DEF InOrder, Used, TypeOK
          <5>. QED  BY <5>1, <5>2, <2>1 DEF TypeOK
        <4>. QED  BY <4>1, <4>2, <2>1 DEF TypeOK
      <3>. QED  BY <2>1, <2>2, <3>1, <3>2 DEF InOrder
    <2>6. RegionsInv'
      BY <2>1, <2>2 DEF RegionsInv, TypeOK
    <2>. QED  BY <2>4, <2>5, <2>6
  <1>2. CASE OfferB(n)
    <2>1. b_end + n <= a_start /\ b_end \in 0..Size /\ b_inuse
      BY <1>2 DEF OfferB, Unused, TypeOK
    <2>2. /\ a_end' = a_end /\ a_start' = a_start /\ b_end' = b_end + n
          /\ polled' = polled /\ Write(b_end, n) /\ offered + n <= MaxBytes
          /\ b_inuse' = b_inuse
      BY <1>2 DEF OfferB
    <2>3. /\ data' \in [0..Size-1 -> 0..MaxBytes]
          /\ offered' = offered + n /\ offered' \in 0..MaxBytes
          /\ \A i \in b_end..b_end+n-1 : data'[i] = offered + 1 + (i - b_end)
          /\ \A i \in 0..Size-1 : i < b_end \/ i >= b_end + n => data'[i] = data[i]
      BY <2>1, <2>2, Written DEF TypeOK
    <2>4. TypeOK'
      BY <2>1, <2>2, <2>3 DEF TypeOK
    <2>5. InOrder'
      <3>1. Used' = offered' - polled'
        BY <2>2, <2>3 DEF InOrder, Used, TypeOK
      <3>2. ASSUME NEW i \in a_start..a_end-1
            PROVE  data'[i] = polled + 1 + (i - a_start)
        BY <2>1, <2>3 DEF InOrder, TypeOK
      <3>3. ASSUME NEW i \in 0..(b_end + n)-1
            PROVE  data'[i] = polled + 1 + (a_end - a_start) + i
        <4>1. CASE i < b_end
          BY <4>1, <2>1, <2>3 DEF InOrder, TypeOK
        <4>2. CASE i >= b_end
          <5>1. data'[i] = offered + 1 + (i - b_end)
            BY <4>2, <2>1, <2>3 DEF TypeOK
          <5>2. offered - polled = (a_end - a_start) + b_end
            BY DEF InOrder, Used
          <5>. QED  BY <5>1, <5>2, <2>1 DEF TypeOK
        <4>. QED  BY <4>1, <4>2, <2>1 DEF TypeOK
      <3>. QED  BY <2>2, <3>1, <3>2, <3>3 DEF InOrder
    <2>6. RegionsInv'
      BY <2>1, <2>2 DEF RegionsInv
    <2>. QED  BY <2>4, <2>5, <2>6
  <1>. QED  BY <1>1, <1>2 DEF Offer

LEMMA PollInv ==
    ASSUME IInv, NEW n \in 0..Size, n <= a_end - a_start, Poll(n)
    PROVE  IInv'
  <1> USE BipAssumption DEF IInv
  <1>1. CASE PollPart(n)
    <2>1. a_start + n < a_end
      BY <1>1 DEF PollPart, TypeOK
    <2>. QED  BY <1>1, <2>1 DEF PollPart, SwitchToB, TypeOK, InOrder, RegionsInv, Used
  <1>2. CASE PollLast(n)
    BY <1>2 DEF PollLast, SwitchToB, TypeOK, InOrder, RegionsInv, Used
  <1>3. CASE PollSwitch(n)
    <2>1. /\ n = a_end - a_start /\ n \in Nat /\ polled' = polled + n
          /\ a_start' = 0 /\ a_end' = b_end /\ b_end' = 0
          /\ data' = data /\ offered' = offered
      BY <1>3 DEF PollSwitch, TypeOK
    <2>a. SwitchToB(0, b_end, 0) = FALSE
      BY DEF SwitchToB, TypeOK
    <2>b. b_inuse' = FALSE
      BY <1>3, <2>a, Zenon DEF PollSwitch
    <2>2. offered - polled = (a_end - a_start) + b_end
      BY DEF InOrder, Used
    <2>3. TypeOK'
      <3>1. polled + n \in 0..offered /\ b_end \in 0..Size
        BY <2>1, <2>2 DEF TypeOK
      <3>2. b_inuse' \in BOOLEAN
        BY <2>b
      <3>3. /\ a_start' \in 0..Size /\ a_end' \in a_start'..Size /\ b_end' \in 0..a_start'
            /\ offered' \in 0..MaxBytes /\ polled' \in 0..offered'
        BY <2>1, <3>1 DEF TypeOK
      <3>4. data' \in [0..Size-1 -> 0..MaxBytes]
        BY <2>1 DEF TypeOK
      <3>. QED  BY <3>2, <3>3, <3>4 DEF TypeOK
    <2>4. InOrder'
      <3>1. Used' = offered' - polled'
        BY <2>1, <2>2 DEF Used, TypeOK
      <3>2. ASSUME NEW i \in 0..b_end-1
            PROVE  data[i] = (polled + n) + 1 + (i - 0)
        BY <2>1 DEF InOrder, TypeOK
      <3>. QED  BY <2>1, <3>1, <3>2 DEF InOrder
    <2>5. RegionsInv'
      BY <2>1, <2>b DEF RegionsInv, TypeOK
    <2>. QED  BY <2>3, <2>4, <2>5
  <1>. QED  BY <1>1, <1>2, <1>3 DEF Poll

\* The regions are where they should be and hold what they should hold.
THEOREM Invariance == CarefulSpec => []IInv
  <1>1. IInv /\ [CarefulNext]_vars => IInv'
    <2> SUFFICES ASSUME IInv, [CarefulNext]_vars PROVE IInv'
      OBVIOUS
    <2>1. CASE CarefulNext
      BY <2>1, OfferInv, PollInv DEF CarefulNext
    <2>2. CASE UNCHANGED vars
      BY <2>2 DEF vars, IInv, TypeOK, InOrder, RegionsInv, Used
    <2>. QED  BY <2>1, <2>2
  <1>. QED  BY <1>1, InitInv, PTL DEF CarefulSpec

\* The regions never leave the array and never overlap.
THEOREM TypeCorrect == CarefulSpec => []TypeOK
  BY Invariance, PTL DEF IInv

\* No byte is lost, repeated or overtaken.
THEOREM BytesInOrder == CarefulSpec => []InOrder
  BY Invariance, PTL DEF IInv

\* The buffer is empty when region A is, and then all of it is free.
THEOREM EmptyBufferIsWhole == CarefulSpec => []EmptyIsWhole
  <1>1. IInv => EmptyIsWhole
    BY BipAssumption DEF IInv, TypeOK, RegionsInv, EmptyIsWhole, IsEmpty, Used, Unused
  <1>. QED  BY <1>1, Invariance, PTL

-----------------------------------------------------------------------------
(* The sink of out_buffered_bipbuf.                                        *)

\* While region B is not reached, all of the content is shown.
LEMMA AllIsShown ==
    ASSUME OutIInv, NEW w \in 1..Size, w <= Used
    PROVE  Available(Used) /\ Available(w) /\ w <= a_end - a_start
  <1>1. a_start \in 0..Size /\ a_end \in a_start..Size /\ b_end = 0
    BY DEF OutIInv, IInv, TypeOK
  <1>. QED  BY <1>1, BipAssumption DEF Available, IsEmpty, Used

\* What is shown are the bytes that follow those already polled.
LEMMA PeekedIs ==
    ASSUME OutIInv, NEW w \in 1..Size, w <= Used
    PROVE  /\ Peeked(w) \in Seq(Nat) /\ Len(Peeked(w)) = w
           /\ \A i \in 1..w : Peeked(w)[i] = polled + i
  <1>1. \A i \in 1..w : Peeked(w)[i] = data[a_start + i - 1]
    BY AllIsShown DEF Peeked
  <1>2. ASSUME NEW i \in 1..w
        PROVE  data[a_start + i - 1] = polled + i
    <2>1. a_start + i - 1 \in a_start..a_end-1
      BY AllIsShown DEF OutIInv, IInv, TypeOK
    <2>2. polled + 1 + ((a_start + i - 1) - a_start) = polled + i
      BY DEF OutIInv, IInv, TypeOK
    <2>. QED  BY <2>1, <2>2 DEF OutIInv, IInv, InOrder
  <1>3. \A i \in 1..w : Peeked(w)[i] \in Nat
    BY <1>1, <1>2 DEF OutIInv, IInv, TypeOK
  <1>4. Peeked(w) = [i \in 1..w |-> Peeked(w)[i]]
    BY DEF Peeked
  <1>. QED  BY <1>1, <1>2, <1>3, <1>4

LEMMA Concatenated ==
    ASSUME NEW d \in Seq(Nat), NEW e \in Seq(Nat)
    PROVE  d \o e \in Seq(Nat) /\ Len(d \o e) = Len(d) + Len(e)
  OBVIOUS

\* Bytes 1 to p, and then bytes p + 1 to p + w, are bytes 1 to p + w.
LEMMA Appended ==
    ASSUME NEW p \in Nat, NEW w \in Nat, NEW d \in Seq(Nat), NEW e \in Seq(Nat),
           Len(d) = p, Len(e) = w,
           \A i \in DOMAIN d : d[i] = i, \A i \in 1..w : e[i] = p + i
    PROVE  \A i \in DOMAIN (d \o e) : (d \o e)[i] = i
  <1>1. d \o e \in Seq(Nat) /\ Len(d \o e) = p + w
    <2>1. d \o e \in Seq(Nat) /\ Len(d \o e) = Len(d) + Len(e)
      BY Concatenated, Zenon
    <2>. QED  BY <2>1
  <1>2. ASSUME NEW i \in DOMAIN (d \o e) PROVE (d \o e)[i] = i
    <2>1. i \in 1..(p + w)
      BY <1>1
    <2>2. CASE i <= p
      <3>1. i \in DOMAIN d /\ (d \o e)[i] = d[i]
        BY <2>1, <2>2
      <3>. QED  BY <3>1
    <2>3. CASE i > p
      <3>1. i - p \in 1..w /\ (d \o e)[i] = e[i - p]
        BY <2>1, <2>3
      <3>. QED  BY <3>1, <2>1
    <2>. QED  BY <2>1, <2>2, <2>3
  <1>. QED  BY <1>2

LEMMA Counted ==
    ASSUME NEW l, NEW u, NEW o \in Nat, NEW p \in Nat, l = p, u = o - p
    PROVE  l + u = o
  OBVIOUS

\* What the sink takes follows what it took before, and a sink that takes
\* everything leaves region A at the beginning of the array.
LEMMA HandOver ==
    ASSUME OutIInv, NEW w \in 1..Size, w <= Used, Poll(w),
           delivered' = delivered \o Peeked(w),
           partly' \in BOOLEAN, ~partly' => w = Used
    PROVE  OutIInv'
  <1>b. w <= a_end - a_start
    BY AllIsShown
  <1>1. IInv'
    BY <1>b, PollInv, BipAssumption DEF OutIInv
  <1>2. /\ Peeked(w) \in Seq(Nat) /\ Len(Peeked(w)) = w
        /\ \A i \in 1..w : Peeked(w)[i] = polled + i
    BY PeekedIs
  <1>3. polled' = polled + w /\ polled \in Nat /\ offered' = offered
    BY DEF Poll, PollPart, PollLast, PollSwitch, OutIInv, IInv, TypeOK
  <1>4. /\ delivered' \in Seq(Nat) /\ Len(delivered') = polled + w
        /\ \A i \in DOMAIN delivered' : delivered'[i] = i
    <2>1. /\ delivered \in Seq(Nat) /\ Len(delivered) = polled
          /\ \A i \in DOMAIN delivered : delivered[i] = i
      BY DEF OutIInv, DeliveredInOrder
    <2>2. w \in Nat
      BY BipAssumption
    <2>3. PICK d : d = delivered
      OBVIOUS
    <2>4. PICK e : e = Peeked(w)
      OBVIOUS
    <2>5. PICK p : p = polled
      OBVIOUS
    <2>6. /\ d \in Seq(Nat) /\ Len(d) = p /\ p \in Nat
          /\ \A i \in DOMAIN d : d[i] = i
      BY <1>3, <2>1, <2>3, <2>5, Zenon
    <2>7. /\ e \in Seq(Nat) /\ Len(e) = w
          /\ \A i \in 1..w : e[i] = p + i
      BY <1>2, <2>4, <2>5, Zenon
    <2>8. d \o e \in Seq(Nat)
      BY <2>6, <2>7, Concatenated, Zenon
    <2>9. Len(d \o e) = p + w
      <3>1. Len(d \o e) = Len(d) + Len(e)
        BY <2>6, <2>7, Concatenated, Zenon
      <3>. QED  BY <3>1, <2>6, <2>7, Zenon
    <2>10. \A i \in DOMAIN (d \o e) : (d \o e)[i] = i
      BY <2>2, <2>6, <2>7, Appended, Zenon
    <2>. QED  BY <2>3, <2>4, <2>5, <2>8, <2>9, <2>10, Zenon
  <1>5. Len(delivered') = polled'
    BY <1>3, <1>4, Zenon
  <1>7. Len(delivered') + Used' = offered'
    <2>1. Used' = offered' - polled'
      BY <1>1 DEF IInv, InOrder
    <2>2. offered' \in Nat /\ polled' \in Nat
      BY <1>1, BipAssumption DEF IInv, TypeOK
    <2>. QED  BY <2>1, <2>2, <1>5, Counted, Zenon
  <1>8. b_end' = 0
    BY DEF Poll, PollPart, PollLast, PollSwitch, OutIInv
  <1>9. ASSUME ~partly' PROVE a_start' = 0
    <2>1. w = a_end - a_start /\ a_start \in Nat /\ a_end \in Nat
      BY <1>9 DEF OutIInv, IInv, TypeOK, Used
    <2>2. a_start + w = a_end
      BY <2>1
    <2>. QED  BY <2>2 DEF Poll, PollPart, PollLast, PollSwitch
  <1>10. DeliveredInOrder'
    BY <1>4, <1>7, Zenon DEF DeliveredInOrder
  <1>. QED  BY <1>1, <1>4, <1>5, <1>8, <1>9, <1>10, Zenon DEF OutIInv

\* An offer hands nothing over, and goes to region A.
LEMMA PutIn ==
    ASSUME OutIInv, ~partly, NEW n \in 0..Size, Offer(n),
           UNCHANGED <<delivered, partly>>
    PROVE  OutIInv'
  <1>1. IInv'
    BY OfferInv, BipAssumption DEF OutIInv
  <1>2. a_start = 0 /\ b_end = 0
    BY DEF OutIInv
  <1>3. a_start' = 0 /\ polled' = polled
    BY <1>2 DEF Offer, OfferA, OfferB
  <1>4. b_end' = 0
    <2>1. CASE OfferA(n)
      BY <2>1, <1>2 DEF OfferA
    <2>2. CASE OfferB(n)
      BY <2>2, <1>2 DEF OfferB, Unused
    <2>. QED  BY <2>1, <2>2 DEF Offer
  <1>5. Len(delivered') + Used' = offered'
    <2>1. Used' = offered' - polled'
      BY <1>1 DEF IInv, InOrder
    <2>2. offered' \in Nat /\ polled' \in Nat
      BY <1>1, BipAssumption DEF IInv, TypeOK
    <2>. QED  BY <2>1, <2>2, <1>3 DEF OutIInv
  <1>6. DeliveredInOrder'
    BY <1>5 DEF OutIInv, DeliveredInOrder
  <1>. QED  BY <1>1, <1>3, <1>4, <1>6 DEF OutIInv

\* What the careful streambuf keeps, and what each of its steps asks of the buffer.
LEMMA OutStep ==
    ASSUME OutIInv, [FlushingNext]_outVars
    PROVE  OutIInv' /\ [CarefulNext]_vars
  <1>1. CASE ~partly /\ Put
    BY <1>1, PutIn, BipAssumption DEF Put, CarefulNext
  <1>2. ASSUME ~partly, NEW n \in 0..Size, Sputn(n)
        PROVE  OutIInv' /\ CarefulNext
    BY <1>2, PutIn DEF Sputn, CarefulNext
  <1>3. ASSUME NEW w \in 1..Size, Handed(w)
        PROVE  OutIInv' /\ CarefulNext
    <2>1. w <= Used /\ delivered' = delivered \o Peeked(w)
      BY <1>3 DEF Handed
    <2>2. Available(w) /\ w <= a_end - a_start
      BY <2>1, AllIsShown
    <2>3. Poll(w)
      BY <1>3, <2>2 DEF Handed
    <2>4. Used \in Int
      BY DEF OutIInv, IInv, TypeOK, Used
    <2>5. (w < Used) \in BOOLEAN /\ (~(w < Used) => w = Used)
      BY <2>1, <2>4
    <2>6. partly' = (w < Used)
      BY <1>3 DEF Handed
    <2>7. partly' \in BOOLEAN /\ (~partly' => w = Used)
      BY <2>5, <2>6, Zenon
    <2>8. OutIInv'
      BY <2>1, <2>3, <2>7, HandOver
    <2>. QED  BY <2>2, <2>3, <2>8 DEF CarefulNext
  <1>4. CASE ~partly /\ SyncToPut(Used)
    <2>1. a_start = 0 /\ b_end = 0 /\ a_end \in 0..Size
      BY <1>4 DEF OutIInv, IInv, TypeOK
    <2>2. Used \in 0..Size /\ Unused = 0 /\ Handed(Used)
      BY <1>4, <2>1 DEF SyncToPut, Used
    <2>3. Used \in 1..Size
      BY <2>1, <2>2, BipAssumption DEF OutIInv, IInv, RegionsInv, Unused, Used
    <2>. QED  BY <2>2, <2>3, <1>3
  <1>5. CASE UNCHANGED outVars
    BY <1>5 DEF outVars, vars, OutIInv, DeliveredInOrder,
                IInv, TypeOK, InOrder, RegionsInv, Used
  <1>. QED  BY <1>1, <1>2, <1>3, <1>4, <1>5 DEF FlushingNext, Sync

LEMMA OutInvariance == FlushingSpec => []OutIInv
  <1>1. OutInit => OutIInv
    <2> SUFFICES ASSUME OutInit PROVE OutIInv
      OBVIOUS
    <2>1. IInv /\ delivered = << >> /\ polled = 0 /\ offered = 0
      BY InitInv DEF OutInit, Init
    <2>2. Used = 0 /\ a_start = 0 /\ b_end = 0 /\ partly = FALSE
      BY DEF OutInit, Init, Used
    <2>3. delivered \in Seq(Nat) /\ Len(delivered) = 0 /\ DOMAIN delivered = {}
      BY <2>1
    <2>4. DeliveredInOrder
      BY <2>1, <2>2, <2>3 DEF DeliveredInOrder
    <2>5. partly \in BOOLEAN
      BY <2>2, Zenon
    <2>. QED  BY <2>1, <2>2, <2>3, <2>4, <2>5 DEF OutIInv
  <1>2. OutIInv /\ [FlushingNext]_outVars => OutIInv'
    BY OutStep
  <1>. QED  BY <1>1, <1>2, PTL DEF FlushingSpec

\* A streambuf into which nothing is put while its sink has a part to take
\* never asks the bip buffer for more than region A holds, though it asks for
\* used(): all that is proved above holds of its buffer.
THEOREM StreambufIsCareful == FlushingSpec => CarefulSpec
  <1>1. OutInit => Init
    BY DEF OutInit
  <1>2. OutIInv /\ [FlushingNext]_outVars => [CarefulNext]_vars
    BY OutStep
  <1>. QED  BY <1>1, <1>2, OutInvariance, PTL DEF FlushingSpec, CarefulSpec

\* The sink of such a streambuf gets every byte, once, in the order in which
\* the bytes were put, in parts of any size.
THEOREM DeliveryInOrder == FlushingSpec => []DeliveredInOrder
  BY OutInvariance, PTL DEF OutIInv
=============================================================================
