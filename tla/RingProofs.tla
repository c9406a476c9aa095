----------------------------- MODULE RingProofs -----------------------------
(***************************************************************************)
(* For a ring of any size, of every kind and policy: front_, back_ and     *)
(* size() agree, the objects are where they should be, all the ways to     *)
(* look at it agree, and it is a deque.                                    *)
(***************************************************************************)
EXTENDS Ring, SequenceTheorems, TLAPS

-----------------------------------------------------------------------------
(* The slots, counted from one of them.                                    *)

LEMMA ModOfSum ==
  ASSUME NEW m \in (-N)..(2*N-1)
  PROVE  m % N = IF m < 0 THEN m + N ELSE IF m < N THEN m ELSE m - N
  <1> USE RingSizeAssumption
  <1>1. ASSUME NEW k \in 0..N-1
        PROVE  k % N = k /\ (k + N) % N = k /\ (k - N) % N = k
    OBVIOUS
  <1>2. CASE m < 0
    <2>1. m + N \in 0..N-1 /\ m = (m + N) - N
      BY <1>2
    <2> QED  BY <1>1, <1>2, <2>1
  <1>3. CASE m \in 0..N-1
    BY <1>1, <1>3
  <1>4. CASE m >= N
    <2>1. m - N \in 0..N-1 /\ m = (m - N) + N
      BY <1>4
    <2> QED  BY <1>1, <1>4, <2>1
  <1> QED  BY <1>2, <1>3, <1>4

\* Nth without the division.
LEMMA NthIs ==
  ASSUME NEW i \in Slots, NEW k \in (-N)..N
  PROVE  Nth(i, k) = IF i + k < 0 THEN i + k + N
                     ELSE IF i + k < N THEN i + k ELSE i + k - N
  BY ModOfSum, RingSizeAssumption DEF Nth, Slots

LEMMA NthType ==
  ASSUME NEW i \in Slots, NEW k \in (-N)..N
  PROVE  Nth(i, k) \in Slots
  BY NthIs, RingSizeAssumption DEF Slots

\* Less than N steps apart, the slots are different ones ...
LEMMA NthDiffers ==
  ASSUME NEW i \in Slots, NEW j \in 0..N-1, NEW k \in 0..N-1, j # k
  PROVE  Nth(i, j) # Nth(i, k)
  BY NthIs, RingSizeAssumption DEF Slots

\* ... and every slot is one of them.
LEMMA NthReaches ==
  ASSUME NEW i \in Slots, NEW s \in Slots
  PROVE  \E k \in 0..N-1 : Nth(i, k) = s
  <1> DEFINE k == IF s >= i THEN s - i ELSE s - i + N
  <1>1. k \in 0..N-1
    BY RingSizeAssumption DEF Slots
  <1>2. Nth(i, k) = s
    BY <1>1, NthIs, RingSizeAssumption DEF Slots
  <1> QED  BY <1>1, <1>2

LEMMA NthRound ==
  ASSUME NEW i \in Slots
  PROVE  Nth(i, 0) = i /\ Nth(i, N) = i /\ Nth(i, N - 1) = Pred(i) /\ Nth(i, 1) = Succ(i)
  BY NthIs, RingSizeAssumption DEF Slots, Pred, Succ

LEMMA NthSucc ==
  ASSUME NEW i \in Slots, NEW k \in 0..N-1
  PROVE  /\ Succ(i) \in Slots
         /\ Nth(Succ(i), k) = Nth(i, k + 1)
         /\ Succ(Nth(i, k)) = Nth(i, k + 1)
  <1>1. Succ(i) \in Slots
    BY RingSizeAssumption DEF Slots, Succ
  <1> QED  BY <1>1, NthIs, RingSizeAssumption DEF Slots, Succ

LEMMA NthPred ==
  ASSUME NEW i \in Slots, NEW k \in 1..N
  PROVE  /\ Pred(i) \in Slots
         /\ Nth(Pred(i), k) = Nth(i, k - 1)
         /\ Pred(Nth(i, k)) = Nth(i, k - 1)
  <1>1. Pred(i) \in Slots
    BY RingSizeAssumption DEF Slots, Pred
  <1>2. Nth(Pred(i), k) = Nth(i, k - 1)
    BY <1>1, NthIs, RingSizeAssumption DEF Slots, Pred
  <1>3. Pred(Nth(i, k)) = Nth(i, k - 1)
    BY NthIs, RingSizeAssumption DEF Slots, Pred
  <1> QED  BY <1>1, <1>2, <1>3

\* The whole count of places moves with its start.
LEMMA NthShift ==
  ASSUME NEW i \in Slots, NEW k \in 0..N
  PROVE  /\ Succ(Nth(i, k)) = Nth(Succ(i), k)
         /\ Pred(Nth(i, k)) = Nth(Pred(i), k)
  <1> USE RingSizeAssumption
  <1>1. Succ(i) \in Slots /\ Pred(i) \in Slots
    BY DEF Slots, Succ, Pred
  <1>2. /\ Nth(i, k) = IF i + k < N THEN i + k ELSE i + k - N
        /\ Nth(Succ(i), k) = IF Succ(i) + k < N THEN Succ(i) + k ELSE Succ(i) + k - N
        /\ Nth(Pred(i), k) = IF Pred(i) + k < N THEN Pred(i) + k ELSE Pred(i) + k - N
    BY <1>1, NthIs DEF Slots
  <1>3. Succ(Nth(i, k)) = Nth(Succ(i), k)
    BY <1>2 DEF Slots, Succ
  <1>4. Pred(Nth(i, k)) = Nth(Pred(i), k)
    BY <1>2 DEF Slots, Pred
  <1> QED  BY <1>3, <1>4

-----------------------------------------------------------------------------
(* The state of the pointers, whatever the kind of ring: back_ is k places *)
(* behind front_, and the ring knows it.                                   *)

At(k) ==
    /\ back = Nth(front, k)
    /\ kind = "flagged" => (empty <=> k = 0)
    /\ kind = "counter" => size = k

\* The k places from front_ on hold objects, and the others do not.
Holds(k) ==
    /\ \A j \in 0..k-1 : array[Nth(front, j)] # Raw
    /\ ~policy.is_trivial => \A j \in k..N-1 : array[Nth(front, j)] = Raw

LEMMA Kinds ==
  ASSUME TypeOK
  PROVE  /\ \/ kind = "flagged" /\ max_size = N
            \/ kind = "counter" /\ max_size = N
            \/ kind = "sentinel" /\ max_size = N - 1
         /\ policy.no_rollover \in BOOLEAN
         /\ policy.is_trivial \in BOOLEAN
  BY DEF TypeOK, Policies, kind, max_size

\* What the two pointers tell.
LEMMA SpanIs ==
  ASSUME TypeOK, NEW k \in 0..N, back = Nth(front, k),
         kind = "sentinel" => k < N
  PROVE  /\ kind = "sentinel" => Span = k
         /\ kind = "flagged" /\ k > 0 => Span = k
  <1> USE RingSizeAssumption
  <1>1. front \in 0..N-1 /\ back \in 0..N-1
    BY DEF TypeOK, Slots
  <1>2. back = IF front + k < N THEN front + k ELSE front + k - N
    BY <1>1, NthIs DEF Slots
  <1>3. CASE kind = "sentinel"
    <2>1. Span = IF front > back THEN N - (front - back) ELSE back - front
      BY <1>3 DEF Span
    <2> QED  BY <1>1, <1>2, <1>3, <2>1
  <1>4. CASE kind = "flagged"
    <2>1. Span = IF front > back \/ front = back THEN N - (front - back) ELSE back - front
      BY <1>4 DEF Span
    <2> QED  BY <1>1, <1>2, <1>4, <2>1
  <1> QED  BY <1>3, <1>4

\* size(), empty() and the test of a push, of every kind of ring.
LEMMA SizeIs ==
  ASSUME TypeOK, NEW k \in 0..max_size, At(k)
  PROVE  Size = k /\ (Empty <=> k = 0) /\ (Full <=> k = max_size)
  <1> USE RingSizeAssumption
  <1>0. k \in 0..N /\ front \in 0..N-1 /\ back \in 0..N-1 /\ back = Nth(front, k)
    BY Kinds DEF TypeOK, Slots, At
  <1>1. back = IF front + k < N THEN front + k ELSE front + k - N
    BY <1>0, NthIs DEF Slots
  <1>2. CASE kind = "flagged"
    <2>1. max_size = N /\ (empty <=> k = 0)
      BY <1>2, Kinds DEF At
    <2>2. Size = (IF empty THEN 0 ELSE Span) /\ (Empty <=> empty) /\ (Full <=> ~empty /\ back = front)
      BY <1>2 DEF Size, Empty, Full
    <2>3. k > 0 => Span = k
      BY <1>0, <1>2, SpanIs
    <2>4. Size = k
      BY <1>0, <2>1, <2>2, <2>3
    <2>5. k > 0 => (back = front <=> k = N)
      BY <1>0, <1>1
    <2> QED  BY <1>0, <2>1, <2>2, <2>4, <2>5
  <1>3. CASE kind = "counter"
    <2>1. max_size = N /\ size = k
      BY <1>3, Kinds DEF At
    <2>2. Size = size /\ (Empty <=> size = 0) /\ (Full <=> size # 0 /\ back = front)
      BY <1>3 DEF Size, Empty, Full
    <2>3. k > 0 => (back = front <=> k = N)
      BY <1>0, <1>1
    <2> QED  BY <1>0, <2>1, <2>2, <2>3
  <1>4. CASE kind = "sentinel"
    <2>1. max_size = N - 1
      BY <1>4, Kinds
    <2>2. Size = Span /\ (Empty <=> front = back) /\ (Full <=> Succ(back) = front)
      BY <1>4 DEF Size, Empty, Full
    <2>3. Span = k
      BY <1>0, <1>4, <2>1, SpanIs
    <2>4. (front = back <=> k = 0) /\ (Succ(back) = front <=> k = N - 1)
      BY <1>0, <1>1, <2>1 DEF Succ
    <2> QED  BY <2>1, <2>2, <2>3, <2>4
  <1> QED  BY <1>2, <1>3, <1>4, Kinds

\* Conversely, size() is where the pointers are, once back_ is there.
LEMMA AtSize ==
  ASSUME TypeOK, PointersAgree
  PROVE  Size \in 0..max_size /\ At(Size)
  <1> USE RingSizeAssumption
  <1>1. front \in 0..N-1 /\ back \in 0..N-1 /\ size \in 0..N
    BY DEF TypeOK, Slots
  <1>2. back = Nth(front, Size)
    BY DEF PointersAgree
  <1>3. CASE kind = "flagged"
    <2>1. max_size = N /\ Size = IF empty THEN 0 ELSE Span
      BY <1>3, Kinds DEF Size
    <2>2. Span = IF front > back \/ front = back THEN N - (front - back) ELSE back - front
      BY <1>3 DEF Span
    <2>3. Span \in 1..N
      BY <1>1, <2>2
    <2>4. Size \in 0..N /\ (empty <=> Size = 0)
      BY <2>1, <2>3
    <2> QED  BY <1>2, <1>3, <2>1, <2>4 DEF At
  <1>4. CASE kind = "counter"
    BY <1>1, <1>2, <1>4, Kinds DEF Size, At
  <1>5. CASE kind = "sentinel"
    <2>1. max_size = N - 1 /\ Size = Span
      BY <1>5, Kinds DEF Size
    <2>2. Span = IF front > back THEN N - (front - back) ELSE back - front
      BY <1>5 DEF Span
    <2>3. Span \in 0..N-1
      BY <1>1, <2>2
    <2> QED  BY <1>2, <1>5, <2>1, <2>3 DEF At
  <1> QED  BY <1>3, <1>4, <1>5, Kinds

\* An iterator takes size() steps, also where it compares pointers.
LEMMA StepsAre ==
  ASSUME TypeOK, NEW k \in 0..max_size, At(k)
  PROVE  Steps = k
  <1>1. CASE kind = "sentinel"
    <2>1. k \in Slots /\ front \in Slots /\ Nth(front, k) = back
      BY <1>1, Kinds, RingSizeAssumption DEF TypeOK, Slots, At
    <2>2. \A j \in Slots : Nth(front, j) = back => j = k
      BY <2>1, NthDiffers DEF Slots
    <2>3. (CHOOSE j \in Slots : Nth(front, j) = back) = k
      BY <2>1, <2>2
    <2> QED  BY <1>1, <2>3 DEF Steps
  <1>2. CASE kind # "sentinel"
    BY <1>2, SizeIs DEF Steps
  <1> QED  BY <1>1, <1>2

\* So the occupied slots are the first size() ones, counted from front_.
LEMMA OccupiedAre ==
  ASSUME TypeOK, NEW k \in 0..max_size, At(k)
  PROVE  OccupiedSlots <=> Holds(k)
  <1> USE RingSizeAssumption
  <1>1. k \in 0..N /\ front \in Slots
    BY Kinds DEF TypeOK
  <1>2. Visited = {Nth(front, j) : j \in 0..k-1}
    BY StepsAre DEF Visited
  <1>3. (\A s \in Visited : array[s] # Raw) <=> \A j \in 0..k-1 : array[Nth(front, j)] # Raw
    BY <1>2
  <1>4. ASSUME NEW s
        PROVE  s \in Slots \ Visited <=> \E j \in k..N-1 : s = Nth(front, j)
    <2>1. ASSUME s \in Slots, s \notin Visited
          PROVE  \E j \in k..N-1 : s = Nth(front, j)
      <3>1. PICK j \in 0..N-1 : Nth(front, j) = s
        BY <1>1, <2>1, NthReaches
      <3>2. j \notin 0..k-1
        BY <1>2, <2>1, <3>1
      <3> QED  BY <1>1, <3>1, <3>2
    <2>2. ASSUME NEW j \in k..N-1, s = Nth(front, j)
          PROVE  s \in Slots /\ s \notin Visited
      <3>1. s \in Slots
        BY <1>1, <2>2, NthType
      <3>2. \A i \in 0..k-1 : Nth(front, i) # s
        BY <1>1, <2>2, NthDiffers
      <3> QED  BY <1>2, <3>1, <3>2
    <2> QED  BY <2>1, <2>2
  <1>5. (\A s \in Slots \ Visited : array[s] = Raw)
          <=> \A j \in k..N-1 : array[Nth(front, j)] = Raw
    BY <1>4
  <1> QED  BY <1>3, <1>5 DEF OccupiedSlots, Holds

\* The same facts, in a form that can be used of the state after a step.
Views ==
  \A k \in 0..max_size : TypeOK /\ At(k) =>
     /\ Size = k /\ Steps = k
     /\ (Empty <=> k = 0) /\ (Full <=> k = max_size)
     /\ OccupiedSlots <=> Holds(k)

LEMMA Seen == Views
  BY SizeIs, StepsAre, OccupiedAre DEF Views

\* What the invariant says.
LEMMA InvMeans ==
  ASSUME RingInv
  PROVE  Size \in 0..max_size /\ At(Size) /\ Holds(Size)
  BY AtSize, OccupiedAre DEF RingInv

\* A step after which the pointers are k places apart and the objects are
\* where they should be keeps the invariant.
LEMMA Lands ==
  ASSUME TypeOK', NEW k \in 0..max_size, max_size' = max_size, At(k)', Holds(k)'
  PROVE  RingInv' /\ Size' = k
  <1>1. Views'
    BY Seen, PTL
  <1>2. Size' = k /\ (OccupiedSlots' <=> Holds(k)')
    BY <1>1 DEF Views
  <1>3. PointersAgree'
    BY <1>2 DEF PointersAgree, At
  <1> QED  BY <1>2, <1>3 DEF RingInv

-----------------------------------------------------------------------------
(* What the steps are made of.                                             *)

\* The state before a step, of a ring of k elements.
LEMMA Before ==
  ASSUME RingInv, NEW k, k = Size
  PROVE  /\ k \in 0..max_size /\ k \in 0..N /\ k \in Int /\ TypeOK /\ At(k) /\ Holds(k)
         /\ front \in Slots /\ back \in Slots /\ back = Nth(front, k)
         /\ (Empty <=> k = 0) /\ (Full <=> k = max_size)
         /\ kind = "sentinel" => max_size = N - 1
         /\ kind # "sentinel" => max_size = N
  <1>1. k \in 0..max_size /\ TypeOK /\ At(k) /\ Holds(k)
    BY InvMeans DEF RingInv
  <1>2. (Empty <=> k = 0) /\ (Full <=> k = max_size)
    BY <1>1, SizeIs
  <1>3. k \in 0..N /\ k \in Int
    BY <1>1, Kinds, RingSizeAssumption
  <1> QED  BY <1>1, <1>2, <1>3, Kinds DEF At, TypeOK

\* An element more: empty_ and size_ follow.
LEMMA Grown ==
  ASSUME TypeOK, NEW k \in 0..max_size-1, At(k), IncrementSize, UNCHANGED policy,
         back' = Nth(front', k + 1)
  PROVE  /\ At(k + 1)'
         /\ empty' \in BOOLEAN /\ size' \in 0..N
         /\ kind # "flagged" => empty'
         /\ kind # "counter" => size' = 0
  <1> USE RingSizeAssumption
  <1>1. kind' = kind /\ k \in 0..N-1
    BY Kinds DEF kind
  <1>2. kind = "counter" => size' = k + 1
    BY DEF IncrementSize, At
  <1>3. kind # "counter" => size' = 0
    BY DEF IncrementSize, TypeOK
  <1>4. size' \in 0..N
    BY <1>1, <1>2, <1>3
  <1>5. empty' \in BOOLEAN /\ (kind # "flagged" => empty') /\ (kind = "flagged" => ~empty')
    BY DEF IncrementSize, TypeOK
  <1>6. k + 1 # 0
    BY <1>1
  <1>7. kind = "flagged" => (empty' <=> k + 1 = 0)
    BY <1>5, <1>6
  <1> QED  BY <1>1, <1>2, <1>3, <1>4, <1>5, <1>7 DEF At

\* An element less.
LEMMA Shrunk ==
  ASSUME TypeOK, NEW k \in 1..max_size, At(k), DecrementSize, UNCHANGED policy,
         front' \in Slots, back' = Nth(front', k - 1)
  PROVE  /\ At(k - 1)'
         /\ empty' \in BOOLEAN /\ size' \in 0..N
         /\ kind # "flagged" => empty'
         /\ kind # "counter" => size' = 0
  <1> USE RingSizeAssumption
  <1>1. kind' = kind /\ k - 1 \in 0..N-1
    BY Kinds DEF kind
  <1>2. kind = "counter" => size' = k - 1
    BY DEF DecrementSize, At
  <1>3. kind # "counter" => size' = 0
    BY DEF DecrementSize, TypeOK
  <1>4. size' \in 0..N
    BY <1>1, <1>2, <1>3
  <1>5. empty' \in BOOLEAN /\ (kind # "flagged" => empty')
        /\ (kind = "flagged" => (empty' <=> back' = front'))
    BY DEF DecrementSize, TypeOK
  <1>6. back' = front' <=> k - 1 = 0
    BY <1>1, NthIs DEF Slots
  <1>7. kind = "flagged" => (empty' <=> k - 1 = 0)
    BY <1>5, <1>6
  <1> QED  BY <1>1, <1>2, <1>3, <1>4, <1>5, <1>7 DEF At

\* As many elements as before.
LEMMA Kept ==
  ASSUME TypeOK, NEW k \in 0..max_size, At(k), UNCHANGED <<policy, empty, size>>,
         back' = Nth(front', k)
  PROVE  At(k)'
  BY DEF At, kind

\* An element stored k places behind front_.
LEMMA Stored ==
  ASSUME NEW a \in [Slots -> Value \cup {Raw}], NEW i \in Slots, NEW k \in 0..N-1,
         NEW v \in Value
  PROVE  /\ [a EXCEPT ![Nth(i, k)] = v] \in [Slots -> Value \cup {Raw}]
         /\ \A j \in 0..N-1 : [a EXCEPT ![Nth(i, k)] = v][Nth(i, j)]
                                 = IF j = k THEN v ELSE a[Nth(i, j)]
  <1>1. \A j \in 0..N-1 : Nth(i, j) \in Slots /\ (j # k => Nth(i, j) # Nth(i, k))
    BY NthType, NthDiffers, RingSizeAssumption
  <1> QED  BY <1>1

\* An element destroyed there.
LEMMA Gone ==
  ASSUME TypeOK, NEW k \in 0..N-1
  PROVE  /\ Destroyed(array, {Nth(front, k)}) \in [Slots -> Value \cup {Raw}]
         /\ \A j \in 0..N-1 : Destroyed(array, {Nth(front, k)})[Nth(front, j)]
               = IF j = k /\ ~policy.is_trivial THEN Raw ELSE array[Nth(front, j)]
  <1>1. \A j \in 0..N-1 : Nth(front, j) \in Slots /\ (j # k => Nth(front, j) # Nth(front, k))
    BY NthType, NthDiffers, RingSizeAssumption DEF TypeOK
  <1>2. array \in [Slots -> Value \cup {Raw}]
    BY DEF TypeOK
  <1>3. CASE policy.is_trivial
    BY <1>1, <1>2, <1>3 DEF Destroyed
  <1>4. CASE ~policy.is_trivial
    <2>1. Destroyed(array, {Nth(front, k)})
            = [s \in Slots |-> IF s = Nth(front, k) THEN Raw ELSE array[s]]
      BY <1>4 DEF Destroyed
    <2> QED  BY <1>1, <1>2, <1>4, <2>1
  <1> QED  BY <1>3, <1>4

-----------------------------------------------------------------------------
(* The steps: each lemma says what the ring holds after one.               *)

LEMMA PushBackRoomStep ==
  ASSUME RingInv, NEW v \in Value, PushBackRoom(v), NEW k, k = Size
  PROVE  /\ RingInv' /\ Size' = k + 1 /\ k < max_size
         /\ \A j \in 0..k-1 : array'[Nth(front', j)] = array[Nth(front, j)]
         /\ array'[Nth(front', k)] = v
  <1> USE RingSizeAssumption
  <1>1. /\ k \in 0..max_size-1 /\ k \in 0..N-1 /\ TypeOK /\ At(k) /\ Holds(k)
        /\ front \in Slots /\ back = Nth(front, k)
    BY Before DEF PushBackRoom
  <1>2. /\ front' = front /\ policy' = policy /\ IncrementSize /\ accepted' = TRUE
        /\ back' = Nth(front, k + 1)
        /\ array' = [array EXCEPT ![Nth(front, k)] = v]
    BY <1>1, NthSucc DEF PushBackRoom
  <1>3. /\ At(k + 1)' /\ empty' \in BOOLEAN /\ size' \in 0..N
        /\ kind # "flagged" => empty'
        /\ kind # "counter" => size' = 0
    BY <1>1, <1>2, Grown
  <1>4. /\ array' \in [Slots -> Value \cup {Raw}]
        /\ \A j \in 0..N-1 : array'[Nth(front, j)] = IF j = k THEN v ELSE array[Nth(front, j)]
    BY <1>1, <1>2, Stored DEF TypeOK
  <1>5. TypeOK'
    BY <1>1, <1>2, <1>3, <1>4, NthType DEF TypeOK, kind
  <1>6. Holds(k + 1)'
    BY <1>1, <1>2, <1>4 DEF Holds
  <1>7. max_size' = max_size
    BY <1>2 DEF max_size, kind
  <1>8. k + 1 \in 0..max_size
    BY <1>1, Kinds
  <1>9. RingInv' /\ Size' = k + 1
    BY <1>3, <1>5, <1>6, <1>7, <1>8, Lands
  <1> QED  BY <1>1, <1>2, <1>4, <1>9, Kinds

\* In a full ring the element at front_ makes way.
LEMMA PushBackRolloverStep ==
  ASSUME RingInv, NEW v \in Value, PushBackRollover(v), NEW k, k = Size
  PROVE  /\ RingInv' /\ Size' = k /\ k = max_size
         /\ \A j \in 0..k-2 : array'[Nth(front', j)] = array[Nth(front, j + 1)]
         /\ array'[Nth(front', k - 1)] = v
  <1> USE RingSizeAssumption
  <1> DEFINE p == IF kind = "sentinel" THEN N - 1 ELSE 0
             a == Destroyed(array, {Nth(front, 0)})
  <1>1. /\ k = max_size /\ k \in 0..N /\ TypeOK /\ At(k) /\ Holds(k)
        /\ front \in Slots /\ back = Nth(front, k)
        /\ kind = "sentinel" => k = N - 1
        /\ kind # "sentinel" => k = N
    BY Before DEF PushBackRollover
  <1>2. /\ p \in 0..N-1 /\ back = Nth(front, p)
        /\ (k = N /\ p = 0) \/ (k = N - 1 /\ p = N - 1)
    <2>1. CASE kind = "sentinel"
      BY <1>1, <2>1
    <2>2. CASE kind # "sentinel"
      <3>1. p = 0 /\ k = N /\ back = Nth(front, N)
        BY <1>1, <2>2
      <3>2. Nth(front, N) = Nth(front, 0)
        BY <1>1, NthRound
      <3> QED  BY <3>1, <3>2
    <2> QED  BY <2>1, <2>2
  <1>3. (IF kind = "sentinel" THEN Succ(back) ELSE back) = Nth(front, 0)
    BY <1>1, NthRound, NthSucc
  <1>4. /\ front' = Succ(front) /\ back' = Succ(back) /\ accepted' = TRUE
        /\ array' = [a EXCEPT ![Nth(front, p)] = v]
        /\ policy' = policy /\ empty' = empty /\ size' = size
    BY <1>2, <1>3, Zenon DEF PushBackRollover
  <1>5. /\ a \in [Slots -> Value \cup {Raw}]
        /\ \A j \in 0..N-1 : a[Nth(front, j)]
               = IF j = 0 /\ ~policy.is_trivial THEN Raw ELSE array[Nth(front, j)]
    BY <1>1, Gone
  <1> HIDE DEF a, p
  <1>6. /\ array' \in [Slots -> Value \cup {Raw}]
        /\ \A j \in 0..N-1 : array'[Nth(front, j)] = IF j = p THEN v ELSE a[Nth(front, j)]
    BY <1>1, <1>2, <1>4, <1>5, Stored
  <1>7. front' \in Slots /\ back' = Nth(front', k) /\ back' \in Slots
    BY <1>1, <1>4, NthShift, NthSucc, NthType
  <1>8. /\ \A j \in 0..N-2 : Nth(front', j) = Nth(front, j + 1)
        /\ Nth(front', N - 1) = Nth(front, 0)
    BY <1>1, <1>4, NthSucc, NthRound
  <1>9. At(k)'
    BY <1>1, <1>4, <1>7, Kept
  <1>10. TypeOK'
    BY <1>1, <1>4, <1>6, <1>7 DEF TypeOK, kind
  <1>11. \A j \in 0..k-2 : array'[Nth(front', j)] = array[Nth(front, j + 1)]
    BY <1>2, <1>5, <1>6, <1>8
  <1>12. array'[Nth(front', k - 1)] = v
    <2>1. CASE k = N /\ p = 0
      BY <2>1, <1>6, <1>8
    <2>2. CASE k = N - 1 /\ p = N - 1
      BY <2>2, <1>6, <1>8
    <2> QED  BY <1>2, <2>1, <2>2
  <1>13. Holds(k)'
    <2>1. \A j \in 0..k-1 : array'[Nth(front', j)] # Raw
      BY <1>1, <1>2, <1>11, <1>12 DEF Holds
    <2>2. ASSUME ~policy.is_trivial, NEW j \in k..N-1
          PROVE  array'[Nth(front', j)] = Raw
      <3>1. j = N - 1 /\ p = N - 1
        BY <1>2, <2>2
      <3> QED  BY <2>2, <3>1, <1>5, <1>6, <1>8
    <2> QED  BY <1>4, <2>1, <2>2 DEF Holds
  <1>14. max_size' = max_size
    BY <1>4 DEF max_size, kind
  <1>15. RingInv' /\ Size' = k
    BY <1>1, <1>9, <1>10, <1>13, <1>14, Kinds, Lands
  <1> QED  BY <1>1, <1>11, <1>12, <1>15

LEMMA PushFrontRoomStep ==
  ASSUME RingInv, NEW v \in Value, PushFrontRoom(v), NEW k, k = Size
  PROVE  /\ RingInv' /\ Size' = k + 1 /\ k < max_size
         /\ array'[Nth(front', 0)] = v
         /\ \A j \in 1..k : array'[Nth(front', j)] = array[Nth(front, j - 1)]
  <1> USE RingSizeAssumption
  <1>1. /\ k \in 0..max_size-1 /\ k \in 0..N-1 /\ TypeOK /\ At(k) /\ Holds(k)
        /\ front \in Slots /\ back \in Slots /\ back = Nth(front, k)
    BY Before DEF PushFrontRoom
  <1>2. /\ front' = Pred(front) /\ policy' = policy /\ IncrementSize /\ accepted' = TRUE
        /\ back' = back
        /\ array' = [array EXCEPT ![Nth(front, N - 1)] = v]
    BY <1>1, NthRound DEF PushFrontRoom
  <1>3. front' \in Slots /\ back' = Nth(front', k + 1)
    BY <1>1, <1>2, NthPred
  <1>4. /\ At(k + 1)' /\ empty' \in BOOLEAN /\ size' \in 0..N
        /\ kind # "flagged" => empty'
        /\ kind # "counter" => size' = 0
    BY <1>1, <1>2, <1>3, Grown
  <1>5. /\ array' \in [Slots -> Value \cup {Raw}]
        /\ \A j \in 0..N-1 : array'[Nth(front, j)] = IF j = N - 1 THEN v ELSE array[Nth(front, j)]
    BY <1>1, <1>2, Stored DEF TypeOK
  <1>6. /\ Nth(front', 0) = Nth(front, N - 1)
        /\ \A j \in 1..N-1 : Nth(front', j) = Nth(front, j - 1)
    BY <1>1, <1>2, <1>3, NthPred, NthRound
  <1>7. TypeOK'
    BY <1>1, <1>2, <1>3, <1>4, <1>5 DEF TypeOK, kind
  <1>8. array'[Nth(front', 0)] = v
    BY <1>5, <1>6
  <1>9. \A j \in 1..N-1 : array'[Nth(front', j)] = array[Nth(front, j - 1)]
    BY <1>5, <1>6
  <1>10. Holds(k + 1)'
    BY <1>1, <1>2, <1>8, <1>9 DEF Holds
  <1>11. max_size' = max_size
    BY <1>2 DEF max_size, kind
  <1>12. k + 1 \in 0..max_size
    BY <1>1, Kinds
  <1>13. RingInv' /\ Size' = k + 1
    BY <1>4, <1>7, <1>10, <1>11, <1>12, Lands
  <1> QED  BY <1>1, <1>8, <1>9, <1>13, Kinds

\* In a full ring the element before back_ makes way: of a trivial type.
LEMMA PushFrontRollunderStep ==
  ASSUME RingInv, NEW v \in Value, PushFrontRollunder(v), policy.is_trivial, NEW k, k = Size
  PROVE  /\ RingInv' /\ Size' = k /\ k = max_size
         /\ array'[Nth(front', 0)] = v
         /\ \A j \in 1..k-1 : array'[Nth(front', j)] = array[Nth(front, j - 1)]
  <1> USE RingSizeAssumption
  <1>1. /\ k = max_size /\ k \in 0..N /\ TypeOK /\ At(k) /\ Holds(k)
        /\ front \in Slots /\ back = Nth(front, k)
    BY Before DEF PushFrontRollunder
  <1>2. /\ front' = Pred(front) /\ back' = Pred(back) /\ accepted' = TRUE
        /\ array' = [array EXCEPT ![Nth(front, N - 1)] = v]
        /\ policy' = policy /\ empty' = empty /\ size' = size
    BY <1>1, NthRound DEF PushFrontRollunder, Destroyed
  <1>3. front' \in Slots /\ back' = Nth(front', k) /\ back' \in Slots
    BY <1>1, <1>2, NthShift, NthPred, NthType
  <1>4. At(k)'
    BY <1>1, <1>2, <1>3, Kept
  <1>5. /\ array' \in [Slots -> Value \cup {Raw}]
        /\ \A j \in 0..N-1 : array'[Nth(front, j)] = IF j = N - 1 THEN v ELSE array[Nth(front, j)]
    BY <1>1, <1>2, Stored DEF TypeOK
  <1>6. /\ Nth(front', 0) = Nth(front, N - 1)
        /\ \A j \in 1..N-1 : Nth(front', j) = Nth(front, j - 1)
    BY <1>1, <1>2, <1>3, NthPred, NthRound
  <1>7. TypeOK'
    BY <1>1, <1>2, <1>3, <1>5 DEF TypeOK, kind
  <1>8. array'[Nth(front', 0)] = v
    BY <1>5, <1>6
  <1>9. \A j \in 1..N-1 : array'[Nth(front', j)] = array[Nth(front, j - 1)]
    BY <1>5, <1>6
  <1>10. Holds(k)'
    BY <1>1, <1>2, <1>8, <1>9 DEF Holds
  <1>11. max_size' = max_size
    BY <1>2 DEF max_size, kind
  <1>12. RingInv' /\ Size' = k
    BY <1>1, <1>4, <1>7, <1>10, <1>11, Kinds, Lands
  <1> QED  BY <1>1, <1>8, <1>9, <1>12

LEMMA PopFrontStep ==
  ASSUME RingInv, PopFront, NEW k, k = Size
  PROVE  /\ RingInv' /\ Size' = k - 1 /\ k > 0
         /\ \A j \in 0..k-2 : array'[Nth(front', j)] = array[Nth(front, j + 1)]
  <1> USE RingSizeAssumption
  <1>1. /\ k \in 1..max_size /\ k \in 1..N /\ TypeOK /\ At(k) /\ Holds(k)
        /\ front \in Slots /\ back \in Slots /\ back = Nth(front, k)
    BY Before, Kinds DEF PopFront
  <1>2. /\ front' = Succ(front) /\ back' = back /\ accepted' = TRUE
        /\ array' = Destroyed(array, {Nth(front, 0)})
        /\ policy' = policy /\ DecrementSize
    BY <1>1, NthRound DEF PopFront
  <1>3. /\ front' \in Slots
        /\ \A j \in 0..N-2 : Nth(front', j) = Nth(front, j + 1)
        /\ Nth(front', N - 1) = Nth(front, 0)
    BY <1>1, <1>2, NthSucc, NthRound
  <1>4. back' = Nth(front', k - 1)
    <2>1. k - 1 \in 0..N-1 /\ (k - 1) + 1 = k
      BY <1>1
    <2>2. Nth(Succ(front), k - 1) = Nth(front, (k - 1) + 1)
      BY <1>1, <2>1, NthSucc
    <2> QED  BY <1>1, <1>2, <2>1, <2>2
  <1>5. /\ At(k - 1)' /\ empty' \in BOOLEAN /\ size' \in 0..N
        /\ kind # "flagged" => empty'
        /\ kind # "counter" => size' = 0
    BY <1>1, <1>2, <1>3, <1>4, Shrunk
  <1>6. /\ array' \in [Slots -> Value \cup {Raw}]
        /\ \A j \in 0..N-1 : array'[Nth(front, j)]
               = IF j = 0 /\ ~policy.is_trivial THEN Raw ELSE array[Nth(front, j)]
    BY <1>1, <1>2, Gone
  <1>7. TypeOK'
    BY <1>1, <1>2, <1>3, <1>5, <1>6 DEF TypeOK, kind
  <1>8. \A j \in 0..N-2 : array'[Nth(front', j)] = array[Nth(front, j + 1)]
    BY <1>3, <1>6
  <1>9. Holds(k - 1)'
    <2>1. \A j \in 0..(k-1)-1 : array'[Nth(front', j)] # Raw
      BY <1>1, <1>8 DEF Holds
    <2>2. ASSUME ~policy.is_trivial, NEW j \in k-1..N-1
          PROVE  array'[Nth(front', j)] = Raw
      <3>1. CASE j = N - 1
        BY <2>2, <3>1, <1>3, <1>6
      <3>2. CASE j < N - 1
        BY <2>2, <3>2, <1>1, <1>8 DEF Holds
      <3> QED  BY <1>1, <3>1, <3>2
    <2> QED  BY <1>2, <2>1, <2>2 DEF Holds
  <1>10. max_size' = max_size
    BY <1>2 DEF max_size, kind
  <1>11. k - 1 \in 0..max_size
    BY <1>1, Kinds
  <1>12. RingInv' /\ Size' = k - 1
    BY <1>5, <1>7, <1>9, <1>10, <1>11, Lands
  <1> QED  BY <1>1, <1>8, <1>12

LEMMA PopBackStep ==
  ASSUME RingInv, PopBack, NEW k, k = Size
  PROVE  /\ RingInv' /\ Size' = k - 1 /\ k > 0
         /\ \A j \in 0..k-2 : array'[Nth(front', j)] = array[Nth(front, j)]
  <1> USE RingSizeAssumption
  <1>1. /\ k \in 1..max_size /\ k \in 1..N /\ TypeOK /\ At(k) /\ Holds(k)
        /\ front \in Slots /\ back = Nth(front, k)
    BY Before, Kinds DEF PopBack
  <1>2. /\ front' = front /\ back' = Nth(front, k - 1) /\ accepted' = TRUE
        /\ array' = Destroyed(array, {Nth(front, k - 1)})
        /\ policy' = policy /\ DecrementSize
    BY <1>1, NthPred DEF PopBack
  <1>3. /\ At(k - 1)' /\ empty' \in BOOLEAN /\ size' \in 0..N
        /\ kind # "flagged" => empty'
        /\ kind # "counter" => size' = 0
    BY <1>1, <1>2, Shrunk
  <1>4. /\ array' \in [Slots -> Value \cup {Raw}]
        /\ \A j \in 0..N-1 : array'[Nth(front, j)]
               = IF j = k - 1 /\ ~policy.is_trivial THEN Raw ELSE array[Nth(front, j)]
    BY <1>1, <1>2, Gone
  <1>5. back' \in Slots
    BY <1>1, <1>2, NthType
  <1>6. TypeOK'
    BY <1>1, <1>2, <1>3, <1>4, <1>5 DEF TypeOK, kind
  <1>7. Holds(k - 1)'
    BY <1>1, <1>2, <1>4 DEF Holds
  <1>8. max_size' = max_size
    BY <1>2 DEF max_size, kind
  <1>9. k - 1 \in 0..max_size
    BY <1>1, Kinds
  <1>10. RingInv' /\ Size' = k - 1
    BY <1>3, <1>6, <1>7, <1>8, <1>9, Lands
  <1> QED  BY <1>1, <1>2, <1>4, <1>10

LEMMA ClearStep ==
  ASSUME RingInv, Clear
  PROVE  RingInv' /\ Size' = 0
  <1> USE RingSizeAssumption
  <1>1. TypeOK /\ OccupiedSlots /\ 0 \in 0..max_size /\ 0 \in Slots
    BY Kinds DEF RingInv, Slots
  <1>2. /\ front' = 0 /\ back' = 0 /\ empty' = TRUE /\ size' = 0 /\ accepted' = TRUE
        /\ policy' = policy
        /\ array' = Destroyed(array, Visited)
    BY DEF Clear
  <1>3. /\ array' \in [Slots -> Value \cup {Raw}]
        /\ ~policy.is_trivial => \A s \in Slots : array'[s] = Raw
    <2>1. CASE policy.is_trivial
      BY <1>1, <1>2, <2>1 DEF Destroyed, TypeOK
    <2>2. CASE ~policy.is_trivial
      <3>1. array' = [s \in Slots |-> IF s \in Visited THEN Raw ELSE array[s]]
        BY <1>2, <2>2 DEF Destroyed
      <3> QED  BY <1>1, <2>2, <3>1 DEF OccupiedSlots, TypeOK
    <2> QED  BY <2>1, <2>2
  <1>4. TypeOK'
    BY <1>1, <1>2, <1>3 DEF TypeOK, kind
  <1>5. Nth(0, 0) = 0 /\ \A j \in 0..N-1 : Nth(0, j) \in Slots
    BY <1>1, NthRound, NthType
  <1>6. At(0)'
    BY <1>2, <1>5 DEF At
  <1>7. Holds(0)'
    BY <1>2, <1>3, <1>5 DEF Holds
  <1>8. max_size' = max_size
    BY <1>2 DEF max_size, kind
  <1> QED  BY <1>1, <1>4, <1>6, <1>7, <1>8, Lands

\* A call that is refused, or none.
LEMMA RefusedStep ==
  ASSUME RingInv, UNCHANGED <<policy, array, front, back, empty, size>>, accepted' \in BOOLEAN
  PROVE  RingInv' /\ Size' = Size
  <1>1. Size' = Size
    BY Zenon DEF Size, Span, kind
  <1>2. Visited' = Visited
    BY <1>1, Zenon DEF Visited, Steps, kind
  <1>3. TypeOK'
    BY DEF RingInv, TypeOK, kind
  <1>4. PointersAgree'
    BY <1>1 DEF RingInv, PointersAgree
  <1>5. OccupiedSlots'
    BY <1>2 DEF RingInv, OccupiedSlots
  <1> QED  BY <1>1, <1>3, <1>4, <1>5 DEF RingInv

-----------------------------------------------------------------------------
LEMMA InitInv == Init => RingInv
  <1> SUFFICES ASSUME Init PROVE RingInv
    OBVIOUS
  <1> USE RingSizeAssumption
  <1>1. 0 \in Slots /\ Nth(0, 0) = 0 /\ \A j \in 0..N-1 : Nth(0, j) \in Slots
    BY NthRound, NthType DEF Slots
  <1>2. TypeOK
    BY <1>1 DEF Init, TypeOK
  <1>3. 0 \in 0..max_size
    BY <1>2, Kinds
  <1>4. At(0) /\ Holds(0)
    BY <1>1 DEF Init, At, Holds
  <1>5. Size = 0 /\ OccupiedSlots
    BY <1>2, <1>3, <1>4, SizeIs, OccupiedAre
  <1> QED  BY <1>1, <1>2, <1>5 DEF RingInv, PointersAgree, Init

LEMMA NextInv == RingInv /\ [CarefulNext]_vars => RingInv'
  <1> SUFFICES ASSUME RingInv, [CarefulNext]_vars PROVE RingInv'
    OBVIOUS
  <1>1. ASSUME NEW v \in Value, PushBackRoom(v) \/ PushBackRollover(v) \/ PushFrontRoom(v)
        PROVE  RingInv'
    BY <1>1, PushBackRoomStep, PushBackRolloverStep, PushFrontRoomStep
  <1>2. ASSUME NEW v \in Value, policy.is_trivial, PushFrontRollunder(v)
        PROVE  RingInv'
    BY <1>2, PushFrontRollunderStep
  <1>3. CASE PopFront \/ PopBack \/ Clear
    BY <1>3, PopFrontStep, PopBackStep, ClearStep
  <1>4. CASE PushReject \/ PopEmpty
    BY <1>4, RefusedStep DEF PushReject, PopEmpty
  <1>5. CASE UNCHANGED vars
    BY <1>5, RefusedStep DEF vars, RingInv, TypeOK
  <1> QED  BY <1>1, <1>2, <1>3, <1>4, <1>5 DEF CarefulNext, OtherCalls

THEOREM Invariance == CarefulSpec => []RingInv
  BY InitInv, NextInv, PTL DEF CarefulSpec

\* The pointers and the counts of a ring keep to their ranges.
THEOREM TypeCorrect == CarefulSpec => []TypeOK
  BY Invariance, PTL DEF RingInv

\* The objects are where front_, back_ and the size say, and nowhere else.
THEOREM ObjectsInPlace == CarefulSpec => []OccupiedSlots
  BY Invariance, PTL DEF RingInv

-----------------------------------------------------------------------------
(* The ring as a sequence.                                                 *)

ContentsMean ==
  RingInv =>
    /\ Size \in 0..N
    /\ Contents \in Seq(Value) /\ Len(Contents) = Size
    /\ \A i \in 1..Size : Contents[i] = array[Nth(front, i - 1)]

LEMMA ContentsAre == ContentsMean
  <1> SUFFICES ASSUME RingInv
               PROVE  /\ Size \in 0..N
                      /\ Contents \in Seq(Value) /\ Len(Contents) = Size
                      /\ \A i \in 1..Size : Contents[i] = array[Nth(front, i - 1)]
    BY DEF ContentsMean
  <1> USE RingSizeAssumption
  <1>1. TypeOK /\ Holds(Size) /\ Size \in 0..N /\ front \in Slots
    BY Before
  <1>2. \A i \in 1..Size : array[Nth(front, i - 1)] \in Value
    <2>1. ASSUME NEW i \in 1..Size
          PROVE  array[Nth(front, i - 1)] \in Value
      <3>1. i - 1 \in 0..Size-1 /\ i - 1 \in (-N)..N
        BY <1>1
      <3>2. Nth(front, i - 1) \in Slots
        BY <1>1, <3>1, NthType
      <3>3. array[Nth(front, i - 1)] # Raw
        BY <1>1, <3>1 DEF Holds
      <3> QED  BY <1>1, <3>2, <3>3 DEF TypeOK
    <2> QED  BY <2>1
  <1>3. Contents \in [1..Size -> Value]
    BY <1>2 DEF Contents
  <1>4. Contents \in Seq(Value) /\ Len(Contents) = Size
    BY <1>1, <1>3
  <1> QED  BY <1>1, <1>4 DEF Contents

\* Backwards from the last element.
LEMMA NthBack ==
  ASSUME NEW i \in Slots, NEW k \in 1..N, NEW j \in 1..k
  PROVE  Nth(Pred(Nth(i, k)), 1 - j) = Nth(i, k - j)
  <1> USE RingSizeAssumption
  <1>0. k - 1 \in (-N)..N
    OBVIOUS
  <1>1. Pred(Nth(i, k)) = Nth(i, k - 1) /\ Nth(i, k - 1) \in Slots
    BY <1>0, NthPred, NthType
  <1>2. Nth(i, k - 1) = IF i + (k - 1) < N THEN i + (k - 1) ELSE i + (k - 1) - N
    BY NthIs DEF Slots
  <1>3. Nth(i, k - j) = IF i + (k - j) < N THEN i + (k - j) ELSE i + (k - j) - N
    BY NthIs DEF Slots
  <1> DEFINE b == Nth(i, k - 1)
  <1>4. Nth(b, 1 - j) = IF b + (1 - j) < 0 THEN b + (1 - j) + N
                        ELSE IF b + (1 - j) < N THEN b + (1 - j) ELSE b + (1 - j) - N
    BY <1>1, NthIs
  <1> QED  BY <1>1, <1>2, <1>3, <1>4 DEF Slots

\* However one looks at a ring: size(), front(), back(), the iterators in
\* both directions and the tests for empty and full are about one sequence.
THEOREM OneSequence == CarefulSpec => []ViewsAgree
  <1>1. ASSUME RingInv PROVE ViewsAgree
    <2> USE RingSizeAssumption
    <2> DEFINE k == Size
               forward == [i \in 1..Steps |-> array[Nth(front, i - 1)]]
               reverseSteps == IF kind = "sentinel"
                               THEN CHOOSE j \in Slots : Nth(Pred(front), j) = Pred(back)
                               ELSE Size
               backward == [i \in 1..reverseSteps |-> array[Nth(Pred(back), 1 - i)]]
    <2>1. /\ k \in 0..max_size /\ k \in 0..N /\ TypeOK /\ At(k)
          /\ front \in Slots /\ back \in Slots /\ back = Nth(front, k)
          /\ (Empty <=> k = 0) /\ (Full <=> k = max_size)
          /\ kind = "sentinel" => max_size = N - 1
      BY <1>1, Before
    <2>2. Steps = k
      BY <2>1, StepsAre
    <2>3. /\ Contents \in Seq(Value) /\ Len(Contents) = k
          /\ \A i \in 1..k : Contents[i] = array[Nth(front, i - 1)]
      BY <1>1, ContentsAre DEF ContentsMean
    <2>4. forward = Contents
      BY <2>2 DEF Contents
    <2>5. reverseSteps = k
      <3>1. CASE kind = "sentinel"
        <4>1. k \in Slots /\ Pred(front) \in Slots /\ Nth(Pred(front), k) = Pred(back)
          BY <2>1, <3>1, NthShift, NthPred DEF Slots
        <4>2. \A j \in Slots : Nth(Pred(front), j) = Pred(back) => j = k
          BY <4>1, NthDiffers DEF Slots
        <4> HIDE DEF k
        <4>3. (CHOOSE j \in Slots : Nth(Pred(front), j) = Pred(back)) = k
          BY <4>1, <4>2
        <4> QED  BY <3>1, <4>3
      <3>2. CASE kind # "sentinel"
        BY <3>2
      <3> QED  BY <3>1, <3>2
    <2>6. backward = Reverse(Contents)
      <3>1. Reverse(Contents) = [i \in 1..k |-> Contents[(k - i) + 1]]
        BY <2>3 DEF Reverse
      <3>2. ASSUME NEW i \in 1..k
            PROVE  array[Nth(Pred(back), 1 - i)] = Contents[(k - i) + 1]
        <4>1. (k - i) + 1 \in 1..k /\ ((k - i) + 1) - 1 = k - i /\ k \in 1..N
          BY <2>1
        <4>2. Contents[(k - i) + 1] = array[Nth(front, k - i)]
          BY <2>3, <4>1
        <4>3. Nth(Pred(back), 1 - i) = Nth(front, k - i)
          BY <2>1, <4>1, NthBack
        <4> QED  BY <4>2, <4>3
      <3> HIDE DEF k
      <3>3. backward = [i \in 1..k |-> array[Nth(Pred(back), 1 - i)]]
        BY <2>5
      <3> QED  BY <3>1, <3>2, <3>3
    <2>7. ASSUME ~Empty
          PROVE  array[front] = Head(forward) /\ array[Pred(back)] = Head(backward)
      <3>1. k \in 1..N
        BY <2>1, <2>7
      <3>2. Nth(front, 0) = front /\ Nth(Pred(back), 0) = Pred(back)
        BY <2>1, <3>1, NthRound, NthPred
      <3> HIDE DEF k
      <3>3. forward[1] = array[front]
        BY <2>2, <3>1, <3>2
      <3>4. backward[1] = array[Pred(back)]
        <4>1. backward = [i \in 1..k |-> array[Nth(Pred(back), 1 - i)]]
          BY <2>5
        <4> HIDE DEF backward
        <4>2. backward[1] = array[Nth(Pred(back), 1 - 1)]
          BY <3>1, <4>1
        <4> QED  BY <3>2, <4>2
      <3>5. Head(forward) = forward[1]
        BY <2>3, <2>4, <3>1
      <3>6. Head(backward) = backward[1]
        <4> HIDE DEF backward
        <4>0. backward = [i \in 1..k |-> Contents[(k - i) + 1]]
          BY <2>3, <2>6 DEF Reverse
        <4>1. \A i \in 1..k : Contents[(k - i) + 1] \in Value
          BY <2>3, <3>1
        <4>2. backward \in Seq(Value) /\ Len(backward) = k
          BY <3>1, <4>0, <4>1
        <4> QED  BY <3>1, <4>2
      <3> QED  BY <3>3, <3>4, <3>5, <3>6
    <2>8. k <= max_size
      BY <2>1, Kinds
    <2> QED  BY <2>1, <2>4, <2>6, <2>7, <2>8 DEF ViewsAgree
  <1> QED  BY <1>1, Invariance, PTL

-----------------------------------------------------------------------------
(* The ring implements a bounded deque, step by step.                      *)

\* Two sequences of the same elements are the same.
LEMMA Same ==
  ASSUME NEW s \in Seq(Value), NEW t \in Seq(Value), NEW k \in Nat, Len(s) = k, Len(t) = k,
         \A i \in 1..k : s[i] = t[i]
  PROVE  s = t
  BY SeqEqual

\* What Contents is before a step and after it.
LEMMA BothContents ==
  ASSUME RingInv, RingInv'
  PROVE  /\ Size \in 0..N /\ Size' \in 0..N
         /\ Contents \in Seq(Value) /\ Len(Contents) = Size
         /\ Contents' \in Seq(Value) /\ Len(Contents') = Size'
         /\ \A i \in 1..Size : Contents[i] = array[Nth(front, i - 1)]
         /\ \A i \in 1..Size' : Contents'[i] = array'[Nth(front', i - 1)]
  <1>1. ContentsMean'
    BY ContentsAre, PTL
  <1> QED  BY <1>1, ContentsAre DEF ContentsMean

LEMMA PushBackRefines ==
  ASSUME RingInv, NEW v \in Value, PushBackRoom(v)
  PROVE  Deque!PushBack(v)
  <1> USE RingSizeAssumption
  <1>1. PICK k : k = Size
    OBVIOUS
  <1>2. /\ RingInv' /\ Size' = k + 1 /\ k < max_size
        /\ \A j \in 0..k-1 : array'[Nth(front', j)] = array[Nth(front, j)]
        /\ array'[Nth(front', k)] = v
    BY <1>1, PushBackRoomStep
  <1>3. /\ k \in 0..N
        /\ Contents \in Seq(Value) /\ Len(Contents) = k
        /\ Contents' \in Seq(Value) /\ Len(Contents') = k + 1
        /\ \A i \in 1..k : Contents[i] = array[Nth(front, i - 1)]
        /\ \A i \in 1..k+1 : Contents'[i] = array'[Nth(front', i - 1)]
    BY <1>1, <1>2, BothContents
  <1>4. Contents' = Append(Contents, v)
    <2>1. /\ Append(Contents, v) \in Seq(Value) /\ Len(Append(Contents, v)) = k + 1
          /\ \A i \in 1..k : Append(Contents, v)[i] = Contents[i]
          /\ Append(Contents, v)[k + 1] = v
      BY <1>3, AppendProperties
    <2>2. ASSUME NEW i \in 1..k+1
          PROVE  Contents'[i] = Append(Contents, v)[i]
      <3>1. CASE i = k + 1
        <4>1. Contents'[k + 1] = array'[Nth(front', k)]
          BY <1>3
        <4> QED  BY <3>1, <4>1, <1>2, <2>1
      <3>2. CASE i \in 1..k
        <4>1. i - 1 \in 0..k-1
          BY <3>2, <1>3
        <4> QED  BY <3>2, <4>1, <1>2, <1>3, <2>1
      <3> QED  BY <1>3, <3>1, <3>2
    <2>3. k + 1 \in Nat
      BY <1>3
    <2> QED  BY <1>3, <2>1, <2>2, <2>3, Same
  <1>5. max_size' = max_size /\ policy' = policy /\ accepted' = TRUE
    BY DEF PushBackRoom, max_size, kind
  <1>6. Len(Contents) # max_size
    BY <1>2, <1>3, Kinds DEF RingInv
  <1> QED  BY <1>4, <1>5, <1>6 DEF Deque!PushBack, Deque!Full, Deque!Becomes

LEMMA PushBackRolloverRefines ==
  ASSUME RingInv, NEW v \in Value, PushBackRollover(v)
  PROVE  Deque!PushBack(v)
  <1> USE RingSizeAssumption
  <1>1. PICK k : k = Size
    OBVIOUS
  <1>2. /\ RingInv' /\ Size' = k /\ k = max_size
        /\ \A j \in 0..k-2 : array'[Nth(front', j)] = array[Nth(front, j + 1)]
        /\ array'[Nth(front', k - 1)] = v
    BY <1>1, PushBackRolloverStep
  <1>3. /\ k \in 1..N
        /\ Contents \in Seq(Value) /\ Len(Contents) = k
        /\ Contents' \in Seq(Value) /\ Len(Contents') = k
        /\ \A i \in 1..k : Contents[i] = array[Nth(front, i - 1)]
        /\ \A i \in 1..k : Contents'[i] = array'[Nth(front', i - 1)]
    BY <1>1, <1>2, BothContents, Kinds DEF RingInv
  <1>4. Contents' = Append(Tail(Contents), v)
    <2>1. /\ Tail(Contents) \in Seq(Value) /\ Len(Tail(Contents)) = k - 1
          /\ \A i \in 1..k-1 : Tail(Contents)[i] = Contents[i + 1]
      BY <1>3, HeadTailProperties, EmptySeq
    <2> DEFINE s == Append(Tail(Contents), v)
    <2>2. /\ s \in Seq(Value) /\ Len(s) = k
          /\ \A i \in 1..k-1 : s[i] = Contents[i + 1]
          /\ s[k] = v
      BY <1>3, <2>1, AppendProperties
    <2> HIDE DEF s
    <2>3. ASSUME NEW i \in 1..k
          PROVE  Contents'[i] = s[i]
      <3>1. CASE i = k
        BY <3>1, <1>2, <1>3, <2>2
      <3>2. CASE i \in 1..k-1
        <4>1. i - 1 \in 0..k-2 /\ i + 1 \in 1..k /\ (i - 1) + 1 = i /\ (i + 1) - 1 = i
          BY <3>2, <1>3
        <4>2. Contents'[i] = array[Nth(front, i)]
          BY <4>1, <1>2, <1>3
        <4>3. s[i] = array[Nth(front, i)]
          BY <3>2, <4>1, <1>3, <2>2
        <4> QED  BY <4>2, <4>3
      <3> QED  BY <1>3, <3>1, <3>2
    <2>4. Contents' = s
      BY <1>3, <2>2, <2>3, Same
    <2> QED  BY <2>4 DEF s
  <1>5. max_size' = max_size /\ policy' = policy /\ accepted' = TRUE /\ ~policy.no_rollover
    BY DEF PushBackRollover, max_size, kind
  <1>6. Len(Contents) = max_size
    BY <1>2, <1>3
  <1> QED  BY <1>4, <1>5, <1>6 DEF Deque!PushBack, Deque!Full, Deque!Becomes

\* An element in front of others.
LEMMA InFront ==
  ASSUME NEW v \in Value, NEW s \in Seq(Value)
  PROVE  /\ <<v>> \o s \in Seq(Value) /\ Len(<<v>> \o s) = Len(s) + 1
         /\ (<<v>> \o s)[1] = v
         /\ \A i \in 2..Len(s) + 1 : (<<v>> \o s)[i] = s[i - 1]
  <1>1. <<v>> \in Seq(Value) /\ Len(<<v>>) = 1 /\ <<v>>[1] = v
    OBVIOUS
  <1>2. Len(s) \in Nat
    OBVIOUS
  <1> QED  BY <1>1, <1>2, ConcatProperties

LEMMA PushFrontRefines ==
  ASSUME RingInv, NEW v \in Value, PushFrontRoom(v)
  PROVE  Deque!PushFront(v)
  <1> USE RingSizeAssumption
  <1>1. PICK k : k = Size
    OBVIOUS
  <1>2. /\ RingInv' /\ Size' = k + 1 /\ k < max_size
        /\ array'[Nth(front', 0)] = v
        /\ \A j \in 1..k : array'[Nth(front', j)] = array[Nth(front, j - 1)]
    BY <1>1, PushFrontRoomStep
  <1>3. /\ k \in 0..N
        /\ Contents \in Seq(Value) /\ Len(Contents) = k
        /\ Contents' \in Seq(Value) /\ Len(Contents') = k + 1
        /\ \A i \in 1..k : Contents[i] = array[Nth(front, i - 1)]
        /\ \A i \in 1..k+1 : Contents'[i] = array'[Nth(front', i - 1)]
    BY <1>1, <1>2, BothContents
  <1> DEFINE s == <<v>> \o Contents
  <1>4. /\ s \in Seq(Value) /\ Len(s) = k + 1 /\ s[1] = v
        /\ \A i \in 2..k+1 : s[i] = Contents[i - 1]
    BY <1>3, InFront
  <1> HIDE DEF s
  <1>5. ASSUME NEW i \in 1..k+1
        PROVE  Contents'[i] = s[i]
    <2>1. CASE i = 1
      <3>1. Contents'[1] = array'[Nth(front', 0)]
        BY <1>3
      <3> QED  BY <2>1, <3>1, <1>2, <1>4
    <2>2. CASE i \in 2..k+1
      <3>1. i - 1 \in 1..k
        BY <2>2, <1>3
      <3> QED  BY <2>2, <3>1, <1>2, <1>3, <1>4
    <2> QED  BY <1>3, <2>1, <2>2
  <1>6. k + 1 \in Nat
    BY <1>3
  <1>7. Contents' = <<v>> \o Contents
    BY <1>3, <1>4, <1>5, <1>6, Same DEF s
  <1>8. max_size' = max_size /\ policy' = policy /\ accepted' = TRUE
    BY DEF PushFrontRoom, max_size, kind
  <1>9. Len(Contents) # max_size
    BY <1>2, <1>3, Kinds DEF RingInv
  <1> QED  BY <1>7, <1>8, <1>9 DEF Deque!PushFront, Deque!Full, Deque!Becomes

\* The elements but the last one.
LEMMA WithoutLastIs ==
  ASSUME NEW s \in Seq(Value), NEW k \in Nat \ {0}, Len(s) = k
  PROVE  /\ Deque!WithoutLast(s) \in Seq(Value) /\ Len(Deque!WithoutLast(s)) = k - 1
         /\ \A i \in 1..k-1 : Deque!WithoutLast(s)[i] = s[i]
  <1>1. \A i \in 1..k-1 : s[i] \in Value
    OBVIOUS
  <1>2. /\ SubSeq(s, 1, k - 1) \in Seq(Value) /\ Len(SubSeq(s, 1, k - 1)) = k - 1
        /\ \A i \in 1..(k-1)-1+1 : SubSeq(s, 1, k - 1)[i] = s[1 + i - 1]
    BY <1>1, SubSeqProperties
  <1> QED  BY <1>2 DEF Deque!WithoutLast

LEMMA PushFrontRollunderRefines ==
  ASSUME RingInv, NEW v \in Value, policy.is_trivial, PushFrontRollunder(v)
  PROVE  Deque!PushFront(v)
  <1> USE RingSizeAssumption
  <1>1. PICK k : k = Size
    OBVIOUS
  <1>2. /\ RingInv' /\ Size' = k /\ k = max_size
        /\ array'[Nth(front', 0)] = v
        /\ \A j \in 1..k-1 : array'[Nth(front', j)] = array[Nth(front, j - 1)]
    BY <1>1, PushFrontRollunderStep
  <1>3. /\ k \in 1..N
        /\ Contents \in Seq(Value) /\ Len(Contents) = k
        /\ Contents' \in Seq(Value) /\ Len(Contents') = k
        /\ \A i \in 1..k : Contents[i] = array[Nth(front, i - 1)]
        /\ \A i \in 1..k : Contents'[i] = array'[Nth(front', i - 1)]
    BY <1>1, <1>2, BothContents, Kinds DEF RingInv
  <1> DEFINE w == Deque!WithoutLast(Contents)
             s == <<v>> \o w
  <1>4. /\ w \in Seq(Value) /\ Len(w) = k - 1
        /\ \A i \in 1..k-1 : w[i] = Contents[i]
    BY <1>3, WithoutLastIs
  <1> HIDE DEF w
  <1>5. /\ s \in Seq(Value) /\ Len(s) = k /\ s[1] = v
        /\ \A i \in 2..k : s[i] = w[i - 1]
    BY <1>3, <1>4, InFront
  <1> HIDE DEF s
  <1>6. ASSUME NEW i \in 1..k
        PROVE  Contents'[i] = s[i]
    <2>1. CASE i = 1
      <3>1. Contents'[1] = array'[Nth(front', 0)]
        BY <1>3
      <3> QED  BY <2>1, <3>1, <1>2, <1>5
    <2>2. CASE i \in 2..k
      <3>1. i - 1 \in 1..k-1 /\ i - 1 \in 1..k /\ (i - 1) - 1 \in Int
        BY <2>2, <1>3
      <3>2. Contents'[i] = array[Nth(front, (i - 1) - 1)]
        BY <2>2, <3>1, <1>2, <1>3
      <3>3. s[i] = Contents[i - 1]
        BY <2>2, <3>1, <1>4, <1>5
      <3> QED  BY <3>1, <3>2, <3>3, <1>3
    <2> QED  BY <1>3, <2>1, <2>2
  <1>7. Contents' = <<v>> \o Deque!WithoutLast(Contents)
    BY <1>3, <1>5, <1>6, Same DEF s, w
  <1>8. max_size' = max_size /\ policy' = policy /\ accepted' = TRUE /\ ~policy.no_rollover
    BY DEF PushFrontRollunder, max_size, kind
  <1>9. Len(Contents) = max_size
    BY <1>2, <1>3
  <1> QED  BY <1>7, <1>8, <1>9 DEF Deque!PushFront, Deque!Full, Deque!Becomes

LEMMA PopFrontRefines ==
  ASSUME RingInv, PopFront
  PROVE  Deque!PopFront
  <1> USE RingSizeAssumption
  <1>1. PICK k : k = Size
    OBVIOUS
  <1>2. /\ RingInv' /\ Size' = k - 1 /\ k > 0
        /\ \A j \in 0..k-2 : array'[Nth(front', j)] = array[Nth(front, j + 1)]
    BY <1>1, PopFrontStep
  <1>3. /\ k \in 1..N
        /\ Contents \in Seq(Value) /\ Len(Contents) = k
        /\ Contents' \in Seq(Value) /\ Len(Contents') = k - 1
        /\ \A i \in 1..k : Contents[i] = array[Nth(front, i - 1)]
        /\ \A i \in 1..k-1 : Contents'[i] = array'[Nth(front', i - 1)]
    BY <1>1, <1>2, BothContents
  <1>4. Contents # <<>>
    BY <1>3, EmptySeq
  <1>5. /\ Tail(Contents) \in Seq(Value) /\ Len(Tail(Contents)) = k - 1
        /\ \A i \in 1..k-1 : Tail(Contents)[i] = Contents[i + 1]
    BY <1>3, <1>4, HeadTailProperties
  <1>6. ASSUME NEW i \in 1..k-1
        PROVE  Contents'[i] = Tail(Contents)[i]
    <2>1. i - 1 \in 0..k-2 /\ i + 1 \in 1..k /\ (i - 1) + 1 = i /\ (i + 1) - 1 = i
      BY <1>3
    <2>2. Contents'[i] = array[Nth(front, i)]
      BY <2>1, <1>2, <1>3
    <2>3. Contents[i + 1] = array[Nth(front, i)]
      BY <2>1, <1>3
    <2> QED  BY <2>2, <2>3, <1>5
  <1>7. k - 1 \in Nat
    BY <1>3
  <1>8. Contents' = Tail(Contents)
    BY <1>3, <1>5, <1>6, <1>7, Same
  <1>9. max_size' = max_size /\ policy' = policy /\ accepted' = TRUE
    BY DEF PopFront, max_size, kind
  <1> QED  BY <1>4, <1>8, <1>9 DEF Deque!PopFront, Deque!Becomes

LEMMA PopBackRefines ==
  ASSUME RingInv, PopBack
  PROVE  Deque!PopBack
  <1> USE RingSizeAssumption
  <1>1. PICK k : k = Size
    OBVIOUS
  <1>2. /\ RingInv' /\ Size' = k - 1 /\ k > 0
        /\ \A j \in 0..k-2 : array'[Nth(front', j)] = array[Nth(front, j)]
    BY <1>1, PopBackStep
  <1>3. /\ k \in 1..N
        /\ Contents \in Seq(Value) /\ Len(Contents) = k
        /\ Contents' \in Seq(Value) /\ Len(Contents') = k - 1
        /\ \A i \in 1..k : Contents[i] = array[Nth(front, i - 1)]
        /\ \A i \in 1..k-1 : Contents'[i] = array'[Nth(front', i - 1)]
    BY <1>1, <1>2, BothContents
  <1>4. Contents # <<>>
    BY <1>3, EmptySeq
  <1> DEFINE s == Deque!WithoutLast(Contents)
  <1>5. /\ s \in Seq(Value) /\ Len(s) = k - 1
        /\ \A i \in 1..k-1 : s[i] = Contents[i]
    BY <1>3, WithoutLastIs
  <1> HIDE DEF s
  <1>6. ASSUME NEW i \in 1..k-1
        PROVE  Contents'[i] = s[i]
    <2>1. i - 1 \in 0..k-2 /\ i \in 1..k
      BY <1>3
    <2> QED  BY <2>1, <1>2, <1>3, <1>5
  <1>7. k - 1 \in Nat
    BY <1>3
  <1>8. Contents' = Deque!WithoutLast(Contents)
    BY <1>3, <1>5, <1>6, <1>7, Same DEF s
  <1>9. max_size' = max_size /\ policy' = policy /\ accepted' = TRUE
    BY DEF PopBack, max_size, kind
  <1> QED  BY <1>4, <1>8, <1>9 DEF Deque!PopBack, Deque!Becomes

LEMMA ClearRefines ==
  ASSUME RingInv, Clear
  PROVE  Deque!Clear
  <1>1. RingInv' /\ Size' = 0
    BY ClearStep
  <1>2. Contents' = <<>>
    BY <1>1, BothContents, EmptySeq
  <1>3. max_size' = max_size /\ policy' = policy /\ accepted' = TRUE
    BY DEF Clear, max_size, kind
  <1> QED  BY <1>2, <1>3 DEF Deque!Clear, Deque!Becomes

\* A refused push finds the deque full, a refused pop finds it empty.
LEMMA RefusedRefines ==
  ASSUME RingInv, NEW v \in Value, PushReject \/ PopEmpty
  PROVE  Deque!PushBack(v) \/ Deque!PopFront
  <1>1. /\ Size \in 0..N /\ Contents \in Seq(Value) /\ Len(Contents) = Size
        /\ (Empty <=> Size = 0) /\ (Full <=> Size = max_size)
    BY Before, ContentsAre DEF ContentsMean
  <1>2. Contents' = Contents /\ max_size' = max_size /\ policy' = policy /\ accepted' = FALSE
    <2>1. UNCHANGED <<policy, array, front, back, empty, size>> /\ accepted' = FALSE
      BY DEF PushReject, PopEmpty
    <2>2. Size' = Size
      BY <2>1, RefusedStep
    <2> QED  BY <2>1, <2>2 DEF Contents, max_size, kind
  <1>3. CASE PushReject
    <2>1. Len(Contents) = max_size /\ policy.no_rollover
      BY <1>1, <1>3 DEF PushReject
    <2> QED  BY <1>2, <2>1 DEF Deque!PushBack, Deque!Full, Deque!Refuses
  <1>4. CASE PopEmpty
    <2>1. Contents = <<>>
      BY <1>1, <1>4, EmptySeq DEF PopEmpty
    <2> QED  BY <1>2, <2>1 DEF Deque!PopFront, Deque!Refuses
  <1> QED  BY <1>3, <1>4

\* A ring of any kind and policy is a bounded deque of max_size() elements.
THEOREM RingIsADeque == CarefulSpec => ImplementsDeque
  <1>1. Init => Deque!Init
    <2> SUFFICES ASSUME Init PROVE Deque!Init
      OBVIOUS
    <2>1. RingInv
      BY InitInv
    <2>2. Size = 0
      <3>1. TypeOK
        BY <2>1 DEF RingInv
      <3>2. kind = "flagged" \/ kind = "counter" \/ kind = "sentinel"
        BY <3>1, Kinds
      <3> QED  BY <3>2 DEF Init, Size, Span
    <2>3. Contents = <<>>
      BY <2>1, <2>2, ContentsAre, EmptySeq DEF ContentsMean
    <2>4. max_size \in Nat /\ policy.no_rollover \in BOOLEAN
      BY <2>1, Kinds, RingSizeAssumption DEF RingInv
    <2> QED  BY <2>3, <2>4 DEF Init, Deque!Init
  <1>2. RingInv /\ [CarefulNext]_vars => [Deque!Next]_(Deque!dequeVars)
    <2> SUFFICES ASSUME RingInv, [CarefulNext]_vars
                 PROVE  [Deque!Next]_(Deque!dequeVars)
      OBVIOUS
    <2>1. ASSUME NEW v \in Value, PushBackRoom(v) \/ PushBackRollover(v)
          PROVE  Deque!Next
      BY <2>1, PushBackRefines, PushBackRolloverRefines DEF Deque!Next
    <2>2. ASSUME NEW v \in Value, \/ PushFrontRoom(v)
                                  \/ policy.is_trivial /\ PushFrontRollunder(v)
          PROVE  Deque!Next
      BY <2>2, PushFrontRefines, PushFrontRollunderRefines DEF Deque!Next
    <2>3. CASE PopFront \/ PopBack \/ Clear
      BY <2>3, PopFrontRefines, PopBackRefines, ClearRefines DEF Deque!Next
    <2>4. ASSUME NEW v \in Value, PushReject \/ PopEmpty
          PROVE  Deque!Next
      BY <2>4, RefusedRefines DEF Deque!Next
    <2>5. CASE UNCHANGED vars
      <3>1. Contents' = Contents /\ max_size' = max_size /\ policy' = policy
        <4>1. UNCHANGED <<policy, array, front, back, empty, size>> /\ accepted' \in BOOLEAN
          BY <2>5 DEF vars, RingInv, TypeOK
        <4>2. Size' = Size
          BY <4>1, RefusedStep
        <4> QED  BY <4>1, <4>2 DEF Contents, max_size, kind
      <3> QED  BY <2>5, <3>1 DEF vars, Deque!dequeVars
    <2> QED  BY <2>1, <2>2, <2>3, <2>4, <2>5 DEF CarefulNext, OtherCalls
  <1> QED  BY <1>1, <1>2, Invariance, PTL DEF CarefulSpec, ImplementsDeque, Deque!Spec
=============================================================================
