------------------------- MODULE DynamicArrayProofs -------------------------
(***************************************************************************)
(* For buffers and inputs of any length: callers that keep to CarefulSpec  *)
(* leave what is not the array's alone, and its terminator is in its       *)
(* cells; each call edits a sequence; and each search finds what is there. *)
(***************************************************************************)
EXTENDS DynamicArray, SequenceTheorems, WellFoundedInduction, TLAPS

\* A set of natural numbers that is not empty has a least element.
LEMMA Least ==
  ASSUME NEW S \in SUBSET Nat, S # {}
  PROVE  \E n \in S : \A m \in S : n <= m
  <1>1. PICK n \in S : \A m \in S : <<m, n>> \notin OpToRel(<, Nat)
    BY NatLessThanWellFounded, WFMin
  <1>2. \A m \in S : ~(m < n)
    BY <1>1 DEF OpToRel
  <1> QED  BY <1>2

\* strlen finds the terminator, and it is the first.
LEMMA Strlen ==
  ASSUME NEW b, NEW k \in Cells, b[k] = 0
  PROVE  /\ strlen(b) \in Cells /\ strlen(b) <= k /\ b[strlen(b)] = 0
         /\ \A i \in 0..strlen(b)-1 : b[i] # 0
  <1> DEFINE Z == {i \in Cells : b[i] = 0}
  <1>1. PICK n \in Z : \A m \in Z : n <= m
    <2>1. Z \in SUBSET Nat /\ Z # {}
      BY ArrayAssumption DEF Cells
    <2> QED  BY <2>1, Least
  <1>2. n \in Cells /\ b[n] = 0 /\ \A i \in 0..n-1 : b[i] # 0
    BY <1>1, ArrayAssumption DEF Cells
  <1>3. strlen(b) \in Cells /\ b[strlen(b)] = 0 /\ \A i \in 0..strlen(b)-1 : b[i] # 0
    BY <1>2 DEF strlen
  <1> QED  BY <1>3, ArrayAssumption DEF Cells

\* The elements, and the terminator behind them, are in the buffer.
LEMMA SizeType ==
  ASSUME IInv
  PROVE  /\ size \in Nat /\ size <= capacity /\ size \in Cells
         /\ terminated => size < capacity /\ buf[size] = 0 /\ size = strlen(buf)
         /\ \A i \in 0..size-1 : buf[i] \in Elem \cup {0}
  <1>1. /\ capacity \in 0..MaxCapacity /\ m_size \in Nat /\ MaxCapacity \in Nat
        /\ \A i \in Cells : buf[i] \in Elem \cup {0, Outside}
        /\ \A i \in Cells : i >= capacity <=> buf[i] = Outside
    BY ArrayAssumption DEF IInv, TypeOK, StaysInside
  <1>2. /\ size \in Nat /\ size <= capacity
        /\ terminated => size < capacity /\ buf[size] = 0 /\ size = strlen(buf)
    <2>1. CASE terminated
      <3>1. PICK k \in 0..capacity-1 : buf[k] = 0
        BY <2>1 DEF IInv, StaysInside
      <3>2. k \in Cells
        BY <1>1 DEF Cells
      <3>3. size = strlen(buf)
        BY <2>1 DEF size
      <3> QED  BY <1>1, <3>1, <3>2, <3>3, Strlen DEF Cells
    <2>2. CASE ~terminated
      BY <1>1, <2>2 DEF IInv, StaysInside, size
    <2> QED  BY <2>1, <2>2
  <1>3. size \in Cells /\ \A i \in 0..size-1 : i \in Cells /\ ~(i >= capacity)
    BY <1>1, <1>2 DEF Cells
  <1> QED  BY <1>1, <1>2, <1>3

LEMMA InitInv == Init => IInv
  <1> SUFFICES ASSUME Init PROVE IInv
    OBVIOUS
  <1> USE ArrayAssumption
  <1>1. PICK b \in [0..capacity - 1 -> Fresh] :
          buf = [i \in Cells |-> IF i >= capacity THEN Outside
                                 ELSE IF i = 0 /\ kind = "terminated" THEN 0 ELSE b[i]]
    BY DEF Init
  <1>2. /\ kind \in Kinds /\ m_size = 0 /\ capacity \in 0..MaxCapacity
        /\ kind # "growing" => capacity = N
    BY DEF Init, Kinds
  <1>3. \A i \in Cells : ~(i >= capacity) => b[i] \in Elem \cup {0}
    BY <1>1, <1>2 DEF Cells
  <1>4. TypeOK
    BY <1>1, <1>2, <1>3 DEF TypeOK
  <1>5. \A i \in Cells : i >= capacity <=> buf[i] = Outside
    BY <1>1, <1>2, <1>3
  <1>6. terminated => 0 \in 0..capacity-1 /\ buf[0] = 0
    BY <1>1, <1>2 DEF terminated, Cells
  <1> QED  BY <1>2, <1>4, <1>5, <1>6 DEF IInv, StaysInside

-----------------------------------------------------------------------------
(* Buffers of which the first `cap` cells are the array's.                 *)

Own(b, cap) ==
    /\ b \in [Cells -> Elem \cup {0, Outside}]
    /\ \A i \in Cells : i >= cap <=> b[i] = Outside

Input == Seq(Elem \cup {0})

LEMMA TextsAreInput == Texts \subseteq Input /\ \A s \in Texts : Len(s) \in Nat
  BY ArrayAssumption DEF Texts, Input

LEMMA ElementsAre ==
  /\ \A i \in Cells : i \in Nat
  /\ 0 \notin Elem /\ Outside \notin Elem \cup {0}
  /\ Fresh \subseteq Elem \cup {0}
  BY ArrayAssumption DEF Cells

\* Reallocation keeps what is in the cells.
LEMMA EnsuredOwn ==
  ASSUME IInv, NEW n \in Nat, NEW pad \in Nat, NEW x \in Fresh, HasCapacity(n, pad)
  PROVE  /\ Own(Ensured(n, pad, x), CapacityAfter(n, pad))
         /\ CapacityAfter(n, pad) \in 0..MaxCapacity
         /\ n <= CapacityAfter(n, pad)
         /\ kind # "growing" => CapacityAfter(n, pad) = capacity
         /\ \A i \in 0..capacity-1 : Ensured(n, pad, x)[i] = buf[i]
  <1> USE ArrayAssumption, ElementsAre
  <1>1. Own(buf, capacity) /\ capacity \in 0..MaxCapacity /\ MaxCapacity \in Nat
    BY DEF IInv, TypeOK, StaysInside, Own
  <1>2. CASE n <= capacity
    BY <1>1, <1>2 DEF Ensured, CapacityAfter
  <1>3. CASE ~(n <= capacity)
    <2>1. kind = "growing" /\ n + pad <= MaxCapacity
      BY <1>3 DEF HasCapacity, CanReserve
    <2>2. CapacityAfter(n, pad) = n + pad /\ Ensured(n, pad, x) = Reallocated(n + pad, x)
      BY <1>3 DEF Ensured, CapacityAfter
    <2>3. Own(Reallocated(n + pad, x), n + pad)
      BY <1>1, <1>3 DEF Reallocated, Own, Cells
    <2>4. \A i \in 0..capacity-1 : Reallocated(n + pad, x)[i] = buf[i]
      BY <1>1, <1>3 DEF Reallocated, Cells
    <2> QED  BY <1>1, <1>3, <2>1, <2>2, <2>3, <2>4
  <1> QED  BY <1>2, <1>3

LEMMA SizedOwn ==
  ASSUME NEW cap \in 0..MaxCapacity, NEW b, Own(b, cap), NEW n \in Nat,
         terminated => n < cap
  PROVE  /\ Own(Sized(b, n), cap)
         /\ terminated => Sized(b, n)[n] = 0
         /\ \A i \in Cells : i # n => Sized(b, n)[i] = b[i]
  BY ArrayAssumption, ElementsAre DEF Own, Sized, Cells

LEMMA WrittenOwn ==
  ASSUME NEW cap \in 0..MaxCapacity, NEW b, Own(b, cap), NEW pos \in Nat,
         NEW s \in Input, pos + Len(s) <= cap
  PROVE  /\ Own(Written(b, pos, s), cap)
         /\ \A i \in Cells : i < pos \/ i >= pos + Len(s) => Written(b, pos, s)[i] = b[i]
         /\ \A i \in 1..Len(s) : Written(b, pos, s)[pos + i - 1] = s[i]
  <1> USE ArrayAssumption, ElementsAre
  <1>1. Len(s) \in Nat /\ \A i \in 1..Len(s) : s[i] \in Elem \cup {0}
    BY DEF Input
  <1>2. \A i \in Cells : pos <= i /\ i < pos + Len(s) =>
            i - pos + 1 \in 1..Len(s) /\ ~(i >= cap)
    BY <1>1
  <1>3. \A i \in 1..Len(s) : pos + i - 1 \in Cells
    BY <1>1 DEF Cells
  <1> QED  BY <1>1, <1>2, <1>3 DEF Written, Own

LEMMA MovedUpOwn ==
  ASSUME NEW cap \in 0..MaxCapacity, NEW b, Own(b, cap),
         NEW first \in Nat, NEW last \in Nat, NEW n \in Nat, last + n <= cap
  PROVE  /\ Own(MovedUp(b, first, last, n), cap)
         /\ \A i \in Cells : i < first + n \/ i >= last + n =>
                MovedUp(b, first, last, n)[i] = b[i]
         /\ \A i \in first..last-1 : MovedUp(b, first, last, n)[i + n] = b[i]
  <1> USE ArrayAssumption, ElementsAre
  <1>1. \A i \in Cells : first + n <= i /\ i < last + n =>
            i - n \in Cells /\ ~(i - n >= cap) /\ ~(i >= cap)
    BY DEF Cells
  <1>2. \A i \in first..last-1 : i + n \in Cells
    BY DEF Cells
  <1>3. \A i \in Cells : MovedUp(b, first, last, n)[i] =
            IF first + n <= i /\ i < last + n THEN b[i - n] ELSE b[i]
    BY DEF MovedUp
  <1>4. Own(MovedUp(b, first, last, n), cap)
    BY <1>1, <1>3 DEF MovedUp, Own
  <1>5. \A i \in first..last-1 : MovedUp(b, first, last, n)[i + n] = b[i]
    BY <1>2, <1>3
  <1>6. \A i \in Cells : i < first + n \/ i >= last + n => MovedUp(b, first, last, n)[i] = b[i]
    BY <1>3 DEF Cells
  <1> QED  BY <1>4, <1>5, <1>6

LEMMA MovedDownOwn ==
  ASSUME NEW cap \in 0..MaxCapacity, NEW b, Own(b, cap),
         NEW to \in Nat, NEW from \in Nat, NEW count \in Nat,
         to <= from, from + count <= cap
  PROVE  /\ Own(MovedDown(b, to, from, count), cap)
         /\ \A i \in Cells : i < to \/ i >= to + count =>
                MovedDown(b, to, from, count)[i] = b[i]
         /\ \A i \in 0..count-1 : MovedDown(b, to, from, count)[to + i] = b[from + i]
  <1> USE ArrayAssumption, ElementsAre
  <1>1. \A i \in Cells : to <= i /\ i < to + count =>
            i - to + from \in Cells /\ ~(i - to + from >= cap) /\ ~(i >= cap)
    BY DEF Cells
  <1>2. \A i \in 0..count-1 : to + i \in Cells
    BY DEF Cells
  <1>3. \A i \in Cells : MovedDown(b, to, from, count)[i] =
            IF to <= i /\ i < to + count THEN b[i - to + from] ELSE b[i]
    BY DEF MovedDown
  <1>4. \A i \in Cells : MovedDown(b, to, from, count)[i] \in Elem \cup {0, Outside}
    BY <1>1, <1>3 DEF Own
  <1>5. \A i \in Cells : i >= cap <=> MovedDown(b, to, from, count)[i] = Outside
    BY <1>1, <1>3 DEF Own
  <1>6. Own(MovedDown(b, to, from, count), cap)
    BY <1>4, <1>5 DEF MovedDown, Own
  <1>7. \A i \in 0..count-1 : MovedDown(b, to, from, count)[to + i] = b[from + i]
    BY <1>2, <1>3
  <1>8. \A i \in Cells : i < to \/ i >= to + count => MovedDown(b, to, from, count)[i] = b[i]
    BY <1>3 DEF Cells
  <1> QED  BY <1>6, <1>7, <1>8

\* A call that ends with such a buffer, and with a terminator in it.
LEMMA EndsInv ==
  ASSUME IInv, NEW n \in Nat, NEW pad \in Nat, NEW b, Ends(n, pad, b),
         Own(b, CapacityAfter(n, pad)),
         CapacityAfter(n, pad) \in 0..MaxCapacity,
         n <= CapacityAfter(n, pad),
         kind # "growing" => CapacityAfter(n, pad) = capacity,
         terminated => n < capacity /\ b[n] = 0
  PROVE  IInv'
  <1> USE ArrayAssumption
  <1>1. /\ buf' = b /\ capacity' = CapacityAfter(n, pad) /\ kind' = kind
        /\ m_size' = SizeAfter(n)
    BY DEF Ends
  <1>2. TypeOK'
    BY <1>1 DEF IInv, TypeOK, Own, SizeAfter, Cells
  <1>3. StaysInside'
    <2>1. CASE terminated
      <3>1. capacity' = capacity /\ n \in 0..capacity'-1 /\ buf'[n] = 0
        BY <1>1, <2>1 DEF terminated, IInv, TypeOK
      <3> QED  BY <1>1, <2>1, <3>1 DEF StaysInside, Own, terminated, Cells
    <2>2. CASE ~terminated
      BY <1>1, <2>2 DEF StaysInside, Own, terminated, SizeAfter, Cells
    <2> QED  BY <2>1, <2>2
  <1> QED  BY <1>1, <1>2, <1>3 DEF IInv

-----------------------------------------------------------------------------
(* The content.                                                            *)

\* The buffer b has `text` in place of `count` elements at `at`.
Splices(b, at, count, text) ==
    /\ \A i \in 0..at-1 : b[i] = buf[i]
    /\ \A i \in 1..Len(text) : b[at + i - 1] = text[i]
    /\ \A i \in at+count..size-1 : b[i - count + Len(text)] = buf[i]

ContentType ==
    /\ size \in Nat
    /\ content \in Input /\ Len(content) = size
    /\ \A i \in 1..size : content[i] = buf[i - 1] /\ content[i] \in Elem \cup {0}

LEMMA ContentIs == IInv => ContentType
  BY SizeType DEF ContentType, content, Input

\* ... and so they are after a call.
LEMMA SizeTypeNext == IInv' => ContentType'
  BY ContentIs, PTL

LEMMA SpliceStep ==
  ASSUME IInv, IInv', NEW at \in Nat, NEW count \in Nat, at + count <= size,
         NEW text \in Input, Calls(at, count, text),
         Splices(buf', at, count, text), size' = size - count + Len(text)
  PROVE  Sequence!Next
  <1> DEFINE head == SubSeq(content, 1, at)
             tail == SubSeq(content, at + count + 1, size)
  <1>1. size \in Nat /\ size' \in Nat /\ Len(text) \in Nat
    BY SizeType, SizeTypeNext, LenProperties DEF Input, ContentType
  <1>2. /\ content \in Input /\ Len(content) = size
        /\ \A i \in 1..size : content[i] = buf[i - 1] /\ content[i] \in Elem \cup {0}
    BY ContentIs DEF ContentType
  <1>3. /\ content' \in Input /\ Len(content') = size'
        /\ \A i \in 1..size' : content'[i] = buf'[i - 1]
    BY SizeTypeNext DEF ContentType
  <1>4. /\ head \in Input /\ Len(head) = at
        /\ \A i \in 1..at : head[i] = buf[i - 1]
    <2>1. \A i \in 1..at : content[i] \in Elem \cup {0}
      BY <1>1, <1>2
    <2>2. /\ head \in Input /\ Len(head) = IF 1 <= at THEN at ELSE 0
          /\ \A i \in 1..at - 1 + 1 : head[i] = content[i]
      BY <2>1, SubSeqProperties DEF Input
    <2> QED  BY <1>1, <1>2, <2>2
  <1>5. /\ tail \in Input /\ Len(tail) = size - (at + count)
        /\ \A i \in 1..size - (at + count) : tail[i] = buf[at + count + i - 1]
    <2>1. \A i \in at + count + 1..size : content[i] \in Elem \cup {0}
      BY <1>1, <1>2
    <2>2. /\ tail \in Input
          /\ Len(tail) = IF at + count + 1 <= size THEN size - (at + count + 1) + 1 ELSE 0
          /\ \A i \in 1..size - (at + count + 1) + 1 : tail[i] = content[at + count + 1 + i - 1]
      BY <1>1, <2>1, SubSeqProperties DEF Input
    <2>3. Len(tail) = size - (at + count)
      BY <1>1, <2>2
    <2>4. ASSUME NEW i \in 1..size - (at + count)
          PROVE  tail[i] = buf[at + count + i - 1]
      <3>1. /\ i \in 1..size - (at + count + 1) + 1 /\ at + count + i \in 1..size
            /\ at + count + 1 + i - 1 = at + count + i
        BY <1>1
      <3>2. tail[i] = content[at + count + i]
        BY <2>2, <3>1
      <3> QED  BY <1>2, <3>1, <3>2
    <2> QED  BY <2>2, <2>3, <2>4
  <1>6. /\ head \o text \in Input /\ Len(head \o text) = at + Len(text)
        /\ \A i \in 1..at + Len(text) :
              (head \o text)[i] = IF i <= at THEN head[i] ELSE text[i - at]
    BY <1>4, ConcatProperties DEF Input
  <1> HIDE DEF head, tail
  <1>7. /\ (head \o text) \o tail \in Input /\ Len((head \o text) \o tail) = size'
        /\ \A i \in 1..size' :
              ((head \o text) \o tail)[i] =
                  IF i <= at + Len(text) THEN (head \o text)[i] ELSE tail[i - (at + Len(text))]
    <2>1. /\ (head \o text) \o tail \in Input
          /\ Len((head \o text) \o tail) = Len(head \o text) + Len(tail)
          /\ \A i \in 1..Len(head \o text) + Len(tail) :
                ((head \o text) \o tail)[i] =
                    IF i <= Len(head \o text) THEN (head \o text)[i]
                    ELSE tail[i - Len(head \o text)]
      BY <1>5, <1>6, ConcatProperties DEF Input
    <2>2. Len(head \o text) + Len(tail) = size'
      BY <1>1, <1>5, <1>6
    <2> QED  BY <1>6, <2>1, <2>2
  <1>8. ASSUME NEW i \in 1..size'
        PROVE  content'[i] = ((head \o text) \o tail)[i]
    <2>1. CASE i <= at
      <3>1. i \in 1..at /\ i - 1 \in 0..at-1 /\ i \in 1..at + Len(text) /\ i <= at + Len(text)
        BY <1>1, <2>1
      <3>2. buf'[i - 1] = buf[i - 1]
        BY <3>1 DEF Splices
      <3>3. (head \o text)[i] = buf[i - 1]
        BY <1>4, <1>6, <2>1, <3>1
      <3> QED  BY <1>3, <1>7, <3>1, <3>2, <3>3
    <2>2. CASE at < i /\ i <= at + Len(text)
      <3>1. i - at \in 1..Len(text) /\ i \in 1..at + Len(text) /\ at + (i - at) - 1 = i - 1 /\ ~(i <= at)
        BY <1>1, <2>2
      <3> HIDE DEF head, tail
      <3>2. buf'[at + (i - at) - 1] = text[i - at]
        BY <3>1 DEF Splices
      <3>3. (head \o text)[i] = text[i - at]
        BY <1>6, <3>1
      <3> QED  BY <1>3, <1>7, <2>2, <3>1, <3>2, <3>3
    <2>3. CASE at + Len(text) < i
      <3> DEFINE k == i - Len(text) + count - 1
      <3>1. /\ k \in at+count..size-1 /\ k - count + Len(text) = i - 1
            /\ i - (at + Len(text)) \in 1..size - (at + count)
            /\ at + count + (i - (at + Len(text))) - 1 = k
            /\ ~(i <= at + Len(text))
        BY <1>1, <2>3
      <3>2. buf'[i - 1] = buf[k]
        BY <3>1 DEF Splices
      <3>3. tail[i - (at + Len(text))] = buf[k]
        BY <1>5, <3>1
      <3> QED  BY <1>3, <1>7, <3>1, <3>2, <3>3
    <2>4. i <= at \/ (at < i /\ i <= at + Len(text)) \/ at + Len(text) < i
      BY <1>1
    <2> QED  BY <2>1, <2>2, <2>3, <2>4
  <1>9. content' = (head \o text) \o tail
    BY <1>3, <1>7, <1>8, SeqEqual DEF Input
  <1>10. call'.at = at /\ call'.count = count /\ call'.text = text
    BY DEF Calls
  <1> QED  BY <1>2, <1>9, <1>10 DEF Sequence!Next, Sequence!Spliced, head, tail

\* A call that leaves `b` as the buffer, with its n elements in order and,
\* if need be, the terminator behind them.
LEMMA CallStep ==
  ASSUME IInv, NEW n \in Nat, NEW pad \in Nat, NEW b, Ends(n, pad, b),
         Own(b, CapacityAfter(n, pad)),
         CapacityAfter(n, pad) \in 0..MaxCapacity,
         n <= CapacityAfter(n, pad),
         kind # "growing" => CapacityAfter(n, pad) = capacity,
         NEW at \in Nat, NEW count \in Nat, at + count <= size, NEW text \in Input,
         n = size - count + Len(text), Calls(at, count, text), Splices(b, at, count, text),
         terminated => n < capacity /\ b[n] = 0 /\ \A i \in 1..Len(text) : text[i] # 0
  PROVE  IInv' /\ Sequence!Next
  <1>1. IInv'
    BY EndsInv
  <1>2. buf' = b /\ kind' = kind /\ m_size' = SizeAfter(n)
    BY DEF Ends
  <1>3. size \in Nat /\ Len(text) \in Nat
    BY SizeType, LenProperties DEF Input
  <1>4. CASE terminated
    <2>1. \A i \in 0..size-1 : buf[i] # 0
      <3>1. size \in Cells /\ buf[size] = 0 /\ size = strlen(buf)
        BY <1>4, SizeType
      <3> QED  BY <3>1, Strlen
    <2>2. ASSUME NEW i \in 0..n-1
          PROVE  b[i] # 0
      <3>1. CASE i < at
        <4>1. i \in 0..at-1 /\ i \in 0..size-1
          BY <1>3, <3>1
        <4> QED  BY <2>1, <4>1 DEF Splices
      <3>2. CASE at <= i /\ i < at + Len(text)
        <4>1. i - at + 1 \in 1..Len(text) /\ at + (i - at + 1) - 1 = i
          BY <1>3, <3>2
        <4> QED  BY <1>4, <4>1 DEF Splices
      <3>3. CASE at + Len(text) <= i
        <4> DEFINE k == i - Len(text) + count
        <4>1. k \in at+count..size-1 /\ k \in 0..size-1 /\ k - count + Len(text) = i
          BY <1>3, <3>3
        <4> QED  BY <2>1, <4>1 DEF Splices
      <3>4. i < at \/ (at <= i /\ i < at + Len(text)) \/ at + Len(text) <= i
        BY <1>3
      <3> QED  BY <3>1, <3>2, <3>3, <3>4
    <2>3. n \in Cells
      BY <1>4, ArrayAssumption DEF Cells, IInv, TypeOK
    <2>4. strlen(b) \in Cells /\ strlen(b) <= n /\ b[strlen(b)] = 0
      BY <1>4, <2>3, Strlen
    <2>5. strlen(b) = n
      BY <2>2, <2>4, ElementsAre
    <2>6. terminated'
      BY <1>2, <1>4 DEF terminated
    <2>7. size' = n
      BY <1>2, <2>5, <2>6 DEF size
    <2> QED  BY <1>1, <1>2, <2>7, SpliceStep
  <1>5. CASE ~terminated
    <2>1. size' = n
      BY <1>2, <1>5 DEF size, terminated, SizeAfter
    <2> QED  BY <1>1, <1>2, <2>1, SpliceStep
  <1> QED  BY <1>4, <1>5

\* The buffer after ensure_total_size(n), for no fewer elements than before.
Base(n, pad, x) == Sized(Ensured(n, pad, x), n)

LEMMA BaseIs ==
  ASSUME IInv, NEW n \in Nat, NEW pad \in Nat, NEW x \in Fresh,
         HasCapacity(n, pad), size <= n, Below(n)
  PROVE  /\ Own(Base(n, pad, x), CapacityAfter(n, pad))
         /\ CapacityAfter(n, pad) \in 0..MaxCapacity
         /\ n <= CapacityAfter(n, pad)
         /\ kind # "growing" => CapacityAfter(n, pad) = capacity
         /\ \A i \in 0..size-1 : Base(n, pad, x)[i] = buf[i]
         /\ terminated => Base(n, pad, x)[n] = 0 /\ n < capacity /\ n \in Cells
  <1> DEFINE b == Ensured(n, pad, x)
             cap == CapacityAfter(n, pad)
  <1>1. /\ Own(b, cap) /\ cap \in 0..MaxCapacity /\ n <= cap
        /\ kind # "growing" => cap = capacity
        /\ \A i \in 0..capacity-1 : b[i] = buf[i]
    BY EnsuredOwn
  <1>2. size \in Nat /\ size <= capacity /\ capacity \in Nat /\ capacity <= MaxCapacity
    BY SizeType, ArrayAssumption DEF IInv, TypeOK
  <1>3. terminated => n < capacity /\ n < cap /\ n \in Cells
    BY <1>1, <1>2, ArrayAssumption DEF Below, terminated, Cells
  <1> HIDE DEF b, cap
  <1>4. /\ Own(Sized(b, n), cap) /\ (terminated => Sized(b, n)[n] = 0)
        /\ \A i \in Cells : i # n => Sized(b, n)[i] = b[i]
    BY <1>1, <1>3, SizedOwn
  <1>5. \A i \in 0..size-1 : i \in Cells /\ i # n /\ i \in 0..capacity-1
    BY <1>2, ArrayAssumption DEF Cells
  <1> QED  BY <1>1, <1>3, <1>4, <1>5 DEF Base, b, cap

-----------------------------------------------------------------------------
(* Every careful call.                                                     *)

Kept == IInv' /\ Sequence!Next

LEMMA Inputs ==
  ASSUME NEW s \in Texts
  PROVE  s \in Input /\ Len(s) \in Nat /\ \A i \in 1..Len(s) : s[i] # 0
  BY ArrayAssumption, TextsAreInput DEF Texts

\* What the array already holds, or is given, is added behind it.
LEMMA AddedBehind ==
  ASSUME IInv, NEW s \in Input, \A i \in 1..Len(s) : terminated => s[i] # 0,
         NEW n, n = size + Len(s), NEW x \in Fresh, Below(n),
         Ends(n, Pad, Written(Base(n, Pad, x), size, s)), Calls(size, 0, s)
  PROVE  Kept
  <1> DEFINE b0 == Base(n, Pad, x)
             b == Written(b0, size, s)
             cap == CapacityAfter(n, Pad)
  <1>1. size \in Nat /\ Len(s) \in Nat /\ n \in Nat /\ Pad \in Nat /\ HasCapacity(n, Pad)
    BY SizeType, LenProperties, ArrayAssumption DEF Input, Ends
  <1>2. /\ Own(b0, cap) /\ cap \in 0..MaxCapacity /\ n <= cap
        /\ kind # "growing" => cap = capacity
        /\ \A i \in 0..size-1 : b0[i] = buf[i]
        /\ terminated => b0[n] = 0 /\ n < capacity /\ n \in Cells
    BY <1>1, BaseIs
  <1> HIDE DEF b0, cap
  <1>3. /\ Own(b, cap)
        /\ \A i \in Cells : i < size \/ i >= size + Len(s) => b[i] = b0[i]
        /\ \A i \in 1..Len(s) : b[size + i - 1] = s[i]
    BY <1>1, <1>2, WrittenOwn
  <1> HIDE DEF b
  <1>4. Splices(b, size, 0, s)
    <2>1. \A i \in 0..size-1 : i \in Cells
      BY <1>1, <1>2, ArrayAssumption DEF Cells
    <2> QED  BY <1>1, <1>2, <1>3, <2>1 DEF Splices
  <1>5. terminated => n < capacity /\ b[n] = 0
    BY <1>1, <1>2, <1>3
  <1> QED  BY <1>1, <1>2, <1>3, <1>4, <1>5, CallStep DEF b, b0, cap, Kept

\* What is given is put at `pos`, and what was there is moved up.
LEMMA Inserted ==
  ASSUME IInv, NEW s \in Input, \A i \in 1..Len(s) : s[i] # 0,
         NEW pos \in Nat, pos <= size,
         NEW n, n = size + Len(s), NEW pad \in Nat, NEW x \in Fresh, Below(n),
         Ends(n, pad, Written(MovedUp(Base(n, pad, x), pos, size, Len(s)), pos, s)),
         Calls(pos, 0, s)
  PROVE  Kept
  <1> DEFINE b0 == Base(n, pad, x)
             b1 == MovedUp(b0, pos, size, Len(s))
             b == Written(b1, pos, s)
             cap == CapacityAfter(n, pad)
  <1>1. size \in Nat /\ Len(s) \in Nat /\ n \in Nat /\ HasCapacity(n, pad)
    BY SizeType, LenProperties DEF Input, Ends
  <1>2. /\ Own(b0, cap) /\ cap \in 0..MaxCapacity /\ n <= cap
        /\ kind # "growing" => cap = capacity
        /\ \A i \in 0..size-1 : b0[i] = buf[i]
        /\ terminated => b0[n] = 0 /\ n < capacity /\ n \in Cells
    BY <1>1, BaseIs
  <1> HIDE DEF b0, cap
  <1>3. /\ Own(b1, cap)
        /\ \A i \in Cells : i < pos + Len(s) \/ i >= size + Len(s) => b1[i] = b0[i]
        /\ \A i \in pos..size-1 : b1[i + Len(s)] = b0[i]
    <2>1. size + Len(s) <= cap
      BY <1>1, <1>2
    <2>2. /\ Own(b1, cap)
          /\ \A i \in Cells : i < pos + Len(s) \/ i >= size + Len(s) => b1[i] = b0[i]
      BY <1>1, <1>2, <2>1, MovedUpOwn
    <2>3. \A i \in pos..size-1 : b1[i + Len(s)] = b0[i]
      BY <1>1, <1>2, <2>1, MovedUpOwn
    <2> QED  BY <2>2, <2>3
  <1> HIDE DEF b1
  <1>4. /\ Own(b, cap)
        /\ \A i \in Cells : i < pos \/ i >= pos + Len(s) => b[i] = b1[i]
        /\ \A i \in 1..Len(s) : b[pos + i - 1] = s[i]
    BY <1>1, <1>2, <1>3, WrittenOwn
  <1> HIDE DEF b
  <1>5. Splices(b, pos, 0, s)
    <2>1. ASSUME NEW i \in 0..pos-1
          PROVE  b[i] = buf[i]
      <3>1. i \in Cells /\ i \in 0..size-1 /\ i < pos /\ i < pos + Len(s)
        BY <1>1, <1>2, ArrayAssumption DEF Cells
      <3> QED  BY <1>2, <1>3, <1>4, <3>1
    <2>2. ASSUME NEW i \in pos..size-1
          PROVE  b[i + Len(s)] = buf[i]
      <3>1. i + Len(s) \in Cells /\ i \in 0..size-1 /\ i + Len(s) >= pos + Len(s)
        BY <1>1, <1>2, ArrayAssumption DEF Cells
      <3> QED  BY <1>2, <1>3, <1>4, <3>1
    <2>3. \A i \in pos+0..size-1 : i - 0 + Len(s) = i + Len(s) /\ i \in pos..size-1
      BY <1>1
    <2> QED  BY <1>4, <2>1, <2>2, <2>3 DEF Splices
  <1>6. terminated => n < capacity /\ b[n] = 0
    BY <1>1, <1>2, <1>3, <1>4
  <1>7. n = size - 0 + Len(s) /\ pos + 0 <= size
    BY <1>1
  <1> QED  BY <1>1, <1>2, <1>4, <1>5, <1>6, <1>7, CallStep DEF b, b1, b0, cap, Kept

LEMMA PushBackStep ==
  ASSUME IInv, NEW s \in Texts, Below(size + Len(s)), PushBack(s)
  PROVE  Kept
  <1> DEFINE n == size + Len(s)
  <1>1. PICK x \in Fresh : Ends(n, Pad, Written(Base(n, Pad, x), size, s))
    BY DEF PushBack, Base
  <1>2. Calls(size, 0, s)
    BY DEF PushBack
  <1> QED  BY <1>1, <1>2, Inputs, AddedBehind

LEMMA AppendSelfStep ==
  ASSUME IInv, Below(2 * size), AppendSelf
  PROVE  Kept
  <1> DEFINE n == 2 * size
  <1>1. PICK x \in Fresh : Ends(n, Pad, Written(Base(n, Pad, x), size, content))
    BY DEF AppendSelf, Base
  <1>2. Calls(size, 0, content)
    BY DEF AppendSelf
  <1>3. content \in Input /\ n = size + Len(content)
    BY ContentIs DEF ContentType
  <1>4. \A i \in 1..Len(content) : terminated => content[i] # 0
    <2>1. CASE terminated
      <3>1. size \in Cells /\ buf[size] = 0 /\ size = strlen(buf) /\ size \in Nat
        BY <2>1, SizeType
      <3>2. \A i \in 0..size-1 : buf[i] # 0
        BY <3>1, Strlen
      <3> QED  BY <3>1, <3>2, ContentIs DEF ContentType
    <2> QED  BY <2>1
  <1> QED  BY <1>1, <1>2, <1>3, <1>4, AddedBehind

LEMMA InsertRangeStep ==
  ASSUME IInv, NEW s \in Texts, NEW pos \in Cells, Below(size + Len(s)), InsertRange(pos, s)
  PROVE  Kept
  <1> DEFINE n == size + Len(s)
  <1>1. PICK x \in Fresh :
            Ends(n, 0, Written(MovedUp(Base(n, 0, x), pos, size, Len(s)), pos, s))
    BY DEF InsertRange, Base
  <1>2. Calls(pos, 0, s) /\ pos <= size /\ pos \in Nat
    BY ElementsAre DEF InsertRange
  <1> QED  BY <1>1, <1>2, Inputs, Inserted

LEMMA InsertMoveStep ==
  ASSUME IInv, NEW v \in Elem, NEW pos \in Cells, Below(size + 1), InsertMove(pos, v)
  PROVE  Kept
  <1> DEFINE n == size + 1
             s == <<v>>
  <1>1. s \in Input /\ Len(s) = 1 /\ \A i \in 1..Len(s) : s[i] # 0
    BY ArrayAssumption DEF Input
  <1>2. PICK x \in Fresh :
            Ends(n, Pad, Written(MovedUp(Base(n, Pad, x), pos, size, Len(s)), pos, s))
    BY <1>1 DEF InsertMove, Base
  <1>3. Calls(pos, 0, s) /\ pos <= size /\ pos \in Nat /\ Pad \in Nat /\ n = size + Len(s)
    BY <1>1, ElementsAre, ArrayAssumption DEF InsertMove
  <1> HIDE DEF s
  <1> QED  BY <1>1, <1>2, <1>3, Inserted

LEMMA EraseStep ==
  ASSUME IInv, NEW pos \in Cells, NEW count \in Cells, Erase(pos, count)
  PROVE  Kept
  <1> DEFINE n    == size - count
             prev == IF terminated THEN size + 1 ELSE size
             from == pos + count
             b    == MovedDown(buf, pos, from, prev - from)
             s    == <<>>
  <1>1. /\ size \in Nat /\ pos \in Nat /\ count \in Nat /\ from <= size
        /\ n \in Nat /\ prev - from \in Nat
    BY SizeType, ElementsAre DEF Erase
  <1>2. /\ size <= capacity /\ capacity \in 0..MaxCapacity
        /\ terminated => size < capacity /\ buf[size] = 0
        /\ Own(buf, capacity)
    BY SizeType DEF IInv, TypeOK, StaysInside, Own
  <1>3. s \in Input /\ Len(s) = 0
    BY DEF Input
  <1>4. CapacityAfter(n, 0) = capacity
    BY <1>1, <1>2, ArrayAssumption DEF CapacityAfter
  <1>5. /\ Own(b, capacity)
        /\ \A i \in Cells : i < pos \/ i >= pos + (prev - from) => b[i] = buf[i]
        /\ \A i \in 0..prev-from-1 : b[pos + i] = buf[from + i]
    <2> DEFINE k == prev - from
    <2>1. /\ from \in Nat /\ k \in Nat /\ pos \in Nat
          /\ pos <= from /\ from + k <= capacity
      BY <1>1, <1>2, ArrayAssumption
    <2> HIDE DEF prev, from, k
    <2>2. Own(MovedDown(buf, pos, from, k), capacity)
      BY <1>2, <2>1, MovedDownOwn
    <2>3. \A i \in Cells : i < pos \/ i >= pos + k => MovedDown(buf, pos, from, k)[i] = buf[i]
      BY <1>2, <2>1, MovedDownOwn
    <2>4. \A i \in 0..k-1 : MovedDown(buf, pos, from, k)[pos + i] = buf[from + i]
      BY <1>2, <2>1, MovedDownOwn
    <2> QED  BY <2>2, <2>3, <2>4 DEF k
  <1> HIDE DEF b
  <1>6. Splices(b, pos, count, s)
    <2>1. ASSUME NEW i \in 0..pos-1
          PROVE  b[i] = buf[i]
      <3>1. i \in Cells /\ i < pos
        BY <1>1, <1>2, ArrayAssumption DEF Cells
      <3> QED  BY <1>5, <3>1
    <2>2. ASSUME NEW i \in pos+count..size-1
          PROVE  b[i - count + Len(s)] = buf[i]
      <3>1. i - from \in 0..prev-from-1 /\ from + (i - from) = i
            /\ pos + (i - from) = i - count + Len(s)
        BY <1>1, <1>3
      <3> QED  BY <1>5, <3>1
    <2> QED  BY <1>3, <2>1, <2>2 DEF Splices
  <1>7. terminated => n < capacity /\ b[n] = 0
    <2>1. CASE terminated
      <3>1. size - from \in 0..prev-from-1 /\ from + (size - from) = size /\ pos + (size - from) = n
            /\ n < capacity
        BY <1>1, <1>2, <2>1, ArrayAssumption
      <3> QED  BY <1>2, <1>5, <2>1, <3>1
    <2> QED  BY <2>1
  <1>8. Ends(n, 0, b) /\ Calls(pos, count, s)
    BY DEF Erase, b
  <1>9. n <= capacity /\ n = size - count + Len(s) /\ \A i \in 1..Len(s) : s[i] # 0
    BY <1>1, <1>2, <1>3, ArrayAssumption
  <1>10. /\ Own(b, CapacityAfter(n, 0)) /\ CapacityAfter(n, 0) \in 0..MaxCapacity
         /\ n <= CapacityAfter(n, 0) /\ pos + count <= size /\ 0 \in Nat
    BY <1>1, <1>2, <1>4, <1>5, <1>9
  <1> HIDE DEF s, n, prev, from
  <1> QED  BY <1>1, <1>3, <1>4, <1>6, <1>7, <1>8, <1>9, <1>10, CallStep DEF Kept

\* The size is set to less: pop_back, and resize() down.
LEMMA Truncated ==
  ASSUME IInv, NEW n \in Nat, n <= size, Ends(n, 0, Sized(buf, n)), Calls(n, size - n, <<>>)
  PROVE  Kept
  <1> DEFINE b == Sized(buf, n)
             s == <<>>
  <1>1. /\ size \in Nat /\ size <= capacity /\ capacity \in 0..MaxCapacity
        /\ terminated => size < capacity
        /\ Own(buf, capacity)
    BY SizeType DEF IInv, TypeOK, StaysInside, Own
  <1>2. CapacityAfter(n, 0) = capacity
    BY <1>1, ArrayAssumption DEF CapacityAfter
  <1>3. s \in Input /\ Len(s) = 0
    BY DEF Input
  <1>4. /\ Own(b, capacity)
        /\ terminated => b[n] = 0
        /\ \A i \in Cells : i # n => b[i] = buf[i]
    <2>1. terminated => n < capacity
      BY <1>1, ArrayAssumption
    <2> QED  BY <1>1, <2>1, SizedOwn
  <1> HIDE DEF b
  <1>5. \A i \in 0..n-1 : i \in Cells /\ i # n
    BY <1>1, ArrayAssumption DEF Cells
  <1>6. Splices(b, n, size - n, s)
    <2>1. \A i \in 1..Len(s) : b[n + i - 1] = s[i]
      BY <1>3
    <2>2. \A i \in n + (size - n)..size-1 : FALSE
      BY <1>1
    <2> QED  BY <1>4, <1>5, <2>1, <2>2 DEF Splices
  <1>7. /\ n <= capacity /\ n + (size - n) <= size /\ n = size - (size - n) + Len(s)
        /\ terminated => n < capacity
        /\ size - n \in Nat /\ \A i \in 1..Len(s) : s[i] # 0
    BY <1>1, <1>3, ArrayAssumption
  <1>8. Ends(n, 0, b) /\ Calls(n, size - n, s) /\ 0 \in Nat
    BY DEF b
  <1> HIDE DEF s
  <1>9. Own(b, CapacityAfter(n, 0)) /\ CapacityAfter(n, 0) \in 0..MaxCapacity
    BY <1>1, <1>2, <1>4
  <1> QED  BY <1>2, <1>3, <1>4, <1>6, <1>7, <1>8, <1>9, CallStep DEF Kept

LEMMA PopBackStep ==
  ASSUME IInv, PopBack
  PROVE  Kept
  <1> DEFINE n == size - 1
  <1>1. n \in Nat /\ n <= size /\ size - n = 1
    BY SizeType DEF PopBack
  <1>2. Ends(n, 0, Sized(buf, n)) /\ Calls(n, size - n, <<>>)
    BY <1>1 DEF PopBack
  <1> HIDE DEF n
  <1> QED  BY <1>1, <1>2, Truncated

LEMMA ResizeDownStep ==
  ASSUME IInv, NEW n \in Cells, ResizeDown(n)
  PROVE  Kept
  BY ElementsAre, Truncated DEF ResizeDown

LEMMA ResizeUpStep ==
  ASSUME IInv, NEW n \in Cells, Below(n), ResizeUp(n)
  PROVE  Kept
  <1>1. n \in Nat /\ size \in Nat /\ size < n
    BY SizeType, ElementsAre DEF ResizeUp
  <1>2. PICK x \in Fresh :
            /\ Ends(n, 0, Base(n, 0, x))
            /\ IF terminated THEN Calls(size, 0, <<>>)
               ELSE Calls(size, 0, [i \in 1..n - size |-> Base(n, 0, x)[size + i - 1]])
    BY DEF ResizeUp, Base
  <1> DEFINE b == Base(n, 0, x)
             cap == CapacityAfter(n, 0)
             text == [i \in 1..n - size |-> b[size + i - 1]]
  <1>3. /\ Own(b, cap) /\ cap \in 0..MaxCapacity /\ n <= cap
        /\ kind # "growing" => cap = capacity
        /\ \A i \in 0..size-1 : b[i] = buf[i]
        /\ terminated => b[n] = 0 /\ n < capacity /\ n \in Cells
    BY <1>1, <1>2, BaseIs DEF Ends
  <1>4. CASE terminated
    <2>1. b = [buf EXCEPT ![n] = 0]
      <3>1. n <= capacity
        BY <1>1, <1>3, <1>4 DEF IInv, TypeOK
      <3> QED  BY <1>4, <3>1 DEF Base, Sized, Ensured
    <2>2. /\ size \in Cells /\ buf[size] = 0 /\ size = strlen(buf)
          /\ \A i \in 0..size-1 : buf[i] # 0
      BY <1>4, SizeType, Strlen
    <2>3. b[size] = 0
      BY <1>1, <2>1, <2>2 DEF IInv, TypeOK
    <2>4. IInv' /\ buf' = b /\ kind' = kind
      <3>1. Ends(n, 0, b)
        BY <1>2
      <3> HIDE DEF b, cap
      <3> QED  BY <1>1, <1>3, <1>4, <3>1, EndsInv DEF Ends, cap
    <2> HIDE DEF b
    <2>5. strlen(b) = size
      <3>1. strlen(b) \in Cells /\ strlen(b) <= size /\ b[strlen(b)] = 0
        BY <2>2, <2>3, Strlen
      <3>2. \A i \in 0..size-1 : b[i] # 0
        BY <1>3, <2>2
      <3>3. strlen(b) \in Nat /\ strlen(b) \notin 0..size-1
        BY <3>1, <3>2, ElementsAre
      <3> QED  BY <1>1, <3>1, <3>3
    <2>6. size' = strlen(b)
      BY <1>4, <2>4 DEF size, terminated
    <2>7. <<>> \in Input /\ Len(<<>>) = 0
      BY DEF Input
    <2>8. Splices(buf', size, 0, <<>>)
      <3>1. \A i \in size+0..size-1 : FALSE
        BY <1>1
      <3>2. \A i \in 1..Len(<<>>) : FALSE
        BY <2>7
      <3> QED  BY <1>3, <2>4, <3>1, <3>2 DEF Splices
    <2>9. Calls(size, 0, <<>>) /\ size' = size - 0 + Len(<<>>) /\ size + 0 <= size
      BY <1>1, <1>2, <1>4, <2>5, <2>6, <2>7
    <2> QED  BY <1>1, <2>4, <2>7, <2>8, <2>9, SpliceStep DEF Kept
  <1>5. CASE ~terminated
    <2> HIDE DEF b, cap
    <2>1. \A i \in 1..n - size : size + i - 1 \in Cells /\ ~(size + i - 1 >= cap)
      BY <1>1, <1>3, ArrayAssumption DEF Cells
    <2>2. text \in Input /\ Len(text) = n - size
          /\ \A i \in 1..Len(text) : b[size + i - 1] = text[i]
      <3>1. \A i \in 1..n - size : b[size + i - 1] \in Elem \cup {0}
        BY <1>3, <2>1 DEF Own
      <3>2. n - size \in Nat
        BY <1>1
      <3> QED  BY <3>1, <3>2 DEF Input
    <2> HIDE DEF text
    <2>3. Splices(b, size, 0, text)
      <3>1. \A i \in size+0..size-1 : FALSE
        BY <1>1
      <3> QED  BY <1>3, <2>2, <3>1 DEF Splices
    <2>4. n = size - 0 + Len(text) /\ size + 0 <= size
      BY <1>1, <2>2
    <2>5. Ends(n, 0, b) /\ Calls(size, 0, text)
      BY <1>2, <1>5 DEF b, text
    <2> QED  BY <1>1, <1>3, <1>5, <2>2, <2>3, <2>4, <2>5, CallStep DEF Kept, cap
  <1> QED  BY <1>4, <1>5

LEMMA AssignStep ==
  ASSUME IInv, NEW s \in Texts, Below(Len(s)), Assign(s)
  PROVE  Kept
  <1> DEFINE n == Len(s)
             cap == CapacityAfter(n, 0)
  <1>1. PICK x \in Fresh : Ends(n, 0, Written(Sized(Ensured(n, 0, x), n), 0, s))
    BY DEF Assign
  <1> DEFINE b0 == Sized(Ensured(n, 0, x), n)
             b == Written(b0, 0, s)
  <1>2. /\ s \in Input /\ n \in Nat /\ \A i \in 1..n : s[i] # 0
        /\ size \in Nat /\ capacity \in Nat
        /\ HasCapacity(n, 0) /\ Calls(0, size, s)
    BY <1>1, Inputs, SizeType DEF Assign, Ends, IInv, TypeOK
  <1>3. /\ Own(Ensured(n, 0, x), cap) /\ cap \in 0..MaxCapacity /\ n <= cap
        /\ kind # "growing" => cap = capacity
    BY <1>2, EnsuredOwn
  <1>4. terminated => n < capacity /\ n < cap /\ n \in Cells
    BY <1>2, <1>3, ArrayAssumption DEF Below, terminated, Cells
  <1> HIDE DEF n, cap
  <1>5. Own(b0, cap) /\ (terminated => b0[n] = 0)
    BY <1>2, <1>3, <1>4, SizedOwn
  <1> HIDE DEF b0
  <1>6. /\ Own(b, cap)
        /\ \A i \in Cells : i >= 0 + Len(s) => b[i] = b0[i]
        /\ \A i \in 1..Len(s) : b[0 + i - 1] = s[i]
    BY <1>2, <1>3, <1>5, WrittenOwn DEF n
  <1> HIDE DEF b
  <1>7. terminated => b[n] = 0
    BY <1>2, <1>4, <1>5, <1>6 DEF n
  <1>8. Splices(b, 0, size, s)
    <2>1. \A i \in 0..0-1 : FALSE
      OBVIOUS
    <2>2. \A i \in 0+size..size-1 : FALSE
      BY <1>2
    <2> QED  BY <1>6, <2>1, <2>2 DEF Splices
  <1>9. n = size - size + Len(s) /\ 0 + size <= size /\ \A i \in 1..Len(s) : s[i] # 0
    BY <1>2 DEF n
  <1>10. Ends(n, 0, b)
    BY <1>1 DEF b, b0
  <1> QED  BY <1>2, <1>3, <1>4, <1>6, <1>7, <1>8, <1>9, <1>10, CallStep DEF Kept, cap

LEMMA ReallocatedOwn ==
  ASSUME IInv, NEW cap \in 0..MaxCapacity, NEW x \in Fresh
  PROVE  /\ Own(Reallocated(cap, x), cap)
         /\ \A i \in 0..cap-1 : i < capacity => Reallocated(cap, x)[i] = buf[i]
  <1>1. Own(buf, capacity) /\ capacity \in Nat
    BY DEF IInv, TypeOK, StaysInside, Own
  <1> QED  BY <1>1, ArrayAssumption, ElementsAre DEF Reallocated, Own, Cells

\* A growing array with n elements in a buffer of `cap` cells.
LEMMA GrowingInv ==
  ASSUME IInv, kind = "growing", kind' = kind, NEW cap \in 0..MaxCapacity, capacity' = cap,
         Own(buf', cap), m_size' \in 0..cap
  PROVE  IInv' /\ size' = m_size'
  <1>1. TypeOK'
    BY ArrayAssumption DEF IInv, TypeOK, Own
  <1>2. StaysInside'
    BY DEF StaysInside, Own, terminated
  <1> QED  BY <1>1, <1>2 DEF IInv, size, terminated

LEMMA AssignShrinkStep ==
  ASSUME IInv, NEW s \in Texts, AssignShrink(s)
  PROVE  Kept
  <1> DEFINE n == Len(s)
  <1>1. PICK x \in Fresh : buf' = Written(Reallocated(n, x), 0, s)
    BY DEF AssignShrink
  <1>2. /\ s \in Input /\ n \in 0..MaxCapacity /\ size \in Nat /\ kind = "growing" /\ kind' = kind
        /\ capacity' = n /\ m_size' = n /\ Calls(0, size, s)
    BY Inputs, SizeType DEF AssignShrink, CanReserve
  <1> HIDE DEF n
  <1>3. Own(Reallocated(n, x), n)
    BY <1>2, ReallocatedOwn
  <1> DEFINE b == Written(Reallocated(n, x), 0, s)
  <1>4. Own(b, n) /\ \A i \in 1..Len(s) : b[0 + i - 1] = s[i]
    <2>1. 0 + Len(s) <= n
      BY <1>2, ArrayAssumption DEF n
    <2> QED  BY <1>2, <1>3, <2>1, WrittenOwn
  <1> HIDE DEF b
  <1>5. buf' = b
    BY <1>1 DEF b
  <1>6. IInv' /\ size' = n
    BY <1>2, <1>4, <1>5, GrowingInv, ArrayAssumption
  <1>7. Splices(buf', 0, size, s)
    <2>1. \A i \in 0..0-1 : FALSE
      OBVIOUS
    <2>2. \A i \in 0+size..size-1 : FALSE
      BY <1>2
    <2> QED  BY <1>4, <1>5, <2>1, <2>2 DEF Splices
  <1>8. size' = size - size + Len(s) /\ 0 + size <= size
    BY <1>2, <1>6, ArrayAssumption DEF n
  <1> QED  BY <1>2, <1>6, <1>7, <1>8, SpliceStep DEF Kept

LEMMA ReserveStep ==
  ASSUME IInv, NEW cap \in Cells, cap >= size, Reserve(cap)
  PROVE  IInv' /\ UNCHANGED Sequence!vars
  <1>1. PICK x \in Fresh : buf' = Reallocated(cap, x)
    BY DEF Reserve
  <1>2. /\ kind = "growing" /\ kind' = kind /\ capacity' = cap /\ m_size' = m_size
        /\ call' = call /\ size = m_size /\ size \in Nat /\ size <= capacity /\ capacity \in Nat
        /\ cap \in 0..MaxCapacity
    BY SizeType DEF Reserve, CanReserve, size, terminated, IInv, TypeOK, Cells
  <1>3. /\ Own(buf', cap)
        /\ \A i \in 0..cap-1 : i < capacity => buf'[i] = buf[i]
    BY <1>1, <1>2, ReallocatedOwn
  <1>4. m_size' \in 0..cap
    BY <1>2, ArrayAssumption
  <1>5. IInv' /\ size' = size
    BY <1>2, <1>3, <1>4, GrowingInv
  <1>6. \A i \in 1..size : buf'[i - 1] = buf[i - 1]
    BY <1>2, <1>3, ArrayAssumption
  <1>7. content' = content
    BY <1>5, <1>6 DEF content
  <1> QED  BY <1>2, <1>5, <1>7 DEF Sequence!vars

LEMMA CarefulStep ==
  ASSUME IInv, [CarefulNext]_vars
  PROVE  IInv' /\ [Sequence!Next]_(Sequence!vars)
  <1>1. CASE CarefulNext
    BY <1>1, PushBackStep, AppendSelfStep, InsertRangeStep, InsertMoveStep, EraseStep,
       PopBackStep, ResizeDownStep, ResizeUpStep, AssignStep, AssignShrinkStep, ReserveStep
       DEF CarefulNext, Kept
  <1>2. CASE UNCHANGED vars
    <2>1. UNCHANGED <<kind, buf, m_size, capacity, call>>
      BY <1>2 DEF vars
    <2>2. size' = size
      BY <2>1 DEF size, terminated
    <2>3. content' = content
      BY <2>1, <2>2 DEF content
    <2> QED  BY <2>1, <2>3 DEF IInv, TypeOK, StaysInside, terminated, Sequence!vars
  <1> QED  BY <1>1, <1>2

-----------------------------------------------------------------------------
THEOREM Invariance == CarefulSpec => []IInv
  BY InitInv, CarefulStep, PTL DEF CarefulSpec

\* The array writes into no cell but its own, and its elements, with the
\* terminator of an array that has one, are in its own cells.
THEOREM NothingOutside == CarefulSpec => []StaysInside
  BY Invariance, PTL DEF IInv

\* Every call does to the content what it does to a sequence.
THEOREM Refinement == CarefulSpec => ImplementsSeq
  <1>1. Init => Sequence!Init
    <2> SUFFICES ASSUME Init PROVE content = <<>>
      BY DEF Sequence!Init
    <2>1. IInv
      BY InitInv
    <2>2. size = 0
      <3>1. CASE terminated
        <4>1. 0 \in Cells /\ buf[0] = 0
          BY <3>1, ArrayAssumption DEF Init, Cells, terminated
        <4>2. strlen(buf) \in Cells /\ strlen(buf) <= 0
          BY <4>1, Strlen
        <4> QED  BY <3>1, <4>2, ElementsAre DEF size
      <3>2. CASE ~terminated
        BY <3>2 DEF Init, size
      <3> QED  BY <3>1, <3>2
    <2> QED  BY <2>1, <2>2, ContentIs DEF ContentType, Input
  <1> QED  BY <1>1, InitInv, CarefulStep, PTL DEF CarefulSpec, ImplementsSeq, Sequence!Spec

-----------------------------------------------------------------------------
(* Searching: each search looks among the positions where the needle is.   *)

\* What is in the cells is what is in the content, one further on.
LEMMA ContentAt ==
  ASSUME IInv
  PROVE  /\ content \in Seq(Elem \cup {0}) /\ Len(content) = size /\ size \in Nat
         /\ \A i \in 0..size-1 : content[i + 1] = buf[i] /\ i \in Cells
  <1>1. /\ size \in Nat /\ \A i \in 0..size-1 : buf[i] \in Elem \cup {0}
        /\ size \in Cells
    BY SizeType
  <1>2. content = [i \in 1..size |-> buf[i - 1]]
    BY DEF content
  <1>3. \A i \in 1..size : buf[i - 1] \in Elem \cup {0}
    BY <1>1
  <1>4. content \in Seq(Elem \cup {0}) /\ Len(content) = size
    BY <1>1, <1>2, <1>3
  <1>5. \A i \in 0..size-1 : content[i + 1] = buf[i]
    BY <1>1, <1>2
  <1> QED  BY <1>1, <1>4, <1>5, ArrayAssumption DEF Cells

\* Where the needle fits, comparing the cells is comparing the elements, if
\* these are of one byte.
LEMMA ComparingCells ==
  ASSUME IInv, kind # "wide", NEW s \in Texts, NEW i \in Nat, i + Len(s) <= size
  PROVE  memcmp0(s, i) <=> Occurs(s, i)
  <1>1. /\ s \in Seq(Elem) /\ Len(s) \in Nat /\ DOMAIN s = 1..Len(s)
    BY ArrayAssumption DEF Texts
  <1>2. \A j \in 1..Len(s) : i + j - 1 \in 0..size-1 /\ (i + j - 1) + 1 = i + j
    BY <1>1, ContentAt
  <1>3. \A j \in 1..Len(s) : content[i + j] = buf[i + j - 1] /\ i + j - 1 \in Cells
    BY <1>2, ContentAt
  <1>4. memcmp0(s, i) <=> \A j \in 1..Len(s) : content[i + j] = s[j]
    BY <1>3 DEF memcmp0
  <1> DEFINE part == SubSeq(content, i + 1, i + Len(s))
  <1>5. /\ part \in Seq(Elem \cup {0}) /\ Len(part) = Len(s)
        /\ \A j \in 1..Len(s) : part[j] = content[i + j]
    BY <1>1, ContentAt
  <1>6. part = s <=> \A j \in 1..Len(s) : part[j] = s[j]
    <2>1. s \in Seq(Elem \cup {0})
      BY <1>1
    <2> QED  BY <1>1, <1>5, <2>1, SeqEqual
  <1> QED  BY <1>4, <1>5, <1>6 DEF Occurs

\* rfind begins where the needle fits, or nowhere.
LEMMA StartFits ==
  ASSUME NEW count \in Nat, NEW pos \in 0..size-1, size \in Nat
  PROVE  0..RfindStart(count, pos) = {i \in 0..pos : i + count <= size}
  <1>1. CASE size - pos >= count
    BY <1>1 DEF RfindStart
  <1>2. CASE ~(size - pos >= count)
    <2>1. RfindStart(count, pos) = IF size < count THEN npos ELSE size - count
      BY <1>2 DEF RfindStart
    <2> QED  BY <1>2, <2>1 DEF npos
  <1> QED  BY <1>1, <1>2

\* In a terminated array the terminator ends every comparison, as no needle
\* holds one.
LEMMA TerminatorStops ==
  ASSUME IInv, terminated, NEW s \in Texts, NEW i \in 0..size-1, memcmp0(s, i)
  PROVE  i + Len(s) <= size
  <1>1. size \in Nat /\ buf[size] = 0 /\ kind # "wide"
    BY SizeType DEF terminated
  <1>2. Len(s) \in Nat /\ \A j \in 1..Len(s) : s[j] \in Elem
    BY ArrayAssumption DEF Texts
  <1>3. SUFFICES ASSUME i + Len(s) > size PROVE FALSE
    BY <1>1, <1>2
  <1>4. size - i + 1 \in 1..Len(s) /\ i + (size - i + 1) - 1 = size
    BY <1>1, <1>2, <1>3
  <1>5. buf[size] = s[size - i + 1]
    BY <1>1, <1>4 DEF memcmp0
  <1> QED  BY <1>1, <1>2, <1>4, <1>5, ArrayAssumption

\* For elements, needles and buffers of any length: the searches find what
\* those of the standard library find in the content, whatever is left in
\* the buffer behind it.  Not so rfind among wide elements.
LEMMA Searching == IInv => SearchesAgree
  <1> SUFFICES ASSUME IInv, NEW s \in Texts \ {<<>>}, NEW pos \in 0..size-1
               PROVE  /\ terminated => find(s) = First({i \in 0..size-1 : Occurs(s, i)})
                      /\ kind # "wide" => rfind(s, pos) = Last({i \in 0..pos : Occurs(s, i)})
                      /\ find_first_of(s, pos)
                         = First({i \in pos..size-1 : content[i+1] \in {s[j] : j \in DOMAIN s}})
                      /\ find_last_of(s, pos)
                         = Last({i \in 0..pos : content[i+1] \in {s[j] : j \in DOMAIN s}})
    BY DEF SearchesAgree
  <1>1. /\ size \in Nat /\ Len(s) \in Nat /\ DOMAIN s = 1..Len(s)
        /\ \A i \in 0..size-1 : content[i + 1] = buf[i]
    BY ContentAt, ArrayAssumption DEF Texts
  <1>2. ASSUME kind # "wide", NEW i \in Nat
        PROVE  Occurs(s, i) <=> i + Len(s) <= size /\ memcmp0(s, i)
    <2>1. Occurs(s, i) => i + Len(s) <= size
      BY DEF Occurs
    <2> QED  BY <1>2, <2>1, ComparingCells
  <1>3. terminated => find(s) = First({i \in 0..size-1 : Occurs(s, i)})
    <2>1. terminated => \A i \in 0..size-1 : memcmp0(s, i) <=> Occurs(s, i)
      BY <1>1, <1>2, TerminatorStops DEF terminated
    <2>2. terminated => {i \in 0..size-1 : memcmp0(s, i)} = {i \in 0..size-1 : Occurs(s, i)}
      BY <2>1
    <2> QED  BY <2>2 DEF find
  <1>4. ASSUME kind # "wide"
        PROVE  rfind(s, pos) = Last({i \in 0..pos : Occurs(s, i)})
    <2>1. 0..RfindStart(Len(s), pos) = {i \in 0..pos : i + Len(s) <= size}
      BY <1>1, StartFits
    <2>2. {i \in 0..RfindStart(Len(s), pos) : memcmp0(s, i)} = {i \in 0..pos : Occurs(s, i)}
      BY <1>1, <1>2, <1>4, <2>1
    <2> QED  BY <2>2 DEF rfind
  <1>5. \A i \in 0..size-1 : OneOf(s, i) <=> content[i+1] \in {s[j] : j \in DOMAIN s}
    BY <1>1 DEF OneOf
  <1>6. find_first_of(s, pos)
        = First({i \in pos..size-1 : content[i+1] \in {s[j] : j \in DOMAIN s}})
    <2>1. {i \in pos..size-1 : OneOf(s, i)}
          = {i \in pos..size-1 : content[i+1] \in {s[j] : j \in DOMAIN s}}
      BY <1>1, <1>5
    <2> QED  BY <2>1 DEF find_first_of
  <1>7. find_last_of(s, pos)
        = Last({i \in 0..pos : content[i+1] \in {s[j] : j \in DOMAIN s}})
    <2>1. {i \in 0..pos : OneOf(s, i)}
          = {i \in 0..pos : content[i+1] \in {s[j] : j \in DOMAIN s}}
      BY <1>1, <1>5
    <2> QED  BY <2>1 DEF find_last_of
  <1> QED  BY <1>3, <1>4, <1>6, <1>7

\* The searches that SearchesAgree names agree in every state that careful
\* callers reach: rfind among wide elements is not one of them.
THEOREM Searches == CarefulSpec => []SearchesAgree
  BY Invariance, Searching, PTL
=============================================================================
