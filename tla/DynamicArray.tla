---------------------------- MODULE DynamicArray ----------------------------
(***************************************************************************)
(* dynamic_array: the container under estd's strings and vectors.  It does *)
(* not own its length in one way only: an explicitly sized array keeps     *)
(* m_size, a null-terminated one finds its length with strlen and sets it  *)
(* by writing a terminator.  The buffer is fixed (the layer1, layer2 and   *)
(* layer3 containers), or it grows with reallocate.                        *)
(*                                                                         *)
(* The buffer is a function on more cells than are allocated; what is not  *)
(* the array's holds Outside.  Elements are trivial: no destructor counts. *)
(* They are numbers, of one byte each but in a fixed array of wide ones.   *)
(***************************************************************************)
EXTENDS Integers, Sequences, FiniteSets

CONSTANTS
    Elem,         \* the elements, without the terminator
    Fresh,        \* what memory holds before it is written
    Outside,      \* what is in a cell that is not the array's
    N,            \* cells of a fixed buffer
    Pad,          \* elements a growing array allocates more than it needs
    MaxCapacity,  \* bound on the cells of a growing array
    MaxInput,     \* bound on the elements one call brings
    Width         \* bytes of a wide element

ASSUME ArrayAssumption ==
    /\ N \in Nat \ {0} /\ Pad \in Nat /\ MaxCapacity \in Nat /\ N <= MaxCapacity
    /\ MaxInput \in Nat /\ Width \in Nat \ {0}
    /\ 0 \notin Elem /\ Outside \notin Elem \cup Fresh \cup {0}
    /\ Fresh \subseteq Elem \cup {0} /\ Fresh # {}

VARIABLES
    kind,      \* how the array is sized, which its type decides
    buf,       \* the buffer
    m_size,    \* the size, of an array that keeps it
    capacity,  \* the cells allocated
    call       \* what the last call asked for, as BoundedSeq has it

vars == <<kind, buf, m_size, capacity, call>>

Kinds == {"terminated", "sized", "growing", "wide"}
Cells == 0..MaxCapacity
Texts == UNION {[1..n -> Elem] : n \in 0..MaxInput}

terminated == kind = "terminated"

-----------------------------------------------------------------------------
(* Size and capacity.                                                      *)

strlen(b) == CHOOSE n \in Cells : b[n] = 0 /\ \A i \in 0..n-1 : b[i] # 0

size == IF terminated THEN strlen(buf) ELSE m_size

content == [i \in 1..size |-> buf[i - 1]]

\* size(n), on the buffer b and on m_size.
Sized(b, n) == IF terminated THEN [b EXCEPT ![n] = 0] ELSE b
SizeAfter(n) == IF terminated THEN m_size ELSE n

\* reserve() to `cap` cells: a fixed buffer cannot, and aborts.
Reallocated(cap, x) ==
    [i \in Cells |-> IF i >= cap THEN Outside ELSE IF i < capacity THEN buf[i] ELSE x]

CanReserve(cap) == kind = "growing" /\ cap <= MaxCapacity

\* ensure_total_capacity(n, pad).
HasCapacity(n, pad) == n <= capacity \/ CanReserve(n + pad)
Ensured(n, pad, x) == IF n <= capacity THEN buf ELSE Reallocated(n + pad, x)

\* Mutant: the new capacity is not recorded.
CapacityForgotten(n, pad) == capacity

CapacityAfter(n, pad) == IF n <= capacity THEN capacity ELSE n + pad

\* Every call ends with n elements in the buffer b.
Ends(n, pad, b) ==
    /\ HasCapacity(n, pad)
    /\ buf' = b
    /\ m_size' = SizeAfter(n)
    /\ capacity' = CapacityAfter(n, pad)
    /\ UNCHANGED kind

Calls(at, count, text) == call' = [at |-> at, count |-> count, text |-> text]

-----------------------------------------------------------------------------
(* Moving elements about.                                                  *)

\* copy_n or placement new of the elements of s, from cell `pos` on.
Written(b, pos, s) ==
    [i \in Cells |-> IF pos <= i /\ i < pos + Len(s) THEN s[i - pos + 1] ELSE b[i]]

\* Mutant: one cell short.
MovedUpShort(b, first, last, n) ==
    [i \in Cells |-> IF first + n < i /\ i < last + n THEN b[i - n] ELSE b[i]]

\* copy_backward or move_backward of [first, last) by n cells.
MovedUp(b, first, last, n) ==
    [i \in Cells |-> IF first + n <= i /\ i < last + n THEN b[i - n] ELSE b[i]]

\* memmove of `count` cells down to `to`.
MovedDown(b, to, from, count) ==
    [i \in Cells |-> IF to <= i /\ i < to + count THEN b[i - to + from] ELSE b[i]]

-----------------------------------------------------------------------------
(* The calls.                                                              *)

\* What a buffer that is not initialised can hold, with the size set to 0.
Init ==
    /\ kind \in Kinds
    /\ capacity = IF kind = "growing" THEN 0 ELSE N
    /\ \E b \in [0..capacity - 1 -> Fresh] :
        buf = [i \in Cells |-> IF i >= capacity THEN Outside
                               ELSE IF i = 0 /\ kind = "terminated" THEN 0 ELSE b[i]]
    /\ m_size = 0
    /\ call = [at |-> 0, count |-> 0, text |-> <<>>]

\* append(buf, len), push_back and emplace_back.
PushBack(s) ==
    LET n == size + Len(s) IN
    /\ \E x \in Fresh : Ends(n, Pad, Written(Sized(Ensured(n, Pad, x), n), size, s))
    /\ Calls(size, 0, s)

\* append() of the array to itself: copy_to looks at the size again, which
\* in an array that keeps it has grown already, and does not cut `len`.
AppendSelf ==
    LET n == 2 * size IN
    /\ \E x \in Fresh : Ends(n, Pad, Written(Sized(Ensured(n, Pad, x), n), size, content))
    /\ Calls(size, 0, content)

\* insert() of a range, at an index or an iterator.
InsertRange(pos, s) ==
    LET n == size + Len(s) IN
    /\ pos <= size
    /\ \E x \in Fresh :
        LET b == Sized(Ensured(n, 0, x), n)
        IN  Ends(n, 0, Written(MovedUp(b, pos, size, Len(s)), pos, s))
    /\ Calls(pos, 0, s)

\* insert() of an rvalue.
InsertMove(pos, v) ==
    LET n == size + 1 IN
    /\ pos <= size
    /\ \E x \in Fresh :
        LET b == Sized(Ensured(n, Pad, x), n)
        IN  Ends(n, Pad, Written(MovedUp(b, pos, size, 1), pos, <<v>>))
    /\ Calls(pos, 0, <<v>>)

\* erase(), whose count a string cuts at its end: the terminator is moved as
\* an element more.
Erase(pos, count) ==
    LET prev_size == IF terminated THEN size + 1 ELSE size IN
    /\ pos + count <= size
    /\ kind = "wide" => pos + count = size
    /\ Ends(size - count, 0, MovedDown(buf, pos, pos + count, prev_size - (pos + count)))
    /\ Calls(pos, count, <<>>)

\* The same where wide elements follow: memmove counts bytes, so that fewer
\* elements are moved, and the next only in part.  It is either of the two it
\* is made of, if those differ in one byte.
EraseWide(pos, count) ==
    LET n     == size - (pos + count)
        torn  == pos + n \div Width
        moved == MovedDown(buf, pos, pos + count, n \div Width)
    IN  /\ kind = "wide" /\ n > 0
        /\ \E x \in {buf[torn], buf[torn + count]} :
            Ends(size - count, 0, IF n % Width = 0 THEN moved ELSE [moved EXCEPT ![torn] = x])
        /\ Calls(pos, count, <<>>)

PopBack ==
    /\ size > 0
    /\ Ends(size - 1, 0, Sized(buf, size - 1))
    /\ Calls(size - 1, 1, <<>>)

\* resize() to no more elements than there are; clear() is resize(0).
ResizeDown(n) ==
    /\ n <= size
    /\ Ends(n, 0, Sized(buf, n))
    /\ Calls(n, size - n, <<>>)

\* resize() to more elements: they are what memory holds.  A terminated
\* array gets a second terminator and stays as long as it was.
ResizeUp(n) ==
    /\ n > size
    /\ \E x \in Fresh : LET b == Sized(Ensured(n, 0, x), n) IN
        /\ Ends(n, 0, b)
        /\ IF terminated THEN Calls(size, 0, <<>>)
           ELSE Calls(size, 0, [i \in 1..n - size |-> b[size + i - 1]])

\* assign(buf, len), assign of another array, and operator=.
Assign(s) ==
    /\ \E x \in Fresh : Ends(Len(s), 0, Written(Sized(Ensured(Len(s), 0, x), Len(s)), 0, s))
    /\ Calls(0, size, s)

\* assign(first, last), which shrinks the allocation first.
AssignShrink(s) ==
    /\ CanReserve(Len(s))
    /\ \E x \in Fresh : buf' = Written(Reallocated(Len(s), x), 0, s)
    /\ m_size' = Len(s) /\ capacity' = Len(s)
    /\ Calls(0, size, s)
    /\ UNCHANGED kind

\* reserve(), and shrink_to_fit() as reserve(size()).
Reserve(cap) ==
    /\ CanReserve(cap)
    /\ \E x \in Fresh : buf' = Reallocated(cap, x)
    /\ capacity' = cap
    /\ UNCHANGED <<kind, m_size, call>>

-----------------------------------------------------------------------------
(* A call that leaves n elements, as callers must make it: ensured capacity *)
(* counts no terminator, so a terminated array must stay below it; and wide *)
(* elements are erased at the end only.                                     *)
Below(n) == terminated => n < capacity

CarefulNext ==
    \/ \E s \in Texts :
        \/ Below(size + Len(s)) /\ (PushBack(s) \/ \E pos \in Cells : InsertRange(pos, s))
        \/ Below(Len(s)) /\ (Assign(s) \/ AssignShrink(s))
    \/ \E pos \in Cells :
        \/ \E v \in Elem : Below(size + 1) /\ InsertMove(pos, v)
        \/ \E count \in Cells : Erase(pos, count)
        \/ ResizeDown(pos)
        \/ Below(pos) /\ ResizeUp(pos)
        \/ pos >= size /\ Reserve(pos)
    \/ Below(2 * size) /\ AppendSelf
    \/ PopBack

CarefulSpec == Init /\ [][CarefulNext]_vars

\* Callers that go by what capacity() and the calls themselves check.
Next ==
    \/ CarefulNext
    \/ \E s \in Texts : PushBack(s)
    \/ \E pos, count \in Cells : EraseWide(pos, count)

Spec == Init /\ [][Next]_vars

-----------------------------------------------------------------------------
(* Searching.  A position that is not found is npos.                       *)

npos == -1

First(S) == IF S = {} THEN npos ELSE CHOOSE i \in S : \A j \in S : i <= j
Last(S)  == IF S = {} THEN npos ELSE CHOOSE i \in S : \A j \in S : i >= j

Byte(v, k) == (v \div 256^k) % 256

\* memcmp(s, i, count) == 0, which knows nothing of the size, and counts
\* bytes where it is given the number of elements.
memcmp0(s, i) ==
    IF kind = "wide"
    THEN \A b \in 0..Len(s)-1 : LET j == b \div Width IN
             /\ i + j \in Cells
             /\ Byte(buf[i + j], b % Width) = Byte(s[j + 1], b % Width)
    ELSE \A j \in 1..Len(s) : i + j - 1 \in Cells /\ buf[i + j - 1] = s[j]

\* find(s), from the beginning.
find(s) == First({i \in 0..size-1 : memcmp0(s, i)})

\* Mutant: the needle may begin where it does not fit any more.
RfindStartUnclipped(count, pos) == IF pos >= size THEN size - 1 ELSE pos

\* rfind(s, pos) first moves pos to where the needle fits.
RfindStart(count, pos) ==
    LET start     == IF pos >= size THEN size - 1 ELSE pos
        remainder == size - start
    IN  IF remainder >= count THEN start
        ELSE IF start < count - remainder THEN npos
        ELSE start - (count - remainder)

rfind(s, pos) == Last({i \in 0..RfindStart(Len(s), pos) : memcmp0(s, i)})

OneOf(s, i) == \E j \in 1..Len(s) : buf[i] = s[j]

find_first_of(s, pos) == First({i \in pos..size-1 : OneOf(s, i)})

find_last_of(s, pos) == Last({i \in 0..pos : OneOf(s, i)})

-----------------------------------------------------------------------------
(* Properties.                                                             *)

TypeOK ==
    /\ kind \in Kinds
    /\ buf \in [Cells -> Elem \cup {0, Outside}]
    /\ m_size \in Nat
    /\ capacity \in 0..MaxCapacity

\* The array writes into no cell but its own, and its elements, with the
\* terminator of an array that has one, are in its own cells.
StaysInside ==
    /\ \A i \in Cells : i >= capacity <=> buf[i] = Outside
    /\ IF terminated THEN \E i \in 0..capacity-1 : buf[i] = 0 ELSE m_size <= capacity

\* The inductive invariant: with it, the cells of a fixed buffer.
IInv ==
    /\ TypeOK /\ StaysInside
    /\ kind # "growing" => capacity = N

\* Each call replaces the elements it should by the ones it was given, and
\* every other element stays, in its order, whether the length is kept or
\* found, and whether or not the buffer was reallocated on the way.
Sequence == INSTANCE BoundedSeq

ImplementsSeq == Sequence!Spec

\* What a search of the standard library finds in the content,
\* find_first_of, find_last_of, rfind among elements of one byte and, in a
\* terminated array, find also find in a buffer that is full of what was
\* there before.
Occurs(s, i) == i + Len(s) <= size /\ SubSeq(content, i + 1, i + Len(s)) = s

SearchesAgree ==
    \A s \in Texts \ {<<>>}, pos \in 0..size-1 :
        /\ terminated => find(s) = First({i \in 0..size-1 : Occurs(s, i)})
        /\ kind # "wide" => rfind(s, pos) = Last({i \in 0..pos : Occurs(s, i)})
        /\ find_first_of(s, pos) = First({i \in pos..size-1 : content[i+1] \in {s[j] : j \in DOMAIN s}})
        /\ find_last_of(s, pos) = Last({i \in 0..pos : content[i+1] \in {s[j] : j \in DOMAIN s}})

\* What rfind finds is the incoming sequence, of `count` elements, whatever
\* their width.
RfindFindsIt ==
    \A s \in Texts \ {<<>>}, pos \in 0..size-1 :
        rfind(s, pos) # npos => Occurs(s, rfind(s, pos))
=============================================================================
