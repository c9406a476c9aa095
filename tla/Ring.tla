-------------------------------- MODULE Ring --------------------------------
(***************************************************************************)
(* circular_queue, called from one thread: every operation of a ring of    *)
(* type flagged, counter or sentinel, rolling over or rejecting when full, *)
(* with elements whose destruction matters and with trivial ones.          *)
(*                                                                         *)
(* A slot holds a value, or Raw when no object lives in it.  Destroying a  *)
(* trivial element does nothing, so its value stays in the slot.           *)
(***************************************************************************)
EXTENDS Integers, Sequences, SequencesExt

CONSTANTS N,       \* array_.size()
          Value,   \* what elements may be
          Raw      \* the content of a slot no object was constructed in

ASSUME RingSizeAssumption == N \in Nat /\ N >= 2 /\ Raw \notin Value

VARIABLES
    policy,    \* the template parameters; they never change
    array,     \* array_
    front,     \* front_
    back,      \* back_
    empty,     \* empty_, of a flagged ring
    size,      \* size_, of a counter ring
    accepted   \* whether the last call returned non-null or true

vars == <<policy, array, front, back, empty, size, accepted>>

Slots == 0..N-1

Policies == [kind : {"flagged", "counter", "sentinel"},
             no_rollover : BOOLEAN, strict : BOOLEAN, is_trivial : BOOLEAN]

kind == policy.kind

Init ==
    /\ policy \in Policies
    /\ array = [s \in Slots |-> Raw]
    /\ front = 0 /\ back = 0
    /\ empty = TRUE /\ size = 0
    /\ accepted = TRUE

-----------------------------------------------------------------------------
(* Pointers and sizes.                                                     *)

\* increment and decrement, with their rollover checks
Succ(i) == IF i + 1 = N THEN 0 ELSE i + 1
Pred(i) == IF i = 0 THEN N - 1 ELSE i - 1

max_size == IF kind = "sentinel" THEN N - 1 ELSE N

Empty == CASE kind = "flagged"  -> empty
           [] kind = "counter"  -> size = 0
           [] kind = "sentinel" -> front = back

\* Mutant: a full flagged ring, whose pointers are equal, has size 0.
SpanOfFullIsZero == IF front > back THEN N - (front - back) ELSE back - front

\* size() of a flagged and of a sentinel ring, told from the two pointers
Span == IF front > back \/ (front = back /\ kind = "flagged")
        THEN N - (front - back)
        ELSE back - front

Size == CASE kind = "flagged"  -> IF empty THEN 0 ELSE Span
          [] kind = "counter"  -> size
          [] kind = "sentinel" -> Span

\* The test both pushes start with.
Full == IF kind = "sentinel" THEN Succ(back) = front ELSE ~Empty /\ back = front

IncrementSize ==
    /\ empty' = (kind # "flagged" /\ empty)
    /\ size' = IF kind = "counter" THEN size + 1 ELSE size

\* empty_ is worked out after front_ or back_ has moved.
DecrementSize ==
    /\ empty' = IF kind = "flagged" THEN back' = front' ELSE empty
    /\ size' = IF kind = "counter" THEN size - 1 ELSE size

\* destroy, on the slots S of array a
Destroyed(a, S) ==
    IF policy.is_trivial THEN a
    ELSE [s \in Slots |-> IF s \in S THEN Raw ELSE a[s]]

\* The slots iterators visit from begin() to end(): those of a sentinel ring
\* compare pointers, the others count positions.
Nth(i, k) == (i + k) % N

Steps == IF kind = "sentinel"
         THEN CHOOSE k \in Slots : Nth(front, k) = back
         ELSE Size

Visited == {Nth(front, k) : k \in 0..Steps-1}

-----------------------------------------------------------------------------
(* push_back_op                                                            *)

PushBackRoom(v) ==
    /\ ~Full
    /\ IncrementSize
    /\ array' = [array EXCEPT ![back] = v]
    /\ back' = Succ(back)
    /\ accepted' = TRUE
    /\ UNCHANGED <<policy, front>>

\* Mutant: the size counts the new element and not the evicted one.
PushBackRolloverCounts(v) ==
    LET last == IF kind = "sentinel" THEN Succ(back) ELSE back IN
    /\ Full /\ ~policy.no_rollover
    /\ IncrementSize
    /\ front' = Succ(front)
    /\ array' = [Destroyed(array, {last}) EXCEPT ![back] = v]
    /\ back' = Succ(back)
    /\ accepted' = TRUE
    /\ UNCHANGED policy

\* rollover(back): front_ moves on and the oldest element is destroyed.
PushBackRollover(v) ==
    LET last == IF kind = "sentinel" THEN Succ(back) ELSE back IN
    /\ Full /\ ~policy.no_rollover
    /\ front' = Succ(front)
    /\ array' = [Destroyed(array, {last}) EXCEPT ![back] = v]
    /\ back' = Succ(back)
    /\ accepted' = TRUE
    /\ UNCHANGED <<policy, empty, size>>

\* push_front_op

PushFrontRoom(v) ==
    /\ ~Full
    /\ IncrementSize
    /\ array' = [array EXCEPT ![Pred(front)] = v]
    /\ front' = Pred(front)
    /\ accepted' = TRUE
    /\ UNCHANGED <<policy, back>>

\* rollunder(front): back_ moves back and the slot of the local `front` is
\* destroyed: front_ itself, or the slot before it in a sentinel ring.
PushFrontRollunder(v) ==
    LET first == IF kind = "sentinel" THEN Pred(front) ELSE front IN
    /\ Full /\ ~policy.no_rollover
    /\ back' = Pred(back)
    /\ array' = [Destroyed(array, {first}) EXCEPT ![Pred(front)] = v]
    /\ front' = Pred(front)
    /\ accepted' = TRUE
    /\ UNCHANGED <<policy, empty, size>>

\* Either push, on a full ring that does not roll over, returns nullptr.
PushReject ==
    /\ Full /\ policy.no_rollover
    /\ accepted' = FALSE
    /\ UNCHANGED <<policy, array, front, back, empty, size>>

-----------------------------------------------------------------------------
(* pop_front, pop_back and clear                                           *)

PopFront ==
    /\ ~Empty
    /\ array' = Destroyed(array, {front})
    /\ front' = Succ(front)
    /\ back' = back
    /\ DecrementSize
    /\ accepted' = TRUE
    /\ UNCHANGED policy

\* Mutant: the slot is destroyed before back_ is decremented.
PopBackDestroysFirst ==
    /\ ~Empty
    /\ array' = Destroyed(array, {back})
    /\ back' = Pred(back)
    /\ front' = front
    /\ DecrementSize
    /\ accepted' = TRUE
    /\ UNCHANGED policy

PopBack ==
    /\ ~Empty
    /\ back' = Pred(back)
    /\ front' = front
    /\ DecrementSize
    /\ array' = Destroyed(array, {back'})
    /\ accepted' = TRUE
    /\ UNCHANGED policy

\* Popping an empty ring is for `strict` ones only (which is a run-time test
\* up to C++14; with `if constexpr` it does not compile).
PopEmpty ==
    /\ Empty /\ policy.strict
    /\ accepted' = FALSE
    /\ UNCHANGED <<policy, array, front, back, empty, size>>

\* Mutant: clear without clear_size.
ClearKeepsSize ==
    /\ array' = Destroyed(array, Visited)
    /\ front' = 0 /\ back' = 0
    /\ accepted' = TRUE
    /\ UNCHANGED <<policy, empty, size>>

Clear ==
    /\ array' = Destroyed(array, Visited)
    /\ front' = 0 /\ back' = 0
    /\ empty' = TRUE /\ size' = 0
    /\ accepted' = TRUE
    /\ UNCHANGED policy

-----------------------------------------------------------------------------
OtherCalls(v) ==
    \/ PushBackRoom(v) \/ PushBackRollover(v) \/ PushFrontRoom(v)
    \/ PushReject
    \/ PopFront \/ PopBack \/ PopEmpty
    \/ Clear

Next == \E v \in Value : OtherCalls(v) \/ PushFrontRollunder(v)

Spec == Init /\ [][Next]_vars

\* Callers that, because push_front destroys the wrong element, push_front on
\* a full ring only if its elements are trivial (under Spec: RingRollunder.cfg).
CarefulNext ==
    \E v \in Value :
        \/ OtherCalls(v)
        \/ policy.is_trivial /\ PushFrontRollunder(v)

CarefulSpec == Init /\ [][CarefulNext]_vars

-----------------------------------------------------------------------------
(* Properties.                                                             *)

Contents == [i \in 1..Size |-> array[Nth(front, i - 1)]]

\* Type correctness; empty_ and size_ are used by their own type only.
TypeOK ==
    /\ policy \in Policies
    /\ array \in [Slots -> Value \cup {Raw}]
    /\ front \in Slots /\ back \in Slots
    /\ empty \in BOOLEAN /\ size \in 0..N
    /\ kind # "flagged" => empty
    /\ kind # "counter" => size = 0
    /\ accepted \in BOOLEAN

\* [front_ ... back_) is where the objects are: every slot of it holds one,
\* and no other slot does (unless destruction is a no-op).  The slot back_
\* is then always the first empty one.
OccupiedSlots ==
    /\ \A s \in Visited : array[s] # Raw
    /\ ~policy.is_trivial => \A s \in Slots \ Visited : array[s] = Raw

\* The different ways to look at a ring show one sequence: size(), front(),
\* back(), operator[] and iteration in both directions.
ViewsAgree ==
    LET forward == [i \in 1..Steps |-> array[Nth(front, i - 1)]]
        reverseSteps == IF kind = "sentinel"
                        THEN CHOOSE k \in Slots : Nth(Pred(front), k) = Pred(back)
                        ELSE Size
        backward == [i \in 1..reverseSteps |-> array[Nth(Pred(back), 1 - i)]]
    IN  /\ Size <= max_size
        /\ Empty <=> Size = 0
        /\ Full <=> Size = max_size
        /\ forward = Contents
        /\ backward = Reverse(Contents)
        /\ ~Empty => array[front] = Head(forward) /\ array[Pred(back)] = Head(backward)

\* The ring is a deque of max_size() elements.  A non-strict ring is not
\* popped when it is empty.
Deque == INSTANCE BoundedDeque WITH
            queue <- Contents,
            capacity <- max_size,
            rejects <- policy.no_rollover

ImplementsDeque == Deque!Spec

\* The inductive invariant: back_ is size() places behind front_.
PointersAgree == back = Nth(front, Size)

RingInv == TypeOK /\ PointersAgree /\ OccupiedSlots
=============================================================================
