---------------------------- MODULE BoundedDeque ----------------------------
(***************************************************************************)
(* What a ring promises a single-threaded caller: a double-ended queue of  *)
(* bounded capacity.  A push on a full queue is either rejected, or makes  *)
(* room by dropping the element at the other end.                          *)
(***************************************************************************)
EXTENDS Naturals, Sequences

CONSTANT Value

VARIABLES queue,      \* the elements, front first
          capacity,   \* max_size()
          rejects,    \* whether a full queue rejects a push
          accepted    \* whether the last call did what it was asked to

dequeVars == <<queue, capacity, rejects, accepted>>

Full == Len(queue) = capacity

WithoutLast(q) == SubSeq(q, 1, Len(q) - 1)

Init ==
    /\ queue = <<>>
    /\ capacity \in Nat /\ rejects \in BOOLEAN
    /\ accepted = TRUE

Becomes(q) == queue' = q /\ accepted' = TRUE /\ UNCHANGED <<capacity, rejects>>

Refuses == accepted' = FALSE /\ UNCHANGED <<queue, capacity, rejects>>

PushBack(v) ==
    \/ ~Full /\ Becomes(Append(queue, v))
    \/ Full /\ ~rejects /\ Becomes(Append(Tail(queue), v))
    \/ Full /\ rejects /\ Refuses

PushFront(v) ==
    \/ ~Full /\ Becomes(<<v>> \o queue)
    \/ Full /\ ~rejects /\ Becomes(<<v>> \o WithoutLast(queue))
    \/ Full /\ rejects /\ Refuses

PopFront == IF queue = <<>> THEN Refuses ELSE Becomes(Tail(queue))

PopBack == IF queue = <<>> THEN Refuses ELSE Becomes(WithoutLast(queue))

Clear == Becomes(<<>>)

Next ==
    \/ \E v \in Value : PushBack(v) \/ PushFront(v)
    \/ PopFront \/ PopBack \/ Clear

Spec == Init /\ [][Next]_dequeVars
=============================================================================
