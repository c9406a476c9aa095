----------------------------- MODULE LinkedRef -----------------------------
(***************************************************************************)
(* linked_ref: references that share a value by being linked into a circle *)
(* with the operations of the intrusive list.  The last one destroys the   *)
(* value.  A reference that was moved from is out of the circle: its next  *)
(* is Eol.  make_weak() does not compile, so that no reference is weak.   *)
(***************************************************************************)
EXTENDS LinkedList

VARIABLES
    alive,      \* the references constructed and not yet destroyed
    destructs   \* how often the value was destroyed, or NoValue

refVars == <<listVars, alive, destructs>>

NoValue == -1

RefInit == ListInit /\ alive = {} /\ destructs = NoValue

Linked == {r \in alive : next[r] # Eol}

Circle(r) == {Path(r)[k] : k \in DOMAIN Path(r)}

\* before_begin(): all the way round, to the one that points here
Before(r) == CHOOSE p \in Circle(r) : next[p] = r

-----------------------------------------------------------------------------
\* linked_ref(value)
ConstructLinked(r) ==
    /\ kind = "circle" /\ alive = {}
    /\ alive' = {r}
    /\ next' = [next EXCEPT ![r] = r]
    /\ destructs' = 0
    /\ UNCHANGED <<kind, front, back, prev, call>>

\* linked_ref(attach_to)
Attach(r, attach_to) ==
    /\ r \notin alive
    /\ alive' = alive \cup {r}
    /\ next' = InsertedAfter(next, attach_to, r)
    /\ UNCHANGED <<kind, front, back, prev, call, destructs>>

\* linked_ref(std::move(move_from)): replace_after
MoveLinked(r, move_from) ==
    /\ r \notin alive
    /\ alive' = alive \cup {r}
    /\ next' = [ReplacedAfter(next, Before(move_from), r) EXCEPT ![move_from] = Eol]
    /\ UNCHANGED <<kind, front, back, prev, call, destructs>>

\* Mutant: a reference that was moved from takes the value with it.
DestroyMoved(r) ==
    /\ alive' = alive \ {r}
    /\ next' = IF next[r] \notin {r, Eol} THEN ErasedAfter(next, Before(r)) ELSE next
    /\ destructs' = IF next[r] \in {r, Eol} THEN destructs + 1 ELSE destructs
    /\ UNCHANGED <<kind, front, back, prev, call>>

\* ~linked_ref().  The value goes with the reference that is linked to itself.
Destroy(r) ==
    /\ alive' = alive \ {r}
    /\ next' = IF next[r] \notin {r, Eol} THEN ErasedAfter(next, Before(r)) ELSE next
    /\ destructs' = IF next[r] = r THEN destructs + 1 ELSE destructs
    /\ UNCHANGED <<kind, front, back, prev, call>>

\* What count_shared() of r counts: until it is round.
count_shared(r) == CHOOSE k \in 1..Cardinality(Node) : Path(r)[k] = r /\ \A j \in 1..k-1 : Path(r)[j] # r

-----------------------------------------------------------------------------
\* References are moved while another one is linked to them.
CarefulRefNext ==
    \/ \E r \in Node :
        \/ ConstructLinked(r)
        \/ \E s \in Linked : Attach(r, s) \/ (next[s] # s /\ MoveLinked(r, s))
    \/ \E r \in alive : Destroy(r)

\* References are moved.
RefNext ==
    \/ CarefulRefNext
    \/ \E r \in Node, s \in Linked : MoveLinked(r, s)

\* One kind of list, or references, with care and without.
CarefulRefSpec ==
    /\ RefInit
    /\ [][(CarefulListNext /\ UNCHANGED <<alive, destructs>>) \/ CarefulRefNext]_refVars

RefSpec ==
    /\ RefInit
    /\ [][(ListNext /\ UNCHANGED <<alive, destructs>>) \/ RefNext]_refVars

-----------------------------------------------------------------------------
\* count_shared: "linked_ref goes in a circle".  From a reference that is
\* linked one comes round to it, past every other that is linked and no other.
GoesInACircle == \A r \in Linked : Circle(r) = Linked /\ count_shared(r) = Cardinality(Linked)

\* The value is there as long as a reference is linked, and is destroyed
\* once, with the last of them.
LastDestroys ==
    /\ Linked # {} => destructs = 0
    /\ Linked = {} => destructs \in {NoValue, 1}

\* The inductive invariant.  There is an order in which each linked reference
\* points to the one after it, and the last one to the first.
GoesRound(order, m) ==
    /\ {order[i] : i \in 0..m-1} = Linked
    /\ \A i, j \in 0..m-1 : order[i] = order[j] => i = j
    /\ \A i \in 0..m-1 : next[order[i]] = order[IF i + 1 = m THEN 0 ELSE i + 1]

RefInv ==
    /\ ListInv
    /\ alive \subseteq Node
    /\ alive # {} => kind = "circle"
    /\ \E order \in [0..Cardinality(Linked)-1 -> Linked] : GoesRound(order, Cardinality(Linked))
    /\ LastDestroys
=============================================================================
