----------------------------- MODULE LinkedList -----------------------------
(***************************************************************************)
(* The linked lists: forward_list and the intrusive lists, which keep the  *)
(* front, forward_list_with_back, which keeps the back as well, and        *)
(* list_base, whose nodes point both ways.  A node is its owner's: one     *)
(* that left a list may be put into it again, with what it points to.      *)
(* The nodes of a list_base are allocated by it, and it removes none.      *)
(***************************************************************************)
EXTENDS Integers, Sequences, SequencesExt, FiniteSets

CONSTANTS
    Node,
    Eol   \* eol()

ASSUME ListAssumption == Eol \notin Node /\ IsFiniteSet(Node)

VARIABLES
    kind,   \* the list's type; "circle" is that of a linked_ref
    front,  \* m_front
    back,   \* m_back, of a list that keeps it
    next,   \* of each node
    prev,   \* of each node, in a list_base
    call    \* what the last call asked for, as NodeSeq has it

listVars == <<kind, front, back, next, prev, call>>

\* The nodes passed by an iterator that starts at `first`, then Eol.
Path(first) ==
    LET at[k \in Nat] ==
        IF k = 0 THEN first
        ELSE LET last == at[k - 1] IN IF last = Eol THEN Eol ELSE next[last]
    IN  [k \in 0..Cardinality(Node) |-> at[k]]

\* The iteration from begin() to end(), up to the length it can have.
content ==
    LET path   == Path(front)
        length == CHOOSE k \in 0..Cardinality(Node) :
                      /\ k = Cardinality(Node) \/ path[k] = Eol
                      /\ \A j \in 0..k-1 : path[j] # Eol
    IN  [k \in 1..length |-> path[k - 1]]

OnList == {content[i] : i \in DOMAIN content}
Free   == Node \ OnList

Position(n) == SelectInSeq(content, LAMBDA m : m = n)

Inserts(n, at) == call' = [gone |-> {}, first |-> FALSE, node |-> n, at |-> at]
Removes(S, first) == call' = [gone |-> S, first |-> first, node |-> Eol, at |-> 0]

ListInit ==
    /\ kind \in {"forward", "tail", "double", "circle"}
    /\ front = Eol /\ back = Eol
    /\ next = [n \in Node |-> Eol] /\ prev = [n \in Node |-> Eol]
    /\ call = [gone |-> {}, first |-> FALSE, node |-> Eol, at |-> 0]

-----------------------------------------------------------------------------
(* What the calls do to the next pointers nx.                              *)

\* Mutant: the new node is not linked on.
InsertedLast(nx, p, n) == [nx EXCEPT ![p] = n]

InsertedAfter(nx, p, n) == [nx EXCEPT ![p] = n, ![n] = nx[p]]

ErasedAfter(nx, p) == [nx EXCEPT ![p] = nx[nx[p]]]

ReplacedAfter(nx, p, n) == InsertedAfter(ErasedAfter(nx, p), p, n)

-----------------------------------------------------------------------------
(* forward_list and intrusive_forward.                                     *)

\* push_front, emplace_front, and set_front of a list that keeps its back
PushFront(n) ==
    /\ kind \in {"forward", "tail"}
    /\ next' = [next EXCEPT ![n] = front]
    /\ front' = n
    /\ back' = IF kind = "tail" /\ back = Eol THEN n ELSE back
    /\ Inserts(n, 0)
    /\ UNCHANGED <<kind, prev>>

\* pop_front, which forward_list_with_back inherits as it is
PopFront ==
    /\ kind \in {"forward", "tail"}
    /\ front # Eol
    /\ front' = next[front]
    /\ Removes({front}, FALSE)
    /\ UNCHANGED <<kind, back, next, prev>>

InsertAfter(p, n) ==
    /\ kind = "forward"
    /\ next' = InsertedAfter(next, p, n)
    /\ Inserts(n, Position(p))
    /\ UNCHANGED <<kind, front, back, prev>>

EraseAfter(p) ==
    /\ kind = "forward" /\ next[p] # Eol
    /\ next' = ErasedAfter(next, p)
    /\ Removes({next[p]}, FALSE)
    /\ UNCHANGED <<kind, front, back, prev>>

ReplaceAfter(p, n) ==
    /\ kind = "forward" /\ next[p] # Eol
    /\ next' = ReplacedAfter(next, p, n)
    /\ call' = [gone |-> {next[p]}, first |-> FALSE, node |-> n, at |-> Position(p)]
    /\ UNCHANGED <<kind, front, back, prev>>

\* intrusive_forward::clear, which leaves the nodes as they are
Clear ==
    /\ kind = "forward"
    /\ front' = Eol
    /\ Removes(Node, FALSE)
    /\ UNCHANGED <<kind, back, next, prev>>

\* Mutant: the front is not replaced.
VisitedNeverFront(s, match, first) ==
    IF s.current = Eol THEN s ELSE
    LET _next   == s.nx[s.current]
        matched == s.current \in match
    IN  [current  |-> IF matched /\ first THEN Eol ELSE _next,
         previous |-> s.current,
         nx       |-> IF matched /\ s.previous # Eol THEN [s.nx EXCEPT ![s.previous] = _next] ELSE s.nx,
         front    |-> s.front]

\* One turn of the loop of remove_if: a removed node, too, becomes `previous`.
Visited(s, match, first) ==
    IF s.current = Eol THEN s ELSE
    LET _next   == s.nx[s.current]
        matched == s.current \in match
    IN  [current  |-> IF matched /\ first THEN Eol ELSE _next,
         previous |-> s.current,
         nx       |-> IF matched /\ s.previous # Eol THEN [s.nx EXCEPT ![s.previous] = _next] ELSE s.nx,
         front    |-> IF matched /\ s.previous = Eol THEN _next ELSE s.front]

\* remove_if, of the nodes of which the predicate is true, and remove
RemoveIf(match, first) ==
    LET s[k \in Nat] ==
            IF k = 0 THEN [current |-> front, previous |-> Eol, nx |-> next, front |-> front]
            ELSE Visited(s[k - 1], match, first)
        end == s[Cardinality(Node)]
    IN  /\ kind = "forward"
        /\ front' = end.front
        /\ next' = end.nx
        /\ Removes(match, first)
        /\ UNCHANGED <<kind, back, prev>>

-----------------------------------------------------------------------------
(* forward_list_with_back.                                                 *)

\* push_back, which takes the new node's own pointer as it is
PushBack(n) ==
    /\ kind = "tail"
    /\ next' = IF back # Eol THEN [next EXCEPT ![back] = n] ELSE next
    /\ front' = IF back # Eol THEN front ELSE n
    /\ back' = n
    /\ Inserts(n, Len(content))
    /\ UNCHANGED <<kind, prev>>

-----------------------------------------------------------------------------
(* list_base.                                                              *)

\* A node that is allocated points nowhere yet.
Allocated(pointers, n) == [pointers EXCEPT ![n] = Eol]

PushFrontDouble(n) ==
    /\ kind = "double"
    /\ prev' = IF front # Eol THEN [Allocated(prev, n) EXCEPT ![front] = n]
               ELSE Allocated(prev, n)
    /\ back' = IF back = Eol THEN n ELSE back
    /\ next' = [next EXCEPT ![n] = front]
    /\ front' = n
    /\ Inserts(n, 0)
    /\ UNCHANGED kind

PushBackDouble(n) ==
    /\ kind = "double"
    /\ next' = IF back # Eol THEN [Allocated(next, n) EXCEPT ![back] = n]
               ELSE Allocated(next, n)
    /\ front' = IF front = Eol THEN n ELSE front
    /\ prev' = [prev EXCEPT ![n] = back]
    /\ back' = n
    /\ Inserts(n, Len(content))
    /\ UNCHANGED kind

\* Mutant: the node inserted on does not learn of the one before it.
InsertDoubleOneWay(p, n) ==
    /\ kind = "double" /\ p # front
    /\ next' = [next EXCEPT ![n] = p, ![prev[p]] = n]
    /\ prev' = [prev EXCEPT ![n] = prev[p]]
    /\ Inserts(n, Position(p) - 1)
    /\ UNCHANGED <<kind, front, back>>

\* insert() before a node other than the front, where it is push_front
InsertDouble(p, n) ==
    /\ kind = "double" /\ p # front
    /\ next' = [next EXCEPT ![n] = p, ![prev[p]] = n]
    /\ prev' = [prev EXCEPT ![n] = prev[p], ![p] = n]
    /\ Inserts(n, Position(p) - 1)
    /\ UNCHANGED <<kind, front, back>>

-----------------------------------------------------------------------------
Adjacent(S) == \E i \in 1..Len(content)-1 : {content[i], content[i+1]} \subseteq S

\* Calls for which the list is what it promises: of a list that keeps its
\* back the last node is popped last, and what is pushed back points nowhere;
\* not two neighbours are removed by one call.
CarefulListNext ==
    \/ PopFront \/ Clear
    \/ \E n \in Free :
        \/ (kind = "tail" => (front = Eol => back = Eol)) /\ PushFront(n)
        \/ (front = Eol => back = Eol) /\ next[n] = Eol /\ PushBack(n)
        \/ PushFrontDouble(n) \/ PushBackDouble(n)
        \/ \E p \in OnList : InsertAfter(p, n) \/ ReplaceAfter(p, n) \/ InsertDouble(p, n)
    \/ \E p \in OnList : EraseAfter(p)
    \/ \E match \in SUBSET OnList, first \in BOOLEAN :
        (first \/ ~Adjacent(match)) /\ RemoveIf(match, first)

\* Calls as they come.
ListNext ==
    \/ CarefulListNext
    \/ \E n \in Free : PushFront(n) \/ PushBack(n)
    \/ \E match \in SUBSET OnList : RemoveIf(match, FALSE)

-----------------------------------------------------------------------------
\* A list ends.  A list that keeps its back keeps the last node, as long as
\* it has one, and the nodes of a list_base point back the way they came.
WellLinked ==
    /\ Path(front)[Cardinality(Node)] = Eol
    /\ kind \in {"tail", "double"} /\ front # Eol => back = Last(content)
    /\ kind = "double" =>
        \A i \in DOMAIN content :
            prev[content[i]] = IF i = 1 THEN Eol ELSE content[i - 1]

\* The inductive invariant: WellLinked, with the types, and the ends of the
\* lists that are empty or never filled.
ListInv ==
    /\ kind \in {"forward", "tail", "double", "circle"}
    /\ {front, back} \subseteq Node \cup {Eol}
    /\ {next, prev} \subseteq [Node -> Node \cup {Eol}]
    /\ WellLinked
    /\ kind = "double" => (front = Eol <=> back = Eol)
    /\ kind = "circle" => front = Eol

\* Each call inserts the node it is given where it is told to, removes the
\* nodes it should, and leaves the others in their order.
Sequence == INSTANCE NodeSeq WITH items <- content

ImplementsSeq == Sequence!Spec

\* remove_if: "optionally shall remove the first item found in the list, rather
\* than all items matching".  Without that option none that matched stays.
RemovesAllMatching == kind = "forward" /\ ~call.first => call.gone \cap OnList = {}

\* forward_list_with_back.set_front: "it's assumed old m_front is already
\* pointing its next (eventually) at existing m_back, so we should be good to
\* go".  Whenever there is a back, it is reached from the front.
BackIsReached == kind = "tail" /\ back # Eol => back \in OnList
=============================================================================
