------------------------------ MODULE Variant ------------------------------
(***************************************************************************)
(* variant, optional and expected, over the storage they share: bytes in   *)
(* which an object of one of the types is constructed, with an index (for  *)
(* optional and expected has_value) beside it that says of which.  No one  *)
(* but the code that sets the index knows whether the bytes hold an        *)
(* object: here they do, or are Raw, or are Broken once a destructor ran   *)
(* on no object, a constructor over one, or an object was read that is     *)
(* not there.                                                              *)
(***************************************************************************)
EXTENDS Integers, FiniteSets

CONSTANTS
    Holder,   \* places for a variant, an optional or an expected
    Value,    \* what an object can be
    Moved,    \* what is left of an object that was moved from
    Nothing,  \* in place of an alternative and its value
    Raw, Broken

VARIABLES
    kind,     \* which of the three the holders are
    type,     \* what the alternatives allow
    alive,    \* the holders constructed and not destroyed
    index,    \* the alternative each holder says it holds, or npos
    storage,  \* of each holder
    call      \* what the last call asked for, as Holding has it

vars == <<kind, type, alive, index, storage, call>>

\* "assignable": copied and assigned; "constructed": copied, never assigned
\* (it has a constant member); "unique": moved only.
Types == {"assignable", "constructed", "unique"}
Kinds == {"variant", "optional", "expected"}

npos   == -1
VALUE  == 0
ERROR  == 1

Alternatives == IF kind = "optional" THEN {VALUE} ELSE {VALUE, ERROR}

Object(i, v) == [alt |-> i, val |-> v]
Objects      == {Object(i, v) : i \in {VALUE, ERROR}, v \in Value \cup {Moved}}

ASSUME VariantAssumption ==
    /\ Raw # Broken
    /\ Objects \cap {Raw, Broken, Nothing} = {}

copyable(i)   == type[i] # "unique"
assignable(i) == type[i] # "constructed"

-----------------------------------------------------------------------------
(* The storage, of which each operation gives the new contents.            *)

Holds(s, i) == s \notin {Raw, Broken} /\ s.alt = i

destroy(s, i) == IF i = npos THEN s ELSE IF Holds(s, i) THEN Raw ELSE Broken

emplace(s, i, v) == IF s = Raw THEN Object(i, v) ELSE Broken

read(s) == IF s \in {Raw, Broken} THEN Moved ELSE s.val

\* assignment_helper of an alternative that can be assigned
assign(s, i, v) == IF Holds(s, i) THEN Object(i, v) ELSE Broken

\* Mutant: what is tracked is not destroyed.
assign_or_init_only(s, i, from, v) ==
    IF i = from
    THEN IF assignable(i) THEN assign(s, i, v) ELSE emplace(destroy(s, i), i, v)
    ELSE emplace(s, i, v)

\* assign_or_init of alternative i when the storage tracks `from`, of a type
\* that converts to it.  (Of another one it aborts, or constructs nothing.)
assign_or_init(s, i, from, v) ==
    IF i = from
    THEN IF assignable(i) THEN assign(s, i, v) ELSE emplace(destroy(s, i), i, v)
    ELSE emplace(destroy(s, from), i, v)

\* Mutant: the object is copied where it should be moved.
left_as_it_was(s, i) == s

\* What a move leaves of an object.
left(s, i) == IF i = npos THEN s ELSE assign(s, i, Moved)

Asks(op, to, from, item) == call' = [op |-> op, to |-> to, from |-> from, item |-> item]

\* A call on h alone.
Ends(h, i, s) ==
    /\ index' = [index EXCEPT ![h] = i]
    /\ storage' = [storage EXCEPT ![h] = s]
    /\ UNCHANGED <<kind, type>>

Init ==
    /\ kind \in Kinds
    /\ type \in [{VALUE, ERROR} -> Types]
    /\ kind = "optional" => type[ERROR] = "assignable"
    /\ alive = {}
    /\ index = [h \in Holder |-> npos]
    /\ storage = [h \in Holder |-> Raw]
    /\ call = [op |-> "set", to |-> CHOOSE h \in Holder : TRUE,
               from |-> CHOOSE h \in Holder : TRUE, item |-> Nothing]

\* No two objects that are only moved are made of the same value.
Values == {storage[h].val : h \in {g \in Holder : storage[g] \notin {Raw, Broken}}}
New(i, v) == ~copyable(i) => v \notin Values

-----------------------------------------------------------------------------
(* Construction and destruction of the holders.                            *)

\* From a value, or in place.
Construct(h, i, v) ==
    /\ h \notin alive /\ i \in Alternatives /\ New(i, v)
    /\ alive' = alive \cup {h}
    /\ Ends(h, i, emplace(Raw, i, v))
    /\ Asks("set", h, h, Object(i, v))

\* optional() and optional(nullopt)
ConstructEmpty(h) ==
    /\ h \notin alive /\ kind = "optional"
    /\ alive' = alive \cup {h}
    /\ Ends(h, npos, Raw)
    /\ Asks("set", h, h, Nothing)

\* The copy constructors.  An optional has none unless what it may hold can
\* be copied.  A variant has one, but where concepts take it away, and an
\* expected has one that is used to move, too: these construct nothing of
\* what cannot be copied, and copy the index all the same.
ConstructCopy(h, g) ==
    /\ h \notin alive /\ g \in alive
    /\ kind = "optional" => \A i \in Alternatives : copyable(i)
    /\ alive' = alive \cup {h}
    /\ Ends(h, index[g], IF index[g] # npos /\ copyable(index[g]) THEN storage[g] ELSE Raw)
    /\ Asks("copy", h, g, Nothing)

\* The move constructor of variant, which destroys what it moved from.
ConstructMoveVariant(h, g) ==
    /\ h \notin alive /\ g \in alive /\ kind = "variant"
    /\ alive' = alive \cup {h}
    /\ index' = [index EXCEPT ![h] = index[g], ![g] = npos]
    /\ storage' = [storage EXCEPT ![h] = storage[g], ![g] = destroy(storage[g], index[g])]
    /\ Asks("move", h, g, Nothing)
    /\ UNCHANGED <<kind, type>>

\* That of optional, which leaves it as it is after the move.
ConstructMoveOptional(h, g) ==
    /\ h \notin alive /\ g \in alive /\ kind = "optional"
    /\ alive' = alive \cup {h}
    /\ index' = [index EXCEPT ![h] = index[g]]
    /\ storage' = [storage EXCEPT ![h] = storage[g],
                                  ![g] = left(storage[g], index[g])]
    /\ Asks("move", h, g, Nothing)
    /\ UNCHANGED <<kind, type>>

Destruct(h) ==
    /\ h \in alive
    /\ alive' = alive \ {h}
    /\ Ends(h, npos, destroy(storage[h], index[h]))
    /\ Asks("set", h, h, Nothing)

-----------------------------------------------------------------------------
(* Assignment.                                                             *)

\* From a value; to expected, an error only as the const object it is in.
AssignValue(h, i, v) ==
    /\ h \in alive /\ i \in Alternatives /\ New(i, v)
    /\ kind = "expected" /\ i = ERROR => copyable(i)
    /\ Ends(h, i, assign_or_init(storage[h], i, index[h], v))
    /\ Asks("set", h, h, Object(i, v))
    /\ UNCHANGED alive

\* The same, when the constructor of the alternative throws.
AssignThrows(h, i) ==
    /\ h \in alive /\ i \in Alternatives
    /\ i = index[h] => ~assignable(i)
    /\ Ends(h, index[h], destroy(storage[h], index[h]))
    /\ Asks("set", h, h, Nothing)
    /\ UNCHANGED alive

\* emplace(), which in expected makes a value.
Emplace(h, i, v) ==
    /\ h \in alive /\ i \in Alternatives /\ New(i, v)
    /\ kind = "expected" => i = VALUE
    /\ Ends(h, i, emplace(destroy(storage[h], index[h]), i, v))
    /\ Asks("set", h, h, Object(i, v))
    /\ UNCHANGED alive

\* The same, when the constructor throws: variant has unset its index.
EmplaceThrows(h) ==
    /\ h \in alive
    /\ Ends(h, IF kind = "variant" THEN npos ELSE index[h], destroy(storage[h], index[h]))
    /\ Asks("set", h, h, Nothing)
    /\ UNCHANGED alive

\* Of an empty or valueless holder, and optional's reset() and nullopt.
Clear(h) ==
    /\ h \in alive /\ kind # "expected"
    /\ kind = "variant" => \E g \in alive : index[g] = npos
    /\ Ends(h, npos, destroy(storage[h], index[h]))
    /\ Asks("set", h, h, Nothing)
    /\ UNCHANGED alive

\* Of a holder.  An alternative that cannot be assigned is destroyed first,
\* also when it is what is to be copied.
CopyAssign(h, g) ==
    LET i == index[g] IN
    /\ {h, g} \subseteq alive /\ i # npos
    /\ \A j \in Alternatives : copyable(j)
    /\ Ends(h, i, IF storage[g] = Raw \/ (h = g /\ ~assignable(i)) THEN Broken
                  ELSE assign_or_init(storage[h], i, index[h], read(storage[g])))
    /\ Asks("copy", h, g, Nothing)
    /\ UNCHANGED alive

\* The index and storage of what was moved from.  A variant destroys at once
\* an alternative that it could only construct from it.
MovedFrom(g) ==
    IF kind = "variant" /\ ~assignable(index[g])
    THEN <<npos, destroy(storage[g], index[g])>>
    ELSE <<index[g], left(storage[g], index[g])>>

MoveAssign(h, g) ==
    LET i == index[g] IN
    /\ {h, g} \subseteq alive /\ h # g /\ i # npos
    /\ index' = [index EXCEPT ![h] = i, ![g] = MovedFrom(g)[1]]
    /\ storage' = [storage EXCEPT ![h] = assign_or_init(storage[h], i, index[h], read(storage[g])),
                                  ![g] = MovedFrom(g)[2]]
    /\ Asks("move", h, g, Nothing)
    /\ UNCHANGED <<kind, type, alive>>

-----------------------------------------------------------------------------
\* Calls for which the holders are what they promise: a variant is copied, and
\* an expected copied or moved, when what it holds can be copied, no holder is assigned to
\* itself whose value cannot be assigned, and a constructor throws where
\* nothing was destroyed, or in the emplace() of variant.
CarefulNext ==
    \/ \E h \in Holder :
        \/ ConstructEmpty(h) \/ Destruct(h) \/ Clear(h)
        \/ (kind = "variant" \/ index[h] = npos) /\ EmplaceThrows(h)
        \/ \E i \in Alternatives :
            \/ index[h] = npos /\ AssignThrows(h, i)
            \/ \E v \in Value : Construct(h, i, v) \/ AssignValue(h, i, v) \/ Emplace(h, i, v)
    \/ \E h, g \in Holder :
        \/ (index[g] # npos => copyable(index[g])) /\ ConstructCopy(h, g)
        \/ ConstructMoveVariant(h, g) \/ ConstructMoveOptional(h, g) \/ MoveAssign(h, g)
        \/ (h = g /\ index[g] # npos => assignable(index[g])) /\ CopyAssign(h, g)

CarefulSpec == Init /\ [][CarefulNext]_vars

\* Calls as they come.
Next ==
    \/ CarefulNext
    \/ \E h, g \in Holder : ConstructCopy(h, g) \/ CopyAssign(h, g)
    \/ \E h \in Holder : EmplaceThrows(h) \/ \E i \in Alternatives : AssignThrows(h, i)

Spec == Init /\ [][Next]_vars

-----------------------------------------------------------------------------
\* Every object that is constructed is destroyed once, and what an index
\* says is there is there, whichever calls and moves came before, and
\* exceptions of the kinds CarefulNext allows: those of variant's emplace(),
\* and those that come where nothing was destroyed.
HoldsWhatItSays ==
    \A h \in Holder :
        /\ storage[h] = IF index[h] = npos THEN Raw ELSE Object(index[h], read(storage[h]))
        /\ h \notin alive => index[h] = npos

\* The inductive invariant: HoldsWhatItSays, with the types of all the rest.
IInv ==
    /\ kind \in Kinds /\ type \in [{VALUE, ERROR} -> Types]
    /\ alive \subseteq Holder
    /\ index \in [Holder -> {npos, VALUE, ERROR}]
    /\ storage \in [Holder -> Objects \cup {Raw}]
    /\ HoldsWhatItSays

\* A copy is equal to what it was made of and leaves it alone; a move takes
\* the value to where it should be and nowhere else.
Held == INSTANCE Holding WITH
    held <- [h \in Holder |-> IF index[h] = npos THEN Nothing ELSE storage[h]]

ImplementsHolding == Held!Spec
=============================================================================
