----------------------------- MODULE SharedPtr -----------------------------
(***************************************************************************)
(* The three kinds of shared_ptr.  A master (layer1::shared_ptr, whose     *)
(* object is constructed later, or layer2::shared_ptr, which is given one) *)
(* holds the control block and is one of the owners of the object while it *)
(* is active.  A layer3::shared_ptr is a pointer to a control block.       *)
(***************************************************************************)
EXTENDS Integers, FiniteSets

CONSTANTS
    Handle,    \* places where a layer3::shared_ptr may live
    Block,     \* masters, each with its control block
    Null,      \* NULLPTR
    Unborn,    \* in place of a pointer: no layer3::shared_ptr lives here
    CountMod   \* 2^16: count_type is uint16_t

ASSUME SharedPtrAssumption ==
    /\ IsFiniteSet(Handle)
    /\ Null \notin Block /\ Unborn \notin Block /\ Null # Unborn
    /\ CountMod \in Nat /\ Cardinality(Handle) + 1 < CountMod

VARIABLES
    ptr,       \* value_ptr() of each layer3::shared_ptr
    shared_count,   \* shared_count of each control block
    active,    \* the control blocks whose is_active is set
    object     \* what became of each managed object

vars == <<ptr, shared_count, active, object>>

Init ==
    /\ ptr = [h \in Handle |-> Unborn]
    /\ shared_count = [b \in Block |-> 0]
    /\ active = {}
    /\ object = [b \in Block |-> "raw"]

-----------------------------------------------------------------------------
(* Reference counting.  The changes a call makes are composed from these.  *)

\* Mutant: deactivate() decrements a (signed) count, and so does its caller.
DecrementedTwice(c, p) ==
    IF p \in Block THEN [c EXCEPT ![p] = @ - 2] ELSE c

\* The control block that p points to loses an owner: --shared_count.
Decremented(c, p) ==
    IF p \in Block
    THEN [c EXCEPT ![p] = IF c[p] = 0 THEN CountMod - 1 ELSE c[p] - 1]
    ELSE c

\* eval_delete runs the deleter when the count has come down to 0.
Deleted(p) ==
    IF p \in Block /\ Decremented(shared_count, p)[p] = 0
    THEN [object EXCEPT ![p] = IF object[p] = "live" THEN "deleted" ELSE "deleted twice"]
    ELSE object

\* ++ on a uint16_t
Succ(n) == IF n + 1 = CountMod THEN 0 ELSE n + 1

\* The constructor that copies: only an active control block counts it.
Incremented(c, p) ==
    IF p \in Block /\ p \in active THEN [c EXCEPT ![p] = Succ(c[p])] ELSE c

Lives(h) == ptr[h] # Unborn

\* What a layer3::shared_ptr made from a master points to.
FromMaster(b) == IF b \in active THEN b ELSE Null

-----------------------------------------------------------------------------
(* Masters.                                                                *)

\* construct() of layer1, for the first time, or the constructor of layer2.
Construct(b) ==
    /\ object[b] = "raw"
    /\ object' = [object EXCEPT ![b] = "live"]
    /\ active' = active \cup {b}
    /\ shared_count' = [shared_count EXCEPT ![b] = Succ(shared_count[b])]
    /\ UNCHANGED ptr

\* Mutant: reset() without deactivate().
ResetStaysActive(b) ==
    /\ b \in active
    /\ shared_count' = Decremented(shared_count, b)
    /\ object' = Deleted(b)
    /\ UNCHANGED <<ptr, active>>

ResetMaster(b) ==
    /\ b \in active
    /\ active' = active \ {b}
    /\ shared_count' = Decremented(shared_count, b)
    /\ object' = Deleted(b)
    /\ UNCHANGED ptr

\* The destructor of an active master, which as a rule outlives the layer3
\* pointers to its control block.  Another master may follow in its place.
DestroyMaster(b) ==
    /\ b \in active
    /\ \A h \in Handle : ptr[h] # b
    /\ shared_count' = [shared_count EXCEPT ![b] = 0]
    /\ active' = active \ {b}
    /\ object' = [object EXCEPT ![b] = IF Deleted(b)[b] = "deleted" THEN "raw" ELSE Deleted(b)[b]]
    /\ UNCHANGED ptr

\* The destructor of a master that was reset does nothing.
DestroyInactive(b) ==
    /\ b \notin active
    /\ \A h \in Handle : ptr[h] # b
    /\ object[b] = "deleted"
    /\ shared_count' = [shared_count EXCEPT ![b] = 0]
    /\ active' = active \ {b}
    /\ object' = [object EXCEPT ![b] = "raw"]
    /\ UNCHANGED ptr

-----------------------------------------------------------------------------
(* layer3::shared_ptr.                                                     *)

\* A copy of the pointer p is made at h.
Copy(h, p) ==
    /\ ~Lives(h)
    /\ ptr' = [ptr EXCEPT ![h] = p]
    /\ shared_count' = Incremented(shared_count, p)
    /\ UNCHANGED <<active, object>>

CopyMaster(h, b) == Copy(h, FromMaster(b))

CopyRef(h, g) == Lives(g) /\ Copy(h, ptr[g])

\* Mutant: the source of a move keeps its pointer.
MoveKeepsSource(h, g) ==
    /\ ~Lives(h) /\ Lives(g)
    /\ ptr' = [ptr EXCEPT ![h] = ptr[g]]
    /\ UNCHANGED <<shared_count, active, object>>

\* The move constructor, which then deactivates the source.
Move(h, g) ==
    /\ ~Lives(h) /\ Lives(g)
    /\ ptr' = [ptr EXCEPT ![h] = ptr[g], ![g] = Null]
    /\ UNCHANGED <<shared_count, active, object>>

\* operator=: reset(), then the copy constructor in place.  p is read after
\* the reset.
AssignPointer(h, p) ==
    /\ Lives(h)
    /\ ptr' = [ptr EXCEPT ![h] = p]
    /\ shared_count' = Incremented(Decremented(shared_count, ptr[h]), p)
    /\ object' = Deleted(ptr[h])
    /\ UNCHANGED active

AssignMaster(h, b) == AssignPointer(h, FromMaster(b))

\* A self-assignment has dropped the pointer before it is copied.
AssignRef(h, g) == Lives(g) /\ AssignPointer(h, IF g = h THEN Null ELSE ptr[g])

\* reset(), and the destructor, of a layer3 pointer
ResetRef(h) == AssignPointer(h, Null)

DestroyRef(h) == AssignPointer(h, Unborn)

Swap(h, g) ==
    /\ Lives(h) /\ Lives(g)
    /\ ptr' = [ptr EXCEPT ![h] = ptr[g], ![g] = ptr[h]]
    /\ UNCHANGED <<shared_count, active, object>>

-----------------------------------------------------------------------------
MasterCall ==
    \E b \in Block :
        \/ Construct(b) \/ ResetMaster(b)
        \/ DestroyMaster(b) \/ DestroyInactive(b)

OtherRefCall ==
    \E h \in Handle :
        \/ \E b \in Block : CopyMaster(h, b) \/ AssignMaster(h, b)
        \/ \E g \in Handle : Move(h, g) \/ Swap(h, g)
        \/ ResetRef(h) \/ DestroyRef(h)

CopyCall(h, g) == CopyRef(h, g) \/ AssignRef(h, g)

Next ==
    \/ MasterCall \/ OtherRefCall
    \/ \E h, g \in Handle : CopyCall(h, g)

Spec == Init /\ [][Next]_vars

\* Callers that, because of what Next does, do not copy a layer3 pointer
\* whose master has been reset.
CarefulNext ==
    \/ MasterCall \/ OtherRefCall
    \/ \E h, g \in Handle :
        /\ ptr[g] \in Block => ptr[g] \in active
        /\ CopyCall(h, g)

CarefulSpec == Init /\ [][CarefulNext]_vars

-----------------------------------------------------------------------------
(* Properties.                                                             *)

Objects == {"raw", "live", "deleted", "deleted twice"}

TypeOK ==
    /\ ptr \in [Handle -> Block \cup {Null, Unborn}]
    /\ shared_count \in [Block -> 0..CountMod-1]
    /\ active \subseteq Block
    /\ object \in [Block -> Objects]

References(b) == {h \in Handle : ptr[h] = b}

Owned(b) == b \in active \/ References(b) # {}

\* An object lives exactly as long as somebody owns it: it is deleted once,
\* when its last owner lets go, not earlier and not later.
LivesWhileOwned ==
    \A b \in Block :
        /\ object[b] = "live" <=> Owned(b)
        /\ object[b] # "deleted twice"

\* use_count() tells the number of owners to each of them.
UseCountExact ==
    \A b \in Block :
        shared_count[b] = Cardinality(References(b)) + (IF b \in active THEN 1 ELSE 0)

\* The inductive invariant.
IInv == TypeOK /\ LivesWhileOwned /\ UseCountExact
=============================================================================
