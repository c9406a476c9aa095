---------------------------- MODULE UnorderedMap ----------------------------
(***************************************************************************)
(* unordered_map: an open-addressed table of fixed size.  A key belongs to *)
(* the bucket that begins at slot index(key) and grows over the next slots.*)
(*                                                                         *)
(* A slot is a pair <first, second>.  A null `first` is an empty slot, and *)
(* then `second`, which otherwise is the mapped object, holds the metadata *)
(* of garbage collection in the same bytes: set_null and destructors leave *)
(* them as they are.  So a mapped object is a metadata record here too.    *)
(* An empty slot is sparse when its gc flag is set: it extends its bucket. *)
(***************************************************************************)
EXTENDS Integers, FiniteSets

CONSTANTS
    Key, Null,     \* the keys, and the null key T{}
    Hash,          \* hasher{}(key)
    MaxSize,       \* container_.size()
    Depth,         \* bucket_depth
    BucketField,   \* what meta's field `bucket` can hold: 2^6 in the code
    Mapped         \* mapped objects (and bytes found in fresh storage)

Meta == [marked_for_gc : BOOLEAN, bucket : 0..BucketField-1]

ASSUME MapAssumption ==
    /\ MaxSize \in Nat \ {0} /\ Depth \in Nat \ {0}
    /\ BucketField \in Nat \ {0}
    /\ Null \notin Key
    /\ Hash \in [Key \cup {Null} -> Nat]
    /\ Mapped \subseteq Meta

VARIABLES
    container,  \* container_
    done        \* whether the last call inserted, assigned, erased or moved

vars == <<container, done>>

Slots == 0..MaxSize-1

index(k) == (Depth * Hash[k]) % MaxSize

\* The storage of a layer1 map is not initialised.
Init ==
    /\ container \in [Slots -> [first : {Null}, second : Mapped]]
    /\ done = TRUE

-----------------------------------------------------------------------------
(* Slots and buckets.                                                      *)

key(s)    == container[s].first
mapped(s) == container[s].second

is_empty(s) == key(s) = Null

is_null_not_sparse(s) == is_empty(s) /\ ~mapped(s).marked_for_gc

is_sparse(s, n) ==
    /\ is_empty(s)
    /\ mapped(s).marked_for_gc
    /\ mapped(s).bucket = n

active(s, n) == ~is_empty(s) /\ index(key(s)) = n

\* traits::swap
swapped(s, t) == [container EXCEPT ![s] = container[t], ![t] = container[s]]

\* Mutant: a lookup that ends at the first empty slot.
BucketEndsAtSparse(n) == {s \in Slots : n <= s /\ \A t \in n..s : active(t, n)}

\* The slots a local iterator steps over from begin(n) to end(n).
Bucket(n) == {s \in Slots : /\ n <= s
                            /\ \A t \in n..s : active(t, n) \/ is_sparse(t, n)}

\* find_ll: x is found at the first of these slots that holds it.
Found(x) == {s \in Bucket(index(x)) : key(s) = x}

FoundAt(x, s) == s \in Found(x) /\ \A t \in Found(x) : s <= t

-----------------------------------------------------------------------------
(* insert_precheck: the elements at the beginning of the bucket are passed,*)
(* and the slot after them is taken if it is empty, for whatever reason.   *)

Passed(n, s) == \A t \in n..s-1 : active(t, n)

Duplicate(k) ==
    \E s \in Slots : index(k) <= s /\ key(s) = k /\ Passed(index(k), s)

CanInsert(k, s) == index(k) <= s /\ is_empty(s) /\ Passed(index(k), s)

\* emplace, insert and try_emplace.
Insert(k, m, s) ==
    /\ ~Duplicate(k) /\ CanInsert(k, s)
    /\ container' = [container EXCEPT ![s] = [first |-> k, second |-> m]]
    /\ done' = TRUE

\* try_emplace with nothing to construct the mapped object from leaves in
\* its place what it finds there.
TryEmplace(k, s) ==
    /\ ~Duplicate(k) /\ CanInsert(k, s)
    /\ container' = [container EXCEPT ![s].first = k]
    /\ done' = TRUE

\* insert and emplace with permit_duplicates.
InsertDuplicate(k, m, s) ==
    /\ Duplicate(k) /\ CanInsert(k, s)
    /\ container' = [container EXCEPT ![s] = [first |-> k, second |-> m]]
    /\ done' = TRUE

\* A duplicate, the end of the container, or another bucket in the way.
InsertFails(k) ==
    /\ Duplicate(k) \/ ~\E s \in Slots : CanInsert(k, s)
    /\ done' = FALSE
    /\ UNCHANGED container

\* insert_or_assign and map[k] = m, when k is found.  (When it is not, they
\* are Insert; map[k] dereferences a null pointer if that fails.)
Assign(k, m, s) ==
    /\ FoundAt(k, s)
    /\ container' = [container EXCEPT ![s].second = m]
    /\ done' = TRUE

-----------------------------------------------------------------------------
(* erase_ll, by key or by iterator, on the active slot s.                  *)

\* Mutant: elements of the bucket in between do not stop the pruning.
PrunableAnywhere(s, n) == {t \in n..s-1 : is_sparse(t, n)}

\* prune_sparse_ll: the sparse slots of the bucket just before s.
Prunable(s, n) == {t \in n..s-1 : \A u \in t..s-1 : is_sparse(u, n)}

ErasePrune(s) ==
    LET n == index(key(s)) IN
    /\ ~is_empty(s)
    /\ s + 1 \in Slots => is_null_not_sparse(s + 1)
    /\ container' = [t \in Slots |->
            IF t = s THEN [first |-> Null, second |-> [mapped(t) EXCEPT !.marked_for_gc = FALSE]]
            ELSE IF t \in Prunable(s, n) THEN [container[t] EXCEPT !.second.marked_for_gc = FALSE]
            ELSE container[t]]
    /\ done' = TRUE

\* Mutants of EraseMark: the slot becomes null rather than sparse; its
\* `bucket` becomes npos; the next element of the bucket takes its place.
EraseUnmarked(s) ==
    /\ ~is_empty(s)
    /\ container' = [container EXCEPT ![s].first = Null, ![s].second.marked_for_gc = FALSE]
    /\ done' = TRUE

EraseMarkNpos(s) ==
    /\ ~is_empty(s)
    /\ container' = [container EXCEPT ![s] =
            [first |-> Null,
             second |-> [marked_for_gc |-> TRUE, bucket |-> BucketField]]]
    /\ done' = TRUE

EraseMoves(s) ==
    /\ ~is_empty(s) /\ s + 1 \in Slots /\ active(s + 1, index(key(s)))
    /\ container' = [swapped(s, s + 1) EXCEPT ![s + 1].first = Null]
    /\ done' = TRUE

\* Otherwise, or when auto_prune is off, the slot becomes sparse.
EraseMark(s) ==
    LET n == index(key(s)) IN
    /\ ~is_empty(s)
    /\ container' = [container EXCEPT ![s] =
            [first |-> Null,
             second |-> [marked_for_gc |-> TRUE, bucket |-> n % BucketField]]]
    /\ done' = TRUE

EraseAbsent(k) ==
    /\ Found(k) = {}
    /\ done' = FALSE
    /\ UNCHANGED container

Clear ==
    /\ container' = [s \in Slots |-> [container[s] EXCEPT !.first = Null]]
    /\ done' = TRUE

-----------------------------------------------------------------------------
(* Garbage collection.                                                     *)

\* gc_active: s moves to the first empty slot of its bucket, if that slot is
\* not sparse for another bucket.
GcActive(s, t) ==
    LET n == index(key(s)) IN
    /\ ~is_empty(s)
    /\ n <= t /\ t < s
    /\ is_empty(t) /\ \A u \in n..t-1 : ~is_empty(u)
    /\ mapped(t).marked_for_gc => mapped(t).bucket = n
    /\ container' = swapped(s, t)
    /\ done' = TRUE

\* gc_sparse_ll, on any empty slot.
GcSparse(s) ==
    /\ is_empty(s)
    /\ container' = [container EXCEPT ![s].second.marked_for_gc = FALSE]
    /\ done' = TRUE

\* erase_and_gc: the last of the slots after s whose keys, null or not, index
\* to s itself takes the place of s.
EraseAndGc(s) ==
    LET run  == {t \in s+1..MaxSize-1 : \A u \in s+1..t : index(key(u)) = s}
        last == IF s + 1 = MaxSize \/ is_empty(s + 1) THEN s ELSE s + Cardinality(run)
    IN  /\ ~is_empty(s)
        /\ container' = [swapped(s, last) EXCEPT ![last] = [container[s] EXCEPT !.first = Null]]
        /\ done' = TRUE

-----------------------------------------------------------------------------
OtherCalls ==
    \/ \E k \in Key : InsertFails(k) \/ EraseAbsent(k)
    \/ \E s \in Slots :
        \/ \E k \in Key, m \in Mapped : Assign(k, m, s)
        \/ ErasePrune(s) \/ EraseMark(s)
        \/ \E t \in Slots : GcActive(s, t)
    \/ Clear

NewKey(k, s) == TryEmplace(k, s) \/ \E m \in Mapped : Insert(k, m, s)

(* Callers that ask for no duplicates and leave garbage collection alone.  *)
PlainNext == OtherCalls \/ \E k \in Key, s \in Slots : NewKey(k, s)

PlainSpec == Init /\ [][PlainNext]_vars

Next ==
    \/ PlainNext
    \/ \E k \in Key, m \in Mapped, s \in Slots : InsertDuplicate(k, m, s)
    \/ \E s \in Slots : GcSparse(s) \/ EraseAndGc(s)

Spec == Init /\ [][Next]_vars

(* Callers that, because of what Next does, insert a key only when it is   *)
(* not found (as operator[] and insert_or_assign do), and not into a slot  *)
(* that is sparse for another bucket, which that bucket still needs; and   *)
(* that leave erase_and_gc and gc_sparse_ll alone.                         *)
TakesOwnSlot(k, s) ==
    mapped(s).marked_for_gc => mapped(s).bucket = index(k)

CarefulNext ==
    \/ OtherCalls
    \/ \E k \in Key, s \in Slots :
        Found(k) = {} /\ TakesOwnSlot(k, s) /\ NewKey(k, s)

CarefulSpec == Init /\ [][CarefulNext]_vars

-----------------------------------------------------------------------------
(* Properties.                                                             *)

TypeOK ==
    /\ container \in [Slots -> [first : Key \cup {Null}, second : Meta]]
    /\ done \in BOOLEAN

\* Whatever is in the container can be found: between the beginning of its
\* bucket and an element every slot is an element of the bucket or is sparse
\* for it, however many elements were erased and inserted in between.
Findable == \A s \in Slots : ~is_empty(s) => s \in Bucket(index(key(s)))

\* No key is in the container twice.
UniqueKeys == \A s, t \in Slots : key(s) = key(t) /\ ~is_empty(s) => s = t

\* References to elements remain valid: an element that stays in the map
\* stays in its slot, unless gc_active moves that very element.
StableReferences ==
    [][\A s \in Slots :
        ~is_empty(s) /\ (\E t \in Slots : key(t)' = key(s))
            => key(s)' = key(s) \/ \E t \in Slots : GcActive(s, t)]_vars

\* The inductive invariant.
IInv == TypeOK /\ Findable /\ UniqueKeys

find_ll(x) == CHOOSE s \in Slots : FoundAt(x, s)

\* What find() finds of each key.
entries == [k \in {x \in Key : Found(x) # {}} |-> mapped(find_ll(k))]

\* The map is a dictionary of that.
Dictionary == INSTANCE BoundedMap WITH Mapped <- Meta, dict <- entries

ImplementsMap == Dictionary!Spec
=============================================================================
