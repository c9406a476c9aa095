# Verification of estdlib's run-time cores in TLA+

estdlib is a C++ standard-library subset for embedded targets. Most of it is evaluated by the
compiler; what runs, and keeps state, is a handful of fixed-size containers whose callers are
interrupt handlers, threads and long-lived protocol code. This directory models those containers,
checks them with TLC on small instances, and proves what matters most with TLAPS for every size.

Paths below are relative to `src/` of the repository; `E/` stands for `src/estd/`.

## 1. Inventory

| Component | State | Operations | Hard because | What makes it correct |
|---|---|---|---|---|
| `circular_queue` (`E/internal/queue/circular*`) | `array_`, `front_`, `back_`, and `empty_` or `size_` | push/pop/emplace at both ends, `front`, `back`, `operator[]`, iterators, `clear` | one producer and one consumer share atomics and a partial mutex; three encodings of empty and full; eviction; object lifetimes | objects live and die once, FIFO/deque order, no slot used by two sides, pushes return |
| `unordered_map` (`E/internal/container/unordered*`) | `container_`, an open-addressed table whose empty slots carry metadata in the bytes of the mapped object | insert/emplace/try_emplace/`[]`, find, erase, `erase_and_gc`, `gc_active`, `gc_sparse_ll`, `clear` | long sequences of calls; erased slots that must keep a bucket connected; stale metadata | nothing lost, nothing twice, references stay valid |
| `unordered_set` | the same table, keys only | the same | the same | the same |
| bipbuffer and its streambuf (`E/ext/willemt`, `E/internal/bip`, `E/internal/impl/streambuf/bipbuf.h`) | two regions in one array | offer, peek, poll; sputn, sync, underflow | region switches in both directions | bytes come out once, in order |
| heap, `priority_queue` (`E/internal/algorithm/heap.h`, `E/internal/priority_queue.h`) | an array | push, pop, make, erase, emplace | index arithmetic of k-ary heaps | the top is the best, nothing is lost |
| legacy `layer1::deque` (`E/internal/queue/legacy.h`) | like a flagged ring | push, pop, emplace | never asks whether it is full | deque order |
| `shared_ptr` (`E/memory.h`) | a control block (count, `is_active`), handles | construct, copy, move, assign, reset, swap, destroy | layer1 masters and layer3 references share the count | deleted exactly once, after the last user |
| lists, `linked_ref` (`E/forward_list.h`, `E/list.h`, `E/internal/list_node.h`, `E/internal/list`, `E/internal/linked_ref.h`) | front, perhaps back; next/prev pointers inside elements | push, pop, insert, erase, replace, remove_if; attach, move, destroy | nodes that are put in again with old pointers, two ends and two directions to keep, destructors that unlink | a sequence; one circle; a value destroyed once |
| memory pools (`E/internal/memory`, `E/exp/memory`) | a free list in unused items | allocate, deallocate | pointers inside freed storage | an item is free or used, never both |
| dynamic arrays: strings and vectors (`E/internal/dynamic_array.h`, `E/internal/impl/dynamic_array.h`, `E/internal/runtime_array.h`) | a size (or a terminator) and a buffer, fixed or reallocated | append, insert, erase, assign, resize, reserve; find, rfind, find_first_of | two ways to have a length, overlapping moves, reallocation in the middle of a call, old bytes behind the end | a sequence; nothing written outside the buffer; searches see the content only |
| variant, optional, expected (`E/internal/variant`, `E/internal/optional.h`, `E/internal/expected.h`) | an index (or `has_value`) and storage | construct, copy, move, assign, emplace, reset | only the index knows what is in the storage; constructors that throw; types that cannot be copied or assigned | one live alternative, the one the index names |
| functional, locale, charconv, streams | parsing state | parse, format | partial input | value or error |
| port layer (FreeRTOS, std) | handles of the operating system | lock, notify, join | the OS | external |
| units, chrono, traits | none at run time | – | – | compile-time |
| retry tracker (`test/catch/test/retry.h`) | an `unordered_map` and a priority queue of pointers into it | track, incoming, poll_one, poll | pointers into a table that is erased from; a loop that refills the queue it drains | every message is acknowledged or retried, once; polls return |

**How they interact.** Containers are policies over storage: `queue` and the retry tracker call a
`circular_queue` or a `priority_queue` and an `unordered_map` directly, in the caller's thread, with no
callbacks apart from constructors and destructors of elements. Only `circular_queue` is meant for two
threads at once: producer and consumer share `front_`, `back_` and the caller's mutex policy. The
retry tracker keeps pointers into its map inside its queue, so it relies on erasure not moving elements.

## 2. Modules

| Module | Stands for | Kind |
|---|---|---|
| `OverwritingFifo` | what a rolling-over ring promises a producer and a consumer | abstract |
| `RingSpsc` | the `sentinel \| atomic` ring under a locking mutex policy, load by load and store by store | detailed, two processes |
| `RingLockFree` | the same ring with `no_rollover` and the no-op mutex | variant |
| `RingSpscProofs` | theorems about `RingSpsc` | proofs |
| `BoundedDeque` | what a ring promises one caller | abstract |
| `Ring` | every operation of the three kinds of ring, rolling over or rejecting, strict or not, trivial or not | detailed |
| `RingProofs` | theorems about `Ring` | proofs |
| `BoundedMap` | a dictionary whose insertions may fail | abstract |
| `UnorderedMap` | the open-addressed table, slot by slot, with the garbage-collection metadata | detailed |
| `UnorderedMapProofs` | theorems about `UnorderedMap` and `RetryTracker` | proofs |
| `SharedPtr` | masters, layer3 pointers, counts and the managed objects | detailed |
| `BipBuffer` | the bip buffer: the two regions of one array | detailed |
| `OutBipbuf` | `out_buffered_bipbuf`, over `BipBuffer` | composition |
| `BipBufferProofs` | theorems about `BipBuffer` and `OutBipbuf` | proofs |
| `PriorityBag` | what a priority queue promises | abstract |
| `Heap` | the k-ary heap under `priority_queue`, a turn of a loop at a time | detailed |
| `HeapProofs` | theorems about `Heap` | proofs |
| `RetryTracker` | the retry tracker, over `UnorderedMap` and a bag of pointers | composition |
| `BoundedSeq` | what a string or vector promises | abstract |
| `DynamicArray` | `dynamic_array`: four kinds of array, their calls and searches | detailed |
| `DynamicArrayProofs` | theorems about `DynamicArray` | proofs |
| `NodeSeq` | what a list promises | abstract |
| `LinkedList` | the singly and doubly linked lists, pointer by pointer | detailed |
| `LinkedRef` | `linked_ref`, over `LinkedList`'s pointers | composition |
| `PointerProofs` | theorems about `SharedPtr`, `LinkedList` and `LinkedRef` | proofs |
| `Holding` | what variants, optionals and expecteds promise | abstract |
| `Variant` | the three holders over their common storage | detailed |
| `VariantProofs` | theorems about `Variant` | proofs |
| `MCRingSpsc`, `MCRing`, `MCUnorderedMap`, `MCBipBuffer`, `MCRetryTracker` | TLC instances | model checking |

### RingSpsc

`front`, `back` and `array` are the fields; a slot is `Raw` or the number of the element in it.
`ppc` is the position of the producer in `push_back_op`, `cpc` that of the consumer in `empty()`,
`pop_front` or a look at `front()`. Each load and store of an atomic is a step, so `increment(&front_)`
is two (`RolloverIncrement`/`RolloverWrap`, `PopIncrement`/`PopWrap`): between them `front_` is
`array_.end()`. A destructor or a constructor occupies its slot from the step before it to the step
that ends it, which is what `NoDataRace` looks at. The atomics use the default, sequentially consistent
order. The caller of `pop_front` first asks `empty()`, as the code's assertion and the tests do, and
asks it outside the mutex, as `pop_front` itself does; a caller that keeps a reference from `front()`
holds the front mutex meanwhile, because a rollover destroys what it refers to.

With two slots (`max_size() = 1`) `Lifetimes` fails: a push that evicts the only element leaves the ring
empty until it publishes, under a consumer that has already been told the ring is not empty.
`RingAssumption` therefore asks for three.

### Ring

The template parameters are a variable `policy` that never changes, so one run covers every kind.
`array`, `front`, `back`, `empty` (flagged) and `size` (counter) are the fields. A full ring is
`PushBackRollover`/`PushFrontRollunder` or `PushReject`. For trivial elements destruction is a no-op
and the slot keeps its value. `CarefulSpec` leaves out `push_front` on a full rolling-over ring of
elements with destructors, because of finding 4.

### UnorderedMap

`container` is the array of slots, `<first, second>`. When `first` is null, `second` is read as metadata;
when it is not, as the mapped object, in the same bytes, and nothing clears them: `clear`, destructors
and `set_null` leave them as they are. A mapped object is therefore itself a metadata record in the
model, and any of them may be left over. `Bucket(n)` is what a local iterator steps over, `Found` what
`find_ll` returns. Insertion, in contrast, stops at the first empty slot (`CanInsert`), and that
difference is the source of findings 5 and 6. `CarefulSpec` is the protocol under which the map keeps its
promises: insert a key only when it is not found, never into a slot that is sparse for another bucket,
leave `erase_and_gc` and `gc_sparse_ll` alone; and the container has no more slots than the metadata's
field `bucket` counts (finding 7). The first condition is how `operator[]` and
`insert_or_assign` work; the others are conditions a caller cannot easily establish.

### SharedPtr

A `Block` is a master with its control block, `shared_count` and `active` the fields of that, `object` what
became of the object it manages; `ptr` is what each `layer3::shared_ptr` points to, `Null` when it owns
nothing, `Unborn` when there is none at that place. A call's effect is composed of `Decremented` and
`Deleted` (`eval_delete`) and `Incremented` (the constructor that copies). `AssignPointer` is `operator=`:
`reset()`, then the copy; the pointer to copy is read after the reset, so assigning a pointer to itself
copies a null pointer (`AssignRef`). That loses the reference, consistently: the invariants below hold all
the same. A master outlives the pointers to its control block (`DestroyMaster`), as the layers require;
another master may then be built in its place. `Spec` lets callers do anything else. `CarefulSpec` leaves
out copying a layer3 pointer whose master was reset, because of finding 8; moves and swaps of it remain.

### BipBuffer and OutBipbuf

`a_start`, `a_end`, `b_end` and `b_inuse` are the fields of `bipbuf_t`; `data` holds the bytes, each of which
is its number in the order of the offers. `Offer` is split by the region it writes to, `Poll` by what becomes
of region A: it keeps some bytes (`PollPart`), starts again at 0 (`PollLast`), or is replaced by region B
(`PollSwitch`). `bipbuf_poll` compares the length with the end of the array only; `CarefulSpec` adds what its
callers must know, that no more than region A is polled.

`OutBipbuf` puts the streambuf on top: `Sputn` is `xsputn`, `Sync(w)` is `sync()` with a sink that takes `w`
bytes, and `SyncToPut` and `Put` are the two halves of `overflow()`. `sync()` offers its sink `used()` bytes behind
the pointer that `bipbuf_peek` returns for that many, and asks neither whether they are contiguous nor whether the
pointer is NULL; `Handed` does the same, and `Peeked` is what the sink then reads, whatever is there. The sink takes
any `w` up to `used()`, and what it took is polled, unless `bipbuf_poll` refuses. When it takes none `sync()` returns
-1, which `overflow()` does not look at: `PutWithoutRoom` is the byte it writes then. `OutSpec` has all that, up to the
first byte written without room (`RoomWasChecked`), and `DeliveredInOrder` fails under it (findings 9 and 10).

`FlushingSpec` restricts the callers, not the sink of a `sync()`: they put nothing while the sink has a part of the
content yet to take (`partly`), but call `sync()` again; and the sink of an `overflow()` takes what there is. Whatever
part the sink takes, region B is then never reached, and the sink receives what was put, in order, with `used()`
counting the rest. This is the discipline the code needs and does not state. Since such callers never come to region
B, the run uses the buffer by itself as well, with the callers of `CarefulSpec`, who do: `MCBipBuffer` begins with
either (`streambuf`).

### Heap

`c` and `size` are the container; `loop`, `current` and `i` are the program counter and the locals of
`restore_up`, `restore_down` and `make`, one turn of a loop per step. `Init` is `make_heap` of whatever the
container holds. `Children` and `Parent` are the index arithmetic of `heap.h`, with indices from 0, and
`Chosen` is `max_element`: the first of the largest. `pop` exchanges the first element and the last before it
shortens the container, and `erase` lets the last element take the place of the one that goes and makes the
heap anew. A push to a full container is excluded: the container asserts there. `popped` is what `pop` took,
for the refinement of `PriorityBag`; there the bag is how often each priority is in the container, whether a
loop runs or not, since loops only exchange elements.

### RetryTracker

`RetryTracker` extends `UnorderedMap`: `container` is `tracked_`. `item` is what the mapped objects hold
(timestamp and acknowledgement), `queue` how often `queue_` holds the pointer to each slot, and `polling` the
argument of a `poll()` that has begun. The heap is taken at what `Heap` is shown to implement: `Top` is any
pointer of the least timestamp. `Track` is the map's `Insert` and one pointer more; `Incoming` marks what `find`
returns; `PollOne` is one call of `poll_one`, by itself or as a turn of the loop of `poll()`, and either removes
an acknowledged item from both (`Remove`, with the `erase_ll` and `gc_sparse_ll` that the code calls) or backs
it off and queues it again (`Retry`). Nothing restricts the callers here: the tracker collects garbage, so that
a bucket can be cut (finding 6) and a tracked key be missed by `incoming()` and tracked twice. The properties
are those that hold all the same, since polling follows pointers and not keys.

### DynamicArray

`buf` is the memory, with cells that are not the array's at the end (`Outside`, so that a write to one shows);
`capacity` is what is allocated, `m_size` the size of an array that keeps it. `kind` is what the type decides:
`terminated` (its length is `strlen`, set by writing a 0), `sized`, `growing` (reallocated by `reserve`), and
`wide` (sized, of elements of `Width` bytes). Every call is composed of `Ensured` (capacity), `Sized` and
`SizeAfter` (the length), `MovedUp`/`MovedDown` and `Written`, and `Ends`, in the order of the code: a call that
sets the length first and then asks for it, as appending an array to itself does, does so here. Memory that was
never written is any of `Fresh`. `call` records what was asked, for the refinement of `BoundedSeq`. The searches
are operators, compared in `SearchesAgree` with what they should find. `memcmp0` compares as many bytes as the
needle has elements (`Byte`, in the order of a little-endian machine), as `find` and `rfind` do, so that among wide
elements a prefix is enough; `SearchesAgree` therefore claims `rfind` for one-byte elements only, and `RfindFindsIt` is
what fails among wide ones (finding 3). The element 257 shares its first byte with the element 1 for that.
`CarefulSpec` keeps a terminated array below its capacity (finding 11) and erases wide elements at the end only;
`Spec` does not, and `EraseWide` is the code's `memmove` of too few bytes.

### LinkedList and LinkedRef

`next` and `prev` are in the nodes, which are their owner's: one that left a list may be put into it again, with
the pointers it has. Only `list_base` allocates its nodes, and they point nowhere then (`Allocated`). `kind` is the list's type: `forward` (`forward_list`, `intrusive_forward`), `tail`
(`forward_list_with_back`), `double` (`list_base`). `Path` is the iteration from a node, `content` that from the
front. `RemoveIf` runs the loop of the code (`Visited`, a node a turn) over the nodes for which the predicate is
true. `CarefulListNext` leaves out three things after which a list is not what it promises (findings 12 and 13): popping the
last node of a `tail` list and pushing again, pushing back a node whose `next` is stale, and removing two
neighbours in one call. `LinkedRef` uses the same pointers for references (`circle`): `Attach` inserts after,
`MoveLinked` replaces, `Destroy` erases or, if the reference points to itself, destroys the value. The careful callers
do not move the only reference (finding 14; `CarefulRefNext`). The two share one run and one `next`.

### Variant

`storage[h]` is an object with its alternative, `Raw`, or `Broken` once anything was done that has no meaning:
a destructor on no object, a constructor over one, a read of none. `index[h]` is `index_` or `has_value`. The
storage's own operations (`destroy`, `emplace`, `assign`, `assign_or_init`) are operators on it, and each call of
a holder uses them in the code's order, so that a call that destroys before it reads what it copies ends in
`Broken`. `type` says of each alternative whether it is assigned, only constructed, or only moved, and the guards
leave out what does not compile. A variant whose alternatives cannot all be copied has no copy constructor where the
compiler knows concepts (`E/internal/variant.h:176-183`), as the guard of `ConstructCopy` says; in earlier standards
it has one that constructs nothing and keeps the index, which is finding 15 for variants too. Assignment of a value
that the alternative is not convertible from (`E/internal/variant/storage.h:338-347, 400-411`) is left out: it aborts
or, with strict conversion off, sets the index and nothing else. `AssignThrows` and `EmplaceThrows` end where the
exception leaves them. `CarefulNext` leaves out what findings 15 to 17 are about: copying an optional or expected, or
moving an expected, whose alternative cannot be copied; assigning to itself a holder whose alternative cannot be
assigned; and constructors that throw after something was destroyed, but for variant's `emplace`.

## 3. Runs

| Run | Instance | Shows |
|---|---|---|
| `ring_spsc` | 4 slots, 9 pushes | types, lifetimes, no leak, no race, refinement of `OverwritingFifo`, and the two liveness properties |
| `ring_lock_free` (violation) | 4 slots, 9 pushes | `NothingLost` fails: a push between the two stores of an increment |
| `ring` | 3 slots, 2 values, 24 policies | lifetimes, agreement of size/iterators/index, refinement of `BoundedDeque` |
| `unordered_map` | 3 slots, 5 keys in 2 buckets, 2 mapped objects | `Findable`, `UniqueKeys`, `StableReferences`, refinement of `BoundedMap` |
| `shared_ptr` | 2 masters, 3 layer3 pointers | `LivesWhileOwned` and `UseCountExact` under careful callers |
| `bip_buffer` | 6 bytes, 14 offered, by itself or under the streambuf | types of the regions, `InOrder`, `EmptyIsWhole`, and `DeliveredInOrder` with any sink and flushing callers |
| `heap` | binary, 7 elements of 3 priorities | `HeapOrdered`, refinement of `PriorityBag`, every call returns |
| `retry_tracker` | 3 slots, 3 keys of which 2 collide, times 0 to 2, backoff 2 | `QueuedOnce`, `PollDrains`; `PollReturns` and `AckedLeaves` under fairness |
| `dynamic_array` | 4 cells fixed or up to 5, 2 elements (1 and 257), inputs of up to 2 | `StaysInside`, `SearchesAgree`, refinement of `BoundedSeq` under careful callers |
| `dynamic_array_erase` (violation) | the same, all callers | the refinement fails: an erase in the middle of wide elements |
| `lists` | 4 nodes in a list of each kind, or 4 references | `WellLinked`, refinement of `NodeSeq`, `GoesInACircle`, `LastDestroys` under careful callers |
| `variant` | 3 holders, 2 alternatives, 2 values | `HoldsWhatItSays` and the refinement of `Holding` under careful callers |

**Counterexamples.** The careful specifications say under which calls a component keeps its promises. That each
restriction is needed is shown by a configuration of its own, in which TLC finds the property violated without it:

| Configuration | Module, specification | Property violated | Finding |
|---|---|---|---|
| `DynamicArrayRfind.cfg` | `DynamicArray`, `CarefulSpec` | `RfindFindsIt` | 3 |
| `RingRollunder.cfg` | `MCRing`, `Spec` | `OccupiedSlots` | 4 |
| `MapTwice.cfg` | `MCUnorderedMap`, `PlainSpec` | `UniqueKeys` | 5 |
| `MapCut.cfg` | `MCUnorderedMap`, `Spec` | `Findable` | 6 |
| `MapField.cfg` (66 slots) | `MCUnorderedMap`, `CarefulSpec` | `Findable` | 7 |
| `SharedPtrCopied.cfg` | `SharedPtr`, `Spec` | `LivesWhileOwned` | 8 |
| `OutBipbufShort.cfg` | `OutBipbuf`, `OutSpec` | `DeliveredInOrder` | 9 |
| `OutBipbufFull.cfg` | `OutBipbuf`, `OutSpec` | `RoomWasChecked` | 10 |
| `DynamicArrayCapacity.cfg` | `DynamicArray`, `Spec` | `StaysInside` | 11 |
| `ListBack.cfg` | `LinkedRef`, `RefSpec` | `BackIsReached` | 12 |
| `ListRemoveIf.cfg` | `LinkedRef`, `RefSpec` | `RemovesAllMatching` | 13 |
| `LinkedRefMoved.cfg` | `LinkedRef`, `RefSpec` | `GoesInACircle` | 14 |
| `VariantThrows.cfg` | `Variant`, `Spec` | `HoldsWhatItSays` | 17 |

They have the bounds of the run of their module, but for `MapField.cfg`, which needs a slot beyond the 64th.

**Bounds.** Four slots make every position of `front_` and `back_` meet the wrap, and nine pushes send
both around the array twice, with a rollover at every position. `MaxPush` only bounds the history. Three
slots are enough for a sequential ring to be empty, partly full, full, and full across the wrap. Three
map slots with two buckets, at slots 0 and 1, give a bucket with two sparse slots before an element, one
bucket running into the other, and one running into the end of the container; five keys give four that
collide and one that does not. The mapped objects read as metadata include one that looks sparse for the
other bucket. Three pointers are a source, a target and a bystander, and two masters let an assignment
go from one to the other. The count has its 16 bits; the instance cannot reach the wrap, and the theorem
says how many owners are too many. Six bytes let both regions hold several bytes and switch in either
direction, and 14 bytes offered do so more than twice; `MaxBytes` only bounds the history. Seven elements are
three full levels of a binary heap, so that every loop turns twice, a node has one child or two, and three
priorities give ties, elements that stop half-way and elements that go all the way.

Three tracker slots hold a bucket of two that runs into the next one's; with a backoff of 2 a retried item can be
due or not due at the last time, be overtaken, and be polled again in the same `poll()`. `MaxTime` bounds the
timestamps of callers, not those of retries. Four cells are room for a move of two elements by two, both full and
not; a growing array of up to five reallocates up and down, with one element of padding. A needle of two is the
smallest that can straddle the end of the content. Four nodes give an inner stretch of two between two ends, and
a circle with one reference that joins, one that leaves and two that stay. Three holders are a source, a target
and a bystander.

**Fairness.** `RingSpsc`: both threads keep running (weak fairness on the steps of an operation that has
begun), the mutex does not starve a thread that keeps asking (strong fairness on `PushLock` and
`PopLock`; a `std::mutex` under a fair scheduler), and the consumer keeps polling (strong fairness on
`EmptyBegin`, since it may be looking at `front()` in between). Nothing makes the producer push.
`Drains` says that once the producer stays idle the ring becomes and stays empty; `PushReturns` that a push that
has begun returns although the consumer never stops. `Heap`: weak fairness on `Loop`, since a loop that has
begun goes on in its caller's thread; `CallsReturn` says that every one ends. `RetryTracker`: weak fairness on the
turns of the loop of a `poll()` that has begun, for the same reason, and strong fairness on `PollBegin(MaxTime)`:
the tracker exists to be polled again and again by a main loop whose time goes on, between other calls that may
come at any time. `PollReturns` says that a poll that drains and refills one queue ends; `AckedLeaves` that an
acknowledged item leaves the map. The other modules are sequential
libraries whose calls are single steps, and state no liveness: nothing obliges anyone to call them. Deadlock is
checked in every run but `lists`, where nothing is left to do once a list that keeps its back was emptied, or a `list_base`,
which removes none, has every node.

## 4. Proofs

`RingSpscProofs` proves, for every `N >= 3` and every `MaxPush`: `TypeOK`, `Lifetimes`, `SlotsAccounted`,
`NoDataRace`, and that every step refines `OverwritingFifo` (its safety part). The inductive invariant is
`IInv == TypeOK /\ LockInv /\ PushInv /\ PopInv /\ SlotsAccounted`. The properties alone are not
inductive: what makes them so is what each thread may rely on at each point. `LockInv` ties the mutex to
the program counters. `PushInv` says where `front_` is during a rollover and that the full check, once
passed, stays true up to the store of `back_` although the mutex was released. `PopInv` says that the
verdict of `empty()`, obtained without the mutex, stays true until the pop, because a rollover moves
`front_` only in a full ring, which has two elements or more. `SlotsAccounted` says which slots hold
objects. There is one lemma per group of actions.

`RingProofs` proves, for a ring of every size and of every kind and policy, that `CarefulSpec` keeps
`RingInv == TypeOK /\ PointersAgree /\ OccupiedSlots`, that `ViewsAgree` follows, and that every call is a call on
`BoundedDeque`. `PointersAgree` says that `back_` is `size()` places behind `front_`. It is a fact in the sentinel
ring, which computes its size so, but in the counter and the flagged ring it ties three fields together that each
call sets separately, and nothing else would keep a slot that `size()` counts inside `[front_ ... back_)`. The
division by N is taken away first (`NthIs` and what follows it); then `AtSize` says for each kind what it means to
hold k elements, `InvMeans` puts the invariant in those terms, and one lemma for each call says what the ring holds
after it.

`UnorderedMapProofs` proves, for every set of keys, every hash, depth and size with
`MaxSize <= BucketField`, that `CarefulSpec` keeps `IInv == TypeOK /\ Findable /\ UniqueKeys`. The
hypothesis is the width of the metadata's field `bucket`: at slot 64 and beyond the code stores a bucket
number that does not fit, and an erased element cuts its bucket. The argument for erasure is that marking
keeps the slot in its bucket, and that pruning removes only a tail behind which the bucket has no
element; for insertion, that the slot taken was empty and belonged to no other bucket. From the invariant follow
`StableReferences` and the refinement of `BoundedMap`: `entries` is what `find` finds, and since nothing is lost and
nothing is there twice, that is what the slots hold (`EntriesAre`). `NewKeyMeans`, `EraseMeans` and `GcMeans` say
slot by slot what the calls that move or remove a key leave.

The same module proves, for any map, hash and times, that `TrackerSpec` (all callers) keeps
`TrackerInv == TrackerTypeOK /\ QueuedOnce`, and `PollDrains` from it. Each step changes the map and the queue at
the same slot; a slot that is collected stays empty whatever its metadata says, so the argument needs nothing of
the map's buckets. `PollDrains` needs that a queue that is not empty has a top: a set of natural numbers has a
least element (`Least`, by well-foundedness), so an item that is due makes some top due, and the loop goes on.

`PointerProofs` proves three theorems about `CarefulRefSpec`, for any finite set of nodes, and three about
`SharedPtr`.

- `ListsWellLinked`. An iterator is a recursion over pointers, and that it ends cannot be shown by an induction
  over the state's data. A list is therefore looked at as a `Chain`: a set of nodes that no pointer leaves, with
  a rank that goes up along every pointer. Ranks below the number of nodes can go up only so often, so a chain
  ends (`ChainEnds`). `Fold` and `Unfold` go from `WellLinked` to a chain and back, and there is one lemma for
  each call that gives the chain afterwards, mostly the one before with a rank pushed in. `remove_if` has a loop
  invariant (`TurnKeeps`): in every turn the pointers still go upwards, and the loop is above the node it saw
  last. What is inductive is `ListInv`, which adds the types, what the ends of an empty list are, and that there
  is no list where there are references.
- `RoundTheCircle` and `LastOneDestroys`. `RefInv` adds to `ListInv` that there is some order in which each
  linked reference points to the one after it and the last one to the first (`GoesRound`). Such an order can be
  begun at any reference (`Rotated`), and then `before_begin()` finds the one in front (`Predecessor`). Attaching
  inserts into the order, moving renames in it, destroying takes out of it.
- `DeletedOnce`, `CountsOwners` and `TypeCorrect`: `CarefulSpec` of `SharedPtr` keeps
  `IInv == TypeOK /\ LivesWhileOwned /\ UseCountExact`, for any number of masters and any finite number of layer3
  pointers. The two properties need each other: an exact count is what makes the decrement that reaches 0 the
  last owner's, and deletion at that moment is what keeps the object and the owners in step. The assumption is
  that the owners fit the count, `Cardinality(Handle) + 1 < CountMod`. The counting rests on `RefsChange`: one
  pointer changed changes the number of references by one at most.

`BipBufferProofs` proves, for every `Size` and every `MaxBytes`, that `CarefulSpec` keeps
`IInv == TypeOK /\ InOrder /\ RegionsInv`, and `EmptyIsWhole` from it. `RegionsInv` is what `InOrder` does not
say: region B holds bytes only when it is in use, is in use only behind a region A that is not empty, and an
empty region A is at 0. Without it a poll could leave bytes in B that no later poll reaches, or an offer
could write into the wrong region. There is one lemma for offers and one for polls. `StreambufIsCareful` shows that
under `FlushingSpec`, with a sink that takes any part of what `sync()` offers it, the streambuf never polls past region
A, although `sync()` does not ask; and `DeliveryInOrder` that the sink receives the bytes in order. `OutIInv` is why:
region B stays empty, because region A is at the beginning of the array whenever a byte is put, so that what is
offered to the sink is region A (`AllIsShown`), and as many bytes are polled as were delivered (`HandOver`, `PutIn`).

`HeapProofs` proves, for every `K >= 1`, every capacity and every set of priorities, that `Spec` keeps
`TypeOK` and `HeapOrdered`, and refines `PriorityBag`. While a loop runs the heap is out of order somewhere: `UpInv`
and `DownInv` say that this is only at `current`, that the parent of `current` is no worse than the children of
`current`, and, for `make`, only behind `i`. The arithmetic is in three lemmas on `Parent` and `Children` (a parent is
below its child, `Parent` is monotone, `j` is a child of `n` just when `n` is the parent of `j`), which is where a
division by a parameter would otherwise defeat the provers. For the refinement, `TopIsBest` looks at the least index
at which something better than the top could be: its parent would be better, too. A bag is a count of
`Occurrences`, a finite set of positions that an exchange renames and a write or a shortening changes by one.

`DynamicArrayProofs` proves, for every buffer, growth, element set and input, that `CarefulSpec` keeps
`IInv == TypeOK /\ StaysInside /\ (a fixed buffer has N cells)` and that every call refines `BoundedSeq`. The
first part is one lemma per operation on buffers (each leaves `Outside` where it was); `Strlen` and `SizeType` say
that a terminator inside the buffer is what makes the length of a terminated array mean anything. The second goes
through `SpliceStep` and `CallStep`: a call is right if the buffer afterwards holds, cell by cell, the elements
before `at`, those of the call and those behind, and, in a terminated array, a 0 behind these and nowhere before.
Each call then has one lemma that establishes this, which is where the overlap of `MovedUp` and `MovedDown` and the
terminator that is moved along are accounted for. `Searches` proves `SearchesAgree`, of one-byte elements where
`rfind` is concerned: comparing bytes is then comparing elements, and comparing cells is comparing
contents wherever the needle fits (`ComparingCells`), `StartFits` says that `rfind` starts where it does, and
`TerminatorStops` that in a terminated array nothing is found that reaches behind the end.

`VariantProofs` proves, for any holders and values, that `CarefulSpec` keeps `IInv` (types and `HoldsWhatItSays`)
and refines `Holding`. `Fits` is the invariant of one holder and `StorageOps` what the storage's operations make
of a storage that fits; `SetStep`, `CopyStep` and `MoveStep` are the three shapes of a call, and every call is
shown to have one of them. It assumes only that objects are neither `Raw`, `Broken` nor `Nothing`.

Every invariant a passing run checks is thereby proved for every value of the constants, and so is every
refinement but one. **Only model-checked:** liveness (`Drains`, `PushReturns`, `CallsReturn`, `PollReturns` and
`AckedLeaves`), which is out of the prover's reach; and `ImplementsSeq` of the lists, the refinement of `NodeSeq`,
which filters the sequence of the nodes that stay: what filtering leaves is an induction over sequences.

## 5. Findings

Two are shown by runs:

1. `no_rollover | atomic` without a mutex is not lock-free-safe: `increment(&front_)` stores
   `array_.end()` first (`E/internal/queue/circular/base.h:94-100`), and a push in between sees room in a
   full ring. Afterwards `front_ == back_` and the whole content is gone. (`ring_lock_free`)
2. `_erase` moves as many bytes as it should move elements (`E/internal/dynamic_array.h:507`), so that a vector
   of ints holding 1, 2, 3, 4 holds 1, 3, 3 after `erase(begin() + 1)`. (`dynamic_array_erase`)

The others are why the careful specifications leave calls out, or why a property claims less. Those with a
configuration are what TLC finds with it; 15 and 16 are other violations of `HoldsWhatItSays` under `Variant!Spec`:

3. `find` and `rfind` compare as many bytes as they should compare elements (`E/internal/runtime_array.h:400, 449`):
   among the ints 0x100, 0x200 `rfind` of 0x100 from the end finds position 1, though `:415-418` documents `s` as the
   sequence to find, of `count` elements. `DynamicArrayRfind.cfg`.
4. `rollunder` destroys the front element (flagged, counter) or the free slot (sentinel), never the
   evicted one (`E/internal/queue/circular.h:146-150`), where `rollover` bumps `front_` first so that one has "less
   opportunity to see destructed back" (`:140`). `RingRollunder.cfg`.
5. `insert_precheck` does not look past a sparse slot, so a key behind one is inserted again
   (`E/internal/container/unordered/base.h:235-257`), against `:218`, "duplicate found, and here it is". `MapTwice.cfg`.
6. `erase_and_gc`, `gc_sparse_ll`, and an insertion into a slot that is sparse for another bucket, make
   other elements unfindable (`E/internal/container/unordered/base.h:472-494`); a null key indexes to bucket 0, so that
   `erase_and_gc` there may swap an empty slot into the hole. `MapCut.cfg`. The retry tracker calls `gc_sparse_ll`, and
   is exposed to it.
7. The field `bucket`, "which bucket this empty slot *used to* belong to"
   (`E/internal/container/unordered/traits.h:92-96`), has 6 bits, and nothing bounds the container by it: what is erased
   from slot 64 on marks its slot for another bucket, and cuts its own. `MapField.cfg`.
8. A layer3 pointer copied after its master was reset is not counted, because `is_active` is the master's
   own state (`E/memory.h:310-317`); the deleter runs while the copy is alive. `SharedPtrCopied.cfg`.
9. `sync()` of `out_buffered_bipbuf` offers the sink `used()` bytes, which counts both regions, behind a pointer to
   region A (`E/internal/impl/streambuf/bipbuf.h:53-62`). When the sink took a part and more was put before the next
   `sync()`, it receives old bytes instead of those of region B, or is handed the NULL that `bipbuf_peek` returns "if we
   can't peek at this much data" (`E/ext/willemt/bipbuffer/bipbuffer.h:50`). `OutBipbufShort.cfg`.
10. `overflow()` ignores what `sync()` returns, and writes its byte behind the full buffer when the sink took nothing
    (`E/internal/impl/streambuf/bipbuf.h:99-103`), though "a manual check for 'size' is required"
    (`E/internal/bip/buffer.h:52`). `OutBipbufFull.cfg`.
11. A terminated array filled to its capacity writes its terminator behind the buffer: `ensure_total_capacity`
    (`E/internal/dynamic_array.h:138`) and `capacity()` count none, though `max_size()` does
    (`E/internal/impl/dynamic_array.h:273`). `DynamicArrayCapacity.cfg`.
12. `forward_list_with_back` inherits a `pop_front` that leaves `m_back` on the node it popped last, so that what is
    pushed back is linked to a node outside the list, and its `push_back` takes a node's old `next` along
    (`E/internal/list_node.h:362-411`). `ListBack.cfg`.
13. `remove_if` leaves the second of two neighbours that match (`E/forward_list.h:227`). `ListRemoveIf.cfg`.
14. Moving the only `linked_ref` to a value leaves the new one pointing to the old (`E/internal/linked_ref.h:96`): it is
    in no circle, and its destructor does not find its way. `LinkedRefMoved.cfg`.
15. Copying or moving an `expected` whose value is move-only constructs nothing, and says there is a value
    (`E/internal/expected.h:108`, `E/expected.h:168`). `HoldsWhatItSays`.
16. Assigning to itself a holder whose alternative cannot be assigned reads the object it has just destroyed
    (`E/internal/variant.h:86-88`, `E/internal/variant/storage.h:386`). `HoldsWhatItSays`.
17. A constructor that throws in `optional::emplace`, `expected::emplace` or an assignment that changes the
    alternative leaves the index set over a destroyed object (`E/optional.h:219`, `E/expected.h:239`,
    `E/internal/variant/storage.h:473`). `VariantThrows.cfg`.

Smaller ones, which the models leave out or follow as they are: `find(s, pos)` returns an index relative to `pos`, and in a sized array its
`memcmp` may match bytes behind the end (`E/internal/runtime_array.h:384-410`), which is why `SearchesAgree` asks it of
terminated arrays from 0 only; `resize` to more leaves a terminated array as long as it was; `clear` and `erase` run
no destructors; `expected`'s `operator==` groups its conditional otherwise than it reads (`E/expected.h:318-320`);
FreeRTOS `try_lock_until` passes a duration that is negative once the time is past.

Findings 1, 2, 4, 5, 6 and 8 were also reproduced by running the code; the rest are counterexamples of TLC, read against the
source.

## 6. Not modelled

Listed in `PROJECT.json` with a reason each. Most lines of the repository are not a program that runs: of the
files under `E/` the larger part is evaluated by the compiler (traits, tuples, units, variadic machinery, policies,
limits), forwards to another header, exists for one platform, or is there twice or three times as generations of
the same idea (`exp/`, `v1/`, `v2/`, `legacy`). The models cover what is left that keeps state across calls, which
is why the share of all lines that they map is small and stays small. In particular:

- **Handles and allocators.** A handle-based allocator locks a handle to get a pointer; every allocator in use but
  `exp/`'s virtual memory returns the pointer it holds, so `DynamicArray` has none.
- **Copies of a ring** (their pointers point into the source) and **iteration over a map** (it changes nothing).
- **Memory pools.** `E/internal/memory/v1/pool.h`, `E/internal/memory/pool.h` and `E/exp/memory/memory_pool.h` are
  unfinished generations, without callers in the library.
- **functional, observer.** Storage for a callable that the caller supplies, and calls made in turn.
- **locale, charconv, streams.** Parsing and formatting, one call at a time; `num_get`'s partial state is the
  one candidate.
- **Port layer.** Wrappers with one operating-system call each. The constructor of the FreeRTOS `thread` does not
  compile, so that there is no thread whose life could be followed.
- **units, chrono, traits, tuples, type lists.** No run-time state.

## 7. Plan

Done: the ring (both views), the map, `SharedPtr`, `Heap`, `BipBuffer` with its output streambuf, `RetryTracker`,
`DynamicArray`, the lists with `linked_ref`, and `Variant`. What would come next:

1. `RingCounted`: the concurrent counter and flagged rings, and `clear()` as a third actor, in the run of `RingSpsc`.
2. Proofs: the lists' refinement of `NodeSeq`, if it can be stated without filtering sequences; that the ring of
   two threads holds what `Ring` holds when neither thread is in an operation.
3. The input side of the bip buffer's streambuf, and the free list of the memory pool once one generation of it
   is in use.
4. `unordered_set`, as `UnorderedMap` without mapped objects.
