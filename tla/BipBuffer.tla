----------------------------- MODULE BipBuffer -----------------------------
(***************************************************************************)
(* The bip buffer: a queue of bytes in two regions of one array, so that   *)
(* what is offered and what is polled is always contiguous.  Region A is   *)
(* data[a_start .. a_end - 1]; region B, once it is in use, is             *)
(* data[0 .. b_end - 1] and comes after A.  Bytes are numbered in the      *)
(* order in which they are offered.                                        *)
(***************************************************************************)
EXTENDS Integers

CONSTANTS
    Size,      \* the bytes of the array
    MaxBytes   \* bound: the bytes that are offered in all

ASSUME BipAssumption == Size \in Nat \ {0} /\ MaxBytes \in Nat

VARIABLES
    data,      \* what each place of the array holds; 0 at first
    a_start, a_end, b_end, b_inuse,
    offered,   \* how many bytes were offered so far
    polled     \* how many of these were polled

vars == <<data, a_start, a_end, b_end, b_inuse, offered, polled>>

Init ==
    /\ data = [i \in 0..Size-1 |-> 0]
    /\ a_start = 0 /\ a_end = 0 /\ b_end = 0
    /\ b_inuse = FALSE
    /\ offered = 0 /\ polled = 0

-----------------------------------------------------------------------------
\* Mutant: region B may grow over region A.
UnusedPastA == Size - (IF b_inuse THEN b_end ELSE a_end)

\* bipbuf_unused, bipbuf_used and bipbuf_is_empty
Unused == IF b_inuse THEN a_start - b_end ELSE Size - a_end

Used == (a_end - a_start) + b_end

IsEmpty == a_start = a_end

\* What bipbuf_peek and bipbuf_poll ask before they hand out n bytes.
Available(n) == ~IsEmpty /\ a_start + n <= Size

\* The n bytes that are offered next are written at the place p.
Write(p, n) ==
    /\ data' = [i \in 0..Size-1 |->
                   IF i \in p..p+n-1 THEN offered + 1 + (i - p) ELSE data[i]]
    /\ offered' = offered + n

\* Is there less room behind region A than between B and A?
SwitchToB(start, end, bEnd) == Size - end < start - bEnd

-----------------------------------------------------------------------------
(* bipbuf_offer, and offer_begin ... offer_end by callers that ask for the *)
(* room first.  An offer that does not fit changes nothing.                *)

OfferA(n) ==
    /\ n <= Unused /\ offered + n <= MaxBytes
    /\ ~b_inuse
    /\ Write(a_end, n)
    /\ a_end' = a_end + n
    /\ b_inuse' = SwitchToB(a_start, a_end + n, b_end)
    /\ UNCHANGED <<a_start, b_end, polled>>

\* Mutant: region B is written to, but not extended.
OfferBInPlace(n) ==
    /\ n <= Unused /\ offered + n <= MaxBytes
    /\ b_inuse
    /\ Write(b_end, n)
    /\ UNCHANGED <<a_start, a_end, b_end, b_inuse, polled>>

OfferB(n) ==
    /\ n <= Unused /\ offered + n <= MaxBytes
    /\ b_inuse
    /\ Write(b_end, n)
    /\ b_end' = b_end + n
    /\ UNCHANGED <<a_start, a_end, b_inuse, polled>>

(* bipbuf_poll                                                             *)

\* Region A does not become empty, or its end is passed unseen.
PollPart(n) ==
    /\ Available(n) /\ a_start + n # a_end
    /\ a_start' = a_start + n
    /\ polled' = polled + n
    /\ b_inuse' = (b_inuse \/ SwitchToB(a_start + n, a_end, b_end))
    /\ UNCHANGED <<data, a_end, b_end, offered>>

\* Mutant: an empty region A stays where it is.
PollLastInPlace(n) ==
    /\ Available(n) /\ a_start + n = a_end
    /\ ~b_inuse
    /\ a_start' = a_end
    /\ polled' = polled + n
    /\ b_inuse' = SwitchToB(a_end, a_end, b_end)
    /\ UNCHANGED <<data, a_end, b_end, offered>>

\* Region A is empty, and starts again at the beginning.
PollLast(n) ==
    /\ Available(n) /\ a_start + n = a_end
    /\ ~b_inuse
    /\ a_start' = 0 /\ a_end' = 0
    /\ polled' = polled + n
    /\ b_inuse' = SwitchToB(0, 0, b_end)
    /\ UNCHANGED <<data, b_end, offered>>

\* Region A is empty, and region B becomes region A.
PollSwitch(n) ==
    /\ Available(n) /\ a_start + n = a_end
    /\ b_inuse
    /\ a_start' = 0 /\ a_end' = b_end /\ b_end' = 0
    /\ polled' = polled + n
    /\ b_inuse' = SwitchToB(0, b_end, 0)
    /\ UNCHANGED <<data, offered>>

Offer(n) == OfferA(n) \/ OfferB(n)

Poll(n) == PollPart(n) \/ PollLast(n) \/ PollSwitch(n)

-----------------------------------------------------------------------------
\* Callers that poll no more than region A holds.  bipbuf_poll asks only for
\* the end of the array, so Poll lets them go past the end of the region.
CarefulNext == \E n \in 0..Size : Offer(n) \/ (n <= a_end - a_start /\ Poll(n))

CarefulSpec == Init /\ [][CarefulNext]_vars

-----------------------------------------------------------------------------
(* Properties.                                                             *)

\* The regions are in the array, and B ends before A starts.
TypeOK ==
    /\ data \in [0..Size-1 -> 0..MaxBytes]
    /\ a_start \in 0..Size /\ a_end \in a_start..Size /\ b_end \in 0..a_start
    /\ b_inuse \in BOOLEAN
    /\ offered \in 0..MaxBytes /\ polled \in 0..offered

\* Region A and then region B hold the bytes that were offered and not yet
\* polled, all of them, in order: an offer overwrites none, a switch of the
\* regions loses and repeats none.
InOrder ==
    /\ Used = offered - polled
    /\ \A i \in a_start..a_end-1 : data[i] = polled + 1 + (i - a_start)
    /\ \A i \in 0..b_end-1 : data[i] = polled + 1 + (a_end - a_start) + i

\* When everything was polled, an offer of the whole Size is accepted, and
\* is_empty() says so exactly then, though it looks at region A only.
EmptyIsWhole == IsEmpty <=> Used = 0 /\ Unused = Size

\* The inductive invariant.  Region B is in use only behind a region A that
\* is not empty, and region A never becomes empty elsewhere than at 0.
RegionsInv ==
    /\ b_end > 0 => b_inuse
    /\ b_inuse => a_start < a_end
    /\ a_start = a_end => a_end = 0

IInv == TypeOK /\ InOrder /\ RegionsInv
=============================================================================
