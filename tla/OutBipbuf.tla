----------------------------- MODULE OutBipbuf -----------------------------
(***************************************************************************)
(* out_buffered_bipbuf: a streambuf that keeps what is put into it in a    *)
(* bip buffer, until sync() hands it to the streambuf it wraps, the sink.  *)
(* sync() offers the sink all used() bytes of both regions, behind a       *)
(* pointer to region A, or NULL, and asks for neither.  The sink takes as  *)
(* many of them as it likes.                                               *)
(***************************************************************************)
EXTENDS BipBuffer, Sequences

VARIABLES
    delivered,   \* what the sink was handed and took, byte by byte
    partly,      \* the sink took only a part of what it was offered last
    putting      \* overflow() has called sync(), and has yet to put its byte

outVars == <<vars, delivered, partly, putting>>

OutInit == Init /\ delivered = <<>> /\ partly = FALSE /\ putting = FALSE

-----------------------------------------------------------------------------
\* What a reader of w bytes finds when it peeked at the whole content:
\* bipbuf_peek gives the beginning of region A, or NULL, behind which is 0.
Peeked(w) ==
    [i \in 1..w |-> IF Available(Used) THEN data[a_start + i - 1] ELSE 0]

\* Mutant: what the sink took stays in the buffer.
HandedKept(w) ==
    /\ w <= Used
    /\ delivered' = delivered \o Peeked(w)
    /\ partly' = (w < Used)
    /\ UNCHANGED vars

\* sync(): the sink takes w bytes, and these are polled, unless bipbuf_poll
\* refuses that many.  When it takes none, nothing is.
Handed(w) ==
    /\ w <= Used
    /\ delivered' = delivered \o Peeked(w)
    /\ partly' = (w < Used)
    /\ IF w > 0 /\ Available(w) THEN Poll(w) ELSE UNCHANGED vars

Sync(w) == ~putting /\ Handed(w) /\ UNCHANGED putting

\* xsputn, trimmed to the room there is
Sputn(n) ==
    /\ ~putting
    /\ Offer(n)
    /\ UNCHANGED <<delivered, partly, putting>>

\* overflow() of a full buffer calls sync(), and does not look at its result.
SyncToPut(w) ==
    /\ ~putting /\ Unused = 0 /\ offered < MaxBytes
    /\ Handed(w)
    /\ putting' = TRUE

\* overflow(): the byte itself
Put ==
    /\ putting \/ Unused > 0
    /\ Offer(1)
    /\ putting' = FALSE
    /\ UNCHANGED <<delivered, partly>>

\* overflow(): the byte, where sync() made no room for it
PutWithoutRoom ==
    /\ putting /\ Unused = 0
    /\ Write(IF b_inuse THEN b_end ELSE a_end, 1)
    /\ IF b_inuse THEN b_end' = b_end + 1 /\ UNCHANGED a_end
                  ELSE a_end' = a_end + 1 /\ UNCHANGED b_end
    /\ putting' = FALSE
    /\ UNCHANGED <<a_start, b_inuse, polled, delivered, partly>>

-----------------------------------------------------------------------------
\* offer_begin() is followed by room for what offer_end() adds: "a manual
\* check for 'size' is required" of the streambuf (bip/buffer.h).
RoomWasChecked == a_end <= Size /\ b_end <= a_start

\* Any sink; what comes after a byte without room has no meaning.
OutNext ==
    /\ RoomWasChecked
    /\ \/ Put \/ PutWithoutRoom
       \/ \E n \in 0..Size : Sputn(n) \/ Sync(n) \/ SyncToPut(n)

OutSpec == OutInit /\ [][OutNext]_outVars

\* Callers that put nothing while the sink has a part of the content yet to
\* take, but sync() again, with a sink that an overflow() always finds ready.
FlushingNext ==
    \/ ~partly /\ (Put \/ SyncToPut(Used) \/ \E n \in 0..Size : Sputn(n))
    \/ \E w \in 1..Size : Sync(w)

FlushingSpec == OutInit /\ [][FlushingNext]_outVars

-----------------------------------------------------------------------------
\* The sink receives the bytes that were put, in the order in which they were
\* put, and the buffer counts as used() those that it has not received: what
\* sync() hands over is what was put, and what was taken is gone.
DeliveredInOrder ==
    /\ \A i \in DOMAIN delivered : delivered[i] = i
    /\ Len(delivered) + Used = offered

\* With the buffer's own, the inductive invariant: as many were polled as were
\* delivered, and region B is not reached, because region A is at the
\* beginning of the array whenever a byte is put.
OutIInv ==
    /\ IInv
    /\ delivered \in Seq(Nat) /\ Len(delivered) = polled
    /\ DeliveredInOrder
    /\ b_end = 0
    /\ ~partly => a_start = 0
    /\ partly \in BOOLEAN
=============================================================================
