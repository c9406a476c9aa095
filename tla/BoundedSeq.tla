----------------------------- MODULE BoundedSeq -----------------------------
(***************************************************************************)
(* What a string or vector promises: a sequence, in which a call replaces  *)
(* a stretch of elements by others and leaves the rest, in order.          *)
(***************************************************************************)
EXTENDS Integers, Sequences

VARIABLES
    content,  \* the elements
    call      \* what the last call replaced: `count` elements at `at` by `text`

vars == <<content, call>>

Spliced(c) ==
    SubSeq(content, 1, c.at) \o c.text \o SubSeq(content, c.at + c.count + 1, Len(content))

Init == content = <<>>

Next ==
    /\ call'.at + call'.count <= Len(content)
    /\ content' = Spliced(call')

Spec == Init /\ [][Next]_vars
=============================================================================
