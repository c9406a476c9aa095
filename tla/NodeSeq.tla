------------------------------ MODULE NodeSeq ------------------------------
(***************************************************************************)
(* What a list promises: a sequence of nodes.  A call takes some of them   *)
(* out, all or the first of those it is told of, then puts one in.         *)
(***************************************************************************)
EXTENDS Sequences, SequencesExt

CONSTANT Eol

VARIABLES
    items,  \* the nodes, in order
    call    \* what the last call asked for

vars == <<items, call>>

\* The sequence s without what the call c takes out.
Without(s, c) ==
    IF c.first /\ \E i \in DOMAIN s : s[i] \in c.gone
    THEN RemoveAt(s, SelectInSeq(s, LAMBDA n : n \in c.gone))
    ELSE SelectSeq(s, LAMBDA n : n \notin c.gone)

With(s, c) == IF c.node = Eol THEN s ELSE InsertAt(s, c.at + 1, c.node)

Init == items = <<>>

Next == items' = With(Without(items, call'), call')

Spec == Init /\ [][Next]_vars
=============================================================================
