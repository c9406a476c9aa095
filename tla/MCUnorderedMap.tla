--------------------------- MODULE MCUnorderedMap ---------------------------
(***************************************************************************)
(* TLC instance of UnorderedMap: three slots with a bucket at slot 0 and   *)
(* one at slot 1, so that the buckets run into each other and into the end *)
(* of the container (the tests use ten slots and buckets four apart).      *)
(* hash is the identity, as it is for integer keys: four keys begin at     *)
(* slot 0, one at slot 1.  The mapped objects, read as metadata, are a     *)
(* null slot and a sparse one of bucket 1.                                 *)
(***************************************************************************)
EXTENDS UnorderedMap

MCKey  == {3, 6, 9, 12, 2}
MCNull == 0
MCHash == [k \in MCKey \cup {MCNull} |-> k]

MCMapped == {[marked_for_gc |-> FALSE, bucket |-> 0],
             [marked_for_gc |-> TRUE, bucket |-> 1]}

\* A container with more slots than the field `bucket` counts: two keys that
\* begin at slot 64 of 66, in storage that is zero.
FarKey    == {64, 130}
FarHash   == [k \in FarKey \cup {MCNull} |-> k]
FarMapped == {[marked_for_gc |-> FALSE, bucket |-> 0]}
=============================================================================
