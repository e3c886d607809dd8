--------------------------- MODULE MCAddressStore ---------------------------
(***************************************************************************)
(* AddressStore with two buckets and two of the three keys in one of them; *)
(* the objects are interchangeable.                                        *)
(***************************************************************************)
EXTENDS AddressStore

MCPort == [k \in Keys |-> 1]
MCBucketOf == [k \in Keys |-> k % BucketCount]
Symmetry == Permutations(Objs)
=============================================================================
