--------------------------- MODULE MCRedisDelivery ---------------------------
(* Instances of RedisDelivery for TLC: new requests, bodies and calls of one *)
(* kind are interchangeable.                                                *)
EXTENDS RedisDelivery, TLC

Symmetry == Permutations(Requests \ Backlog) \union Permutations(Bodies)
              \union Permutations(Singles) \union Permutations(Batches)
=============================================================================
