------------------------- MODULE MCDeliveryPipeline -------------------------
(* Instances of DeliveryPipeline for TLC.  Requests, replay calls and       *)
(* bodies are interchangeable; ids of one kind are, too.                    *)
EXTENDS DeliveryPipeline, TLC

Symmetry == Permutations(Requests) \union Permutations(Bodies)
              \union Permutations(Singles) \union Permutations(Batches)
=============================================================================
