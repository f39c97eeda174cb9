--------------------------- MODULE MCObjectStore ---------------------------
(* Instances of ObjectStore for TLC. *)
EXTENDS ObjectStore

Warm(d) == [class |-> "warm", restore |-> "none", day |-> d]
Cold(d) == [class |-> "cold", restore |-> "none", day |-> d]

\* Old and new, warm and cold objects: full and partial batches, and keys that
\* are missing.
MixedStores == { <<Cold(0), Warm(0), Cold(1)>>, <<Warm(1), Cold(0), Gone>> }

=============================================================================
