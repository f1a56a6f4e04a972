------------------------- MODULE MCPrivacyDeletion -------------------------
(* Two installations of one app; a deletion of the first, a deletion of the *)
(* app.  A configuration picks the batches and the deletions it explores.   *)
EXTENDS PrivacyDeletion

CONSTANTS b1, b2, i1, i2, d1, d2

MCFrom   == [b \in Batch |-> IF b = b1 THEN i1 ELSE i2]
MCTarget == [d \in Deletion |-> IF d = d1 THEN i1 ELSE WholeApp]
=============================================================================
