---------------------------- MODULE MCComposite -----------------------------
(***************************************************************************)
(* Databases of which the first calls back twice, one task that is         *)
(* disabled at its second pass and one that is retried for ever.           *)
(***************************************************************************)
EXTENDS CompositeAdapter, TLC

CONSTANTS a, b

MCCount == a :> 2 @@ b :> 0
=============================================================================
