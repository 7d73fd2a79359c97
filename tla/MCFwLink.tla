------------------------------ MODULE MCFwLink ------------------------------
(* FwLink with chunks of two units: one image of a full and a short chunk, *)
(* and one that fills its only chunk.                                      *)
EXTENDS FwLink, TLC

CONSTANTS longer, shorter

const_Images == {longer, shorter}
const_Size == (longer :> 3) @@ (shorter :> 2)
=============================================================================
