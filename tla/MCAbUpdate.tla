----------------------------- MODULE MCAbUpdate -----------------------------
(* AbUpdate on small flash: the factory image, a healthy update and one that *)
(* hangs.  The factory image fills the partition, the others may be shorter. *)
EXTENDS AbUpdate, TLC

CONSTANTS factory, better, broken

const_Images == {factory, better, broken}
const_Healthy == {factory, better}
const_Size == (factory :> N) @@ (better :> IF N > 1 THEN N - 1 ELSE N) @@ (broken :> 1)
=============================================================================
