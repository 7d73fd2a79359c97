---------------------------- MODULE MCDirectFlash ----------------------------
(* Four pages of two bytes in two sectors, bytes of one bit.  Writes of up to *)
(* four bytes cross a partial page, a whole page and another partial page.    *)
EXTENDS DirectFlash

const_Bits == {0}
=============================================================================
