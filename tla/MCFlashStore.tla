---------------------------- MODULE MCFlashStore ----------------------------
(* FlashStore on a sector of a few pages and bytes of three bits: bits 0 and *)
(* 1 tell the settings values apart, bit 2 stands for the six upper bits.    *)
EXTENDS FlashStore

const_Bits == 0 .. 2
=============================================================================
