---------------------------- MODULE MCPowerDevice ----------------------------
(* PowerDevice with bytes of three bits. *)
EXTENDS PowerDevice

const_Bits == 0 .. 2
=============================================================================
