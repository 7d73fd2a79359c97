----------------------------- MODULE MCMainLoop -----------------------------
(* MainLoop; the constants are given in the configuration. *)
EXTENDS MainLoop
=============================================================================
