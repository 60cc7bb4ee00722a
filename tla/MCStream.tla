------------------------------ MODULE MCStream -------------------------------
(***************************************************************************)
(* Constants for checking Stream with TLC: see MCStream.cfg.               *)
(***************************************************************************)
EXTENDS Stream
=============================================================================
