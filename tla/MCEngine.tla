------------------------------ MODULE MCEngine ------------------------------
(* The engine on small instances: channels of capacity one, so that a         *)
(* generation of two tokens already blocks somebody.                          *)
EXTENDS Engine
=============================================================================
