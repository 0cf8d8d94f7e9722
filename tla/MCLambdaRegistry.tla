-------------------------- MODULE MCLambdaRegistry --------------------------
(***************************************************************************)
(* Three slots and sign bit 2, so that the counter reaches its limit and   *)
(* the last id (2) reads as negative, as ids 128..254 do with 255 slots    *)
(* and sign bit 128.  Four names to register: two that can be looked up,   *)
(* one that fills the field, one that is refused.                          *)
(***************************************************************************)
EXTENDS LambdaRegistry
=============================================================================
