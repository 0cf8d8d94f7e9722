------------------------------ MODULE MCCodec ------------------------------
(***************************************************************************)
(* A format of 7 bits, 3 of them for the exponent: 114 doubles, 14 of them *)
(* subnormal, sent two at a time.  Up to three bits are lost on the way,   *)
(* as eleven are of 64, and the patterns reach 2 ^ 7, as those of doubles  *)
(* reach 2 ^ 64.                                                           *)
(***************************************************************************)
EXTENDS Codec
=============================================================================
