----------------------------- MODULE MCSigning -----------------------------
(* Signing with bytes of four values and components of two bytes: all the   *)
(* lengths, leading zeros and high bits a DER integer can have.             *)
EXTENDS Signing, TLC

AllComponents == 1..(Power[Width] - 1)
TwoKeys       == {"key1", "key2"}
TwoMessages   == {"hello", "other"}
=============================================================================
