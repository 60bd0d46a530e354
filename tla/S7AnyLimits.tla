----------------------------- MODULE S7AnyLimits -----------------------------
(***************************************************************************)
(* What an S7ANY item can address (wire/pdu_rw.go): 24 bits of bit offset, *)
(* 16 bits of DB number and 16 bits of element count.                      *)
(***************************************************************************)

MaxS7AnyByteOffset == 2097151
MaxS7AnyDBNumber == 65535
MaxS7AnyCount == 65535

==============================================================================
