--------------------------- MODULE MCSnmpSession ---------------------------
(* SnmpSession with interchangeable requests, for safety checking only.     *)
EXTENDS SnmpSession

RequestSymmetry == Permutations(Req)
=============================================================================
