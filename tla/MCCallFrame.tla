---------------------------- MODULE MCCallFrame ----------------------------
(* A small instance of CallFrame: three activations of at most two         *)
(* variables each on a stack of a dozen words, two call sites.             *)
EXTENDS CallFrame

CONSTANTS s1, s2, exit

MCValue == 0..1
=============================================================================
