------------------------------ MODULE Promise ------------------------------
(***************************************************************************)
(* What a user of the compiler may expect of a program that ends: it shows *)
(* what its three-address code says, in that order, all of it, and ends.   *)
(* How long the tools take, and how many steps lie between two values, is  *)
(* not said. Module Toolchain implements it.                               *)
(***************************************************************************)
EXTENDS Sequences, Naturals

VARIABLES
  whole,   \* all that the program shows
  shown,   \* what it has shown so far
  over     \* it has ended

vars == <<whole, shown, over>>

Init == shown = <<>> /\ over = FALSE

Show ==
  /\ Len(shown) < Len(whole)
  /\ shown' = Append(shown, whole[Len(shown) + 1])
  /\ UNCHANGED <<whole, over>>

End ==
  /\ shown = whole
  /\ over' = TRUE
  /\ UNCHANGED <<whole, shown>>

Next == ~over /\ (Show \/ End)

Spec == Init /\ [][Next]_vars

(* The other half of the promise. *)
Fulfilled == <>(over /\ shown = whole)
=============================================================================
