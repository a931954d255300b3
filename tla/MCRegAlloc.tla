----------------------------- MODULE MCRegAlloc -----------------------------
(* A small instance of RegAlloc: three registers, three variables of which *)
(* one can be reached through a pointer and by other functions, a literal  *)
(* besides NEG's zero, and words of one bit (LT is not commutative, so      *)
(* exchanged operands show).                                               *)
EXTENDS RegAlloc

CONSTANTS x, y, z, k0, k1, none

MCVars == {x, y, z}
MCShared == {x}
MCAddressable == {x}
MCAddrOf == [v \in {x} |-> 1]
MCLits == {k0, k1}
MCLitVal == [s \in {k0, k1} |-> IF s = k0 THEN 0 ELSE 1]
MCValue == 0..1
MCArith == {"SUB"}
MCRel == {"LT"}
MCALU == [t \in {"SUB", "LT"} \X (0..1) \X (0..1) |->
            IF t[1] = "SUB" THEN (t[2] + t[3]) % 2
            ELSE IF t[2] < t[3] THEN 1 ELSE 0]
MCGen == 13..15

(* The instruction just executed does not influence the next one. *)
MachineView == <<var, mod, reg, mem>>
=============================================================================
