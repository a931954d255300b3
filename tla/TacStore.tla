------------------------------ MODULE TacStore ------------------------------
(***************************************************************************)
(* What three-address code means, with no machine in sight: a store that   *)
(* maps every variable of one function activation (globals included) to    *)
(* its value, and what the rest of the world sees of each instruction.     *)
(*                                                                         *)
(* The code generator (module RegAlloc) promises that the assembly it      *)
(* emits for a TAC list behaves like this store.  `obs` records the        *)
(* instruction just executed, the values it made visible (an OUTPUT, an    *)
(* ACTUAL, a tested condition, a return value) and, at a call or a return, *)
(* the shared variables as the other function finds them.                  *)
(***************************************************************************)
EXTENDS ThreeAddress

VARIABLES val, obs

vars == <<val, obs>>

ValueOf(s) == IF s \in Lits THEN LitVal[s] ELSE val[s]

Published == [x \in Shared |-> val[x]]

Silently(tac) == obs' = Report(tac, Nothing, Nothing)

-----------------------------------------------------------------------------
(* Instructions that define a variable. *)

Compute(op, a, b, c) ==
  /\ Silently(Tac(op, a, b, c))
  /\ val' = [val EXCEPT ![a] = ALU[<<op, ValueOf(b), ValueOf(c)>>]]

Neg(a, b) ==
  /\ Silently(Tac("NEG", a, b, None))
  /\ val' = [val EXCEPT ![a] = ALU[<<"SUB", LitVal[Zero], ValueOf(b)>>]]

Copy(a, b) ==
  /\ Silently(Tac("COPY", a, b, None))
  /\ val' = [val EXCEPT ![a] = ValueOf(b)]

Input(a) ==
  \E v \in Value :
    /\ obs' = Report(Tac("INPUT", a, None, None), <<v>>, Nothing)
    /\ val' = [val EXCEPT ![a] = v]

Addr(a, b) ==
  /\ Silently(Tac("ADDR", a, b, None))
  /\ val' = [val EXCEPT ![a] = AddrOf[b]]

LoadPtr(a, b) ==
  \E x \in Addressable :
    /\ Silently(Tac("LOAD_PTR", a, b, None))
    /\ AddrOf[x] = ValueOf(b)
    /\ val' = [val EXCEPT ![a] = val[x]]

StorePtr(a, b) ==
  \E x \in Addressable :
    /\ Silently(Tac("STORE_PTR", a, b, None))
    /\ AddrOf[x] = ValueOf(a)
    /\ val' = [val EXCEPT ![x] = ValueOf(b)]

-----------------------------------------------------------------------------
(* Instructions that only show something, or move control. *)

Show(op, s) ==
  /\ obs' = Report(Tac(op, s, None, None), <<ValueOf(s)>>, Nothing)
  /\ val' = val

Jump(op) ==
  /\ Silently(Tac(op, None, None, None))
  /\ val' = val

(* The callee may change what is shared, and nothing else but the result.  *)
Call(ret) ==
  /\ obs' = Report(Tac("CALL", ret, None, None), Nothing, Published)
  /\ val' \in [Vars -> Value]
  /\ \A x \in Vars \ (Shared \cup {ret}) : val'[x] = val[x]

(* The next instruction of this function belongs to another activation.    *)
Return(s) ==
  /\ obs' = Report(Tac("RETURN", s, None, None),
                   IF s = None THEN Nothing ELSE <<ValueOf(s)>>, Published)
  /\ val' \in [Vars -> Value]

-----------------------------------------------------------------------------
Init ==
  /\ val \in [Vars -> Value]
  /\ obs = Report(Tac("BEGINFUNC", None, None, None), Nothing, Nothing)

(* A step executes the instruction that obs' reports. *)
Next ==
  LET t == obs'.tac IN
  \/ /\ t \in [op : Arith \cup Rel, a : Vars, b : Operands, c : Operands]
     /\ Compute(t.op, t.a, t.b, t.c)
  \/ t.op = "NEG" /\ t.a \in Vars /\ t.b \in Operands /\ Neg(t.a, t.b)
  \/ t.op = "COPY" /\ t.a \in Vars /\ t.b \in Operands /\ Copy(t.a, t.b)
  \/ t.op = "INPUT" /\ t.a \in Vars /\ Input(t.a)
  \/ t.op = "ADDR" /\ t.a \in Vars /\ t.b \in Addressable /\ Addr(t.a, t.b)
  \/ t.op = "LOAD_PTR" /\ t.a \in Vars /\ t.b \in Vars /\ LoadPtr(t.a, t.b)
  \/ t.op = "STORE_PTR" /\ t.a \in Vars /\ t.b \in Operands /\ StorePtr(t.a, t.b)
  \/ t.op \in {"OUTPUT", "ACTUAL", "IFZ"} /\ t.a \in Operands /\ Show(t.op, t.a)
  \/ t.op \in {"GOTO", "LABEL"} /\ Jump(t.op)
  \/ t.op = "CALL" /\ t.a \in Vars \cup {None} /\ Call(t.a)
  \/ t.op = "RETURN" /\ t.a \in Operands \cup {None} /\ Return(t.a)

Spec == Init /\ [][Next]_vars
=============================================================================
