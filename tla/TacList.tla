------------------------------ MODULE TacList ------------------------------
(***************************************************************************)
(* Three-address code as the optimizer handles it: instructions in a       *)
(* doubly linked list, what each defines and uses (tac_struct.hh), and     *)
(* what a list does when it runs on the machine.                           *)
(*                                                                         *)
(* A list is a record T: T.node gives the instruction each node holds,     *)
(* T.list the nodes that are linked, in order. A node that was unlinked    *)
(* has neither neighbour: it stays in T.node only.                         *)
(***************************************************************************)
EXTENDS Integers, FiniteSets, SequencesExt

CONSTANTS
  W,          \* the machine computes modulo W
  Inputs,     \* what the user may type: sequences of words, read round and round
  Fuel        \* bound on the steps of a run

Words == 0 .. W - 1

ASSUME WordAssumption == W \in Nat \ {0, 1} /\ Fuel \in Nat
ASSUME InputAssumption == \A input \in Inputs : input # <<>> /\ ToSet(input) \subseteq Words

(* Symbols. Two are the same when type, name and number are. *)
Symbol(type, name, value) == [type |-> type, name |-> name, value |-> value]
None == Symbol("NONE", "", 0)
Var(name) == Symbol("VAR", name, 0)
Temp(k) == Symbol("VAR", "t", k)
Const(n) == Symbol("CONST_INT", "", n)
LabelOf(k) == Symbol("LABEL", "L", k)
IsVar(s) == s.type = "VAR"
IsConst(s) == s.type = "CONST_INT"

Tac(op, a, b, c) == [op |-> op, a |-> a, b |-> b, c |-> c]

Arithmetic == {"ADD", "SUB", "MUL", "DIV"}
Relations == {"EQ", "NE", "LT", "LE", "GT", "GE"}
PointerOps == {"ADDR", "LOAD_PTR", "STORE_PTR"}
Defining == Arithmetic \cup Relations \cup {"NEG", "COPY", "LOAD_PTR", "ADDR", "INPUT", "CALL"}
Showing == {"RETURN", "OUTPUT", "IFZ", "ACTUAL"}

get_def(t) == IF t.op \in Defining THEN t.a ELSE None

get_uses(t) ==
  {s \in {t.b, t.c} \cup (IF t.op \in Showing \cup {"STORE_PTR"} THEN {t.a} ELSE {}) : IsVar(s)}

-----------------------------------------------------------------------------
(* The links. 0 is the null pointer. *)
Place(T, n) == IF Contains(T.list, n) THEN CHOOSE i \in DOMAIN T.list : T.list[i] = n ELSE 0
NextOf(T, n) == LET i == Place(T, n) IN IF i \in 1 .. Len(T.list) - 1 THEN T.list[i + 1] ELSE 0
PrevOf(T, n) == LET i == Place(T, n) IN IF i > 1 THEN T.list[i - 1] ELSE 0

Unlink(T, S) == [T EXCEPT !.list = SelectSeq(@, LAMBDA n : n \notin S)]
LinkAfter(T, n, p) == [T EXCEPT !.list = InsertAt(@, Place(T, p) + 1, n)]

(* The nodes a walk from s to e visits: it follows next until it meets e,  *)
(* and runs to the end of the list if it never does.                       *)
Walk(T, s, e) ==
  IF s = 0 THEN <<>>
  ELSE IF Place(T, s) = 0 THEN <<s>>
  ELSE LET to == IF Place(T, e) >= Place(T, s) THEN Place(T, e) ELSE Len(T.list)
       IN  SubSeq(T.list, Place(T, s), to)

(* What the code generator sees, starting at tac_first, which is node 1. *)
Emitted(T) == LET walk == Walk(T, 1, 0) IN [i \in DOMAIN walk |-> T.node[walk[i]]]

-----------------------------------------------------------------------------
(* What the code means on the machine.                                     *)
Alu(op, v, w) ==
  LET Bit(p) == IF p THEN 1 ELSE 0
  IN  CASE op = "ADD" -> (v + w) % W
        [] op = "SUB" -> (v - w) % W
        [] op = "MUL" -> (v * w) % W
        [] op = "DIV" -> v \div w
        [] op = "EQ" -> Bit(v = w)
        [] op = "NE" -> Bit(v # w)
        [] op = "LT" -> Bit(v < w)
        [] op = "LE" -> Bit(v <= w)
        [] op = "GT" -> Bit(v > w)
        [] op = "GE" -> Bit(v >= w)

Variables(code) == UNION {{s \in {code[i].a, code[i].b, code[i].c} : IsVar(s)} : i \in DOMAIN code}

(* A run: the instruction to execute, the words of the variables (memory   *)
(* starts as zeros), how many words were read and those printed. A pointer *)
(* is the place of a declaration, above all words.                         *)
Begin(code) == [pc |-> 1, store |-> [v \in Variables(code) |-> 0], reads |-> 0, out |-> <<>>]

Stop(r) == [r EXCEPT !.pc = 0]
Fault(r) == [r EXCEPT !.pc = -1]

Jump(code, r, label) ==
  LET at == {i \in DOMAIN code : code[i].op = "LABEL" /\ code[i].a = label}
  IN  IF at = {} THEN Fault(r) ELSE [r EXCEPT !.pc = CHOOSE i \in at : TRUE]

Step(code, r, input) ==
  LET t == code[r.pc]
      val(s) == IF IsConst(s) THEN s.value ELSE r.store[s]
      on == [r EXCEPT !.pc = IF @ < Len(code) THEN @ + 1 ELSE 0]
      set(v, w) == [on EXCEPT !.store[v] = w]
      at(p) == code[p - W + 1].a
      home == {i \in DOMAIN code : code[i].op = "VAR" /\ code[i].a = t.b}
  IN  CASE t.op \in Arithmetic \cup Relations ->
             IF t.op = "DIV" /\ val(t.c) = 0 THEN Fault(r)
             ELSE set(t.a, Alu(t.op, val(t.b), val(t.c)))
        [] t.op = "NEG" -> set(t.a, (0 - val(t.b)) % W)
        [] t.op = "COPY" -> set(t.a, val(t.b))
        [] t.op = "INPUT" -> [set(t.a, input[(r.reads % Len(input)) + 1]) EXCEPT !.reads = @ + 1]
        [] t.op = "OUTPUT" -> [on EXCEPT !.out = Append(@, val(t.a))]
        [] t.op = "ADDR" -> IF home = {} THEN Fault(r) ELSE set(t.a, W - 1 + CHOOSE i \in home : TRUE)
        [] t.op = "LOAD_PTR" -> IF val(t.b) < W THEN Fault(r) ELSE set(t.a, val(at(val(t.b))))
        [] t.op = "STORE_PTR" -> IF val(t.a) < W THEN Fault(r) ELSE set(at(val(t.a)), val(t.b))
        [] t.op = "GOTO" -> Jump(code, r, t.a)
        [] t.op = "IFZ" -> IF val(t.b) = 0 THEN Jump(code, r, t.a) ELSE on
        [] t.op \in {"RETURN", "ENDFUNC"} -> Stop(r)
        [] t.op \in {"LABEL", "VAR", "BEGINFUNC"} -> on

(* The states a run goes through until it stops or the fuel is used up. *)
RECURSIVE Runs(_, _, _, _)
Runs(code, r, input, fuel) ==
  IF r.pc <= 0 \/ fuel = 0 THEN <<r>>
  ELSE <<r>> \o Runs(code, Step(code, r, input), input, fuel - 1)

Execution(code, input) == Runs(code, Begin(code), input, Fuel)

(* What the user sees: the words printed, and how the program ends. *)
Behaviour(code, input) ==
  LET r == Last(Execution(code, input)) IN [out |-> r.out, pc |-> IF r.pc > 0 THEN 1 ELSE r.pc]

Meaning(code) == [input \in Inputs |-> Behaviour(code, input)]
=============================================================================
