------------------------------ MODULE Meaning ------------------------------
(***************************************************************************)
(* What three-address code of several functions means, with no registers,  *)
(* no addresses and no labels' places: variables of activations, integers, *)
(* and pointers to a byte of a variable. It is what the compiler promises  *)
(* and the machine is held to.                                             *)
(*                                                                         *)
(* A run also notes in met which situations it went through in which the   *)
(* machine is known not to keep the promise.                               *)
(***************************************************************************)
EXTENDS Machine

CONSTANT Fuel      \* bound on the steps of a run: Fuel * Fuel

ASSUME FuelAssumption == Fuel \in Nat

(* A pointer is a number beyond all words: which declaration, of which     *)
(* activation (0 for globals), and the byte in it.                         *)
DepthBound == 16

Pointer(decl, depth, off) == (decl * DepthBound + depth) * Modulus + off
IsPointer(v) == v >= Modulus
Target(tacs, p) ==
  LET k == p \div Modulus
  IN  [of |-> tacs[k \div DepthBound].a, depth |-> k % DepthBound, off |-> p % Modulus]

Start(tacs, label) == CHOOSE i \in DOMAIN tacs : tacs[i].op = "LABEL" /\ tacs[i].a = label

Main == Symbol("FUNC", "main", "GLOBAL", "INT", <<>>)

Activation(back, result, args) == [back |-> back, result |-> result, args |-> args, bound |-> 0]

BeginRun(tacs, input) ==
  [pc |-> Start(tacs, Main), stack |-> <<Activation(0, Nil, <<>>)>>, args |-> <<>>,
   vars |-> [x \in {} |-> 0], input |-> input, out |-> <<>>, met |-> {}]

Cell(r, s, off) ==
  [of |-> s, depth |-> IF s.scope = "LOCAL" THEN Len(r.stack) ELSE 0, off |-> off]

Has(r, cell) == IF cell \in DOMAIN r.vars THEN r.vars[cell] ELSE 0

ValueOf(r, s) == IF IsConst(s) THEN Number(s) ELSE Has(r, Cell(r, s, 0))

Assign(r, cell, v) ==
  [r EXCEPT !.vars = [c \in DOMAIN @ \cup {cell} |-> IF c = cell THEN v ELSE @[c]]]

Meet(r, case, holds) == IF holds THEN [r EXCEPT !.met = @ \cup {case}] ELSE r

(* A calculation on words; a comparison is one of integers, which the      *)
(* machine's is not when the difference overflows.                         *)
Calculate(r, t) ==
  LET v == ValueOf(r, t.b)
      w == ValueOf(r, t.c)
      cell == Cell(r, t.a, 0)
  IN  IF t.op \in Relations
      THEN Meet(Assign(r, cell, IF Related(t.op, v, w) THEN 1 ELSE 0), "overflow", v - w \notin Word)
      ELSE Assign(r, cell, IF IsPointer(v) THEN Exact(t.op, v, w) ELSE Wrap(Exact(t.op, v, w)))

Output(r, s) ==
  LET what == CASE s.type = "TEXT" -> s.value
                [] OTHER -> <<ValueOf(r, s)>>
      kind == CASE s.type = "TEXT" -> "text"
                [] s.data = "CHAR" -> "char"
                [] OTHER -> "int"
  IN  [r EXCEPT !.out = Append(@, Shown(kind, what))]

(* A local is gone with its activation. *)
Leave(r, v) ==
  LET top == Last(r.stack)
      left == [r EXCEPT !.pc = top.back, !.stack = Front(@),
                        !.vars = [c \in {d \in DOMAIN @ : d.depth < Len(r.stack)} |-> @[c]]]
  IN  IF top.back = 0 \/ top.result = Nil THEN left ELSE Assign(left, Cell(left, top.result, 0), v)

StepRun(tacs, r) ==
  LET t == tacs[r.pc]
      on == [r EXCEPT !.pc = @ + 1]
      top == Last(r.stack)
      declared(s) == CHOOSE i \in DOMAIN tacs : tacs[i].op \in {"VAR", "FORMAL"} /\ tacs[i].a = s
  IN  CASE t.op \in Arithmetic \cup Relations ->
             IF t.op = "DIV" /\ ValueOf(r, t.c) = 0 THEN [r EXCEPT !.pc = 0] ELSE Calculate(on, t)
        [] t.op = "NEG" -> Assign(on, Cell(r, t.a, 0), Wrap(-ValueOf(r, t.b)))
        [] t.op = "COPY" -> Assign(on, Cell(r, t.a, 0), ValueOf(r, t.b))
        [] t.op = "INPUT" ->
             IF r.input = <<>> THEN Assign(on, Cell(r, t.a, 0), IF t.a.data = "CHAR" THEN Blank ELSE 0)
             ELSE [Assign(on, Cell(r, t.a, 0), Head(r.input)) EXCEPT !.input = Tail(@)]
        [] t.op = "OUTPUT" -> Output(on, t.a)
        [] t.op = "GOTO" -> [r EXCEPT !.pc = Start(tacs, t.a)]
        [] t.op = "IFZ" -> IF ValueOf(r, t.b) = 0 THEN [r EXCEPT !.pc = Start(tacs, t.a)] ELSE on
        [] t.op = "ACTUAL" -> [on EXCEPT !.args = Append(@, ValueOf(r, t.a))]
        [] t.op = "CALL" ->
             [Meet(r, "order", Len(r.args) > 1) EXCEPT
                !.pc = Start(tacs, t.b), !.args = <<>>,
                !.stack = Append(@, Activation(r.pc + 1, t.a, r.args))]
        [] t.op = "FORMAL" ->
             Assign([on EXCEPT !.stack = Append(Front(@), [top EXCEPT !.bound = @ + 1])],
                    Cell(r, t.a, 0), top.args[top.bound + 1])
        [] t.op = "RETURN" -> Leave(r, IF t.a = Nil THEN 0 ELSE ValueOf(r, t.a))
        [] t.op = "ENDFUNC" -> Leave(r, 0)
        [] t.op = "ADDR" ->
             Assign(on, Cell(r, t.a, 0),
                    Pointer(declared(t.b), Cell(r, t.b, 0).depth, 0))
        [] t.op = "LOAD_PTR" -> Assign(on, Cell(r, t.a, 0), Has(r, Target(tacs, ValueOf(r, t.b))))
        [] t.op = "STORE_PTR" ->
             LET cell == Target(tacs, ValueOf(r, t.a))
             IN  Meet(Assign(on, cell, ValueOf(r, t.b)), "narrow", t.b.data = "CHAR" /\ cell.of.data # "CHAR")
        [] t.op \in {"LABEL", "BEGINFUNC", "VAR"} -> on

(* A run of up to Fuel steps from r, and one of up to Fuel of these.       *)
Steps(tacs, r) ==
  LET run[k \in 0 .. Fuel] ==
        IF k = 0 THEN r
        ELSE LET before == run[k - 1] IN IF before.pc = 0 THEN before ELSE StepRun(tacs, before)
  IN  run[Fuel]

Run(tacs, input) ==
  LET run[k \in 0 .. Fuel] ==
        IF k = 0 THEN BeginRun(tacs, input)
        ELSE LET before == run[k - 1] IN IF before.pc = 0 THEN before ELSE Steps(tacs, before)
  IN  run[Fuel]
=============================================================================
