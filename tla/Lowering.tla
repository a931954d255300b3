------------------------------ MODULE Lowering -----------------------------
(***************************************************************************)
(* The code the generator emits for small programs of one function, the    *)
(* only ones the optimizer is run on (main.cc 79-95): tac.cc's do_bin,     *)
(* do_assign, do_if, do_while and the pointer operations, with a new       *)
(* temporary for every operation and new labels for every statement.       *)
(***************************************************************************)
EXTENDS TacList

(* Statements. Operands are variables and constants. *)
Stmt(s, a, b, c, body) == [s |-> s, a |-> a, b |-> b, c |-> c, body |-> body]
Copy(x, b) == Stmt("COPY", x, b, None, <<>>)
Bin(op, x, b, c) == Stmt(op, x, b, c, <<>>)
Output(x) == Stmt("OUTPUT", x, None, None, <<>>)
Input(x) == Stmt("INPUT", x, None, None, <<>>)
Decl(x) == Stmt("VAR", x, None, None, <<>>)
PointAt(p, x) == Stmt("ADDR", p, x, None, <<>>)
Load(x, p) == Stmt("LOAD_PTR", x, p, None, <<>>)
Store(p, b) == Stmt("STORE_PTR", p, b, None, <<>>)
Return == Stmt("RETURN", None, None, None, <<>>)
If(x, body) == Stmt("if", x, None, None, body)
While(x, body) == Stmt("while", x, None, None, body)

(* A generator g has the code so far and the next temporary and label. *)
Emit(g, code) == [g EXCEPT !.code = @ \o code]

(* An operation gets a temporary of its own, declared on the spot. *)
WithTemp(g, s) ==
  LET t == Temp(g.temp)
  IN  [Emit(g, <<Tac("VAR", t, None, None), Tac(s.s, t, s.b, s.c), Tac("COPY", s.a, t, None)>>)
        EXCEPT !.temp = @ + 1]

RECURSIVE Generate(_, _)
Generate(g, s) ==
  LET L(k) == LabelOf(g.label + k)
      inside(h) == FoldLeft(Generate, h, s.body)
  IN  CASE s.s \in Arithmetic \cup Relations \cup {"NEG", "ADDR", "LOAD_PTR"} -> WithTemp(g, s)
        [] s.s = "if" ->
             Emit(inside([Emit(g, <<Tac("IFZ", L(0), s.a, None)>>) EXCEPT !.label = @ + 1]),
                  <<Tac("LABEL", L(0), None, None)>>)
        [] s.s = "while" ->
             Emit(inside([Emit(g, <<Tac("LABEL", L(0), None, None), Tac("IFZ", L(1), s.a, None)>>)
                           EXCEPT !.label = @ + 2]),
                  <<Tac("GOTO", L(0), None, None), Tac("LABEL", L(1), None, None)>>)
        [] OTHER -> Emit(g, <<Tac(s.s, s.a, s.b, s.c)>>)

(* Globals come first, then the function. *)
Lower(globals, body) ==
  LET head == [i \in DOMAIN globals |-> Tac("VAR", globals[i], None, None)]
                \o <<Tac("LABEL", Symbol("LABEL", "main", 0), None, None), Tac("BEGINFUNC", None, None, None)>>
      g == FoldLeft(Generate, [code |-> head, temp |-> 0, label |-> 1], body)
  IN  Append(g.code, Tac("ENDFUNC", None, None, None))
=============================================================================
