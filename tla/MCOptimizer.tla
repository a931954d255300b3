---------------------------- MODULE MCOptimizer ----------------------------
(* Families of small programs for the optimizer. Every program is a fixed  *)
(* frame whose gaps are filled with all combinations of a few statements.  *)
EXTENDS Lowering, Optimizer

x == Var("x")
y == Var("y")
z == Var("z")
m == Var("m")
n == Var("n")
p == Var("p")

MCInputs == {<<v, w>> : v, w \in 0 .. 2}

Assignments ==
  {Copy(x, Const(0)), Copy(x, y), Copy(y, x), Bin("ADD", x, x, y), Bin("ADD", y, x, y),
   Bin("MUL", y, x, y), Bin("EQ", x, y, Const(1)), Input(x)}

Locals == <<Decl(x), Decl(y), Decl(n)>>
Enter == <<Input(n), Input(x), Copy(y, Const(1))>>
Leave == <<Output(x), Output(y), Return>>
CountDown(v) == Bin("SUB", v, v, Const(1))

Main(body) == Lower(<<>>, Locals \o Enter \o body \o Leave)

-----------------------------------------------------------------------------
(* One block, with the variables global. *)
Straight == {Lower(<<x, y, n>>, Enter \o s \o Leave) : s \in [1 .. 3 -> Assignments]}

(* The same operands meet twice. *)
Repeated == {Main(<<Decl(z), Bin(o1, z, x, y), s, Bin(o2, y, x, y), Output(z)>>) :
               o1, o2 \in {"ADD", "SUB", "MUL"}, s \in Assignments}

(* Tests of known and unknown values, and code behind a return. *)
Branches == {Main(<<If(n, <<s, t>>), If(y, <<u, Output(x), Return, s>>)>>) : s, t, u \in Assignments}

(* An array of one element, reached through a pointer only. *)
Pointers == {Main(<<Decl(z), Decl(p), PointAt(p, z), s, Store(p, x), t, Load(y, p)>>) : s, t \in Assignments}

AcyclicPrograms == Straight \cup Repeated \cup Branches \cup Pointers

-----------------------------------------------------------------------------
(* z lives in the body of the loop only, so that its computation can leave *)
(* the loop.                                                               *)
Inner ==
  Assignments \cup {Copy(z, Const(1)), Bin("ADD", z, x, y), Bin("DIV", z, x, y), Bin("ADD", z, x, Const(1)),
                     Copy(x, z), Bin("ADD", y, y, z), Output(z)}

Loops == {Main(<<While(n, <<Decl(z), s, t, CountDown(n)>>), Bin("ADD", y, x, y)>>) : s, t \in Inner}

(* z and m are new in every round, and invariant unless s or t assigns x. *)
Around == {Output(x), Output(z), Output(m), Bin("ADD", y, y, m), Bin("SUB", y, z, y), Input(y), Input(x), Copy(x, n)}

Invariants ==
  {Main(<<While(n, <<Decl(z), Decl(m), Bin(o, z, x, Const(2)), s, Bin("ADD", m, z, x), t, CountDown(n)>>)>>) :
     o \in {"SUB", "MUL"}, s \in Around \ {Output(m), Bin("ADD", y, y, m)}, t \in Around}

Nested == {Main(<<While(n, <<Decl(z), If(x, <<s, t>>), CountDown(n)>>), Copy(x, y)>>) : s, t \in Inner}

Twice == {Main(<<Decl(m), While(n, <<Copy(m, n), While(m, <<Decl(z), s, t, CountDown(m)>>), CountDown(n)>>)>>) :
            s, t \in Inner}

LoopPrograms == Loops \cup Invariants \cup Nested \cup Twice

AllPrograms == AcyclicPrograms \cup LoopPrograms

-----------------------------------------------------------------------------
(* Programs that run into one of the cases the guards leave out. *)
ZeroTrip == {Main(<<While(n, <<s, CountDown(n)>>)>>) : s \in Assignments}
ConditionalInLoop == {Main(<<While(n, <<Decl(z), If(x, <<Copy(z, Const(1))>>), Copy(x, n), s, CountDown(n)>>)>>) :
                        s \in Assignments}
UnsetGlobal == {Lower(<<x, y, n>>, <<Input(n), If(n, <<s>>)>> \o Leave) : s \in {Copy(x, Const(1)), Input(x)}}
NamedAndPointed == {Main(<<Decl(p), PointAt(p, x), Copy(x, Const(1)), Store(p, n), s>>) :
                      s \in {Copy(y, x), Load(y, p)}}
UnusedGlobal == {Lower(<<z, x, y, n>>, Enter \o Leave)}
=============================================================================
