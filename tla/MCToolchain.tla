---------------------------- MODULE MCToolchain ----------------------------
(***************************************************************************)
(* Programs for Toolchain. Each is the three-address code tac.cc emits for *)
(* a small source, written out: the declarations, the temporaries and the  *)
(* labels are those the generator makes.                                   *)
(***************************************************************************)
EXTENDS Toolchain

Loc(x) == Symbol("VAR", x, "LOCAL", "INT", <<>>)
LocChar(x) == Symbol("VAR", x, "LOCAL", "CHAR", <<>>)
Glob(x) == Symbol("VAR", x, "GLOBAL", "INT", <<>>)
Func(f) == Symbol("FUNC", f, "GLOBAL", "INT", <<>>)
Label(x) == Symbol("LABEL", x, "GLOBAL", "", <<>>)
Text(x, chars) == Symbol("TEXT", x, "GLOBAL", "", chars)

Var(x) == Tac("VAR", x, Nil, Const(4))
Array(x, n) == Tac("VAR", x, Nil, Const(n))
One(op, x) == Tac(op, x, Nil, Nil)
Copy(x, y) == Tac("COPY", x, y, Nil)
Show1(x) == One("OUTPUT", x)
At(x) == One("LABEL", Label(x))
Goto(x) == One("GOTO", Label(x))
Unless(s, x) == Tac("IFZ", Label(x), s, Nil)
Call(x, f) == Tac("CALL", x, Func(f), Nil)
Function(f, body) ==
  <<One("LABEL", Func(f)), One("BEGINFUNC", Nil)>> \o body \o <<One("ENDFUNC", Nil)>>

(* An operation in a temporary of its own. *)
Into(t, op, x, y) == <<Var(t), Tac(op, t, x, y)>>

a == Loc("a")
b == Loc("b")
x == Loc("x")
y == Loc("y")
g == Glob("g")
T(k) == Loc(<<"@t0", "@t1", "@t2", "@t3", "@t4", "@t5", "@t6", "@t7">>[k])

Program(tacs, texts, inputs) == [tacs |-> tacs, texts |-> texts, inputs |-> inputs]

-----------------------------------------------------------------------------
Ends == {-Half, -3, 0, 2, Half - 1}

(* Two numbers compared or combined, and the answer tested. *)
Binary(op, inputs) ==
  Program(Function("main",
    <<Var(a), Var(b), One("INPUT", a), One("INPUT", b)>> \o Into(T(1), op, a, b)
    \o <<Show1(T(1)), Unless(T(1), "L1"), Show1(Const(1)), At("L1")>>
    \o Into(T(2), "NEG", b, Nil) \o <<Show1(T(2)), Show1(a)>>), <<>>, inputs)

Pairs == {<<v, w>> : v \in Ends, w \in Ends}
Compared == {Binary(op, Pairs) : op \in Relations}
Combined == {Binary(op, Pairs \cup {<<5>>, <<>>}) : op \in Arithmetic}

(* s = 0; while (a > 0) { s = s + a; a = a - 1; } output(s); *)
Counting ==
  Program(Function("main",
    <<Var(a), Var(x), One("INPUT", a), Copy(x, Const(0)), At("L1")>> \o Into(T(1), "GT", a, Const(0))
    \o <<Unless(T(1), "L2")>> \o Into(T(2), "ADD", x, a) \o <<Copy(x, T(2))>>
    \o Into(T(3), "SUB", a, Const(1)) \o <<Copy(a, T(3)), Goto("L1"), At("L2"), Show1(x)>>),
    <<>>, {<<n>> : n \in {-1, 0, 1, 3}})

(* int f(int n) { if (n <= 1) return 1; return n * f(n - 1); } with g      *)
(* counting the calls.                                                     *)
n == Loc("n")
Factorial ==
  Program(<<Var(g)>>
    \o Function("f", <<One("FORMAL", n)>> \o Into(T(1), "ADD", g, Const(1)) \o <<Copy(g, T(1))>>
         \o Into(T(2), "LE", n, Const(1)) \o <<Unless(T(2), "L1"), One("RETURN", Const(1)), At("L1")>>
         \o Into(T(3), "SUB", n, Const(1)) \o <<Var(T(4)), One("ACTUAL", T(3)), Call(T(4), "f")>>
         \o Into(T(5), "MUL", n, T(4)) \o <<One("RETURN", T(5))>>)
    \o Function("main", <<Var(a), One("INPUT", a), Var(T(6)), One("ACTUAL", a), Call(T(6), "f"),
         Show1(T(6)), Show1(g), Show1(a)>>), <<>>, {<<1>>, <<4>>})

(* An array between two variables of a frame and behind a global, filled   *)
(* and read by index; f is given a pointer to an element.                  *)
arr == Loc("arr")
garr == Glob("garr")
p == Loc("p")
Index(array, i, t, u, v) ==
  Into(t, "ADDR", array, Nil) \o Into(u, "MUL", i, Const(4)) \o Into(v, "ADD", t, u)
Filled ==
  Program(<<Var(g), Array(garr, 12)>>
    \o Function("f", <<One("FORMAL", p), Array(LocChar("c"), 2), Var(y), Copy(y, Const(9)),
         Tac("STORE_PTR", p, y, Nil)>>)
    \o Function("main", <<Var(x), Array(arr, 12), Var(y), Copy(x, Const(7)), Copy(g, Const(5)),
         Var(a), Copy(a, Const(0)), At("L1")>>
         \o Into(T(1), "LT", a, Const(3)) \o <<Unless(T(1), "L2")>>
         \o Index(arr, a, T(2), T(3), T(4)) \o <<Tac("STORE_PTR", T(4), a, Nil)>>
         \o Index(garr, a, T(5), T(6), T(7)) \o <<Tac("STORE_PTR", T(7), x, Nil)>>
         \o Into(T(8), "ADD", a, Const(1)) \o <<Copy(a, T(8)), Goto("L1"), At("L2"),
            Var(b), One("INPUT", b)>>
         \o Index(arr, b, Loc("@u0"), Loc("@u1"), Loc("@u2"))
         \o <<One("ACTUAL", Loc("@u2")), Call(Nil, "f")>>
         \o Index(arr, Const(2), Loc("@u3"), Loc("@u4"), Loc("@u5"))
         \o <<Var(Loc("@u6")), Tac("LOAD_PTR", Loc("@u6"), Loc("@u5"), Nil), At("L3"),
              Show1(Loc("@u6")), Show1(x), Show1(g)>>
         \o Index(garr, Const(2), Loc("@u7"), Loc("@u8"), Loc("@u9"))
         \o <<Var(n), Tac("LOAD_PTR", n, Loc("@u9"), Nil), Show1(n)>>), <<>>, {<<0>>, <<2>>})

(* Characters in an array, two texts, and a character typed. *)
c == LocChar("c")
str == LocChar("str")
Lettered ==
  Program(Function("main",
    <<Array(str, 3), Var(c), One("INPUT", c)>>
    \o Into(T(1), "ADDR", str, Nil) \o Into(T(2), "ADD", T(1), Const(1))
    \o <<Tac("STORE_PTR", T(2), c, Nil), Tac("STORE_PTR", T(1), Char(5), Nil),
         Var(LocChar("d")), Tac("LOAD_PTR", LocChar("d"), T(2), Nil), At("L3"), Show1(LocChar("d")),
         Show1(Text("L1", <<3, 4>>)), Show1(Text("L2", <<>>)), Show1(Char(6))>>),
    <<Text("L1", <<3, 4>>), Text("L2", <<>>)>>, {<<11>>, <<>>})

(* More variables than registers, all of them modified. *)
v == [k \in 1 .. 12 |-> Loc(<<"v1", "v2", "v3", "v4", "v5", "v6", "v7", "v8", "v9", "v10", "v11", "v12">>[k])]
Crowded ==
  Program(Function("main",
    FlattenSeq([k \in 1 .. 12 |-> <<Var(v[k]), Copy(v[k], Const(k))>>]) \o <<At("L1")>>
    \o FlattenSeq([k \in 1 .. 9 |-> <<Tac("ADD", v[k], v[k], v[k + 1])>>])
    \o <<At("L2")>> \o FlattenSeq([k \in 1 .. 12 |-> <<Show1(v[k]), At(<<"M1", "M2", "M3", "M4", "M5",
           "M6", "M7", "M8", "M9", "M10", "M11", "M12">>[k])>>])), <<>>, {<<>>})

(* All registers modified when a value is stored through p, a variable of  *)
(* main or a parameter.                                                    *)
Modified == FlattenSeq([k \in 1 .. 11 |-> <<Var(v[k]), Copy(v[k], Const(k))>>])
StoredThrough(q) == Modified \o <<Tac("STORE_PTR", q, Const(13), Nil)>>
Reloading ==
  Program(Function("main",
    <<Var(x), Var(p)>> \o Into(T(1), "ADDR", x, Nil) \o <<Copy(p, T(1)), At("L1")>>
    \o StoredThrough(p) \o <<Show1(x), Show1(v[11])>>), <<>>, {<<>>})
ReloadingParameter ==
  Program(Function("f", <<One("FORMAL", p)>> \o StoredThrough(p))
    \o Function("main", <<Var(x)>> \o Into(T(1), "ADDR", x, Nil)
         \o <<One("ACTUAL", T(1)), Call(Nil, "f"), Show1(x)>>), <<>>, {<<>>})

(* output(12 - x) when all registers are modified and x is in memory. *)
Spilling ==
  Program(Function("main", <<Var(x), Copy(x, Const(2)), At("L1")>> \o Modified
    \o Into(T(1), "SUB", Const(12), x) \o <<Show1(T(1))>>), <<>>, {<<>>})

-----------------------------------------------------------------------------
(* Texts by hand: every form of operand; two definitions, the first where  *)
(* the program begins; as many labels as the table holds, and one more.    *)
SelfTest ==
  [text |-> <<Named("JMP_0", 0, "go"), LabelLine("cell"), Line("DBN", 1, 0, 4), Line("DBN", 0, 0, 4),
              LabelLine("go"), Named("LOD_0", 5, "cell"), Line("LDC_4", 15, 5, 0), Line("OTI", 0, 0, 0),
              Line("LOD_3", 15, 0, 8), Line("OTI", 0, 0, 0), Line("LDC_3", 6, 0, 9), Line("NOP", 0, 0, 0),
              Line("STO_2", 5, 6, 3), Line("LDC_5", 15, 5, 1), Line("OTI", 0, 0, 0),
              Line("LOD_4", 15, 5, 0), Line("OTI", 0, 0, 0), Line("STC_0", 5, 0, 2), Line("STC_2", 5, 6, 1),
              Line("STC_3", 5, 6, 1), Line("LOD_4", 15, 5, 0), Line("OTI", 0, 0, 0), Line("TST_0", 5, 0, 0),
              Named("JLZ_0", 0, "cell"), Named("JGZ_0", 0, "end"), Line("OTI", 0, 0, 0),
              LabelLine("end"), Line("END", 0, 0, 0)>>,
   shows |-> [i \in 1 .. 5 |-> Shown("int", <<<<1, 4369, 0, 4, 18>>[i]>>)]]

Numbered(k) == <<"l1", "l2", "l3", "l4", "l5", "l6", "l7", "l8", "l9", "l10", "l11", "l12", "l13", "l14",
                 "l15", "l16", "l17", "l18", "l19", "l20", "l21">>[k]
ManyLabels(count) ==
  [text |-> FlattenSeq([k \in 1 .. count |-> <<LabelLine(Numbered(k)), Line("NOP", 0, 0, 0)>>])
            \o <<Line("END", 0, 0, 0)>>, shows |-> <<>>]

AtZero == [text |-> <<LabelLine("go"), Line("NOP", 0, 0, 0), LabelLine("go"), Line("END", 0, 0, 0)>>,
           shows |-> <<>>]

Negative == Program(Function("main", <<Var(a), Copy(a, Const(-1)), Show1(a)>>), <<>>, {<<>>})

Swapped == Program(Function("f", <<One("FORMAL", x), One("FORMAL", y), Show1(x)>>)
  \o Function("main", <<One("ACTUAL", Const(1)), One("ACTUAL", Const(2)), Call(Nil, "f")>>), <<>>, {<<>>})

(* x = 4369; *(&x) = 'c'; output(x); with a label in between.               *)
Narrow == Program(Function("main",
  <<Var(x), Copy(x, Const(4369)), At("L1")>> \o Into(T(1), "ADDR", x, Nil)
  \o <<Tac("STORE_PTR", T(1), Char(5), Nil), Show1(x)>>), <<>>, {<<>>})

Namesake(f) == Program(Function(f, <<Show1(Const(1))>>)
  \o Function("main", <<Goto("L1"), At("L1"), Call(Nil, f)>>), <<>>, {<<>>})

(* R and digits are a register, whatever the number; a letter makes a name. *)
Spelled(name, shown) ==
  [text |-> <<Line("LOD_0", 15, 0, 7), LabelLine(name), Line("OTI", 0, 0, 0), Line("END", 0, 0, 0)>>,
   shows |-> shown]

AllPrograms == Compared \cup Combined \cup {Counting, Factorial, Filled, Lettered, Crowded, Reloading}
AllSources == {SelfTest, ManyLabels(LABNUM), ManyLabels(LABNUM + 1),
               Spelled("R", <<>>), Spelled("R99", <<>>), Spelled("R9a", <<Shown("int", <<7>>)>>)}
ReloadingProgram == {ReloadingParameter}
SpillingProgram == {Spilling}
SwappedProgram == {Swapped}
NarrowProgram == {Narrow}
NamesakeProgram == {Namesake("L1")}
RegisterProgram == {Namesake("R15")}
NegativeProgram == {Negative}
DoubledSource == {AtZero}
NoPrograms == {}
NoSources == {}
=============================================================================
