------------------------------ MODULE CodeGen ------------------------------
(***************************************************************************)
(* The assembly ObjGenerator prints (ccpl/src/modules/obj.cc), TAC by TAC. *)
(* Module RegAlloc executes what a TAC's code does to variables; here the  *)
(* code itself is kept, with its offsets, its jumps over the instructions  *)
(* of its own sequences and its labels, for the assembler to read.         *)
(*                                                                         *)
(* A line is [op, rx, ry, n, name]: op tells the forms of a mnemonic apart *)
(* the way the opcodes do (LOD_5 is LOD rx,(ry+n)), name is the label of a *)
(* definition or an operand, DBS has the bytes of a text in its name's     *)
(* place. A number is printed with the sign the code prints: where that is *)
(* not what the grammar reads, op is Unreadable.                           *)
(***************************************************************************)
EXTENDS Integers, FiniteSets, SequencesExt

R_IP == 1
R_BP == 2
R_JP == 3
R_TP == 4
R_GEN == 5
R_NUM == 16
R_IO == 15
Gen == R_GEN .. R_NUM - 1

FORMAL_OFF == -4
OBP_OFF == 0
RET_OFF == 4
LOCAL_OFF == 8

Symbol(type, name, scope, data, value) ==
  [type |-> type, name |-> name, scope |-> scope, data |-> data, value |-> value]

(* The value of a constant is one number, that of a text its characters.   *)
Nil == Symbol("NONE", "", "", "", <<>>)
Const(n) == Symbol("CONST_INT", "", "GLOBAL", "INT", <<n>>)
Char(n) == Symbol("CONST_CHAR", "", "GLOBAL", "CHAR", <<n>>)
Number(s) == Head(s.value)
IsConst(s) == s.type \in {"CONST_INT", "CONST_CHAR"}

Tac(op, a, b, c) == [op |-> op, a |-> a, b |-> b, c |-> c]

-----------------------------------------------------------------------------
(* Lines. *)
Unreadable == "?"
Line(op, rx, ry, n) == [op |-> op, rx |-> rx, ry |-> ry, n |-> n, name |-> "", bytes |-> <<>>]
Named(op, rx, name) == [Line(op, rx, 0, 0) EXCEPT !.name = name]
LabelLine(name) == Named("LABEL", 0, name)

(* An operand printed as it is: the grammar has no negative INTEGER.       *)
Unsigned(op, rx, ry, n) == Line(IF n < 0 THEN Unreadable ELSE op, rx, ry, n)

(* The generator: text, register descriptors, counters, and where VAR and  *)
(* FORMAL have put the variables.                                          *)
Fresh == [text |-> <<>>, var |-> [r \in Gen |-> Nil], mod |-> {},
          tof |-> LOCAL_OFF, oof |-> FORMAL_OFF, oon |-> 0, tos |-> 0,
          offset |-> [s \in {} |-> 0]]

Emit(g, lines) == [g EXCEPT !.text = @ \o lines]

OffsetOf(g, s) == IF s \in DOMAIN g.offset THEN g.offset[s] ELSE -1
Place(g, s, off) == [g EXCEPT !.offset = [x \in DOMAIN @ \cup {s} |-> IF x = s THEN off ELSE @[x]]]

Holding(g, s) == {r \in Gen : g.var[r] = s}
First(R) == CHOOSE r \in R : \A q \in R : r <= q

RdescClear(g, r) == [g EXCEPT !.var[r] = Nil, !.mod = @ \ {r}]

Modify(g, r) == [g EXCEPT !.mod = @ \cup {r}]

RdescFill(g, r, s) ==
  [g EXCEPT !.var = [q \in Gen |-> IF q = r THEN s ELSE IF @[q] = s THEN Nil ELSE @[q]],
            !.mod = @ \ ({r} \cup Holding(g, s))]

Define(g, r, a) == Modify(RdescFill(g, r, a), r)

(* A variable's home is addressed from R_BP with the sign of its offset, a *)
(* global's from STATIC through R_TP.                                      *)
Store(g, r, s) ==
  IF s.scope = "LOCAL" THEN <<Line("STO_3", R_BP, r, OffsetOf(g, s))>>
  ELSE <<Named("LOD_0", R_TP, "STATIC"), Unsigned("STO_3", R_TP, r, OffsetOf(g, s))>>

(* A wrong load, which prints "R2+" before a negative offset. *)
FetchPlus(g, r, s) ==
  IF s.scope = "LOCAL" THEN <<Unsigned("LOD_5", r, R_BP, OffsetOf(g, s))>>
  ELSE <<Named("LOD_0", R_TP, "STATIC"), Unsigned("LOD_5", r, R_TP, OffsetOf(g, s))>>

Fetch(g, r, s) ==
  IF s.scope = "LOCAL" THEN <<Line("LOD_5", r, R_BP, OffsetOf(g, s))>>
  ELSE <<Named("LOD_0", R_TP, "STATIC"), Unsigned("LOD_5", r, R_TP, OffsetOf(g, s))>>

WriteBack(g, r) ==
  IF g.var[r] # Nil /\ r \in g.mod
  THEN [Emit(g, Store(g, r, g.var[r])) EXCEPT !.mod = @ \ {r}]
  ELSE g

(* The registers in order. *)
WriteBackAll(g) ==
  LET dirty == {r \in g.mod : g.var[r] # Nil}
      code(r) == IF r \in dirty THEN Store(g, r, g.var[r]) ELSE <<>>
  IN  [Emit(g, FlattenSeq([i \in 1 .. R_NUM - R_GEN |-> code(R_GEN + i - 1)]))
        EXCEPT !.mod = @ \ dirty]

ClearAllRegs(g) == [g EXCEPT !.var = [r \in Gen |-> Nil], !.mod = {}]

TextLabel(s) == s.name

Load(g, r, s) ==
  Emit(g, IF Holding(g, s) # {} THEN <<Line("LOD_1", r, First(Holding(g, s)), 0)>>
           ELSE CASE IsConst(s) -> <<Unsigned("LOD_0", r, 0, Number(s))>>
                  [] s.type = "VAR" -> Fetch(g, r, s)
                  [] s.type = "TEXT" -> <<Named("LOD_0", r, TextLabel(s))>>)

(* reg_alloc: the register, rand being what the generator draws when every *)
(* one is modified, and the code that brings s there.                      *)
AllocReg(g, s, rand) ==
  LET clean == Gen \ g.mod
  IN  IF Holding(g, s) # {} THEN First(Holding(g, s))
      ELSE IF Holding(g, Nil) # {} THEN First(Holding(g, Nil))
      ELSE IF clean # {} THEN First(clean)
      ELSE rand

Alloc(g, s, r) ==
  IF g.var[r] = s THEN WriteBack(g, r)
  ELSE RdescFill(Load(WriteBack(g, r), r, s), r, s)

-----------------------------------------------------------------------------
(* The forms of an operation with a number and with a register.            *)
WithNumber == [ADD |-> "ADD_0", SUB |-> "SUB_0", MUL |-> "MUL_0", DIV |-> "DIV_0"]
WithRegister == [ADD |-> "ADD_1", SUB |-> "SUB_1", MUL |-> "MUL_1", DIV |-> "DIV_1"]

(* asm_bin leaves its result in the register of operand b.                 *)
AsmBin(g, op, a, b, c, rand) ==
  LET rb == AllocReg(g, b, rand)
      placed == Alloc(g, b, rb)
      pinned == Modify(placed, rb)
      rc == AllocReg(pinned, c, rand)
      both == [Alloc(pinned, c, rc) EXCEPT !.mod = (@ \ {rb}) \cup (placed.mod \cap {rb})]
      code == IF rb = rc
              THEN <<Line("LOD_1", R_TP, rc, 0), Line(WithRegister[op], rb, R_TP, 0)>>
              ELSE <<Line(WithRegister[op], rb, rc, 0)>>
  IN  [g |-> IF IsConst(c)
             THEN Define(Emit(pinned, <<Unsigned(WithNumber[op], rb, 0, Number(c))>>), rb, a)
             ELSE Define(Emit(both, code), rb, a),
       r |-> rb]

(* The jump a relation tests with, and whether the relation holds then.    *)
Jump == [EQ |-> "JEZ_1", NE |-> "JEZ_1", LT |-> "JLZ_1", LE |-> "JGZ_1", GT |-> "JGZ_1",
         GE |-> "JLZ_1"]
WhenTaken == [EQ |-> 1, NE |-> 0, LT |-> 1, LE |-> 0, GT |-> 1, GE |-> 0]

(* The code that turns the difference in register r into the answer: a     *)
(* jump from R_IP over instructions of its own to the one that loads it.   *)
Answer(jump, r, taken) ==
  <<Line("TST_0", r, 0, 0),
    Line("LOD_2", R_JP, R_IP, 40), Line(jump, R_JP, 0, 0),
    Line("LOD_0", r, 0, 1 - taken),
    Line("LOD_2", R_JP, R_IP, 24), Line("JMP_1", R_JP, 0, 0),
    Line("LOD_0", r, 0, taken)>>

(* A wrong asm_cmp, which tests LE with the jump of LT. *)
AsmCmpLeAsLt(g, op, a, b, c, rand) ==
  LET sub == AsmBin(g, "SUB", a, b, c, rand)
      r == sub.r
      jump == IF op = "LE" THEN "JLZ_1" ELSE Jump[op]
  IN  Define(RdescClear(Emit(sub.g, Answer(jump, r, WhenTaken[op])), r), r, a)

(* asm_cmp subtracts and tests the difference.                             *)
AsmCmp(g, op, a, b, c, rand) ==
  LET sub == AsmBin(g, "SUB", a, b, c, rand)
      r == sub.r
  IN  Define(RdescClear(Emit(sub.g, Answer(Jump[op], r, WhenTaken[op])), r), r, a)

AsmCond(g, op, s, name, rand) ==
  LET w == WriteBackAll(g)
      r == AllocReg(w, s, rand)
      tested == IF s = Nil THEN w
                ELSE Emit(IF Holding(w, s) # {} THEN w ELSE Alloc(w, s, r),
                           <<Line("TST_0", r, 0, 0)>>)
  IN  Emit(tested, <<Named(op, 0, name)>>)

AsmCall(g, ret, func, rand) ==
  LET w == ClearAllRegs(WriteBackAll(g))
      top == w.tof + w.oon
      code == <<Line("STO_3", R_BP, R_BP, top),
                Line("LOD_2", R_TP, R_IP, 32),
                Line("STO_3", R_BP, R_TP, top + 4),
                Line("LOD_2", R_BP, R_BP, top),
                Named("JMP_0", 0, func.name)>>
      called == [Emit(w, code) EXCEPT !.oon = 0]
      r == AllocReg(called, ret, rand)
  IN  IF ret = Nil THEN called
      ELSE Modify(Emit(Alloc(called, ret, r), <<Line("LOD_1", r, R_TP, 0)>>), r)

AsmReturn(g, value) ==
  LET w == ClearAllRegs(WriteBackAll(g))
  IN  Emit(IF value = Nil THEN w ELSE Load(w, R_TP, value),
            <<Line("LOD_5", R_JP, R_BP, RET_OFF), Line("LOD_4", R_BP, R_BP, 0),
              Line("JMP_1", R_JP, 0, 0)>>)

-----------------------------------------------------------------------------
(* The single cases of asm_code. *)
AsmCopy(g, a, b, rand) ==
  LET r == AllocReg(g, b, rand) IN Define(Alloc(g, b, r), r, a)

AsmInput(g, a, rand) ==
  LET r == AllocReg(g, a, rand)
      read == IF a.data = "CHAR" THEN "ITC" ELSE "ITI"
  IN  Modify(Emit(Alloc(g, a, r), <<Line(read, 0, 0, 0), Line("LOD_1", r, R_IO, 0)>>), r)

AsmOutput(g, a, rand) ==
  LET r == AllocReg(g, a, rand)
      show == CASE a.type = "TEXT" -> "OTS"
                [] a.data = "CHAR" -> "OTC"
                [] a.data = "INT" -> "OTI"
  IN  Emit(Alloc(g, a, r), <<Line("LOD_1", R_IO, r, 0), Line(show, 0, 0, 0)>>)

AsmActual(g, a, rand) ==
  LET r == AllocReg(g, a, rand)
  IN  [Emit(Alloc(g, a, r), <<Line("STO_3", R_BP, r, g.tof + g.oon)>>) EXCEPT !.oon = @ + 4]

AsmLabel(g, name) == Emit(ClearAllRegs(WriteBackAll(g)), <<LabelLine(name)>>)

BeginFunc(g) == [g EXCEPT !.tof = LOCAL_OFF, !.oof = FORMAL_OFF, !.oon = 0]

Formal(g, a) == [Place(g, a, g.oof) EXCEPT !.oof = @ - 4]

VarCode(g, a, size) ==
  IF a.scope = "LOCAL" THEN [Place(g, a, g.tof) EXCEPT !.tof = @ + size]
  ELSE [Place(g, a, g.tos) EXCEPT !.tos = @ + size]

(* The register for an address, and for a value loaded through one.        *)
AddrReg(g) ==
  LET clean == Gen \ g.mod
  IN  IF Holding(g, Nil) # {} THEN First(Holding(g, Nil))
      ELSE IF clean # {} THEN First(clean) ELSE R_GEN

ValueReg(g, rp) ==
  LET clean == (Gen \ g.mod) \ {rp}
  IN  IF Holding(g, Nil) # {} THEN First(Holding(g, Nil))
      ELSE IF clean # {} THEN First(clean) ELSE First(Gen \ {rp})

(* A wrong ADDR, which takes a global's offset for its address. *)
AsmAddrBare(g, a, b) ==
  LET r == AddrReg(g)
      code == IF b.scope = "LOCAL"
              THEN <<Line("LOD_1", r, R_BP, 0), Line("ADD_0", r, 0, OffsetOf(g, b))>>
              ELSE <<Line("LOD_0", r, 0, OffsetOf(g, b))>>
  IN  Define(Emit(WriteBack(g, r), code), r, a)

AsmAddr(g, a, b) ==
  LET dirty == Holding(g, b) \cap g.mod
      saved == IF dirty = {} THEN g ELSE WriteBack(g, First(dirty))
      r == AddrReg(saved)
      off == OffsetOf(g, b)
      code == IF b.scope = "LOCAL"
              THEN <<Line("LOD_1", r, R_BP, 0),
                     IF off >= 0 THEN Line("ADD_0", r, 0, off) ELSE Line("SUB_0", r, 0, -off)>>
              ELSE <<Named("LOD_0", r, "STATIC"), Unsigned("ADD_0", r, 0, off)>>
  IN  Define(Emit(WriteBack(saved, r), code), r, a)

AsmLoadPtr(g, a, b, rand) ==
  LET rp == AllocReg(g, b, rand)
      placed == Alloc(g, b, rp)
      rv == ValueReg(placed, rp)
      load == IF a.data = "CHAR" THEN "LDC_4" ELSE "LOD_4"
  IN  Define(Emit(RdescClear(WriteBack(placed, rv), rv), <<Line(load, rv, rp, 0)>>), rv, a)

(* The reload prints "R2+" whatever the sign of the offset.                *)
AsmStorePtr(g, a, b, rand) ==
  LET ra == AllocReg(g, a, rand)
      rb == AllocReg(Alloc(g, a, ra), b, rand)
      placed == Alloc(Alloc(g, a, ra), b, rb)
      off == OffsetOf(g, a)
      reload == IF a.scope = "LOCAL" THEN <<Unsigned("LOD_5", R_TP, R_BP, off)>>
                ELSE <<Named("LOD_0", R_TP, "STATIC"), Unsigned("LOD_5", R_TP, R_TP, off)>>
      store == Line(IF b.data = "CHAR" THEN "STC_1" ELSE "STO_1", IF ra = rb THEN R_TP ELSE ra, rb, 0)
      stored == Emit(placed, IF ra = rb THEN Append(reload, store) ELSE <<store>>)
  IN  ClearAllRegs(WriteBackAll(stored))

(* NEG makes a 0 of its own, which is not the constant of the program.     *)
Zero == Symbol("CONST_INT", "zero", "GLOBAL", "INT", <<0>>)

AsmCode(g, t, rand) ==
  CASE t.op \in {"ADD", "SUB", "MUL", "DIV"} -> AsmBin(g, t.op, t.a, t.b, t.c, rand).g
    [] t.op = "NEG" -> AsmBin(g, "SUB", t.a, Zero, t.b, rand).g
    [] t.op \in DOMAIN Jump -> AsmCmp(g, t.op, t.a, t.b, t.c, rand)
    [] t.op = "COPY" -> AsmCopy(g, t.a, t.b, rand)
    [] t.op = "INPUT" -> AsmInput(g, t.a, rand)
    [] t.op = "OUTPUT" -> AsmOutput(g, t.a, rand)
    [] t.op = "GOTO" -> AsmCond(g, "JMP_0", Nil, t.a.name, rand)
    [] t.op = "IFZ" -> AsmCond(g, "JEZ_0", t.b, t.a.name, rand)
    [] t.op = "LABEL" -> AsmLabel(g, t.a.name)
    [] t.op = "ACTUAL" -> AsmActual(g, t.a, rand)
    [] t.op = "CALL" -> AsmCall(g, t.a, t.b, rand)
    [] t.op = "BEGINFUNC" -> BeginFunc(g)
    [] t.op = "FORMAL" -> Formal(g, t.a)
    [] t.op = "VAR" -> VarCode(g, t.a, Number(t.c))
    [] t.op = "RETURN" -> AsmReturn(g, t.a)
    [] t.op = "ENDFUNC" -> AsmReturn(g, Nil)
    [] t.op = "ADDR" -> AsmAddr(g, t.a, t.b)
    [] t.op = "LOAD_PTR" -> AsmLoadPtr(g, t.a, t.b, rand)
    [] t.op = "STORE_PTR" -> AsmStorePtr(g, t.a, t.b, rand)

-----------------------------------------------------------------------------
(* The lines around the program's own. *)
MainFirst(tacs) ==
  LET labels == SelectSeq(tacs, LAMBDA t : t.op = "LABEL")
  IN  labels # <<>> /\ Head(labels).a.name = "main"

AsmHead(g, tacs) ==
  Emit(g, <<Named("LOD_0", R_BP, "STACK"), Line("STO_0", R_BP, 0, 0),
             Named("LOD_0", R_TP, "EXIT"), Line("STO_3", R_BP, R_TP, RET_OFF)>>
           \o IF MainFirst(tacs) THEN <<>> ELSE <<Named("JMP_0", 0, "main")>>)

AsmStr(s) == <<LabelLine(TextLabel(s)), [Named("DBS", 0, "") EXCEPT !.bytes = Append(s.value, 0)]>>

(* The texts come in the order of a hash table. *)
AsmStatic(g, texts) ==
  Emit(g, FlattenSeq([i \in DOMAIN texts |-> AsmStr(texts[i])])
           \o <<LabelLine("STATIC"), Line("DBN", 0, 0, g.tos), LabelLine("STACK")>>)

AsmTail(g) == Emit(g, <<LabelLine("EXIT"), Line("END", 0, 0, 0)>>)
=============================================================================
