------------------------------ MODULE RegAlloc ------------------------------
(***************************************************************************)
(* The code generator's register allocation, ccpl/src/modules/obj.cc.      *)
(*                                                                         *)
(* ObjGenerator keeps, at compile time, a descriptor per register: which   *)
(* symbol it holds and whether it was modified since memory last agreed.   *)
(* The assembly it prints moves words between registers and memory at run  *)
(* time.  The model runs the two in lockstep along one executed path: an   *)
(* action is one call of asm_code, and it changes the descriptors the way  *)
(* the generator does and the registers and memory the way the printed     *)
(* instructions do.  Labels forget every descriptor, so along any path the *)
(* descriptors are those of the straight line since the last label.        *)
(*                                                                         *)
(* R_TP (R4) never carries a value from one TAC to the next and is a LET   *)
(* here; the stack words of a call are module CallFrame's.                 *)
(***************************************************************************)
EXTENDS ThreeAddress

CONSTANTS
  Gen,               \* the registers R_GEN .. R_NUM-1
  R_IO,              \* the I/O register, the last of them
  Admit              \* which of the Cases below may happen

(* Three situations in which the generated code does not do what the TAC   *)
(* says.  A run admits them by name; with none, the guards below exclude   *)
(* exactly the steps that run into them.                                   *)
(*   "io"     INPUT or OUTPUT while R_IO holds some other symbol           *)
(*   "spill"  the random register reg_alloc spills for operand c is the    *)
(*            one that operand b was just placed in                        *)
(*   "alias"  a pointer access to a variable a register holds modified     *)
Cases == {"io", "spill", "alias"}

ASSUME RegistersAssumption ==
  /\ Gen \subseteq Nat
  /\ R_IO \in Gen
  /\ \E q \in Gen : q # R_IO
  /\ Admit \subseteq Cases

VARIABLES
  var,    \* reg_desc[r].var
  mod,    \* the registers r with reg_desc[r].state = MODIFIED
  reg,    \* the registers
  mem,    \* the variables' homes in the frame or in STATIC
  obs     \* the instruction executed and what it showed

vars == <<var, mod, reg, mem, obs>>

Silent(op, a, b, c) == Report(Tac(op, a, b, c), Nothing, Nothing)

-----------------------------------------------------------------------------
(* A machine state S = [var, mod, reg, mem] is threaded through the steps  *)
(* of one asm_code call; Become makes the last of them the next state.     *)

Machine == [var |-> var, mod |-> mod, reg |-> reg, mem |-> mem]

Become(S) ==
  /\ var' = S.var
  /\ mod' = S.mod
  /\ reg' = S.reg
  /\ mem' = S.mem

Holding(S, s) == {r \in Gen : S.var[r] = s}
Empty(S) == Holding(S, None)
Clean(S) == Gen \ S.mod

(* A variable's value is in the register that holds it, else at its home.  *)
ViewOf(S) ==
  [x \in Vars |-> IF Holding(S, x) = {} THEN S.mem[x]
                  ELSE S.reg[CHOOSE r \in Holding(S, x) : TRUE]]

View == ViewOf(Machine)

Store == INSTANCE TacStore WITH val <- View

(* The register a loop from R_GEN upwards stops at. *)
First(R) == {r \in R : \A q \in R : r <= q}

Modify(S, r) == [S EXCEPT !.mod = @ \cup {r}]

RdescClear(S, r) == [S EXCEPT !.var[r] = None, !.mod = @ \ {r}]

(* Three ways to get rdesc_fill and its callers wrong: the other holders   *)
(* of s stay, or lose s but not their state; or the mark MODIFIED is lost. *)
FillKeepsHolders(S, r, s) == [S EXCEPT !.var[r] = s, !.mod = @ \ {r}]

FillKeepsStates(S, r, s) ==
  [S EXCEPT
     !.var = [q \in Gen |-> IF q = r THEN s
                            ELSE IF S.var[q] = s THEN None ELSE S.var[q]],
     !.mod = @ \ {r}]

FillUnmodified(S, r, a) == FillKeepsStates(S, r, a)

(* rdesc_fill with UNMODIFIED; with MODIFIED, Modify follows. *)
RdescFill(S, r, s) ==
  [S EXCEPT
     !.var = [q \in Gen |-> IF q = r THEN s
                            ELSE IF S.var[q] = s THEN None ELSE S.var[q]],
     !.mod = @ \ ({r} \cup Holding(S, s))]

Define(S, r, a) == Modify(RdescFill(S, r, a), r)

(* A wrong asm_write_back: the register's number is stored. *)
WriteBackNumber(S, r) ==
  [S EXCEPT
     !.mem = [x \in Vars |-> IF S.var[r] = x /\ r \in S.mod THEN r ELSE S.mem[x]],
     !.mod = @ \ {q \in {r} : S.var[q] # None}]

(* A literal has no home: its write-back addresses STATIC-1, no variable.  *)
WriteBack(S, r) ==
  [S EXCEPT
     !.mem = [x \in Vars |-> IF S.var[r] = x /\ r \in S.mod THEN S.reg[r] ELSE S.mem[x]],
     !.mod = @ \ {q \in {r} : S.var[q] # None}]

DirtyCopies(S, x) == Holding(S, x) \cap S.mod

(* The registers are visited in order: the last dirty copy is what stays.  *)
WriteBackAll(S) ==
  [S EXCEPT
     !.mem = [x \in Vars |-> IF DirtyCopies(S, x) = {} THEN S.mem[x]
                             ELSE S.reg[CHOOSE r \in DirtyCopies(S, x) :
                                          \A q \in DirtyCopies(S, x) : q <= r]],
     !.mod = @ \cap Empty(S)]

ClearAllRegs(S) ==
  [S EXCEPT !.var = [r \in Gen |-> None], !.mod = {}]

(* What asm_load leaves in its target: a register's copy, the literal, or  *)
(* the word at the variable's home.                                        *)
Loaded(S, s) ==
  IF Holding(S, s) # {} THEN S.reg[CHOOSE r \in First(Holding(S, s)) : TRUE]
  ELSE IF s \in Lits THEN LitVal[s]
  ELSE S.mem[s]

SetReg(S, r, v) == [S EXCEPT !.reg[r] = v]

(* reg_alloc: the registers it may return for s, and the state it leaves   *)
(* having chosen r.  The last resort is rand() over the whole pool.        *)
AllocRegs(S, s) ==
  IF Holding(S, s) # {} THEN First(Holding(S, s))
  ELSE IF Empty(S) # {} THEN First(Empty(S))
  ELSE IF Clean(S) # {} THEN First(Clean(S))
  ELSE Gen

Alloc(S, s, r) ==
  IF S.var[r] = s
  THEN WriteBack(S, r)
  ELSE LET W == WriteBack(S, r)
       IN  RdescFill(SetReg(W, r, Loaded(W, s)), r, s)

-----------------------------------------------------------------------------
(* asm_bin: operand b's register is marked modified while c is placed, so  *)
(* that reg_alloc's search for a clean register passes over it.            *)

PinB(S, b, rb) == Modify(Alloc(S, b, rb), rb)

PlaceC(S, b, rb, c, rc) ==
  [Alloc(PinB(S, b, rb), c, rc) EXCEPT
     !.mod = (@ \ {rb}) \cup (Alloc(S, b, rb).mod \cap {rb})]

(* Operate in place on operand b's register and give it to the result a.   *)
Result(S, op, a, rb, v) == Define(SetReg(S, rb, ALU[<<op, S.reg[rb], v>>]), rb, a)

(* asm_cmp subtracts like asm_bin and then loads 0 or 1 over the result;   *)
(* ALU of a comparison is that answer: only the descriptor differs.        *)
CmpResult(S, op, a, rb, v) == Define(RdescClear(Result(S, op, a, rb, v), rb), rb, a)

Finish(S, op, a, rb, v) ==
  IF op \in Rel THEN CmpResult(S, op, a, rb, v) ELSE Result(S, op, a, rb, v)

AsmBin(op, a, b, c) ==
  IF c \in Lits
  THEN \E rb \in AllocRegs(Machine, b) :
         Become(Finish(PinB(Machine, b, rb), op, a, rb, LitVal[c]))
  ELSE \E rb \in AllocRegs(Machine, b) :
       \E rc \in AllocRegs(PinB(Machine, b, rb), c) :
         LET S == PlaceC(Machine, b, rb, c, rc)
         IN  /\ rc = rb => b = c \/ "spill" \in Admit
             /\ Become(Finish(S, op, a, rb, S.reg[rc]))

Bin(op, a, b, c) ==
  /\ AsmBin(op, a, b, c)
  /\ obs' = Silent(op, a, b, c)

(* NEG makes a fresh constant 0, which no descriptor holds, and subtracts. *)
Neg(a, b) ==
  /\ AsmBin("SUB", a, Zero, b)
  /\ obs' = Silent("NEG", a, b, None)

Copy(a, b) ==
  /\ \E r \in AllocRegs(Machine, b) :
       Become(Define(Alloc(Machine, b, r), r, a))
  /\ obs' = Silent("COPY", a, b, None)

-----------------------------------------------------------------------------
(* INPUT and OUTPUT go through R_IO, a member of the pool that reg_alloc   *)
(* hands out; nothing saves it or tells its descriptor.                    *)

IoSafe(S, r) == "io" \in Admit \/ r = R_IO \/ S.var[R_IO] = None

Input(a) ==
  \E r \in AllocRegs(Machine, a), v \in Value :
    LET S == Alloc(Machine, a, r)
    IN  /\ IoSafe(S, r)
        /\ Become(Modify(SetReg(SetReg(S, R_IO, v), r, v), r))
        /\ obs' = Report(Tac("INPUT", a, None, None), <<v>>, Nothing)

Output(s) ==
  \E r \in AllocRegs(Machine, s) :
    LET S == Alloc(Machine, s, r)
    IN  /\ IoSafe(S, r)
        /\ Become(SetReg(S, R_IO, S.reg[r]))
        /\ obs' = Report(Tac("OUTPUT", s, None, None), <<S.reg[r]>>, Nothing)

Actual(s) ==
  \E r \in AllocRegs(Machine, s) :
    LET S == Alloc(Machine, s, r)
    IN  /\ Become(S)
        /\ obs' = Report(Tac("ACTUAL", s, None, None), <<S.reg[r]>>, Nothing)

-----------------------------------------------------------------------------
(* Control.  A jump lands after a LABEL, where the generator knows nothing *)
(* of any register; falling into a LABEL executes its write-backs first.   *)

Goto ==
  /\ Become(ClearAllRegs(WriteBackAll(Machine)))
  /\ obs' = Silent("GOTO", None, None, None)

(* A wrong LABEL, which forgets without writing back. *)
LabelDrops ==
  /\ Become(ClearAllRegs(Machine))
  /\ obs' = Silent("LABEL", None, None, None)

Label ==
  /\ Become(ClearAllRegs(WriteBackAll(Machine)))
  /\ obs' = Silent("LABEL", None, None, None)

Ifz(s) ==
  LET W == WriteBackAll(Machine) IN
  \E r \in AllocRegs(W, s) :
    LET S == Alloc(W, s, r)
    IN  /\ Become(IF S.reg[r] = LitVal[Zero] THEN ClearAllRegs(S) ELSE S)
        /\ obs' = Report(Tac("IFZ", s, None, None), <<S.reg[r]>>, Nothing)

MemPublished(S) == [x \in Shared |-> S.mem[x]]

(* The callee runs between the JMP and the code for the result: it leaves  *)
(* the registers and the shared variables in any state it likes.           *)
Call(ret) ==
  LET S == ClearAllRegs(WriteBackAll(Machine)) IN
  \E g \in [Gen -> Value], sh \in [Shared -> Value] :
    LET T == [S EXCEPT !.reg = g,
                       !.mem = [x \in Vars |-> IF x \in Shared THEN sh[x] ELSE @[x]]]
    IN  /\ IF ret = None
           THEN Become(T)
           ELSE \E r \in AllocRegs(T, ret), v \in Value :
                  Become(Modify(SetReg(Alloc(T, ret, r), r, v), r))
        /\ obs' = Report(Tac("CALL", ret, None, None), Nothing, MemPublished(S))

(* After a return this function's code runs again in another activation.   *)
Return(s) ==
  LET S == ClearAllRegs(WriteBackAll(Machine)) IN
  \E g \in [Gen -> Value], m \in [Vars -> Value] :
    /\ Become([S EXCEPT !.reg = g, !.mem = m])
    /\ obs' = Report(Tac("RETURN", s, None, None),
                     IF s = None THEN Nothing ELSE <<Loaded(S, s)>>, MemPublished(S))

-----------------------------------------------------------------------------
(* Pointers. *)

(* The register an address is formed in: empty, else clean, else R_GEN.    *)
AddrRegs(S) ==
  IF Empty(S) # {} THEN First(Empty(S))
  ELSE IF Clean(S) # {} THEN First(Clean(S))
  ELSE First(Gen)

SaveOne(S, x) ==
  IF DirtyCopies(S, x) = {} THEN S
  ELSE WriteBack(S, CHOOSE r \in First(DirtyCopies(S, x)) : TRUE)

Addr(a, b) ==
  LET S == SaveOne(Machine, b) IN
  /\ \E r \in AddrRegs(S) :
       Become(Define(SetReg(WriteBack(S, r), r, AddrOf[b]), r, a))
  /\ obs' = Silent("ADDR", a, b, None)

(* The register a dereferenced value is loaded to, never the pointer's.    *)
TargetRegs(S, rp) ==
  IF Empty(S) # {} THEN First(Empty(S))
  ELSE IF Clean(S) \ {rp} # {} THEN First(Clean(S) \ {rp})
  ELSE First(Gen \ {rp})

AliasSafe(S, x) == "alias" \in Admit \/ DirtyCopies(S, x) = {}

LoadPtr(a, b) ==
  \E rp \in AllocRegs(Machine, b) :
    LET S == Alloc(Machine, b, rp) IN
    \E rv \in TargetRegs(S, rp), x \in Addressable :
      LET T == RdescClear(WriteBack(S, rv), rv)
      IN  /\ AddrOf[x] = T.reg[rp]
          /\ AliasSafe(T, x)
          /\ Become(Define(SetReg(T, rv, T.mem[x]), rv, a))
          /\ obs' = Silent("LOAD_PTR", a, b, None)

(* If b was placed over the pointer, the pointer is read again from its    *)
(* home.  The registers still modified are written back after the store.   *)
StorePtr(a, b) ==
  \E ra \in AllocRegs(Machine, a) :
  \E rb \in AllocRegs(Alloc(Machine, a, ra), b) :
  \E x \in Addressable :
    LET S == Alloc(Alloc(Machine, a, ra), b, rb)
    IN  /\ AddrOf[x] = IF ra = rb THEN S.mem[a] ELSE S.reg[ra]
        /\ AliasSafe(S, x)
        /\ Become(ClearAllRegs(WriteBackAll([S EXCEPT !.mem[x] = S.reg[rb]])))
        /\ obs' = Silent("STORE_PTR", a, b, None)

-----------------------------------------------------------------------------
Init ==
  /\ var = [r \in Gen |-> None]
  /\ mod = {}
  /\ reg \in [Gen -> Value]
  /\ mem \in [Vars -> Value]
  /\ obs = Silent("BEGINFUNC", None, None, None)

Next ==
  \/ \E a \in Vars, b, c \in Operands, op \in Arith \cup Rel : Bin(op, a, b, c)
  \/ \E a \in Vars, b \in Operands : Neg(a, b)
  \/ \E a \in Vars, b \in Operands : Copy(a, b)
  \/ \E a \in Vars : Input(a)
  \/ \E s \in Operands : Output(s)
  \/ \E s \in Operands : Actual(s)
  \/ Goto
  \/ Label
  \/ \E s \in Operands : Ifz(s)
  \/ \E ret \in (Vars \ Shared) \cup {None} : Call(ret)
  \/ \E s \in Operands \cup {None} : Return(s)
  \/ \E a \in Vars, b \in Addressable : Addr(a, b)
  \/ \E a, b \in Vars : LoadPtr(a, b)
  \/ \E a \in Vars, b \in Operands : StorePtr(a, b)

Spec == Init /\ [][Next]_vars

-----------------------------------------------------------------------------
(* Every descriptor names a symbol or none, every register and home holds  *)
(* a machine word: the state asm_code can be called in.                    *)
TypeOK ==
  /\ var \in [Gen -> Vars \cup Lits \cup {None}]
  /\ mod \subseteq Gen
  /\ reg \in [Gen -> Value]
  /\ mem \in [Vars -> Value]

(* No symbol is ever in two registers: rdesc_fill clears the other holders *)
(* and reg_alloc reuses the register that has the symbol.  The searches of *)
(* asm_load and asm_cond, which stop at the first holder, rely on it.      *)
UniqueHolder ==
  \A q, r \in Gen : var[q] = var[r] /\ var[q] # None => q = r

(* MODIFIED means "memory is behind"; only a variable has a home to be     *)
(* written back to, so outside asm_bin's temporary mark no literal and no  *)
(* empty register may carry it (asm_write_back would store a literal at    *)
(* STATIC-1, and reg_alloc would never find such a register clean).        *)
DirtyIsVariable ==
  \A r \in mod : var[r] \in Vars

(* A register the generator believes UNMODIFIED can be dropped without a   *)
(* store: it holds what memory (or the literal) holds.  R_IO keeps the     *)
(* promise only as long as no INPUT or OUTPUT goes through it.             *)
CleanCoherent ==
  \A r \in Gen \ mod :
    /\ var[r] # None
    /\ r # R_IO \/ "io" \notin Admit
    => reg[r] = IF var[r] \in Lits THEN LitVal[var[r]] ELSE mem[var[r]]

(* The printed assembly computes what the three-address code means: every  *)
(* asm_code call changes the variables, and shows values, as one TacStore  *)
(* instruction.  Holds as long as none of the Cases is admitted.           *)
Implements == Store!Spec

(* "CRITICAL FIX: Mark reg_b as MODIFIED temporarily to prevent            *)
(* reg_alloc(c) from choosing this register and overwriting the value"     *)
(* (obj.cc): whatever register is chosen, a binary operation combines its  *)
(* two operands.                                                           *)
OperandsSurvive ==
  [][obs'.tac.op \in Arith \cup Rel =>
       View'[obs'.tac.a] = ALU[<<obs'.tac.op, Store!ValueOf(obs'.tac.b),
                                 Store!ValueOf(obs'.tac.c)>>]]_vars

(* "Register Descriptors: Track which variable is in which register and    *)
(* whether it's modified" (the_ccpl_architecture.md): printing a value     *)
(* leaves every variable what it was.                                      *)
OutputChangesNothing ==
  [][obs'.tac.op = "OUTPUT" => View' = View]_vars
=============================================================================
