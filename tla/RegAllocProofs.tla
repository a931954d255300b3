--------------------------- MODULE RegAllocProofs ---------------------------
(***************************************************************************)
(* Proofs about RegAlloc for every set of symbols, registers and words and *)
(* for every choice of admitted cases.                                     *)
(*                                                                         *)
(* The invariant is stated of a machine state S rather than of the         *)
(* variables, because one TAC goes through several machine states.  In the *)
(* middle of asm_bin one register, E, is exempt: it is marked modified to  *)
(* protect operand b, whatever it holds.                                   *)
(***************************************************************************)
EXTENDS RegAlloc, TLAPS

Symbols == Vars \cup Lits \cup {None}

Typed(S) ==
  S \in [var : [Gen -> Symbols], mod : SUBSET Gen,
         reg : [Gen -> Value], mem : [Vars -> Value]]

Unique(S) ==
  \A q, r \in Gen : S.var[q] = S.var[r] /\ S.var[q] # None => q = r

DirtyVar(S, E) == \A r \in S.mod \ E : S.var[r] \in Vars

Home(S, s) == IF s \in Lits THEN LitVal[s] ELSE S.mem[s]

Coherent(S, E) ==
  \A r \in Gen \ (S.mod \cup E) :
    S.var[r] # None /\ (r # R_IO \/ "io" \notin Admit)
    => S.reg[r] = Home(S, S.var[r])

Good(S, E) == Typed(S) /\ Unique(S) /\ DirtyVar(S, E) /\ Coherent(S, E)

-----------------------------------------------------------------------------
(* What the operators of RegAlloc do to a typed state, field by field. *)

LEMMA WriteBackFields ==
  ASSUME NEW S, Typed(S), NEW r \in Gen
  PROVE  /\ Typed(WriteBack(S, r))
         /\ WriteBack(S, r).var = S.var
         /\ WriteBack(S, r).reg = S.reg
         /\ WriteBack(S, r).mod = S.mod \ {q \in {r} : S.var[q] # None}
         /\ \A x \in Vars : WriteBack(S, r).mem[x] =
                              IF S.var[r] = x /\ r \in S.mod THEN S.reg[r] ELSE S.mem[x]
  BY SymbolsAssumption DEF Typed, Symbols, WriteBack

LEMMA RdescFillFields ==
  ASSUME NEW S, Typed(S), NEW r \in Gen, NEW s \in Symbols
  PROVE  /\ Typed(RdescFill(S, r, s))
         /\ RdescFill(S, r, s).reg = S.reg
         /\ RdescFill(S, r, s).mem = S.mem
         /\ RdescFill(S, r, s).mod = S.mod \ ({r} \cup Holding(S, s))
         /\ \A q \in Gen : RdescFill(S, r, s).var[q] =
                             IF q = r THEN s ELSE IF S.var[q] = s THEN None ELSE S.var[q]
  BY DEF Typed, Symbols, RdescFill

LEMMA RdescClearFields ==
  ASSUME NEW S, Typed(S), NEW r \in Gen
  PROVE  /\ Typed(RdescClear(S, r))
         /\ RdescClear(S, r).reg = S.reg
         /\ RdescClear(S, r).mem = S.mem
         /\ RdescClear(S, r).mod = S.mod \ {r}
         /\ \A q \in Gen : RdescClear(S, r).var[q] = IF q = r THEN None ELSE S.var[q]
  BY DEF Typed, Symbols, RdescClear

LEMMA ModifyFields ==
  ASSUME NEW S, Typed(S), NEW r \in Gen
  PROVE  /\ Typed(Modify(S, r))
         /\ Modify(S, r).var = S.var
         /\ Modify(S, r).reg = S.reg
         /\ Modify(S, r).mem = S.mem
         /\ Modify(S, r).mod = S.mod \cup {r}
  BY DEF Typed, Modify

LEMMA SetRegFields ==
  ASSUME NEW S, Typed(S), NEW r \in Gen, NEW v \in Value
  PROVE  /\ Typed(SetReg(S, r, v))
         /\ SetReg(S, r, v).var = S.var
         /\ SetReg(S, r, v).mod = S.mod
         /\ SetReg(S, r, v).mem = S.mem
         /\ \A q \in Gen : SetReg(S, r, v).reg[q] = IF q = r THEN v ELSE S.reg[q]
  BY DEF Typed, SetReg

(* A symbol no register holds is loaded from its home. *)
LEMMA LoadedFromHome ==
  ASSUME NEW S, Typed(S), NEW s \in Vars \cup Lits, Holding(S, s) = {}
  PROVE  /\ Loaded(S, s) = Home(S, s)
         /\ Loaded(S, s) \in Value
  BY SymbolsAssumption, ValuesAssumption DEF Loaded, Home, Typed

LEMMA AllocRegsInPool ==
  ASSUME NEW S, NEW s
  PROVE  AllocRegs(S, s) \subseteq Gen
  BY DEF AllocRegs, First, Holding, Empty, Clean

-----------------------------------------------------------------------------
(* What they preserve. *)

LEMMA ExemptionGood ==
  ASSUME NEW S, Good(S, {}), NEW E
  PROVE  Good(S, E)
  BY DEF Good, DirtyVar, Coherent

LEMMA WriteBackGood ==
  ASSUME NEW S, NEW E, Good(S, E), NEW r \in Gen
  PROVE  Good(WriteBack(S, r), E)
<1> DEFINE T == WriteBack(S, r)
<1>1. /\ Typed(T) /\ T.var = S.var /\ T.reg = S.reg
      /\ T.mod = S.mod \ {q \in {r} : S.var[q] # None}
      /\ \A x \in Vars : T.mem[x] = IF S.var[r] = x /\ r \in S.mod THEN S.reg[r] ELSE S.mem[x]
  BY WriteBackFields DEF Good
<1> HIDE DEF T
<1>2. Unique(T)
  BY <1>1 DEF Good, Unique
<1>3. DirtyVar(T, E)
  BY <1>1 DEF Good, DirtyVar
<1>4. Coherent(T, E)
  <2> SUFFICES ASSUME NEW q \in Gen \ (T.mod \cup E),
                      T.var[q] # None, q # R_IO \/ "io" \notin Admit
               PROVE  T.reg[q] = Home(T, T.var[q])
    BY DEF Coherent
  <2>1. CASE q = r /\ r \in S.mod
    <3>1. S.var[r] \in Vars
      BY <2>1 DEF Good, DirtyVar
    <3> QED BY <1>1, <2>1, <3>1, SymbolsAssumption DEF Home
  <2>2. CASE q # r \/ r \notin S.mod
    <3>1. S.reg[q] = Home(S, S.var[q])
      BY <1>1, <2>2 DEF Good, Coherent
    <3>2. S.var[q] \in Vars => T.mem[S.var[q]] = S.mem[S.var[q]]
      BY <1>1, <2>2 DEF Good, Unique
    <3>3. S.var[q] \in Vars \cup Lits
      BY <1>1 DEF Good, Typed, Symbols
    <3> QED BY <1>1, <3>1, <3>2, <3>3 DEF Home
  <2> QED BY <2>1, <2>2
<1> QED BY <1>1, <1>2, <1>3, <1>4 DEF Good, T

(* A register may take over a symbol from its home, unmodified. *)
LEMMA FillFromHomeGood ==
  ASSUME NEW S, NEW E, Good(S, E), NEW r \in Gen, NEW s \in Vars \cup Lits,
         Holding(S, s) = {}
  PROVE  LET T == RdescFill(SetReg(S, r, Loaded(S, s)), r, s)
         IN  Good(T, E) /\ T.var[r] = s /\ r \notin T.mod
<1> DEFINE v == Loaded(S, s)
           W == SetReg(S, r, v)
           T == RdescFill(W, r, s)
<1>0. Typed(S) /\ s \in Symbols /\ v = Home(S, s) /\ v \in Value
  BY LoadedFromHome DEF Good, Symbols
<1> HIDE DEF v
<1>1. /\ Typed(W) /\ W.var = S.var /\ W.mod = S.mod /\ W.mem = S.mem
      /\ \A q \in Gen : W.reg[q] = IF q = r THEN v ELSE S.reg[q]
  BY <1>0, SetRegFields
<1> HIDE DEF W
<1>2. /\ Typed(T) /\ T.reg = W.reg /\ T.mem = W.mem
      /\ T.mod = W.mod \ ({r} \cup Holding(W, s))
      /\ \A q \in Gen : T.var[q] = IF q = r THEN s
                                    ELSE IF W.var[q] = s THEN None ELSE W.var[q]
  BY <1>0, <1>1, RdescFillFields
<1> HIDE DEF T
<1>3. \A q \in Gen : q # r => T.var[q] = S.var[q] /\ T.reg[q] = S.reg[q]
  BY <1>1, <1>2 DEF Holding
<1>4. T.var[r] = s /\ r \notin T.mod /\ T.reg[r] = v
  BY <1>0, <1>1, <1>2
<1>5. T.mod = S.mod \ {r}
  BY <1>1, <1>2 DEF Holding
<1>6. Unique(T)
  BY <1>3, <1>4 DEF Good, Unique, Holding
<1>7. DirtyVar(T, E)
  BY <1>0, <1>3, <1>5 DEF Good, DirtyVar, Typed
<1>8. Coherent(T, E)
  BY <1>0, <1>1, <1>2, <1>3, <1>4, <1>5 DEF Good, Coherent, Home
<1> QED BY <1>2, <1>4, <1>6, <1>7, <1>8 DEF Good, T, W, v

(* reg_alloc hands out a register that holds s, unmodified. *)
LEMMA AllocGood ==
  ASSUME NEW S, NEW E, Good(S, E), NEW s \in Vars \cup Lits, NEW r \in AllocRegs(S, s)
  PROVE  /\ Good(Alloc(S, s, r), E)
         /\ Alloc(S, s, r).var[r] = s
         /\ r \notin Alloc(S, s, r).mod
         /\ r \in Gen
<1>1. r \in Gen
  BY AllocRegsInPool
<1>2. s # None
  BY SymbolsAssumption
<1>3. CASE S.var[r] = s
  <2>1. Alloc(S, s, r) = WriteBack(S, r)
    BY <1>3 DEF Alloc
  <2>2. r \notin WriteBack(S, r).mod /\ WriteBack(S, r).var[r] = s
    BY <1>1, <1>2, <1>3, WriteBackFields DEF Good
  <2> QED BY <1>1, <2>1, <2>2, WriteBackGood
<1>4. CASE S.var[r] # s
  <2> DEFINE W == WriteBack(S, r)
  <2>1. Good(W, E) /\ W.var = S.var
    BY <1>1, WriteBackGood, WriteBackFields DEF Good
  <2>2. Holding(S, s) = {}
    BY <1>4 DEF AllocRegs, First, Holding
  <2>3. Holding(W, s) = {}
    BY <2>1, <2>2 DEF Holding
  <2>4. Alloc(S, s, r) = RdescFill(SetReg(W, r, Loaded(W, s)), r, s)
    BY <1>4 DEF Alloc
  <2> HIDE DEF W
  <2> QED BY <1>1, <2>1, <2>3, <2>4, FillFromHomeGood
<1> QED BY <1>1, <1>3, <1>4

LEMMA RdescClearGood ==
  ASSUME NEW S, NEW E, Good(S, E), NEW r \in Gen
  PROVE  Good(RdescClear(S, r), E)
<1> DEFINE T == RdescClear(S, r)
<1>1. /\ Typed(T) /\ T.reg = S.reg /\ T.mem = S.mem /\ T.mod = S.mod \ {r}
      /\ \A q \in Gen : T.var[q] = IF q = r THEN None ELSE S.var[q]
  BY RdescClearFields DEF Good
<1> HIDE DEF T
<1>2. S.mod \subseteq Gen
  BY DEF Good, Typed
<1>3. Unique(T)
  BY <1>1 DEF Good, Unique
<1>4. DirtyVar(T, E)
  BY <1>1, <1>2 DEF Good, DirtyVar
<1>5. Coherent(T, E)
  BY <1>1 DEF Good, Coherent, Home
<1> QED BY <1>1, <1>3, <1>4, <1>5 DEF Good, T

(* The exempt register may be written without further care... *)
LEMMA SetRegGood ==
  ASSUME NEW S, NEW r \in Gen, Good(S, {r}), NEW v \in Value
  PROVE  Good(SetReg(S, r, v), {r})
<1> DEFINE T == SetReg(S, r, v)
<1>1. /\ Typed(T) /\ T.var = S.var /\ T.mod = S.mod /\ T.mem = S.mem
      /\ \A q \in Gen : T.reg[q] = IF q = r THEN v ELSE S.reg[q]
  BY SetRegFields DEF Good
<1> HIDE DEF T
<1> QED BY <1>1 DEF Good, Unique, DirtyVar, Coherent, Home, T

(* ... and stops being exempt once it is the modified copy of a variable.  *)
LEMMA ModifyGood ==
  ASSUME NEW S, NEW r \in Gen, Good(S, {r}), S.var[r] \in Vars
  PROVE  Good(Modify(S, r), {})
<1> DEFINE T == Modify(S, r)
<1>1. /\ Typed(T) /\ T.var = S.var /\ T.reg = S.reg /\ T.mem = S.mem
      /\ T.mod = S.mod \cup {r}
  BY ModifyFields DEF Good
<1> HIDE DEF T
<1> QED BY <1>1 DEF Good, Unique, DirtyVar, Coherent, Home, T

LEMMA DefineGood ==
  ASSUME NEW S, NEW r \in Gen, Good(S, {r}), NEW a \in Vars
  PROVE  Good(Define(S, r, a), {})
<1> DEFINE T == RdescFill(S, r, a)
<1>1. /\ Typed(T) /\ T.reg = S.reg /\ T.mem = S.mem
      /\ T.mod = S.mod \ ({r} \cup Holding(S, a))
      /\ \A q \in Gen : T.var[q] = IF q = r THEN a
                                    ELSE IF S.var[q] = a THEN None ELSE S.var[q]
  BY RdescFillFields DEF Good, Symbols
<1> HIDE DEF T
<1>2. S.mod \subseteq Gen
  BY DEF Good, Typed
<1>3. Unique(T)
  BY <1>1 DEF Good, Unique
<1>4. DirtyVar(T, {r})
  BY <1>1, <1>2 DEF Good, DirtyVar, Holding
<1>5. Coherent(T, {r})
  BY <1>1 DEF Good, Coherent, Home, Holding
<1>6. Good(T, {r}) /\ T.var[r] \in Vars
  BY <1>1, <1>3, <1>4, <1>5 DEF Good
<1> QED BY <1>6, ModifyGood DEF Define, T

(* The exempt register gets a value and becomes the variable a's modified  *)
(* copy: the common end of a TAC.                                          *)
LEMMA SetAndDefineGood ==
  ASSUME NEW S, NEW r \in Gen, Good(S, {r}), NEW v \in Value, NEW a \in Vars
  PROVE  Good(Define(SetReg(S, r, v), r, a), {})
  BY SetRegGood, DefineGood

(* ALU[<<op, v, w>>] is a word. *)
LEMMA AluValue ==
  ASSUME NEW op \in Arith \cup Rel, NEW v \in Value, NEW w \in Value
  PROVE  ALU[<<op, v, w>>] \in Value
<1>1. <<op, v, w>> \in (Arith \cup Rel) \X Value \X Value
  OBVIOUS
<1> QED BY <1>1, ValuesAssumption

LEMMA FinishGood ==
  ASSUME NEW S, NEW rb \in Gen, Good(S, {rb}),
         NEW op \in Arith \cup Rel, NEW a \in Vars, NEW v \in Value
  PROVE  Good(Finish(S, op, a, rb, v), {})
<1>1. S.reg[rb] \in Value
  BY DEF Good, Typed
<1>2. ALU[<<op, S.reg[rb], v>>] \in Value
  BY <1>1, AluValue
<1>3. Good(Result(S, op, a, rb, v), {})
  BY <1>2, SetAndDefineGood DEF Result
<1>4. Good(RdescClear(Result(S, op, a, rb, v), rb), {rb})
  BY <1>3, RdescClearGood, ExemptionGood
<1>5. Good(CmpResult(S, op, a, rb, v), {})
  BY <1>4, DefineGood DEF CmpResult
<1> QED BY <1>3, <1>5 DEF Finish

-----------------------------------------------------------------------------
(* Between straight-line runs: write everything back, forget everything.   *)

(* At most one register holds a variable, so the copy that stays is some   *)
(* dirty copy.                                                             *)
LEMMA LastDirtyCopy ==
  ASSUME NEW S, Unique(S), NEW x \in Vars, DirtyCopies(S, x) # {}
  PROVE  (CHOOSE r \in DirtyCopies(S, x) : \A q \in DirtyCopies(S, x) : q <= r)
           \in DirtyCopies(S, x)
<1>1. PICK r \in DirtyCopies(S, x) : TRUE
  OBVIOUS
<1>2. x # None /\ DirtyCopies(S, x) \subseteq Gen
  BY SymbolsAssumption DEF DirtyCopies, Holding
<1>3. \A q \in DirtyCopies(S, x) : q = r
  BY <1>1, <1>2 DEF DirtyCopies, Holding, Unique
<1>4. r \in Nat
  BY <1>1, <1>2, RegistersAssumption
<1>5. \A q \in DirtyCopies(S, x) : q <= r
  BY <1>3, <1>4
<1> QED BY <1>1, <1>5

LEMMA WriteBackAllTyped ==
  ASSUME NEW S, Typed(S), Unique(S), DirtyVar(S, {})
  PROVE  /\ Typed(WriteBackAll(S))
         /\ WriteBackAll(S).var = S.var
         /\ WriteBackAll(S).reg = S.reg
         /\ WriteBackAll(S).mod = {}
<1> DEFINE last(x) == CHOOSE r \in DirtyCopies(S, x) : \A q \in DirtyCopies(S, x) : q <= r
           m == [x \in Vars |-> IF DirtyCopies(S, x) = {} THEN S.mem[x] ELSE S.reg[last(x)]]
<1>1. \A x \in Vars : DirtyCopies(S, x) # {} => last(x) \in Gen
  BY LastDirtyCopy DEF DirtyCopies, Holding
<1> HIDE DEF last
<1>2. m \in [Vars -> Value]
  BY <1>1 DEF Typed
<1>3. S.mod \cap Empty(S) = {}
  BY SymbolsAssumption DEF DirtyVar, Empty, Holding
<1>4. WriteBackAll(S) = [S EXCEPT !.mem = m, !.mod = {}]
  BY <1>3 DEF WriteBackAll, last
<1> HIDE DEF m
<1> QED BY <1>2, <1>4 DEF Typed

LEMMA ClearedGood ==
  ASSUME NEW S, Typed(S), S.mod = {}, \A r \in Gen : S.var[r] = None
  PROVE  Good(S, {})
  BY DEF Good, Unique, DirtyVar, Coherent

LEMMA ClearAllTyped ==
  ASSUME NEW S, Typed(S)
  PROVE  /\ Typed(ClearAllRegs(S))
         /\ ClearAllRegs(S).mod = {}
         /\ ClearAllRegs(S).mem = S.mem
         /\ \A r \in Gen : ClearAllRegs(S).var[r] = None
  BY DEF Typed, Symbols, ClearAllRegs

LEMMA FlushGood ==
  ASSUME NEW S, Typed(S), Unique(S), DirtyVar(S, {})
  PROVE  /\ Good(ClearAllRegs(WriteBackAll(S)), {})
         /\ ClearAllRegs(WriteBackAll(S)).mod = {}
         /\ \A r \in Gen : ClearAllRegs(WriteBackAll(S)).var[r] = None
  BY WriteBackAllTyped, ClearAllTyped, ClearedGood

LEMMA WriteBackAllGood ==
  ASSUME NEW S, Good(S, {})
  PROVE  Good(WriteBackAll(S), {})
<1> DEFINE T == WriteBackAll(S)
<1>1. Typed(T) /\ T.var = S.var /\ T.reg = S.reg /\ T.mod = {}
  BY WriteBackAllTyped DEF Good
<1>2. \A r \in Gen : S.var[r] \in Vars =>
        T.mem[S.var[r]] = IF r \in S.mod THEN S.reg[r] ELSE S.mem[S.var[r]]
  <2> SUFFICES ASSUME NEW r \in Gen, S.var[r] \in Vars
               PROVE  T.mem[S.var[r]] = IF r \in S.mod THEN S.reg[r] ELSE S.mem[S.var[r]]
    OBVIOUS
  <2> DEFINE x == S.var[r]
             last == CHOOSE p \in DirtyCopies(S, x) : \A q \in DirtyCopies(S, x) : q <= p
  <2>1. DirtyCopies(S, x) \subseteq {r}
    BY SymbolsAssumption DEF DirtyCopies, Holding, Good, Unique
  <2>2. DirtyCopies(S, x) # {} <=> r \in S.mod
    BY <2>1 DEF DirtyCopies, Holding
  <2>3. DirtyCopies(S, x) # {} => last = r
    BY <2>1, LastDirtyCopy DEF Good
  <2> HIDE DEF last
  <2>4. T.mem = [y \in Vars |-> IF DirtyCopies(S, y) = {} THEN S.mem[y]
                  ELSE S.reg[CHOOSE p \in DirtyCopies(S, y) :
                               \A q \in DirtyCopies(S, y) : q <= p]]
    BY DEF Good, Typed, WriteBackAll
  <2>5. T.mem[x] = IF DirtyCopies(S, x) = {} THEN S.mem[x] ELSE S.reg[last]
    BY <2>4 DEF last
  <2> QED BY <2>2, <2>3, <2>5
<1> HIDE DEF T
<1>3. Coherent(T, {})
  <2> SUFFICES ASSUME NEW r \in Gen, T.var[r] # None, r # R_IO \/ "io" \notin Admit
               PROVE  T.reg[r] = Home(T, T.var[r])
    BY <1>1 DEF Coherent
  <2>1. CASE r \in S.mod
    <3>1. S.var[r] \in Vars
      BY <2>1 DEF Good, DirtyVar
    <3> QED BY <1>1, <1>2, <2>1, <3>1, SymbolsAssumption DEF Home
  <2>2. CASE r \notin S.mod
    <3>1. S.var[r] \in Vars \cup Lits
      BY <1>1 DEF Good, Typed, Symbols
    <3>2. S.reg[r] = Home(S, S.var[r])
      BY <1>1, <2>2 DEF Good, Coherent
    <3> QED BY <1>1, <1>2, <2>2, <3>1, <3>2 DEF Home
  <2> QED BY <2>1, <2>2
<1>4. Unique(T) /\ DirtyVar(T, {})
  BY <1>1 DEF Good, Unique, DirtyVar
<1> QED BY <1>1, <1>3, <1>4 DEF Good, T

-----------------------------------------------------------------------------
(* The composite steps of the actions. *)

(* Operand b stays protected while c is placed, and is released again.     *)
LEMMA PinBGood ==
  ASSUME NEW S, Good(S, {}), NEW b \in Vars \cup Lits, NEW rb \in AllocRegs(S, b)
  PROVE  /\ Good(PinB(S, b, rb), {rb})
         /\ rb \in Gen
<1> DEFINE A == Alloc(S, b, rb)
           T == Modify(A, rb)
<1>1. Good(A, {}) /\ rb \in Gen
  BY AllocGood
<1> HIDE DEF A
<1>2. /\ Typed(T) /\ T.var = A.var /\ T.reg = A.reg /\ T.mem = A.mem
      /\ T.mod = A.mod \cup {rb}
  BY <1>1, ModifyFields DEF Good
<1> HIDE DEF T
<1>3. Good(T, {rb})
  BY <1>1, <1>2 DEF Good, Unique, DirtyVar, Coherent, Home
<1> QED BY <1>1, <1>3 DEF PinB, A, T

LEMMA PlaceCGood ==
  ASSUME NEW S, Good(S, {}),
         NEW b \in Vars \cup Lits, NEW rb \in AllocRegs(S, b),
         NEW c \in Vars \cup Lits, NEW rc \in AllocRegs(PinB(S, b, rb), c)
  PROVE  /\ Good(PlaceC(S, b, rb, c, rc), {rb})
         /\ rb \in Gen /\ rc \in Gen
<1> DEFINE A == Alloc(S, b, rb)
           W == Alloc(PinB(S, b, rb), c, rc)
           T == PlaceC(S, b, rb, c, rc)
<1>1. Good(PinB(S, b, rb), {rb}) /\ rb \in Gen
  BY PinBGood
<1>2. Good(W, {rb}) /\ rc \in Gen
  BY <1>1, AllocGood
<1>3. rb \notin A.mod
  BY AllocGood
<1>4. T = [W EXCEPT !.mod = (@ \ {rb}) \cup (A.mod \cap {rb})]
  BY DEF PlaceC
<1> HIDE DEF T, W, A
<1>5. /\ Typed(T) /\ T.var = W.var /\ T.reg = W.reg /\ T.mem = W.mem
      /\ T.mod = W.mod \ {rb}
  BY <1>1, <1>2, <1>3, <1>4 DEF Good, Typed
<1>6. Good(T, {rb})
  BY <1>2, <1>5 DEF Good, Unique, DirtyVar, Coherent, Home
<1> QED BY <1>1, <1>2, <1>6 DEF T

(* What IoSafe buys: writing R_IO behind the descriptors' back breaks no   *)
(* promise, unless that case is admitted, and then none is made for R_IO.  *)
LEMMA WriteIoGood ==
  ASSUME NEW S, NEW r \in Gen, Good(S, {r}), IoSafe(S, r), NEW v \in Value
  PROVE  Good(SetReg(S, R_IO, v), {r})
<1> DEFINE T == SetReg(S, R_IO, v)
<1>1. /\ Typed(T) /\ T.var = S.var /\ T.mod = S.mod /\ T.mem = S.mem
      /\ \A q \in Gen : T.reg[q] = IF q = R_IO THEN v ELSE S.reg[q]
  BY SetRegFields, RegistersAssumption DEF Good
<1> HIDE DEF T
<1> QED BY <1>1, RegistersAssumption
        DEF Good, Unique, DirtyVar, Coherent, Home, IoSafe, T

(* OUTPUT copies a register to R_IO; if that is R_IO itself, nothing moves. *)
LEMMA OutputGood ==
  ASSUME NEW S, NEW r \in Gen, Good(S, {}), IoSafe(S, r)
  PROVE  Good(SetReg(S, R_IO, S.reg[r]), {})
<1> DEFINE v == S.reg[r]
           T == SetReg(S, R_IO, v)
<1>1. v \in Value
  BY DEF Good, Typed
<1> HIDE DEF v
<1>2. /\ Typed(T) /\ T.var = S.var /\ T.mod = S.mod /\ T.mem = S.mem
      /\ \A q \in Gen : T.reg[q] = IF q = R_IO THEN v ELSE S.reg[q]
  BY <1>1, SetRegFields, RegistersAssumption DEF Good
<1> HIDE DEF T
<1> QED BY <1>2, RegistersAssumption
        DEF Good, Unique, DirtyVar, Coherent, Home, IoSafe, T, v

(* A store through a pointer changes the home of a variable of which no    *)
(* register has a modified copy; what every register holds is then dropped. *)
LEMMA MemTyped ==
  ASSUME NEW S, Typed(S), NEW x \in Vars, NEW v \in Value
  PROVE  LET T == [S EXCEPT !.mem[x] = v]
         IN  Typed(T) /\ T.var = S.var /\ T.mod = S.mod /\ T.reg = S.reg
  BY DEF Typed

-----------------------------------------------------------------------------
(* The invariant, and one lemma per action. *)

IInv == Good(Machine, {})

LEMMA IInvMeans ==
  IInv <=> TypeOK /\ UniqueHolder /\ DirtyIsVariable /\ CleanCoherent
<1>1. Typed(Machine) <=> TypeOK
  BY DEF Typed, Symbols, Machine, TypeOK
<1>2. Unique(Machine) <=> UniqueHolder
  BY DEF Unique, Machine, UniqueHolder
<1>3. DirtyVar(Machine, {}) <=> DirtyIsVariable
  BY DEF DirtyVar, Machine, DirtyIsVariable
<1>4. Coherent(Machine, {}) <=> CleanCoherent
  BY DEF Coherent, Home, Machine, CleanCoherent
<1> QED BY <1>1, <1>2, <1>3, <1>4 DEF IInv, Good

LEMMA BecomeGood ==
  ASSUME NEW S, Good(S, {}), Become(S)
  PROVE  IInv'
<1> DEFINE T == Machine'
<1>1. T.var = S.var /\ T.mod = S.mod /\ T.reg = S.reg /\ T.mem = S.mem
  BY DEF Become, Machine
<1>2. T = [var |-> S.var, mod |-> S.mod, reg |-> S.reg, mem |-> S.mem]
  BY DEF Become, Machine
<1>3. T = S
  BY <1>2 DEF Good, Typed
<1> QED BY <1>3 DEF IInv

LEMMA InitGood ==
  Init => IInv
<1> SUFFICES ASSUME Init PROVE Good(Machine, {})
  BY DEF IInv
<1>1. Typed(Machine) /\ Machine.mod = {} /\ \A r \in Gen : Machine.var[r] = None
  BY DEF Init, Machine, Typed, Symbols
<1> QED BY <1>1, ClearedGood

LEMMA OperandsAreSymbols ==
  Operands \subseteq Vars \cup Lits /\ Zero \in Vars \cup Lits
  BY SymbolsAssumption DEF Operands

LEMMA AsmBinGood ==
  ASSUME IInv, NEW op \in Arith \cup Rel, NEW a \in Vars,
         NEW b \in Vars \cup Lits, NEW c \in Vars \cup Lits, AsmBin(op, a, b, c)
  PROVE  IInv'
<1> DEFINE M == Machine
<1>0. Good(M, {})
  BY DEF IInv
<1> HIDE DEF M
<1>1. CASE c \in Lits
  <2>1. PICK rb \in AllocRegs(M, b) : Become(Finish(PinB(M, b, rb), op, a, rb, LitVal[c]))
    BY <1>1 DEF AsmBin, M
  <2>2. Good(PinB(M, b, rb), {rb}) /\ rb \in Gen /\ LitVal[c] \in Value
    BY <1>0, <1>1, PinBGood, ValuesAssumption
  <2> QED BY <2>1, <2>2, FinishGood, BecomeGood
<1>2. CASE c \notin Lits
  <2>1. PICK rb \in AllocRegs(M, b) : \E rc \in AllocRegs(PinB(M, b, rb), c) :
          Become(Finish(PlaceC(M, b, rb, c, rc), op, a, rb, PlaceC(M, b, rb, c, rc).reg[rc]))
    BY <1>2 DEF AsmBin, M
  <2>2. PICK rc \in AllocRegs(PinB(M, b, rb), c) :
          Become(Finish(PlaceC(M, b, rb, c, rc), op, a, rb, PlaceC(M, b, rb, c, rc).reg[rc]))
    BY <2>1
  <2> DEFINE S == PlaceC(M, b, rb, c, rc)
  <2>3. Good(S, {rb}) /\ rb \in Gen /\ rc \in Gen
    BY <1>0, PlaceCGood
  <2> HIDE DEF S
  <2>4. S.reg[rc] \in Value
    BY <2>3 DEF Good, Typed
  <2>5. Good(Finish(S, op, a, rb, S.reg[rc]), {})
    BY <2>3, <2>4, FinishGood
  <2> QED BY <2>2, <2>5, BecomeGood DEF S
<1> QED BY <1>1, <1>2

LEMMA CopyGood ==
  ASSUME IInv, NEW a \in Vars, NEW b \in Operands, Copy(a, b)
  PROVE  IInv'
<1>1. PICK r \in AllocRegs(Machine, b) : Become(Define(Alloc(Machine, b, r), r, a))
  BY DEF Copy
<1>2. Good(Alloc(Machine, b, r), {}) /\ r \in Gen
  BY AllocGood, OperandsAreSymbols DEF IInv
<1> QED BY <1>1, <1>2, ExemptionGood, DefineGood, BecomeGood

LEMMA InputGood ==
  ASSUME IInv, NEW a \in Vars, Input(a)
  PROVE  IInv'
<1> DEFINE A(r) == Alloc(Machine, a, r)
<1>1. PICK r \in AllocRegs(Machine, a) : \E v \in Value :
        IoSafe(A(r), r) /\ Become(Modify(SetReg(SetReg(A(r), R_IO, v), r, v), r))
  BY DEF Input
<1>2. PICK v \in Value :
        IoSafe(A(r), r) /\ Become(Modify(SetReg(SetReg(A(r), R_IO, v), r, v), r))
  BY <1>1
<1> DEFINE S == A(r)
           W == SetReg(S, R_IO, v)
           T == SetReg(W, r, v)
<1>3. Good(S, {}) /\ S.var[r] = a /\ r \in Gen
  BY AllocGood DEF IInv
<1>4. IoSafe(S, r) /\ Become(Modify(T, r))
  BY <1>2
<1> HIDE DEF A, S
<1>5. Good(W, {r}) /\ W.var = S.var
  <2>1. Good(S, {r})
    BY <1>3, ExemptionGood
  <2>2. Good(W, {r})
    BY <1>3, <1>4, <2>1, WriteIoGood
  <2>3. W.var = S.var
    BY <1>3, SetRegFields, RegistersAssumption DEF Good
  <2> QED BY <2>2, <2>3
<1> HIDE DEF W
<1>6. Good(T, {r}) /\ T.var = S.var
  BY <1>3, <1>5, SetRegGood, SetRegFields DEF Good
<1> HIDE DEF T
<1> QED BY <1>3, <1>4, <1>6, ModifyGood, BecomeGood

LEMMA OutputStepGood ==
  ASSUME IInv, NEW s \in Operands, Output(s)
  PROVE  IInv'
<1> DEFINE A(r) == Alloc(Machine, s, r)
<1>1. PICK r \in AllocRegs(Machine, s) :
        IoSafe(A(r), r) /\ Become(SetReg(A(r), R_IO, A(r).reg[r]))
  BY DEF Output
<1>2. Good(A(r), {}) /\ r \in Gen
  BY AllocGood, OperandsAreSymbols DEF IInv
<1> HIDE DEF A
<1> QED BY <1>1, <1>2, OutputGood, BecomeGood

LEMMA ActualGood ==
  ASSUME IInv, NEW s \in Operands, Actual(s)
  PROVE  IInv'
<1>1. PICK r \in AllocRegs(Machine, s) : Become(Alloc(Machine, s, r))
  BY DEF Actual
<1> QED BY <1>1, AllocGood, OperandsAreSymbols, BecomeGood DEF IInv

LEMMA JumpGood ==
  ASSUME IInv, Goto \/ Label
  PROVE  IInv'
<1>1. Become(ClearAllRegs(WriteBackAll(Machine)))
  BY DEF Goto, Label
<1> QED BY <1>1, FlushGood, BecomeGood DEF IInv, Good

LEMMA IfzGood ==
  ASSUME IInv, NEW s \in Operands, Ifz(s)
  PROVE  IInv'
<1> DEFINE W == WriteBackAll(Machine)
           S(r) == Alloc(W, s, r)
<1>1. PICK r \in AllocRegs(W, s) :
        Become(IF S(r).reg[r] = LitVal[Zero] THEN ClearAllRegs(S(r)) ELSE S(r))
  BY DEF Ifz
<1>2. Good(W, {})
  BY WriteBackAllGood DEF IInv
<1> HIDE DEF W
<1>3. Good(S(r), {})
  BY <1>2, AllocGood, OperandsAreSymbols
<1> HIDE DEF S
<1>4. Good(ClearAllRegs(S(r)), {})
  BY <1>3, ClearAllTyped, ClearedGood DEF Good
<1> QED BY <1>1, <1>3, <1>4, BecomeGood

(* Whatever another activation leaves in registers and memory, this one    *)
(* finds consistent, because it has forgotten everything.                  *)
LEMMA ForgottenGood ==
  ASSUME NEW S, Typed(S), S.mod = {}, \A r \in Gen : S.var[r] = None,
         NEW g \in [Gen -> Value], NEW m \in [Vars -> Value]
  PROVE  Good([S EXCEPT !.reg = g, !.mem = m], {})
<1> DEFINE T == [S EXCEPT !.reg = g, !.mem = m]
<1>1. Typed(T) /\ T.mod = S.mod /\ T.var = S.var
  BY DEF Typed
<1> HIDE DEF T
<1>2. Good(T, {})
  BY <1>1, ClearedGood
<1> QED BY <1>2 DEF T

LEMMA CallGood ==
  ASSUME IInv, NEW ret \in (Vars \ Shared) \cup {None}, Call(ret)
  PROVE  IInv'
<1> DEFINE S == ClearAllRegs(WriteBackAll(Machine))
           M(sh) == [x \in Vars |-> IF x \in Shared THEN sh[x] ELSE S.mem[x]]
           T(g, sh) == [S EXCEPT !.reg = g, !.mem = M(sh)]
<1>1. PICK g \in [Gen -> Value], sh \in [Shared -> Value] :
        IF ret = None THEN Become(T(g, sh))
        ELSE \E r \in AllocRegs(T(g, sh), ret), v \in Value :
               Become(Modify(SetReg(Alloc(T(g, sh), ret, r), r, v), r))
  BY DEF Call
<1>2. Typed(S) /\ S.mod = {} /\ \A r \in Gen : S.var[r] = None
  BY FlushGood DEF IInv, Good
<1> HIDE DEF S
<1>3. M(sh) \in [Vars -> Value]
  BY <1>2 DEF Typed
<1> DEFINE U == T(g, sh)
<1>4. Good(U, {})
  BY <1>2, <1>3, ForgottenGood
<1> HIDE DEF T
<1>5. CASE ret = None
  BY <1>1, <1>4, <1>5, BecomeGood
<1>6. CASE ret # None
  <2>1. PICK r \in AllocRegs(U, ret), v \in Value :
          Become(Modify(SetReg(Alloc(U, ret, r), r, v), r))
    BY <1>1, <1>6
  <2> DEFINE A == Alloc(U, ret, r)
             B == SetReg(A, r, v)
  <2> HIDE DEF U
  <2>2. Good(A, {}) /\ A.var[r] = ret /\ r \in Gen /\ ret \in Vars
    BY <1>4, <1>6, AllocGood
  <2>3. Become(Modify(B, r))
    BY <2>1
  <2> HIDE DEF A
  <2>4. Good(B, {r}) /\ B.var = A.var
    BY <2>2, ExemptionGood, SetRegGood, SetRegFields DEF Good
  <2> HIDE DEF B
  <2> QED BY <2>2, <2>3, <2>4, ModifyGood, BecomeGood
<1> QED BY <1>5, <1>6

LEMMA ReturnGood ==
  ASSUME IInv, NEW s, Return(s)
  PROVE  IInv'
<1> DEFINE S == ClearAllRegs(WriteBackAll(Machine))
<1>1. PICK g \in [Gen -> Value], m \in [Vars -> Value] :
        Become([S EXCEPT !.reg = g, !.mem = m])
  BY DEF Return
<1>2. Typed(S) /\ S.mod = {} /\ \A r \in Gen : S.var[r] = None
  BY FlushGood DEF IInv, Good
<1> HIDE DEF S
<1> QED BY <1>1, <1>2, ForgottenGood, BecomeGood

LEMMA AddrGood ==
  ASSUME IInv, NEW a \in Vars, NEW b \in Addressable, Addr(a, b)
  PROVE  IInv'
<1> DEFINE S == SaveOne(Machine, b)
<1>1. PICK r \in AddrRegs(S) : Become(Define(SetReg(WriteBack(S, r), r, AddrOf[b]), r, a))
  BY DEF Addr
<1>2. r \in Gen
  BY DEF AddrRegs, First, Empty, Holding, Clean
<1>3. Good(S, {})
  <2>1. CASE DirtyCopies(Machine, b) = {}
    BY <2>1 DEF SaveOne, IInv
  <2>2. CASE DirtyCopies(Machine, b) # {}
    <3> DEFINE D == DirtyCopies(Machine, b)
               c == CHOOSE q \in First(D) : TRUE
    <3>1. PICK q \in D : TRUE
      BY <2>2
    <3>2. \A p \in D : p = q
      BY <3>1, SymbolsAssumption DEF IInv, Good, Unique, DirtyCopies, Holding
    <3>3. D \subseteq Nat /\ D \subseteq Gen
      BY RegistersAssumption DEF DirtyCopies, Holding
    <3>4. q \in First(D)
      BY <3>1, <3>2, <3>3 DEF First
    <3>5. c \in D
      BY <3>4 DEF First
    <3>6. S = WriteBack(Machine, c)
      BY <2>2 DEF SaveOne
    <3> HIDE DEF c
    <3> QED BY <3>3, <3>5, <3>6, WriteBackGood DEF IInv
  <2> QED BY <2>1, <2>2
<1> HIDE DEF S
<1>4. Good(WriteBack(S, r), {r}) /\ AddrOf[b] \in Value
  BY <1>2, <1>3, WriteBackGood, ExemptionGood, ValuesAssumption
<1> QED BY <1>1, <1>2, <1>4, SetAndDefineGood, BecomeGood

LEMMA LoadPtrGood ==
  ASSUME IInv, NEW a \in Vars, NEW b \in Vars, LoadPtr(a, b)
  PROVE  IInv'
<1> DEFINE S(rp) == Alloc(Machine, b, rp)
           T(rp, rv) == RdescClear(WriteBack(S(rp), rv), rv)
<1>1. PICK rp \in AllocRegs(Machine, b) :
        \E rv \in TargetRegs(S(rp), rp), x \in Addressable :
          Become(Define(SetReg(T(rp, rv), rv, T(rp, rv).mem[x]), rv, a))
  BY DEF LoadPtr
<1>2. PICK rv \in TargetRegs(S(rp), rp), x \in Addressable :
        Become(Define(SetReg(T(rp, rv), rv, T(rp, rv).mem[x]), rv, a))
  BY <1>1
<1>3. Good(S(rp), {})
  BY AllocGood DEF IInv
<1>4. rv \in Gen
  BY DEF TargetRegs, First, Empty, Holding, Clean
<1> DEFINE U == T(rp, rv)
<1>5. Become(Define(SetReg(U, rv, U.mem[x]), rv, a))
  BY <1>2
<1> HIDE DEF S
<1>6. Good(U, {rv})
  BY <1>3, <1>4, WriteBackGood, RdescClearGood, ExemptionGood
<1> HIDE DEF T
<1> HIDE DEF U
<1>7. U.mem[x] \in Value
  BY <1>6, SymbolsAssumption DEF Good, Typed
<1> QED BY <1>4, <1>5, <1>6, <1>7, SetAndDefineGood, BecomeGood

LEMMA StorePtrGood ==
  ASSUME IInv, NEW a \in Vars, NEW b \in Operands, StorePtr(a, b)
  PROVE  IInv'
<1> DEFINE A(ra) == Alloc(Machine, a, ra)
           S(ra, rb) == Alloc(A(ra), b, rb)
<1>1. PICK ra \in AllocRegs(Machine, a) : \E rb \in AllocRegs(A(ra), b), x \in Addressable :
        Become(ClearAllRegs(WriteBackAll([S(ra, rb) EXCEPT !.mem[x] = S(ra, rb).reg[rb]])))
  BY DEF StorePtr
<1>2. PICK rb \in AllocRegs(A(ra), b), x \in Addressable :
        Become(ClearAllRegs(WriteBackAll([S(ra, rb) EXCEPT !.mem[x] = S(ra, rb).reg[rb]])))
  BY <1>1
<1>3. Good(A(ra), {})
  BY AllocGood DEF IInv
<1> HIDE DEF A
<1>4. Good(S(ra, rb), {}) /\ rb \in Gen
  BY <1>3, AllocGood, OperandsAreSymbols
<1> DEFINE U == S(ra, rb)
           v == U.reg[rb]
           T == [U EXCEPT !.mem[x] = v]
<1>5. Become(ClearAllRegs(WriteBackAll(T)))
  BY <1>2
<1> HIDE DEF S
<1>6. v \in Value /\ x \in Vars
  BY <1>4, SymbolsAssumption DEF Good, Typed
<1> HIDE DEF U, v
<1>7. Typed(T) /\ T.var = U.var /\ T.mod = U.mod
  BY <1>4, <1>6, MemTyped DEF Good, U
<1> HIDE DEF T
<1>8. Unique(T) /\ DirtyVar(T, {})
  BY <1>4, <1>7 DEF Good, Unique, DirtyVar, U
<1> QED BY <1>5, <1>7, <1>8, FlushGood, BecomeGood

(* Every TAC takes a consistent machine to a consistent machine. *)
LEMMA NextGood ==
  IInv /\ [Next]_vars => IInv'
<1> SUFFICES ASSUME IInv, [Next]_vars PROVE IInv'
  OBVIOUS
<1> USE OperandsAreSymbols
<1>1. ASSUME NEW a \in Vars, NEW b \in Operands, NEW c \in Operands,
             NEW op \in Arith \cup Rel, Bin(op, a, b, c)
      PROVE  IInv'
  BY <1>1, AsmBinGood DEF Bin
<1>2. ASSUME NEW a \in Vars, NEW b \in Operands, Neg(a, b)
      PROVE  IInv'
  BY <1>2, AsmBinGood, ValuesAssumption DEF Neg
<1>3. ASSUME NEW a \in Vars, NEW b \in Operands, Copy(a, b)
      PROVE  IInv'
  BY <1>3, CopyGood
<1>4. ASSUME NEW a \in Vars, Input(a)
      PROVE  IInv'
  BY <1>4, InputGood
<1>5. ASSUME NEW s \in Operands, Output(s) \/ Actual(s) \/ Ifz(s)
      PROVE  IInv'
  BY <1>5, OutputStepGood, ActualGood, IfzGood
<1>6. CASE Goto \/ Label
  BY <1>6, JumpGood
<1>7. ASSUME NEW ret \in (Vars \ Shared) \cup {None}, Call(ret)
      PROVE  IInv'
  BY <1>7, CallGood
<1>8. ASSUME NEW s \in Operands \cup {None}, Return(s)
      PROVE  IInv'
  BY <1>8, ReturnGood
<1>9. ASSUME NEW a \in Vars, NEW b \in Addressable, Addr(a, b)
      PROVE  IInv'
  BY <1>9, AddrGood
<1>10. ASSUME NEW a \in Vars, NEW b \in Vars, LoadPtr(a, b)
       PROVE  IInv'
  BY <1>10, LoadPtrGood
<1>11. ASSUME NEW a \in Vars, NEW b \in Operands, StorePtr(a, b)
       PROVE  IInv'
  BY <1>11, StorePtrGood
<1>12. CASE UNCHANGED vars
  BY <1>12 DEF vars, IInv, Machine, Good, Typed, Unique, DirtyVar, Coherent, Home
<1> QED BY <1>1, <1>2, <1>3, <1>4, <1>5, <1>6, <1>7, <1>8, <1>9, <1>10, <1>11, <1>12
        DEF Next

(* The four invariants together are inductive; none of the last three is   *)
(* by itself: a write-back may only be skipped for an UNMODIFIED register  *)
(* because that register agrees with memory (CleanCoherent), storing one   *)
(* copy leaves no other copy behind because there is none (UniqueHolder),  *)
(* and what is stored has a home (DirtyIsVariable).                        *)
THEOREM Invariance ==
  Spec => []IInv
<1>1. Init => IInv
  BY InitGood
<1>2. IInv /\ [Next]_vars => IInv'
  BY NextGood
<1> QED BY <1>1, <1>2, PTL DEF Spec

(* Descriptors, registers and homes keep their types. *)
THEOREM TypeCorrectness ==
  Spec => []TypeOK
BY Invariance, IInvMeans, PTL

(* No symbol is ever in two registers, for any pool and any order of TACs. *)
THEOREM OneHolder ==
  Spec => []UniqueHolder
BY Invariance, IInvMeans, PTL

(* Only variables are ever MODIFIED between two TACs. *)
THEOREM DirtyHasHome ==
  Spec => []DirtyIsVariable
BY Invariance, IInvMeans, PTL

(* An UNMODIFIED register agrees with memory, whichever cases are admitted *)
(* (R_IO excepted when INPUT and OUTPUT may run over it).                  *)
THEOREM Coherence ==
  Spec => []CleanCoherent
BY Invariance, IInvMeans, PTL
=============================================================================
