-------------------------- MODULE RegAllocRefines --------------------------
(***************************************************************************)
(* The printed assembly implements the three-address code, for every set   *)
(* of symbols, registers and words: the proof that RegAlloc refines        *)
(* TacStore, the variables' values being read through the descriptors.     *)
(*                                                                         *)
(* A machine state S shows the store m when every variable has, in the     *)
(* register that holds it or else at its home, the value m gives it.  The  *)
(* lemmas say what each step of an asm_code call does to the store that    *)
(* is shown; the module RegAllocProofs says that it stays well-formed.     *)
(***************************************************************************)
EXTENDS RegAllocProofs

Shows(S, m) ==
  /\ m \in [Vars -> Value]
  /\ \A x \in Vars :
       /\ \A r \in Gen : S.var[r] = x => S.reg[r] = m[x]
       /\ (\A r \in Gen : S.var[r] # x) => S.mem[x] = m[x]

(* What an operand is worth in a store. *)
Worth(m, s) == IF s \in Lits THEN LitVal[s] ELSE m[s]

(* If register r is taken from what it holds, nothing is lost.             *)
Spare(S, r, m) ==
  \A x \in Vars : S.var[r] = x => S.mem[x] = m[x]

-----------------------------------------------------------------------------
(* A well-formed machine state shows exactly its view. *)
LEMMA ViewShown ==
  ASSUME NEW S, Typed(S), Unique(S)
  PROVE  Shows(S, ViewOf(S))
<1>1. \A x \in Vars : x # None
  BY SymbolsAssumption
<1>2. ASSUME NEW x \in Vars, NEW r \in Gen, S.var[r] = x
      PROVE  ViewOf(S)[x] = S.reg[r]
  <2>1. r \in Holding(S, x)
    BY <1>2 DEF Holding
  <2>2. \A q \in Holding(S, x) : q = r
    BY <1>1, <1>2 DEF Holding, Unique
  <2>3. (CHOOSE q \in Holding(S, x) : TRUE) = r
    BY <2>1, <2>2
  <2> QED BY <2>1, <2>3 DEF ViewOf
<1>3. ASSUME NEW x \in Vars, \A r \in Gen : S.var[r] # x
      PROVE  ViewOf(S)[x] = S.mem[x]
  BY <1>3 DEF ViewOf, Holding
<1>4. \A x \in Vars : ViewOf(S)[x] \in Value
  BY <1>2, <1>3 DEF Typed
<1>5. ViewOf(S) = [x \in Vars |-> ViewOf(S)[x]]
  BY DEF ViewOf
<1>6. ViewOf(S) \in [Vars -> Value]
  BY <1>4, <1>5
<1> QED BY <1>2, <1>3, <1>6 DEF Shows

(* It shows no other store. *)
LEMMA ShownIsView ==
  ASSUME NEW S, Typed(S), Unique(S), NEW m, Shows(S, m)
  PROVE  ViewOf(S) = m
<1>1. Shows(S, ViewOf(S))
  BY ViewShown
<1>2. \A x \in Vars : ViewOf(S)[x] = m[x]
  BY <1>1 DEF Shows
<1> QED BY <1>1, <1>2 DEF Shows

(* A register that holds an operand has its worth; that of a literal needs *)
(* the register unmodified.                                                *)
LEMMA HeldWorth ==
  ASSUME NEW S, NEW E, Good(S, E), NEW m, Shows(S, m), NEW r \in Gen,
         S.var[r] \in Vars \cup Lits,
         S.var[r] \in Vars \/ r \notin E, "io" \notin Admit
  PROVE  S.reg[r] = Worth(m, S.var[r])
<1>1. CASE S.var[r] \in Vars
  BY <1>1, SymbolsAssumption DEF Shows, Worth
<1>2. CASE S.var[r] \in Lits
  <2>1. S.var[r] \notin Vars /\ S.var[r] # None
    BY <1>2, SymbolsAssumption
  <2>2. r \notin S.mod \cup E
    BY <2>1 DEF Good, DirtyVar
  <2> QED BY <1>2, <2>1, <2>2 DEF Good, Coherent, Home, Worth
<1> QED BY <1>1, <1>2

(* An unmodified register is spare. *)
LEMMA CleanIsSpare ==
  ASSUME NEW S, NEW E, Good(S, E), NEW m, Shows(S, m), NEW r \in Gen,
         r \notin S.mod \cup E, "io" \notin Admit
  PROVE  Spare(S, r, m)
  BY SymbolsAssumption DEF Good, Coherent, Home, Shows, Spare

-----------------------------------------------------------------------------
(* reg_alloc *)

(* What it does, field by field. *)
LEMMA AllocFields ==
  ASSUME NEW S, NEW E, Good(S, E), NEW s \in Vars \cup Lits, NEW r \in AllocRegs(S, s)
  PROVE  /\ r \in Gen
         /\ Alloc(S, s, r).var[r] = s
         /\ \A q \in Gen \ {r} : /\ Alloc(S, s, r).var[q] = S.var[q]
                                 /\ Alloc(S, s, r).reg[q] = S.reg[q]
         /\ Alloc(S, s, r).mod = S.mod \ {r}
         /\ \A x \in Vars : Alloc(S, s, r).mem[x] =
                              IF S.var[r] = x /\ r \in S.mod THEN S.reg[r] ELSE S.mem[x]
         /\ S.var[r] = s => Alloc(S, s, r).reg[r] = S.reg[r]
         /\ S.var[r] # s => /\ \A q \in Gen : S.var[q] # s
                            /\ Alloc(S, s, r).reg[r] = Home(Alloc(S, s, r), s)
<1> DEFINE W == WriteBack(S, r)
<1>1. r \in Gen
  BY AllocRegsInPool
<1>2. s # None /\ s \in Symbols /\ Typed(S)
  BY SymbolsAssumption DEF Symbols, Good
<1>3. /\ Typed(W) /\ W.var = S.var /\ W.reg = S.reg
      /\ W.mod = S.mod \ {q \in {r} : S.var[q] # None}
      /\ \A x \in Vars : W.mem[x] = IF S.var[r] = x /\ r \in S.mod THEN S.reg[r] ELSE S.mem[x]
  BY <1>1, <1>2, WriteBackFields
<1>4. CASE S.var[r] = s
  <2>1. Alloc(S, s, r) = W
    BY <1>4 DEF Alloc
  <2> HIDE DEF W
  <2> QED BY <1>1, <1>2, <1>3, <1>4, <2>1
<1>5. CASE S.var[r] # s
  <2>1. \A q \in Gen : S.var[q] # s
    BY <1>5 DEF AllocRegs, First, Holding
  <2> DEFINE v == Loaded(W, s)
             X == SetReg(W, r, v)
             T == RdescFill(X, r, s)
  <2>2. Alloc(S, s, r) = T
    BY <1>5 DEF Alloc
  <2> HIDE DEF W
  <2>3. Holding(W, s) = {}
    BY <1>3, <2>1 DEF Holding
  <2>4. v = Home(W, s) /\ v \in Value
    BY <1>3, <2>3, LoadedFromHome
  <2> HIDE DEF v
  <2>5. /\ Typed(X) /\ X.var = W.var /\ X.mod = W.mod /\ X.mem = W.mem
        /\ \A q \in Gen : X.reg[q] = IF q = r THEN v ELSE W.reg[q]
    BY <1>1, <1>3, <2>4, SetRegFields
  <2> HIDE DEF X
  <2>6. /\ T.reg = X.reg /\ T.mem = X.mem
        /\ T.mod = X.mod \ ({r} \cup Holding(X, s))
        /\ \A q \in Gen : T.var[q] = IF q = r THEN s
                                      ELSE IF X.var[q] = s THEN None ELSE X.var[q]
    BY <1>1, <1>2, <2>5, RdescFillFields
  <2> HIDE DEF T
  <2>7. Holding(X, s) = {}
    BY <2>3, <2>5 DEF Holding
  <2>8. T.mod = S.mod \ {r}
    BY <1>3, <2>5, <2>6, <2>7
  <2>9. T.reg[r] = Home(T, s)
    BY <1>1, <2>4, <2>5, <2>6 DEF Home
  <2>10. T.var[r] = s /\ \A q \in Gen \ {r} : T.var[q] = S.var[q] /\ T.reg[q] = S.reg[q]
    BY <1>1, <1>3, <2>1, <2>5, <2>6
  <2>11. \A x \in Vars : T.mem[x] =
           IF S.var[r] = x /\ r \in S.mod THEN S.reg[r] ELSE S.mem[x]
    BY <1>3, <2>5, <2>6
  <2> QED BY <1>1, <1>5, <2>1, <2>2, <2>8, <2>9, <2>10, <2>11
<1> QED BY <1>4, <1>5

(* It changes no variable's value, unless it takes the exempt register.    *)
LEMMA AllocShows ==
  ASSUME NEW S, NEW E, Good(S, E), NEW m, Shows(S, m), "io" \notin Admit,
         NEW s \in Vars \cup Lits, NEW r \in AllocRegs(S, s),
         r \notin E \/ S.var[r] = s
  PROVE  /\ Shows(Alloc(S, s, r), m)
         /\ Spare(Alloc(S, s, r), r, m) \/ r \in E
         /\ Alloc(S, s, r).reg[r] = Worth(m, s) \/ (r \in E /\ s \in Lits)
<1> DEFINE T == Alloc(S, s, r)
<1>1. /\ r \in Gen
      /\ T.var[r] = s
      /\ \A q \in Gen \ {r} : T.var[q] = S.var[q] /\ T.reg[q] = S.reg[q]
      /\ T.mod = S.mod \ {r}
      /\ \A x \in Vars : T.mem[x] = IF S.var[r] = x /\ r \in S.mod THEN S.reg[r] ELSE S.mem[x]
      /\ S.var[r] = s => T.reg[r] = S.reg[r]
      /\ S.var[r] # s => (\A q \in Gen : S.var[q] # s) /\ T.reg[r] = Home(T, s)
  BY AllocFields
<1>2. Good(T, E)
  BY AllocGood
<1> HIDE DEF T
<1>3. r \notin E => Spare(S, r, m) \/ r \in S.mod
  BY <1>1, CleanIsSpare
<1>4. ASSUME NEW x \in Vars, S.var[r] = x, r \notin E
      PROVE  T.mem[x] = m[x]
  BY <1>1, <1>3, <1>4 DEF Spare, Shows
<1>5. ASSUME NEW x \in Vars, NEW q \in Gen, T.var[q] = x
      PROVE  T.reg[q] = m[x]
  <2>1. CASE q # r
    BY <1>1, <1>5, <2>1 DEF Shows
  <2>2. CASE q = r /\ S.var[r] = s
    BY <1>1, <1>5, <2>2 DEF Shows
  <2>3. CASE q = r /\ S.var[r] # s
    <3>1. s = x /\ s \notin Lits
      BY <1>1, <1>5, <2>3, SymbolsAssumption
    <3>2. T.reg[r] = T.mem[s]
      BY <1>1, <2>3, <3>1 DEF Home
    <3>3. T.mem[s] = S.mem[s]
      BY <1>1, <2>3, <3>1
    <3>4. S.mem[s] = m[s]
      BY <1>1, <2>3, <3>1 DEF Shows
    <3> QED BY <2>3, <3>1, <3>2, <3>3, <3>4
  <2> QED BY <2>1, <2>2, <2>3
<1>6. ASSUME NEW x \in Vars, \A q \in Gen : T.var[q] # x
      PROVE  T.mem[x] = m[x]
  <2>1. CASE S.var[r] = x
    BY <1>1, <1>4, <1>6, <2>1
  <2>2. CASE S.var[r] # x
    <3>1. \A q \in Gen : S.var[q] # x
      BY <1>1, <1>6, <2>2
    <3> QED BY <1>1, <2>2, <3>1 DEF Shows
  <2> QED BY <2>1, <2>2
<1>7. Shows(T, m)
  BY <1>5, <1>6 DEF Shows
<1>8. r \notin E => Spare(T, r, m)
  BY <1>1, <1>2, <1>7, CleanIsSpare
<1>9. T.reg[r] = Worth(m, s) \/ (r \in E /\ s \in Lits)
  BY <1>1, <1>2, <1>7, HeldWorth
<1> QED BY <1>7, <1>8, <1>9 DEF T

-----------------------------------------------------------------------------
(* The results of a TAC. *)

(* A spare register takes the new value of a variable.                     *)
LEMMA DefineShows ==
  ASSUME NEW S, Typed(S), NEW m, Shows(S, m), NEW r \in Gen, Spare(S, r, m),
         NEW v \in Value, NEW a \in Vars
  PROVE  Shows(Define(SetReg(S, r, v), r, a), [m EXCEPT ![a] = v])
<1> DEFINE X == SetReg(S, r, v)
           T == RdescFill(X, r, a)
<1>1. /\ Typed(X) /\ X.var = S.var /\ X.mem = S.mem
      /\ \A q \in Gen : X.reg[q] = IF q = r THEN v ELSE S.reg[q]
  BY SetRegFields
<1> HIDE DEF X
<1>2. /\ Typed(T) /\ T.reg = X.reg /\ T.mem = X.mem
      /\ \A q \in Gen : T.var[q] = IF q = r THEN a
                                    ELSE IF X.var[q] = a THEN None ELSE X.var[q]
  BY <1>1, RdescFillFields DEF Symbols
<1> HIDE DEF T
<1>3. /\ Modify(T, r).var = T.var /\ Modify(T, r).reg = T.reg /\ Modify(T, r).mem = T.mem
  BY <1>2, ModifyFields
<1>4. PICK n : n = [m EXCEPT ![a] = v]
  OBVIOUS
<1>5. n \in [Vars -> Value] /\ n[a] = v /\ \A x \in Vars \ {a} : n[x] = m[x]
  BY <1>4 DEF Shows
<1>6. \A x \in Vars : x # None
  BY SymbolsAssumption
<1>7. ASSUME NEW x \in Vars, NEW q \in Gen, T.var[q] = x
      PROVE  T.reg[q] = n[x]
  BY <1>1, <1>2, <1>5, <1>6, <1>7 DEF Shows
<1>8. ASSUME NEW x \in Vars, \A q \in Gen : T.var[q] # x
      PROVE  T.mem[x] = n[x]
  <2>1. x # a
    BY <1>2, <1>8
  <2>2. \A q \in Gen \ {r} : S.var[q] # x
    BY <1>1, <1>2, <1>8, <2>1
  <2>3. S.mem[x] = m[x]
    BY <2>2 DEF Shows, Spare
  <2> QED BY <1>1, <1>2, <1>5, <2>1, <2>3
<1>9. Shows(Modify(T, r), n)
  BY <1>3, <1>5, <1>7, <1>8 DEF Shows
<1> QED BY <1>4, <1>9 DEF Define, T, X

(* asm_bin and asm_cmp leave the same words in the same places: asm_cmp    *)
(* only describes the result's register twice.                             *)
LEMMA FinishShows ==
  ASSUME NEW S, Typed(S), NEW m, Shows(S, m), NEW rb \in Gen, Spare(S, rb, m),
         NEW op \in Arith \cup Rel, NEW a \in Vars, NEW v \in Value
  PROVE  Shows(Finish(S, op, a, rb, v), [m EXCEPT ![a] = ALU[<<op, S.reg[rb], v>>]])
<1> DEFINE w == ALU[<<op, S.reg[rb], v>>]
           n == [m EXCEPT ![a] = w]
           X == SetReg(S, rb, w)
           R == Define(X, rb, a)
           C == RdescClear(R, rb)
           F == Define(C, rb, a)
<1>1. w \in Value
  BY AluValue DEF Typed
<1> HIDE DEF w
<1>2. Shows(R, n)
  BY <1>1, DefineShows
<1> HIDE DEF n
<1>3. Typed(X)
  BY <1>1, SetRegFields
<1> HIDE DEF X
<1>4. a \in Symbols /\ a # None
  BY SymbolsAssumption DEF Symbols
<1>5. Typed(R) /\ R.var[rb] = a /\ \A q \in Gen : q # rb => R.var[q] # a
  <2>1. /\ Typed(RdescFill(X, rb, a))
        /\ \A q \in Gen : RdescFill(X, rb, a).var[q] =
                            IF q = rb THEN a ELSE IF X.var[q] = a THEN None ELSE X.var[q]
    BY <1>3, <1>4, RdescFillFields
  <2>2. Typed(R) /\ R.var = RdescFill(X, rb, a).var
    BY <2>1, ModifyFields DEF Define
  <2> QED BY <1>4, <2>1, <2>2
<1> HIDE DEF R
<1>6. /\ Typed(C) /\ C.reg = R.reg /\ C.mem = R.mem
      /\ \A q \in Gen : C.var[q] = IF q = rb THEN None ELSE R.var[q]
  BY <1>5, RdescClearFields
<1> HIDE DEF C
<1>7. /\ F.reg = R.reg /\ F.mem = R.mem
      /\ \A q \in Gen : F.var[q] = R.var[q]
  <2>1. /\ Typed(RdescFill(C, rb, a))
        /\ RdescFill(C, rb, a).reg = C.reg
        /\ RdescFill(C, rb, a).mem = C.mem
        /\ \A q \in Gen : RdescFill(C, rb, a).var[q] =
                            IF q = rb THEN a ELSE IF C.var[q] = a THEN None ELSE C.var[q]
    BY <1>4, <1>6, RdescFillFields
  <2>2. /\ F.reg = C.reg /\ F.mem = C.mem
        /\ F.var = RdescFill(C, rb, a).var
    BY <2>1, ModifyFields DEF Define
  <2> QED BY <1>4, <1>5, <1>6, <2>1, <2>2
<1> HIDE DEF F
<1>8. Shows(F, n)
  BY <1>2, <1>7 DEF Shows
<1>9. Result(S, op, a, rb, v) = R /\ CmpResult(S, op, a, rb, v) = F
  BY DEF Result, CmpResult, w, X, R, C, F
<1> QED BY <1>2, <1>8, <1>9 DEF Finish, n, w

(* Operand b in its register, marked: it may be operated on in place.      *)
LEMMA PinBShows ==
  ASSUME NEW S, Good(S, {}), NEW m, Shows(S, m), "io" \notin Admit,
         NEW b \in Vars \cup Lits, NEW rb \in AllocRegs(S, b)
  PROVE  LET P == PinB(S, b, rb)
         IN  /\ rb \in Gen /\ Good(P, {rb}) /\ Shows(P, m) /\ Spare(P, rb, m)
             /\ P.var[rb] = b /\ P.reg[rb] = Worth(m, b)
             /\ rb \in P.mod
<1> DEFINE A == Alloc(S, b, rb)
           P == Modify(A, rb)
<1>1. Good(A, {}) /\ A.var[rb] = b /\ rb \in Gen
  BY AllocGood
<1>2. Shows(A, m) /\ Spare(A, rb, m) /\ A.reg[rb] = Worth(m, b)
  BY AllocShows
<1> HIDE DEF A
<1>3. /\ P.var = A.var /\ P.reg = A.reg /\ P.mem = A.mem /\ P.mod = A.mod \cup {rb}
  BY <1>1, ModifyFields DEF Good
<1>4. PinB(S, b, rb) = P
  BY DEF PinB, A
<1> HIDE DEF P
<1>5. Good(P, {rb})
  BY <1>4, PinBGood
<1> QED BY <1>1, <1>2, <1>3, <1>4, <1>5 DEF Shows, Spare

(* Both operands in registers: b's value is still b's, though c has been   *)
(* placed since, as long as c was not placed on top of it.                 *)
LEMMA PlaceCShows ==
  ASSUME NEW S, Good(S, {}), NEW m, Shows(S, m), "io" \notin Admit,
         NEW b \in Vars \cup Lits, NEW rb \in AllocRegs(S, b),
         NEW c \in Vars, NEW rc \in AllocRegs(PinB(S, b, rb), c),
         rc = rb => b = c
  PROVE  LET T == PlaceC(S, b, rb, c, rc)
         IN  /\ rb \in Gen /\ rc \in Gen /\ Good(T, {rb}) /\ Shows(T, m) /\ Spare(T, rb, m)
             /\ T.reg[rb] = Worth(m, b) /\ T.reg[rc] = Worth(m, c)
<1> DEFINE P == PinB(S, b, rb)
           W == Alloc(P, c, rc)
           T == PlaceC(S, b, rb, c, rc)
<1>1. /\ rb \in Gen /\ Good(P, {rb}) /\ Shows(P, m) /\ Spare(P, rb, m)
      /\ P.var[rb] = b /\ P.reg[rb] = Worth(m, b) /\ rb \in P.mod
  BY PinBShows
<1>2. Good(T, {rb}) /\ rc \in Gen
  BY PlaceCGood
<1>3. T = [W EXCEPT !.mod = (@ \ {rb}) \cup (Alloc(S, b, rb).mod \cap {rb})]
  BY DEF PlaceC
<1> HIDE DEF P, T
<1>4. Good(W, {rb})
  BY <1>1, AllocGood DEF P
<1>5. /\ W.var[rc] = c
      /\ \A q \in Gen \ {rc} : W.var[q] = P.var[q] /\ W.reg[q] = P.reg[q]
      /\ \A x \in Vars : W.mem[x] = IF P.var[rc] = x /\ rc \in P.mod THEN P.reg[rc] ELSE P.mem[x]
      /\ P.var[rc] = c => W.reg[rc] = P.reg[rc]
  BY <1>1, AllocFields DEF P
<1>6. Shows(W, m) /\ W.reg[rc] = Worth(m, c)
  BY <1>1, SymbolsAssumption, AllocShows DEF P
<1> HIDE DEF W
<1>7. T.var = W.var /\ T.reg = W.reg /\ T.mem = W.mem
  BY <1>3, <1>4 DEF Good, Typed
<1>8. W.reg[rb] = Worth(m, b)
  BY <1>1, <1>5
<1>9. Spare(W, rb, m)
  <2> SUFFICES ASSUME NEW x \in Vars, W.var[rb] = x
               PROVE  W.mem[x] = m[x]
    BY DEF Spare
  <2>1. x = b /\ P.var[rb] = x
    BY <1>1, <1>5
  <2>2. P.mem[x] = m[x]
    BY <1>1, <2>1 DEF Spare
  <2>3. P.var[rc] = x => P.reg[rc] = m[x]
    BY <1>1, <1>2 DEF Shows
  <2> QED BY <1>5, <2>2, <2>3
<1>10. Shows(T, m) /\ Spare(T, rb, m)
  BY <1>6, <1>7, <1>9 DEF Shows, Spare
<1> QED BY <1>1, <1>2, <1>6, <1>7, <1>8, <1>10 DEF T

-----------------------------------------------------------------------------
(* Write everything back, forget everything. *)

(* What a home holds after it: the modified copy if there is one.          *)
LEMMA FlushFields ==
  ASSUME NEW S, Typed(S), Unique(S), DirtyVar(S, {})
  PROVE  LET T == ClearAllRegs(WriteBackAll(S))
         IN  /\ Typed(T) /\ T.mod = {} /\ \A r \in Gen : T.var[r] = None
             /\ \A x \in Vars :
                  /\ \A r \in S.mod : S.var[r] = x => T.mem[x] = S.reg[r]
                  /\ (\A r \in S.mod : S.var[r] # x) => T.mem[x] = S.mem[x]
<1> DEFINE W == WriteBackAll(S)
           T == ClearAllRegs(W)
<1>1. Typed(W)
  BY WriteBackAllTyped
<1>2. \A x \in Vars :
        W.mem[x] = IF DirtyCopies(S, x) = {} THEN S.mem[x]
                   ELSE S.reg[CHOOSE p \in DirtyCopies(S, x) :
                                \A q \in DirtyCopies(S, x) : q <= p]
  BY DEF Typed, WriteBackAll
<1> HIDE DEF W
<1>3. Typed(T) /\ T.mod = {} /\ T.mem = W.mem /\ \A r \in Gen : T.var[r] = None
  BY <1>1, ClearAllTyped
<1> HIDE DEF T
<1>4. S.mod \subseteq Gen /\ \A x \in Vars : x # None
  BY SymbolsAssumption DEF Typed
<1>5. ASSUME NEW x \in Vars, NEW r \in S.mod, S.var[r] = x
      PROVE  W.mem[x] = S.reg[r]
  <2> DEFINE last == CHOOSE p \in DirtyCopies(S, x) : \A q \in DirtyCopies(S, x) : q <= p
  <2>1. r \in DirtyCopies(S, x)
    BY <1>4, <1>5 DEF DirtyCopies, Holding
  <2>2. \A q \in DirtyCopies(S, x) : q = r
    BY <1>4, <1>5 DEF DirtyCopies, Holding, Unique
  <2>3. last \in DirtyCopies(S, x)
    BY <2>1, LastDirtyCopy
  <2>4. W.mem[x] = S.reg[last]
    BY <1>2, <2>1
  <2> HIDE DEF last
  <2> QED BY <2>2, <2>3, <2>4
<1>6. ASSUME NEW x \in Vars, \A r \in S.mod : S.var[r] # x
      PROVE  W.mem[x] = S.mem[x]
  BY <1>2, <1>6 DEF DirtyCopies, Holding
<1> QED BY <1>3, <1>5, <1>6 DEF T, W

(* Every home then holds what the store says. *)
LEMMA FlushShows ==
  ASSUME NEW S, Good(S, {}), NEW m, Shows(S, m), "io" \notin Admit
  PROVE  /\ Shows(ClearAllRegs(WriteBackAll(S)), m)
         /\ \A x \in Vars : ClearAllRegs(WriteBackAll(S)).mem[x] = m[x]
<1> DEFINE T == ClearAllRegs(WriteBackAll(S))
<1>1. /\ \A r \in Gen : T.var[r] = None
      /\ \A x \in Vars :
           /\ \A r \in S.mod : S.var[r] = x => T.mem[x] = S.reg[r]
           /\ (\A r \in S.mod : S.var[r] # x) => T.mem[x] = S.mem[x]
  BY FlushFields DEF Good
<1> HIDE DEF T
<1>2. S.mod \subseteq Gen /\ \A x \in Vars : x # None
  BY SymbolsAssumption DEF Good, Typed
<1>3. ASSUME NEW x \in Vars
      PROVE  T.mem[x] = m[x]
  <2>1. ASSUME NEW r \in S.mod, S.var[r] = x
        PROVE  T.mem[x] = m[x]
    BY <1>1, <1>2, <2>1 DEF Shows
  <2>2. ASSUME \A r \in S.mod : S.var[r] # x
        PROVE  T.mem[x] = m[x]
    <3>1. T.mem[x] = S.mem[x]
      BY <1>1, <2>2
    <3>2. ASSUME NEW r \in Gen, S.var[r] = x
          PROVE  S.mem[x] = m[x]
      BY <2>2, <3>2, CleanIsSpare DEF Spare
    <3>3. (\A r \in Gen : S.var[r] # x) => S.mem[x] = m[x]
      BY DEF Shows
    <3> QED BY <3>1, <3>2, <3>3
  <2> QED BY <2>1, <2>2
<1> QED BY <1>1, <1>2, <1>3 DEF Shows, T

-----------------------------------------------------------------------------
(* The variables' values before and after a TAC. *)

ShowsView == Shows(Machine, View)

(* Between two TACs the machine shows the view. *)
LEMMA MachineShows ==
  IInv => ShowsView
  BY ViewShown DEF IInv, Good, ShowsView, View

(* So it does after one. *)
LEMMA MachineShowsNext ==
  IInv' => ShowsView'
  BY MachineShows, PTL

(* The store that the last machine state of a TAC shows is the new view.   *)
LEMMA BecomeShows ==
  ASSUME NEW S, Good(S, {}), Become(S), NEW m, Shows(S, m)
  PROVE  View' = m
<1>1. ShowsView'
  BY BecomeGood, MachineShowsNext
<1>2. /\ View' \in [Vars -> Value]
      /\ \A x \in Vars : /\ \A r \in Gen : S.var[r] = x => S.reg[r] = View'[x]
                         /\ (\A r \in Gen : S.var[r] # x) => S.mem[x] = View'[x]
  BY <1>1 DEF ShowsView, Shows, Machine, Become
<1>3. \A x \in Vars : View'[x] = m[x]
  BY <1>2 DEF Shows
<1> QED BY <1>2, <1>3 DEF Shows

(* What the abstract store calls the value of an operand is its worth.     *)
LEMMA ValueOfIsWorth ==
  ASSUME NEW s
  PROVE  Store!ValueOf(s) = Worth(View, s)
  BY DEF Store!ValueOf, Worth

-----------------------------------------------------------------------------
(* One lemma per kind of TAC. *)

(* A binary operation combines its two operands, wherever they are placed. *)
LEMMA AsmBinComputes ==
  ASSUME IInv, "io" \notin Admit, "spill" \notin Admit,
         NEW op \in Arith \cup Rel, NEW a \in Vars,
         NEW b \in Vars \cup Lits, NEW c \in Vars \cup Lits, AsmBin(op, a, b, c)
  PROVE  View' = [View EXCEPT ![a] = ALU[<<op, Worth(View, b), Worth(View, c)>>]]
<1> DEFINE M == Machine
           m == View
<1>0. Good(M, {}) /\ Shows(M, m)
  BY MachineShows DEF IInv, ShowsView
<1> HIDE DEF M, m
<1>1. CASE c \in Lits
  <2>1. PICK rb \in AllocRegs(M, b) : Become(Finish(PinB(M, b, rb), op, a, rb, LitVal[c]))
    BY <1>1 DEF AsmBin, M
  <2> DEFINE P == PinB(M, b, rb)
  <2>2. rb \in Gen /\ Good(P, {rb}) /\ Shows(P, m) /\ Spare(P, rb, m) /\ P.reg[rb] = Worth(m, b)
    BY <1>0, PinBShows
  <2>3. LitVal[c] \in Value /\ Worth(m, c) = LitVal[c]
    BY <1>1, ValuesAssumption DEF Worth
  <2> DEFINE F == Finish(P, op, a, rb, LitVal[c])
  <2>4. Become(F)
    BY <2>1
  <2> HIDE DEF P
  <2>5. Shows(F, [m EXCEPT ![a] = ALU[<<op, P.reg[rb], LitVal[c]>>]])
    BY <2>2, <2>3, FinishShows DEF Good
  <2>6. Good(F, {})
    BY <2>2, <2>3, FinishGood
  <2> HIDE DEF F
  <2>7. View' = [m EXCEPT ![a] = ALU[<<op, P.reg[rb], LitVal[c]>>]]
    BY <2>4, <2>5, <2>6, BecomeShows
  <2> QED BY <2>2, <2>3, <2>7 DEF m
<1>2. CASE c \notin Lits
  <2>1. PICK rb \in AllocRegs(M, b) : \E rc \in AllocRegs(PinB(M, b, rb), c) :
          /\ rc = rb => b = c
          /\ Become(Finish(PlaceC(M, b, rb, c, rc), op, a, rb, PlaceC(M, b, rb, c, rc).reg[rc]))
    BY <1>2 DEF AsmBin, M
  <2>2. PICK rc \in AllocRegs(PinB(M, b, rb), c) :
          /\ rc = rb => b = c
          /\ Become(Finish(PlaceC(M, b, rb, c, rc), op, a, rb, PlaceC(M, b, rb, c, rc).reg[rc]))
    BY <2>1
  <2> DEFINE S == PlaceC(M, b, rb, c, rc)
  <2>3. /\ rb \in Gen /\ rc \in Gen /\ Good(S, {rb}) /\ Shows(S, m) /\ Spare(S, rb, m)
        /\ S.reg[rb] = Worth(m, b) /\ S.reg[rc] = Worth(m, c)
    BY <1>0, <1>2, <2>2, PlaceCShows, SymbolsAssumption
  <2> DEFINE v == S.reg[rc]
             F == Finish(S, op, a, rb, v)
  <2>4. Become(F)
    BY <2>2
  <2> HIDE DEF S
  <2>5. v \in Value
    BY <2>3 DEF Good, Typed
  <2>6. v = Worth(m, c)
    BY <2>3
  <2> HIDE DEF v
  <2>7. Shows(F, [m EXCEPT ![a] = ALU[<<op, S.reg[rb], v>>]])
    BY <2>3, <2>5, FinishShows DEF Good
  <2>8. Good(F, {})
    BY <2>3, <2>5, FinishGood
  <2> HIDE DEF F
  <2>9. View' = [m EXCEPT ![a] = ALU[<<op, S.reg[rb], v>>]]
    BY <2>4, <2>7, <2>8, BecomeShows
  <2> QED BY <2>3, <2>6, <2>9 DEF m
<1> QED BY <1>1, <1>2

(* A copy gives the register of b to a; b is read at its home from then on. *)
LEMMA CopyCopies ==
  ASSUME IInv, "io" \notin Admit, NEW a \in Vars, NEW b \in Operands, Copy(a, b)
  PROVE  View' = [View EXCEPT ![a] = Worth(View, b)]
<1>1. PICK r \in AllocRegs(Machine, b) : Become(Define(Alloc(Machine, b, r), r, a))
  BY DEF Copy
<1> DEFINE S == Alloc(Machine, b, r)
           X == SetReg(S, r, S.reg[r])
<1>2. Good(S, {}) /\ r \in Gen
  BY AllocGood, OperandsAreSymbols DEF IInv
<1>3. Shows(S, View) /\ Spare(S, r, View) /\ S.reg[r] = Worth(View, b)
  BY AllocShows, OperandsAreSymbols, MachineShows DEF IInv, ShowsView
<1>4. Become(Define(S, r, a))
  BY <1>1
<1> HIDE DEF S
<1>5. S.reg[r] \in Value
  BY <1>2 DEF Good, Typed
<1>6. X = S
  BY <1>2 DEF SetReg, Good, Typed
<1>7. Shows(Define(X, r, a), [View EXCEPT ![a] = S.reg[r]])
  BY <1>2, <1>3, <1>5, DefineShows DEF Good
<1> HIDE DEF X
<1>8. Good(Define(S, r, a), {})
  BY <1>2, ExemptionGood, DefineGood
<1>9. View' = [View EXCEPT ![a] = S.reg[r]]
  BY <1>4, <1>6, <1>7, <1>8, BecomeShows
<1> QED BY <1>3, <1>9

(* The register that holds variable a takes a new value; another register   *)
(* may only be overwritten if it is described as empty.                    *)
LEMMA ReplaceShows ==
  ASSUME NEW S, Unique(S), NEW m, Shows(S, m), NEW a \in Vars,
         NEW r \in Gen, S.var[r] = a, NEW v \in Value,
         NEW T, T.var = S.var, T.mem = S.mem, T.reg[r] = v,
         \A q \in Gen \ {r} : T.reg[q] = S.reg[q] \/ S.var[q] = None
  PROVE  Shows(T, [m EXCEPT ![a] = v])
<1>1. \A q \in Gen : S.var[q] = a => q = r
  BY SymbolsAssumption DEF Unique
<1>2. PICK n : n = [m EXCEPT ![a] = v]
  OBVIOUS
<1>3. n \in [Vars -> Value] /\ n[a] = v /\ \A x \in Vars \ {a} : n[x] = m[x]
  BY <1>2 DEF Shows
<1>4. Shows(T, n)
  BY <1>1, <1>3, SymbolsAssumption DEF Shows
<1> QED BY <1>2, <1>4

(* An INPUT changes the variable it reads into, and no other.              *)
LEMMA InputReads ==
  ASSUME IInv, "io" \notin Admit, NEW a \in Vars, Input(a)
  PROVE  Store!Input(a)
<1>1. PICK r \in AllocRegs(Machine, a), v \in Value :
        /\ IoSafe(Alloc(Machine, a, r), r)
        /\ Become(Modify(SetReg(SetReg(Alloc(Machine, a, r), R_IO, v), r, v), r))
        /\ obs' = Report(Tac("INPUT", a, None, None), <<v>>, Nothing)
  BY DEF Input
<1> DEFINE S == Alloc(Machine, a, r)
           W == SetReg(S, R_IO, v)
           T == Modify(SetReg(W, r, v), r)
<1>2. Good(S, {}) /\ S.var[r] = a /\ r \in Gen
  BY AllocGood DEF IInv
<1>3. Shows(S, View)
  BY AllocShows, MachineShows DEF IInv, ShowsView
<1>4. IoSafe(S, r) /\ Become(T)
  BY <1>1
<1> HIDE DEF S
<1>5. /\ Typed(W) /\ W.var = S.var /\ W.mem = S.mem
      /\ \A q \in Gen : W.reg[q] = IF q = R_IO THEN v ELSE S.reg[q]
  BY <1>2, SetRegFields, RegistersAssumption DEF Good
<1>6. Good(W, {r})
  BY <1>2, <1>4, ExemptionGood, WriteIoGood
<1> HIDE DEF W
<1> DEFINE X == SetReg(W, r, v)
<1>7. /\ Typed(X) /\ X.var = W.var /\ X.mem = W.mem
      /\ \A q \in Gen : X.reg[q] = IF q = r THEN v ELSE W.reg[q]
  BY <1>2, <1>5, SetRegFields
<1>8. Good(X, {r})
  BY <1>2, <1>6, SetRegGood
<1> HIDE DEF X
<1>9. Good(T, {})
  BY <1>2, <1>5, <1>7, <1>8, ModifyGood DEF X
<1>10. T.var = S.var /\ T.mem = S.mem /\ T.reg = X.reg
  BY <1>2, <1>5, <1>7, ModifyFields DEF X
<1> HIDE DEF T
<1>11. r = R_IO \/ S.var[R_IO] = None
  BY <1>4 DEF IoSafe
<1>12. Shows(T, [View EXCEPT ![a] = v])
  BY <1>2, <1>3, <1>5, <1>7, <1>10, <1>11, ReplaceShows DEF Good
<1>13. View' = [View EXCEPT ![a] = v]
  BY <1>4, <1>9, <1>12, BecomeShows
<1> QED BY <1>1, <1>13 DEF Store!Input, Store!Report, Store!Tac, Store!Nothing, Report, Tac, Nothing

(* What an OUTPUT, an ACTUAL or an IFZ looks at is the operand's value.    *)
LEMMA AllocSees ==
  ASSUME NEW S, Good(S, {}), NEW m, Shows(S, m), "io" \notin Admit,
         NEW s \in Operands, NEW r \in AllocRegs(S, s)
  PROVE  LET T == Alloc(S, s, r)
         IN  /\ r \in Gen /\ Good(T, {}) /\ Shows(T, m)
             /\ T.reg[r] = Worth(m, s) /\ T.mod = S.mod \ {r}
  BY AllocGood, AllocShows, AllocFields, OperandsAreSymbols

(* An OUTPUT shows its operand's value and changes no variable.            *)
LEMMA OutputShows ==
  ASSUME IInv, "io" \notin Admit, NEW s \in Operands, Output(s)
  PROVE  Store!Show("OUTPUT", s)
<1>1. PICK r \in AllocRegs(Machine, s) :
        /\ IoSafe(Alloc(Machine, s, r), r)
        /\ Become(SetReg(Alloc(Machine, s, r), R_IO, Alloc(Machine, s, r).reg[r]))
        /\ obs' = Report(Tac("OUTPUT", s, None, None), <<Alloc(Machine, s, r).reg[r]>>, Nothing)
  BY DEF Output
<1> DEFINE S == Alloc(Machine, s, r)
           v == S.reg[r]
           T == SetReg(S, R_IO, v)
<1>2. r \in Gen /\ Good(S, {}) /\ Shows(S, View) /\ S.reg[r] = Worth(View, s)
  BY AllocSees, MachineShows DEF IInv, ShowsView
<1>3. /\ IoSafe(S, r) /\ Become(T)
      /\ obs' = Report(Tac("OUTPUT", s, None, None), <<S.reg[r]>>, Nothing)
  BY <1>1
<1> HIDE DEF S
<1>4. Good(T, {})
  BY <1>2, <1>3, OutputGood
<1>5. v \in Value
  BY <1>2 DEF Good, Typed
<1>6. v = S.reg[r]
  OBVIOUS
<1> HIDE DEF v
<1>7. /\ T.var = S.var /\ T.mem = S.mem
      /\ \A q \in Gen : T.reg[q] = IF q = R_IO THEN S.reg[r] ELSE S.reg[q]
  BY <1>2, <1>5, <1>6, SetRegFields, RegistersAssumption DEF Good
<1> HIDE DEF T
<1>8. r = R_IO \/ S.var[R_IO] = None
  BY <1>3 DEF IoSafe
<1>9. Shows(T, View)
  BY <1>2, <1>7, <1>8, SymbolsAssumption DEF Shows
<1>10. View' = View
  BY <1>3, <1>4, <1>9, BecomeShows
<1> QED BY <1>2, <1>3, <1>10, ValueOfIsWorth
        DEF Store!Show, Store!Report, Store!Tac, Store!Nothing, Report, Tac, Nothing

(* An ACTUAL passes its operand's value and changes no variable.           *)
LEMMA ActualShows ==
  ASSUME IInv, "io" \notin Admit, NEW s \in Operands, Actual(s)
  PROVE  Store!Show("ACTUAL", s)
<1>1. PICK r \in AllocRegs(Machine, s) :
        /\ Become(Alloc(Machine, s, r))
        /\ obs' = Report(Tac("ACTUAL", s, None, None), <<Alloc(Machine, s, r).reg[r]>>, Nothing)
  BY DEF Actual
<1> DEFINE S == Alloc(Machine, s, r)
<1>2. Good(S, {}) /\ Shows(S, View) /\ S.reg[r] = Worth(View, s)
  BY AllocSees, MachineShows DEF IInv, ShowsView
<1>3. Become(S) /\ obs' = Report(Tac("ACTUAL", s, None, None), <<S.reg[r]>>, Nothing)
  BY <1>1
<1> HIDE DEF S
<1>4. View' = View
  BY <1>2, <1>3, BecomeShows
<1> QED BY <1>2, <1>3, <1>4, ValueOfIsWorth
        DEF Store!Show, Store!Report, Store!Tac, Store!Nothing, Report, Tac, Nothing

(* GOTO and LABEL change no variable. *)
LEMMA JumpShows ==
  ASSUME IInv, "io" \notin Admit, Goto \/ Label
  PROVE  Store!Jump("GOTO") \/ Store!Jump("LABEL")
<1> DEFINE T == ClearAllRegs(WriteBackAll(Machine))
<1>1. Become(T)
  BY DEF Goto, Label
<1>2. Shows(T, View) /\ Good(T, {})
  BY FlushShows, FlushGood, MachineShows DEF IInv, Good, ShowsView
<1> HIDE DEF T
<1>3. View' = View
  BY <1>1, <1>2, BecomeShows
<1> QED BY <1>3 DEF Goto, Label, Silent, Store!Jump, Store!Silently, Store!Report, Store!Tac,
                    Store!Nothing, Report, Tac, Nothing

(* Writing everything back shows the same store. *)
LEMMA WriteBackAllShows ==
  ASSUME NEW S, Good(S, {}), NEW m, Shows(S, m), "io" \notin Admit
  PROVE  Shows(WriteBackAll(S), m)
<1> DEFINE W == WriteBackAll(S)
           T == ClearAllRegs(W)
<1>1. Typed(W) /\ W.var = S.var /\ W.reg = S.reg
  BY WriteBackAllTyped DEF Good
<1>2. \A x \in Vars : T.mem[x] = m[x]
  BY FlushShows
<1> HIDE DEF W
<1>3. T.mem = W.mem
  BY <1>1, ClearAllTyped
<1> QED BY <1>1, <1>2, <1>3 DEF Shows, W

(* Where nothing is modified, forgetting everything loses nothing.         *)
LEMMA ForgetShows ==
  ASSUME NEW S, Good(S, {}), NEW m, Shows(S, m), S.mod = {}, "io" \notin Admit
  PROVE  Shows(ClearAllRegs(S), m)
<1> DEFINE T == ClearAllRegs(S)
<1>1. T.mem = S.mem /\ \A r \in Gen : T.var[r] = None
  BY ClearAllTyped DEF Good
<1> HIDE DEF T
<1>2. ASSUME NEW x \in Vars
      PROVE  S.mem[x] = m[x]
  <2>1. \A r \in Gen : S.var[r] = x => S.mem[x] = m[x]
    BY CleanIsSpare DEF Spare
  <2> QED BY <2>1 DEF Shows
<1> QED BY <1>1, <1>2, SymbolsAssumption DEF Shows, T

(* A test shows its operand's value and changes no variable, whether it    *)
(* jumps or falls through.                                                 *)
LEMMA IfzShows ==
  ASSUME IInv, "io" \notin Admit, NEW s \in Operands, Ifz(s)
  PROVE  Store!Show("IFZ", s)
<1> DEFINE W == WriteBackAll(Machine)
<1>1. PICK r \in AllocRegs(W, s) :
        /\ Become(IF Alloc(W, s, r).reg[r] = LitVal[Zero]
                  THEN ClearAllRegs(Alloc(W, s, r)) ELSE Alloc(W, s, r))
        /\ obs' = Report(Tac("IFZ", s, None, None), <<Alloc(W, s, r).reg[r]>>, Nothing)
  BY DEF Ifz
<1>2. Good(W, {}) /\ Shows(W, View) /\ W.mod = {}
  BY WriteBackAllGood, WriteBackAllShows, WriteBackAllTyped, MachineShows
     DEF IInv, ShowsView, Good
<1> HIDE DEF W
<1> DEFINE S == Alloc(W, s, r)
<1>3. Good(S, {}) /\ Shows(S, View) /\ S.reg[r] = Worth(View, s) /\ S.mod = {}
  BY <1>2, AllocSees
<1>4. /\ Become(S) \/ Become(ClearAllRegs(S))
      /\ obs' = Report(Tac("IFZ", s, None, None), <<S.reg[r]>>, Nothing)
  BY <1>1
<1> HIDE DEF S
<1>5. Good(ClearAllRegs(S), {}) /\ Shows(ClearAllRegs(S), View)
  BY <1>3, ClearAllTyped, ClearedGood, ForgetShows DEF Good
<1>6. View' = View
  BY <1>3, <1>4, <1>5, BecomeShows
<1> QED BY <1>3, <1>4, <1>6, ValueOfIsWorth
        DEF Store!Show, Store!Report, Store!Tac, Store!Nothing, Report, Tac, Nothing

-----------------------------------------------------------------------------
(* Calls and returns. *)

(* With nothing in registers the homes are the store. *)
LEMMA HomesShow ==
  ASSUME NEW S, Typed(S), \A r \in Gen : S.var[r] = None
  PROVE  Shows(S, S.mem)
  BY SymbolsAssumption DEF Shows, Typed

(* A call finds the shared variables up to date, and what it changes of    *)
(* this activation is what is shared and its result.                       *)
LEMMA CallShows ==
  ASSUME IInv, "io" \notin Admit, NEW ret \in (Vars \ Shared) \cup {None}, Call(ret)
  PROVE  Store!Call(ret)
<1> DEFINE S == ClearAllRegs(WriteBackAll(Machine))
           M(sh) == [x \in Vars |-> IF x \in Shared THEN sh[x] ELSE S.mem[x]]
           T(g, sh) == [S EXCEPT !.reg = g, !.mem = M(sh)]
<1>1. PICK g \in [Gen -> Value], sh \in [Shared -> Value] :
        /\ IF ret = None THEN Become(T(g, sh))
           ELSE \E r \in AllocRegs(T(g, sh), ret), v \in Value :
                  Become(Modify(SetReg(Alloc(T(g, sh), ret, r), r, v), r))
        /\ obs' = Report(Tac("CALL", ret, None, None), Nothing, MemPublished(S))
  BY DEF Call
<1>2. /\ Typed(S) /\ S.mod = {} /\ \A r \in Gen : S.var[r] = None
      /\ \A x \in Vars : S.mem[x] = View[x]
  BY FlushGood, FlushShows, MachineShows DEF IInv, Good, ShowsView
<1>3. MemPublished(S) = Store!Published
  BY <1>2, SymbolsAssumption DEF MemPublished, Store!Published
<1> HIDE DEF S
<1>4. M(sh) \in [Vars -> Value] /\ \A x \in Vars \ Shared : M(sh)[x] = View[x]
  BY <1>2 DEF Typed
<1> DEFINE U == T(g, sh)
           m == M(sh)
<1>5. Good(U, {})
  BY <1>2, <1>4, ForgottenGood
<1>6. Typed(U) /\ U.mem = m /\ \A r \in Gen : U.var[r] = None
  BY <1>2, <1>4 DEF Typed
<1> HIDE DEF M, T
<1>7. Shows(U, m)
  BY <1>6, HomesShow
<1>8. View' \in [Vars -> Value] /\ \A x \in Vars \ (Shared \cup {ret}) : View'[x] = View[x]
  <2>1. CASE ret = None
    <3>1. View' = m
      BY <1>1, <1>5, <1>7, <2>1, BecomeShows
    <3> QED BY <1>4, <3>1
  <2>2. CASE ret # None
    <3>1. PICK r \in AllocRegs(U, ret), v \in Value :
            Become(Modify(SetReg(Alloc(U, ret, r), r, v), r))
      BY <1>1, <2>2
    <3> DEFINE A == Alloc(U, ret, r)
               X == SetReg(A, r, v)
               F == Modify(X, r)
    <3>2. Become(F) /\ ret \in Vars
      BY <2>2, <3>1
    <3> HIDE DEF U
    <3>3. Good(A, {}) /\ A.var[r] = ret /\ r \in Gen
      BY <1>5, <3>2, AllocGood
    <3>4. Shows(A, m)
      BY <1>5, <1>7, <3>2, AllocShows
    <3> HIDE DEF A, m
    <3>5. /\ Typed(X) /\ X.var = A.var /\ X.mem = A.mem
          /\ \A q \in Gen : X.reg[q] = IF q = r THEN v ELSE A.reg[q]
      BY <3>3, SetRegFields DEF Good
    <3>6. Good(X, {r})
      BY <3>3, ExemptionGood, SetRegGood
    <3> HIDE DEF X
    <3>7. F.var = X.var /\ F.reg = X.reg /\ F.mem = X.mem /\ Good(F, {})
      BY <3>2, <3>3, <3>5, <3>6, ModifyFields, ModifyGood
    <3> HIDE DEF F
    <3>8. Shows(F, [m EXCEPT ![ret] = v])
      BY <3>2, <3>3, <3>4, <3>5, <3>7, ReplaceShows DEF Good
    <3>9. View' = [m EXCEPT ![ret] = v]
      BY <3>2, <3>7, <3>8, BecomeShows
    <3> QED BY <1>4, <3>2, <3>9 DEF m
  <2> QED BY <2>1, <2>2
<1> QED BY <1>1, <1>3, <1>8
        DEF Store!Call, Store!Report, Store!Tac, Store!Nothing, Report, Tac, Nothing

(* A return hands over its operand's value and the shared variables.       *)
LEMMA ReturnShows ==
  ASSUME IInv, "io" \notin Admit, NEW s \in Operands \cup {None}, Return(s)
  PROVE  Store!Return(s)
<1> DEFINE S == ClearAllRegs(WriteBackAll(Machine))
<1>1. obs' = Report(Tac("RETURN", s, None, None),
                    IF s = None THEN Nothing ELSE <<Loaded(S, s)>>, MemPublished(S))
  BY DEF Return
<1>2. /\ Typed(S) /\ \A r \in Gen : S.var[r] = None
      /\ \A x \in Vars : S.mem[x] = View[x]
  BY FlushGood, FlushShows, MachineShows DEF IInv, Good, ShowsView
<1> HIDE DEF S
<1>3. MemPublished(S) = Store!Published
  BY <1>2, SymbolsAssumption DEF MemPublished, Store!Published
<1>4. ASSUME s # None
      PROVE  Loaded(S, s) = Store!ValueOf(s)
  <2>1. s \in Vars \cup Lits
    BY <1>4, OperandsAreSymbols
  <2>2. Holding(S, s) = {}
    BY <1>2, <1>4 DEF Holding
  <2>3. Loaded(S, s) = Home(S, s)
    BY <1>2, <2>1, <2>2, LoadedFromHome
  <2> QED BY <1>2, <2>1, <2>3 DEF Home, Store!ValueOf
<1>5. View' \in [Vars -> Value]
  BY ReturnGood, MachineShowsNext DEF ShowsView, Shows
<1> QED BY <1>1, <1>3, <1>4, <1>5
        DEF Store!Return, Store!Report, Store!Tac, Store!Nothing, Report, Tac, Nothing

-----------------------------------------------------------------------------
(* Pointers. *)

(* asm_write_back shows the same store, and leaves its register spare.     *)
LEMMA WriteBackShows ==
  ASSUME NEW S, Good(S, {}), NEW m, Shows(S, m), NEW r \in Gen, "io" \notin Admit
  PROVE  Shows(WriteBack(S, r), m) /\ Spare(WriteBack(S, r), r, m)
<1> DEFINE T == WriteBack(S, r)
<1>1. /\ T.var = S.var /\ T.reg = S.reg
      /\ T.mod = S.mod \ {q \in {r} : S.var[q] # None}
      /\ \A x \in Vars : T.mem[x] = IF S.var[r] = x /\ r \in S.mod THEN S.reg[r] ELSE S.mem[x]
  BY WriteBackFields DEF Good
<1>2. Good(T, {})
  BY WriteBackGood
<1> HIDE DEF T
<1>3. Shows(T, m)
  BY <1>1 DEF Shows
<1>4. r \notin T.mod
  BY <1>1, SymbolsAssumption DEF Good, DirtyVar
<1> QED BY <1>2, <1>3, <1>4, CleanIsSpare DEF T

(* A spare register may be forgotten. *)
LEMMA ClearShows ==
  ASSUME NEW S, Typed(S), NEW m, Shows(S, m), NEW r \in Gen, Spare(S, r, m)
  PROVE  Shows(RdescClear(S, r), m)
<1> DEFINE T == RdescClear(S, r)
<1>1. /\ T.reg = S.reg /\ T.mem = S.mem
      /\ \A q \in Gen : T.var[q] = IF q = r THEN None ELSE S.var[q]
  BY RdescClearFields
<1> HIDE DEF T
<1> QED BY <1>1, SymbolsAssumption DEF Shows, Spare, T

(* The home of a variable no register holds modified is up to date.        *)
LEMMA HomeCurrent ==
  ASSUME NEW S, NEW E, Good(S, E), NEW m, Shows(S, m), "io" \notin Admit,
         NEW x \in Vars, DirtyCopies(S, x) = {}, \A r \in E : S.var[r] # x
  PROVE  S.mem[x] = m[x]
<1>1. ASSUME NEW r \in Gen, S.var[r] = x
      PROVE  S.mem[x] = m[x]
  <2>1. r \notin S.mod \cup E
    BY <1>1 DEF DirtyCopies, Holding
  <2> QED BY <1>1, <2>1, CleanIsSpare DEF Spare
<1> QED BY <1>1 DEF Shows

(* Saving the variable whose address is taken shows the same store.        *)
LEMMA SaveOneShows ==
  ASSUME NEW S, Good(S, {}), NEW m, Shows(S, m), NEW x \in Vars, "io" \notin Admit
  PROVE  Good(SaveOne(S, x), {}) /\ Shows(SaveOne(S, x), m)
<1>1. CASE DirtyCopies(S, x) = {}
  BY <1>1 DEF SaveOne
<1>2. CASE DirtyCopies(S, x) # {}
  <2> DEFINE D == DirtyCopies(S, x)
             c == CHOOSE q \in First(D) : TRUE
  <2>1. PICK q \in D : TRUE
    BY <1>2
  <2>2. \A p \in D : p = q
    BY <2>1, SymbolsAssumption DEF Good, Unique, DirtyCopies, Holding
  <2>3. D \subseteq Nat /\ D \subseteq Gen
    BY RegistersAssumption DEF DirtyCopies, Holding
  <2>4. q \in First(D)
    BY <2>1, <2>2, <2>3 DEF First
  <2>5. c \in D
    BY <2>4 DEF First
  <2>6. SaveOne(S, x) = WriteBack(S, c)
    BY <1>2 DEF SaveOne
  <2> HIDE DEF c
  <2> QED BY <2>3, <2>5, <2>6, WriteBackGood, WriteBackShows
<1> QED BY <1>1, <1>2

(* The address is formed in a register that nothing needs.                 *)
LEMMA AddrDefines ==
  ASSUME IInv, "io" \notin Admit, NEW a \in Vars, NEW b \in Addressable, Addr(a, b)
  PROVE  Store!Addr(a, b)
<1> DEFINE S == SaveOne(Machine, b)
<1>1. PICK r \in AddrRegs(S) : Become(Define(SetReg(WriteBack(S, r), r, AddrOf[b]), r, a))
  BY DEF Addr
<1>2. r \in Gen
  BY DEF AddrRegs, First, Empty, Holding, Clean
<1>3. Good(S, {}) /\ Shows(S, View)
  BY SaveOneShows, MachineShows, SymbolsAssumption DEF IInv, ShowsView
<1> HIDE DEF S
<1> DEFINE W == WriteBack(S, r)
           F == Define(SetReg(W, r, AddrOf[b]), r, a)
<1>4. Good(W, {}) /\ Good(W, {r}) /\ Shows(W, View) /\ Spare(W, r, View)
  BY <1>2, <1>3, WriteBackGood, WriteBackShows, ExemptionGood
<1>5. AddrOf[b] \in Value
  BY ValuesAssumption
<1>6. Become(F)
  BY <1>1
<1> HIDE DEF W
<1>7. Good(F, {}) /\ Shows(F, [View EXCEPT ![a] = AddrOf[b]])
  BY <1>2, <1>4, <1>5, SetAndDefineGood, DefineShows DEF Good
<1> HIDE DEF F
<1>8. View' = [View EXCEPT ![a] = AddrOf[b]]
  BY <1>6, <1>7, BecomeShows
<1> QED BY <1>8 DEF Addr, Silent, Store!Addr, Store!Silently, Store!Report, Store!Tac,
                    Store!Nothing, Report, Tac, Nothing

(* A read through a pointer defines its result as the variable pointed to, *)
(* as long as no register holds that variable modified.                    *)
LEMMA LoadPtrReads ==
  ASSUME IInv, "io" \notin Admit, "alias" \notin Admit,
         NEW a \in Vars, NEW b \in Vars, LoadPtr(a, b)
  PROVE  Store!LoadPtr(a, b)
<1> DEFINE S(rp) == Alloc(Machine, b, rp)
           T(rp, rv) == RdescClear(WriteBack(S(rp), rv), rv)
<1>1. PICK rp \in AllocRegs(Machine, b) :
        \E rv \in TargetRegs(S(rp), rp), x \in Addressable :
          /\ AddrOf[x] = T(rp, rv).reg[rp]
          /\ AliasSafe(T(rp, rv), x)
          /\ Become(Define(SetReg(T(rp, rv), rv, T(rp, rv).mem[x]), rv, a))
          /\ obs' = Silent("LOAD_PTR", a, b, None)
  BY DEF LoadPtr
<1>2. PICK rv \in TargetRegs(S(rp), rp), x \in Addressable :
        /\ AddrOf[x] = T(rp, rv).reg[rp]
        /\ AliasSafe(T(rp, rv), x)
        /\ Become(Define(SetReg(T(rp, rv), rv, T(rp, rv).mem[x]), rv, a))
        /\ obs' = Silent("LOAD_PTR", a, b, None)
  BY <1>1
<1> DEFINE A == S(rp)
           W == WriteBack(A, rv)
           U == RdescClear(W, rv)
           v == U.mem[x]
           F == Define(SetReg(U, rv, v), rv, a)
<1>3. rp \in Gen /\ Good(A, {}) /\ Shows(A, View) /\ A.reg[rp] = Worth(View, b)
  BY AllocGood, AllocShows, MachineShows DEF IInv, ShowsView
<1>4. rv \in Gen
  BY DEF TargetRegs, First, Empty, Holding, Clean
<1>5. AddrOf[x] = U.reg[rp] /\ AliasSafe(U, x) /\ Become(F) /\ obs' = Silent("LOAD_PTR", a, b, None)
  BY <1>2
<1>6. x \in Vars
  BY SymbolsAssumption
<1> HIDE DEF S, T, A
<1>7. Good(W, {}) /\ Shows(W, View) /\ Spare(W, rv, View) /\ W.reg = A.reg
  BY <1>3, <1>4, WriteBackGood, WriteBackShows, WriteBackFields DEF Good
<1> HIDE DEF W
<1>8. Good(U, {}) /\ Shows(U, View) /\ U.reg = W.reg /\ U.var[rv] = None
  BY <1>4, <1>7, RdescClearGood, ClearShows, RdescClearFields DEF Good
<1> HIDE DEF U
<1>9. v = View[x]
  BY <1>5, <1>6, <1>8, HomeCurrent DEF AliasSafe
<1>10. v \in Value
  BY <1>6, <1>8 DEF Good, Typed
<1>11. Spare(U, rv, View)
  BY <1>8, SymbolsAssumption DEF Spare
<1> HIDE DEF v
<1>12. Good(F, {}) /\ Shows(F, [View EXCEPT ![a] = v])
  BY <1>4, <1>8, <1>10, <1>11, ExemptionGood, SetAndDefineGood, DefineShows DEF Good
<1> HIDE DEF F
<1>13. View' = [View EXCEPT ![a] = v]
  BY <1>5, <1>12, BecomeShows
<1>14. AddrOf[x] = Store!ValueOf(b)
  BY <1>3, <1>5, <1>7, <1>8, ValueOfIsWorth
<1> QED BY <1>5, <1>9, <1>13, <1>14
        DEF Silent, Store!LoadPtr, Store!Silently, Store!Report, Store!Tac, Store!Nothing,
            Report, Tac, Nothing

(* A write through a pointer changes the variable pointed to, and no other, *)
(* as long as no register holds that variable modified: an older copy that *)
(* is not modified is dropped with everything else.                        *)
LEMMA StorePtrWrites ==
  ASSUME IInv, "io" \notin Admit, "alias" \notin Admit,
         NEW a \in Vars, NEW b \in Operands, StorePtr(a, b)
  PROVE  Store!StorePtr(a, b)
<1> DEFINE A(ra) == Alloc(Machine, a, ra)
           B(ra, rb) == Alloc(A(ra), b, rb)
<1>1. PICK ra \in AllocRegs(Machine, a) : \E rb \in AllocRegs(A(ra), b), x \in Addressable :
        /\ AddrOf[x] = IF ra = rb THEN B(ra, rb).mem[a] ELSE B(ra, rb).reg[ra]
        /\ AliasSafe(B(ra, rb), x)
        /\ Become(ClearAllRegs(WriteBackAll([B(ra, rb) EXCEPT !.mem[x] = B(ra, rb).reg[rb]])))
        /\ obs' = Silent("STORE_PTR", a, b, None)
  BY DEF StorePtr
<1>2. PICK rb \in AllocRegs(A(ra), b), x \in Addressable :
        /\ AddrOf[x] = IF ra = rb THEN B(ra, rb).mem[a] ELSE B(ra, rb).reg[ra]
        /\ AliasSafe(B(ra, rb), x)
        /\ Become(ClearAllRegs(WriteBackAll([B(ra, rb) EXCEPT !.mem[x] = B(ra, rb).reg[rb]])))
        /\ obs' = Silent("STORE_PTR", a, b, None)
  BY <1>1
<1> DEFINE P == A(ra)
           S == Alloc(P, b, rb)
           v == S.reg[rb]
           T == [S EXCEPT !.mem[x] = v]
           F == ClearAllRegs(WriteBackAll(T))
<1>3. /\ AddrOf[x] = IF ra = rb THEN S.mem[a] ELSE S.reg[ra]
      /\ AliasSafe(S, x) /\ Become(F) /\ obs' = Silent("STORE_PTR", a, b, None)
  BY <1>2
<1>4. /\ ra \in Gen /\ Good(P, {}) /\ Shows(P, View) /\ Spare(P, ra, View)
      /\ P.var[ra] = a /\ P.reg[ra] = Worth(View, a) /\ ra \notin P.mod
  BY AllocGood, AllocShows, MachineShows DEF IInv, ShowsView
<1>5. x \in Vars /\ a \notin Lits /\ b \in Vars \cup Lits
  BY SymbolsAssumption, OperandsAreSymbols
<1> HIDE DEF A, B
<1>6. rb \in Gen /\ Good(S, {}) /\ Shows(S, View) /\ v = Worth(View, b)
  BY <1>4, <1>5, AllocGood, AllocShows DEF A
<1>7. /\ \A q \in Gen \ {rb} : S.reg[q] = P.reg[q]
      /\ \A y \in Vars : S.mem[y] = IF P.var[rb] = y /\ rb \in P.mod THEN P.reg[rb] ELSE P.mem[y]
  BY <1>4, <1>5, AllocFields DEF A
<1>8. AddrOf[x] = Store!ValueOf(a)
  <2>1. ra # rb => S.reg[ra] = View[a]
    BY <1>4, <1>5, <1>7 DEF Worth
  <2>2. ra = rb => S.mem[a] = View[a]
    BY <1>4, <1>7 DEF Spare
  <2> QED BY <1>3, <1>5, <2>1, <2>2 DEF Store!ValueOf
<1> HIDE DEF P, S
<1>9. v \in Value
  BY <1>6 DEF Good, Typed
<1> HIDE DEF v
<1>10. /\ Typed(T) /\ T.var = S.var /\ T.mod = S.mod /\ T.reg = S.reg
       /\ T.mem[x] = v /\ \A y \in Vars \ {x} : T.mem[y] = S.mem[y]
  BY <1>5, <1>6, <1>9, MemTyped DEF Good, Typed
<1> HIDE DEF T
<1>11. Unique(T) /\ DirtyVar(T, {})
  BY <1>6, <1>10 DEF Good, Unique, DirtyVar
<1>12. /\ \A r \in Gen : F.var[r] = None
       /\ \A y \in Vars : /\ \A r \in T.mod : T.var[r] = y => F.mem[y] = T.reg[r]
                          /\ (\A r \in T.mod : T.var[r] # y) => F.mem[y] = T.mem[y]
  BY <1>10, <1>11, FlushFields
<1>13. Good(F, {})
  BY <1>10, <1>11, FlushGood
<1> HIDE DEF F
<1>14. S.mod \subseteq Gen
  BY <1>6 DEF Good, Typed
<1>15. F.mem[x] = v
  BY <1>3, <1>5, <1>10, <1>12, <1>14 DEF AliasSafe, DirtyCopies, Holding
<1>16. ASSUME NEW y \in Vars, y # x
       PROVE  F.mem[y] = View[y]
  <2>1. ASSUME NEW r \in S.mod, S.var[r] = y
        PROVE  F.mem[y] = View[y]
    BY <1>6, <1>10, <1>12, <1>14, <2>1 DEF Shows
  <2>2. ASSUME \A r \in S.mod : S.var[r] # y
        PROVE  F.mem[y] = View[y]
    <3>1. DirtyCopies(S, y) = {}
      BY <2>2 DEF DirtyCopies, Holding
    <3>2. S.mem[y] = View[y]
      BY <1>6, <3>1, HomeCurrent
    <3> QED BY <1>10, <1>12, <1>16, <2>2, <3>2
  <2> QED BY <2>1, <2>2
<1>17. PICK n : n = [View EXCEPT ![x] = v]
  OBVIOUS
<1>18. n \in [Vars -> Value] /\ n[x] = v /\ \A y \in Vars \ {x} : n[y] = View[y]
  BY <1>5, <1>6, <1>9, <1>17 DEF Shows
<1>19. Shows(F, n)
  BY <1>12, <1>15, <1>16, <1>18, SymbolsAssumption DEF Shows
<1>20. View' = n
  BY <1>3, <1>13, <1>19, BecomeShows
<1> QED BY <1>3, <1>6, <1>8, <1>17, <1>20, ValueOfIsWorth
        DEF Silent, Store!StorePtr, Store!Silently, Store!Report, Store!Tac, Store!Nothing,
            Report, Tac, Nothing

-----------------------------------------------------------------------------
(* The refinement. *)

(* The initial view is an initial store. *)
LEMMA RefInit ==
  Init => Store!Init
<1> SUFFICES ASSUME Init PROVE Store!Init
  OBVIOUS
<1>1. View \in [Vars -> Value]
  BY InitGood, MachineShows DEF ShowsView, Shows
<1> QED BY <1>1 DEF Init, Silent, Store!Init, Store!Report, Store!Tac, Store!Nothing,
                    Report, Tac, Nothing

(* Nothing changes in the store when nothing changes in the machine.       *)
LEMMA RefStutter ==
  ASSUME IInv, UNCHANGED vars
  PROVE  UNCHANGED Store!vars
<1>1. Become(Machine)
  BY DEF vars, Become, Machine
<1>2. View' = View
  BY <1>1, BecomeShows, MachineShows DEF IInv, ShowsView
<1> QED BY <1>2 DEF vars, Store!vars

(* A binary operation is Compute. *)
LEMMA BinComputes ==
  ASSUME IInv, "io" \notin Admit, "spill" \notin Admit,
         NEW op \in Arith \cup Rel, NEW a \in Vars, NEW b \in Operands, NEW c \in Operands,
         Bin(op, a, b, c)
  PROVE  Store!Compute(op, a, b, c)
  BY AsmBinComputes, OperandsAreSymbols, ValueOfIsWorth
     DEF Bin, Silent, Store!Compute, Store!Silently, Store!Report, Store!Tac, Store!Nothing,
         Report, Tac, Nothing

(* Every step of the code generator is the step of the store that its TAC  *)
(* names.                                                                  *)
LEMMA RefStep ==
  ASSUME Admit = {}, IInv, Next
  PROVE  Store!Next
<1>0. "io" \notin Admit /\ "spill" \notin Admit /\ "alias" \notin Admit
  OBVIOUS
<1> USE <1>0
<1>1. ASSUME NEW a \in Vars, NEW b \in Operands, NEW c \in Operands,
             NEW op \in Arith \cup Rel, Bin(op, a, b, c)
      PROVE  Store!Next
  <2>1. Store!Compute(op, a, b, c)
    BY <1>1, BinComputes
  <2>2. obs'.tac = [op |-> op, a |-> a, b |-> b, c |-> c]
    BY <2>1 DEF Store!Compute, Store!Silently, Store!Report, Store!Tac
  <2> QED BY <2>1, <2>2 DEF Store!Next, Store!Operands, Operands
<1>2. ASSUME NEW a \in Vars, NEW b \in Operands, Neg(a, b)
      PROVE  Store!Next
  <2>1. "SUB" \in Arith \cup Rel /\ Zero \in Lits
    BY ValuesAssumption, SymbolsAssumption
  <2>2. View' = [View EXCEPT ![a] = ALU[<<"SUB", Worth(View, Zero), Worth(View, b)>>]]
    BY <1>2, <2>1, AsmBinComputes, OperandsAreSymbols DEF Neg
  <2>3. Store!Neg(a, b)
    BY <1>2, <2>1, <2>2, ValueOfIsWorth
       DEF Neg, Silent, Worth, Store!Neg, Store!Silently, Store!Report, Store!Tac,
           Store!Nothing, Report, Tac, Nothing
  <2>4. obs'.tac = [op |-> "NEG", a |-> a, b |-> b, c |-> None]
    BY <2>3 DEF Store!Neg, Store!Silently, Store!Report, Store!Tac
  <2> QED BY <2>3, <2>4 DEF Store!Next, Store!Operands, Operands
<1>3. ASSUME NEW a \in Vars, NEW b \in Operands, Copy(a, b)
      PROVE  Store!Next
  <2>1. Store!Copy(a, b)
    BY <1>3, CopyCopies, ValueOfIsWorth
       DEF Copy, Silent, Store!Copy, Store!Silently, Store!Report, Store!Tac, Store!Nothing,
           Report, Tac, Nothing
  <2>2. obs'.tac = [op |-> "COPY", a |-> a, b |-> b, c |-> None]
    BY <2>1 DEF Store!Copy, Store!Silently, Store!Report, Store!Tac
  <2> QED BY <2>1, <2>2 DEF Store!Next, Store!Operands, Operands
<1>4. ASSUME NEW a \in Vars, Input(a)
      PROVE  Store!Next
  <2>1. Store!Input(a)
    BY <1>4, InputReads
  <2>2. obs'.tac = [op |-> "INPUT", a |-> a, b |-> None, c |-> None]
    BY <2>1 DEF Store!Input, Store!Report, Store!Tac
  <2> QED BY <2>1, <2>2 DEF Store!Next
<1>5. ASSUME NEW s \in Operands, Output(s) \/ Actual(s) \/ Ifz(s)
      PROVE  Store!Next
  <2>1. PICK op \in {"OUTPUT", "ACTUAL", "IFZ"} : Store!Show(op, s)
    BY <1>5, OutputShows, ActualShows, IfzShows
  <2>2. obs'.tac = [op |-> op, a |-> s, b |-> None, c |-> None]
    BY <2>1 DEF Store!Show, Store!Report, Store!Tac
  <2> QED BY <2>1, <2>2 DEF Store!Next, Store!Operands, Operands
<1>6. CASE Goto \/ Label
  <2>1. PICK op \in {"GOTO", "LABEL"} : Store!Jump(op)
    BY <1>6, JumpShows
  <2>2. obs'.tac = [op |-> op, a |-> None, b |-> None, c |-> None]
    BY <2>1 DEF Store!Jump, Store!Silently, Store!Report, Store!Tac
  <2> QED BY <2>1, <2>2 DEF Store!Next
<1>7. ASSUME NEW ret \in (Vars \ Shared) \cup {None}, Call(ret)
      PROVE  Store!Next
  <2>1. Store!Call(ret)
    BY <1>7, CallShows
  <2>2. obs'.tac = [op |-> "CALL", a |-> ret, b |-> None, c |-> None]
    BY <2>1 DEF Store!Call, Store!Report, Store!Tac
  <2> QED BY <2>1, <2>2 DEF Store!Next
<1>8. ASSUME NEW s \in Operands \cup {None}, Return(s)
      PROVE  Store!Next
  <2>1. Store!Return(s)
    BY <1>8, ReturnShows
  <2>2. obs'.tac = [op |-> "RETURN", a |-> s, b |-> None, c |-> None]
    BY <2>1 DEF Store!Return, Store!Report, Store!Tac
  <2> QED BY <2>1, <2>2 DEF Store!Next, Store!Operands, Operands
<1>9. ASSUME NEW a \in Vars, NEW b \in Addressable, Addr(a, b)
      PROVE  Store!Next
  <2>1. Store!Addr(a, b)
    BY <1>9, AddrDefines
  <2>2. obs'.tac = [op |-> "ADDR", a |-> a, b |-> b, c |-> None]
    BY <2>1 DEF Store!Addr, Store!Silently, Store!Report, Store!Tac
  <2> QED BY <2>1, <2>2 DEF Store!Next
<1>10. ASSUME NEW a \in Vars, NEW b \in Vars, LoadPtr(a, b)
       PROVE  Store!Next
  <2>1. Store!LoadPtr(a, b)
    BY <1>10, LoadPtrReads
  <2>2. obs'.tac = [op |-> "LOAD_PTR", a |-> a, b |-> b, c |-> None]
    BY <2>1 DEF Store!LoadPtr, Store!Silently, Store!Report, Store!Tac
  <2> QED BY <2>1, <2>2 DEF Store!Next
<1>11. ASSUME NEW a \in Vars, NEW b \in Operands, StorePtr(a, b)
       PROVE  Store!Next
  <2>1. Store!StorePtr(a, b)
    BY <1>11, StorePtrWrites
  <2>2. obs'.tac = [op |-> "STORE_PTR", a |-> a, b |-> b, c |-> None]
    BY <2>1 DEF Store!StorePtr, Store!Silently, Store!Report, Store!Tac
  <2> QED BY <2>1, <2>2 DEF Store!Next, Store!Operands, Operands
<1> QED BY <1>1, <1>2, <1>3, <1>4, <1>5, <1>6, <1>7, <1>8, <1>9, <1>10, <1>11 DEF Next

(* The printed assembly computes what the three-address code means: for    *)
(* any pool of registers, any variables and literals and any word size,    *)
(* each asm_code call is the TacStore instruction it was given, when none  *)
(* of the three Cases arises.                                              *)
THEOREM Refinement ==
  ASSUME Admit = {}
  PROVE  Spec => Implements
<1>1. Init => Store!Init
  BY RefInit
<1>2. IInv /\ [Next]_vars => [Store!Next]_Store!vars
  BY RefStep, RefStutter
<1> QED BY <1>1, <1>2, Invariance, PTL DEF Spec, Implements, Store!Spec

-----------------------------------------------------------------------------
(* Two promises about single instructions, each from the one case it needs *)
(* excluded. R_IO's own promise is part of both: a register the generator  *)
(* takes for a copy of memory must be one.                                 *)

(* The step that reports a binary operation is that operation, the one     *)
(* that reports an OUTPUT is an OUTPUT.                                    *)
LEMMA Reported ==
  ASSUME Next
  PROVE  /\ obs'.tac.op \in Arith \cup Rel =>
              \E a \in Vars, b, c \in Operands, op \in Arith \cup Rel :
                Bin(op, a, b, c) /\ obs'.tac = Tac(op, a, b, c)
         /\ obs'.tac.op = "OUTPUT" => \E s \in Operands : Output(s)
<1> DEFINE Binary == \E a \in Vars, b, c \in Operands, op \in Arith \cup Rel :
                       Bin(op, a, b, c) /\ obs'.tac = Tac(op, a, b, c)
           Names == {"NEG", "COPY", "INPUT", "ACTUAL", "GOTO", "LABEL", "IFZ", "CALL",
                     "RETURN", "ADDR", "LOAD_PTR", "STORE_PTR"}
<1>1. ASSUME NEW a \in Vars, NEW b \in Operands, NEW c \in Operands,
             NEW op \in Arith \cup Rel, Bin(op, a, b, c)
      PROVE  Binary /\ obs'.tac.op \in Arith \cup Rel
  <2>1. obs'.tac = Tac(op, a, b, c)
    BY <1>1 DEF Bin, Silent, Report
  <2> QED BY <1>1, <2>1 DEF Tac
<1>2. ASSUME NEW s \in Operands, Output(s)
      PROVE  obs'.tac.op = "OUTPUT"
  BY <1>2 DEF Output, Report, Tac
<1>3. ASSUME NEW s \in Operands \cup {None}, Actual(s) \/ Ifz(s) \/ Return(s)
      PROVE  obs'.tac.op \in Names
  <2>1. Actual(s) => obs'.tac.op = "ACTUAL"
    BY DEF Actual, Report, Tac
  <2>2. Ifz(s) => obs'.tac.op = "IFZ"
    BY DEF Ifz, Report, Tac
  <2>3. Return(s) => obs'.tac.op = "RETURN"
    BY DEF Return, Report, Tac
  <2> QED BY <1>3, <2>1, <2>2, <2>3
<1>4. ASSUME NEW a \in Vars, NEW b \in Operands, Neg(a, b) \/ Copy(a, b) \/ StorePtr(a, b)
      PROVE  obs'.tac.op \in Names
  <2>1. Neg(a, b) => obs'.tac.op = "NEG"
    BY DEF Neg, Silent, Report, Tac
  <2>2. Copy(a, b) => obs'.tac.op = "COPY"
    BY DEF Copy, Silent, Report, Tac
  <2>3. StorePtr(a, b) => obs'.tac.op = "STORE_PTR"
    BY DEF StorePtr, Silent, Report, Tac
  <2> QED BY <1>4, <2>1, <2>2, <2>3
<1>5. ASSUME NEW a \in Vars \cup {None}, Input(a) \/ Call(a)
      PROVE  obs'.tac.op \in Names
  <2>1. Input(a) => obs'.tac.op = "INPUT"
    BY DEF Input, Report, Tac
  <2>2. ASSUME Call(a)
        PROVE  obs'.tac.op = "CALL"
    <3>1. obs' = Report(Tac("CALL", a, None, None), Nothing,
                        MemPublished(ClearAllRegs(WriteBackAll(Machine))))
      BY <2>2 DEF Call
    <3> QED BY <3>1 DEF Report, Tac
  <2> QED BY <1>5, <2>1, <2>2
<1>6. ASSUME Goto \/ Label
      PROVE  obs'.tac.op \in Names
  BY <1>6 DEF Goto, Label, Silent, Report, Tac
<1>7. ASSUME NEW a \in Vars, NEW b \in Vars, Addr(a, b) \/ LoadPtr(a, b)
      PROVE  obs'.tac.op \in Names
  BY <1>7 DEF Addr, LoadPtr, Silent, Report, Tac
<1>8. Addressable \subseteq Vars
  BY SymbolsAssumption
<1>9. /\ (Arith \cup Rel) \cap Names = {}
      /\ "OUTPUT" \notin Arith \cup Rel
      /\ "OUTPUT" \notin Names
  BY OpcodesAssumption
<1> HIDE DEF Binary, Names
<1>10. /\ Binary \/ obs'.tac.op = "OUTPUT" \/ obs'.tac.op \in Names
       /\ obs'.tac.op = "OUTPUT" => \E s \in Operands : Output(s)
  BY <1>1, <1>2, <1>3, <1>4, <1>5, <1>6, <1>7, <1>8, <1>9 DEF Next
<1> QED BY <1>9, <1>10 DEF Binary

(* A binary operation combines its two operands, unless c may be placed    *)
(* over b: what the comment on the "CRITICAL FIX" in asm_bin claims.       *)
THEOREM OperandsKept ==
  ASSUME "spill" \notin Admit, "io" \notin Admit
  PROVE  Spec => OperandsSurvive
<1> DEFINE A == obs'.tac.op \in Arith \cup Rel =>
                  View'[obs'.tac.a] = ALU[<<obs'.tac.op, Store!ValueOf(obs'.tac.b),
                                            Store!ValueOf(obs'.tac.c)>>]
<1>1. ASSUME IInv, Next, obs'.tac.op \in Arith \cup Rel
      PROVE  View'[obs'.tac.a] = ALU[<<obs'.tac.op, Store!ValueOf(obs'.tac.b),
                                       Store!ValueOf(obs'.tac.c)>>]
  <2>1. PICK a \in Vars, b \in Operands, c \in Operands, op \in Arith \cup Rel :
          Bin(op, a, b, c) /\ obs'.tac = Tac(op, a, b, c)
    BY <1>1, Reported
  <2>2. Store!Compute(op, a, b, c)
    BY <1>1, <2>1, BinComputes
  <2>3. View \in [Vars -> Value]
    BY <1>1, MachineShows DEF ShowsView, Shows
  <2>4. View'[a] = ALU[<<op, Store!ValueOf(b), Store!ValueOf(c)>>]
    BY <2>2, <2>3 DEF Store!Compute
  <2>5. obs'.tac.op = op /\ obs'.tac.a = a /\ obs'.tac.b = b /\ obs'.tac.c = c
    BY <2>1 DEF Tac
  <2> QED BY <2>4, <2>5
<1>2. IInv /\ [Next]_vars => [A]_vars
  BY <1>1
<1> QED BY <1>2, Invariance, PTL DEF Spec, OperandsSurvive

(* Printing a value leaves every variable what it was, unless the I/O      *)
(* register may be taken from the variable it holds.                       *)
THEOREM OutputHarmless ==
  ASSUME "io" \notin Admit
  PROVE  Spec => OutputChangesNothing
<1>1. ASSUME IInv, Next, obs'.tac.op = "OUTPUT"
      PROVE  View' = View
  <2>1. PICK s \in Operands : Output(s)
    BY <1>1, Reported
  <2> QED BY <1>1, <2>1, OutputShows DEF Store!Show
<1>2. IInv /\ [Next]_vars => [obs'.tac.op = "OUTPUT" => View' = View]_vars
  BY <1>1
<1> QED BY <1>2, Invariance, PTL DEF Spec, OutputChangesNothing
=============================================================================
