--------------------------- MODULE AcceptedProofs ---------------------------
(***************************************************************************)
(* The assembler reads whatever the generator prints.                      *)
(*                                                                         *)
(* The generator prints a negative number only where it stores a register  *)
(* to a home it does not have. So the argument is about the registers: a   *)
(* modified register holds a variable with a home (Sound), in every TAC,   *)
(* but for the one that pins the first operand of an operation. And it     *)
(* prints a definition only for a LABEL, in the tail and in the data       *)
(* (Clean), each name once (Neat), because the names are distinct: there   *)
(* are as many of them as there are definitions (Separate).                *)
(*                                                                         *)
(* The assembler then never meets a line it cannot read, nor a label that  *)
(* has an address already, nor more names than its table has places.       *)
(***************************************************************************)
EXTENDS ToolchainProofs

-----------------------------------------------------------------------------
(* Lines that are read and define nothing.                                 *)
Bare(op) == op \notin {Unreadable, "LABEL"}

Tidy(s) == Listed(s) /\ \A k \in DOMAIN s : Bare(s[k].op)

(* The text u is s and tidy lines.                                         *)
Clean(s, u) ==
  /\ Listed(u)
  /\ \A k \in DOMAIN s : k \in DOMAIN u /\ u[k] = s[k]
  /\ \A k \in DOMAIN u : k \in DOMAIN s \/ Bare(u[k].op)

(* A line is what its mnemonic is: an instruction, *)
LEMMA LineBare ==
  ASSUME NEW op, Bare(op), NEW rx, NEW ry, NEW n
  PROVE  Bare(Line(op, rx, ry, n).op)
  BY DEF Line

(* one with a name *)
LEMMA NamedBare ==
  ASSUME NEW op, Bare(op), NEW rx, NEW name
  PROVE  Bare(Named(op, rx, name).op)
  BY DEF Line, Named

(* and one with a number that has no sign. *)
LEMMA UnsignedBare ==
  ASSUME NEW op, Bare(op), NEW rx, NEW ry, NEW n, ~(n < 0)
  PROVE  Bare(Unsigned(op, rx, ry, n).op)
  BY DEF Line, Unsigned

(* Tidy lines in a sequence. *)
LEMMA TidyOf ==
  ASSUME NEW S, \A l \in S : Bare(l.op), NEW s \in Seq(S)
  PROVE  Tidy(s)
<1>1. Listed(s)
  BY SeqIsListed
<1>2. \A k \in DOMAIN s : s[k] \in S
  BY ElementOfSeq, LenProperties
<1> QED BY <1>1, <1>2 DEF Tidy

(* None, *)
LEMMA TidyNone == Tidy(<<>>)
  BY DEF Tidy, Listed

(* one, *)
LEMMA TidyOne ==
  ASSUME NEW l, Bare(l.op)
  PROVE  Tidy(<<l>>)
<1>1. <<l>> \in Seq({l}) /\ \A x \in {l} : Bare(x.op)
  OBVIOUS
<1> QED BY <1>1, TidyOf

(* two *)
LEMMA TidyTwo ==
  ASSUME NEW l1, NEW l2, Bare(l1.op), Bare(l2.op)
  PROVE  Tidy(<<l1, l2>>)
<1>1. <<l1, l2>> \in Seq({l1, l2}) /\ \A x \in {l1, l2} : Bare(x.op)
  OBVIOUS
<1> QED BY <1>1, TidyOf

(* or three of them. *)
LEMMA TidyThree ==
  ASSUME NEW l1, NEW l2, NEW l3, Bare(l1.op), Bare(l2.op), Bare(l3.op)
  PROVE  Tidy(<<l1, l2, l3>>)
<1>1. <<l1, l2, l3>> \in Seq({l1, l2, l3}) /\ \A x \in {l1, l2, l3} : Bare(x.op)
  OBVIOUS
<1> QED BY <1>1, TidyOf

(* Tidy lines and more of them. *)
LEMMA TidyJoined ==
  ASSUME NEW s, NEW t, Tidy(s), Tidy(t)
  PROVE  Tidy(s \o t)
<1>1. Joined(s, t, s \o t)
  BY Concatenation DEF Tidy
<1>2. \A x \in Range(s) \cup Range(t) : Bare(x.op)
  BY DEF Tidy, Range
<1> QED BY <1>1, <1>2 DEF Joined, Tidy

(* A text and tidy lines. *)
LEMMA CleanJoined ==
  ASSUME NEW s, NEW t, Listed(s), Tidy(t)
  PROVE  Clean(s, s \o t)
<1>1. PICK u, m, n : u = s \o t /\ m = Len(s) /\ n = Len(t)
  OBVIOUS
<1>2. Joined(s, t, u)
  BY <1>1, Concatenation DEF Tidy
<1>3. m \in Nat /\ n \in Nat /\ DOMAIN s = 1..m /\ DOMAIN t = 1..n
  BY <1>1, ListedMeans DEF Tidy
<1>4. DOMAIN u = 1..(m + n)
  BY <1>1, <1>2, ListedMeans DEF Joined
<1>5. ASSUME NEW k \in DOMAIN u, k \notin DOMAIN s
      PROVE  Bare(u[k].op)
  <2>1. k - m \in DOMAIN t /\ m + (k - m) = k
    BY <1>3, <1>4, <1>5
  <2>2. u[k] = t[k - m]
    BY <1>1, <1>2, <2>1 DEF Joined
  <2> QED BY <2>1, <2>2 DEF Tidy
<1> QED BY <1>1, <1>2, <1>5 DEF Joined, Clean

-----------------------------------------------------------------------------
(* The generator: a modified register outside X holds a variable with a    *)
(* home.                                                                   *)
Homed(offset, s) ==
  s.type = "VAR" /\ (s.scope = "LOCAL" \/ (s \in DOMAIN offset /\ offset[s] \in Nat))

Sound(g, X) ==
  /\ DOMAIN g = {"text", "var", "mod", "tof", "oof", "oon", "tos", "offset"}
  /\ Listed(g.text)
  /\ DOMAIN g.var = Gen /\ g.mod \subseteq Gen
  /\ \A r \in g.mod : r \notin X => Homed(g.offset, g.var[r])

(* h is g after code that is read, and declares nothing.                   *)
Goes(g, h, X) == Sound(h, X) /\ Clean(g.text, h.text) /\ h.offset = g.offset

(* What may be loaded: a number that is printed without a sign, a variable *)
(* with a home, a text.                                                    *)
Ready(offset, s) ==
  /\ s.type \in {"CONST_INT", "CONST_CHAR", "VAR", "TEXT"}
  /\ IsConst(s) => ~(Number(s) < 0)
  /\ s.type = "VAR" => Homed(offset, s)

(* Doing nothing is clean. *)
LEMMA GoesSelf ==
  ASSUME NEW g, NEW X, Sound(g, X)
  PROVE  Goes(g, g, X)
  BY DEF Goes, Sound, Clean

(* One after the other. *)
LEMMA GoesOn ==
  ASSUME NEW f, NEW g, NEW h, NEW X, NEW Y, Goes(f, g, X), Goes(g, h, Y)
  PROVE  Goes(f, h, Y)
<1>1. Clean(f.text, h.text)
  BY DEF Goes, Clean
<1> QED BY <1>1 DEF Goes

(* A step that leaves the text alone. *)
LEMMA GoesQuiet ==
  ASSUME NEW g, NEW h, NEW X, NEW Y, Sound(g, X), DOMAIN h = DOMAIN g, h.text = g.text,
         h.offset = g.offset, DOMAIN h.var = Gen, h.mod \subseteq Gen,
         \A r \in h.mod : r \notin Y => Homed(g.offset, h.var[r])
  PROVE  Goes(g, h, Y)
  BY DEF Goes, Sound, Clean

(* Printing tidy lines. *)
LEMMA EmitGoes ==
  ASSUME NEW g, NEW lines, NEW X, Sound(g, X), Tidy(lines)
  PROVE  Goes(g, Emit(g, lines), X)
<1>1. PICK h : h = Emit(g, lines)
  OBVIOUS
<1>2. /\ h.text = g.text \o lines /\ DOMAIN h = DOMAIN g /\ h.offset = g.offset
      /\ h.var = g.var /\ h.mod = g.mod
  BY <1>1 DEF Emit, Sound
<1>3. Clean(g.text, h.text)
  BY <1>2, CleanJoined DEF Sound
<1>4. Sound(h, X)
  BY <1>2, <1>3 DEF Sound, Clean
<1> QED BY <1>1, <1>2, <1>3, <1>4 DEF Goes

(* A store to a home. *)
LEMMA StoreTidy ==
  ASSUME NEW g, NEW r, NEW s, Homed(g.offset, s)
  PROVE  Tidy(Store(g, r, s))
<1>1. Bare("STO_3") /\ Bare("LOD_0")
  BY DEF Bare, Unreadable
<1>2. s.scope # "LOCAL" => ~(OffsetOf(g, s) < 0)
  BY DEF Homed, OffsetOf
<1>3. CASE s.scope = "LOCAL"
  BY <1>1, <1>3, LineBare, NamedBare, UnsignedBare, TidyOne DEF Store
<1>4. CASE s.scope # "LOCAL"
  BY <1>1, <1>2, <1>4, LineBare, NamedBare, UnsignedBare, TidyTwo DEF Store
<1> QED BY <1>3, <1>4

(* A load from one. *)
LEMMA FetchTidy ==
  ASSUME NEW g, NEW r, NEW s, Homed(g.offset, s)
  PROVE  Tidy(Fetch(g, r, s))
<1>1. Bare("LOD_5") /\ Bare("LOD_0")
  BY DEF Bare, Unreadable
<1>2. s.scope # "LOCAL" => ~(OffsetOf(g, s) < 0)
  BY DEF Homed, OffsetOf
<1>3. CASE s.scope = "LOCAL"
  BY <1>1, <1>3, LineBare, NamedBare, UnsignedBare, TidyOne DEF Fetch
<1>4. CASE s.scope # "LOCAL"
  BY <1>1, <1>2, <1>4, LineBare, NamedBare, UnsignedBare, TidyTwo DEF Fetch
<1> QED BY <1>3, <1>4

-----------------------------------------------------------------------------
(* Registers. *)

(* The first of some registers is one of them. *)
LEMMA FirstIn ==
  ASSUME NEW R, R \subseteq Gen, R # {}
  PROVE  First(R) \in R
<1>1. R \subseteq Nat
  BY DEF Gen, R_GEN, R_NUM
<1>2. PICK r \in R : \A q \in R : r <= q
  BY <1>1, Least
<1> QED BY <1>2 DEF First

(* reg_alloc finds a register, *)
LEMMA AllocRegIn ==
  ASSUME NEW g, NEW s, NEW rand \in Gen
  PROVE  AllocReg(g, s, rand) \in Gen
<1>1. PICK R1, R2, R3 : R1 = Holding(g, s) /\ R2 = Holding(g, Nil) /\ R3 = Gen \ g.mod
  OBVIOUS
<1>2. R1 \subseteq Gen /\ R2 \subseteq Gen /\ R3 \subseteq Gen
  BY <1>1 DEF Holding
<1>3. AllocReg(g, s, rand) \in {First(R1), First(R2), First(R3), rand}
  BY <1>1 DEF AllocReg
<1>4. /\ R1 # {} => First(R1) \in Gen
      /\ R2 # {} => First(R2) \in Gen
      /\ R3 # {} => First(R3) \in Gen
  BY <1>2, FirstIn
<1>5. AllocReg(g, s, rand) = IF R1 # {} THEN First(R1) ELSE IF R2 # {} THEN First(R2)
                             ELSE IF R3 # {} THEN First(R3) ELSE rand
  BY <1>1 DEF AllocReg
<1> QED BY <1>4, <1>5

(* and so do the searches for an address and for a value loaded. *)
LEMMA AddrRegIn ==
  ASSUME NEW g
  PROVE  AddrReg(g) \in Gen
<1>1. PICK R2, R3 : R2 = Holding(g, Nil) /\ R3 = Gen \ g.mod
  OBVIOUS
<1>2. (R2 # {} => First(R2) \in Gen) /\ (R3 # {} => First(R3) \in Gen)
  BY <1>1, FirstIn DEF Holding
<1>3. R_GEN \in Gen
  BY DEF Gen, R_GEN, R_NUM
<1>4. AddrReg(g) = IF R2 # {} THEN First(R2) ELSE IF R3 # {} THEN First(R3) ELSE R_GEN
  BY <1>1 DEF AddrReg
<1> QED BY <1>2, <1>3, <1>4

LEMMA ValueRegIn ==
  ASSUME NEW g, NEW rp
  PROVE  ValueReg(g, rp) \in Gen
<1>1. PICK R2, R3, R4 : R2 = Holding(g, Nil) /\ R3 = (Gen \ g.mod) \ {rp} /\ R4 = Gen \ {rp}
  OBVIOUS
<1>2. R4 # {}
  <2>1. 5 \in Gen /\ 6 \in Gen
    BY DEF Gen, R_GEN, R_NUM
  <2> QED BY <1>1, <2>1
<1>3. /\ R2 # {} => First(R2) \in Gen
      /\ R3 # {} => First(R3) \in Gen
      /\ First(R4) \in Gen
  BY <1>1, <1>2, FirstIn DEF Holding
<1>4. ValueReg(g, rp) = IF R2 # {} THEN First(R2) ELSE IF R3 # {} THEN First(R3) ELSE First(R4)
  BY <1>1 DEF ValueReg
<1> QED BY <1>3, <1>4

(* Clearing a descriptor. *)
LEMMA ClearGoes ==
  ASSUME NEW g, NEW X, Sound(g, X), NEW r
  PROVE  Goes(g, RdescClear(g, r), X)
<1>1. PICK v, m : v = [g.var EXCEPT ![r] = Nil] /\ m = g.mod \ {r}
  OBVIOUS
<1>2. RdescClear(g, r) = [g EXCEPT !.var = v, !.mod = m]
  BY <1>1 DEF RdescClear
<1>3. DOMAIN v = Gen /\ \A q \in m : q \in g.mod /\ v[q] = g.var[q]
  BY <1>1 DEF Sound
<1>4. PICK h : h = [g EXCEPT !.var = v, !.mod = m]
  OBVIOUS
<1>5. /\ DOMAIN h = DOMAIN g /\ h.text = g.text /\ h.offset = g.offset /\ h.var = v /\ h.mod = m
  BY <1>4 DEF Sound
<1>6. \A q \in m : q \notin X => Homed(g.offset, v[q])
  BY <1>3 DEF Sound
<1>7. Goes(g, h, X)
  BY <1>1, <1>3, <1>5, <1>6, GoesQuiet DEF Sound
<1> QED BY <1>2, <1>4, <1>7

(* Clearing all of them. *)
LEMMA ForgetGoes ==
  ASSUME NEW g, NEW X, Sound(g, X)
  PROVE  Goes(g, ClearAllRegs(g), {})
<1>1. PICK h : h = ClearAllRegs(g)
  OBVIOUS
<1>2. /\ DOMAIN h = DOMAIN g /\ h.text = g.text /\ h.offset = g.offset
      /\ h.var = [r \in Gen |-> Nil] /\ h.mod = {}
  BY <1>1 DEF ClearAllRegs, Sound
<1> QED BY <1>1, <1>2, GoesQuiet

(* Marking a register modified. *)
LEMMA ModifyGoes ==
  ASSUME NEW g, NEW X, NEW Y, Sound(g, X), NEW r \in Gen, X \subseteq Y \cup {r},
         r \in Y \/ Homed(g.offset, g.var[r])
  PROVE  Goes(g, Modify(g, r), Y)
<1>1. PICK h : h = Modify(g, r)
  OBVIOUS
<1>2. /\ DOMAIN h = DOMAIN g /\ h.text = g.text /\ h.offset = g.offset
      /\ h.var = g.var /\ h.mod = g.mod \cup {r}
  BY <1>1 DEF Modify, Sound
<1>3. \A q \in h.mod : q \notin Y => Homed(g.offset, h.var[q])
  BY <1>2 DEF Sound
<1> QED BY <1>1, <1>2, <1>3, GoesQuiet DEF Sound

(* Filling a descriptor: the register is not modified afterwards. *)
LEMMA FillGoes ==
  ASSUME NEW g, NEW X, Sound(g, X), NEW r \in Gen, NEW s
  PROVE  /\ Goes(g, RdescFill(g, r, s), X \ {r})
         /\ RdescFill(g, r, s).var[r] = s
<1>1. PICK v, m : /\ v = [q \in Gen |-> IF q = r THEN s ELSE IF g.var[q] = s THEN Nil ELSE g.var[q]]
                  /\ m = g.mod \ ({r} \cup Holding(g, s))
  OBVIOUS
<1>2. RdescFill(g, r, s) = [g EXCEPT !.var = v, !.mod = m]
  BY <1>1 DEF RdescFill
<1>3. PICK h : h = [g EXCEPT !.var = v, !.mod = m]
  OBVIOUS
<1>4. /\ DOMAIN h = DOMAIN g /\ h.text = g.text /\ h.offset = g.offset /\ h.var = v /\ h.mod = m
  BY <1>3 DEF Sound
<1>5. ASSUME NEW q \in m
      PROVE  q \in g.mod /\ q # r /\ v[q] = g.var[q]
  <2>1. q \in Gen /\ q \in g.mod /\ q # r /\ g.var[q] # s
    BY <1>1 DEF Holding, Sound
  <2> QED BY <1>1, <2>1
<1>6. \A q \in m : q \notin X \ {r} => Homed(g.offset, v[q])
  BY <1>5 DEF Sound
<1>7. DOMAIN v = Gen /\ m \subseteq Gen
  BY <1>1 DEF Sound
<1>8. Goes(g, h, X \ {r})
  BY <1>4, <1>6, <1>7, GoesQuiet
<1> QED BY <1>1, <1>2, <1>3, <1>4, <1>8

(* Giving a register to the variable just computed. *)
LEMMA DefineGoes ==
  ASSUME NEW g, NEW r \in Gen, NEW X, X \subseteq {r}, Sound(g, X), NEW a, Homed(g.offset, a)
  PROVE  Goes(g, Define(g, r, a), {})
<1>1. PICK h : h = RdescFill(g, r, a)
  OBVIOUS
<1>2. Goes(g, h, X \ {r}) /\ h.var[r] = a
  BY <1>1, FillGoes
<1>3. X \ {r} = {}
  OBVIOUS
<1>4. Goes(g, h, {}) /\ Sound(h, {}) /\ h.offset = g.offset
  BY <1>2, <1>3 DEF Goes
<1>5. Goes(h, Modify(h, r), {})
  BY <1>2, <1>4, ModifyGoes
<1> QED BY <1>1, <1>4, <1>5, GoesOn DEF Define

(* Writing a register back. *)
LEMMA WriteBackGoes ==
  ASSUME NEW g, NEW X, Sound(g, X), NEW r \in Gen, r \notin X
  PROVE  /\ Goes(g, WriteBack(g, r), X)
         /\ WriteBack(g, r).var = g.var
<1>1. CASE ~(g.var[r] # Nil /\ r \in g.mod)
  <2>1. WriteBack(g, r) = g
    BY <1>1 DEF WriteBack
  <2> QED BY <2>1, GoesSelf
<1>2. CASE g.var[r] # Nil /\ r \in g.mod
  <2>1. PICK h, m : h = Emit(g, Store(g, r, g.var[r])) /\ m = h.mod \ {r}
    OBVIOUS
  <2>2. Homed(g.offset, g.var[r])
    BY <1>2 DEF Sound
  <2>3. Goes(g, h, X)
    BY <2>1, <2>2, StoreTidy, EmitGoes
  <2>4. PICK w : w = [h EXCEPT !.mod = m]
    OBVIOUS
  <2>5. /\ DOMAIN w = DOMAIN h /\ w.text = h.text /\ w.offset = h.offset /\ w.var = h.var
        /\ w.mod = m
    BY <2>3, <2>4 DEF Goes, Sound
  <2>6. Sound(h, X) /\ DOMAIN h.var = Gen /\ m \subseteq Gen
    BY <2>1, <2>3 DEF Goes, Sound
  <2>7. \A q \in m : q \notin X => Homed(h.offset, h.var[q])
    BY <2>1, <2>6 DEF Sound
  <2>8. Goes(h, w, X)
    BY <2>5, <2>6, <2>7, GoesQuiet
  <2>9. h.var = g.var
    BY <2>1 DEF Emit, Sound
  <2>10. WriteBack(g, r) = w
    BY <1>2, <2>1, <2>4 DEF WriteBack
  <2> QED BY <2>3, <2>5, <2>8, <2>9, <2>10, GoesOn
<1> QED BY <1>1, <1>2

(* Writing all registers back. *)
LEMMA WriteBackAllGoes ==
  ASSUME NEW g, Sound(g, {})
  PROVE  Goes(g, WriteBackAll(g), {})
<1> DEFINE dirty == {r \in g.mod : g.var[r] # Nil}
           code(r) == IF r \in dirty THEN Store(g, r, g.var[r]) ELSE <<>>
           all == [i \in 1 .. R_NUM - R_GEN |-> code(R_GEN + i - 1)]
<1>1. ASSUME NEW r
      PROVE  Tidy(code(r))
  <2>1. CASE r \in dirty
    <3>1. Homed(g.offset, g.var[r])
      BY <2>1 DEF Sound
    <3> QED BY <2>1, <3>1, StoreTidy
  <2>2. CASE r \notin dirty
    BY <2>2, TidyNone
  <2> QED BY <2>1, <2>2
<1> HIDE DEF code
<1>2. PICK S : S = {code(R_GEN + i - 1) : i \in 1 .. 11}
  OBVIOUS
<1>3. all \in [1 .. 11 -> S] /\ \A i \in 1 .. 11 : Tidy(all[i])
  BY <1>1, <1>2 DEF R_NUM, R_GEN
<1> HIDE DEF all
<1>4. all \in Seq(S) /\ Len(all) = 11
  <2>1. 11 \in Nat
    OBVIOUS
  <2>2. all \in Seq(S)
    BY <1>3, <2>1, SeqDef
  <2> QED BY <1>3, <2>1, <2>2, LengthIs
<1>5. Holds(11, all, FlattenSeq(all))
  BY <1>3, <1>4, SeqIsListed, Flattening DEF Tidy
<1>6. Tidy(FlattenSeq(all))
  <2>1. \A i \in 1 .. 11 : \A x \in Range(all[i]) : Bare(x.op)
    BY <1>3 DEF Tidy, Range
  <2> QED BY <1>5, <2>1 DEF Holds, Tidy
<1>7. PICK h : h = Emit(g, FlattenSeq(all))
  OBVIOUS
<1>8. Goes(g, h, {})
  BY <1>6, <1>7, EmitGoes
<1>9. PICK m, w : m = h.mod \ dirty /\ w = [h EXCEPT !.mod = m]
  OBVIOUS
<1>10. /\ DOMAIN w = DOMAIN h /\ w.text = h.text /\ w.offset = h.offset /\ w.var = h.var
       /\ w.mod = m
  BY <1>8, <1>9 DEF Goes, Sound
<1>11. Sound(h, {}) /\ DOMAIN h.var = Gen /\ m \subseteq Gen
  BY <1>8, <1>9 DEF Goes, Sound
<1>12. \A q \in m : Homed(h.offset, h.var[q])
  BY <1>9, <1>11 DEF Sound
<1>13. Goes(h, w, {})
  BY <1>10, <1>11, <1>12, GoesQuiet
<1>14. WriteBackAll(g) = w
  BY <1>7, <1>9 DEF WriteBackAll, all, code
<1> QED BY <1>8, <1>13, <1>14, GoesOn

(* Writing all registers back and forgetting them. *)
LEMMA FlushGoes ==
  ASSUME NEW g, Sound(g, {})
  PROVE  Goes(g, ClearAllRegs(WriteBackAll(g)), {})
<1>1. PICK w : w = WriteBackAll(g)
  OBVIOUS
<1>2. Goes(g, w, {})
  BY <1>1, WriteBackAllGoes
<1>3. Goes(w, ClearAllRegs(w), {})
  BY <1>2, ForgetGoes DEF Goes
<1> QED BY <1>1, <1>2, <1>3, GoesOn

(* Loading what is ready. *)
LEMMA LoadGoes ==
  ASSUME NEW g, NEW X, Sound(g, X), NEW r, NEW s, Ready(g.offset, s)
  PROVE  Goes(g, Load(g, r, s), X)
<1>1. Bare("LOD_1") /\ Bare("LOD_0")
  BY DEF Bare, Unreadable
<1>2. Tidy(<<Line("LOD_1", r, First(Holding(g, s)), 0)>>)
  BY <1>1, LineBare, NamedBare, UnsignedBare, TidyOne
<1>3. IsConst(s) => Tidy(<<Unsigned("LOD_0", r, 0, Number(s))>>)
  BY <1>1, LineBare, NamedBare, UnsignedBare, TidyOne DEF Ready
<1>4. s.type = "VAR" => Tidy(Fetch(g, r, s))
  BY FetchTidy DEF Ready
<1>5. Tidy(<<Named("LOD_0", r, TextLabel(s))>>)
  BY <1>1, LineBare, NamedBare, UnsignedBare, TidyOne
<1> DEFINE lines ==
      IF Holding(g, s) # {} THEN <<Line("LOD_1", r, First(Holding(g, s)), 0)>>
      ELSE CASE IsConst(s) -> <<Unsigned("LOD_0", r, 0, Number(s))>>
             [] s.type = "VAR" -> Fetch(g, r, s)
             [] s.type = "TEXT" -> <<Named("LOD_0", r, TextLabel(s))>>
<1>6. Load(g, r, s) = Emit(g, lines)
  BY DEF Load
<1>7. Tidy(lines)
  BY <1>2, <1>3, <1>4, <1>5 DEF Ready, IsConst
<1> HIDE DEF lines
<1> QED BY <1>6, <1>7, EmitGoes

(* Allocating a register: it holds s then. *)
LEMMA AllocGoes ==
  ASSUME NEW g, NEW X, Sound(g, X), NEW s, NEW r \in Gen, r \notin X, Ready(g.offset, s)
  PROVE  Goes(g, Alloc(g, s, r), X) /\ Alloc(g, s, r).var[r] = s
<1>1. PICK w, l, f : w = WriteBack(g, r) /\ l = Load(w, r, s) /\ f = RdescFill(l, r, s)
  OBVIOUS
<1>2. Goes(g, w, X) /\ w.var = g.var
  BY <1>1, WriteBackGoes
<1>3. Sound(w, X) /\ w.offset = g.offset
  BY <1>2 DEF Goes
<1>4. Goes(w, l, X)
  BY <1>1, <1>3, LoadGoes
<1>5. Goes(l, f, X) /\ f.var[r] = s
  <2>1. X \ {r} = X
    OBVIOUS
  <2> QED BY <1>1, <1>4, <2>1, FillGoes DEF Goes
<1>6. Goes(g, f, X)
  BY <1>2, <1>4, <1>5, GoesOn
<1>7. Alloc(g, s, r) = IF g.var[r] = s THEN w ELSE f
  BY <1>1 DEF Alloc
<1> QED BY <1>2, <1>5, <1>6, <1>7

(* More code, then a. *)
LEMMA ComputeGoes ==
  ASSUME NEW g, NEW r \in Gen, NEW X, X \subseteq {r}, Sound(g, X), NEW lines, Tidy(lines),
         NEW a, Homed(g.offset, a)
  PROVE  Goes(g, Define(Emit(g, lines), r, a), {})
<1>1. PICK h : h = Emit(g, lines)
  OBVIOUS
<1>2. Goes(g, h, X)
  BY <1>1, EmitGoes
<1>3. Goes(h, Define(h, r, a), {})
  BY <1>2, DefineGoes DEF Goes
<1> QED BY <1>1, <1>2, <1>3, GoesOn

(* The forms of the operations are read. *)
LEMMA OperationsBare ==
  ASSUME NEW op \in Arithmetic
  PROVE  Bare(WithNumber[op]) /\ Bare(WithRegister[op])
  BY DEF Arithmetic, WithNumber, WithRegister, Bare, Unreadable

(* The operands of asm_bin come into one register. *)
Collides(g, b, c, rand) ==
  LET rb == AllocReg(g, b, rand)
  IN  /\ ~IsConst(c) /\ b # c
      /\ AllocReg(Modify(Alloc(g, b, rb), rb), c, rand) = rb

(* asm_bin: the register it pins is the only modified one without a home,  *)
(* and c does not come into it.                                            *)
LEMMA AsmBinGoes ==
  ASSUME NEW g, Sound(g, {}), NEW op \in Arithmetic, NEW a, NEW b, NEW c, NEW rand \in Gen,
         Homed(g.offset, a), Ready(g.offset, b), Ready(g.offset, c),
         b = c => b.type # "TEXT",
         ~Collides(g, b, c, rand)
  PROVE  Goes(g, AsmBin(g, op, a, b, c, rand).g, {}) /\ AsmBin(g, op, a, b, c, rand).r \in Gen
<1>1. PICK rb, placed, pinned, rc, loaded :
        /\ rb = AllocReg(g, b, rand) /\ placed = Alloc(g, b, rb)
        /\ pinned = Modify(placed, rb) /\ rc = AllocReg(pinned, c, rand)
        /\ loaded = Alloc(pinned, c, rc)
  OBVIOUS
<1>2. rb \in Gen /\ rc \in Gen
  BY <1>1, AllocRegIn
<1>3. Goes(g, placed, {}) /\ placed.var[rb] = b
  BY <1>1, <1>2, AllocGoes
<1>4. Sound(placed, {}) /\ placed.offset = g.offset
  BY <1>3 DEF Goes
<1>5. Goes(placed, pinned, {rb})
  BY <1>1, <1>2, <1>4, ModifyGoes
<1>6. Goes(g, pinned, {rb}) /\ Sound(pinned, {rb}) /\ pinned.offset = g.offset
  BY <1>3, <1>5, GoesOn DEF Goes
<1>7. PICK m, both : m = (loaded.mod \ {rb}) \cup (placed.mod \cap {rb}) /\ both = [loaded EXCEPT !.mod = m]
  OBVIOUS
<1>8. PICK constant, code :
        /\ constant = <<Unsigned(WithNumber[op], rb, 0, Number(c))>>
        /\ code = IF rb = rc
                  THEN <<Line("LOD_1", R_TP, rc, 0), Line(WithRegister[op], rb, R_TP, 0)>>
                  ELSE <<Line(WithRegister[op], rb, rc, 0)>>
  OBVIOUS
<1>9. /\ AsmBin(g, op, a, b, c, rand).g =
           IF IsConst(c) THEN Define(Emit(pinned, constant), rb, a) ELSE Define(Emit(both, code), rb, a)
      /\ AsmBin(g, op, a, b, c, rand).r = rb
  BY <1>1, <1>7, <1>8 DEF AsmBin
<1>10. CASE IsConst(c)
  <2>1. Tidy(constant)
    BY <1>8, <1>10, OperationsBare, LineBare, NamedBare, UnsignedBare, TidyOne DEF Ready
  <2>2. Goes(pinned, Define(Emit(pinned, constant), rb, a), {})
    BY <1>2, <1>6, <2>1, ComputeGoes
  <2> QED BY <1>2, <1>6, <1>9, <1>10, <2>2, GoesOn
<1>11. CASE ~IsConst(c)
  <2>1. Tidy(code)
    <3>1. Bare("LOD_1")
      BY DEF Bare, Unreadable
    <3> QED BY <1>8, <3>1, OperationsBare, LineBare, NamedBare, UnsignedBare, TidyOne, TidyTwo
  <2>2. Goes(pinned, loaded, {rb})
    <3>1. CASE rc # rb
      BY <1>1, <1>2, <1>6, <3>1, AllocGoes
    <3>2. CASE rc = rb
      <4>1. b = c
        BY <1>1, <1>11, <3>2 DEF Collides
      <4>2. Homed(g.offset, b)
        BY <1>11, <4>1 DEF Ready, IsConst
      <4>3. Goes(placed, pinned, {})
        BY <1>1, <1>2, <1>3, <1>4, <4>2, ModifyGoes
      <4>4. Goes(pinned, loaded, {})
        BY <1>1, <1>2, <1>4, <4>3, AllocGoes DEF Goes
      <4> QED BY <4>4 DEF Goes, Sound
    <3> QED BY <3>1, <3>2
  <2>3. Sound(loaded, {rb}) /\ loaded.offset = g.offset
    BY <1>6, <2>2 DEF Goes
  <2>4. /\ DOMAIN both = DOMAIN loaded /\ both.text = loaded.text /\ both.offset = loaded.offset
        /\ both.var = loaded.var /\ both.mod = m
    BY <1>7, <2>3 DEF Sound
  <2>5. DOMAIN loaded.var = Gen /\ m \subseteq Gen
    BY <1>2, <1>7, <2>3 DEF Sound
  <2>6. \A q \in m : q \notin {rb} => Homed(loaded.offset, loaded.var[q])
    BY <1>7, <2>3 DEF Sound
  <2>7. Goes(loaded, both, {rb})
    BY <2>3, <2>4, <2>5, <2>6, GoesQuiet
  <2>8. Goes(both, Define(Emit(both, code), rb, a), {})
    <3>1. Sound(both, {rb}) /\ both.offset = g.offset
      BY <2>3, <2>7 DEF Goes
    <3> QED BY <1>2, <2>1, <3>1, ComputeGoes
  <2> QED BY <1>2, <1>6, <1>9, <1>11, <2>2, <2>7, <2>8, GoesOn
<1> QED BY <1>10, <1>11

(* The lines a comparison ends with. *)
LEMMA AnswerTidy ==
  ASSUME NEW op \in Relations, NEW r, NEW taken
  PROVE  Tidy(Answer(Jump[op], r, taken))
<1>1. Bare(Jump[op])
  BY DEF Bare, Unreadable, Jump, Relations
<1>2. PICK l1, l2, l3, l4, l5, l6, l7 :
        /\ l1 = Line("TST_0", r, 0, 0) /\ l2 = Line("LOD_2", R_JP, R_IP, 40)
        /\ l3 = Line(Jump[op], R_JP, 0, 0) /\ l4 = Line("LOD_0", r, 0, 1 - taken)
        /\ l5 = Line("LOD_2", R_JP, R_IP, 24) /\ l6 = Line("JMP_1", R_JP, 0, 0)
        /\ l7 = Line("LOD_0", r, 0, taken)
  OBVIOUS
<1>3. \A x \in {l1, l2, l3, l4, l5, l6, l7} : Bare(x.op)
  <2>1. Bare("TST_0") /\ Bare("LOD_2") /\ Bare("LOD_0") /\ Bare("JMP_1")
    BY DEF Bare, Unreadable
  <2>2. Bare(l1.op) /\ Bare(l2.op) /\ Bare(l3.op) /\ Bare(l4.op)
    BY <1>1, <1>2, <2>1, LineBare, NamedBare, UnsignedBare
  <2>3. Bare(l5.op) /\ Bare(l6.op) /\ Bare(l7.op)
    BY <1>2, <2>1, LineBare, NamedBare, UnsignedBare
  <2> QED BY <2>2, <2>3
<1>4. <<l1, l2, l3, l4, l5, l6, l7>> \in Seq({l1, l2, l3, l4, l5, l6, l7})
  OBVIOUS
<1>5. Tidy(<<l1, l2, l3, l4, l5, l6, l7>>)
  BY <1>3, <1>4, TidyOf
<1> QED BY <1>2, <1>5 DEF Answer

(* asm_cmp. *)
LEMMA AsmCmpGoes ==
  ASSUME NEW g, Sound(g, {}), NEW op \in Relations, NEW a, NEW b, NEW c, NEW rand \in Gen,
         Homed(g.offset, a), Ready(g.offset, b), Ready(g.offset, c),
         b = c => b.type # "TEXT",
         ~Collides(g, b, c, rand)
  PROVE  Goes(g, AsmCmp(g, op, a, b, c, rand), {})
<1>1. PICK sub, r, code : sub = AsmBin(g, "SUB", a, b, c, rand) /\ r = sub.r
                          /\ code = Answer(Jump[op], r, WhenTaken[op])
  OBVIOUS
<1>2. Goes(g, sub.g, {}) /\ r \in Gen
  BY <1>1, AsmBinGoes DEF Arithmetic
<1>3. PICK h, k : h = Emit(sub.g, code) /\ k = RdescClear(h, r)
  OBVIOUS
<1>4. Goes(sub.g, h, {})
  BY <1>1, <1>2, <1>3, AnswerTidy, EmitGoes DEF Goes
<1>5. Goes(h, k, {})
  BY <1>3, <1>4, ClearGoes DEF Goes
<1>6. Sound(k, {}) /\ k.offset = g.offset
  BY <1>2, <1>4, <1>5 DEF Goes
<1>7. Goes(k, Define(k, r, a), {})
  BY <1>2, <1>6, DefineGoes
<1>8. Goes(g, Define(k, r, a), {})
  BY <1>2, <1>4, <1>5, <1>7, GoesOn
<1> QED BY <1>1, <1>3, <1>8 DEF AsmCmp

(* asm_cond. *)
LEMMA AsmCondGoes ==
  ASSUME NEW g, Sound(g, {}), NEW op, Bare(op), NEW s, NEW name, NEW rand \in Gen,
         s = Nil \/ Ready(g.offset, s)
  PROVE  Goes(g, AsmCond(g, op, s, name, rand), {})
<1>1. PICK w, r : w = WriteBackAll(g) /\ r = AllocReg(w, s, rand)
  OBVIOUS
<1>2. Goes(g, w, {})
  BY <1>1, WriteBackAllGoes
<1>3. Sound(w, {}) /\ w.offset = g.offset /\ r \in Gen
  BY <1>1, <1>2, AllocRegIn DEF Goes
<1>4. PICK placed : placed = IF Holding(w, s) # {} THEN w ELSE Alloc(w, s, r)
  OBVIOUS
<1>5. s # Nil => Goes(w, placed, {})
  BY <1>3, <1>4, AllocGoes, GoesSelf
<1>6. PICK tested : tested = IF s = Nil THEN w ELSE Emit(placed, <<Line("TST_0", r, 0, 0)>>)
  OBVIOUS
<1>7. Tidy(<<Line("TST_0", r, 0, 0)>>) /\ Tidy(<<Named(op, 0, name)>>)
  <2>1. Bare("TST_0")
    BY DEF Bare, Unreadable
  <2> QED BY <2>1, LineBare, NamedBare, UnsignedBare, TidyOne
<1>8. s # Nil => Goes(placed, tested, {})
  BY <1>5, <1>6, <1>7, EmitGoes DEF Goes
<1>9. Goes(g, tested, {})
  BY <1>2, <1>5, <1>6, <1>8, GoesOn
<1>10. Goes(tested, Emit(tested, <<Named(op, 0, name)>>), {})
  BY <1>7, <1>9, EmitGoes DEF Goes
<1>11. AsmCond(g, op, s, name, rand) = Emit(tested, <<Named(op, 0, name)>>)
  BY <1>1, <1>4, <1>6 DEF AsmCond
<1> QED BY <1>9, <1>10, <1>11, GoesOn

(* asm_call. *)
LEMMA AsmCallGoes ==
  ASSUME NEW g, Sound(g, {}), NEW ret, NEW func, NEW rand \in Gen,
         ret = Nil \/ (Ready(g.offset, ret) /\ Homed(g.offset, ret))
  PROVE  Goes(g, AsmCall(g, ret, func, rand), {})
<1>1. PICK w, top : w = ClearAllRegs(WriteBackAll(g)) /\ top = w.tof + w.oon
  OBVIOUS
<1>2. Goes(g, w, {})
  BY <1>1, FlushGoes
<1>4. PICK l1, l2, l3, l4, l5 :
        /\ l1 = Line("STO_3", R_BP, R_BP, top) /\ l2 = Line("LOD_2", R_TP, R_IP, 32)
        /\ l3 = Line("STO_3", R_BP, R_TP, top + 4) /\ l4 = Line("LOD_2", R_BP, R_BP, top)
        /\ l5 = Named("JMP_0", 0, func.name)
  OBVIOUS
<1>5. Tidy(<<l1, l2, l3, l4, l5>>)
  <2>1. Bare("STO_3") /\ Bare("LOD_2") /\ Bare("JMP_0")
    BY DEF Bare, Unreadable
  <2>2. Bare(l1.op) /\ Bare(l2.op) /\ Bare(l3.op) /\ Bare(l4.op) /\ Bare(l5.op)
    BY <1>4, <2>1, LineBare, NamedBare, UnsignedBare
  <2>3. \A x \in {l1, l2, l3, l4, l5} : Bare(x.op)
    BY <2>2
  <2>4. <<l1, l2, l3, l4, l5>> \in Seq({l1, l2, l3, l4, l5})
    OBVIOUS
  <2> QED BY <2>3, <2>4, TidyOf
<1>6. PICK e, called : e = Emit(w, <<l1, l2, l3, l4, l5>>) /\ called = [e EXCEPT !.oon = 0]
  OBVIOUS
<1>7. Goes(w, e, {})
  BY <1>2, <1>5, <1>6, EmitGoes DEF Goes
<1>8. Goes(e, called, {})
  <2>1. Sound(e, {})
    BY <1>7 DEF Goes
  <2>2. /\ DOMAIN called = DOMAIN e /\ called.text = e.text /\ called.offset = e.offset
        /\ called.var = e.var /\ called.mod = e.mod
    BY <1>6, <2>1 DEF Sound
  <2> QED BY <2>1, <2>2, GoesQuiet DEF Sound
<1>9. Goes(g, called, {}) /\ Sound(called, {}) /\ called.offset = g.offset
  BY <1>2, <1>7, <1>8, GoesOn DEF Goes
<1>10. PICK r, p, l, m : /\ r = AllocReg(called, ret, rand) /\ p = Alloc(called, ret, r)
                         /\ l = Emit(p, <<Line("LOD_1", r, R_TP, 0)>>) /\ m = Modify(l, r)
  OBVIOUS
<1>11. AsmCall(g, ret, func, rand) = IF ret = Nil THEN called ELSE m
  BY <1>1, <1>4, <1>6, <1>10 DEF AsmCall
<1>12. CASE ret = Nil
  BY <1>9, <1>11, <1>12
<1>13. CASE ret # Nil
  <2>0. r \in Gen
    BY <1>10, AllocRegIn
  <2>1. Goes(called, p, {}) /\ p.var[r] = ret
    BY <1>9, <1>10, <1>13, <2>0, AllocGoes
  <2>2. Goes(p, l, {}) /\ l.var = p.var
    <3>1. Bare("LOD_1")
      BY DEF Bare, Unreadable
    <3>2. Tidy(<<Line("LOD_1", r, R_TP, 0)>>)
      BY <3>1, LineBare, NamedBare, UnsignedBare, TidyOne
    <3>3. Sound(p, {})
      BY <2>1 DEF Goes
    <3> QED BY <1>10, <3>2, <3>3, EmitGoes DEF Emit, Sound
  <2>3. Sound(l, {}) /\ l.offset = g.offset /\ l.var[r] = ret
    BY <1>9, <2>1, <2>2 DEF Goes
  <2>4. Goes(l, m, {})
    BY <1>10, <1>13, <2>0, <2>3, ModifyGoes
  <2>5. Goes(g, m, {})
    BY <1>9, <2>1, <2>2, <2>4, GoesOn
  <2> QED BY <1>11, <1>13, <2>5
<1> QED BY <1>12, <1>13

(* asm_return. *)
LEMMA AsmReturnGoes ==
  ASSUME NEW g, Sound(g, {}), NEW value, value = Nil \/ Ready(g.offset, value)
  PROVE  Goes(g, AsmReturn(g, value), {})
<1>1. PICK w, l : /\ w = ClearAllRegs(WriteBackAll(g))
                  /\ l = IF value = Nil THEN w ELSE Load(w, R_TP, value)
  OBVIOUS
<1>2. Goes(g, w, {}) /\ Sound(w, {}) /\ w.offset = g.offset
  BY <1>1, FlushGoes DEF Goes
<1>3. Goes(w, l, {})
  BY <1>1, <1>2, LoadGoes, GoesSelf
<1>4. PICK lines : lines = <<Line("LOD_5", R_JP, R_BP, RET_OFF), Line("LOD_4", R_BP, R_BP, 0),
                             Line("JMP_1", R_JP, 0, 0)>>
  OBVIOUS
<1>5. Bare("LOD_5") /\ Bare("LOD_4") /\ Bare("JMP_1")
  BY DEF Bare, Unreadable
<1>6. Tidy(lines)
  BY <1>4, <1>5, LineBare, NamedBare, UnsignedBare, TidyThree
<1>7. Goes(l, Emit(l, lines), {})
  BY <1>3, <1>6, EmitGoes DEF Goes
<1>8. AsmReturn(g, value) = Emit(l, lines)
  BY <1>1, <1>4 DEF AsmReturn
<1> QED BY <1>2, <1>3, <1>7, <1>8, GoesOn

(* A copy. *)
LEMMA AsmCopyGoes ==
  ASSUME NEW g, Sound(g, {}), NEW a, NEW b, NEW rand \in Gen, Homed(g.offset, a), Ready(g.offset, b)
  PROVE  Goes(g, AsmCopy(g, a, b, rand), {})
<1>1. PICK r, p : r = AllocReg(g, b, rand) /\ p = Alloc(g, b, r)
  OBVIOUS
<1>2. r \in Gen
  BY <1>1, AllocRegIn
<1>3. Goes(g, p, {}) /\ Sound(p, {}) /\ p.offset = g.offset
  BY <1>1, <1>2, AllocGoes DEF Goes
<1>4. Goes(p, Define(p, r, a), {})
  BY <1>2, <1>3, DefineGoes
<1> QED BY <1>1, <1>3, <1>4, GoesOn DEF AsmCopy

(* An input. *)
LEMMA AsmInputGoes ==
  ASSUME NEW g, Sound(g, {}), NEW a, NEW rand \in Gen, Homed(g.offset, a), Ready(g.offset, a)
  PROVE  Goes(g, AsmInput(g, a, rand), {})
<1>1. PICK r, p, read, lines, e :
        /\ r = AllocReg(g, a, rand) /\ p = Alloc(g, a, r)
        /\ read = IF a.data = "CHAR" THEN "ITC" ELSE "ITI"
        /\ lines = <<Line(read, 0, 0, 0), Line("LOD_1", r, R_IO, 0)>>
        /\ e = Emit(p, lines)
  OBVIOUS
<1>2. r \in Gen
  BY <1>1, AllocRegIn
<1>3. Goes(g, p, {}) /\ p.var[r] = a
  BY <1>1, <1>2, AllocGoes
<1>4. Sound(p, {}) /\ p.offset = g.offset
  BY <1>3 DEF Goes
<1>5. Tidy(lines)
  <2>1. Bare(read) /\ Bare("LOD_1")
    BY <1>1 DEF Bare, Unreadable
  <2> QED BY <1>1, <2>1, LineBare, NamedBare, UnsignedBare, TidyTwo
<1>6. Goes(p, e, {}) /\ e.var = p.var
  BY <1>1, <1>4, <1>5, EmitGoes DEF Emit, Sound
<1>7. Sound(e, {}) /\ e.offset = g.offset /\ e.var[r] = a
  BY <1>3, <1>4, <1>6 DEF Goes
<1>8. Goes(e, Modify(e, r), {})
  BY <1>2, <1>7, ModifyGoes
<1>9. AsmInput(g, a, rand) = Modify(e, r)
  BY <1>1 DEF AsmInput
<1> QED BY <1>3, <1>6, <1>8, <1>9, GoesOn

(* An output. *)
LEMMA AsmOutputGoes ==
  ASSUME NEW g, Sound(g, {}), NEW a, NEW rand \in Gen, Ready(g.offset, a),
         a.type = "TEXT" \/ a.data \in {"INT", "CHAR"}
  PROVE  Goes(g, AsmOutput(g, a, rand), {})
<1>1. PICK r, p : r = AllocReg(g, a, rand) /\ p = Alloc(g, a, r)
  OBVIOUS
<1> DEFINE show == CASE a.type = "TEXT" -> "OTS"
                     [] a.data = "CHAR" -> "OTC"
                     [] a.data = "INT" -> "OTI"
           lines == <<Line("LOD_1", R_IO, r, 0), Line(show, 0, 0, 0)>>
<1>2. Bare(show) /\ Bare("LOD_1")
  BY DEF Bare, Unreadable
<1>3. AsmOutput(g, a, rand) = Emit(p, lines)
  BY <1>1 DEF AsmOutput
<1> HIDE DEF show
<1>4. Tidy(lines)
  BY <1>2, LineBare, NamedBare, UnsignedBare, TidyTwo
<1> HIDE DEF lines
<1>5. r \in Gen
  BY <1>1, AllocRegIn
<1>6. Goes(g, p, {})
  BY <1>1, <1>5, AllocGoes
<1>7. Goes(p, Emit(p, lines), {})
  BY <1>4, <1>6, EmitGoes DEF Goes
<1> QED BY <1>3, <1>6, <1>7, GoesOn

(* An argument. *)
LEMMA AsmActualGoes ==
  ASSUME NEW g, Sound(g, {}), NEW a, NEW rand \in Gen, Ready(g.offset, a)
  PROVE  Goes(g, AsmActual(g, a, rand), {})
<1>1. PICK r, p, lines, e, o, h :
        /\ r = AllocReg(g, a, rand) /\ p = Alloc(g, a, r)
        /\ lines = <<Line("STO_3", R_BP, r, g.tof + g.oon)>>
        /\ e = Emit(p, lines) /\ o = e.oon + 4 /\ h = [e EXCEPT !.oon = o]
  OBVIOUS
<1>2. r \in Gen
  BY <1>1, AllocRegIn
<1>3. Goes(g, p, {})
  BY <1>1, <1>2, AllocGoes
<1>4. Tidy(lines)
  <2>1. Bare("STO_3")
    BY DEF Bare, Unreadable
  <2> QED BY <1>1, <2>1, LineBare, NamedBare, UnsignedBare, TidyOne
<1>5. Goes(p, e, {}) /\ Sound(e, {})
  BY <1>1, <1>3, <1>4, EmitGoes DEF Goes
<1>6. /\ DOMAIN h = DOMAIN e /\ h.text = e.text /\ h.offset = e.offset
      /\ h.var = e.var /\ h.mod = e.mod
  BY <1>1, <1>5 DEF Sound
<1>7. Goes(e, h, {})
  BY <1>5, <1>6, GoesQuiet DEF Sound
<1>8. AsmActual(g, a, rand) = h
  BY <1>1 DEF AsmActual
<1> QED BY <1>3, <1>5, <1>7, <1>8, GoesOn

(* An address. *)
LEMMA AsmAddrGoes ==
  ASSUME NEW g, Sound(g, {}), NEW a, NEW b, Homed(g.offset, a), Homed(g.offset, b)
  PROVE  Goes(g, AsmAddr(g, a, b), {})
<1>1. PICK dirty, saved, r, off, w :
        /\ dirty = Holding(g, b) \cap g.mod
        /\ saved = IF dirty = {} THEN g ELSE WriteBack(g, First(dirty))
        /\ r = AddrReg(saved) /\ off = OffsetOf(g, b) /\ w = WriteBack(saved, r)
  OBVIOUS
<1>2. PICK code :
        code = IF b.scope = "LOCAL"
               THEN <<Line("LOD_1", r, R_BP, 0),
                      IF off >= 0 THEN Line("ADD_0", r, 0, off) ELSE Line("SUB_0", r, 0, -off)>>
               ELSE <<Named("LOD_0", r, "STATIC"), Unsigned("ADD_0", r, 0, off)>>
  OBVIOUS
<1>3. Tidy(code)
  <2>1. Bare("LOD_1") /\ Bare("ADD_0") /\ Bare("SUB_0") /\ Bare("LOD_0")
    BY DEF Bare, Unreadable
  <2>2. CASE b.scope = "LOCAL"
    <3>1. PICK l : l = IF off >= 0 THEN Line("ADD_0", r, 0, off) ELSE Line("SUB_0", r, 0, -off)
      OBVIOUS
    <3>2. Bare(l.op)
      BY <2>1, <3>1, LineBare, NamedBare, UnsignedBare
    <3> QED BY <1>2, <2>1, <2>2, <3>1, <3>2, LineBare, NamedBare, UnsignedBare, TidyTwo
  <2>3. CASE b.scope # "LOCAL"
    <3>1. ~(off < 0)
      BY <1>1, <2>3 DEF Homed, OffsetOf
    <3> QED BY <1>2, <2>1, <2>3, <3>1, LineBare, NamedBare, UnsignedBare, TidyTwo
  <2> QED BY <2>2, <2>3
<1>4. Goes(g, saved, {})
  <2>1. CASE dirty = {}
    BY <1>1, <2>1, GoesSelf
  <2>2. CASE dirty # {}
    <3>1. First(dirty) \in Gen
      BY <1>1, <2>2, FirstIn DEF Sound
    <3> QED BY <1>1, <2>2, <3>1, WriteBackGoes
  <2> QED BY <2>1, <2>2
<1>5. r \in Gen
  BY <1>1, AddrRegIn
<1>6. Goes(saved, w, {})
  BY <1>1, <1>4, <1>5, WriteBackGoes DEF Goes
<1>7. Sound(w, {}) /\ w.offset = g.offset
  BY <1>4, <1>6 DEF Goes
<1>8. Goes(w, Define(Emit(w, code), r, a), {})
  BY <1>3, <1>5, <1>7, ComputeGoes
<1>9. AsmAddr(g, a, b) = Define(Emit(w, code), r, a)
  BY <1>1, <1>2 DEF AsmAddr
<1> QED BY <1>4, <1>6, <1>8, <1>9, GoesOn

(* A load through a pointer. *)
LEMMA AsmLoadPtrGoes ==
  ASSUME NEW g, Sound(g, {}), NEW a, NEW b, NEW rand \in Gen, Homed(g.offset, a), Ready(g.offset, b)
  PROVE  Goes(g, AsmLoadPtr(g, a, b, rand), {})
<1>1. PICK rp, placed, rv, w, c, load :
        /\ rp = AllocReg(g, b, rand) /\ placed = Alloc(g, b, rp) /\ rv = ValueReg(placed, rp)
        /\ w = WriteBack(placed, rv) /\ c = RdescClear(w, rv)
        /\ load = IF a.data = "CHAR" THEN "LDC_4" ELSE "LOD_4"
  OBVIOUS
<1>2. rp \in Gen /\ rv \in Gen
  BY <1>1, AllocRegIn, ValueRegIn
<1>3. Goes(g, placed, {})
  BY <1>1, <1>2, AllocGoes
<1>4. Goes(placed, w, {})
  BY <1>1, <1>2, <1>3, WriteBackGoes DEF Goes
<1>5. Goes(w, c, {})
  BY <1>1, <1>4, ClearGoes DEF Goes
<1>6. Tidy(<<Line(load, rv, rp, 0)>>)
  <2>1. Bare(load)
    BY <1>1 DEF Bare, Unreadable
  <2> QED BY <2>1, LineBare, NamedBare, UnsignedBare, TidyOne
<1>7. Sound(c, {}) /\ c.offset = g.offset
  BY <1>3, <1>4, <1>5 DEF Goes
<1>8. Goes(c, Define(Emit(c, <<Line(load, rv, rp, 0)>>), rv, a), {})
  BY <1>2, <1>6, <1>7, ComputeGoes
<1>9. AsmLoadPtr(g, a, b, rand) = Define(Emit(c, <<Line(load, rv, rp, 0)>>), rv, a)
  BY <1>1 DEF AsmLoadPtr
<1> QED BY <1>3, <1>4, <1>5, <1>8, <1>9, GoesOn

(* A store through a pointer: a parameter is not reloaded. *)
LEMMA AsmStorePtrGoes ==
  ASSUME NEW g, Sound(g, {}), NEW a, NEW b, NEW rand \in Gen, Homed(g.offset, a),
         Ready(g.offset, a), Ready(g.offset, b),
         \/ AllocReg(Alloc(g, a, AllocReg(g, a, rand)), b, rand) # AllocReg(g, a, rand)
         \/ a.scope # "LOCAL" \/ ~(OffsetOf(g, a) < 0)
  PROVE  Goes(g, AsmStorePtr(g, a, b, rand), {})
<1>1. PICK ra, p, rb, placed, off :
        /\ ra = AllocReg(g, a, rand) /\ p = Alloc(g, a, ra) /\ rb = AllocReg(p, b, rand)
        /\ placed = Alloc(p, b, rb) /\ off = OffsetOf(g, a)
  OBVIOUS
<1>2. PICK reload : reload = IF a.scope = "LOCAL" THEN <<Unsigned("LOD_5", R_TP, R_BP, off)>>
                    ELSE <<Named("LOD_0", R_TP, "STATIC"), Unsigned("LOD_5", R_TP, R_TP, off)>>
  OBVIOUS
<1>3. PICK store : store = Line(IF b.data = "CHAR" THEN "STC_1" ELSE "STO_1",
                                IF ra = rb THEN R_TP ELSE ra, rb, 0)
  OBVIOUS
<1>4. PICK code : code = IF ra = rb THEN Append(reload, store) ELSE <<store>>
  OBVIOUS
<1>5. PICK stored : stored = Emit(placed, code)
  OBVIOUS
<1>6. AsmStorePtr(g, a, b, rand) = ClearAllRegs(WriteBackAll(stored))
  BY <1>1, <1>2, <1>3, <1>4, <1>5 DEF AsmStorePtr
<1>7. Bare("LOD_0") /\ Bare("LOD_5") /\ Bare("STC_1") /\ Bare("STO_1")
  BY DEF Bare, Unreadable
<1>8. Tidy(<<store>>)
  BY <1>3, <1>7, LineBare, NamedBare, UnsignedBare, TidyOne
<1>9. ra = rb => Tidy(code)
  <2>1. SUFFICES ASSUME ra = rb
                 PROVE  Tidy(code)
    OBVIOUS
  <2>2. ~(off < 0)
    <3>1. CASE a.scope = "LOCAL"
      BY <1>1, <2>1, <3>1
    <3>2. CASE a.scope # "LOCAL"
      BY <1>1, <3>2 DEF Homed, OffsetOf
    <3> QED BY <3>1, <3>2
  <2>3. Tidy(reload)
    BY <1>2, <1>7, <2>2, LineBare, NamedBare, UnsignedBare, TidyOne, TidyTwo
  <2>4. Append(reload, store) = reload \o <<store>>
    BY <2>3, AppendIsConcat DEF Tidy, Listed
  <2> QED BY <1>4, <1>8, <2>1, <2>3, <2>4, TidyJoined
<1>10. Tidy(code)
  BY <1>4, <1>8, <1>9
<1>11. ra \in Gen /\ rb \in Gen
  BY <1>1, AllocRegIn
<1>12. Goes(g, p, {}) /\ Sound(p, {}) /\ p.offset = g.offset
  BY <1>1, <1>11, AllocGoes DEF Goes
<1>13. Goes(p, placed, {})
  BY <1>1, <1>11, <1>12, AllocGoes
<1>14. Goes(placed, stored, {})
  BY <1>5, <1>10, <1>13, EmitGoes DEF Goes
<1>15. Goes(stored, ClearAllRegs(WriteBackAll(stored)), {})
  BY <1>14, FlushGoes DEF Goes
<1> QED BY <1>6, <1>12, <1>13, <1>14, <1>15, GoesOn

-----------------------------------------------------------------------------
(* TAC by TAC. *)

(* What a TAC loads is ready, what it writes or takes the address of has a *)
(* home.                                                                   *)
TacReady(t, offset) ==
  /\ \A s \in Loaded(t) : Ready(offset, s)
  /\ \A s \in Written(t) \cup Addressed(t) : Homed(offset, s)
  /\ t.op \in Arithmetic \cup Relations /\ t.b = t.c => t.b.type # "TEXT"
  /\ t.op = "FORMAL" => t.a.scope = "LOCAL"
  /\ t.op = "STORE_PTR" => t.a.type = "VAR"

(* What an operation with two operands has. *)
LEMMA OperandsReady ==
  ASSUME NEW t, NEW offset, TacReady(t, offset), t.op \in Arithmetic \cup Relations
  PROVE  /\ Ready(offset, t.b) /\ Ready(offset, t.c) /\ Homed(offset, t.a)
         /\ t.b = t.c => t.b.type # "TEXT"
<1>1. t.op \notin {"NEG", "COPY", "LOAD_PTR", "INPUT", "OUTPUT", "ACTUAL", "IFZ", "CALL", "RETURN",
                   "STORE_PTR"}
  BY DEF Arithmetic, Relations
<1>2. Loaded(t) = {t.b, t.c}
  BY <1>1 DEF Loaded
<1>3. Written(t) = {t.a}
  BY <1>1 DEF Written
<1>4. t.b \in Loaded(t) /\ t.c \in Loaded(t) /\ t.a \in Written(t)
  BY <1>2, <1>3
<1> QED BY <1>4 DEF TacReady

(* What the operations with one result have. *)
LEMMA ResultHomed ==
  ASSUME NEW t, NEW offset, TacReady(t, offset),
         t.op \in {"NEG", "COPY", "INPUT", "ADDR", "LOAD_PTR"}
  PROVE  Homed(offset, t.a)
<1>1. t.a \in Written(t)
  BY DEF Written
<1> QED BY <1>1 DEF TacReady

(* asm_code: a TAC that neither declares nor labels prints tidy lines.     *)
LEMMA AsmCodeGoes ==
  ASSUME NEW g, Sound(g, {}), NEW names, NEW t, TacGood(t, names), TacReady(t, g.offset),
         NEW rand \in Gen, ~Spilled(g, t, rand), ~Reloaded(g, t, rand),
         t.op \notin {"LABEL", "BEGINFUNC", "FORMAL", "VAR"}
  PROVE  Goes(g, AsmCode(g, t, rand), {})
<1>1. PICK h : h = AsmCode(g, t, rand)
  OBVIOUS
<1>2. CASE t.op \in Arithmetic
  <2>0. t.op \in {"ADD", "SUB", "MUL", "DIV"} /\ t.op # "NEG"
    BY <1>2 DEF Arithmetic
  <2>1. h = AsmBin(g, t.op, t.a, t.b, t.c, rand).g
    BY <1>1, <2>0 DEF AsmCode, Jump
  <2>2. /\ Ready(g.offset, t.b) /\ Ready(g.offset, t.c) /\ Homed(g.offset, t.a)
        /\ t.b = t.c => t.b.type # "TEXT"
    BY <1>2, OperandsReady
  <2>3. ~Collides(g, t.b, t.c, rand)
    BY <1>2, <2>0 DEF Spilled, Collides
  <2>4. Goes(g, h, {})
    BY <1>2, <2>1, <2>2, <2>3, AsmBinGoes
  <2> QED BY <1>1, <2>4
<1>3. CASE t.op \in Relations
  <2>0. t.op # "NEG"
    BY <1>3 DEF Relations
  <2>1. h = AsmCmp(g, t.op, t.a, t.b, t.c, rand)
    BY <1>1, <1>3 DEF AsmCode, Relations, Jump
  <2>2. /\ Ready(g.offset, t.b) /\ Ready(g.offset, t.c) /\ Homed(g.offset, t.a)
        /\ t.b = t.c => t.b.type # "TEXT"
    BY <1>3, OperandsReady
  <2>3. ~Collides(g, t.b, t.c, rand)
    BY <1>3, <2>0 DEF Spilled, Collides
  <2>4. Goes(g, h, {})
    BY <1>3, <2>1, <2>2, <2>3, AsmCmpGoes
  <2> QED BY <1>1, <2>4
<1>4. CASE t.op = "NEG"
  <2>1. h = AsmBin(g, "SUB", t.a, Zero, t.b, rand).g
    BY <1>1, <1>4 DEF AsmCode, Jump
  <2>2. Ready(g.offset, t.b)
    BY <1>4 DEF TacReady, Loaded, Arithmetic, Relations
  <2>3. Ready(g.offset, Zero) /\ Zero.type # "TEXT"
    <3>1. Zero.type = "CONST_INT" /\ Zero.value = <<0>>
      BY DEF Zero, Symbol
    <3>2. Number(Zero) = 0
      BY <3>1 DEF Number
    <3> QED BY <3>1, <3>2 DEF Ready, IsConst
  <2>4. ~Collides(g, Zero, t.b, rand)
    BY <1>4 DEF Spilled, Collides
  <2>5. Homed(g.offset, t.a)
    BY <1>4, ResultHomed
  <2>6. Goes(g, h, {})
    BY <2>1, <2>2, <2>3, <2>4, <2>5, AsmBinGoes DEF Arithmetic
  <2> QED BY <1>1, <2>6
<1>5. CASE t.op = "COPY"
  <2>1. h = AsmCopy(g, t.a, t.b, rand)
    BY <1>1, <1>5 DEF AsmCode, Jump
  <2>2. Ready(g.offset, t.b)
    BY <1>5 DEF TacReady, Loaded, Arithmetic, Relations
  <2>3. Homed(g.offset, t.a)
    BY <1>5, ResultHomed
  <2> QED BY <1>1, <2>1, <2>2, <2>3, AsmCopyGoes
<1>6. CASE t.op = "INPUT"
  <2>1. h = AsmInput(g, t.a, rand)
    BY <1>1, <1>6 DEF AsmCode, Jump
  <2>2. Ready(g.offset, t.a)
    BY <1>6 DEF TacReady, Loaded, Arithmetic, Relations
  <2>3. Homed(g.offset, t.a)
    BY <1>6, ResultHomed
  <2> QED BY <1>1, <2>1, <2>2, <2>3, AsmInputGoes
<1>7. CASE t.op = "OUTPUT"
  <2>1. h = AsmOutput(g, t.a, rand)
    BY <1>1, <1>7 DEF AsmCode, Jump
  <2>2. Ready(g.offset, t.a)
    BY <1>7 DEF TacReady, Loaded, Arithmetic, Relations
  <2>3. t.a.type = "TEXT" \/ t.a.data \in {"INT", "CHAR"}
    BY <1>7 DEF TacGood
  <2> QED BY <1>1, <2>1, <2>2, <2>3, AsmOutputGoes
<1>8. CASE t.op = "GOTO"
  <2>1. h = AsmCond(g, "JMP_0", Nil, t.a.name, rand)
    BY <1>1, <1>8 DEF AsmCode, Jump
  <2>2. Bare("JMP_0")
    BY DEF Bare, Unreadable
  <2> QED BY <1>1, <2>1, <2>2, AsmCondGoes
<1>9. CASE t.op = "IFZ"
  <2>1. h = AsmCond(g, "JEZ_0", t.b, t.a.name, rand)
    BY <1>1, <1>9 DEF AsmCode, Jump
  <2>2. Bare("JEZ_0")
    BY DEF Bare, Unreadable
  <2>3. t.b = Nil \/ Ready(g.offset, t.b)
    BY <1>9 DEF TacReady, Loaded, Arithmetic, Relations
  <2> QED BY <1>1, <2>1, <2>2, <2>3, AsmCondGoes
<1>10. CASE t.op = "ACTUAL"
  <2>1. h = AsmActual(g, t.a, rand)
    BY <1>1, <1>10 DEF AsmCode, Jump
  <2>2. Ready(g.offset, t.a)
    BY <1>10 DEF TacReady, Loaded, Arithmetic, Relations
  <2> QED BY <1>1, <2>1, <2>2, AsmActualGoes
<1>11. CASE t.op = "CALL"
  <2>1. h = AsmCall(g, t.a, t.b, rand)
    BY <1>1, <1>11 DEF AsmCode, Jump
  <2>2. t.a = Nil \/ Ready(g.offset, t.a)
    BY <1>11 DEF TacReady, Loaded, Arithmetic, Relations
  <2>3. t.a = Nil \/ Homed(g.offset, t.a)
    BY <1>11 DEF TacReady, Written, Arithmetic, Relations
  <2> QED BY <1>1, <2>1, <2>2, <2>3, AsmCallGoes
<1>12. CASE t.op = "RETURN"
  <2>1. h = AsmReturn(g, t.a)
    BY <1>1, <1>12 DEF AsmCode, Jump
  <2>2. t.a = Nil \/ Ready(g.offset, t.a)
    BY <1>12 DEF TacReady, Loaded, Arithmetic, Relations
  <2> QED BY <1>1, <2>1, <2>2, AsmReturnGoes
<1>13. CASE t.op = "ENDFUNC"
  <2>1. h = AsmReturn(g, Nil)
    BY <1>1, <1>13 DEF AsmCode, Jump
  <2> QED BY <1>1, <2>1, AsmReturnGoes
<1>14. CASE t.op = "ADDR"
  <2>1. h = AsmAddr(g, t.a, t.b)
    BY <1>1, <1>14 DEF AsmCode, Jump
  <2>2. Homed(g.offset, t.b)
    BY <1>14 DEF TacReady, Addressed
  <2>3. Homed(g.offset, t.a)
    BY <1>14, ResultHomed
  <2> QED BY <1>1, <2>1, <2>2, <2>3, AsmAddrGoes
<1>15. CASE t.op = "LOAD_PTR"
  <2>1. h = AsmLoadPtr(g, t.a, t.b, rand)
    BY <1>1, <1>15 DEF AsmCode, Jump
  <2>2. Ready(g.offset, t.b)
    BY <1>15 DEF TacReady, Loaded, Arithmetic, Relations
  <2>3. Homed(g.offset, t.a)
    BY <1>15, ResultHomed
  <2> QED BY <1>1, <2>1, <2>2, <2>3, AsmLoadPtrGoes
<1>16. CASE t.op = "STORE_PTR"
  <2>1. h = AsmStorePtr(g, t.a, t.b, rand)
    BY <1>1, <1>16 DEF AsmCode, Jump
  <2>2. Ready(g.offset, t.a) /\ Ready(g.offset, t.b)
    BY <1>16 DEF TacReady, Loaded, Arithmetic, Relations
  <2>3. Homed(g.offset, t.a)
    BY <1>16, <2>2 DEF TacReady, Ready
  <2>4. \/ AllocReg(Alloc(g, t.a, AllocReg(g, t.a, rand)), t.b, rand) # AllocReg(g, t.a, rand)
        \/ t.a.scope # "LOCAL" \/ ~(OffsetOf(g, t.a) < 0)
    BY <1>16 DEF Reloaded
  <2> QED BY <1>1, <2>1, <2>2, <2>3, <2>4, AsmStorePtrGoes
<1> QED BY <1>2, <1>3, <1>4, <1>5, <1>6, <1>7, <1>8, <1>9, <1>10, <1>11, <1>12, <1>13, <1>14, <1>15,
           <1>16 DEF TacGood, Opcodes

-----------------------------------------------------------------------------
(* Declarations. *)

(* h is g with more declared, and no text but tidy lines.                  *)
Keeps(g, h) ==
  /\ Sound(h, {}) /\ Clean(g.text, h.text)
  /\ \A s : Homed(g.offset, s) => Homed(h.offset, s)

(* What is clean keeps the homes, all being where they were. *)
LEMMA GoesKeeps ==
  ASSUME NEW g, NEW h, Goes(g, h, {})
  PROVE  Keeps(g, h)
  BY DEF Goes, Keeps

(* A local variable and a global one with an offset take no home away. *)
LEMMA PlaceKeeps ==
  ASSUME NEW g, Sound(g, {}), NEW a, NEW off, a.scope = "LOCAL" \/ off \in Nat, NEW h,
         DOMAIN h = DOMAIN g, h.text = g.text, h.var = g.var, h.mod = g.mod,
         h.offset = Place(g, a, off).offset
  PROVE  Keeps(g, h)
<1>1. h.offset = [x \in DOMAIN g.offset \cup {a} |-> IF x = a THEN off ELSE g.offset[x]]
  BY DEF Place, Sound
<1>2. ASSUME NEW s, Homed(g.offset, s)
      PROVE  Homed(h.offset, s)
  BY <1>1, <1>2 DEF Homed
<1>3. Sound(h, {})
  BY <1>2 DEF Sound
<1>4. Clean(g.text, h.text)
  BY DEF Clean, Sound
<1> QED BY <1>2, <1>3, <1>4 DEF Keeps

(* The beginning of a function, *)
LEMMA BeginKeeps ==
  ASSUME NEW g, Sound(g, {})
  PROVE  Keeps(g, BeginFunc(g))
<1>1. PICK h : h = BeginFunc(g)
  OBVIOUS
<1>2. /\ DOMAIN h = DOMAIN g /\ h.text = g.text /\ h.var = g.var /\ h.mod = g.mod
      /\ h.offset = g.offset
  BY <1>1 DEF BeginFunc, Sound
<1>3. Goes(g, h, {})
  BY <1>2, GoesQuiet DEF Sound
<1> QED BY <1>1, <1>3, GoesKeeps

(* a parameter *)
LEMMA FormalKeeps ==
  ASSUME NEW g, Sound(g, {}), NEW a, a.scope = "LOCAL"
  PROVE  Keeps(g, Formal(g, a))
<1>1. PICK p, n, h : p = Place(g, a, g.oof) /\ n = p.oof - 4 /\ h = [p EXCEPT !.oof = n]
  OBVIOUS
<1>2. DOMAIN p = DOMAIN g /\ p.text = g.text /\ p.var = g.var /\ p.mod = g.mod
  BY <1>1 DEF Place, Sound
<1>3. /\ DOMAIN h = DOMAIN g /\ h.text = g.text /\ h.var = g.var /\ h.mod = g.mod
      /\ h.offset = p.offset
  BY <1>1, <1>2 DEF Sound
<1>4. Keeps(g, h)
  BY <1>1, <1>3, PlaceKeeps
<1> QED BY <1>1, <1>4 DEF Formal

(* and a variable, which has a home then. *)
LEMMA VarKeeps ==
  ASSUME NEW g, Sound(g, {}), g.tos \in Nat, NEW a, NEW size
  PROVE  /\ Keeps(g, VarCode(g, a, size))
         /\ a.scope # "LOCAL" => /\ a \in DOMAIN VarCode(g, a, size).offset
                                 /\ VarCode(g, a, size).offset[a] \in Nat
<1>1. PICK v : v = VarCode(g, a, size)
  OBVIOUS
<1>2. CASE a.scope = "LOCAL"
  <2>1. PICK p, n, h : p = Place(g, a, g.tof) /\ n = p.tof + size /\ h = [p EXCEPT !.tof = n]
    OBVIOUS
  <2>2. DOMAIN p = DOMAIN g /\ p.text = g.text /\ p.var = g.var /\ p.mod = g.mod
    BY <2>1 DEF Place, Sound
  <2>3. /\ DOMAIN h = DOMAIN g /\ h.text = g.text /\ h.var = g.var /\ h.mod = g.mod
        /\ h.offset = p.offset
    BY <2>1, <2>2 DEF Sound
  <2>4. Keeps(g, h)
    BY <1>2, <2>1, <2>3, PlaceKeeps
  <2>5. v = h
    BY <1>1, <1>2, <2>1 DEF VarCode
  <2> QED BY <1>1, <1>2, <2>4, <2>5
<1>3. CASE a.scope # "LOCAL"
  <2>1. PICK p, n, h : p = Place(g, a, g.tos) /\ n = p.tos + size /\ h = [p EXCEPT !.tos = n]
    OBVIOUS
  <2>2. /\ DOMAIN p = DOMAIN g /\ p.text = g.text /\ p.var = g.var /\ p.mod = g.mod
        /\ p.offset = [x \in DOMAIN g.offset \cup {a} |-> IF x = a THEN g.tos ELSE g.offset[x]]
    BY <2>1 DEF Place, Sound
  <2>3. /\ DOMAIN h = DOMAIN g /\ h.text = g.text /\ h.var = g.var /\ h.mod = g.mod
        /\ h.offset = p.offset
    BY <2>1, <2>2 DEF Sound
  <2>4. Keeps(g, h)
    BY <2>1, <2>3, PlaceKeeps
  <2>5. v = h
    BY <1>1, <1>3, <2>1 DEF VarCode
  <2>6. a \in DOMAIN h.offset /\ h.offset[a] \in Nat
    BY <2>2, <2>3
  <2> QED BY <1>1, <2>4, <2>5, <2>6
<1> QED BY <1>2, <1>3

(* The variables declared by the first TACs have a home.                   *)
Declared(p, offset, k) ==
  \A j \in 1..(k - 1) :
    j \in DOMAIN p.tacs /\ p.tacs[j].op = "VAR" /\ p.tacs[j].a.type = "VAR" =>
      Homed(offset, p.tacs[j].a)

(* Nothing but operands is loaded. *)
LEMMA LoadedOperands ==
  ASSUME NEW t
  PROVE  Loaded(t) \subseteq {t.a, t.b, t.c}
  BY DEF Loaded

(* In a complete program without negative numbers every TAC is ready when  *)
(* its turn comes.                                                         *)
LEMMA CompleteReady ==
  ASSUME NEW p, Complete(p), Static(p) = {}, NEW k \in DOMAIN p.tacs, NEW offset,
         Declared(p, offset, k)
  PROVE  TacReady(p.tacs[k], offset)
<1>1. PICK t, n : t = p.tacs[k] /\ n = Len(p.tacs)
  OBVIOUS
<1>2. n \in Nat /\ DOMAIN p.tacs = 1..n
  BY <1>1, CompleteMeans, ListedMeans
<1>3. /\ t.op \in Arithmetic \cup Relations /\ t.b = t.c => t.b.type # "TEXT"
      /\ t.op = "FORMAL" => t.a.scope = "LOCAL"
      /\ t.op = "STORE_PTR" => t.a.type = "VAR"
      /\ \A s \in Loaded(t) : s.type \in {"CONST_INT", "CONST_CHAR", "VAR", "TEXT"}
  BY <1>1 DEF Complete
<1>4. \A s \in Written(t) \cup Addressed(t) : s.type = "VAR"
  BY <1>1 DEF Complete
<1>5. ASSUME NEW s \in Loaded(t) \cup Written(t) \cup Addressed(t), s.type = "VAR"
      PROVE  s.scope = "LOCAL" \/ \E j \in 1 .. k - 1 : p.tacs[j].op = "VAR" /\ p.tacs[j].a = s
  BY <1>1, <1>5 DEF Complete
<1>6. ASSUME NEW s \in Loaded(t) \cup Written(t) \cup Addressed(t), s.type = "VAR"
      PROVE  Homed(offset, s)
  <2>1. CASE s.scope = "LOCAL"
    BY <1>6, <2>1 DEF Homed
  <2>2. CASE s.scope # "LOCAL"
    <3>1. PICK j \in 1..(k - 1) : p.tacs[j].op = "VAR" /\ p.tacs[j].a = s
      BY <1>5, <1>6, <2>2
    <3>2. j \in DOMAIN p.tacs
      BY <1>2, <3>1
    <3> QED BY <1>6, <3>1, <3>2 DEF Declared
  <2> QED BY <2>1, <2>2
<1>7. ASSUME NEW s \in Loaded(t), IsConst(s)
      PROVE  ~(Number(s) < 0)
  <2>1. s \in {t.a, t.b, t.c}
    BY LoadedOperands
  <2>2. ~\E i \in DOMAIN p.tacs : \E x \in {p.tacs[i].a, p.tacs[i].b, p.tacs[i].c} :
           IsConst(x) /\ Number(x) < 0
    BY DEF Static
  <2> QED BY <1>1, <1>7, <2>1, <2>2
<1>8. \A s \in Loaded(t) : Ready(offset, s)
  BY <1>3, <1>6, <1>7 DEF Ready
<1>9. \A s \in Written(t) \cup Addressed(t) : Homed(offset, s)
  BY <1>4, <1>6
<1> QED BY <1>1, <1>3, <1>8, <1>9 DEF TacReady

-----------------------------------------------------------------------------
(* Lines that are read, with definitions of the names in D, one of each at *)
(* most.                                                                   *)
Neat(s, D) ==
  /\ Listed(s)
  /\ \A k \in DOMAIN s : s[k].op # Unreadable /\ (s[k].op = "LABEL" => s[k].name \in D)
  /\ \A i, j \in DOMAIN s :
       s[i].op = "LABEL" /\ s[j].op = "LABEL" /\ s[i].name = s[j].name => i = j

(* Tidy lines define nothing. *)
LEMMA TidyNeat ==
  ASSUME NEW s, Tidy(s)
  PROVE  Neat(s, {})
  BY DEF Tidy, Neat, Bare

(* More names may be defined. *)
LEMMA NeatMore ==
  ASSUME NEW s, NEW D, NEW E, D \subseteq E, Neat(s, D)
  PROVE  Neat(s, E)
  BY DEF Neat

(* Tidy lines behind neat ones. *)
LEMMA NeatClean ==
  ASSUME NEW s, NEW u, NEW D, Neat(s, D), Clean(s, u)
  PROVE  Neat(u, D)
<1>1. ASSUME NEW k \in DOMAIN u, u[k].op = "LABEL"
      PROVE  k \in DOMAIN s /\ u[k] = s[k]
  BY <1>1 DEF Clean, Bare
<1>2. \A k \in DOMAIN u : u[k].op # Unreadable /\ (u[k].op = "LABEL" => u[k].name \in D)
  BY <1>1 DEF Clean, Bare, Neat
<1>3. ASSUME NEW i \in DOMAIN u, NEW j \in DOMAIN u, u[i].op = "LABEL", u[j].op = "LABEL",
             u[i].name = u[j].name
      PROVE  i = j
  <2>1. i \in DOMAIN s /\ u[i] = s[i] /\ j \in DOMAIN s /\ u[j] = s[j]
    BY <1>1, <1>3
  <2> QED BY <1>3, <2>1 DEF Neat
<1> QED BY <1>2, <1>3 DEF Neat, Clean

(* Neat lines behind neat ones, if they define other names. *)
LEMMA NeatJoined ==
  ASSUME NEW s, NEW t, NEW D, NEW E, Neat(s, D), Neat(t, E), D \cap E = {}
  PROVE  Neat(s \o t, D \cup E)
<1>1. PICK u, m, n : u = s \o t /\ m = Len(s) /\ n = Len(t)
  OBVIOUS
<1>2. Joined(s, t, u)
  BY <1>1, Concatenation DEF Neat
<1>3. m \in Nat /\ n \in Nat /\ DOMAIN s = 1..m /\ DOMAIN t = 1..n
  BY <1>1, ListedMeans DEF Neat
<1>4. DOMAIN u = 1..(m + n) /\ Listed(u)
  BY <1>1, <1>2, ListedMeans DEF Joined
<1>5. ASSUME NEW k \in DOMAIN u
      PROVE  \/ k \in DOMAIN s /\ u[k] = s[k]
             \/ k \notin DOMAIN s /\ k - m \in DOMAIN t /\ u[k] = t[k - m]
  <2>1. CASE k \in DOMAIN s
    BY <1>2, <2>1 DEF Joined
  <2>2. CASE k \notin DOMAIN s
    <3>1. k - m \in DOMAIN t /\ m + (k - m) = k
      BY <1>3, <1>4, <2>2
    <3>2. u[k] = t[k - m]
      BY <1>1, <1>2, <3>1 DEF Joined
    <3> QED BY <2>2, <3>1, <3>2
  <2> QED BY <2>1, <2>2
<1>6. \A k \in DOMAIN u : u[k].op # Unreadable /\ (u[k].op = "LABEL" => u[k].name \in D \cup E)
  BY <1>5 DEF Neat
<1>7. ASSUME NEW i \in DOMAIN u, NEW j \in DOMAIN u, u[i].op = "LABEL", u[j].op = "LABEL",
             u[i].name = u[j].name
      PROVE  i = j
  <2>1. CASE i \in DOMAIN s /\ j \in DOMAIN s
    <3>1. u[i] = s[i] /\ u[j] = s[j]
      BY <1>5, <2>1
    <3> QED BY <1>7, <2>1, <3>1 DEF Neat
  <2>2. CASE i \notin DOMAIN s /\ j \notin DOMAIN s
    <3>1. i - m \in DOMAIN t /\ u[i] = t[i - m] /\ j - m \in DOMAIN t /\ u[j] = t[j - m]
      BY <1>5, <2>2
    <3>2. i - m = j - m
      BY <1>7, <3>1 DEF Neat
    <3> QED BY <1>3, <1>4, <3>2
  <2>3. CASE i \in DOMAIN s /\ j \notin DOMAIN s
    <3>1. u[i] = s[i] /\ j - m \in DOMAIN t /\ u[j] = t[j - m]
      BY <1>5, <2>3
    <3>2. u[i].name \in D /\ u[j].name \in E
      BY <1>7, <2>3, <3>1 DEF Neat
    <3> QED BY <1>7, <3>2
  <2>4. CASE i \notin DOMAIN s /\ j \in DOMAIN s
    <3>1. u[j] = s[j] /\ i - m \in DOMAIN t /\ u[i] = t[i - m]
      BY <1>5, <2>4
    <3>2. u[j].name \in D /\ u[i].name \in E
      BY <1>7, <2>4, <3>1 DEF Neat
    <3> QED BY <1>7, <3>2
  <2> QED BY <2>1, <2>2, <2>3, <2>4
<1> QED BY <1>1, <1>4, <1>6, <1>7 DEF Neat

(* A definition. *)
LEMMA NeatLabel ==
  ASSUME NEW name
  PROVE  Neat(<<LabelLine(name)>>, {name})
<1>1. LabelLine(name).op = "LABEL" /\ LabelLine(name).name = name
  BY DEF LabelLine, Named, Line
<1>2. PICK l : l = LabelLine(name)
  OBVIOUS
<1>3. <<l>> \in Seq({l}) /\ DOMAIN <<l>> = {1} /\ <<l>>[1] = l
  OBVIOUS
<1>4. Listed(<<l>>)
  BY <1>3, SeqIsListed
<1>5. l.op = "LABEL" /\ l.name = name /\ l.op # Unreadable
  BY <1>1, <1>2 DEF Unreadable
<1>6. Neat(<<l>>, {name})
  BY <1>3, <1>4, <1>5 DEF Neat
<1> QED BY <1>2, <1>6

(* A definition and a line behind it. *)
LEMMA NeatPair ==
  ASSUME NEW name, NEW l, Bare(l.op)
  PROVE  Neat(<<LabelLine(name), l>>, {name})
<1>1. PICK x, s, u : x = LabelLine(name) /\ s = <<x>> /\ u = <<x, l>>
  OBVIOUS
<1>2. Neat(s, {name})
  BY <1>1, NeatLabel
<1>3. u \in Seq({x, l}) /\ DOMAIN u = {1, 2} /\ u[1] = x /\ u[2] = l /\ DOMAIN s = {1} /\ s[1] = x
  BY <1>1
<1>4. Clean(s, u)
  BY <1>3, SeqIsListed DEF Clean
<1> QED BY <1>1, <1>2, <1>4, NeatClean

(* The sequence f of the first m parts defines what they do. *)
NeatParts(m, d, f) == Neat(f, {d[i] : i \in 1..m})

(* Neat parts, each with a name of its own. *)
LEMMA NeatFlattened ==
  ASSUME NEW n \in Nat, NEW seqs, Listed(seqs), Len(seqs) = n, NEW d,
         \A i \in 1..n : Neat(seqs[i], {d[i]}),
         \A i, j \in 1..n : d[i] = d[j] => i = j
  PROVE  NeatParts(n, d, FlattenSeq(seqs))
<1>1. DOMAIN seqs = 1..n
  BY ListedMeans
<1>2. CASE n = 0
  <2>1. FlattenSeq(seqs) = seqs
    BY <1>2 DEF FlattenSeq
  <2> QED BY <1>1, <1>2, <2>1 DEF NeatParts, Neat
<1>3. CASE n # 0
  <2>1. FlattenSeq(seqs) = (CHOOSE f : FlattenedAs(n, seqs, f))[n]
    BY <1>3 DEF FlattenSeq, FlattenedAs
  <2>2. PICK f : FlattenedAs(n, seqs, f) /\ FlattenSeq(seqs) = f[n]
    BY <2>1, FlattenedExists
  <2>3. \A i \in 1..n : f[i] = IF i = 1 THEN seqs[i] ELSE f[i - 1] \o seqs[i]
    BY <2>2 DEF FlattenedAs
  <2> DEFINE Bad == {m \in 1..n : ~NeatParts(m, d, f[m])}
  <2>4. ASSUME Bad # {}
        PROVE  FALSE
    <3>0. Bad \subseteq Nat
      OBVIOUS
    <3>1. PICK m \in Bad : \A k \in Bad : m <= k
      BY <2>4, <3>0, Least
    <3>2. CASE m = 1
      <4>1. f[1] = seqs[1] /\ Neat(seqs[1], {d[1]})
        BY <2>3, <3>1, <3>2
      <4>2. {d[1]} \subseteq {d[i] : i \in 1..1}
        OBVIOUS
      <4>3. NeatParts(1, d, f[1])
        BY <4>1, <4>2, NeatMore DEF NeatParts
      <4> QED BY <3>1, <3>2, <4>3
    <3>3. CASE m # 1
      <4>1. m - 1 \in 1..n /\ m - 1 \notin Bad /\ m \in 1..n
        BY <3>1, <3>3
      <4>2. Neat(f[m - 1], {d[i] : i \in 1..(m - 1)})
        BY <4>1 DEF NeatParts
      <4>3. Neat(seqs[m], {d[m]}) /\ f[m] = f[m - 1] \o seqs[m]
        BY <2>3, <3>1, <3>3
      <4>4. {d[i] : i \in 1..(m - 1)} \cap {d[m]} = {}
        <5>1. \A i \in 1..(m - 1) : i \in 1..n /\ i # m
          BY <4>1
        <5> QED BY <4>1, <5>1
      <4>5. Neat(f[m], {d[i] : i \in 1..(m - 1)} \cup {d[m]})
        <5>1. PICK D, E : D = {d[i] : i \in 1..(m - 1)} /\ E = {d[m]}
          OBVIOUS
        <5>2. Neat(f[m - 1] \o seqs[m], D \cup E)
          BY <4>2, <4>3, <4>4, <5>1, NeatJoined
        <5> QED BY <4>3, <5>1, <5>2
      <4>6. {d[i] : i \in 1..(m - 1)} \cup {d[m]} \subseteq {d[i] : i \in 1..m}
        BY <4>1
      <4>7. NeatParts(m, d, f[m])
        BY <4>5, <4>6, NeatMore DEF NeatParts
      <4> QED BY <3>1, <4>7
    <3> QED BY <3>2, <3>3
  <2>5. NeatParts(n, d, f[n])
    <3>1. n \in 1..n
      BY <1>3
    <3> QED BY <2>4, <3>1
  <2> QED BY <2>2, <2>5
<1> QED BY <1>2, <1>3

-----------------------------------------------------------------------------
(* The text. *)

(* Printing neat lines. *)
LEMMA EmitNeat ==
  ASSUME NEW g, Sound(g, {}), NEW D, Neat(g.text, D), NEW lines, NEW E, Neat(lines, E),
         D \cap E = {}
  PROVE  /\ Sound(Emit(g, lines), {}) /\ Emit(g, lines).offset = g.offset
         /\ Neat(Emit(g, lines).text, D \cup E)
<1>1. PICK h : h = Emit(g, lines)
  OBVIOUS
<1>2. /\ h.text = g.text \o lines /\ DOMAIN h = DOMAIN g /\ h.offset = g.offset
      /\ h.var = g.var /\ h.mod = g.mod
  BY <1>1 DEF Emit, Sound
<1>3. Neat(h.text, D \cup E)
  BY <1>2, NeatJoined
<1>4. Sound(h, {})
  BY <1>2, <1>3 DEF Sound, Neat
<1> QED BY <1>1, <1>2, <1>3, <1>4

(* The head defines nothing. *)
LEMMA AsmHeadNeat ==
  ASSUME NEW tacs
  PROVE  Sound(AsmHead(Fresh, tacs), {}) /\ Neat(AsmHead(Fresh, tacs).text, {})
<1>1. PICK l1, l2, l3, l4, j :
        /\ l1 = Named("LOD_0", R_BP, "STACK") /\ l2 = Line("STO_0", R_BP, 0, 0)
        /\ l3 = Named("LOD_0", R_TP, "EXIT") /\ l4 = Line("STO_3", R_BP, R_TP, RET_OFF)
        /\ j = Named("JMP_0", 0, "main")
  OBVIOUS
<1>2. PICK first, rest : /\ first = <<l1, l2, l3, l4>>
                         /\ rest = IF MainFirst(tacs) THEN <<>> ELSE <<j>>
  OBVIOUS
<1>3. AsmHead(Fresh, tacs) = Emit(Fresh, first \o rest)
  BY <1>1, <1>2 DEF AsmHead
<1>4. Bare(l1.op) /\ Bare(l2.op) /\ Bare(l3.op) /\ Bare(l4.op) /\ Bare(j.op)
  <2>1. Bare("LOD_0") /\ Bare("STO_0") /\ Bare("STO_3") /\ Bare("JMP_0")
    BY DEF Bare, Unreadable
  <2> QED BY <1>1, <2>1, LineBare, NamedBare
<1>5. Tidy(first)
  <2>1. <<l1, l2, l3, l4>> \in Seq({l1, l2, l3, l4}) /\ \A x \in {l1, l2, l3, l4} : Bare(x.op)
    BY <1>4
  <2> QED BY <1>2, <2>1, TidyOf
<1>6. Tidy(rest)
  BY <1>2, <1>4, TidyOne, TidyNone
<1>7. Tidy(first \o rest)
  BY <1>5, <1>6, TidyJoined
<1>8. /\ DOMAIN Fresh = {"text", "var", "mod", "tof", "oof", "oon", "tos", "offset"}
      /\ Fresh.text = <<>> /\ DOMAIN Fresh.var = Gen /\ Fresh.mod = {}
  BY DEF Fresh
<1>9. Sound(Fresh, {})
  BY <1>8, TidyNone DEF Sound, Tidy
<1>10. Goes(Fresh, AsmHead(Fresh, tacs), {})
  BY <1>3, <1>7, <1>9, EmitGoes
<1>11. Neat(Fresh.text, {})
  BY <1>8, TidyNone, TidyNeat
<1> QED BY <1>10, <1>11, NeatClean DEF Goes

(* A label: one more name. *)
LEMMA AsmLabelNeat ==
  ASSUME NEW g, Sound(g, {}), NEW D, Neat(g.text, D), NEW name, name \notin D
  PROVE  /\ Sound(AsmLabel(g, name), {}) /\ AsmLabel(g, name).offset = g.offset
         /\ Neat(AsmLabel(g, name).text, D \cup {name})
<1>1. PICK w, E : w = ClearAllRegs(WriteBackAll(g)) /\ E = {name}
  OBVIOUS
<1>2. Goes(g, w, {})
  BY <1>1, FlushGoes
<1>3. Sound(w, {}) /\ w.offset = g.offset /\ Neat(w.text, D)
  BY <1>2, NeatClean DEF Goes
<1>4. Neat(<<LabelLine(name)>>, E) /\ D \cap E = {}
  BY <1>1, NeatLabel
<1>5. /\ Sound(Emit(w, <<LabelLine(name)>>), {})
      /\ Emit(w, <<LabelLine(name)>>).offset = w.offset
      /\ Neat(Emit(w, <<LabelLine(name)>>).text, D \cup E)
  BY <1>3, <1>4, EmitNeat
<1> QED BY <1>1, <1>3, <1>5 DEF AsmLabel

(* The tail: EXIT. *)
LEMMA AsmTailNeat ==
  ASSUME NEW g, Sound(g, {}), NEW D, Neat(g.text, D), "EXIT" \notin D
  PROVE  Sound(AsmTail(g), {}) /\ Neat(AsmTail(g).text, D \cup {"EXIT"})
<1>1. PICK E, l : E = {"EXIT"} /\ l = Line("END", 0, 0, 0)
  OBVIOUS
<1>2. Bare(l.op)
  <2>1. Bare("END")
    BY DEF Bare, Unreadable
  <2> QED BY <1>1, <2>1, LineBare
<1>3. Neat(<<LabelLine("EXIT"), l>>, E) /\ D \cap E = {}
  BY <1>1, <1>2, NeatPair
<1>4. AsmTail(g) = Emit(g, <<LabelLine("EXIT"), l>>)
  BY <1>1 DEF AsmTail
<1> QED BY <1>1, <1>3, <1>4, EmitNeat

(* The data: the texts, STATIC and STACK. *)
LEMMA AsmStaticNeat ==
  ASSUME NEW g, Sound(g, {}), NEW D, Neat(g.text, D),
         NEW texts, NEW n \in Nat, DOMAIN texts = 1..n,
         \A i, j \in 1..n : texts[i].name = texts[j].name => i = j,
         \A i \in 1..n : texts[i].name \notin D \cup {"STATIC", "STACK"},
         {"STATIC", "STACK"} \cap D = {},
         NEW Q, D \cup {"STATIC", "STACK"} \subseteq Q, \A i \in 1..n : texts[i].name \in Q
  PROVE  Neat(AsmStatic(g, texts).text, Q)
<1>1. PICK strs, d : /\ strs = [i \in 1..n |-> AsmStr(texts[i])]
                     /\ d = [i \in 1..n |-> texts[i].name]
  OBVIOUS
<1>2. ASSUME NEW i \in 1..n
      PROVE  Neat(strs[i], {d[i]})
  <2>1. PICK l : l = [Named("DBS", 0, "") EXCEPT !.bytes = Append(texts[i].value, 0)]
    OBVIOUS
  <2>2. l.op = "DBS"
    BY <2>1 DEF Named, Line
  <2>3. Bare(l.op)
    BY <2>2 DEF Bare, Unreadable
  <2>4. AsmStr(texts[i]) = <<LabelLine(texts[i].name), l>>
    BY <2>1 DEF AsmStr, TextLabel
  <2> QED BY <1>1, <2>3, <2>4, NeatPair
<1>3. Listed(strs) /\ Len(strs) = n
  <2>1. PICK S : S = {strs[i] : i \in 1..n}
    OBVIOUS
  <2>2. strs \in [1..n -> S]
    BY <1>1, <2>1
  <2>3. strs \in Seq(S)
    BY <2>2, SeqDef
  <2>4. Len(strs) = n
    BY <1>1, <2>3, LengthIs
  <2> QED BY <2>3, <2>4, SeqIsListed
<1>4. \A i, j \in 1..n : d[i] = d[j] => i = j
  BY <1>1
<1>5. NeatParts(n, d, FlattenSeq(strs))
  BY <1>2, <1>3, <1>4, NeatFlattened
<1>6. PICK N : N = {texts[i].name : i \in 1..n}
  OBVIOUS
<1>7. Neat(FlattenSeq(strs), N)
  <2>1. {d[i] : i \in 1..n} = N
    BY <1>1, <1>6
  <2> QED BY <1>5, <2>1 DEF NeatParts
<1>8. PICK l, a, b : l = Line("DBN", 0, 0, g.tos) /\ a = {"STATIC"} /\ b = {"STACK"}
  OBVIOUS
<1>9. PICK x, y, s : /\ x = LabelLine("STATIC") /\ y = LabelLine("STACK") /\ s = <<x, l, y>>
  OBVIOUS
<1>10. /\ x.op = "LABEL" /\ x.name = "STATIC" /\ y.op = "LABEL" /\ y.name = "STACK"
       /\ l.op = "DBN"
  BY <1>8, <1>9 DEF LabelLine, Named, Line
<1>11. /\ s \in Seq({x, l, y}) /\ DOMAIN s = {1, 2, 3}
       /\ s[1] = x /\ s[2] = l /\ s[3] = y
  BY <1>9
<1>12. Listed(s)
  BY <1>11, SeqIsListed
<1>13. Neat(s, a \cup b)
  <2>1. \A k \in DOMAIN s : s[k].op # Unreadable /\ (s[k].op = "LABEL" => s[k].name \in a \cup b)
    BY <1>8, <1>10, <1>11 DEF Unreadable
  <2>2. \A i, j \in DOMAIN s :
          s[i].op = "LABEL" /\ s[j].op = "LABEL" /\ s[i].name = s[j].name => i = j
    BY <1>10, <1>11
  <2> QED BY <1>12, <2>1, <2>2 DEF Neat
<1>14. PICK E : E = a \cup b
  OBVIOUS
<1>15. Neat(FlattenSeq(strs) \o s, N \cup E)
  <2>1. N \cap E = {}
    BY <1>6, <1>8, <1>14
  <2> QED BY <1>7, <1>13, <1>14, <2>1, NeatJoined
<1>16. PICK F : F = N \cup E
  OBVIOUS
<1>17. D \cap F = {}
  BY <1>6, <1>8, <1>14, <1>16
<1>18. Neat(Emit(g, FlattenSeq(strs) \o s).text, D \cup F)
  BY <1>15, <1>16, <1>17, EmitNeat
<1>19. AsmStatic(g, texts) = Emit(g, FlattenSeq(strs) \o s)
  BY <1>1, <1>8, <1>9 DEF AsmStatic
<1>20. D \cup F \subseteq Q
  BY <1>6, <1>8, <1>14, <1>16
<1> QED BY <1>18, <1>19, <1>20, NeatMore

-----------------------------------------------------------------------------
(* The names. *)

(* As many names as there are things to name: each has its own.            *)
LEMMA OneEach ==
  ASSUME NEW S, NEW T, IsFiniteSet(S), NEW f \in [S -> T], \A t \in T : \E s \in S : f[s] = t,
         ~(Cardinality(T) < Cardinality(S))
  PROVE  \A i, j \in S : f[i] = f[j] => i = j
<1>1. f \in Surjection(S, T)
  BY DEF Surjection
<1>2. /\ IsFiniteSet(T) /\ Cardinality(T) <= Cardinality(S)
      /\ Cardinality(T) = Cardinality(S) <=> f \in Injection(S, T)
  BY <1>1, FS_Surjection
<1>3. Cardinality(T) \in Nat /\ Cardinality(S) \in Nat
  BY <1>2, FS_CardinalityType
<1>4. f \in Injection(S, T)
  BY <1>2, <1>3
<1> QED BY <1>4 DEF Injection, IsInjective

LabelsOf(p) == {i \in DOMAIN p.tacs : p.tacs[i].op = "LABEL"}

(* No two definitions of one name, and none of a name the assembler knows. *)
Separate(p) ==
  /\ \A i, j \in LabelsOf(p) : p.tacs[i].a.name = p.tacs[j].a.name => i = j
  /\ \A i, j \in DOMAIN p.texts : p.texts[i].name = p.texts[j].name => i = j
  /\ \A i \in LabelsOf(p), j \in DOMAIN p.texts : p.tacs[i].a.name # p.texts[j].name
  /\ \A name \in Placed(p) \cup TextNames(p) : ~IsReserved(name)

(* What it means that the case "names" does not arise. *)
LEMMA NamesSeparate ==
  ASSUME NEW p, Complete(p), Static(p) = {}
  PROVE  Separate(p)
<1>1. PICK n, m : n = Len(p.tacs) /\ m = Len(p.texts)
  OBVIOUS
<1>2. /\ n \in Nat /\ DOMAIN p.tacs = 1..n /\ m \in Nat /\ DOMAIN p.texts = 1..m
  BY <1>1, CompleteMeans, ListedMeans
<1>3. PICK L, N : L = LabelsOf(p) /\ N = Placed(p) \cup TextNames(p)
  OBVIOUS
<1>4. {t.name : t \in Range(p.texts)} = TextNames(p)
  BY DEF Range, TextNames
<1>5. (\A name \in N : ~IsReserved(name)) /\ ~(Cardinality(N) < Cardinality(L) + m)
  <2>1. N = {p.tacs[i].a.name : i \in L} \cup {t.name : t \in Range(p.texts)}
    BY <1>3, <1>4 DEF Placed, LabelsOf
  <2>2. ~\/ \E name \in N : IsReserved(name)
         \/ Cardinality(N) < Cardinality(L) + m
    BY <1>1, <1>3, <2>1 DEF Static, LabelsOf
  <2> QED BY <2>2
<1>6. PICK M, S : M = (n + 1)..(n + m) /\ S = L \cup M
  OBVIOUS
<1>7. IsFiniteSet(L) /\ L \subseteq 1..n /\ Cardinality(L) \in Nat
  <2>1. IsFiniteSet(1..n)
    BY <1>2, FS_Interval
  <2>2. L \subseteq 1..n
    BY <1>2, <1>3 DEF LabelsOf
  <2>3. IsFiniteSet(L)
    BY <2>1, <2>2, FS_Subset
  <2> QED BY <2>2, <2>3, FS_CardinalityType
<1>8. IsFiniteSet(M) /\ Cardinality(M) = m
  <2>1. n + 1 \in Int /\ n + m \in Int
    BY <1>2
  <2>2. /\ IsFiniteSet(M)
        /\ Cardinality(M) = IF n + 1 > n + m THEN 0 ELSE (n + m) - (n + 1) + 1
    BY <1>6, <2>1, FS_Interval
  <2> QED BY <1>2, <2>2
<1>9. IsFiniteSet(S) /\ Cardinality(S) = Cardinality(L) + m
  <2>1. L \cap M = {}
    BY <1>2, <1>6, <1>7
  <2>2. /\ IsFiniteSet(L \cup M)
        /\ Cardinality(L \cup M) = Cardinality(L) + Cardinality(M) - Cardinality(L \cap M)
    BY <1>7, <1>8, FS_Union
  <2>3. Cardinality(L \cap M) = 0
    BY <2>1, FS_EmptySet
  <2> QED BY <1>2, <1>6, <1>7, <1>8, <2>2, <2>3
<1>10. PICK f : f = [i \in S |-> IF i \in L THEN p.tacs[i].a.name ELSE p.texts[i - n].name]
  OBVIOUS
<1>11. \A i \in L : i \in S /\ f[i] = p.tacs[i].a.name
  BY <1>6, <1>10
<1>12. ASSUME NEW j \in 1..m
       PROVE  n + j \in S /\ n + j \notin L /\ f[n + j] = p.texts[j].name
  <2>1. n + j \in M /\ n + j \notin L /\ (n + j) - n = j
    BY <1>2, <1>6, <1>7
  <2> QED BY <1>6, <1>10, <2>1
<1>13. ASSUME NEW i \in S
       PROVE  f[i] \in N
  <2>1. CASE i \in L
    BY <1>3, <1>11, <2>1 DEF Placed, LabelsOf
  <2>2. CASE i \notin L
    <3>1. i - n \in 1..m
      BY <1>2, <1>6, <2>2
    <3>2. f[i] = p.texts[i - n].name
      BY <1>10, <2>2
    <3> QED BY <1>2, <1>3, <3>1, <3>2 DEF TextNames
  <2> QED BY <2>1, <2>2
<1>14. ASSUME NEW name \in N
       PROVE  \E i \in S : f[i] = name
  <2>1. CASE name \in Placed(p)
    BY <1>3, <1>11, <2>1 DEF Placed, LabelsOf
  <2>2. CASE name \in TextNames(p)
    <3>1. PICK j \in 1..m : name = p.texts[j].name
      BY <1>2, <2>2 DEF TextNames
    <3> QED BY <1>12, <3>1
  <2> QED BY <1>3, <2>1, <2>2
<1>15. \A i, j \in S : f[i] = f[j] => i = j
  <2>1. f \in [S -> N]
    BY <1>10, <1>13
  <2>2. ~(Cardinality(N) < Cardinality(S))
    BY <1>5, <1>9
  <2> QED BY <1>9, <1>14, <2>1, <2>2, OneEach
<1>16. ASSUME NEW i \in L, NEW j \in L, p.tacs[i].a.name = p.tacs[j].a.name
       PROVE  i = j
  BY <1>11, <1>15, <1>16
<1>17. ASSUME NEW i \in 1..m, NEW j \in 1..m, p.texts[i].name = p.texts[j].name
       PROVE  i = j
  <2>1. n + i = n + j
    BY <1>12, <1>15, <1>17
  <2> QED BY <1>2, <2>1
<1>18. ASSUME NEW i \in L, NEW j \in 1..m, p.tacs[i].a.name = p.texts[j].name
       PROVE  FALSE
  <2>1. i = n + j
    BY <1>11, <1>12, <1>15, <1>18
  <2> QED BY <1>12, <2>1
<1> QED BY <1>2, <1>3, <1>5, <1>16, <1>17, <1>18 DEF Separate

(* An order of the texts has each of them once. *)
LEMMA OrderOnce ==
  ASSUME NEW p, Complete(p), Separate(p), NEW texts \in Orders(p.texts)
  PROVE  /\ DOMAIN texts = DOMAIN p.texts
         /\ \A i \in DOMAIN p.texts : texts[i] \in Range(p.texts)
         /\ \A i, j \in DOMAIN p.texts : texts[i].name = texts[j].name => i = j
<1>1. PICK m, R : m = Len(p.texts) /\ R = Range(p.texts)
  OBVIOUS
<1>2. m \in Nat /\ DOMAIN p.texts = 1..m
  BY <1>1, CompleteMeans, ListedMeans
<1>3. texts \in [1..m -> R] /\ \A t \in R : \E i \in 1..m : texts[i] = t
  BY <1>1, <1>2 DEF Orders
<1>4. IsFiniteSet(1..m) /\ Cardinality(1..m) = m
  BY <1>2, FS_Interval
<1>5. Cardinality(R) = m
  <2>1. PICK f : f = [i \in 1..m |-> p.texts[i]]
    OBVIOUS
  <2>2. f \in [1..m -> R] /\ \A t \in R : \E i \in 1..m : f[i] = t
    BY <1>1, <1>2, <2>1 DEF Range
  <2>3. \A i, j \in 1..m : f[i] = f[j] => i = j
    BY <1>2, <2>1 DEF Separate
  <2>4. f \in Surjection(1..m, R) /\ f \in Injection(1..m, R)
    BY <2>2, <2>3 DEF Surjection, Injection, IsInjective
  <2> QED BY <1>4, <2>4, FS_Surjection
<1>6. \A i, j \in 1..m : texts[i] = texts[j] => i = j
  <2>1. PICK S : S = 1..m
    OBVIOUS
  <2>2. IsFiniteSet(S) /\ ~(Cardinality(R) < Cardinality(S))
    BY <1>2, <1>4, <1>5, <2>1
  <2>3. texts \in [S -> R] /\ \A t \in R : \E s \in S : texts[s] = t
    BY <1>3, <2>1
  <2>4. \A i, j \in S : texts[i] = texts[j] => i = j
    BY <2>2, <2>3, OneEach
  <2> QED BY <2>1, <2>4
<1>7. \A x, y \in R : x.name = y.name => x = y
  BY <1>1 DEF Separate, Range
<1>8. ASSUME NEW i \in 1..m, NEW j \in 1..m, texts[i].name = texts[j].name
      PROVE  i = j
  <2>1. texts[i] = texts[j]
    BY <1>3, <1>7, <1>8
  <2> QED BY <1>6, <2>1
<1> QED BY <1>1, <1>2, <1>3, <1>8

(* A program the theorem is about: none of the situations that are known   *)
(* before it runs, and no more names than the table has places.            *)
Usual(p) == p \in Programs /\ Static(p) = {} /\ Cardinality(Names(p)) <= LABNUM

(* The names can be defined, and counted. *)
LEMMA UsualNames ==
  ASSUME NEW p, Usual(p)
  PROVE  /\ IsFiniteSet(Names(p)) /\ Cardinality(Names(p)) \in Nat
         /\ \A name \in Names(p) : IsLabel(name)
<1>1. Complete(p) /\ Separate(p)
  BY ProgramsAssumption, NamesSeparate DEF Usual
<1>2. PICK n, m : n = Len(p.tacs) /\ m = Len(p.texts)
  OBVIOUS
<1>3. /\ n \in Nat /\ DOMAIN p.tacs = 1..n /\ m \in Nat /\ DOMAIN p.texts = 1..m
  BY <1>1, <1>2, CompleteMeans, ListedMeans
<1>4. IsFiniteSet(1..n) /\ IsFiniteSet(1..m)
  BY <1>3, FS_Interval
<1>5. IsFiniteSet(Placed(p))
  <2>1. PICK L : L = LabelsOf(p)
    OBVIOUS
  <2>2. L \subseteq 1..n
    BY <1>3, <2>1 DEF LabelsOf
  <2>3. IsFiniteSet(L)
    BY <1>4, <2>2, FS_Subset
  <2>4. PICK f : f = [i \in L |-> p.tacs[i].a.name]
    OBVIOUS
  <2>5. f \in Surjection(L, Placed(p))
    BY <2>1, <2>4 DEF Surjection, Placed, LabelsOf
  <2> QED BY <2>3, <2>5, FS_Surjection
<1>6. IsFiniteSet(TextNames(p))
  <2>1. PICK f : f = [i \in 1..m |-> p.texts[i].name]
    OBVIOUS
  <2>2. f \in Surjection(1..m, TextNames(p))
    BY <1>3, <2>1 DEF Surjection, TextNames
  <2> QED BY <1>4, <2>2, FS_Surjection
<1>7. IsFiniteSet(Fixed)
  <2>1. IsFiniteSet({"EXIT"}) /\ IsFiniteSet({"EXIT"} \cup {"STATIC"})
    BY FS_Singleton, FS_AddElement
  <2>2. IsFiniteSet(({"EXIT"} \cup {"STATIC"}) \cup {"STACK"})
    BY <2>1, FS_AddElement
  <2>3. IsFiniteSet((({"EXIT"} \cup {"STATIC"}) \cup {"STACK"}) \cup {"main"})
    BY <2>2, FS_AddElement
  <2>4. Fixed = (({"EXIT"} \cup {"STATIC"}) \cup {"STACK"}) \cup {"main"}
    BY DEF Fixed
  <2> QED BY <2>3, <2>4
<1>8. IsFiniteSet(Names(p))
  <2>1. IsFiniteSet(Placed(p) \cup TextNames(p))
    BY <1>5, <1>6, FS_Union
  <2> QED BY <1>7, <2>1, FS_Union DEF Names
<1>9. ASSUME NEW name \in Names(p)
      PROVE  IsLabel(name)
  <2>1. CASE name \in Fixed
    BY <2>1, OwnLabelsAssumption DEF Fixed, IsLabel, Mnemonics
  <2>2. CASE name \notin Fixed
    BY <1>1, <2>2 DEF Names, Separate, IsReserved
  <2> QED BY <2>1, <2>2
<1> QED BY <1>8, <1>9, FS_CardinalityType

-----------------------------------------------------------------------------
(* The generator before TAC k: sound, and with the definitions before.     *)
LabelsBefore(p, k) == {p.tacs[j].a.name : j \in {i \in LabelsOf(p) : i < k}}

Fine(p, g, k) ==
  /\ Sound(g, {}) /\ Declared(p, g.offset, k)
  /\ Neat(g.text, LabelsBefore(p, k))

(* What keeps the homes keeps the declarations. *)
LEMMA KeptDeclared ==
  ASSUME NEW p, NEW g, NEW h, NEW k, Keeps(g, h), Declared(p, g.offset, k)
  PROVE  Declared(p, h.offset, k)
  BY DEF Declared, Keeps

(* A TAC that defines nothing. *)
LEMMA FineKept ==
  ASSUME NEW p, NEW g, NEW k \in DOMAIN p.tacs, DOMAIN p.tacs \subseteq Nat \ {0}, Fine(p, g, k),
         NEW h, Keeps(g, h), p.tacs[k].op # "LABEL",
         p.tacs[k].op = "VAR" /\ p.tacs[k].a.type = "VAR" => Homed(h.offset, p.tacs[k].a)
  PROVE  Fine(p, h, k + 1)
<1>1. k \in Nat \ {0}
  OBVIOUS
<1>2. Declared(p, h.offset, k)
  BY KeptDeclared DEF Fine
<1>3. Declared(p, h.offset, k + 1)
  BY <1>1, <1>2, NextLine DEF Declared
<1>4. LabelsBefore(p, k) \subseteq LabelsBefore(p, k + 1)
  BY <1>1 DEF LabelsBefore, LabelsOf
<1>5. Neat(h.text, LabelsBefore(p, k))
  BY NeatClean DEF Fine, Keeps
<1>6. Neat(h.text, LabelsBefore(p, k + 1))
  BY <1>4, <1>5, NeatMore
<1> QED BY <1>3, <1>6 DEF Fine, Keeps

(* A label: its name is none of those before. *)
LEMMA FineLabel ==
  ASSUME NEW p, Separate(p), NEW g, NEW k \in DOMAIN p.tacs, DOMAIN p.tacs \subseteq Nat \ {0},
         Fine(p, g, k), p.tacs[k].op = "LABEL"
  PROVE  Fine(p, AsmLabel(g, p.tacs[k].a.name), k + 1)
<1>1. PICK h, D, name : h = AsmLabel(g, name) /\ D = LabelsBefore(p, k) /\ name = p.tacs[k].a.name
  OBVIOUS
<1>2. k \in Nat \ {0} /\ k \in LabelsOf(p)
  BY DEF LabelsOf
<1>3. name \notin D
  <2>1. SUFFICES ASSUME name \in D
                 PROVE  FALSE
    OBVIOUS
  <2>2. PICK j \in LabelsOf(p) : j < k /\ p.tacs[j].a.name = name
    BY <1>1, <2>1 DEF LabelsBefore
  <2>3. j = k
    BY <1>1, <1>2, <2>2 DEF Separate
  <2> QED BY <1>2, <2>2, <2>3
<1>4. Sound(h, {}) /\ h.offset = g.offset /\ Neat(h.text, D \cup {name})
  BY <1>1, <1>3, AsmLabelNeat DEF Fine
<1>5. D \cup {name} \subseteq LabelsBefore(p, k + 1)
  <2>1. \A j \in LabelsOf(p) : j < k => j < k + 1
    BY <1>2 DEF LabelsOf
  <2>2. k < k + 1
    BY <1>2
  <2> QED BY <1>1, <1>2, <2>1, <2>2 DEF LabelsBefore
<1>6. Neat(h.text, LabelsBefore(p, k + 1))
  BY <1>4, <1>5, NeatMore
<1>7. Declared(p, h.offset, k + 1)
  <2>1. Declared(p, h.offset, k)
    BY <1>4 DEF Fine
  <2> QED BY <1>2, <2>1, NextLine DEF Declared
<1> QED BY <1>1, <1>4, <1>6, <1>7 DEF Fine

(* Any TAC. *)
LEMMA FineOn ==
  ASSUME NEW p, Usual(p), NEW g, NEW k \in DOMAIN p.tacs, Printed(p, g, k), Fine(p, g, k),
         NEW rand \in Gen, ~Spilled(g, p.tacs[k], rand), ~Reloaded(g, p.tacs[k], rand)
  PROVE  Fine(p, AsmCode(g, p.tacs[k], rand), k + 1)
<1>1. PICK t, h : t = p.tacs[k] /\ h = AsmCode(g, t, rand)
  OBVIOUS
<1>2. Complete(p) /\ Static(p) = {} /\ Separate(p)
  BY ProgramsAssumption, NamesSeparate DEF Usual
<1>3. DOMAIN p.tacs \subseteq Nat \ {0}
  BY <1>2, CompleteMeans, ListedMeans
<1>4. TacGood(t, Names(p)) /\ TacReady(t, g.offset)
  BY <1>1, <1>2, CompleteMeans, CompleteReady DEF Fine
<1>5. Sound(g, {}) /\ g.tos \in Nat
  BY DEF Fine, Printed, GenGood
<1>6. CASE t.op = "LABEL"
  <2>1. h = AsmLabel(g, t.a.name)
    BY <1>1, <1>6 DEF AsmCode, Jump
  <2> QED BY <1>1, <1>2, <1>3, <1>6, <2>1, FineLabel
<1>7. CASE t.op = "BEGINFUNC"
  <2>1. h = BeginFunc(g)
    BY <1>1, <1>7 DEF AsmCode, Jump
  <2>2. Keeps(g, h)
    BY <1>5, <2>1, BeginKeeps
  <2> QED BY <1>1, <1>3, <1>7, <2>2, FineKept
<1>8. CASE t.op = "FORMAL"
  <2>1. h = Formal(g, t.a)
    BY <1>1, <1>8 DEF AsmCode, Jump
  <2>2. t.a.scope = "LOCAL"
    BY <1>4, <1>8 DEF TacReady
  <2>3. Keeps(g, h)
    BY <1>5, <2>1, <2>2, FormalKeeps
  <2> QED BY <1>1, <1>3, <1>8, <2>3, FineKept
<1>9. CASE t.op = "VAR"
  <2>1. h = VarCode(g, t.a, Number(t.c))
    BY <1>1, <1>9 DEF AsmCode, Jump
  <2>2. Keeps(g, h)
    BY <1>5, <2>1, VarKeeps
  <2>3. t.a.scope # "LOCAL" => t.a \in DOMAIN h.offset /\ h.offset[t.a] \in Nat
    BY <1>5, <2>1, VarKeeps
  <2>4. t.a.type = "VAR" => Homed(h.offset, t.a)
    BY <2>3 DEF Homed
  <2> QED BY <1>1, <1>3, <1>9, <2>2, <2>4, FineKept
<1>10. CASE t.op \notin {"LABEL", "BEGINFUNC", "FORMAL", "VAR"}
  <2>1. Goes(g, h, {})
    BY <1>1, <1>4, <1>5, <1>10, AsmCodeGoes
  <2>2. Keeps(g, h)
    BY <2>1, GoesKeeps
  <2> QED BY <1>1, <1>3, <1>10, <2>2, FineKept
<1> QED BY <1>1, <1>6, <1>7, <1>8, <1>9, <1>10

(* The text that is finished. *)
LEMMA FinishedNeat ==
  ASSUME NEW p, Usual(p), NEW g, Fine(p, g, Len(p.tacs) + 1), NEW texts \in Orders(p.texts)
  PROVE  Neat(AsmStatic(AsmTail(g), texts).text, Names(p))
<1>1. PICK t, D, E, m : /\ t = AsmTail(g) /\ D = LabelsBefore(p, Len(p.tacs) + 1)
                        /\ E = D \cup {"EXIT"} /\ m = Len(p.texts)
  OBVIOUS
<1>2. Complete(p) /\ Separate(p)
  BY ProgramsAssumption, NamesSeparate DEF Usual
<1>3. m \in Nat /\ DOMAIN p.texts = 1..m
  BY <1>1, <1>2, CompleteMeans, ListedMeans
<1>4. D \subseteq Placed(p)
  BY <1>1 DEF LabelsBefore, LabelsOf, Placed
<1>5. (\A name \in D : ~IsReserved(name)) /\ \A name \in {"EXIT", "STATIC", "STACK"} : IsReserved(name)
  BY <1>2, <1>4 DEF Separate, IsReserved
<1>6. Sound(t, {}) /\ Neat(t.text, E)
  <2>1. "EXIT" \notin D
    BY <1>5
  <2> QED BY <1>1, <2>1, AsmTailNeat DEF Fine
<1>7. /\ DOMAIN texts = 1..m
      /\ \A i \in 1..m : texts[i] \in Range(p.texts)
      /\ \A i, j \in 1..m : texts[i].name = texts[j].name => i = j
  BY <1>2, <1>3, OrderOnce
<1>8. ASSUME NEW i \in 1..m
      PROVE  texts[i].name \in TextNames(p) /\ texts[i].name \notin E \cup {"STATIC", "STACK"}
  <2>1. PICK j \in DOMAIN p.texts : texts[i] = p.texts[j]
    BY <1>7 DEF Range
  <2>2. texts[i].name \in TextNames(p)
    BY <2>1 DEF TextNames
  <2>3. texts[i].name \notin D
    BY <1>1, <1>2, <2>1 DEF LabelsBefore, Separate
  <2>4. ~IsReserved(texts[i].name)
    BY <1>2, <2>2 DEF Separate
  <2> QED BY <1>1, <1>5, <2>2, <2>3, <2>4
<1>9. {"STATIC", "STACK"} \cap E = {}
  BY <1>1, <1>5
<1>10. /\ \A i \in 1..m : texts[i].name \notin E \cup {"STATIC", "STACK"}
       /\ \A i \in 1..m : texts[i].name \in Names(p)
       /\ E \cup {"STATIC", "STACK"} \subseteq Names(p)
  BY <1>1, <1>4, <1>8 DEF Names, Fixed
<1>11. PICK Q : Q = Names(p)
  OBVIOUS
<1>12. Neat(AsmStatic(t, texts).text, Q)
  BY <1>3, <1>6, <1>7, <1>9, <1>10, <1>11, AsmStaticNeat
<1> QED BY <1>1, <1>11, <1>12

-----------------------------------------------------------------------------
(* The assembler: it has refused nothing, and its table holds names of N.  *)
AsmFine(a, N) == a.state # "refused" /\ \A i \in DOMAIN a.table : a.table[i].name \in N

(* A table with names of N only is not full when one of N is missing.      *)
LEMMA NotFull ==
  ASSUME NEW N, IsFiniteSet(N), Cardinality(N) \in Nat, Cardinality(N) <= LABNUM,
         NEW a, NEW text, NEW k, TableGood(a.table, text, k), AsmFine(a, N), NEW name \in N
  PROVE  ~Full(a, name)
<1>1. SUFFICES ASSUME ~Known(a, name)
               PROVE  ~(Len(a.table) >= LABNUM)
  BY DEF Full
<1>2. PICK n : n = Len(a.table)
  OBVIOUS
<1>3. n \in Nat /\ DOMAIN a.table = 1..n
  BY <1>2, ListedMeans DEF TableGood
<1>4. PICK f, R : f = [i \in 1..n |-> a.table[i].name] /\ R = N \ {name}
  OBVIOUS
<1>5. \A i \in 1..n : a.table[i].name # name /\ a.table[i].name \in N
  BY <1>1, <1>3 DEF Known, Entry, AsmFine
<1>6. f \in [1..n -> R]
  BY <1>4, <1>5
<1>7. \A i, j \in 1..n : f[i] = f[j] => i = j
  BY <1>3, <1>4 DEF TableGood
<1>8. f \in Injection(1..n, R)
  BY <1>6, <1>7 DEF Injection, IsInjective
<1>9. IsFiniteSet(R) /\ Cardinality(R) = Cardinality(N) - 1
  BY <1>1, <1>4, FS_RemoveElement
<1>10. Cardinality(1..n) = n
  BY <1>3, FS_Interval
<1>11. Cardinality(1..n) <= Cardinality(R)
  <2>1. PICK D : D = 1..n
    OBVIOUS
  <2>2. f \in Injection(D, R) /\ IsFiniteSet(R)
    BY <1>8, <1>9, <2>1
  <2>3. Cardinality(D) <= Cardinality(R)
    BY ONLY <2>2, FS_Injection
  <2> QED BY <2>1, <2>3
<1>12. PICK m : m = Cardinality(N)
  OBVIOUS
<1>13. n <= m - 1 /\ m \in Nat /\ m <= LABNUM
  BY <1>9, <1>10, <1>11, <1>12
<1>14. ~(n >= LABNUM)
  <2>1. n \in Nat /\ LABNUM \in Nat
    BY <1>3, TableAssumption
  <2> QED BY ONLY <1>13, <2>1
<1> QED BY <1>2, <1>14

(* Entering a name of N. *)
LEMMA EnterFine ==
  ASSUME NEW a, DOMAIN a = {"table", "pass", "ip", "state", "code", "data"}, Listed(a.table),
         NEW N, AsmFine(a, N), NEW name \in N
  PROVE  AsmFine(Enter(a, name), N)
<1>1. CASE Known(a, name)
  BY <1>1 DEF Enter
<1>2. CASE ~Known(a, name)
  <2>1. PICK e, t, b : /\ e = [name |-> name, addr |-> 0] /\ t = Append(a.table, e)
                       /\ b = [a EXCEPT !.table = t]
    OBVIOUS
  <2>2. PICK S : S = Range(a.table) \cup {e}
    OBVIOUS
  <2>3. a.table \in Seq(S)
    BY <2>2, SeqMonotonic DEF Listed
  <2>4. t \in Seq(S)
    BY <2>1, <2>2, <2>3, AppendProperties
  <2>5. \A i \in DOMAIN t : t[i] \in S
    BY <2>4, ElementOfSeq, LenProperties
  <2>6. \A x \in S : x.name \in N
    BY <2>1, <2>2 DEF Range, AsmFine
  <2>7. b.table = t /\ b.state = a.state
    BY <2>1
  <2> QED BY <1>2, <2>1, <2>5, <2>6, <2>7 DEF Enter, AsmFine
<1> QED BY <1>1, <1>2

(* The first pass finds no address for a name it has not seen defined.     *)
LEMMA LabelFine ==
  ASSUME NEW text, IsText(text), NEW N, Neat(text, N), NEW k \in DOMAIN text, NEW a,
         AsmGood(a, text, k), a.state = "reading", a.pass = 1, AsmFine(a, N),
         text[k].op = "LABEL"
  PROVE  AsmFine(LabStmt(a, text[k].name), N)
<1>1. PICK n, name, e : n = Len(text) /\ name = text[k].name /\ e = Enter(a, name)
  OBVIOUS
<1>2. n \in Nat /\ DOMAIN text = 1..n /\ k \in Nat
  <2>1. n \in Nat /\ DOMAIN text = 1..n
    BY <1>1, ListedMeans DEF IsText
  <2> QED BY <2>1
<1>3. DOMAIN a = {"table", "pass", "ip", "state", "code", "data"} /\ TableGood(a.table, text, k)
  BY DEF AsmGood
<1>4. name \in N
  BY <1>1 DEF Neat
<1>5. AsmFine(e, N)
  BY <1>1, <1>3, <1>4, EnterFine DEF TableGood
<1>6. /\ DOMAIN e = DOMAIN a /\ TableGood(e.table, text, k)
      /\ \E i \in DOMAIN e.table : e.table[i].name = name
  <2>1. "table" \in DOMAIN a
    BY <1>3
  <2> QED BY <1>1, <1>2, <1>3, <2>1, EnterGood
<1>7. PICK i \in DOMAIN e.table : e.table[i].name = name
  BY <1>6
<1>8. /\ (CHOOSE j \in Entry(e, name) : TRUE) = i
      /\ AddressOf(e, name) = e.table[i].addr
  <2>1. TableGood(e.table, text, k)
    BY <1>6
  <2>2. i \in DOMAIN e.table
    BY <1>7
  <2>3. Entry(e, name) = {i}
    BY <1>7, <2>1, <2>2 DEF Entry, TableGood
  <2>4. (CHOOSE j \in Entry(e, name) : TRUE) = i
    BY <2>3
  <2>5. Known(e, name)
    BY <2>3 DEF Known
  <2> QED BY <2>4, <2>5 DEF AddressOf
<1>9. e.table[i].addr = 0
  <2>1. EntryGood(e.table[i], text, k)
    BY <1>6 DEF TableGood
  <2>2. ASSUME NEW j \in 1..(k - 1), Defines(text[j], name)
        PROVE  FALSE
    <3>1. j \in DOMAIN text /\ j # k
      BY <1>2
    <3>2. text[j].op = "LABEL" /\ text[j].name = text[k].name
      BY <1>1, <2>2 DEF Defines
    <3> QED BY <3>1, <3>2 DEF Neat
  <2> QED BY <1>7, <2>1, <2>2 DEF EntryGood
<1>10. PICK t, b : t = [e.table EXCEPT ![i].addr = a.ip] /\ b = [e EXCEPT !.table = t]
  OBVIOUS
<1>11. LabStmt(a, name) = Resolve(e, name, a.ip)
  BY <1>1, <1>8, <1>9 DEF LabStmt
<1>12. Resolve(e, name, a.ip) = b
  BY <1>3, <1>6, <1>8, <1>10 DEF Resolve
<1>13. DOMAIN t = DOMAIN e.table /\ \A j \in DOMAIN t : t[j].name = e.table[j].name
  <2>1. \E x : e.table[i] = [name |-> e.table[i].name, addr |-> x]
    BY <1>6 DEF TableGood
  <2>2. [e.table[i] EXCEPT !.addr = a.ip].name = e.table[i].name
    BY <2>1
  <2>3. t = [e.table EXCEPT ![i] = [e.table[i] EXCEPT !.addr = a.ip]]
    BY <1>10
  <2> QED BY <2>2, <2>3
<1>14. b.table = t /\ b.state = e.state
  BY <1>3, <1>6, <1>10
<1>15. AsmFine(b, N)
  BY <1>5, <1>13, <1>14 DEF AsmFine
<1> QED BY <1>1, <1>11, <1>12, <1>15

(* A line of either pass is read. *)
LEMMA ReadFine ==
  ASSUME NEW text, IsText(text), NEW N, Neat(text, N), IsFiniteSet(N), Cardinality(N) \in Nat,
         Cardinality(N) <= LABNUM, \A name \in N : IsLabel(name),
         NEW k \in DOMAIN text, NEW a, AsmGood(a, text, k), a.state = "reading", AsmFine(a, N)
  PROVE  AsmFine(Read(a, text[k]), N)
<1>1. PICK l : l = text[k]
  OBVIOUS
<1>2. l.op # Unreadable /\ (l.op = "LABEL" => l.name \in N)
  BY <1>1 DEF Neat
<1>3. l.name = "" \/ l.name \in N
  <2>1. SUFFICES ASSUME l.name # ""
                 PROVE  l.name \in N
    OBVIOUS
  <2>2. PICK j \in DOMAIN text : text[j].op = "LABEL" /\ text[j].name = l.name
    BY <1>1, <2>1 DEF IsText, Defined
  <2> QED BY <2>2 DEF Neat
<1>4. IsLabel(l.name)
  <2>1. IsLabel("")
    BY DEF IsLabel, Mnemonics, IsRegister
  <2> QED BY <1>3, <2>1
<1>5. /\ DOMAIN a = {"table", "pass", "ip", "state", "code", "data"} /\ a.pass \in {1, 2}
      /\ \E m : TableGood(a.table, text, m)
  BY DEF AsmGood
<1>6. PICK m : TableGood(a.table, text, m)
  BY <1>5
<1>7. ~Full(a, l.name)
  <2>1. CASE l.name = ""
    BY <2>1 DEF Full
  <2>2. CASE l.name \in N
    BY <1>6, <2>2, NotFull
  <2> QED BY <1>3, <2>1, <2>2
<1>8. PICK named, put, b :
        /\ named = IF l.name = "" THEN a ELSE Enter(a, l.name)
        /\ put = IF a.pass = 2 THEN Emitted(named, l) ELSE named
        /\ b = [put EXCEPT !.ip = @ + Extent(l)]
  OBVIOUS
<1>9. Read(a, l) = IF l.op = "LABEL" THEN LabStmt(a, l.name) ELSE b
  BY <1>2, <1>4, <1>7, <1>8 DEF Read
<1>10. CASE l.op = "LABEL"
  <2>1. CASE a.pass = 1
    BY <1>1, <1>9, <1>10, <2>1, LabelFine
  <2>2. CASE a.pass = 2
    BY <1>1, <1>9, <1>10, <2>2 DEF LabStmt
  <2> QED BY <1>5, <2>1, <2>2
<1>11. CASE l.op # "LABEL"
  <2>1. AsmFine(named, N)
    BY <1>3, <1>5, <1>6, <1>8, EnterFine DEF TableGood
  <2>2. DOMAIN named = DOMAIN a
    BY <1>5, <1>8 DEF Enter
  <2>3. DOMAIN put = DOMAIN a /\ put.table = named.table /\ put.state = named.state
    <3>1. /\ DOMAIN Emitted(named, l) = DOMAIN named
          /\ \A f \in DOMAIN named : f \notin {"code", "data"} => Emitted(named, l)[f] = named[f]
      BY <1>5, <2>2, EmittedFrame
    <3> QED BY <1>5, <1>8, <2>2, <3>1
  <2>4. b.table = named.table /\ b.state = named.state
    BY <1>5, <1>8, <2>3
  <2> QED BY <1>1, <1>9, <1>11, <2>1, <2>4 DEF AsmFine
<1> QED BY <1>10, <1>11

(* The end of a pass. *)
LEMMA RewindFine ==
  ASSUME NEW a, DOMAIN a = {"table", "pass", "ip", "state", "code", "data"}, NEW N, AsmFine(a, N)
  PROVE  AsmFine(Rewind(a), N)
<1>1. PICK b, c : b = [a EXCEPT !.pass = 2, !.ip = 0] /\ c = [a EXCEPT !.state = "done"]
  OBVIOUS
<1>2. b.table = a.table /\ b.state = a.state /\ c.table = a.table /\ c.state = "done"
  BY <1>1
<1>3. AsmFine(b, N) /\ AsmFine(c, N)
  BY <1>2 DEF AsmFine
<1> QED BY <1>1, <1>3 DEF Rewind

-----------------------------------------------------------------------------
(* None of the situations the generator does not cope with, and programs   *)
(* with no more names than the table has places.                           *)
Unharmed ==
  /\ Admit \cap {"negative", "names", "reload", "spill"} = {}
  /\ \A p \in Programs : Cardinality(Names(p)) <= LABNUM

(* The invariant that is inductive together with that of the labels.       *)
AInv ==
  /\ IInv
  /\ phase = "generate" => Usual(program) /\ Fine(program, gen, at)
  /\ phase = "assemble" /\ program # NoProgram =>
       /\ Usual(program) /\ Neat(gen.text, Names(program))
       /\ AsmFine(asm, Names(program))

(* A program starts with the head of its text. *)
LEMMA InitFine == Unharmed /\ Init => AInv
<1>1. SUFFICES ASSUME Unharmed, Init
               PROVE  AInv
  OBVIOUS
<1>2. IInv /\ at = 1
  BY <1>1, InitGood DEF Init
<1>3. CASE Compile
  <2>1. PICK p \in Programs : /\ Static(p) \subseteq Admit /\ program = p /\ phase = "generate"
                              /\ gen = AsmHead(Fresh, p.tacs)
    BY <1>3 DEF Compile
  <2>2. Static(p) = {}
    <3>1. Static(p) \subseteq {"negative", "names"}
      BY DEF Static
    <3> QED BY <1>1, <2>1, <3>1 DEF Unharmed
  <2>3. Usual(p)
    BY <1>1, <2>2 DEF Usual, Unharmed
  <2>4. Sound(gen, {}) /\ Neat(gen.text, {})
    BY <2>1, AsmHeadNeat
  <2>5. Declared(p, gen.offset, 1)
    BY DEF Declared
  <2>6. Neat(gen.text, LabelsBefore(p, 1))
    BY <2>4, NeatMore
  <2> QED BY <1>2, <2>1, <2>3, <2>4, <2>5, <2>6 DEF AInv, Fine
<1>4. CASE WrittenByHand
  BY <1>2, <1>4 DEF WrittenByHand, AInv
<1> QED BY <1>1, <1>3, <1>4 DEF Init

(* No step breaks it. *)
LEMMA NextFine == Unharmed /\ AInv /\ [Next]_vars => AInv'
<1> SUFFICES ASSUME Unharmed, AInv, [Next]_vars
             PROVE  AInv'
  OBVIOUS
<1>1. IInv /\ IInv'
  BY NextGood DEF AInv
<1>2. CASE Generate
  <2>1. /\ phase = "generate" /\ at \in DOMAIN program.tacs /\ at' = at + 1
        /\ program' = program /\ phase' = phase
    BY <1>2 DEF Generate
  <2>2. PICK rand \in Gen : /\ ~Reloaded(gen, program.tacs[at], rand)
                            /\ ~Spilled(gen, program.tacs[at], rand)
                            /\ gen' = AsmCode(gen, program.tacs[at], rand)
    BY <1>2 DEF Generate, Unharmed
  <2>3. Usual(program) /\ Fine(program, gen, at) /\ Printed(program, gen, at)
    BY <1>1, <2>1 DEF AInv, IInv
  <2>4. Fine(program, gen', at + 1)
    BY <2>1, <2>2, <2>3, FineOn
  <2> QED BY <1>1, <2>1, <2>3, <2>4 DEF AInv
<1>3. CASE FinishText
  <2>1. /\ phase = "generate" /\ at = Len(program.tacs) + 1
        /\ phase' = "assemble" /\ asm' = asm /\ program' = program
    BY <1>3 DEF FinishText
  <2>2. PICK texts \in Orders(program.texts) : gen' = AsmStatic(AsmTail(gen), texts)
    BY <1>3 DEF FinishText
  <2>3. Usual(program) /\ Fine(program, gen, at) /\ asm = Begin
    BY <1>1, <2>1 DEF AInv, IInv
  <2>4. Neat(gen'.text, Names(program))
    BY <2>1, <2>2, <2>3, FinishedNeat
  <2>5. AsmFine(Begin, Names(program))
    BY DEF Begin, AsmFine
  <2> QED BY <1>1, <2>1, <2>3, <2>4, <2>5 DEF AInv
<1>4. CASE ReadLine
  <2>1. /\ phase = "assemble" /\ asm.state = "reading" /\ at \in DOMAIN gen.text
        /\ asm' = Read(asm, gen.text[at])
        /\ phase' = phase /\ gen' = gen /\ program' = program
    BY <1>4 DEF ReadLine
  <2>2. IsText(gen.text) /\ AsmGood(asm, gen.text, at)
    BY <1>1, <2>1 DEF IInv
  <2>3. SUFFICES ASSUME program # NoProgram
                 PROVE  /\ Usual(program) /\ Neat(gen.text, Names(program))
                        /\ AsmFine(asm', Names(program))
    BY <1>1, <2>1 DEF AInv
  <2>4. Usual(program) /\ Neat(gen.text, Names(program)) /\ AsmFine(asm, Names(program))
    BY <2>1, <2>3 DEF AInv
  <2>5. PICK N : N = Names(program)
    OBVIOUS
  <2>6. /\ IsFiniteSet(N) /\ Cardinality(N) \in Nat /\ Cardinality(N) <= LABNUM
        /\ \A name \in N : IsLabel(name)
    BY <2>4, <2>5, UsualNames DEF Usual
  <2>7. AsmFine(asm', N)
    BY <2>1, <2>2, <2>4, <2>5, <2>6, ReadFine
  <2> QED BY <2>4, <2>5, <2>7
<1>5. CASE EndOfText
  <2>1. /\ phase = "assemble" /\ asm' = Rewind(asm)
        /\ phase' = phase /\ gen' = gen /\ program' = program
    BY <1>5 DEF EndOfText
  <2>2. DOMAIN asm = {"table", "pass", "ip", "state", "code", "data"}
    BY <1>1, <2>1 DEF IInv, AsmGood
  <2> QED BY <1>1, <2>1, <2>2, RewindFine DEF AInv
<1>6. CASE LoadImage
  BY <1>1, <1>6 DEF LoadImage, AInv
<1>7. CASE RunCycle
  <2>1. phase = "run" /\ phase' = phase
    BY <1>7 DEF RunCycle
  <2> QED BY <1>1, <2>1 DEF AInv
<1>8. CASE UNCHANGED vars
  BY <1>1, <1>8 DEF vars, AInv
<1>9. CASE Over
  BY <1>8, <1>9 DEF Over
<1> QED BY <1>2, <1>3, <1>4, <1>5, <1>6, <1>7, <1>8, <1>9 DEF Next

(* The invariant says that nothing has been refused. *)
LEMMA FineAccepted == AInv => Accepted
<1>1. SUFFICES ASSUME AInv, program.tacs # <<>>
               PROVE  asm.state # "refused"
  BY DEF Accepted
<1>2. program # NoProgram
  BY <1>1 DEF NoProgram
<1>3. phase # "assemble" => asm = Begin
  BY <1>1 DEF AInv, IInv
<1>4. CASE phase = "assemble"
  BY <1>1, <1>2, <1>4 DEF AInv, AsmFine
<1>5. CASE phase # "assemble"
  BY <1>3, <1>5 DEF Begin
<1> QED BY <1>4, <1>5

(* The assembler refuses nothing that ObjGenerator prints: in every        *)
(* complete program without a negative constant, no function of which is   *)
(* called like a label of the generator's, an instruction or a register (R *)
(* and any number of digits, as asm.l reads them), whichever registers are *)
(* drawn, unless the operands of an operation come into one register or a  *)
(* parameter is reloaded, and the label table has room for the names.      *)
THEOREM EverythingAccepted ==
  ASSUME Admit \cap {"negative", "names", "reload", "spill"} = {},
         \A p \in Programs : Cardinality(Names(p)) <= LABNUM
  PROVE  Spec => []Accepted
<1>1. Unharmed
  BY DEF Unharmed
<1>2. Init => AInv
  BY <1>1, InitFine
<1>3. AInv /\ [Next]_vars => AInv'
  BY <1>1, NextFine
<1>4. Spec => []AInv
  BY <1>2, <1>3, PTL DEF Spec
<1> QED BY <1>4, FineAccepted, PTL
=============================================================================
