--------------------------- MODULE MachineProofs ---------------------------
(***************************************************************************)
(* The code of a comparison, executed cycle by cycle, for words of any     *)
(* size. asm_cmp has no instruction that compares: it subtracts, and the   *)
(* sign of what is left of the difference in a word decides. Two of the    *)
(* instructions compute where to jump from R_IP, over others of their own  *)
(* sequence.                                                               *)
(***************************************************************************)
EXTENDS Machine, TLAPS

-----------------------------------------------------------------------------
(* Words. *)

(* A word's values are as many below zero as from zero on. *)
LEMMA HalfIs == Modulus \in Nat \ {0} /\ Half \in Nat \ {0} /\ Modulus = 2 * Half
<1>1. PICK k \in Nat \ {0} : ByteValues = 2 * k
  <2>1. PICK k : k = ByteValues \div 2
    OBVIOUS
  <2>2. ByteValues = 2 * k /\ k \in Nat \ {0}
    BY <2>1, ByteAssumption
  <2> QED BY <2>2
<1>2. PICK h \in Int : h = k * ByteValues * ByteValues * ByteValues
  BY <1>1
<1>3. Modulus = 2 * h
  BY <1>1, <1>2 DEF Modulus
<1>4. h > 0
  BY <1>1, <1>2
<1>5. Half = h
  BY <1>3, <1>4 DEF Half
<1> QED BY <1>3, <1>4, <1>5

(* Remainders of numbers less than twice the divisor. *)
LEMMA ModSmall ==
  ASSUME NEW M \in Nat \ {0}, NEW n \in Int, 0 <= n, n < M
  PROVE  n % M = n
  OBVIOUS

LEMMA ModAbove ==
  ASSUME NEW M \in Nat \ {0}, NEW n \in Int, M <= n, n < 2 * M
  PROVE  n % M = n - M
  OBVIOUS

LEMMA ModBelow ==
  ASSUME NEW M \in Nat \ {0}, NEW n \in Int, -M <= n, n < 0
  PROVE  n % M = n + M
  OBVIOUS

(* A word has room for an answer. *)
LEMMA HalfIsMore == Half > 1
<1>1. ByteValues \in Int /\ ByteValues >= 2
  BY ByteAssumption
<1>2. PICK s \in Int : s = ByteValues * ByteValues
  BY <1>1
<1>3. s >= 4
  <2>1. s >= 2 * ByteValues
    BY <1>1, <1>2
  <2> QED BY <1>1, <2>1
<1>4. Modulus = (s * ByteValues) * ByteValues
  BY <1>2 DEF Modulus
<1>5. s * ByteValues >= 4
  BY <1>1, <1>3
<1>6. Modulus >= 4
  <2>1. PICK t \in Int : t = s * ByteValues /\ t >= 4
    BY <1>1, <1>3, <1>5
  <2>2. Modulus = t * ByteValues /\ t * ByteValues >= 4
    BY <1>1, <1>4, <2>1
  <2> QED BY <2>2
<1> QED BY <1>6, HalfIs

(* A word is kept as it is. *)
LEMMA WrapsNot ==
  ASSUME NEW n \in Word
  PROVE  n \in Int /\ Wrap(n) = n
<1>1. PICK M, H : M = Modulus /\ H = Half
  OBVIOUS
<1>2. M \in Nat \ {0} /\ H \in Nat \ {0} /\ M = 2 * H
  BY <1>1, HalfIs
<1>3. n \in Int /\ 0 <= n + H /\ n + H < M
  BY <1>1, <1>2 DEF Word
<1>4. (n + H) % M = n + H
  BY <1>2, <1>3, ModSmall
<1> QED BY <1>1, <1>2, <1>3, <1>4 DEF Wrap

(* A difference of words that is no word changes its sign. *)
LEMMA Wrapped ==
  ASSUME NEW v \in Word, NEW w \in Word
  PROVE  /\ v \in Int /\ w \in Int /\ Wrap(v - w) \in Int
         /\ v - w \in Word => Wrap(v - w) = v - w
         /\ v - w \notin Word => IF v < w THEN Wrap(v - w) > 0 ELSE Wrap(v - w) < 0
<1>1. PICK M, H, d : M = Modulus /\ H = Half /\ d = v - w
  OBVIOUS
<1>2. M \in Nat \ {0} /\ H \in Nat \ {0} /\ M = 2 * H
  BY <1>1, HalfIs
<1>3. /\ v \in Int /\ -H <= v /\ v < H
      /\ w \in Int /\ -H <= w /\ w < H
  BY <1>1, <1>2 DEF Word
<1>4. d \in Int /\ -M < d /\ d < M
  BY <1>1, <1>2, <1>3
<1>5. d \in Word <=> -H <= d /\ d < H
  BY <1>1, <1>2, <1>4 DEF Word
<1>6. Wrap(d) = ((d + H) % M) - H
  BY <1>1 DEF Wrap
<1>7. CASE -H <= d /\ d < H
  <2>1. (d + H) % M = d + H
    BY <1>2, <1>4, <1>7, ModSmall
  <2>2. Wrap(d) = d
    BY <1>2, <1>4, <1>6, <2>1
  <2> QED BY <1>1, <1>3, <1>4, <1>5, <1>7, <2>2
<1>8. CASE ~(d < H)
  <2>1. (d + H) % M = d + H - M
    <3>1. PICK n : n = d + H
      OBVIOUS
    <3>2. n \in Int /\ M <= n /\ n < 2 * M
      BY <1>2, <1>4, <1>8, <3>1
    <3>3. n % M = n - M
      BY <1>2, <3>2, ModAbove
    <3> QED BY <1>2, <1>4, <3>1, <3>3
  <2>2. Wrap(d) = d - M
    BY <1>2, <1>4, <1>6, <2>1
  <2>3. ~(v < w)
    BY <1>1, <1>2, <1>3, <1>8
  <2> QED BY <1>1, <1>2, <1>3, <1>4, <1>5, <1>8, <2>2, <2>3
<1>9. CASE ~(-H <= d)
  <2>1. (d + H) % M = d + H + M
    BY <1>2, <1>4, <1>9, ModBelow
  <2>2. Wrap(d) = d + M
    BY <1>2, <1>4, <1>6, <2>1
  <2>3. v < w
    BY <1>1, <1>2, <1>3, <1>9
  <2> QED BY <1>1, <1>2, <1>3, <1>4, <1>5, <1>9, <2>2, <2>3
<1> QED BY <1>7, <1>8, <1>9

(* What the sign of d makes the code answer. *)
FlagFor == [JEZ_1 |-> FLAG_EZ, JLZ_1 |-> FLAG_LZ, JGZ_1 |-> FLAG_GZ]
Answered(op, d) ==
  IF FlagOf(d) = FlagFor[Jump[op]] THEN WhenTaken[op] ELSE 1 - WhenTaken[op]

(* Whether a difference is to be trusted: for equality, always. *)
Decides(op, v, w) == op \in {"EQ", "NE"} \/ v - w \in Word

LEMMA AnsweredMeans ==
  ASSUME NEW op \in Relations, NEW d \in Int
  PROVE  Answered(op, d) = IF Related(op, d, 0) THEN 1 ELSE 0
<1>1. op \in {"EQ", "NE", "LT", "LE", "GT", "GE"}
  BY DEF Relations
<1>2. /\ FlagOf(d) = FLAG_EZ <=> d = 0
      /\ FlagOf(d) = FLAG_LZ <=> d < 0
      /\ FlagOf(d) = FLAG_GZ <=> d > 0
  BY DEF FlagOf, FLAG_EZ, FLAG_LZ, FLAG_GZ
<1>3. CASE op = "EQ"
  BY <1>2, <1>3 DEF Answered, FlagFor, Jump, WhenTaken, Related
<1>4. CASE op = "NE"
  BY <1>2, <1>4 DEF Answered, FlagFor, Jump, WhenTaken, Related
<1>5. CASE op = "LT"
  BY <1>2, <1>5 DEF Answered, FlagFor, Jump, WhenTaken, Related
<1>6. CASE op = "LE"
  BY <1>2, <1>6 DEF Answered, FlagFor, Jump, WhenTaken, Related
<1>7. CASE op = "GT"
  BY <1>2, <1>7 DEF Answered, FlagFor, Jump, WhenTaken, Related
<1>8. CASE op = "GE"
  BY <1>2, <1>8 DEF Answered, FlagFor, Jump, WhenTaken, Related
<1> QED BY <1>1, <1>3, <1>4, <1>5, <1>6, <1>7, <1>8

(* A number with the sign of a difference, and one with the other sign. *)
LEMMA SignIs ==
  ASSUME NEW op \in Relations, NEW v \in Int, NEW w \in Int, NEW e \in Int,
         e = 0 <=> v = w, e < 0 <=> v < w
  PROVE  Related(op, e, 0) <=> Related(op, v, w)
<1>1. CASE op = "EQ"
  BY <1>1 DEF Related
<1>2. CASE op = "NE"
  BY <1>2 DEF Related
<1>3. CASE op = "LT"
  BY <1>3 DEF Related
<1>4. CASE op = "LE"
  BY <1>4 DEF Related
<1>5. CASE op = "GT"
  BY <1>5 DEF Related
<1>6. CASE op = "GE"
  BY <1>6 DEF Related
<1> QED BY <1>1, <1>2, <1>3, <1>4, <1>5, <1>6 DEF Relations

LEMMA SignIsNot ==
  ASSUME NEW op \in Relations, NEW v \in Int, NEW w \in Int, NEW e \in Int,
         e # 0, v # w, e < 0 <=> ~(v < w)
  PROVE  Related(op, e, 0) <=> IF op \in {"EQ", "NE"} THEN Related(op, v, w) ELSE ~Related(op, v, w)
<1>1. CASE op = "EQ"
  BY <1>1 DEF Related
<1>2. CASE op = "NE"
  BY <1>2 DEF Related
<1>3. CASE op = "LT"
  BY <1>3 DEF Related
<1>4. CASE op = "LE"
  BY <1>4 DEF Related
<1>5. CASE op = "GT"
  BY <1>5 DEF Related
<1>6. CASE op = "GE"
  BY <1>6 DEF Related
<1> QED BY <1>1, <1>2, <1>3, <1>4, <1>5, <1>6 DEF Relations

(* The wrapped difference has the relation exactly if it decides. *)
LEMMA SignDecides ==
  ASSUME NEW op \in Relations, NEW v \in Word, NEW w \in Word
  PROVE  Related(op, Wrap(v - w), 0) <=> (Related(op, v, w) <=> Decides(op, v, w))
<1>1. PICK d, e : d = v - w /\ e = Wrap(v - w)
  OBVIOUS
<1>2. /\ v \in Int /\ w \in Int /\ e \in Int /\ d \in Int
      /\ d \in Word => e = d
      /\ d \notin Word => IF v < w THEN e > 0 ELSE e < 0
  BY <1>1, Wrapped
<1>3. d \notin Word => v # w
  <2>1. 0 \in Word
    BY HalfIs DEF Word
  <2> QED BY <1>1, <1>2, <2>1
<1>4. op \in {"EQ", "NE", "LT", "LE", "GT", "GE"}
  BY DEF Relations
<1>5. CASE d \in Word
  <2>1. e = v - w
    BY <1>1, <1>2, <1>5
  <2>2. Decides(op, v, w)
    BY <1>1, <1>5 DEF Decides
  <2>3. Related(op, e, 0) <=> Related(op, v, w)
    <3>1. /\ e = 0 <=> v = w
          /\ e < 0 <=> v < w
          /\ e > 0 <=> v > w
      BY <1>2, <2>1
    <3> QED BY <1>2, <1>4, <3>1, SignIs
  <2> QED BY <1>1, <2>2, <2>3
<1>6. CASE d \notin Word
  <2>1. e # 0 /\ v # w /\ (e < 0 <=> ~(v < w))
    BY <1>2, <1>3, <1>6
  <2>2. Related(op, e, 0) <=> IF op \in {"EQ", "NE"} THEN Related(op, v, w) ELSE ~Related(op, v, w)
    BY <1>2, <1>4, <2>1, SignIsNot
  <2>3. Decides(op, v, w) <=> op \in {"EQ", "NE"}
    BY <1>1, <1>6 DEF Decides
  <2> QED BY <1>1, <2>2, <2>3
<1> QED BY <1>5, <1>6

-----------------------------------------------------------------------------
(* Cycles. *)
Registers16 == 0 .. R_NUM - 1

Running(c) ==
  /\ DOMAIN c = {"reg", "code", "mem", "input", "out", "state"}
  /\ c.state = "running"
  /\ c.reg \in [Registers16 -> Int]

(* The machine goes from c to d: register q has become w, R_IP ip, and     *)
(* nothing else has changed.                                               *)
Becomes(c, d, q, w, ip) ==
  /\ Running(d)
  /\ d.code = c.code /\ d.mem = c.mem /\ d.input = c.input /\ d.out = c.out
  /\ d.reg[q] = w /\ d.reg[R_IP] = ip
  /\ \A p \in Registers16 \ {q, R_IP} : d.reg[p] = c.reg[p]

(* An instruction that sets a register. *)
LEMMA SetCycle ==
  ASSUME NEW c, Running(c), NEW i, c.reg[R_IP] \in DOMAIN c.code, c.code[c.reg[R_IP]] = i,
         ~Taken(c, i.op), NEW q \in Registers16 \ {R_IP}, NEW w \in Int, Execute(c, i) = Set(c, q, w)
  PROVE  Becomes(c, Cycle(c), q, w, c.reg[R_IP] + 8)
<1>1. PICK d, e : d = [c EXCEPT !.reg[q] = w] /\ e = [d EXCEPT !.reg[R_IP] = d.reg[R_IP] + 8]
  OBVIOUS
<1>2. R_IP \in Registers16
  BY DEF R_IP, Registers16, R_NUM
<1>3. /\ DOMAIN d = DOMAIN c /\ d.state = "running"
      /\ d.code = c.code /\ d.mem = c.mem /\ d.input = c.input /\ d.out = c.out
      /\ d.reg = [c.reg EXCEPT ![q] = w]
  BY <1>1 DEF Running
<1>4. d.reg \in [Registers16 -> Int] /\ d.reg[R_IP] = c.reg[R_IP] /\ d.reg[q] = w
      /\ \A p \in Registers16 \ {q} : d.reg[p] = c.reg[p]
  BY <1>2, <1>3 DEF Running
<1>5. /\ DOMAIN e = DOMAIN c /\ e.state = "running"
      /\ e.code = c.code /\ e.mem = c.mem /\ e.input = c.input /\ e.out = c.out
      /\ e.reg = [d.reg EXCEPT ![R_IP] = c.reg[R_IP] + 8]
  BY <1>1, <1>3, <1>4 DEF Running
<1>6. /\ e.reg \in [Registers16 -> Int] /\ e.reg[R_IP] = c.reg[R_IP] + 8 /\ e.reg[q] = w
      /\ \A p \in Registers16 \ {q, R_IP} : e.reg[p] = c.reg[p]
  <2>1. c.reg[R_IP] + 8 \in Int
    BY <1>2 DEF Running
  <2> QED BY <1>2, <1>4, <1>5, <2>1
<1>7. Becomes(c, e, q, w, c.reg[R_IP] + 8)
  BY <1>5, <1>6 DEF Becomes, Running
<1>8. Cycle(c) = e
  <2>1. DOMAIN c.code # {}
    OBVIOUS
  <2>2. Execute(c, i) = d
    BY <1>1 DEF Set
  <2> QED BY <1>1, <1>3, <2>1, <2>2 DEF Cycle, Set
<1> QED BY <1>7, <1>8

(* A jump through a register, when it is taken and when it is not. *)
LEMMA JumpCycle ==
  ASSUME NEW c, Running(c), NEW i, c.reg[R_IP] \in DOMAIN c.code, c.code[c.reg[R_IP]] = i,
         i.op \in {"JMP_1", "JEZ_1", "JLZ_1", "JGZ_1"}, i.rx \in Registers16, Taken(c, i.op)
  PROVE  Becomes(c, Cycle(c), R_FLAG, c.reg[R_FLAG], c.reg[i.rx])
<1>1. PICK d : d = [c EXCEPT !.reg[R_IP] = c.reg[i.rx]]
  OBVIOUS
<1>2. R_IP \in Registers16 /\ R_FLAG \in Registers16 /\ R_FLAG # R_IP
  BY DEF R_IP, R_FLAG, Registers16, R_NUM
<1>3. /\ DOMAIN d = DOMAIN c /\ d.state = "running"
      /\ d.code = c.code /\ d.mem = c.mem /\ d.input = c.input /\ d.out = c.out
      /\ d.reg = [c.reg EXCEPT ![R_IP] = c.reg[i.rx]]
  BY <1>1 DEF Running
<1>4. /\ d.reg \in [Registers16 -> Int] /\ d.reg[R_IP] = c.reg[i.rx] /\ d.reg[R_FLAG] = c.reg[R_FLAG]
      /\ \A p \in Registers16 \ {R_IP} : d.reg[p] = c.reg[p]
  BY <1>2, <1>3 DEF Running
<1>5. Becomes(c, d, R_FLAG, c.reg[R_FLAG], c.reg[i.rx])
  BY <1>3, <1>4 DEF Becomes, Running
<1>6. Cycle(c) = d
  <2>1. DOMAIN c.code # {}
    OBVIOUS
  <2> QED BY <1>1, <2>1 DEF Cycle, Set
<1> QED BY <1>5, <1>6

LEMMA PassCycle ==
  ASSUME NEW c, Running(c), NEW i, c.reg[R_IP] \in DOMAIN c.code, c.code[c.reg[R_IP]] = i,
         i.op \in {"JEZ_1", "JLZ_1", "JGZ_1"}, ~Taken(c, i.op)
  PROVE  Becomes(c, Cycle(c), R_FLAG, c.reg[R_FLAG], c.reg[R_IP] + 8)
<1>1. PICK d : d = [c EXCEPT !.reg[R_IP] = c.reg[R_IP] + 8]
  OBVIOUS
<1>2. R_IP \in Registers16 /\ R_FLAG \in Registers16 /\ R_FLAG # R_IP
  BY DEF R_IP, R_FLAG, Registers16, R_NUM
<1>3. /\ DOMAIN d = DOMAIN c /\ d.state = "running"
      /\ d.code = c.code /\ d.mem = c.mem /\ d.input = c.input /\ d.out = c.out
      /\ d.reg = [c.reg EXCEPT ![R_IP] = c.reg[R_IP] + 8]
  BY <1>1 DEF Running
<1>4. /\ d.reg \in [Registers16 -> Int] /\ d.reg[R_IP] = c.reg[R_IP] + 8
      /\ d.reg[R_FLAG] = c.reg[R_FLAG]
      /\ \A p \in Registers16 \ {R_IP} : d.reg[p] = c.reg[p]
  <2>1. c.reg[R_IP] + 8 \in Int
    BY <1>2 DEF Running
  <2> QED BY <1>2, <1>3, <2>1 DEF Running
<1>5. Becomes(c, d, R_FLAG, c.reg[R_FLAG], c.reg[R_IP] + 8)
  BY <1>3, <1>4 DEF Becomes, Running
<1>6. Cycle(c) = d
  <2>1. DOMAIN c.code # {}
    OBVIOUS
  <2>2. Execute(c, i) = c
    BY DEF Execute
  <2> QED BY <1>1, <2>1, <2>2 DEF Cycle, Set, Running
<1> QED BY <1>5, <1>6

-----------------------------------------------------------------------------
(* The lines of a comparison. *)

(* Instruction i is the one the machine is about to execute. *)
Next(c, i) == Running(c) /\ c.reg[R_IP] \in DOMAIN c.code /\ c.code[c.reg[R_IP]] = i

(* The difference goes to the register of the first operand. *)
LEMMA SubtractLine ==
  ASSUME NEW c, NEW r \in Gen, NEW v \in Word, NEW w \in Word, c.reg[r] = v,
         NEW i, Next(c, i),
         \/ i = Line("SUB_0", r, 0, w)
         \/ \E q \in Registers16 : i = Line("SUB_1", r, q, 0) /\ c.reg[q] = w
  PROVE  Becomes(c, Cycle(c), r, Wrap(v - w), c.reg[R_IP] + 8)
<1>1. r \in Registers16 \ {R_IP}
  BY DEF Gen, Registers16, R_IP, R_GEN, R_NUM
<1>2. Wrap(v - w) \in Int
  BY Wrapped
<1>3. Exact("SUB", v, w) = v - w
  BY DEF Exact
<1>4. Execute(c, i) = Set(c, r, Wrap(v - w)) /\ ~Taken(c, i.op)
  <2>1. CASE i = Line("SUB_0", r, 0, w)
    <3>1. i.op = "SUB_0" /\ i.rx = r /\ i.n = w
      BY <2>1 DEF Line
    <3>2. Operation["SUB_0"] = "SUB"
      BY DEF Operation
    <3>3. Execute(c, i) = Operate(c, "SUB", r, w)
      BY <3>1, <3>2 DEF Execute
    <3>4. ~Taken(c, i.op)
      BY <3>1 DEF Taken
    <3> QED BY <1>3, <3>3, <3>4 DEF Operate
  <2>2. CASE \E q \in Registers16 : i = Line("SUB_1", r, q, 0) /\ c.reg[q] = w
    <3>0. PICK q \in Registers16 : i = Line("SUB_1", r, q, 0) /\ c.reg[q] = w
      BY <2>2
    <3>1. i.op = "SUB_1" /\ i.rx = r /\ i.ry = q
      BY <3>0 DEF Line
    <3>2. Operation["SUB_1"] = "SUB"
      BY DEF Operation
    <3>3. Execute(c, i) = Operate(c, "SUB", r, w)
      BY <3>0, <3>1, <3>2 DEF Execute
    <3>4. ~Taken(c, i.op)
      BY <3>1 DEF Taken
    <3> QED BY <1>3, <3>3, <3>4 DEF Operate
  <2> QED BY <2>1, <2>2
<1> QED BY <1>1, <1>2, <1>4, SetCycle DEF Next

(* The flag is that of the register tested. *)
LEMMA TestLine ==
  ASSUME NEW c, NEW r \in Gen, Next(c, Line("TST_0", r, 0, 0))
  PROVE  Becomes(c, Cycle(c), R_FLAG, FlagOf(c.reg[r]), c.reg[R_IP] + 8)
<1> DEFINE i == Line("TST_0", r, 0, 0)
<1>1. R_FLAG \in Registers16 \ {R_IP}
  BY DEF R_FLAG, R_IP, Registers16, R_NUM
<1>2. FlagOf(c.reg[r]) \in Int
  BY DEF FlagOf, FLAG_EZ, FLAG_LZ, FLAG_GZ
<1>3. i.op = "TST_0" /\ i.rx = r
  BY DEF Line
<1>4. Execute(c, i) = Set(c, R_FLAG, FlagOf(c.reg[r])) /\ ~Taken(c, i.op)
  BY <1>3 DEF Execute, Taken
<1> QED BY <1>1, <1>2, <1>4, SetCycle DEF Next

(* An address in reach of R_IP. *)
LEMMA TargetLine ==
  ASSUME NEW c, NEW n \in Int, Next(c, Line("LOD_2", R_JP, R_IP, n)), c.reg[R_IP] + n \in Word
  PROVE  Becomes(c, Cycle(c), R_JP, c.reg[R_IP] + n, c.reg[R_IP] + 8)
<1> DEFINE i == Line("LOD_2", R_JP, R_IP, n)
<1>1. R_JP \in Registers16 \ {R_IP}
  BY DEF R_JP, R_IP, Registers16, R_NUM
<1>2. c.reg[R_IP] + n \in Int /\ Wrap(c.reg[R_IP] + n) = c.reg[R_IP] + n
  BY WrapsNot
<1>3. i.op = "LOD_2" /\ i.rx = R_JP /\ i.ry = R_IP /\ i.n = n
  BY DEF Line
<1>4. Execute(c, i) = Set(c, R_JP, c.reg[R_IP] + n) /\ ~Taken(c, i.op)
  BY <1>2, <1>3 DEF Execute, Taken
<1> QED BY <1>1, <1>2, <1>4, SetCycle DEF Next

(* An answer. *)
LEMMA AnswerLine ==
  ASSUME NEW c, NEW r \in Gen, NEW n \in {0, 1}, Next(c, Line("LOD_0", r, 0, n))
  PROVE  Becomes(c, Cycle(c), r, n, c.reg[R_IP] + 8)
<1> DEFINE i == Line("LOD_0", r, 0, n)
<1>1. r \in Registers16 \ {R_IP}
  BY DEF Gen, Registers16, R_IP, R_GEN, R_NUM
<1>2. n \in Int /\ Wrap(n) = n
  <2>1. n \in Word
    BY HalfIs, HalfIsMore DEF Word
  <2> QED BY <2>1, WrapsNot
<1>3. i.op = "LOD_0" /\ i.rx = r /\ i.n = n
  BY DEF Line
<1>4. Execute(c, i) = Set(c, r, n) /\ ~Taken(c, i.op)
  BY <1>2, <1>3 DEF Execute, Taken
<1> QED BY <1>1, <1>2, <1>4, SetCycle DEF Next

(* The jumps. *)
LEMMA TakenLine ==
  ASSUME NEW c, NEW op \in {"JMP_1", "JEZ_1", "JLZ_1", "JGZ_1"}, Next(c, Line(op, R_JP, 0, 0)),
         op # "JMP_1" => c.reg[R_FLAG] = FlagFor[op]
  PROVE  Becomes(c, Cycle(c), R_FLAG, c.reg[R_FLAG], c.reg[R_JP])
<1> DEFINE i == Line(op, R_JP, 0, 0)
<1>1. R_JP \in Registers16
  BY DEF R_JP, Registers16, R_NUM
<1>2. i.op = op /\ i.rx = R_JP
  BY DEF Line
<1>3. Taken(c, i.op)
  BY <1>2 DEF Taken, FlagFor
<1> QED BY <1>1, <1>2, <1>3, JumpCycle DEF Next

LEMMA PassedLine ==
  ASSUME NEW c, NEW op \in {"JEZ_1", "JLZ_1", "JGZ_1"}, Next(c, Line(op, R_JP, 0, 0)),
         c.reg[R_FLAG] # FlagFor[op]
  PROVE  Becomes(c, Cycle(c), R_FLAG, c.reg[R_FLAG], c.reg[R_IP] + 8)
<1> DEFINE i == Line(op, R_JP, 0, 0)
<1>1. i.op = op
  BY DEF Line
<1>2. ~Taken(c, i.op)
  BY <1>1 DEF Taken, FlagFor
<1> QED BY <1>1, <1>2, PassCycle DEF Next

-----------------------------------------------------------------------------
(* The lines one after the other. *)

(* The lines stand at x and behind. *)
StandsAt(c, x, lines) ==
  \A k \in DOMAIN lines : x + 8 * (k - 1) \in DOMAIN c.code /\ c.code[x + 8 * (k - 1)] = lines[k]

(* From c on, only the registers of S have changed. *)
Keeps(c, d, S) ==
  /\ Running(d)
  /\ d.code = c.code /\ d.mem = c.mem /\ d.input = c.input /\ d.out = c.out
  /\ \A p \in Registers16 \ S : d.reg[p] = c.reg[p]

(* The registers a comparison in register r uses. *)
Used(r) == {r, R_FLAG, R_IP, R_JP}

LEMMA KeepsAlso ==
  ASSUME NEW S, NEW c, NEW d, NEW e, Keeps(c, d, S), NEW q \in S, R_IP \in S,
         NEW w, NEW x, Becomes(d, e, q, w, x)
  PROVE  Keeps(c, e, S)
BY DEF Keeps, Becomes

Cycle2(c) == Cycle(Cycle(c))
Cycle4(c) == Cycle2(Cycle2(c))
Cycle6(c) == Cycle2(Cycle4(c))

(* The seven lines behind the subtraction: four of them are executed when  *)
(* the jump is taken, six when it is not, and both ways meet behind them.  *)
LEMMA AnswerRuns ==
  ASSUME NEW c, Running(c), NEW x \in Nat, c.reg[R_IP] = x, x + 56 \in Word,
         NEW r \in Gen, NEW op \in Relations, NEW d \in Int, c.reg[r] = d,
         StandsAt(c, x, Answer(Jump[op], r, WhenTaken[op]))
  PROVE  \E e \in {Cycle4(c), Cycle6(c)} :
            /\ Keeps(c, e, Used(r))
            /\ e.reg[R_IP] = x + 56
            /\ e.reg[r] = Answered(op, d)
<1> DEFINE jump == Jump[op]
           taken == WhenTaken[op]
           lines == Answer(jump, r, taken)
           S == Used(r)
           c1 == Cycle(c)
           c2 == Cycle(c1)
           c3 == Cycle(c2)
           c4 == Cycle(c3)
           c5 == Cycle(c4)
           c6 == Cycle(c5)
<1>1. jump \in {"JEZ_1", "JLZ_1", "JGZ_1"} /\ taken \in {0, 1} /\ 1 - taken \in {0, 1}
  <2>1. op \in {"EQ", "NE", "LT", "LE", "GT", "GE"}
    BY DEF Relations
  <2> QED BY <2>1 DEF Jump, WhenTaken
<1>2. /\ R_IP \in S /\ R_FLAG \in S /\ R_JP \in S /\ r \in S
      /\ R_IP \in Registers16 /\ R_FLAG \in Registers16 /\ R_JP \in Registers16 /\ r \in Registers16
      /\ R_IP # R_FLAG /\ R_IP # R_JP /\ R_FLAG # R_JP
      /\ r # R_IP /\ r # R_FLAG /\ r # R_JP
  BY DEF Used, R_IP, R_FLAG, R_JP, Registers16, R_NUM, Gen, R_GEN
<1>3. /\ x \in DOMAIN c.code /\ c.code[x] = Line("TST_0", r, 0, 0)
      /\ x + 8 \in DOMAIN c.code /\ c.code[x + 8] = Line("LOD_2", R_JP, R_IP, 40)
      /\ x + 16 \in DOMAIN c.code /\ c.code[x + 16] = Line(jump, R_JP, 0, 0)
      /\ x + 24 \in DOMAIN c.code /\ c.code[x + 24] = Line("LOD_0", r, 0, 1 - taken)
      /\ x + 32 \in DOMAIN c.code /\ c.code[x + 32] = Line("LOD_2", R_JP, R_IP, 24)
      /\ x + 40 \in DOMAIN c.code /\ c.code[x + 40] = Line("JMP_1", R_JP, 0, 0)
      /\ x + 48 \in DOMAIN c.code /\ c.code[x + 48] = Line("LOD_0", r, 0, taken)
  <2>1. DOMAIN lines = 1 .. 7
    BY DEF Answer
  <2>2. \A k \in 1 .. 7 : x + 8 * (k - 1) \in DOMAIN c.code /\ c.code[x + 8 * (k - 1)] = lines[k]
    BY <2>1 DEF StandsAt
  <2>3. /\ lines[1] = Line("TST_0", r, 0, 0)
        /\ lines[2] = Line("LOD_2", R_JP, R_IP, 40)
        /\ lines[3] = Line(jump, R_JP, 0, 0)
        /\ lines[4] = Line("LOD_0", r, 0, 1 - taken)
        /\ lines[5] = Line("LOD_2", R_JP, R_IP, 24)
        /\ lines[6] = Line("JMP_1", R_JP, 0, 0)
        /\ lines[7] = Line("LOD_0", r, 0, taken)
    BY DEF Answer
  <2> HIDE DEF lines
  <2>4. /\ x + 8 * (1 - 1) = x /\ x + 8 * (2 - 1) = x + 8 /\ x + 8 * (3 - 1) = x + 16
        /\ x + 8 * (4 - 1) = x + 24 /\ x + 8 * (5 - 1) = x + 32 /\ x + 8 * (6 - 1) = x + 40
        /\ x + 8 * (7 - 1) = x + 48
    OBVIOUS
  <2>5. 1 \in 1 .. 7 /\ 2 \in 1 .. 7 /\ 3 \in 1 .. 7 /\ 4 \in 1 .. 7 /\ 5 \in 1 .. 7
        /\ 6 \in 1 .. 7 /\ 7 \in 1 .. 7
    OBVIOUS
  <2>6. x \in DOMAIN c.code /\ c.code[x] = lines[1]
    BY <2>2, <2>4, <2>5
  <2>7. x + 8 \in DOMAIN c.code /\ c.code[x + 8] = lines[2]
    BY <2>2, <2>4, <2>5
  <2>8. x + 16 \in DOMAIN c.code /\ c.code[x + 16] = lines[3]
    BY <2>2, <2>4, <2>5
  <2>9. x + 24 \in DOMAIN c.code /\ c.code[x + 24] = lines[4]
    BY <2>2, <2>4, <2>5
  <2>10. x + 32 \in DOMAIN c.code /\ c.code[x + 32] = lines[5]
    BY <2>2, <2>4, <2>5
  <2>11. x + 40 \in DOMAIN c.code /\ c.code[x + 40] = lines[6]
    BY <2>2, <2>4, <2>5
  <2>12. x + 48 \in DOMAIN c.code /\ c.code[x + 48] = lines[7]
    BY <2>2, <2>4, <2>5
  <2> QED BY <2>3, <2>6, <2>7, <2>8, <2>9, <2>10, <2>11, <2>12
<1>4. x + 48 \in Word /\ x + 56 \in Word
  BY HalfIs DEF Word
<1>5. Keeps(c, c, S)
  BY DEF Keeps
<1>6. Becomes(c, c1, R_FLAG, FlagOf(d), x + 8) /\ Keeps(c, c1, S)
  <2>1. Next(c, Line("TST_0", r, 0, 0))
    BY <1>3 DEF Next
  <2>2. Becomes(c, c1, R_FLAG, FlagOf(d), x + 8)
    BY <2>1, TestLine
  <2> QED BY <1>2, <1>5, <2>2, KeepsAlso
<1>7. Becomes(c1, c2, R_JP, x + 48, x + 16) /\ Keeps(c, c2, S)
  <2>1. c1.reg[R_IP] = x + 8 /\ Next(c1, Line("LOD_2", R_JP, R_IP, 40))
    BY <1>3, <1>6 DEF Next, Becomes
  <2>2. (x + 8) + 40 = x + 48 /\ (x + 8) + 8 = x + 16
    OBVIOUS
  <2>3. Becomes(c1, c2, R_JP, x + 48, x + 16)
    BY <1>4, <2>1, <2>2, TargetLine
  <2> QED BY <1>2, <1>6, <2>3, KeepsAlso
<1>8. c2.reg[R_FLAG] = FlagOf(d) /\ c2.reg[R_JP] = x + 48 /\ Next(c2, Line(jump, R_JP, 0, 0))
  BY <1>2, <1>3, <1>6, <1>7 DEF Next, Becomes
<1>9. CASE FlagOf(d) = FlagFor[jump]
  <2>1. Becomes(c2, c3, R_FLAG, FlagOf(d), x + 48) /\ Keeps(c, c3, S)
    <3>1. Becomes(c2, c3, R_FLAG, FlagOf(d), x + 48)
      BY <1>1, <1>8, <1>9, TakenLine
    <3> QED BY <1>2, <1>7, <3>1, KeepsAlso
  <2>2. Becomes(c3, c4, r, taken, x + 56) /\ Keeps(c, c4, S)
    <3>1. c3.reg[R_IP] = x + 48 /\ Next(c3, Line("LOD_0", r, 0, taken))
      BY <1>3, <2>1 DEF Next, Becomes, Keeps
    <3>2. (x + 48) + 8 = x + 56
      OBVIOUS
    <3>3. Becomes(c3, c4, r, taken, x + 56)
      BY <1>1, <3>1, <3>2, AnswerLine
    <3> QED BY <1>2, <2>1, <3>3, KeepsAlso
  <2>3. c4 = Cycle4(c)
    BY DEF Cycle4, Cycle2
  <2>4. c4.reg[R_IP] = x + 56 /\ c4.reg[r] = Answered(op, d)
    BY <1>9, <2>2 DEF Becomes, Answered
  <2> QED BY <2>2, <2>3, <2>4
<1>10. CASE FlagOf(d) # FlagFor[jump]
  <2>1. Becomes(c2, c3, R_FLAG, FlagOf(d), x + 24) /\ Keeps(c, c3, S)
    <3>1. c2.reg[R_IP] = x + 16 /\ (x + 16) + 8 = x + 24
      BY <1>7 DEF Becomes
    <3>2. Becomes(c2, c3, R_FLAG, FlagOf(d), x + 24)
      BY <1>1, <1>8, <1>10, <3>1, PassedLine
    <3> QED BY <1>2, <1>7, <3>2, KeepsAlso
  <2>2. Becomes(c3, c4, r, 1 - taken, x + 32) /\ Keeps(c, c4, S)
    <3>1. c3.reg[R_IP] = x + 24 /\ Next(c3, Line("LOD_0", r, 0, 1 - taken))
      BY <1>3, <2>1 DEF Next, Becomes, Keeps
    <3>2. (x + 24) + 8 = x + 32
      OBVIOUS
    <3>3. Becomes(c3, c4, r, 1 - taken, x + 32)
      BY <1>1, <3>1, <3>2, AnswerLine
    <3> QED BY <1>2, <2>1, <3>3, KeepsAlso
  <2>3. Becomes(c4, c5, R_JP, x + 56, x + 40) /\ Keeps(c, c5, S)
    <3>1. c4.reg[R_IP] = x + 32 /\ Next(c4, Line("LOD_2", R_JP, R_IP, 24))
      BY <1>3, <2>2 DEF Next, Becomes, Keeps
    <3>2. (x + 32) + 24 = x + 56 /\ (x + 32) + 8 = x + 40
      OBVIOUS
    <3>3. Becomes(c4, c5, R_JP, x + 56, x + 40)
      BY <1>4, <3>1, <3>2, TargetLine
    <3> QED BY <1>2, <2>2, <3>3, KeepsAlso
  <2>4. Becomes(c5, c6, R_FLAG, c5.reg[R_FLAG], x + 56) /\ Keeps(c, c6, S)
    <3>1. c5.reg[R_JP] = x + 56 /\ Next(c5, Line("JMP_1", R_JP, 0, 0))
      BY <1>3, <2>3 DEF Next, Becomes, Keeps
    <3>2. Becomes(c5, c6, R_FLAG, c5.reg[R_FLAG], x + 56)
      BY <3>1, TakenLine
    <3> QED BY <1>2, <2>3, <3>2, KeepsAlso
  <2>5. c6 = Cycle6(c)
    BY DEF Cycle6, Cycle4, Cycle2
  <2>6. c6.reg[R_IP] = x + 56
    BY <2>4 DEF Becomes
  <2>7. c6.reg[r] = 1 - taken
    <3>1. c4.reg[r] = 1 - taken
      BY <2>2 DEF Becomes
    <3>2. c5.reg[r] = c4.reg[r]
      BY <1>2, <2>3 DEF Becomes
    <3>3. c6.reg[r] = c5.reg[r]
      BY <1>2, <2>4 DEF Becomes
    <3> QED BY <3>1, <3>2, <3>3
  <2>8. c6.reg[r] = Answered(op, d)
    BY <1>10, <2>7 DEF Answered
  <2> QED BY <2>4, <2>5, <2>6, <2>8
<1> QED BY <1>9, <1>10

(* asm_cmp's code answers in the register of its first operand whether the *)
(* operands are related, and goes on behind its own lines, whatever the    *)
(* words, the relation and the registers are, provided the difference is a *)
(* word; for equality and inequality in every case. Where the difference   *)
(* is none, the answer of the other four relations is wrong. Nothing but   *)
(* that register, the flag, R_JP and R_IP changes.                         *)
THEOREM ComparisonAnswers ==
  ASSUME NEW c, Running(c), NEW x \in Nat, c.reg[R_IP] = x, x + 64 \in Word,
         NEW r \in Gen, NEW op \in Relations,
         NEW v \in Word, c.reg[r] = v, NEW w \in Word,
         NEW i, \/ i = Line("SUB_0", r, 0, w)
                \/ \E q \in Registers16 : i = Line("SUB_1", r, q, 0) /\ c.reg[q] = w,
         StandsAt(c, x, <<i>>), StandsAt(c, x + 8, Answer(Jump[op], r, WhenTaken[op]))
  PROVE  \E e \in {Cycle4(Cycle(c)), Cycle6(Cycle(c))} :
            /\ Keeps(c, e, Used(r))
            /\ e.reg[R_IP] = x + 64
            /\ e.reg[r] = IF Related(op, v, w) <=> Decides(op, v, w) THEN 1 ELSE 0
<1> DEFINE b == Cycle(c)
           d == Wrap(v - w)
<1>1. Next(c, i)
  <2>1. x + 8 * (1 - 1) = x /\ 1 \in DOMAIN <<i>> /\ <<i>>[1] = i
    OBVIOUS
  <2>2. x \in DOMAIN c.code /\ c.code[x] = i
    BY <2>1 DEF StandsAt
  <2> QED BY <2>2 DEF Next
<1>2. Becomes(c, b, r, d, x + 8)
  BY <1>1, SubtractLine
<1>3. /\ Running(b) /\ b.reg[R_IP] = x + 8 /\ b.reg[r] = d
      /\ StandsAt(b, x + 8, Answer(Jump[op], r, WhenTaken[op]))
  BY <1>2 DEF Becomes, StandsAt
<1>4. d \in Int
  BY Wrapped
<1>5. x + 8 \in Nat /\ (x + 8) + 56 = x + 64
  OBVIOUS
<1>6. PICK e \in {Cycle4(b), Cycle6(b)} :
        Keeps(b, e, Used(r)) /\ e.reg[R_IP] = (x + 8) + 56 /\ e.reg[r] = Answered(op, d)
  <2> HIDE DEF b, d
  <2>1. (x + 8) + 56 \in Word
    BY <1>5
  <2> QED BY <1>3, <1>4, <1>5, <2>1, AnswerRuns
<1>7. Keeps(c, e, Used(r))
  BY <1>2, <1>6 DEF Keeps, Becomes, Used
<1>8. e.reg[r] = IF Related(op, v, w) <=> Decides(op, v, w) THEN 1 ELSE 0
  <2>1. Answered(op, d) = IF Related(op, d, 0) THEN 1 ELSE 0
    BY <1>4, AnsweredMeans
  <2>2. Related(op, d, 0) <=> (Related(op, v, w) <=> Decides(op, v, w))
    BY SignDecides
  <2> QED BY <1>6, <2>1, <2>2
<1> QED BY <1>5, <1>6, <1>7, <1>8
=============================================================================
