------------------------------ MODULE Machine ------------------------------
(***************************************************************************)
(* The virtual machine, asm-machine/machine.c: sixteen registers, memory   *)
(* by bytes, and one instruction per turn of the fetch loop. Instructions  *)
(* are kept decoded at their addresses; the other bytes are those that     *)
(* were loaded or stored, all others being zero. Where a program would     *)
(* execute data, overwrite its code or leave the memory, cpu.state turns   *)
(* "wild" and the machine is not followed further.                         *)
(***************************************************************************)
EXTENDS Words, Assembler

CONSTANT MEMMAX    \* bytes of memory

ASSUME MemoryAssumption == MEMMAX \in Nat

FLAG_EZ == 0
FLAG_LZ == 1
FLAG_GZ == 2
R_FLAG == 0
Blank == 2         \* the character ' '

(* image: an assembler's result; in: what will be typed, numbers or        *)
(* characters as the program asks for them.                                *)
PowerOn(image, input) ==
  [reg |-> [r \in 0 .. R_NUM - 1 |-> 0], code |-> image.code, mem |-> image.data,
   input |-> input, out |-> <<>>, state |-> "running"]

Shown(kind, what) == [kind |-> kind, what |-> what]

Byte(cpu, x) == IF x \in DOMAIN cpu.mem THEN cpu.mem[x] ELSE 0

(* The bytes from x on up to a zero: what printf("%s") prints. *)
Characters(cpu, x) ==
  LET end == CHOOSE y \in x .. MEMMAX : Byte(cpu, y) = 0 /\ \A z \in x .. y - 1 : Byte(cpu, z) # 0
  IN  [i \in 1 .. end - x |-> Byte(cpu, x + i - 1)]

Data(cpu, x, n) ==
  \A y \in x .. x + n - 1 : y \in 0 .. MEMMAX - 1 /\ y - (y % 8) \notin DOMAIN cpu.code

Wild(cpu) == [cpu EXCEPT !.state = "wild"]
Halt(cpu) == [cpu EXCEPT !.state = "halted"]

Set(cpu, r, w) == [cpu EXCEPT !.reg[r] = w]

Put(cpu, x, bytes) ==
  IF ~Data(cpu, x, Cardinality(DOMAIN bytes)) THEN Wild(cpu)
  ELSE [cpu EXCEPT !.mem = [y \in DOMAIN @ \cup {x + i : i \in DOMAIN bytes} |->
                              IF y - x \in DOMAIN bytes THEN bytes[y - x] ELSE @[y]]]

PutWord(cpu, x, w) == Put(cpu, x, [i \in 0 .. 3 |-> ByteOf(w, i)])
PutByte(cpu, x, w) == Put(cpu, x, [i \in {0} |-> ByteOf(w, 0)])

GetWord(cpu, r, x) ==
  IF Data(cpu, x, 4) THEN Set(cpu, r, WordOf([i \in 0 .. 3 |-> Byte(cpu, x + i)])) ELSE Wild(cpu)
GetByte(cpu, r, x) == IF Data(cpu, x, 1) THEN Set(cpu, r, Byte(cpu, x)) ELSE Wild(cpu)

Operate(cpu, op, r, w) ==
  IF op = "DIV" /\ w = 0 THEN Halt(cpu) ELSE Set(cpu, r, Wrap(Exact(op, cpu.reg[r], w)))

(* What the two forms of an operation compute. *)
Operation ==
  [ADD_0 |-> "ADD", SUB_0 |-> "SUB", MUL_0 |-> "MUL", DIV_0 |-> "DIV",
   ADD_1 |-> "ADD", SUB_1 |-> "SUB", MUL_1 |-> "MUL", DIV_1 |-> "DIV"]

FlagOf(w) == IF w = 0 THEN FLAG_EZ ELSE IF w < 0 THEN FLAG_LZ ELSE FLAG_GZ

(* The end of the input leaves the value the register was prepared with.   *)
ReadTo(cpu, prepared) ==
  IF cpu.input = <<>> THEN Set(cpu, R_IO, prepared)
  ELSE [Set(cpu, R_IO, Head(cpu.input)) EXCEPT !.input = Tail(@)]

Show(cpu, kind, what) == [cpu EXCEPT !.out = Append(@, Shown(kind, what))]

Taken(cpu, op) ==
  CASE op \in {"JMP_0", "JMP_1"} -> TRUE
    [] op \in {"JEZ_0", "JEZ_1"} -> cpu.reg[R_FLAG] = FLAG_EZ
    [] op \in {"JLZ_0", "JLZ_1"} -> cpu.reg[R_FLAG] = FLAG_LZ
    [] op \in {"JGZ_0", "JGZ_1"} -> cpu.reg[R_FLAG] = FLAG_GZ
    [] OTHER -> FALSE

(* What the instruction at R_IP does, the advance of R_IP apart. *)
Execute(cpu, i) ==
  LET x == cpu.reg[i.rx]
      y == cpu.reg[i.ry]
      io == cpu.reg[R_IO]
  IN  CASE i.op \in {"ADD_0", "SUB_0", "MUL_0", "DIV_0"} -> Operate(cpu, Operation[i.op], i.rx, i.n)
        [] i.op \in {"ADD_1", "SUB_1", "MUL_1", "DIV_1"} -> Operate(cpu, Operation[i.op], i.rx, y)
        [] i.op = "LOD_0" -> Set(cpu, i.rx, Wrap(i.n))
        [] i.op = "LOD_1" -> Set(cpu, i.rx, y)
        [] i.op = "LOD_2" -> Set(cpu, i.rx, Wrap(y + i.n))
        [] i.op = "LOD_3" -> GetWord(cpu, i.rx, i.n)
        [] i.op = "LDC_3" -> GetByte(cpu, i.rx, i.n)
        [] i.op = "LOD_4" -> GetWord(cpu, i.rx, y)
        [] i.op = "LDC_4" -> GetByte(cpu, i.rx, y)
        [] i.op = "LOD_5" -> GetWord(cpu, i.rx, y + i.n)
        [] i.op = "LDC_5" -> GetByte(cpu, i.rx, y + i.n)
        [] i.op = "STO_0" -> PutWord(cpu, x, i.n)
        [] i.op = "STO_1" -> PutWord(cpu, x, y)
        [] i.op = "STC_1" -> PutByte(cpu, x, y)
        [] i.op = "STC_0" -> PutByte(cpu, x, i.n)
        [] i.op = "STO_2" -> PutWord(cpu, x, Wrap(y + i.n))
        [] i.op = "STC_2" -> PutByte(cpu, x, Wrap(y + i.n))
        [] i.op = "STO_3" -> PutWord(cpu, x + i.n, y)
        [] i.op = "STC_3" -> PutByte(cpu, x + i.n, y)
        [] i.op = "TST_0" -> Set(cpu, R_FLAG, FlagOf(x))
        [] i.op = "ITC" -> ReadTo(cpu, Blank)
        [] i.op = "ITI" -> ReadTo(cpu, 0)
        [] i.op = "OTC" -> Show(cpu, "char", <<io>>)
        [] i.op = "OTI" -> Show(cpu, "int", <<io>>)
        [] i.op = "OTS" -> Show(cpu, "text", Characters(cpu, io))
        [] i.op = "END" -> Halt(cpu)
        [] i.op \in {"NOP", "JEZ_0", "JEZ_1", "JLZ_0", "JLZ_1", "JGZ_0", "JGZ_1"} -> cpu

(* One turn of the loop. An empty image is zeros, which read as END. *)
Cycle(cpu) ==
  LET ip == cpu.reg[R_IP]
      i == cpu.code[ip]
      target == IF i.op \in {"JMP_1", "JEZ_1", "JLZ_1", "JGZ_1"} THEN cpu.reg[i.rx] ELSE i.n
      next(c) == IF c.state = "running" THEN Set(c, R_IP, c.reg[R_IP] + 8) ELSE c
  IN  IF DOMAIN cpu.code = {} THEN Halt(cpu)
      ELSE IF ip \notin DOMAIN cpu.code THEN Wild(cpu)
      ELSE IF Taken(cpu, i.op) THEN Set(cpu, R_IP, target)
      ELSE next(Execute(cpu, i))
=============================================================================
