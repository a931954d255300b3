----------------------------- MODULE Toolchain -----------------------------
(***************************************************************************)
(* From three-address code to what the user sees: ObjGenerator prints      *)
(* assembly TAC by TAC, the assembler reads it line by line and twice, the *)
(* machine executes the image one instruction at a time. The three share   *)
(* nothing but what one leaves for the next: offsets from R_IP counted in  *)
(* instructions not yet printed, labels by name, addresses counted in one  *)
(* pass and used in the other, frames laid out at compile time.            *)
(*                                                                         *)
(* The assembler is a tool of its own as well: a text may also be written  *)
(* by hand.                                                                *)
(***************************************************************************)
EXTENDS Meaning

CONSTANTS
  Programs,  \* records tacs, texts, inputs
  Sources,   \* assembly written by hand: records text, shows
  Admit      \* which of the Cases may happen

(* Situations in which the user does not get what was promised.            *)
(*   "overflow"  a comparison of operands whose difference is no word      *)
(*   "order"     a call with two arguments (module CallFrame)              *)
(*   "negative"  a negative constant as an operand                         *)
(*   "narrow"    a character stored through a pointer to an int            *)
(*   "names"     a function named like a label the generator makes, or     *)
(*               like something else the assembler knows                   *)
(*   "reload"    a store through a parameter when all registers are        *)
(*               modified: pointer and value come into one register, and   *)
(*               the pointer is reloaded                                   *)
(*   "spill"     an operation when all registers are modified: its         *)
(*               operands come into one register, so it is computed from   *)
(*               one of them alone; and the other, written back from the   *)
(*               register, may be a constant, which has no home            *)
(*   "address0"  a text by hand with two definitions of a label            *)
Cases == {"overflow", "order", "narrow", "negative", "names", "reload", "spill",
          "address0"}

ASSUME AdmitAssumption == Admit \subseteq Cases

Listed(s) == s \in Seq(Range(s))

(* What a TAC has loaded into a register. *)
Loaded(t) ==
  CASE t.op \in Arithmetic \cup Relations -> {t.b, t.c}
    [] t.op \in {"NEG", "COPY", "LOAD_PTR"} -> {t.b}
    [] t.op \in {"INPUT", "OUTPUT", "ACTUAL"} -> {t.a}
    [] t.op = "IFZ" -> {t.b} \ {Nil}
    [] t.op \in {"CALL", "RETURN"} -> {t.a} \ {Nil}
    [] t.op = "STORE_PTR" -> {t.a, t.b}
    [] OTHER -> {}

(* What it computes, and whose address it takes. *)
Written(t) ==
  CASE t.op \in Arithmetic \cup Relations \cup {"NEG", "COPY", "INPUT", "ADDR", "LOAD_PTR"} -> {t.a}
    [] t.op = "CALL" -> {t.a} \ {Nil}
    [] OTHER -> {}
Addressed(t) == IF t.op = "ADDR" THEN {t.b} ELSE {}

Opcodes ==
  Arithmetic \cup Relations
  \cup {"NEG", "COPY", "INPUT", "OUTPUT", "GOTO", "IFZ", "LABEL", "ACTUAL", "CALL", "BEGINFUNC",
        "FORMAL", "VAR", "RETURN", "ENDFUNC", "ADDR", "LOAD_PTR", "STORE_PTR"}

(* What the front end leaves to the generator: jumps and calls have their  *)
(* labels, the texts are listed, what is loaded has a value, what is       *)
(* computed goes to a variable, and a global has been declared before.     *)
Complete(p) ==
  LET placed == {p.tacs[i].a.name : i \in {j \in DOMAIN p.tacs : p.tacs[j].op = "LABEL"}}
      texts == {p.texts[i].name : i \in DOMAIN p.texts}
      loadable(s) ==
        /\ s.type \in {"CONST_INT", "CONST_CHAR", "VAR", "TEXT"}
        /\ s.type = "TEXT" => s.name \in texts
      declared(s, i) ==
        s.scope = "LOCAL" \/ \E j \in 1 .. i - 1 : p.tacs[j].op = "VAR" /\ p.tacs[j].a = s
      placeable(i) ==
        /\ \A s \in Written(p.tacs[i]) \cup Addressed(p.tacs[i]) : s.type = "VAR"
        /\ \A s \in Loaded(p.tacs[i]) \cup Written(p.tacs[i]) \cup Addressed(p.tacs[i]) :
             s.type = "VAR" => declared(s, i)
      complete(t) ==
        /\ t.op \in Opcodes
        /\ t.op \in {"GOTO", "IFZ"} => t.a.name \in placed
        /\ t.op = "CALL" => t.b.name \in placed
        /\ t.op = "VAR" => Number(t.c) \in Nat
        /\ t.op = "OUTPUT" => t.a.type = "TEXT" \/ t.a.data \in {"INT", "CHAR"}
        /\ t.op = "FORMAL" => t.a.scope = "LOCAL"
        /\ t.op = "STORE_PTR" => t.a.type = "VAR"
        /\ t.op \in Arithmetic \cup Relations /\ t.b = t.c => t.b.type # "TEXT"
        /\ \A s \in Loaded(t) : loadable(s)
  IN  /\ Listed(p.tacs) /\ Listed(p.texts)
      /\ "main" \in placed
      /\ \A i \in DOMAIN p.tacs : complete(p.tacs[i]) /\ placeable(i)
      /\ \A i \in DOMAIN p.texts : Listed(p.texts[i].value)

ASSUME ProgramsAssumption == \A p \in Programs : Complete(p)

(* A text of readable lines in which every name that is used is defined.   *)
IsLine(l) == DOMAIN l = {"op", "rx", "ry", "n", "name", "bytes"} /\ Extent(l) \in Nat
Defined(text, name) == \E k \in DOMAIN text : text[k].op = "LABEL" /\ text[k].name = name
IsText(text) ==
  /\ Listed(text)
  /\ \A k \in DOMAIN text :
       IsLine(text[k]) /\ (text[k].name # "" => Defined(text, text[k].name))

ASSUME SourcesAssumption == \A s \in Sources : IsText(s.text)

VARIABLES
  program,   \* what is compiled or assembled
  promised,  \* what it is to show
  phase,     \* the tool that is running
  at,        \* the turn of its loop: the TAC, the line, the cycle
  gen, asm, cpu

vars == <<program, promised, phase, at, gen, asm, cpu>>

Definitions(text) == SelectSeq(text, LAMBDA line : line.op = "LABEL")
Twice(text) ==
  {name \in {text[i].name : i \in DOMAIN text} :
     Cardinality({i \in DOMAIN text : text[i].op = "LABEL" /\ text[i].name = name}) > 1}

(* What the generator adds to the names of the program, and what the       *)
(* assembler takes for something else than a name.                         *)
IsReserved(name) == name \in {"EXIT", "STATIC", "STACK"} \/ ~IsLabel(name)

(* The cases a program runs into whatever its input. *)
Static(p) ==
  LET operands(t) == {t.a, t.b, t.c}
      labels == {i \in DOMAIN p.tacs : p.tacs[i].op = "LABEL"}
      named == {p.tacs[i].a.name : i \in labels} \cup {t.name : t \in Range(p.texts)}
  IN  {c \in {"negative"} : \E i \in DOMAIN p.tacs : \E s \in operands(p.tacs[i]) :
                               IsConst(s) /\ Number(s) < 0}
      \cup {c \in {"names"} : \/ \E name \in named : IsReserved(name)
                              \/ Cardinality(named) < Cardinality(labels) + Len(p.texts)}

NoProgram == [tacs |-> <<>>, texts |-> <<>>, inputs |-> {}]

Compile ==
  \E p \in Programs : \E input \in p.inputs :
    LET run == Run(p.tacs, input)
    IN  /\ run.pc = 0
        /\ run.met \cup Static(p) \subseteq Admit
        /\ program = p
        /\ promised = run.out
        /\ phase = "generate"
        /\ gen = AsmHead(Fresh, p.tacs)
        /\ cpu = PowerOn(Begin, input)

WrittenByHand ==
  \E s \in Sources :
    /\ Twice(s.text) # {} => "address0" \in Admit
    /\ program = NoProgram
    /\ promised = s.shows
    /\ phase = "assemble"
    /\ gen = Emit(Fresh, s.text)
    /\ cpu = PowerOn(Begin, <<>>)

Init ==
  /\ Compile \/ WrittenByHand
  /\ at = 1
  /\ asm = Begin

Reloaded(g, t, rand) ==
  LET ra == AllocReg(g, t.a, rand)
  IN  /\ t.op = "STORE_PTR" /\ t.a.scope = "LOCAL" /\ OffsetOf(g, t.a) < 0
      /\ AllocReg(Alloc(g, t.a, ra), t.b, rand) = ra

Spilled(g, t, rand) ==
  LET b == IF t.op = "NEG" THEN Zero ELSE t.b
      c == IF t.op = "NEG" THEN t.b ELSE t.c
      rb == AllocReg(g, b, rand)
  IN  /\ t.op \in Arithmetic \cup Relations \cup {"NEG"}
      /\ ~IsConst(c) /\ b # c
      /\ AllocReg(Modify(Alloc(g, b, rb), rb), c, rand) = rb

(* One TAC. The random register is the same for all allocations of one     *)
(* TAC: every draw is seeded with the second it is made in.                *)
Generate ==
  /\ phase = "generate"
  /\ at \in DOMAIN program.tacs
  /\ \E rand \in Gen :
       /\ Reloaded(gen, program.tacs[at], rand) => "reload" \in Admit
       /\ Spilled(gen, program.tacs[at], rand) => "spill" \in Admit
       /\ gen' = AsmCode(gen, program.tacs[at], rand)
  /\ at' = at + 1
  /\ UNCHANGED <<program, promised, phase, asm, cpu>>

Orders(texts) ==
  {f \in [DOMAIN texts -> Range(texts)] : \A t \in Range(texts) : \E i \in DOMAIN texts : f[i] = t}

FinishText ==
  /\ phase = "generate"
  /\ at = Len(program.tacs) + 1
  /\ \E texts \in Orders(program.texts) : gen' = AsmStatic(AsmTail(gen), texts)
  /\ phase' = "assemble"
  /\ at' = 1
  /\ UNCHANGED <<program, promised, asm, cpu>>

ReadLine ==
  /\ phase = "assemble"
  /\ asm.state = "reading"
  /\ at \in DOMAIN gen.text
  /\ asm' = Read(asm, gen.text[at])
  /\ at' = at + 1
  /\ UNCHANGED <<program, promised, phase, gen, cpu>>

EndOfText ==
  /\ phase = "assemble"
  /\ asm.state = "reading"
  /\ at = Len(gen.text) + 1
  /\ asm' = Rewind(asm)
  /\ at' = 1
  /\ UNCHANGED <<program, promised, phase, gen, cpu>>

(* The image is all that is left of the tools before. A refused text has   *)
(* left an empty one; the machine is started on whatever there is.         *)
LoadImage ==
  /\ phase = "assemble"
  /\ asm.state # "reading"
  /\ cpu' = PowerOn(asm, cpu.input)
  /\ phase' = "run"
  /\ at' = 0
  /\ program' = NoProgram /\ gen' = Fresh /\ asm' = Begin
  /\ UNCHANGED promised

RunCycle ==
  /\ phase = "run"
  /\ cpu.state = "running"
  /\ cpu' = Cycle(cpu)
  /\ at' = at + 1
  /\ UNCHANGED <<program, promised, phase, gen, asm>>

(* Nothing follows END, and a wild machine is not followed.                *)
Over ==
  /\ cpu.state # "running"
  /\ UNCHANGED vars

Next == Generate \/ FinishText \/ ReadLine \/ EndOfText \/ LoadImage \/ RunCycle \/ Over

(* Every tool is a loop in one process that never waits: the generator's   *)
(* over the TACs, the parser's over the text, the machine's for(;;), whose *)
(* reads end with the input. So the loop under way always turns again. (A  *)
(* turn of any of the loops moves at; that one is always possible until    *)
(* the machine stops is what the search for deadlocks shows.)              *)
Turn == cpu.state = "running" /\ at' \in {0, 1, at + 1}

Spec == Init /\ [][Next]_vars /\ WF_at(Turn)

-----------------------------------------------------------------------------
(* Words in registers, bytes in memory and no more labels than the table   *)
(* has places.                                                             *)
TypeOK ==
  /\ phase \in {"generate", "assemble", "run"}
  /\ gen.mod \subseteq Gen
  /\ asm.ip \in Nat /\ Len(asm.table) <= LABNUM
  /\ cpu.reg \in [0 .. R_NUM - 1 -> Word]
  /\ \A x \in DOMAIN cpu.mem : x \in 0 .. MEMMAX - 1 /\ cpu.mem[x] \in 0 .. ByteValues - 1

(* Whatever the generator prints for a program, the assembler's grammar    *)
(* reads: no form of operand is printed that asm.y has no rule for, and no *)
(* label is defined twice.                                                 *)
Accepted == program.tacs # <<>> => asm.state # "refused"

(* The address of every line, and of the end. *)
Addresses(text) ==
  LET address[k \in 1 .. Len(text) + 1] == IF k = 1 THEN 0 ELSE address[k - 1] + Extent(text[k - 1])
  IN  address

(* The two passes agree: every label operand of the image is the address   *)
(* of the line behind the label's definition, counted in the text anew; a  *)
(* text that defines a label twice yields no image.                        *)
LabelsAgree ==
  asm.state = "done" =>
    /\ Twice(gen.text) # {} => "address0" \in Admit
    /\ \A x \in DOMAIN asm.code :
         asm.code[x].name # "" =>
           \E k \in DOMAIN gen.text :
             /\ gen.text[k].op = "LABEL" /\ gen.text[k].name = asm.code[x].name
             /\ asm.code[x].n = Addresses(gen.text)[k]

(* The program stays within its own memory: it executes nothing but the    *)
(* instructions printed for it and never writes over them, in every call   *)
(* depth and through every pointer.                                        *)
Tame == cpu.state # "wild"

Kept == INSTANCE Promise WITH
  whole <- promised, shown <- cpu.out, over <- (cpu.state = "halted")

(* Compiled, assembled and executed, a program shows nothing but what its  *)
(* three-address code says, in that order, and does not end before.        *)
Implements == Kept!Spec

(* It does end, having shown all of it: no jump of the generated code      *)
(* leads round in circles, and no tool waits for another.                  *)
Finishes == Kept!Fulfilled

(* "error: label already exist", and "labels defined twice cause an error" *)
(* (asm-machine/README.md): a text with two definitions has no image.      *)
DuplicatesRefused == Twice(gen.text) # {} => asm.state # "done"
=============================================================================
