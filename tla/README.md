# Verification of the CCPL compiler

CCPL is a small C-like language. Its compiler (`src/ccpl`) turns a program into
three-address code (TAC), optimizes it on request, and prints assembly for a
16-register machine whose assembler and interpreter are in `src/asm-machine`.
This directory holds TLA+ models of the parts where a wrong program can come
out, TLC runs over small instances, and TLAPS proofs for the register allocator,
the frames, the lowering of control statements, the symbol tables, the labels of
the printed assembly, its acceptance by the assembler, and the code of
comparisons.

File names below without a directory are under `src/ccpl/src/modules`, except
`tac_struct.hh`, `ast_nodes.hh`, `array_metadata.hh` and `struct_metadata.cc`
(`src/ccpl/src/abstraction`) and `asm.y`, `asm.l`, `machine.c`
(`src/asm-machine`).

## 1. The system

    lexer.l, parser.y -> ASTBuilder -> ASTToTACGenerator (TACGenerator)
        -> [TACOptimizer (BlockBuilder)] -> ObjGenerator -> asm -> machine

Everything runs once, in one thread, and nothing is persisted. What is hard is
not scheduling but long sequences: the compiler keeps beliefs about the program
it is printing (what a register holds, where a variable lives, which loop
`break` leaves) and each later decision rests on them. A test sees one program;
the models below let the *program* be any sequence of instructions or
statements, and the machine's data any words. The optimizer works on a whole
program at a time; it is run on families of programs that differ in every
combination of a few statements.

| component | state it keeps | operations | interacts with | correct when |
|---|---|---|---|---|
| code generator, registers (`obj.cc`) | `reg_desc[r].var/.state` | one `asm_code` case per TAC; `reg_alloc`, `asm_load`, `asm_write_back`, `rdesc_*` | reads TACs; prints code the machine runs | the code does to variables what the TACs say, whatever was in the registers |
| code generator, frames (`obj.cc`) | `tof`, `oof`, `oon`, each symbol's `offset` | ACTUAL, CALL, BEGINFUNC, FORMAL, VAR, RETURN | shares R_BP and the stack with the running program | every activation has its own variables, returns where it was called |
| control lowering (`tac.cc` 333-565, 744-797, `ast_to_tac.cc` 189-364) | `next_label`, `loop_stack`, `switch_stack`, `context_type_stack`, the code under construction | begin/end/do of if, while, for, switch; case, default, break, continue, return | called by the tree walk, emits TAC | the jumps follow the statements; every label is defined once |
| expressions, arrays, structs (`ast_to_tac.cc` 481-1250, `array_metadata.hh`, `struct_metadata.cc`) | `array_metadata_map`, struct types | address and value of each expression form | symbol tables, TACGenerator | an element's address is base + its row-major offset |
| symbols and scopes (`tac.cc` 45-203, 734-742) | global and local tables, `scope`, temporaries | lookup, `mk_var`, `declare_func`, enter/leave scope | everything above | a name means its innermost declaration |
| basic blocks, data flow (`block.cc`) | blocks, edges, IN/OUT sets | leaders, edges, reaching definitions, live variables, constants | optimizer | the sets over-approximate every path |
| optimizer (`opt.cc`) | the TAC list and the blocks | folding, copies, CSE, LICM, dead code, jumps, unused declarations, up to 20 rounds | block builder | observable behaviour is unchanged |
| code generator, text (`obj.cc`) | the output | asm_head, asm_main, asm_code, asm_tail, asm_static | read by the assembler | the assembler's grammar reads it; its jumps over its own instructions land |
| assembler (`asm.y`, `asm.l`) | label table, `ip`, `pass` | two passes over the text | reads the printed code | a jump's address is its label's |
| machine (`machine.c`) | 16 registers (R_IP among them), 64 KB memory | one case per opcode | runs the image | the program shows what its TACs say, and ends |
| lexer, parser, AST builder, driver | the tree | - | - | syntax only, no model |

## 2. The modules

| module | stands for | role |
|---|---|---|
| `ThreeAddress` | symbols, operands, the TAC record | constants and their assumptions, shared by the next two |
| `TacStore` | what TAC means | abstract specification: a store of variables |
| `RegAlloc` | `obj.cc` register descriptors and the code printed per TAC | implements `TacStore` |
| `RegAllocProofs` | - | theorems about `RegAlloc`: its invariants |
| `RegAllocRefines` | - | theorems about `RegAlloc`: it implements `TacStore` |
| `CallStack` | what calls promise | abstract specification: a stack of activations |
| `CallFrame` | `obj.cc` frames | implements `CallStack` |
| `CallFrameProofs` | - | theorems about `CallFrame`: its invariants; it implements `CallStack` |
| `Control` | `tac.cc` and the statement walk of `ast_to_tac.cc` | generator as a state machine |
| `ControlFlow` | the meaning of statements, the meaning of jumps | reference definitions and the property that compares them |
| `ControlProofs` | - | theorems about `Control` |
| `TacList` | `tac_struct.hh`: TACs in a linked list, what they define and use | the list as data, and what running it prints |
| `Blocks` | `block.cc` | blocks, edges, live variables, constants: functions of a list |
| `Passes` | `opt.cc`, one operator per pass | functions of a list and its blocks |
| `Optimizer` | `TACOptimizer::optimize` | state machine, one action per pass; the properties |
| `Lowering` | `tac.cc`'s code for small statements | makes the programs `MCOptimizer` starts from |
| `Words` | the `int` and `unsigned char` of `machine.c` | two's complement words of four bytes of any size |
| `CodeGen` | `obj.cc`: the lines printed for every TAC, head, tail and data | functions of the generator's state |
| `Assembler` | `asm.y`, `asm.l` | functions of the assembler's state |
| `Machine` | `machine.c` | functions of the processor's state |
| `MachineProofs` | - | theorem: what the code of a comparison does |
| `Meaning` | what TAC of several functions means | reference: activations, variables, pointers to bytes |
| `Promise` | what a user is promised | abstract specification: all of the output, in order, then the end |
| `Toolchain` | `generate()`, the parser's loop, the machine's loop | composes the five above, implements `Promise` |
| `ToolchainProofs` | - | theorem about `Toolchain`: its labels |
| `AcceptedProofs` | - | theorem about `Toolchain`: what is printed is assembled |
| `Layout` | types, `struct_metadata.cc`, `array_metadata.hh`, `create_array_metadata` | sizes, strides, offsets beside those of the language |
| `Access` | `generate_array_address`, `generate_member_address`, `generate_expression`, lookup | the address and value of a place, beside what the expression means |
| `FrontEnd` | declarations, scopes and literals of `tac.cc` and `ast_to_tac.cc` | state machine over the tables; the properties |
| `FrontEndProofs` | - | theorems about `FrontEnd`: its tables, names, homes and what is read |
| `MC*` | - | small instances |

### RegAlloc

An action is one call of `asm_code`. The generator's descriptors (`var`, `mod`)
and the machine (`reg`, `mem`) advance together: what the code prints is
executed at once. That is sound because along any executed path the descriptors
are those of the straight line since the last label, and every label forgets
all of them. A jump is followed to the label it lands on, so GOTO and a taken
IFZ end with empty descriptors; a CALL lets the callee leave any registers and
any shared variables; after RETURN the code of the function runs in another
activation with any memory.

`reg_alloc` is nondeterministic only where the code calls `rand()`. It is
`AllocRegs` (which register) and `Alloc` (what is loaded, written back and
recorded). `asm_bin`'s temporary mark is `PinB`/`PlaceC`. Each action threads a
record `[var, mod, reg, mem]` through these steps in the order of the code.

`TacStore` has only `val` and what the instruction shows to the outside (`obs`:
the values of OUTPUT, ACTUAL, tests and returns; at calls and returns the
variables others can see). The refinement mapping is `View`: a variable is in
the register that holds it, else at its home.

Three situations break the promise, and `Admit` names them, so that one model
shows both what holds without them and what they do: `"spill"`, `"io"` and
`"alias"` (section 4). With `Admit = {}` the guards leave out exactly the steps
that run into them, and everything else is kept.

### CallFrame

Words of the stack, `R_BP`, and per activation the counters it was compiled
with at the place where it is suspended. CALL writes the old `R_BP` and the
return address at `R_BP + tof + oon`; RETURN reads them back from memory, so an
activation that overwrites them returns elsewhere: nothing in the model
remembers the right answer except `CallStack`. Offsets are in words, so the
8-byte constants of `obj.hh` 26-29 become 2 and so on. `Rewind` is a jump back
over declarations, after which `tof` is smaller at run time than before.
A pointer may reach any variable of any activation.

### Control and ControlFlow

The tree walk of `ast_to_tac.cc` is one action per construct entered and left;
the program is therefore any program, one statement at a time. `open` is the
walk's own stack: the code and the statements collected for each construct
under way. Every action makes the calls its handler makes, in order, on the
generator's `next_label` and three context stacks. Expressions are one atom:
EVAL when an expression has code, nothing when it is a variable or constant.
`end_switch` walks over an `unordered_map` of the cases; their order there is
the order of insertion here, one of those the map may have, and does not matter
as long as no two cases have the same value, which the actions see to.

The properties of labels and contexts are in `Control`, because they speak of
nothing else. (`ControlFlow` is recursive and cannot be reasoned about.)

`ControlFlow` says what the same statements mean by recursion on them (`Enter`,
`Flow`) and what the code does by following its jumps (`CodeFlow`).
`SameFlow` compares the two graphs of atoms for every value the switches find.
A program is compared whenever the walk is back at the function's own level.

`Admit` keeps three things apart here as well: a switch on an expression with
code (`"calc"`), a switch without default (`"nodefault"`), a continue inside a
switch (`"continue"`).

### TacList, Blocks, Passes, Optimizer

The list is a record: `node`, what each TAC object holds, and `list`, the
objects that are linked, in order. Unlinking takes a node out of `list` only,
because the blocks' `start` and `end` go on pointing to it: `Walk` is the loop
`while (tac) { ...; if (tac == block->end) break; tac = tac->next; }` that every
pass uses, and says what it visits when `end` is not ahead or `start` is no
longer linked. `Emitted` is such a walk from `tac_first`.

`Optimizer` has one action per pass in the order of `optimize()`, and one per
loop header for code motion. Its state is what the passes share: the list, the
blocks, the data flow computed in the middle of the round, `global_changed`
and the round. The blocks are rebuilt only where the code does so
(`Rebuilt`); the liveness that dead-code elimination uses is the one computed
before constants were put in. The only choice is the order of the loop's blocks
in code motion, which the code takes from an `unordered_set`.

The initial states are the programs of the configuration. `promised` is what
the program prints for every input before anything is done, and `SameMeaning`
runs the program again after every pass. A run that ended with an error (a
division by zero) before promises nothing.

Seven situations break the promise. Each is described as the *step* that goes
wrong and `Admit` names it: `"stale"`, `"key"`, `"hoist"`, `"emptied"`,
`"global"`, `"alias"`, `"first"` (section 4). With `Admit = {}` a program that
gets into one of them is not followed further; all the others are followed to
the end. The programs are made by `Lowering`, because the passes rely on the
generator's form: every operation has a temporary of its own, declared just
before it.

### Words, CodeGen, Assembler, Machine, Meaning, Promise, Toolchain

`RegAlloc` executes what a TAC's code does to variables. `Toolchain` keeps the
code itself. `CodeGen` is the generator again, as functions from a generator
state to the next, whose result is a list of lines: an opcode that tells the
forms of a mnemonic apart, two registers, a number, a label's name. An operand
that the code prints with a sign the grammar has no rule for becomes
`Unreadable`. A name is a token, except that `IsRegister` looks at how it is spelled,
since `asm.l` reads `R` and any digits as a register; `OwnLabelsAssumption` says that
none of the generator's own labels is spelled so. `Assembler` reads one line at a time, enters names in the order in
which it meets them, and builds the image in its second pass. `Machine` fetches
an instruction at `R_IP`, executes it on words and bytes, and turns `wild`
when a program would execute data, overwrite its code or leave the memory.

An action of `Toolchain` is one turn of the loop under way: a TAC, a line, the
end of a text, a cycle. `at` counts the turns. What one tool leaves for the next
is all it finds: loading the image forgets the generator and the assembler. The
initial states are the programs of the configuration with each of their inputs,
and the texts written by hand, because the assembler has users of its own.

Two assumptions say what a program and a text are, and TLC evaluates them on
those of the configuration. `Complete`: the labels of jumps and calls are placed,
there is a `main`, the texts printed are listed, what is loaded has a value, what
is computed goes to a variable, and a global is declared before it is used. All of
that is what the front end sees to, with two exceptions that are left out. One is
a switch without default (section 4, case 6): its jump has no label, and the
assembler gives it address 0. The other are literals as places, which the grammar
has and no check refuses: `&5`, `*5 = x`, and a text combined with itself
(`"a" + "a"`) can have the generator print the offset -1 of a symbol without a
home. `IsText`: the lines are those of the grammar and every name used is defined.

The choices are those of the code: `rand()` in `reg_alloc` (seeded from the
clock at every draw, so all draws of one TAC agree), and the order of the texts,
which come out of an `unordered_map`.

`promised` is what `Meaning` says the program shows: it runs the TACs on
variables of activations and on pointers that name a variable and a byte of it,
without registers, frames, addresses or labels. The refinement mapping to
`Promise` is `shown <- cpu.out`, `over <- halted`; generating and assembling are
stuttering steps.

### Layout, Access, FrontEnd

A type is an element with the sizes of an array of it; the parser nests the sizes
the other way round (`Nested`) and `create_array_metadata` turns them back.
`Layout` has both what the language says (`SizeOf`, `OffsetIn`) and what the
compiler records (`calculate_type_size`, `calculate_size`, `get_stride`).

An expression is the sequence of the steps from a name to the place: indices,
fields, `->` and `*`. Walking it as a tree and walking its beginnings from the
shortest to the longest are the same, and so `Place`, `generate_address` and
`infer_struct_type_from_expr` are functions on the number of steps, which the
prover can work with. `Paths` has the expressions of up to `MaxReach` steps.

The code of an address is a straight line of additions and multiplications on
fresh temporaries, so `Access` keeps it as the value it computes: a root (the
home of a variable, its contents, what memory holds at another value) and a
linear form in two index variables `i` and `j`. Two forms are equal exactly if
the code computes the same address for all indices. `generate_expression` also
says with which type the value is loaded and which numbers and whose metadata
the code asked the tables for.

`FrontEnd` is the walk over declarations: `DeclareVar`, `BeginFunc` with its
parameters, `OpenBlock`, `CloseBlock`, `EndFunc`, and the uses that change a
table: an expression that remembers a member's metadata or enters a number
(`Use`), a literal (`UseLiteral`). A member's metadata is remembered only where the
member is an array. `EndFunc` leaves out of the state what only the finished
function knew: its symbols, and the declarations behind its BEGINFUNC. `env` is what C's scopes say of the same
sequence. The properties are about *every* expression that could come next
(`Paths`), so a table that is wrong is seen without being used.

## 3. Runs

| run | checks | bounds and why they are enough |
|---|---|---|
| `regalloc_core` | `TypeOK`, `UniqueHolder`, `DirtyIsVariable`, `CleanCoherent`, `Implements`, `Admit = {}` | 3 registers, 3 variables (one shared and addressable), 2 literals, words of one bit. All four ways out of `reg_alloc` occur: with 3 variables and a literal there are more symbols than registers, and all three registers can be modified. |
| `regalloc_spill`, `regalloc_io` | one promise each, violated | same |
| `callframe` | `TypeOK`, `LinksIntact`, `WordsDisjoint`, `Implements` | 3 activations, 2 variables or arguments each, 9 words. A callee of a callee exists, so a caller's frame is not always the bottom or the top; two variables are needed for an array to overlap. |
| `callframe_order` | `FormalsInOrder`, violated | same |
| `control` | `TypeOK`, `ContextsMirrorNesting`, `JumpsLand`, `LegalAccepted`, `SameFlow`, `Admit = {}` | 4 statements, nesting 2, two case values: every construct inside every other with a jump in the inner one; order of cases, fall-through, default anywhere |
| `control_nodefault`, `control_continue` | one promise each, violated | 3 statements |
| `optimizer` | `TypeOK`, `SameMeaning`, `DeclaredFirst`, `ConstantsHold`, `LiveEnough`, `BlocksCover`, `Settles`, `Admit = {}` | Without loops: `Straight`: three statements of eight, in one block with global variables. `Repeated`: the same operands twice with a statement between. `Branches`: two tests, one of a constant, and code behind a return. `Pointers`: an array element. With loops: `Loops`: two statements of fifteen in a loop. `Invariants`: a chain of computations in the loop that can leave it, with uses and assignments between (44 programs end with code moved). `Nested`: the two under a test in the loop. `Twice`: the two in an inner loop. The first words read decide how often each is executed: not at all, once, twice. |
| `optimizer_key` | `SameMeaning`, violated with `"key"` admitted | `Repeated` |
| `toolchain` | `TypeOK`, `Accepted`, `LabelsAgree`, `Tame`, `Implements`, `Finishes`, `Admit = {}` | words of four bytes of 16 values, 4096 bytes of memory, 20 labels. `Compared`, `Combined`: every relation and operation on all pairs of the least, a small negative, zero, a small positive and the greatest word (less the comparisons that overflow), division by zero and the end of the input among them. `Counting`: a loop. `Factorial`: recursion four deep with a global. `Filled`: local and global arrays filled by index, a pointer to an element passed on. `Lettered`: characters, a char array, two texts, one of them empty. `Crowded`, `Reloading`: more modified variables than the eleven registers. By hand: every form of operand, as many labels as the table holds and one more, labels spelled like a register (`R`, `R99`, refused) and not quite (`R9a`). |
| `frontend` | `TypeOK`, `NamesResolve`, `HomesApart`, `ElementAddressed`, `LoadedAsDeclared`, `Admit = {}` | two names, two functions, one block in a function, one global, one parameter, two variables in a function. Types: `char[2][3]`, an array of structs, `int[2][2][2]`, a struct, a pointer to a struct with a matrix, an array of structs and a pointer in it, a pointer to `char`; as parameters a `char` and an `int[2]`. So every variable of one function can meet one of the same name and another type in the next, and a parameter can hide or precede an array. Between brackets: 1 and a variable. |

In the `optimizer` runs words are 0, 1 and 2 and arithmetic is modulo 3: enough
for sums, differences and products of the same operands to differ. The inputs
are all pairs of words, read round and round, so that a variable that was read
is not constant by accident. `Fuel` bounds a run to 120 steps; the longest of
the programs takes fewer, so it only catches a program made to loop forever.
`MAX_ITER` and `MAX_GLOBAL_ITER` are the code's own.

Deadlock is checked in the `regalloc` runs, where the generator can always print
the next instruction, and in `toolchain`, where every loop can always turn until
the machine stops. It is not checked in `callframe`, whose executions end with
`main`'s return or at the bounds, nor in `control` and `frontend`, whose programs
end, nor in `optimizer`, which returns.

Bounds in the modules: `StackTop`, `MaxDepth`, `MaxVars` in `CallFrame`
(the code has none of them, the machine just has 64 KB); `MaxAtoms`, `MaxNest`
in `Control`; in `FrontEnd` `MaxGlobals`, `MaxParams`, `MaxLocals` (all variables
of a function, its parameters included), `MaxBlocks`, `MaxEntered` (literals and
members' metadata in the tables), `MaxUse` (the steps of an expression that
changes a table; the expressions the properties look at are not bounded by it) and
`MaxReach` (the steps of any expression: 6, where the longest that the types of
the run allow has 5);
in `Toolchain` `Fuel`, which bounds what `Meaning` runs to 24 * 24 steps: a program
that needs more has no promise and is not an initial state (none of those listed
does). `LABNUM` and `MEMMAX` are the assembler's 100 and the machine's 65,536
made small; `ByteValues` is 256 made small, so that the ends of a word are within
the numbers TLC computes with. `RegAlloc` needs no bound. The `VIEW` of the
`regalloc` runs leaves out `obs`, which no action reads.

**Fairness.** `Toolchain` alone states it: `WF_at(Turn)`, weak fairness of the
turn of whichever loop is under way. Every tool is a loop in one process that
never waits for another: the generator's over the TACs, the parser's over the
text, the machine's `for(;;)`, whose reads end with the input. That such a turn
is always possible until the machine stops is not assumed: it is what the check
for deadlocks shows. `Finishes` (the program ends, having shown all of it) then
depends on where the generated jumps lead. No other run assumes fairness: their
properties are safety.

## 4. What the runs show

Holds: away from the cases below, every sequence of TACs is compiled to code
that does what it says, calls and returns keep activations apart, jumps follow
the statements; what is printed is what the assembler reads, resolves and the
machine executes, to the end; and every place a program can name has a home of
its own and code that computes its address.

Does not hold; a case without a run of its own is seen by admitting it in the
configuration named:

1. **Spill of the other operand** (`regalloc_spill`, obj.cc:192). With every
   register modified, `reg_alloc(c)` draws a register at random and may draw
   the one `reg_alloc(b)` has just filled. The comment at obj.cc:204 says the
   temporary MODIFIED mark prevents this; it keeps only the search for a clean
   register away.
2. **R15 is in the pool** (`regalloc_io`, obj.cc:564). `OUTPUT` loads R15
   without asking whose it is. The architecture document gives it to I/O alone.
3. **Write-back after a pointer store** (obj.cc:772; `"alias"` in
   `regalloc_core.cfg` violates `Implements`). A register holding the pointed-to
   variable modified is written back over the stored value. The matching read
   (LOAD_PTR, obj.cc:738) is excluded by the same guard.
4. **Arguments exchanged** (`callframe_order`, obj.cc:612). Actuals go up in
   memory and formals down from R_BP, both first to last.
5. **Switch expression lost** (tac.cc:493; `"calc"` in `control.cfg`
   violates `SameFlow`).
6. **Switch without default** (`control_nodefault`, tac.cc:520). The jump goes
   to a label that nothing defines.
7. **Continue in a switch in a loop** (`control_continue`, tac.cc:789) is
   refused and dropped.
8. **Sum for product** (`optimizer_key`, opt.cc:633). ADD and MUL share a key, so
   a product after a sum of the same operands becomes a copy of the sum.

The other cases of the optimizer violate `SameMeaning` with these values in
`optimizer_key.cfg`:

| `Admit` | `Programs` | line | what goes wrong |
|---|---|---|---|
| `{"stale"}` | `Straight` | opt.cc:152 | after `x = y; y = ...`, a use of `x` becomes a use of the new `y` |
| `{"hoist"}` | `ZeroTrip` | opt.cc:835 | an assignment leaves a loop that is not entered; or the loop's header, whose instructions are not looked at, assigns the same variable |
| `{"emptied"}` | `ConditionalInLoop` | opt.cc:889 | a block whose instructions have all been moved keeps a start behind its end; walks over it run to the end of the program, and constants found there are used in the loop |
| `{"global"}` | `UnsetGlobal` | block.cc:486 | where paths meet, a global unknown on one takes the constant of the other |
| `{"alias"}` | `NamedAndPointed` | tac_struct.hh:132 | a store through a pointer defines nothing |
| `{"first"}` | `UnusedGlobal` | opt.cc:1162 | an unused declaration that comes first cuts the list off behind it |

That `SameMeaning` holds in `optimizer` says that these seven cases are all
there is among the programs of the families. Two results there are less obvious than they look: the data flow used by dead-code
elimination is older than the list (`LiveEnough`), and it suffices because
putting in constants only takes uses away; and the optimistic meet of constants
is right on loops (`ConstantsHold`) for the variables that are still read.

The cases of `Toolchain`, in `toolchain.cfg` with `Programs` and `Sources` as
given (the other one `NoSources` or `NoPrograms`):

| `Admit` | instance | violates | line | what goes wrong |
|---|---|---|---|---|
| `{"overflow"}` | `AllPrograms` | `Implements` | obj.cc:245 | `-32768 < 2` is decided by the sign of a difference that wraps round |
| `{"order"}` | `SwappedProgram` | `Implements` | obj.cc:612 | case 4 above, seen at the output |
| `{"narrow"}` | `NarrowProgram` | `Implements` | obj.cc:765 | a character stored through a pointer to an `int` leaves three bytes as they were |
| `{"negative"}` | `NegativeProgram` | `Accepted` | obj.cc:112, 213 | the grammar has no negative INTEGER, and constant folding makes negative constants |
| `{"names"}` | `NamesakeProgram` | `Accepted` | obj.cc:419 | a function named `L1`, or `STACK` |
| `{"names"}` | `RegisterProgram` | `Accepted` | asm.l:58 | a function named `R15`: `R` and any digits are a register, so its label is none (`IsRegister`) |
| `{"reload"}` | `ReloadingProgram` | `Accepted` | obj.cc:756 | with eleven modified variables, `*p = 13` through a parameter prints `(R2+-4)` |
| `{"spill"}` | `SpillingProgram` | `Accepted` | obj.cc:192, 207 | with eleven modified variables, `12 - x` pins the 12 like a modified variable and writes it back: `STO (R4+-1)` |
| `{"address0"}` | `DoubledSource` | `DuplicatesRefused`, put in as an invariant | asm.y:224 | a label at address 0 is not seen to be defined; `asm-machine/README.md` 440 says duplicates are errors |

The cases of `FrontEnd`, in `frontend.cfg`, for two of them with something more in
a set of `MCFrontEnd`:

| `Admit` | with | violates | line | what goes wrong |
|---|---|---|---|---|
| `{"mixed"}` | `Num(0)` in `Brackets` | `ElementAddressed` | ast_to_tac.cc:1152 | `x[i][1][0]` takes the numbers for the wrong dimensions |
| `{"decay"}` | - | `ElementAddressed` | ast_to_tac.cc:565 | a row, or an array in a struct, is loaded where its address is meant |
| `{"rows"}` | - | `ElementAddressed` | ast_to_tac.cc:76 | an initializer list for `x[2][3]` steps by three elements |
| `{"step"}` | - | `ElementAddressed` | tac.cc:626 | four bytes to a step whatever is pointed to |
| `{"remembered"}` | `Struct("R", <<>>)` in `Locals` | `ElementAddressed`, `LoadedAsDeclared` | ast_to_tac.cc:999 | `x.a` keeps the strides and the element type it had when `x` was another struct |
| `{"untyped"}` | - | `LoadedAsDeclared` | tac.cc:986 | what a parameter, or a sum `p + i`, points to is read from a field never set |
| `{"stale"}` | - | `LoadedAsDeclared` | ast_to_tac.cc:594 | after `char x[2]` in one function, `x[1]` of an `int *x` in the next is read as a `char`: the entry of the array is found by the pointer's name |
| `{"literal"}` | - | `NamesResolve`, `ElementAddressed`, `LoadedAsDeclared` | tac.cc:139 | `output("x")` prints the variable `x`; after a text `4`, the number is that text's address |
| `{"redeclared"}` | - | `NamesResolve`, `ElementAddressed`, `LoadedAsDeclared` | tac.cc:61 | an inner `x` is the outer one, with a new type and a new home |

## 5. What is proved

| module | theorem | property | needs |
|---|---|---|---|
| `RegAllocProofs` | `TypeCorrectness`, `OneHolder`, `DirtyHasHome`, `Coherence` | `TypeOK`, `UniqueHolder`, `DirtyIsVariable`, `CleanCoherent` | - |
| `RegAllocRefines` | `Refinement` | `Implements` | `Admit = {}` |
| `RegAllocRefines` | `OperandsKept` | `OperandsSurvive` | neither `"spill"` nor `"io"` |
| `RegAllocRefines` | `OutputHarmless` | `OutputChangesNothing` | not `"io"` |
| `CallFrameProofs` | `TypeCorrectness`, `LinksSurvive`, `VariablesApart` | `TypeOK`, `LinksIntact`, `WordsDisjoint` | - |
| `CallFrameProofs` | `Refinement` | `Implements` | - |
| `ControlProofs` | `TypeCorrectness`, `ContextsFollow` | `TypeOK`, `ContextsMirrorNesting` | - |
| `ControlProofs` | `JumpsHaveLabels` | `JumpsLand` | not `"nodefault"` |
| `ControlProofs` | `OnlyContinueRefused` | `LegalAccepted` | not `"continue"` |
| `ToolchainProofs` | `LabelsResolved` | `LabelsAgree` | - |
| `AcceptedProofs` | `EverythingAccepted` | `Accepted` | none of `"negative"`, `"names"`, `"reload"`, `"spill"`; no program has more than `LABNUM` names |
| `FrontEndProofs` | `TablesTyped` | `TypeOK` | - |
| `FrontEndProofs` | `NamesTold` | `NamesResolve` | neither `"redeclared"` nor `"literal"`; no text is written like a character between quotes |
| `FrontEndProofs` | `HomesSeparate` | `HomesApart` | neither `"redeclared"` nor `"literal"` |
| `FrontEndProofs` | `ReadAsDeclared` | `LoadedAsDeclared` | neither of these, nor `"remembered"`, `"untyped"` or `"stale"` |
| `FrontEndProofs` | `PlacesAddressed` | `ElementAddressed` | every case but `"untyped"` and `"stale"` left out |
| `MachineProofs` | `ComparisonAnswers` | see below | - |

Each holds for every value of the constants that satisfies the assumptions of
the modules, all named `...Assumption` and evaluated by TLC in the runs. The
last column are hypotheses of the theorem: section 4 shows by a run that the
property fails without them, so the theorems say that the known cases are the
*only* ones.

**The register allocator.** The assumptions are facts of the symbol table
(`ThreeAddress`): variables and literals are different symbols, addressable
variables are shared, different variables have different addresses, the ALU
yields words, the opcodes of arithmetic and relations are none of the others. The
pool has R_IO and one register more (`RegAlloc`).

The four invariants are proved together: `CleanCoherent` is not inductive by
itself. A write-back keeps a clean register coherent only if no second
register holds the same variable (`UniqueHolder`), and a literal's register is
never written back only if literals are never modified (`DirtyIsVariable`). The
invariant is stated of a machine state rather than of the variables,
`Good(S, E)`, because one instruction passes through several such states, and
with a set `E` of exempt registers, because `asm_bin` marks the register of
operand b modified whatever it holds until operand c is placed. The lemmas say
what each helper does to a state field by field (`...Fields`) and that it
preserves `Good` (`...Good`); then one lemma per action, and `NextGood` puts them
together.

The refinement rests on that invariant. `Shows(S, m)` says that the machine state
`S` has, in the register that holds it or else at its home, the value `m` gives
each variable; `View` is the only such `m` in a well-formed state. Each helper is
shown to keep what is shown, or to change it at one variable: a register may be
taken exactly if what it holds is `Spare`, that is, also at its home. Every action
is then one instruction of `TacStore`, whatever `reg_alloc` drew, and the two
hazards of section 4 appear in the proof as the two places where `Spare` cannot
be had: the random spill between the operands, and the load of R15.

**Frames.** `LinksIntact` and `WordsDisjoint` say that words do not meet, and are
inductive only with the geometry that makes it so: every frame is a stretch from
its first argument to its `tof` (`Laid`), and a frame ends before the arguments of
the next begin (`FramesApart`). That a caller has taken its own arguments before
it calls (`FormalsTaken`) keeps the two formulas for offsets, down for formals and
up for the rest, from meeting in one frame. `VariablesApart` holds in particular
across a `Rewind`, where a declaration is met a second time with `tof` smaller.

For the refinement, the views of activations are what the refinement mapping
reads out of memory (`ViewGood`). Each action writes one word, or two at a call;
the lemmas say that this word is outside of the frames whose views must stay, and
what it changes in the view of its own. RETURN is the step that shows why
`LinksIntact` matters: the base and the return address are read back from words
that any store could have changed, and are those of `CallStack`'s top.

**Control.** `IInv` holds whatever is admitted: the types, and that the three
stacks follow the constructs under way by rank, the k-th loop around the walk
having the k-th entry of `loop_stack` and its place among loops and switches in
`context_type_stack`. `ContextsMirrorNesting` alone is not inductive: an
end of a construct pops what its begin pushed, and only the ranks say that it is
that entry.

`LInv` accounts for labels. A number below `next_label` belongs to at most one
depth of the walk, where it is either placed, in the code collected there, or
*owed* by the construct that will place it when it ends (`Owed`); a jump goes to a
label placed beside it or owed by a construct around it (`Accounts`). Ending a
construct moves its code, with the labels it placed and those it owed, into the
construct around it; at the function's level nothing is owed, so every jump has
landed. The one construct that owes a label and may never place it is a switch
that met no default, and this is where the hypothesis of `JumpsHaveLabels` enters.

The proofs of the two are about code of any length, so the sequences' lemmas come
first, and one lemma per action for each invariant.

**Labels.** The invariant of `LabelsResolved` has a part for every tool
(`IInv`). While the generator runs, its text is a sequence of lines that are
well formed, and every name in it is a label of the program or of its texts, or
one of `EXIT`, `STATIC`, `STACK`: the lemmas `...Grows` say so of every case of
`asm_code`. At the end these names have all been defined, because the program is
`Complete` and the tail and the data define the rest, so the text is *closed*. In
the first pass `ip` is the address of the line being read (`Addresses`) and an
entry of the table is the address of the one definition read so far, or 0 where
there was none. No label of a generated text is at address 0, because its first
line takes eight bytes; a label defined twice is therefore refused, and in a text
by hand this is the case `"address0"`. The second pass meets no new name, since
every name of the text was entered by the first, and copies the table's addresses
into the image. That the first pass counts what the second does (asm.y:554) is
this: both are at `Addresses(text)[at]`.

`Addresses`, `SelectSeq` and the concatenation of texts are recursive functions
on numbers. What they compute for a text of any length is proved by the least
number for which it would fail (`Least`), which needs no induction rule.

**Nothing refused.** The assembler refuses a line it cannot read, a label it has an
address for, and a name when its table is full (asm.y 30-42, 224). That
`ObjGenerator` prints none of these says nothing about the text alone: it depends
on what the registers hold. A sign is printed for the offset -1 of a symbol
without a home, and whether one is written back is decided many TACs before. So
`Accepted` is proved from `AInv`, the invariant of `LabelsResolved` with three
parts more:

- `Sound`: a register that is marked modified holds a variable with a home, a
  local one or a global one that has an offset. Inside `asm_bin` this is false of
  one register, the pinned one, which the set `X` of `Sound(g, X)` exempts; if the
  second operand comes into that register, a constant may be written back, and
  this is `"spill"`. `Declared` says that the globals declared so far have their
  offsets, which makes every TAC of a complete program ready when its turn comes
  (`CompleteReady`).
- `Neat`: every line printed is one of the grammar, and the definitions in the
  text are those of the TACs behind, each once. `Goes` carries both through the
  helpers, in the order of the code: what a helper adds is tidy, and what it
  leaves is sound. The tail and the data define names that no TAC has, because a
  program outside of `"names"` has as many names as definitions (`Separate`; the
  count is the lemma `OneEach`).
- `AsmFine`: while the text is read, nothing has been refused and the table holds
  names of the program only. A table that were full would hold one name in two
  places or one that is not of the program (`NotFull`). A label being defined in
  the first pass has no address yet, because an entry is 0 until its definition
  is read (the invariant of `LabelsResolved`) and there is no other.

TLC found `AInv` to hold in all states of the instance of `toolchain` before it
was proved, and its programs meet the hypothesis about names. `"spill"` is wider
than it need be for this theorem alone: it is what must not happen for the
program to show what it should (`Implements`), while the assembler refuses it only
if the operand written back is a literal. Texts written by hand are not in it:
an assembler may refuse what a user writes.

The proof brought `"spill"` to light. The attempt without it failed at the write-back
in `reg_alloc`, for a constant pinned by `asm_bin`; TLC then found the program.

**Comparisons.** `asm_cmp` prints a subtraction and seven lines with two jumps
computed from `R_IP`. `ComparisonAnswers` follows the machine through them one
`Cycle` after the other, for any words, any registers and any place of the code:
five cycles if the jump is taken and seven if not, and both ways lead to the line
behind. The answer is right exactly when the relation is equality or inequality
or the difference of the operands is a word (`Decides`); in all the other cases
it is the opposite. So `"overflow"` is the only case in which a comparison goes
wrong (section 4), and it goes wrong in all of it. The arithmetic is in `Wrapped`
and `SignDecides`: a difference that is no word comes out of `Wrap` with the
other sign and not as zero.

**Names.** C has a table for every scope; the compiler has one for a function and one
for everything else, and gives a symbol that is there already to whoever declares
the name again. `TypeInv` is what holds of the tables whatever is admitted: a
variable's entry has the number of a declaration and that declaration's symbol,
local entries are there in a function only, and numbers count up (`Numbered`), so
that no old entry is taken for a new one. `NamesResolve` alone is not inductive,
because it speaks of the innermost scope: the names behind a `CloseBlock` are those
of the scope outside, and only an invariant about all open scopes says that they
stand for what they stood for (`Bound`). `Bound` has every name of every open scope in
the table it belongs to, the globals in one and all others in the other. A block
that ends takes nothing out of the tables; that this is right is what leaving out
`"redeclared"` means. `QuotesStand` says that what is written like a character
between quotes is one.

The assumptions are those on the program: finitely many names, functions that
are different and are neither variables nor texts (`FrontEndAssumption`), structs
that are complete before they are used (`StructAssumption`), names and numbers that
are not written between quotes (`SpellingAssumption`, a fact of `lexer.l`). The
hypothesis about texts is for `NamesResolve` alone, in what it says of characters:
`mk_text` enters a text as it is written, so that `"'x'"` and the character `'x'` share
a place (tac.cc:139, `"literal"` once more).

**Homes.** `asm_code` keeps three counters: `tos` for the globals, `tof` upward and
`oof` downward in a frame. They are a sum over what is emitted, and what a `VAR` adds
is itself a product of dimensions or a sum over the fields of structs within
structs. `HomesApart` follows in three steps.

- The compiler's sizes are the language's, for all structs and types
  (`StructTypesAre`, `SizeKept`): `struct_types`, made one declaration after the
  other, against `StructSizes`, which follows the types. The compiler stores an
  array's type from its last dimension outward, and multiplies in that order
  (`ProductReversed`).
- `HomesRight` is inductive, on the invariant of the names. Every `VAR` and `FORMAL`
  emitted is of a symbol of its own, whose metadata is that of a declared type
  (`EventsRight`); every variable in any open scope has such an event (`Homed`),
  a global before the function under way and all others in it (`HomeAt`); what
  was emitted before the function is of globals only (`OnlyGlobals`), so that
  `EndFunc` may drop the rest. `HomesApart` alone allows
  a variable in scope with its event before the function's `BEGINFUNC`, and the next
  `VAR` would be given its place.
- Between two events of one function the counters go one way (`CountersGo`), so the
  later home begins where the earlier one ends (`LaterBeyond`). Parameters lie below
  the frame's links and variables above them.

There is no bound on the addresses in it: the counters are C's `int`, and `MaxGlobals`,
`MaxLocals` and the structs are any numbers. Whether they fit in the machine's
memory is another question (the hazard at `obj.cc`:353).

**What is read.** `LoadedAsDeclared` compares two walks along an expression of any
length: the language's, from type to type (`Place`), and the generator's, from a
symbol to the metadata of an array to the field of a struct and back
(`infer_struct_type_from_expr`, `array_metadata`). The proof has both follow the same
list of types.

- `ReadInv` adds to the invariant of the names that the symbol a name stands for
  records its declared type, and that what is remembered under an array's name is
  that very array's metadata (`Carries`). For the metadata this is not obvious:
  `array_metadata_map` has names as keys and no function takes its entries out, so
  an entry may be of another variable. An array is safe from it, since whoever
  declares a name as an array overwrites the entry; a pointer is not, which is
  the case `"stale"`. With `"stale"` and `"untyped"` both left out, no index goes
  through a pointer (`StepsTyped`): without an entry the pointer is moved by a sum
  whose `base_type` is not set.
- `Passes` is the list of types: every expression of `Paths` has one (`PathsPass`),
  `Place` follows it (`TypeAtIs`), and all of them are types of the language
  (`TypesAre`). A run of indices keeps what the array is of (`RunIs`).
- By induction over the steps the struct the generator infers is the one on the
  list (`InferIs`), so the field it finds is the one the step goes to (`WithinIs`), and
  the metadata it has for an array is made of that array's type (`MetadataRead`).
- What is read then depends on the last step only (`DataRead`); for a star it is what
  the symbol says its pointer points to (`StarAddress`).

`StructAssumption` says for it that the fields of one struct have different names,
and `IsType` that a pointer is to a type of the program's structs, as in C.

**Where it is.** `ElementAddressed` compares the same two walks by what they add up
to: the language's moves from place to place, an index at a time, while the
generator takes all the indices of an array together (`Sum`), reads the numbers
among them from a list of their own, and moves a pointer by `do_bin`. The proof
carries `Right` along the expression: the address made for each of its beginnings
is the place of that beginning.

- Addresses are sums of a number and multiples of variables; what the proof needs of
  them is that `Plus` is associative and `Zero` neutral (`PlusAssociates`,
  `ShiftTwice`). `FrontEndAssumption` says that the indices are of that form.
- The stride of the `k`-th dimension times the size of an element is the size of what
  is left after `k` indices (`StrideIs`), so that the sum over a run of indices is one
  move after the other (`SumShifts`). It is here that `"mixed"` would enter: a number
  is read from the list at its own place (`TermsAre`).
- The offset the compiler stores for a field is the sum of the sizes before it
  (`OffsetIs`), of the struct that is inferred, by the proof above.
- A pointer that is moved is a variable (`MovedIs`), its value is what the variable
  holds or, further on, what is loaded from the place (`HeldRead`), and its steps are
  four bytes because `"step"` is left out.
- `PlacesRight` is the induction, with one lemma for each kind of step (`NameRight`,
  `ArrayRight`, `MovedRight`, `MemberRight`, `StarRight`). The one for indices is why
  it is over all beginnings and not from one to the next: the address an index
  starts from is that of the array, several steps before.

`"decay"` and `"rows"` concern the value and the initializer list, not the walk. That
`"untyped"` and `"stale"` are not among the hypotheses says that the wrong types of
these two cases never make a wrong address.

**Only model-checked.** `SameFlow`, everything about `Optimizer`, and of `Toolchain` `TypeOK`, `Tame`,
`Implements` and `Finishes`: the meaning of a program, the data-flow iterations and
the reference semantics are recursive, which the prover does not take. `Finishes`
is liveness under fairness, out of the prover's reach.

## 6. What is left out

- **Characters in `RegAlloc` and `CallFrame`**: a variable is a word or a slot
  there; `Toolchain` has the bytes.
- **How a TAC is printed in comments, escapes in texts, the machine's counters of
  cycles**, and the eight bytes of an instruction, which are kept decoded: a
  program that executes or overwrites instructions as data is only recognized
  (`Tame`).
- **The three cases of `RegAlloc` in `Toolchain`**: its passing run leaves out the
  spill of the other operand (`"spill"`), and none of its programs prints with R15
  in use, or goes through pointers and names at once while registers are modified.
- **Expressions the generator has no code for, or treats by chance**: arrays of
  pointers (`int *a[3]` parses as a pointer to an array), `->` on a parameter,
  a pointer field followed by `->` or `[]`, `(*p).f`, `&x` of a whole array.
  `Paths` of `FrontEnd` is what remains.
- **Homes of temporaries**: each takes four bytes of the frame like a variable of
  that size, which is among the types.
- **Type checks** (`tac.cc` 808-858) only warn; arguments of calls are not
  compared with the parameters.
- **Pointers into arrays and into literals**, and pointer arithmetic: a pointer
  reaches the variables in `Addressable`.
- **Function labels and prologue of `Control`**: one function body at a time;
  the labels' counter is not reset between functions, so they differ.
- **Calls in optimized programs.** `main.cc` switches the optimizer off when
  there is more than one function; a program of one function that calls itself
  is not among the families.
- **Signed words in the optimizer.** Folding and the machine are given the same
  arithmetic; where they differ (overflow, the remainder of a negative
  division) belongs to the comparison of `opt.cc`'s `int` with `machine.c`.
- **Names as text.** CSE looks for a variable's name anywhere in the text of a
  key, so assigning `t1` also forgets expressions with `t10`. That costs a
  repeat, never a result; names in the model do not contain each other.
- **Operand swapping, chain folding, reaching definitions.** In `opt.cc` and
  `block.cc`, but the calls of the first two are commented out and no pass reads
  the third. (`the_ccpl_architecture.md` 401 lists chain folding among the
  optimizations.)
- The parts marked `not_modelled` in `PROJECT.json`.

## 7. Plan

Done: the register allocator and its abstract store, frames and calls, control
lowering: every program passes through them. Then blocks, data flow and the
optimizer, where a wrong program comes out most easily.

Then the tools behind the generator composed with it (`Toolchain`), and the front
end: layout, addresses, names (`FrontEnd`).

What is left of the model:

1. operators and calls in `Access` (`do_bin` on values, `do_call_ret`), so that
   an index may be an expression and a call's arguments are in order;
2. `main.cc` as the composition of the front end and the optimizer, with the
   symbol table as it stands after the optimizer has removed declarations;
3. constant folding in `opt.cc`'s `int` against `Words`.

Theorems worth proving next: that no instruction is ever linked twice (`TypeOK` of
`Optimizer`), with the data-flow iterations written as functions; and `TypeOK` of
`Toolchain`, which needs the range of every register number and byte that is printed.
