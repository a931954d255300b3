---------------------------- MODULE ThreeAddress ----------------------------
(***************************************************************************)
(* Three-address code as the back end sees it: the symbols an instruction  *)
(* may name (ccpl/src/abstraction/tac_struct.hh, struct SYM), the words    *)
(* they stand for, and the instruction itself (struct TAC).                *)
(***************************************************************************)
EXTENDS Naturals

CONSTANTS
  Vars,         \* VAR symbols an instruction may name
  Shared,       \* those another function can reach: globals, escaped locals
  Addressable,  \* those whose address is taken (operand b of an ADDR)
  AddrOf,       \* their addresses, [Addressable -> Value]
  Lits,         \* CONST_INT, CONST_CHAR and TEXT symbols
  LitVal,       \* their values, [Lits -> Value]
  Zero,         \* the constant 0 that NEG subtracts from, a member of Lits
  None,         \* an absent operand
  Value,        \* machine words
  Arith, Rel,   \* ADD, SUB, ... and EQ, LT, ...
  ALU           \* what they compute, [(Arith \cup Rel) \X Value \X Value -> Value]

Operands == Vars \cup (Lits \ {Zero})

(* The constants a proof relies on; every one of them is a fact about the  *)
(* symbol table of ccpl or about the address space of one activation.      *)
ASSUME SymbolsAssumption ==
  /\ Vars \cap Lits = {}
  /\ None \notin Vars \cup Lits
  /\ Zero \in Lits
  /\ Shared \subseteq Vars
  /\ Addressable \subseteq Shared

ASSUME ValuesAssumption ==
  /\ LitVal \in [Lits -> Value]
  /\ AddrOf \in [Addressable -> Value]
  /\ \A x, y \in Addressable : AddrOf[x] = AddrOf[y] => x = y
  /\ "SUB" \in Arith
  /\ ALU \in [(Arith \cup Rel) \X Value \X Value -> Value]

(* The opcodes that are not operators (enum class TAC_OP).                 *)
ASSUME OpcodesAssumption ==
  (Arith \cup Rel) \cap {"NEG", "COPY", "INPUT", "OUTPUT", "ACTUAL", "GOTO", "LABEL", "IFZ",
                         "CALL", "RETURN", "ADDR", "LOAD_PTR", "STORE_PTR"} = {}

(* The three operands of an instruction, and the record of executing it.   *)
Tac(op, a, b, c) == [op |-> op, a |-> a, b |-> b, c |-> c]

Report(tac, seen, shown) == [tac |-> tac, seen |-> seen, shown |-> shown]

Nothing == <<>>
=============================================================================
