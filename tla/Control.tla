------------------------------ MODULE Control ------------------------------
(***************************************************************************)
(* Control flow becomes labels and jumps: TACGenerator's context stacks    *)
(* (ccpl/src/modules/tac.cc) as ASTToTACGenerator drives them              *)
(* (ccpl/src/modules/ast_to_tac.cc, generate_*_stmt).                      *)
(*                                                                         *)
(* The tree walk calls a begin_ handler when it enters a construct and the *)
(* matching end_ handler when the construct's body has been generated; an  *)
(* action is one such call, and the sequence of actions is the program     *)
(* being compiled.  open holds the constructs the walk is inside of: the   *)
(* code their bodies have so far (the TAC list held by the C++ frame) and  *)
(* the statements it came from, which only the properties look at.         *)
(*                                                                         *)
(* A statement is an atom with a number of its own.  An expression that    *)
(* computes something contributes an EVAL to the code (EXP::code).  The    *)
(* conditions of if and of loops all do here; the expression of a switch   *)
(* may be a plain variable, whose EXP::code is null.                       *)
(***************************************************************************)
EXTENDS Integers, Sequences, FiniteSets, SequencesExt

CONSTANTS
  CaseValues,   \* the constants case labels use
  Admit,        \* which of the Cases below may happen
  MaxAtoms,     \* bound: statements, and case labels beyond the least
  MaxNest       \* bound: constructs inside one another

(* Three legal programs the generator does not translate as written.       *)
(*   "calc"      a switch on an expression that computes something         *)
(*   "nodefault" a switch without default                                  *)
(*   "continue"  a continue inside a switch inside a loop                  *)
Cases == {"calc", "nodefault", "continue"}

ASSUME ControlAssumption ==
  /\ CaseValues \subseteq Nat
  /\ Admit \subseteq Cases
  /\ MaxAtoms \in Nat /\ MaxNest \in Nat

VARIABLES
  next_label, loop_stack, switch_stack, context_type_stack,
  open,         \* the constructs being generated, the function's body first
  atoms,        \* statements and expressions so far
  errors        \* programs the generator complained about

vars == <<next_label, loop_stack, switch_stack, context_type_stack, open, atoms, errors>>

contexts == <<loop_stack, switch_stack, context_type_stack>>

-----------------------------------------------------------------------------
(* The instructions control flow is made of.  CASE is the pair SUB, IFZ    *)
(* that end_switch emits per case label. *)

Tac(op, to, id, v) == [op |-> op, to |-> to, id |-> id, v |-> v]

Label(l) == Tac("LABEL", l, 0, 0)
Goto(l) == Tac("GOTO", l, 0, 0)
Ifz(l, id) == Tac("IFZ", l, id, 0)
CaseJump(l, id, v) == Tac("CASE", l, id, v)

(* exp->code *)
Code(calc, id) == IF calc THEN <<Tac("EVAL", 0, id, 0)>> ELSE <<>>

Construct(kind, id, calc) ==
  [kind |-> kind, id |-> id, calc |-> calc, code |-> <<>>, kids |-> <<>>,
   thenCode |-> <<>>, thenKids |-> <<>>]

Current == Last(open)
Enclosing == Front(open)

(* join_tac: statements generated one after another are one list.          *)
Emit(stack, code, kids) ==
  Append(Front(stack), [Last(stack) EXCEPT !.code = @ \o code, !.kids = @ \o kids])

(* A wrong in_loop: any switch around hides the loop. *)
InLoopAlone == loop_stack # <<>> /\ switch_stack = <<>>

in_loop == loop_stack # <<>> /\ Last(context_type_stack) = "LOOP"
in_switch == switch_stack # <<>> /\ Last(context_type_stack) = "SWITCH"

Room(n) == atoms + n <= MaxAtoms
Deep == Len(open) <= MaxNest

-----------------------------------------------------------------------------
(* Statements without a body. *)

Simple(op) ==
  /\ Room(1)
  /\ atoms' = atoms + 1
  /\ open' = Emit(open, <<Tac(op, 0, atoms', 0)>>, <<[kind |-> op, id |-> atoms']>>)
  /\ UNCHANGED <<next_label, contexts, errors>>

Jump(kind, l) ==
  /\ open' = Emit(open, <<Goto(l)>>, <<[kind |-> kind]>>)
  /\ UNCHANGED errors

Complain(kids) ==
  /\ errors' = errors + 1
  /\ open' = Emit(open, <<>>, kids)

Break ==
  /\ Room(1)
  /\ atoms' = atoms + 1
  /\ \/ in_loop /\ Jump("break", Last(loop_stack).break)
     \/ in_switch /\ Jump("break", Last(switch_stack).break)
     \/ ~in_loop /\ ~in_switch /\ Complain(<<>>)
  /\ UNCHANGED <<next_label, contexts>>

Continue ==
  /\ Room(1)
  /\ atoms' = atoms + 1
  /\ \/ in_loop /\ Jump("continue", Last(loop_stack).continue)
     \/ /\ ~in_loop
        /\ loop_stack # <<>> => "continue" \in Admit
        /\ Complain(IF loop_stack # <<>> THEN <<[kind |-> "continue"]>> ELSE <<>>)
  /\ UNCHANGED <<next_label, contexts>>

-----------------------------------------------------------------------------
(* Conditionals take their labels when they are complete. *)

OpenIf ==
  /\ Room(1) /\ Deep
  /\ atoms' = atoms + 1
  /\ open' = Append(open, Construct("if", atoms', TRUE))
  /\ UNCHANGED <<next_label, contexts, errors>>

Else ==
  /\ Current.kind = "if"
  /\ open' = Append(Enclosing, [Current EXCEPT !.kind = "else", !.code = <<>>, !.kids = <<>>,
                                               !.thenCode = @ \o Current.code,
                                               !.thenKids = Current.kids])
  /\ UNCHANGED <<next_label, contexts, atoms, errors>>

do_if(c) ==
  Code(c.calc, c.id) \o <<Ifz(next_label, c.id)>> \o c.code \o <<Label(next_label)>>

(* A wrong do_if_else: both labels get one number. *)
OneLabel(c) ==
  Code(c.calc, c.id) \o <<Ifz(next_label, c.id)>> \o c.thenCode
    \o <<Goto(next_label), Label(next_label)>> \o c.code \o <<Label(next_label)>>

do_if_else(c) ==
  Code(c.calc, c.id) \o <<Ifz(next_label, c.id)>> \o c.thenCode
    \o <<Goto(next_label + 1), Label(next_label)>> \o c.code \o <<Label(next_label + 1)>>

CloseIf ==
  /\ \/ /\ Current.kind = "if"
        /\ open' = Emit(Enclosing, do_if(Current),
                        <<[kind |-> "if", id |-> Current.id, calc |-> Current.calc,
                           body |-> Current.kids, other |-> <<>>]>>)
        /\ next_label' = next_label + 1
     \/ /\ Current.kind = "else"
        /\ open' = Emit(Enclosing, do_if_else(Current),
                        <<[kind |-> "if", id |-> Current.id, calc |-> Current.calc,
                           body |-> Current.thenKids, other |-> Current.kids]>>)
        /\ next_label' = next_label + 2
  /\ UNCHANGED <<contexts, atoms, errors>>

-----------------------------------------------------------------------------
(* Loops take theirs first, for the breaks and continues inside. *)

enter_loop(loop) ==
  /\ loop_stack' = Append(loop_stack, loop)
  /\ context_type_stack' = Append(context_type_stack, "LOOP")
  /\ UNCHANGED switch_stack

(* A wrong leave_loop: the loop's context type stays. *)
LeaveLoopOnly ==
  /\ loop_stack' = Front(loop_stack)
  /\ UNCHANGED <<switch_stack, context_type_stack>>

leave_loop ==
  /\ loop_stack' = Front(loop_stack)
  /\ context_type_stack' = Front(context_type_stack)
  /\ UNCHANGED switch_stack

OpenWhile ==
  /\ Room(1) /\ Deep
  /\ atoms' = atoms + 1
  /\ enter_loop([continue |-> next_label, break |-> next_label + 1, start |-> 0])
  /\ next_label' = next_label + 2
  /\ open' = Append(open, Construct("while", atoms', TRUE))
  /\ UNCHANGED errors

do_while(c, loop) ==
  <<Label(loop.continue)>> \o Code(c.calc, c.id) \o <<Ifz(loop.break, c.id)>>
    \o c.code \o <<Goto(loop.continue), Label(loop.break)>>

CloseWhile ==
  /\ Current.kind = "while"
  /\ open' = Emit(Enclosing, do_while(Current, Last(loop_stack)),
                  <<[kind |-> "while", id |-> Current.id, calc |-> Current.calc,
                     body |-> Current.kids]>>)
  /\ leave_loop
  /\ UNCHANGED <<next_label, atoms, errors>>

OpenFor ==
  /\ Room(1) /\ Deep
  /\ atoms' = atoms + 1
  /\ enter_loop([start |-> next_label, continue |-> next_label + 1, break |-> next_label + 2])
  /\ next_label' = next_label + 3
  /\ open' = Append(open, Construct("for", atoms', TRUE))
  /\ UNCHANGED errors

(* A wrong do_for: continue skips the update. *)
ContinuePastUpdate(c, loop) ==
  <<Tac("INIT", 0, c.id, 0), Label(loop.start)>> \o Code(c.calc, c.id)
    \o <<Ifz(loop.break, c.id)>> \o c.code
    \o <<Tac("UPDATE", 0, c.id, 0), Label(loop.continue), Goto(loop.start), Label(loop.break)>>

do_for(c, loop) ==
  <<Tac("INIT", 0, c.id, 0), Label(loop.start)>> \o Code(c.calc, c.id)
    \o <<Ifz(loop.break, c.id)>> \o c.code
    \o <<Label(loop.continue), Tac("UPDATE", 0, c.id, 0), Goto(loop.start), Label(loop.break)>>

CloseFor ==
  /\ Current.kind = "for"
  /\ open' = Emit(Enclosing, do_for(Current, Last(loop_stack)),
                  <<[kind |-> "for", id |-> Current.id, calc |-> Current.calc,
                     body |-> Current.kids]>>)
  /\ leave_loop
  /\ UNCHANGED <<next_label, atoms, errors>>

-----------------------------------------------------------------------------
(* A switch collects the labels of its cases while its body is generated   *)
(* and puts the tests in front.  The walk finds case and default labels in *)
(* the switch's own block, each value once: what C asks for.               *)

OpenSwitch(calc) ==
  /\ Room(1) /\ Deep
  /\ calc => "calc" \in Admit
  /\ atoms' = atoms + 1
  /\ switch_stack' = Append(switch_stack, [break |-> next_label, default |-> next_label + 1,
                                           case_labels |-> <<>>])
  /\ context_type_stack' = Append(context_type_stack, "SWITCH")
  /\ next_label' = next_label + 2
  /\ open' = Append(open, Construct("switch", atoms', calc))
  /\ UNCHANGED <<loop_stack, errors>>

Marked(k) == \E i \in DOMAIN Current.kids : Current.kids[i] = k

(* To bound the program, a case label beyond the least counts as a         *)
(* statement, and only a switch of the function's own level has any.       *)
Further(v) == IF \A w \in CaseValues : v <= w THEN 0 ELSE 1

(* A wrong do_case: label and value are stored the wrong way round. *)
CaseSwapped(v) ==
  /\ Current.kind = "switch" /\ in_switch
  /\ ~Marked([kind |-> "case", value |-> v])
  /\ Room(Further(v)) /\ (Further(v) > 0 => Len(open) = 2)
  /\ atoms' = atoms + Further(v)
  /\ switch_stack' = [switch_stack EXCEPT ![Len(switch_stack)].case_labels =
                        Append(@, <<next_label, v>>)]
  /\ next_label' = next_label + 1
  /\ open' = Emit(open, <<Label(next_label)>>, <<[kind |-> "case", value |-> v]>>)
  /\ UNCHANGED <<loop_stack, context_type_stack, errors>>

Case(v) ==
  /\ Current.kind = "switch" /\ in_switch
  /\ ~Marked([kind |-> "case", value |-> v])
  /\ Room(Further(v)) /\ (Further(v) > 0 => Len(open) = 2)
  /\ atoms' = atoms + Further(v)
  /\ switch_stack' = [switch_stack EXCEPT ![Len(switch_stack)].case_labels =
                        Append(@, <<v, next_label>>)]
  /\ next_label' = next_label + 1
  /\ open' = Emit(open, <<Label(next_label)>>, <<[kind |-> "case", value |-> v]>>)
  /\ UNCHANGED <<loop_stack, context_type_stack, errors>>

Default ==
  /\ Current.kind = "switch" /\ in_switch
  /\ ~Marked([kind |-> "default"])
  /\ open' = Emit(open, <<Label(Last(switch_stack).default)>>, <<[kind |-> "default"]>>)
  /\ UNCHANGED <<next_label, contexts, atoms, errors>>

(* exp->code is not joined; the values are tested in the unordered_map's   *)
(* order, any order doing as well: no value occurs twice.                  *)
end_switch(c, ctx) ==
  [i \in DOMAIN ctx.case_labels |-> CaseJump(ctx.case_labels[i][2], c.id, ctx.case_labels[i][1])]
    \o <<Goto(ctx.default)>> \o c.code \o <<Label(ctx.break)>>

CloseSwitch ==
  /\ Current.kind = "switch" /\ in_switch
  /\ Marked([kind |-> "default"]) \/ "nodefault" \in Admit
  /\ open' = Emit(Enclosing, end_switch(Current, Last(switch_stack)),
                  <<[kind |-> "switch", id |-> Current.id, calc |-> Current.calc,
                     body |-> Current.kids]>>)
  /\ switch_stack' = Front(switch_stack)
  /\ context_type_stack' = Front(context_type_stack)
  /\ UNCHANGED <<next_label, loop_stack, atoms, errors>>

-----------------------------------------------------------------------------
Init ==
  /\ next_label = 1
  /\ loop_stack = <<>> /\ switch_stack = <<>> /\ context_type_stack = <<>>
  /\ open = <<Construct("function", 0, FALSE)>>
  /\ atoms = 0
  /\ errors = 0

Next ==
  \/ \E op \in {"DO", "RETURN"} : Simple(op)
  \/ Break
  \/ Continue
  \/ OpenIf
  \/ OpenWhile
  \/ OpenFor
  \/ \E calc \in BOOLEAN : OpenSwitch(calc)
  \/ Else
  \/ CloseIf
  \/ CloseWhile
  \/ CloseFor
  \/ \E v \in CaseValues : Case(v)
  \/ Default
  \/ CloseSwitch

Spec == Init /\ [][Next]_vars

-----------------------------------------------------------------------------
Complete == Len(open) = 1

(* Label numbers, stacks and counters are what the handlers read and write. *)
TypeOK ==
  /\ next_label \in Nat \ {0}
  /\ atoms \in 0..MaxAtoms
  /\ errors \in 0..MaxAtoms
  /\ \A i \in DOMAIN loop_stack :
       loop_stack[i] \in [start : Nat, continue : Nat, break : Nat]
  /\ \A i \in DOMAIN switch_stack :
       /\ DOMAIN switch_stack[i] = {"break", "default", "case_labels"}
       /\ \A j \in DOMAIN switch_stack[i].case_labels :
            switch_stack[i].case_labels[j] \in CaseValues \X Nat
  /\ \A i \in DOMAIN context_type_stack : context_type_stack[i] \in {"LOOP", "SWITCH"}

(* The constructs around the walk that a break may leave.                  *)
Loops == {k \in DOMAIN open : open[k].kind \in {"while", "for"}}
Switches == {k \in DOMAIN open : open[k].kind = "switch"}

(* How many members of S there are down to the construct at depth k.       *)
Rank(S, k) == Cardinality(S \cap 1..k)

(* Wherever the walk is, break and continue find the innermost construct:  *)
(* the three stacks together are the loops and switches that are open.     *)
ContextsMirrorNesting ==
  LET breakable == Loops \cup Switches
  IN  /\ Len(loop_stack) = Cardinality(Loops)
      /\ Len(switch_stack) = Cardinality(Switches)
      /\ Len(context_type_stack) = Cardinality(breakable)
      /\ \A k \in breakable :
           context_type_stack[Rank(breakable, k)] = IF k \in Loops THEN "LOOP" ELSE "SWITCH"

Places(code, l) == {i \in DOMAIN code : code[i] = Label(l)}

(* In a complete function every jump has exactly one label to go to, and   *)
(* no label is defined twice: the assembler would take address 0 for a     *)
(* missing label, which restarts the program.                              *)
JumpsLand ==
  LET code == open[1].code IN
  Complete =>
    \A i \in DOMAIN code :
      code[i].op \in {"GOTO", "IFZ", "CASE", "LABEL"} =>
        Cardinality(Places(code, code[i].to)) = 1

(* "`continue;` - Skip to next iteration of loop" (the_ccpl_language.md):  *)
(* the generator complains about no continue that a loop encloses.         *)
LegalAccepted ==
  [][loop_stack # <<>> => errors' = errors]_vars
=============================================================================
