---------------------------- MODULE ControlFlow ----------------------------
(***************************************************************************)
(* What the statements mean, to compare the generated jumps with: which    *)
(* atom of the program runs after which, by recursion on the structure of  *)
(* the program, and by following labels in the code.                       *)
(*                                                                         *)
(* sel gives the value every switch finds; a test goes either way.         *)
(***************************************************************************)
EXTENDS Control

(* A place in the program: an atom, or one of the ends. *)
At(op, id) == <<op, id>>
End == <<"END", 0>>
Lost == <<"LOST", 0>>
Returned == <<"RETURNED", 0>>

Head1(s) == IF s.calc THEN At("EVAL", s.id) ELSE At("IFZ", s.id)

(* Where a switch continues: behind the case of its value, else behind     *)
(* default, else past its end.                                             *)
Target(s, sel) ==
  LET at(k) == {i \in DOMAIN s.body : s.body[i] = k}
      hit == at([kind |-> "case", value |-> sel[s.id]])
  IN  IF hit # {} THEN CHOOSE i \in hit : TRUE
      ELSE IF at([kind |-> "default"]) # {} THEN CHOOSE i \in at([kind |-> "default"]) : TRUE
      ELSE Len(s.body) + 1

From(body, i) == SubSeq(body, i, Len(body))

InLoop(k, s) ==
  [next |-> IF s.kind = "for" THEN At("UPDATE", s.id) ELSE Head1(s), break |-> k.next,
   continue |-> IF s.kind = "for" THEN At("UPDATE", s.id) ELSE Head1(s)]

InSwitch(k) == [k EXCEPT !.break = k.next]

-----------------------------------------------------------------------------
(* The first atom that runs when the list of statements runs and control   *)
(* continues as k says. *)
RECURSIVE Enter(_, _, _)
Enter(stmts, k, sel) ==
  IF stmts = <<>> THEN k.next
  ELSE LET s == Head(stmts)
       IN  CASE s.kind \in {"DO", "RETURN"} -> At(s.kind, s.id)
             [] s.kind = "break" -> k.break
             [] s.kind = "continue" -> k.continue
             [] s.kind \in {"case", "default"} -> Enter(Tail(stmts), k, sel)
             [] s.kind \in {"if", "while"} -> Head1(s)
             [] s.kind = "for" -> At("INIT", s.id)
             [] s.kind = "switch" /\ s.calc -> At("EVAL", s.id)
             [] OTHER -> LET after == Enter(Tail(stmts), k, sel)
                         IN  Enter(From(s.body, Target(s, sel)),
                                   InSwitch([k EXCEPT !.next = after]), sel)

(* Every step from an atom of one statement to the next atom: <<from,      *)
(* outcome, to>>, the outcome being that of a test.                        *)
Always(from, to) == {<<from, "any", to>>}

Evaluate(s, to) == IF s.calc THEN Always(At("EVAL", s.id), to) ELSE {}

Decide(s, yes, no) ==
  {<<At("IFZ", s.id), "yes", yes>>, <<At("IFZ", s.id), "no", no>>}
    \cup Evaluate(s, At("IFZ", s.id))

RECURSIVE Flow(_, _, _)
Flow(stmts, k, sel) ==
  IF stmts = <<>> THEN {}
  ELSE LET s == Head(stmts)
           next == Enter(Tail(stmts), k, sel)
           after == [k EXCEPT !.next = next]
       IN  Flow(Tail(stmts), k, sel) \cup
           CASE s.kind = "DO" -> Always(At("DO", s.id), next)
             [] s.kind = "RETURN" -> Always(At("RETURN", s.id), Returned)
             [] s.kind = "if" ->
                  Decide(s, Enter(s.body, after, sel), Enter(s.other, after, sel))
                    \cup Flow(s.body, after, sel) \cup Flow(s.other, after, sel)
             [] s.kind = "while" ->
                  Decide(s, Enter(s.body, InLoop(after, s), sel), next)
                    \cup Flow(s.body, InLoop(after, s), sel)
             [] s.kind = "for" ->
                  Decide(s, Enter(s.body, InLoop(after, s), sel), next)
                    \cup Flow(s.body, InLoop(after, s), sel)
                    \cup Always(At("INIT", s.id), Head1(s))
                    \cup Always(At("UPDATE", s.id), Head1(s))
             [] s.kind = "switch" ->
                  Evaluate(s, Enter(From(s.body, Target(s, sel)), InSwitch(after), sel))
                    \cup Flow(s.body, InSwitch(after), sel)
             [] OTHER -> {}

-----------------------------------------------------------------------------
(* The same, by following the code from pc, at most fuel jumps. *)

Goes(code, l) == IF Places(code, l) = {} THEN 0 ELSE CHOOSE i \in Places(code, l) : TRUE

RECURSIVE Reach(_, _, _, _)
Reach(code, pc, sel, fuel) ==
  IF pc = 0 \/ fuel = 0 THEN Lost
  ELSE IF pc > Len(code) THEN End
  ELSE LET t == code[pc]
       IN  CASE t.op = "LABEL" -> Reach(code, pc + 1, sel, fuel - 1)
             [] t.op = "GOTO" -> Reach(code, Goes(code, t.to), sel, fuel - 1)
             [] t.op = "CASE" -> Reach(code, IF sel[t.id] = t.v THEN Goes(code, t.to) ELSE pc + 1,
                                       sel, fuel - 1)
             [] OTHER -> At(t.op, t.id)

CodeFlow(code, sel) ==
  LET reach(pc) == Reach(code, pc, sel, 2 * Len(code) + 2)
      step(pc) ==
        LET t == code[pc]
        IN  CASE t.op = "IFZ" -> {<<At("IFZ", t.id), "yes", reach(pc + 1)>>,
                                  <<At("IFZ", t.id), "no", reach(Goes(code, t.to))>>}
              [] t.op = "RETURN" -> Always(At("RETURN", t.id), Returned)
              [] t.op \in {"DO", "EVAL", "INIT", "UPDATE"} ->
                   Always(At(t.op, t.id), reach(pc + 1))
              [] OTHER -> {}
  IN  [enter |-> reach(1), steps |-> UNION {step(pc) : pc \in DOMAIN code}]

(* The switches that have cases. *)
Tested(code) == {code[i].id : i \in {j \in DOMAIN code : code[j].op = "CASE"}}

-----------------------------------------------------------------------------
(* The code runs the program's atoms in the program's order: whatever the  *)
(* tests decide and the switches find, each atom is followed by the same   *)
(* atom in the code as in the program.                                     *)
SameFlow ==
  Complete /\ errors = 0 =>
    \A found \in [Tested(open[1].code) -> CaseValues \cup {-1}] :
      LET sel == [id \in 1..atoms |-> IF id \in DOMAIN found THEN found[id] ELSE -1]
          top == [next |-> End, break |-> Lost, continue |-> Lost]
          here == CodeFlow(open[1].code, sel)
      IN  /\ here.enter = Enter(open[1].kids, top, sel)
          /\ here.steps = Flow(open[1].kids, top, sel)
=============================================================================
