----------------------------- MODULE Optimizer -----------------------------
(***************************************************************************)
(* TACOptimizer::optimize (opt.cc): the passes in their order, round after *)
(* round, over the list and the blocks they share.                         *)
(*                                                                         *)
(* An action is one pass over all blocks (loop-invariant code motion: one  *)
(* loop). The blocks are built anew only where the code does so, and are   *)
(* otherwise used as the passes before have left them.                     *)
(*                                                                         *)
(* Admit names the situations in which a pass changes what the program     *)
(* means. A situation that is not admitted is left out by the guards:      *)
(*   "stale"   a copy's source was assigned since the copy                 *)
(*   "key"     a product meets an equal sum, or the reverse                *)
(*   "hoist"   a definition leaves a loop that may not want it             *)
(*   "emptied" all instructions of a block leave the loop                  *)
(*   "global"  a variable may be read before it is written                 *)
(*   "alias"   a variable is reached by name and through a pointer         *)
(*   "first"   the first instruction declares a variable nobody uses       *)
(***************************************************************************)
EXTENDS Passes

CONSTANTS
  Programs,   \* lists of TACs as the generator emits them
  Admit

VARIABLES
  tac,        \* the list: [node, list]
  blocks,
  phase,      \* the pass that comes next
  header,     \* the loop header code motion comes to next, 0 for none
  round,
  changed,    \* global_changed
  flow,       \* data flow at the blocks' borders: [live, constants]
  promised    \* what the program meant in the beginning

vars == <<tac, blocks, phase, header, round, changed, flow, promised>>

MAX_GLOBAL_ITER == 20

NoFlow == [live |-> <<>>, constants |-> <<>>]

(* A variable whose address is taken and that is also used by its name. *)
Aliased(code) ==
  \E i, j \in DOMAIN code :
    /\ code[i].op = "ADDR"
    /\ code[j].op \notin {"ADDR", "VAR"}
    /\ code[i].b \in {code[j].a, code[j].b, code[j].c}

Init ==
  \E code \in Programs :
    /\ Aliased(code) => "alias" \in Admit
    /\ tac = [node |-> code, list |-> [i \in DOMAIN code |-> i]]
    /\ blocks = build([node |-> code, list |-> [i \in DOMAIN code |-> i]])
    /\ phase = "local" /\ header = 0 /\ round = 1 /\ changed = FALSE
    /\ flow = NoFlow
    /\ promised = Meaning(code)

LocalPasses ==
  LET r == FoldLeft(optimize_block_local, [T |-> tac, wrong |-> FALSE], blocks)
  IN  /\ phase = "local"
      /\ r.wrong => "stale" \in Admit
      /\ tac' = r.T
      /\ phase' = "cse"
      /\ UNCHANGED <<blocks, header, round, changed, flow, promised>>

NextHeader(h) ==
  LET more == {k \in DOMAIN blocks : k > h /\ is_loop_header(blocks, k)}
  IN  IF more = {} THEN 0 ELSE CHOOSE k \in more : \A j \in more : k <= j

Cse ==
  LET r == FoldLeft(common_subexpression_elimination, [T |-> tac, changed |-> FALSE, wrong |-> FALSE], blocks)
  IN  /\ phase = "cse"
      /\ r.wrong => "key" \in Admit
      /\ tac' = r.T
      /\ changed' = r.changed
      /\ header' = NextHeader(0)
      /\ phase' = IF NextHeader(0) = 0 THEN "flow" ELSE "licm"
      /\ UNCHANGED <<blocks, round, flow, promised>>

Licm ==
  \E order \in LoopOrders(blocks, header) :
    LET r == loop_invariant_code_motion(tac, blocks, header, order)
    IN  /\ r.wrong => "hoist" \in Admit
        /\ Emptied(r.T, r.B) => "emptied" \in Admit
        /\ tac' = r.T
        /\ blocks' = r.B
        /\ changed' = (changed \/ r.changed)
        /\ header' = NextHeader(header)
        /\ phase' = IF NextHeader(header) = 0 THEN "flow" ELSE "licm"
        /\ UNCHANGED <<round, flow, promised>>

MoveInvariants == phase = "licm" /\ Licm

DataFlow ==
  LET in == compute_live_variables(tac, blocks)
  IN  /\ phase = "flow"
      /\ in[1] # {} => "global" \in Admit
      /\ flow' = [live |-> [k \in DOMAIN blocks |-> LiveOut(blocks, in, k)],
                  constants |-> compute_constant_propagation(tac, blocks)]
      /\ phase' = "constants"
      /\ UNCHANGED <<tac, blocks, header, round, changed, promised>>

Constants ==
  LET r == global_constant_propagation(tac, blocks, flow.constants)
  IN  /\ phase = "constants"
      /\ tac' = r.T
      /\ changed' = (changed \/ r.changed)
      /\ phase' = "fold"
      /\ UNCHANGED <<blocks, header, round, flow, promised>>

Fold ==
  LET step(acc, b) == LET r == local_constant_folding(acc.T, BlockWalk(acc.T, b))
                      IN  [T |-> r.T, changed |-> acc.changed \/ r.changed]
      r == FoldLeft(step, [T |-> tac, changed |-> FALSE], blocks)
  IN  /\ phase = "fold"
      /\ tac' = r.T
      /\ changed' = (changed \/ r.changed)
      /\ phase' = "dead"
      /\ UNCHANGED <<blocks, header, round, flow, promised>>

(* Mutant: the blocks are kept although the list has changed. *)
NotRebuilt(r, B) == B

Rebuilt(r, B) == IF r.changed THEN build(r.T) ELSE B

DeadCode ==
  LET r == global_dead_code_elimination(tac, blocks, flow.live)
  IN  /\ phase = "dead"
      /\ tac' = r.T
      /\ blocks' = Rebuilt(r, blocks)
      /\ changed' = (changed \/ r.changed)
      /\ phase' = "jumps"
      /\ UNCHANGED <<header, round, flow, promised>>

Jumps ==
  LET r == simplify_control_flow(tac)
  IN  /\ phase = "jumps"
      /\ tac' = r.T
      /\ blocks' = Rebuilt(r, blocks)
      /\ changed' = (changed \/ r.changed)
      /\ phase' = "unreachable"
      /\ UNCHANGED <<header, round, flow, promised>>

(* The last pass of a round: another round follows if anything changed. *)
Unreachable ==
  LET r == eliminate_unreachable_code(tac, blocks)
      more == (changed \/ r.changed) /\ round < MAX_GLOBAL_ITER
  IN  /\ phase = "unreachable"
      /\ tac' = r.T
      /\ blocks' = Rebuilt(r, blocks)
      /\ round' = IF more THEN round + 1 ELSE round
      /\ changed' = IF more THEN FALSE ELSE changed \/ r.changed
      /\ phase' = IF more THEN "local" ELSE "declarations"
      /\ UNCHANGED <<header, flow, promised>>

Declarations ==
  LET T == eliminate_unused_var_declarations(tac)
  IN  /\ phase = "declarations"
      /\ 1 \notin ToSet(T.list) => "first" \in Admit
      /\ tac' = T
      /\ phase' = "done"
      /\ UNCHANGED <<blocks, header, round, changed, flow, promised>>

Next ==
  \/ LocalPasses \/ Cse \/ MoveInvariants
  \/ DataFlow \/ Constants \/ Fold \/ DeadCode
  \/ Jumps \/ Unreachable
  \/ Declarations

Spec == Init /\ [][Next]_vars

-----------------------------------------------------------------------------
Code == [i \in DOMAIN tac.list |-> tac.node[tac.list[i]]]

TypeOK ==
  /\ ToSet(tac.list) \subseteq DOMAIN tac.node
  /\ Cardinality(ToSet(tac.list)) = Len(tac.list)
  /\ phase \in {"local", "cse", "licm", "flow", "constants", "fold", "dead", "jumps",
                "unreachable", "declarations", "done"}
  /\ header \in {0} \cup DOMAIN blocks
  /\ round \in 1 .. MAX_GLOBAL_ITER
  /\ changed \in BOOLEAN

(* The optimizer keeps the meaning of the program (TAC_OPTIMIZER_GUIDE.md  *)
(* 1318, 1339-1342): after every pass the program handed on prints what it *)
(* printed before the first, unless it stopped with an error then.         *)
SameMeaning ==
  LET now == Meaning(Emitted(tac))
  IN  \A input \in Inputs : promised[input].pc = -1 \/ now[input] = promised[input]

(* A variable is declared before it is used, in the order of the text: the *)
(* code generator gives it its place when it meets the declaration.        *)
DeclaredFirst ==
  phase = "done" =>
    LET code == Emitted(tac)
    IN  \A i \in DOMAIN code : \A s \in {code[i].a, code[i].b, code[i].c} :
          IsVar(s) => \E j \in 1 .. i : code[j].op = "VAR" /\ code[j].a = s

(* What constant propagation believes at the entry of a block of variables *)
(* that are still read is true every time a run gets there.                *)
ConstantsHold ==
  phase = "constants" =>
    \A input \in Inputs : \A r \in ToSet(Execution(Code, input)) : \A k \in DOMAIN blocks :
      r.pc > 0 /\ tac.list[r.pc] = blocks[k].start =>
        \A v \in DOMAIN flow.constants[k] \cap LiveThrough(tac, blocks[k], flow.live[k]) :
          flow.constants[k][v] \in {BOTTOM, r.store[v]}

(* A value that some run still reads after a block is live at its end when *)
(* dead code is eliminated: changing it there cannot go unnoticed.         *)
Follow(i) ==
  LET t == Code[i]
      to == {j \in DOMAIN Code : Code[j].op = "LABEL" /\ Code[j].a = t.a}
      next == IF i < Len(Code) THEN {i + 1} ELSE {}
  IN  CASE t.op = "GOTO" -> to
        [] t.op = "IFZ" -> to \cup next
        [] t.op \in {"RETURN", "ENDFUNC"} -> {}
        [] OTHER -> next

RECURSIVE Readable(_, _, _)
Readable(v, seen, now) ==
  LET past == {i \in now : v \notin get_uses(Code[i]) /\ get_def(Code[i]) # v}
      more == UNION {Follow(i) : i \in past} \ (seen \cup now)
  IN  \/ \E i \in now : v \in get_uses(Code[i])
      \/ more # {} /\ Readable(v, seen \cup now, more)

LiveEnough ==
  phase \in {"constants", "dead"} =>
    \A k \in DOMAIN blocks : \A v \in Variables(Code) :
      Place(tac, blocks[k].end) # 0 /\ Readable(v, {}, Follow(Place(tac, blocks[k].end)))
        => v \in flow.live[k]

(* The blocks cover the list, each instruction once and in order, when a   *)
(* round begins.                                                           *)
BlocksCover ==
  phase = "local" => FlattenSeq([k \in DOMAIN blocks |-> BlockWalk(tac, blocks[k])]) = tac.list

(* The rounds end because nothing changes any more, not at their limit. *)
Settles == phase = "declarations" => ~changed
=============================================================================
