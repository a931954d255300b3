------------------------------ MODULE Passes -------------------------------
(***************************************************************************)
(* opt.cc: what each pass does to the list and the blocks.                 *)
(*                                                                         *)
(* A pass returns a record: T the list, B the blocks where it moves their  *)
(* ends, changed what the function returns. `wrong' has no counterpart in  *)
(* the code: it says that the pass took a step that is unsound.            *)
(***************************************************************************)
EXTENDS Blocks

MAX_ITER == 20

(* Constant folding of one instruction. *)
Foldable(t) ==
  \/ /\ t.op \in Arithmetic \cup Relations
     /\ IsConst(t.b) /\ IsConst(t.c)
     /\ ~(t.op = "DIV" /\ t.c.value = 0)
  \/ t.op = "NEG" /\ IsConst(t.b)

Folded(t) ==
  LET result == IF t.op = "NEG" THEN (0 - t.b.value) % W ELSE Alu(t.op, t.b.value, t.c.value)
  IN  IF Foldable(t) THEN Tac("COPY", t.a, Const(result), None) ELSE t

local_constant_folding(T, walk) ==
  [T |-> [T EXCEPT !.node = [n \in DOMAIN @ |-> IF Contains(walk, n) THEN Folded(@[n]) ELSE @[n]]],
   changed |-> \E n \in ToSet(walk) : Foldable(T.node[n])]

(* Copy propagation. copies gives the source of the last copy to each      *)
(* variable; stale are those whose source was assigned since.              *)
Forget(f, v) == [x \in DOMAIN f \ {v} |-> f[x]]

Recorded(copies, t) ==
  IF t.op = "COPY" /\ IsVar(t.b) THEN Bind(copies, t.a, t.b) ELSE Forget(copies, t.a)

CopyStep(acc, n) ==
  LET t == acc.T.node[n]
      copies == Recorded(acc.copies, t)
      hit(s) == IsVar(s) /\ t.op \notin PointerOps /\ s \in DOMAIN copies
      put(s) == IF hit(s) THEN copies[s] ELSE s
      new == [t EXCEPT !.b = put(@), !.c = put(@)]
      def == get_def(new)
      assigned == IF new.op = "COPY" /\ new.b = def THEN {} ELSE {v \in DOMAIN copies : copies[v] = def}
  IN  [T |-> [acc.T EXCEPT !.node[n] = new],
       copies |-> copies,
       stale |-> (acc.stale \ {def}) \cup (assigned \ {def}),
       changed |-> acc.changed \/ hit(t.b) \/ hit(t.c),
       wrong |-> acc.wrong \/ \E s \in {t.b, t.c} : hit(s) /\ s \in acc.stale \ {t.a}]

local_copy_propagation(T, walk) ==
  FoldLeft(CopyStep, [T |-> T, copies |-> <<>>, stale |-> {}, changed |-> FALSE, wrong |-> FALSE], walk)

RECURSIVE LocalRounds(_, _, _, _)
LocalRounds(T, walk, iter, wrong) ==
  LET folded == local_constant_folding(T, walk)
      copied == local_copy_propagation(folded.T, walk)
      bad == wrong \/ copied.wrong
  IN  IF (folded.changed \/ copied.changed) /\ iter < MAX_ITER
      THEN LocalRounds(copied.T, walk, iter + 1, bad)
      ELSE [T |-> copied.T, wrong |-> bad]

optimize_block_local(acc, b) ==
  LET r == LocalRounds(acc.T, BlockWalk(acc.T, b), 1, FALSE)
  IN  IF 0 \in {b.start, b.end} THEN acc ELSE [T |-> r.T, wrong |-> acc.wrong \/ r.wrong]

-----------------------------------------------------------------------------
(* Common subexpressions. ADD and MUL share one key, with the operands     *)
(* ordered. A variable's name that happens to occur within another's makes *)
(* the code forget more than is needed; names here do not.                 *)
Keyed == Arithmetic \cup Relations

get_expression_key(t) ==
  IF t.op \in {"ADD", "MUL"}
  THEN [op |-> "+*", args |-> {t.b, t.c}, left |-> None]
  ELSE [op |-> t.op, args |-> {t.b, t.c}, left |-> t.b]

(* Mutant: expressions outlive the assignment of an operand. *)
NeverInvalidated(exprs, def) == exprs

Invalidated(exprs, def) == [k \in {key \in DOMAIN exprs : def \notin key.args} |-> exprs[k]]

CseStep(acc, n) ==
  LET t == acc.T.node[n]
      key == get_expression_key(t)
      keyed == t.op \in Keyed /\ IsVar(t.a)
      hit == keyed /\ key \in DOMAIN acc.exprs
      new == IF hit THEN Tac("COPY", t.a, acc.exprs[key].a, None) ELSE t
      exprs == IF keyed /\ ~hit THEN Bind(acc.exprs, key, t) ELSE acc.exprs
  IN  [T |-> [acc.T EXCEPT !.node[n] = new],
       exprs |-> Invalidated(exprs, get_def(t)),
       changed |-> acc.changed \/ hit,
       wrong |-> acc.wrong \/ (hit /\ acc.exprs[key].op # t.op)]

common_subexpression_elimination(acc, b) ==
  LET r == FoldLeft(CseStep, [T |-> acc.T, exprs |-> <<>>, changed |-> FALSE, wrong |-> FALSE],
                    BlockWalk(acc.T, b))
  IN  [T |-> r.T, changed |-> acc.changed \/ r.changed, wrong |-> acc.wrong \/ r.wrong]

-----------------------------------------------------------------------------
(* Loop-invariant code motion.                                             *)
is_loop_header(B, h) == \E p \in ToSet(B[h].predecessors) : p >= h

(* The search goes back through the header only if it is its own           *)
(* predecessor.                                                            *)
RECURSIVE Backward(_, _, _)
Backward(B, h, S) ==
  LET stop == {h} \ ToSet(B[h].predecessors)
      more == UNION {ToSet(B[k].predecessors) : k \in S \ stop} \ S
  IN  IF more = {} THEN S ELSE Backward(B, h, S \cup more)

find_loop_blocks(B, h) == Backward(B, h, {h} \cup {p \in ToSet(B[h].predecessors) : p >= h})

(* The loop's instructions but for the header block's, block after block   *)
(* in the order an unordered set gives: pairs of block and node.           *)
LoopOrders(B, h) == SetToSeqs({k \in find_loop_blocks(B, h) \ {h} : 0 \notin {B[k].start, B[k].end}})

LoopInstructions(T, B, order) ==
  FlattenSeq([i \in DOMAIN order |->
                LET walk == BlockWalk(T, B[order[i]]) IN [j \in DOMAIN walk |-> <<order[i], walk[j]>>]])

DefsInLoop(T, instrs, v) == {i \in DOMAIN instrs : get_def(T.node[instrs[i][2]]) = v}

Movable(T, instrs, movable) ==
  {n \in {instrs[i][2] : i \in DOMAIN instrs} :
     LET t == T.node[n]
     IN  /\ t.op \in Keyed \cup {"COPY"}
         /\ Cardinality(DefsInLoop(T, instrs, t.a)) = 1
         /\ \A s \in {t.b, t.c} : IsVar(s) => \A i \in DefsInLoop(T, instrs, s) : instrs[i][2] \in movable}

RECURSIVE AllMovable(_, _, _)
AllMovable(T, instrs, movable) ==
  LET more == Movable(T, instrs, movable)
  IN  IF more = movable THEN movable ELSE AllMovable(T, instrs, more)

(* What moves, in order: the declaration goes ahead of the definition. *)
ToMove(T, instrs) ==
  LET movable == AllMovable(T, instrs, {})
      decl(v) == SelectSeq(instrs, LAMBDA p : T.node[p[2]].op = "VAR" /\ T.node[p[2]].a = v)
      with(p) == LET d == decl(T.node[p[2]].a) IN IF d = <<>> THEN <<p>> ELSE <<Last(d), p>>
      moved == SelectSeq(instrs, LAMBDA p : p[2] \in movable)
  IN  FlattenSeq([i \in DOMAIN moved |-> with(moved[i])])

(* Mutant: the node is moved without being unlinked. *)
StaysLinked(acc, p) == acc

remove_from_block(acc, p) ==
  LET n == p[2]
      b == acc.B[p[1]]
      start == IF b.start = n THEN NextOf(acc.T, n) ELSE b.start
      end == IF b.end = n THEN PrevOf(acc.T, n) ELSE b.end
  IN  [acc EXCEPT !.T = Unlink(@, {n}),
                  !.B[p[1]] = [@ EXCEPT !.start = IF start = 0 THEN end ELSE start, !.end = end]]

insert_after(acc, n, pre) ==
  [acc EXCEPT !.T = LinkAfter(@, n, acc.at), !.at = n,
              !.B[pre].end = IF @ = acc.at THEN n ELSE @]

MoveOne(pre, acc, p) == insert_after(remove_from_block(acc, p), p[2], pre)

Preheaders(B, h) == SelectSeq(B[h].predecessors, LAMBDA p : p \notin find_loop_blocks(B, h))

(* A motion is unsound when the variable's earlier value may still be      *)
(* wanted after the header, when the header assigns the variable or an     *)
(* operand, when the instruction may stop the program, or when a moved     *)
(* operand comes after its use.                                            *)
Unsound(T, B, h, moves) ==
  LET live == compute_live_variables(T, B)[h]
      here == ToSet(BlockWalk(T, B[h]))
      tac(i) == T.node[moves[i][2]]
  IN  \E i \in {j \in DOMAIN moves : tac(j).op # "VAR"} :
        \/ tac(i).a \in live
        \/ tac(i).op = "DIV"
        \/ \E n \in here : get_def(T.node[n]) \in {tac(i).a, tac(i).b, tac(i).c} \ {None}
        \/ \E j \in i + 1 .. Len(moves) : tac(j).op # "VAR" /\ tac(j).a \in {tac(i).b, tac(i).c}

(* A block that has lost all its instructions: its end lies before its     *)
(* start, and a walk over it goes on to the end of the list.               *)
Emptied(T, B) == \E k \in DOMAIN B : Place(T, B[k].end) < Place(T, B[k].start)

loop_invariant_code_motion(T, B, h, order) ==
  LET moves == ToMove(T, LoopInstructions(T, B, order))
      pre == Head(Preheaders(B, h))
      r == FoldLeft(LAMBDA acc, p : MoveOne(pre, acc, p), [T |-> T, B |-> B, at |-> B[pre].end], moves)
  IN  IF moves = <<>> \/ Preheaders(B, h) = <<>>
      THEN [T |-> T, B |-> B, changed |-> FALSE, wrong |-> FALSE]
      ELSE [T |-> r.T, B |-> r.B, changed |-> TRUE, wrong |-> Unsound(T, B, h, moves)]

-----------------------------------------------------------------------------
(* Constants, from those at the block's entry. Only copies of constants    *)
(* are followed inside the block.                                          *)
ConstStep(acc, n) ==
  LET t == acc.T.node[n]
      hit(s) == IsVar(s) /\ Known(acc.env, s) # BOTTOM
      put(s) == IF hit(s) THEN Const(acc.env[s]) ELSE s
      inner == t.op \notin PointerOps
      shown == t.op \in Showing
      new == [t EXCEPT !.a = IF shown THEN put(@) ELSE @,
                       !.b = IF inner THEN put(@) ELSE @, !.c = IF inner THEN put(@) ELSE @]
      value == IF new.op = "COPY" /\ IsConst(new.b) THEN new.b.value ELSE BOTTOM
  IN  [T |-> [acc.T EXCEPT !.node[n] = new],
       env |-> IF get_def(t) = None THEN acc.env ELSE Bind(acc.env, t.a, value),
       changed |-> acc.changed \/ new # t]

global_constant_propagation(T, B, constants) ==
  FoldLeftDomain(LAMBDA acc, k : FoldLeft(ConstStep, [acc EXCEPT !.env = constants[k]], BlockWalk(acc.T, B[k])),
                 [T |-> T, env |-> <<>>, changed |-> FALSE], B)

(* Dead code. The ends of a block that loses instructions are moved too;   *)
(* the blocks are built anew before they are looked at again.              *)
Kept == {"CALL", "INPUT", "LOAD_PTR", "STORE_PTR"}

(* Mutant: an instruction that has to stay counts as eliminated. *)
DeadOrKept(n, acc) ==
  LET t == acc.T.node[n]
      dead == get_def(t) # None /\ get_def(t) \notin acc.live
  IN  IF dead /\ t.op \notin Kept
      THEN [acc EXCEPT !.T = Unlink(@, {n}), !.changed = TRUE]
      ELSE [acc EXCEPT !.live = LiveBefore(t, @), !.changed = @ \/ dead]

DeadStep(n, acc) ==
  LET t == acc.T.node[n]
      def == get_def(t)
  IN  IF def # None /\ def \notin acc.live /\ t.op \notin Kept
      THEN [acc EXCEPT !.T = Unlink(@, {n}), !.changed = TRUE]
      ELSE [acc EXCEPT !.live = LiveBefore(t, @)]

global_dead_code_elimination(T, B, live) ==
  FoldLeftDomain(LAMBDA acc, k : FoldRight(DeadStep, BlockWalk(acc.T, B[k]), [acc EXCEPT !.live = live[k]]),
                 [T |-> T, live |-> {}, changed |-> FALSE], B)

-----------------------------------------------------------------------------
(* Jumps: a test of a constant, a jump to the next instruction.            *)
simplify_control_flow(T) ==
  LET test(n) == T.node[n].op = "IFZ" /\ IsConst(T.node[n].b)
      always == {n \in ToSet(T.list) : test(n) /\ T.node[n].b.value = 0}
      never == {n \in ToSet(T.list) : test(n) /\ T.node[n].b.value # 0}
      useless == {n \in ToSet(T.list) :
                    /\ T.node[n].op = "GOTO"
                    /\ NextOf(T, n) # 0
                    /\ T.node[NextOf(T, n)].op = "LABEL"
                    /\ T.node[NextOf(T, n)].a = T.node[n].a}
      goto(t) == Tac("GOTO", t.a, None, None)
  IN  [T |-> Unlink([T EXCEPT !.node = [n \in DOMAIN @ |-> IF n \in always THEN goto(@[n]) ELSE @[n]]],
                    never \cup useless),
       changed |-> always \cup never \cup useless # {}]

RECURSIVE Reachable(_, _)
Reachable(B, S) ==
  LET more == UNION {ToSet(B[k].successors) : k \in S} \ S
  IN  IF more = {} THEN S ELSE Reachable(B, S \cup more)

eliminate_unreachable_code(T, B) ==
  LET dead == DOMAIN B \ Reachable(B, {1})
  IN  [T |-> FoldLeftDomain(LAMBDA acc, k : IF k \in dead THEN Unlink(acc, ToSet(BlockWalk(acc, B[k]))) ELSE acc,
                            T, B),
       changed |-> dead # {}]

(* Mutant: a variable that is only assigned counts as unused. *)
DropsAssigned(T) ==
  LET used == UNION {get_uses(T.node[n]) : n \in ToSet(T.list)}
  IN  Unlink(T, {n \in ToSet(T.list) : T.node[n].op = "VAR" /\ T.node[n].a \notin used})

eliminate_unused_var_declarations(T) ==
  LET named(t) == {s \in {t.a, t.b, t.c} : IsVar(s)}
      used == UNION {named(T.node[n]) : n \in {m \in ToSet(T.list) : T.node[m].op # "VAR"}}
  IN  Unlink(T, {n \in ToSet(T.list) : T.node[n].op = "VAR" /\ T.node[n].a \notin used})
=============================================================================
