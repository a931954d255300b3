------------------------------ MODULE Blocks -------------------------------
(***************************************************************************)
(* block.cc: basic blocks, the edges between them, live variables and      *)
(* constants at their borders.                                             *)
(*                                                                         *)
(* A block has its first and last node and its neighbours by number; a     *)
(* block's number is its place in the sequence of blocks.                  *)
(***************************************************************************)
EXTENDS TacList

BOTTOM == -1      \* a variable known not to be constant

(* Mutant: what follows a conditional jump stays in the jump's block. *)
LeaderNotAfterIfz(T, i) ==
  /\ T.node[T.list[i]].op # "ENDFUNC"
  /\ \/ i = 1
     \/ T.node[T.list[i]].op = "LABEL"
     \/ T.node[T.list[i - 1]].op \in {"GOTO", "RETURN", "ENDFUNC"}

is_leader(T, i) ==
  /\ T.node[T.list[i]].op # "ENDFUNC"
  /\ \/ i = 1
     \/ T.node[T.list[i]].op = "LABEL"
     \/ T.node[T.list[i - 1]].op \in {"IFZ", "GOTO", "RETURN", "ENDFUNC"}

build_basic_blocks(T) ==
  LET leaders == SelectSeq([i \in DOMAIN T.list |-> i], LAMBDA i : is_leader(T, i))
  IN  [k \in DOMAIN leaders |->
         [start |-> T.list[leaders[k]],
          end   |-> T.list[IF k < Len(leaders) THEN leaders[k + 1] - 1 ELSE Len(T.list)]]]

find_block_by_label(T, B, label) ==
  LET at == {k \in DOMAIN B : T.node[B[k].start].op = "LABEL" /\ T.node[B[k].start].a = label}
  IN  IF at = {} THEN <<>> ELSE <<CHOOSE k \in at : \A j \in at : k <= j>>

(* The successors in the order their edges are added. ENDFUNC is never     *)
(* between the end of a block just built and the next start, so the        *)
(* search for it in the default case finds nothing.                        *)
Successors(T, B, k) ==
  LET t == T.node[B[k].end]
      next == IF k < Len(B) THEN <<k + 1>> ELSE <<>>
  IN  CASE t.op = "GOTO" -> find_block_by_label(T, B, t.a)
        [] t.op = "IFZ" -> find_block_by_label(T, B, t.a) \o next
        [] t.op \in {"RETURN", "ENDFUNC"} -> <<>>
        [] OTHER -> next

build(T) ==
  LET B == build_basic_blocks(T)
      succ == [k \in DOMAIN B |-> Successors(T, B, k)]
      edges == FlattenSeq([k \in DOMAIN B |-> [i \in DOMAIN succ[k] |-> <<k, succ[k][i]>>]])
      into(k) == SelectSeq(edges, LAMBDA e : e[2] = k)
  IN  [k \in DOMAIN B |->
         [start |-> B[k].start, end |-> B[k].end, successors |-> succ[k],
          predecessors |-> [i \in DOMAIN into(k) |-> into(k)[i][1]]]]

BlockWalk(T, b) == Walk(T, b.start, b.end)

-----------------------------------------------------------------------------
(* Live variables.                                                         *)
LiveBefore(t, live) == (live \ {get_def(t)}) \cup get_uses(t)

LiveThrough(T, b, out) == FoldRight(LAMBDA n, live : LiveBefore(T.node[n], live), BlockWalk(T, b), out)

LiveOut(B, in, k) == UNION {in[s] : s \in ToSet(B[k].successors)}

(* The iteration ends at the least solution whatever the order of visits. *)
RECURSIVE LiveIn(_, _, _)
LiveIn(T, B, in) ==
  LET new == [k \in DOMAIN B |-> LiveThrough(T, B[k], LiveOut(B, in, k))]
  IN  IF new = in THEN in ELSE LiveIn(T, B, new)

compute_live_variables(T, B) == LiveIn(T, B, [k \in DOMAIN B |-> {}])

-----------------------------------------------------------------------------
(* Constants. A variable without an entry is not known at all yet: such an *)
(* entry is taken over from the other predecessors.                        *)
(* Mutant: where the predecessors differ, the first one's value is kept. *)
MeetFirst(p, q) == [v \in DOMAIN p \cup DOMAIN q |-> IF v \in DOMAIN p THEN p[v] ELSE q[v]]

Meet(p, q) ==
  [v \in DOMAIN p \cup DOMAIN q |->
     IF v \in DOMAIN p /\ v \in DOMAIN q
     THEN IF p[v] = q[v] THEN p[v] ELSE BOTTOM
     ELSE IF v \in DOMAIN p THEN p[v] ELSE q[v]]

Known(env, s) ==
  IF IsConst(s) THEN s.value ELSE IF s \in DOMAIN env THEN env[s] ELSE BOTTOM

Value(t, env) ==
  LET b == Known(env, t.b)
      c == Known(env, t.c)
  IN  IF t.op = "COPY" THEN b
      ELSE IF /\ t.op \in Arithmetic
              /\ BOTTOM \notin {b, c}
              /\ ~(t.op = "DIV" /\ c = 0)
           THEN Alu(t.op, b, c) ELSE BOTTOM

Bind(env, v, w) == [x \in DOMAIN env \cup {v} |-> IF x = v THEN w ELSE env[x]]

Learn(t, env) == IF get_def(t) = None THEN env ELSE Bind(env, t.a, Value(t, env))

ConstantsThrough(T, b, in) == FoldLeft(LAMBDA env, n : Learn(T.node[n], env), in, BlockWalk(T, b))

(* The first predecessor's constants, met with each further one's. *)
ConstantsInto(B, out, k) ==
  LET pred == B[k].predecessors
  IN  IF pred = <<>> THEN <<>>
      ELSE FoldLeft(LAMBDA env, p : Meet(env, out[p]), out[Head(pred)], Tail(pred))

(* The work list: blocks whose input may have changed, first in first out. *)
RECURSIVE Propagate(_, _, _, _, _)
Propagate(T, B, queue, in, out) ==
  IF queue = <<>> THEN in
  ELSE LET k == Head(queue)
           from == ConstantsInto(B, out, k)
           to == ConstantsThrough(T, B[k], from)
           again == FoldLeft(LAMBDA q, s : IF Contains(q, s) THEN q ELSE Append(q, s),
                             Tail(queue), B[k].successors)
       IN  Propagate(T, B, IF to = out[k] THEN Tail(queue) ELSE again,
                     [in EXCEPT ![k] = from], [out EXCEPT ![k] = to])

compute_constant_propagation(T, B) ==
  LET nothing == [k \in DOMAIN B |-> <<>>]
  IN  Propagate(T, B, [k \in DOMAIN B |-> k], nothing, nothing)
=============================================================================
