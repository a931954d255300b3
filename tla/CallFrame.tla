------------------------------ MODULE CallFrame ------------------------------
(***************************************************************************)
(* Activation records, ccpl/src/modules/obj.cc.  ObjGenerator lays a       *)
(* function's formals and locals out around R_BP with three compile-time   *)
(* counters (tof, oof, oon) and prints the words a call saves; at run time *)
(* nothing but those words tells one activation from the next.             *)
(*                                                                         *)
(* One action is one TAC, executed.  The counters an activation was        *)
(* compiled with at the place where it is suspended are kept with it in    *)
(* act; that bookkeeping never influences a store, a load or a jump.       *)
(* Addresses are in words (4 bytes).  Register contents are module         *)
(* RegAlloc's: at a call every one of them has been written back.          *)
(***************************************************************************)
EXTENDS Integers, Sequences, SequencesExt

CONSTANTS
  Value,       \* data words
  Sites,       \* the return addresses, one per CALL in the program
  Exit,        \* the address of the final END
  STACK,       \* the address the stack starts at
  StackTop,    \* bound: the first address past it; the code has no such check
  MaxDepth,    \* bound: activations at a time
  MaxVars      \* bound: variables of an activation, and arguments of a call

FORMAL_OFF == -1
OBP_OFF == 0
RET_OFF == 1
LocalsTooLow == 1    \* a wrong LOCAL_OFF, over the return address
LOCAL_OFF == 2

ASSUME LayoutAssumption ==
  /\ STACK \in Nat \ {0}
  /\ StackTop \in Nat
  /\ StackTop >= STACK + LOCAL_OFF

VARIABLES
  mem,   \* the stack's words
  bp,    \* R_BP
  ip,    \* where the last JMP of a call or a return went
  oon,   \* words of the call being prepared
  act    \* the activations: base, tof, oof, offset of each variable, arity, site

vars == <<mem, bp, ip, oon, act>>

Addresses == STACK..(StackTop - 1)

(* What a word of the stack may hold: data, a saved R_BP, a return address. *)
Words == Value \cup Sites \cup {Exit} \cup 0..StackTop

Running == act # <<>>
Top == act[Len(act)]

Activation(base, arity, site) ==
  [base |-> base, tof |-> LOCAL_OFF, oof |-> FORMAL_OFF, offs |-> <<>>,
   arity |-> arity, site |-> site]

ReplaceTop(f) == [act EXCEPT ![Len(act)] = f]

Formals(f) == FORMAL_OFF - f.oof

-----------------------------------------------------------------------------
(* asm_head, and the JMP to main. *)
Init ==
  /\ bp = STACK
  /\ mem = [[a \in Addresses |-> 0] EXCEPT ![STACK + OBP_OFF] = 0, ![STACK + RET_OFF] = Exit]
  /\ ip = "main"
  /\ oon = 0
  /\ act = <<Activation(STACK, 0, Exit)>>

(* A wrong VAR: an array is given one word. *)
VarOneWord(n) ==
  /\ Running /\ oon = 0
  /\ Formals(Top) = Top.arity
  /\ Len(Top.offs) + n <= MaxVars
  /\ bp + Top.tof + n <= StackTop
  /\ act' = ReplaceTop([Top EXCEPT !.offs = @ \o [i \in 1..n |-> Top.tof + i - 1],
                                   !.tof = @ + 1])
  /\ UNCHANGED <<mem, bp, ip, oon>>

(* The arguments of a call are evaluated before its first ACTUAL, so no    *)
(* variable is declared while oon counts.                                  *)
Var(n) ==
  /\ Running /\ oon = 0
  /\ Formals(Top) = Top.arity
  /\ Len(Top.offs) + n <= MaxVars
  /\ bp + Top.tof + n <= StackTop
  /\ act' = ReplaceTop([Top EXCEPT !.offs = @ \o [i \in 1..n |-> Top.tof + i - 1],
                                   !.tof = @ + n])
  /\ UNCHANGED <<mem, bp, ip, oon>>

Formal ==
  /\ Running
  /\ Formals(Top) < Top.arity
  /\ act' = ReplaceTop([Top EXCEPT !.offs = Append(@, Top.oof), !.oof = @ - 1])
  /\ UNCHANGED <<mem, bp, ip, oon>>

(* A jump back to before some declarations: there, tof is smaller.         *)
Rewind(n) ==
  /\ Running /\ oon = 0
  /\ Formals(Top) = Top.arity
  /\ n \in Top.arity..(Len(Top.offs) - 1)
  /\ act' = ReplaceTop([Top EXCEPT !.offs = SubSeq(@, 1, n), !.tof = Top.offs[n + 1]])
  /\ UNCHANGED <<mem, bp, ip, oon>>

(* STO to a variable of the running activation, or through a pointer to a  *)
(* variable of one of its callers.                                         *)
Assign(k, i, v) ==
  /\ Running
  /\ Formals(Top) = Top.arity
  /\ mem' = [mem EXCEPT ![(IF k = Len(act) THEN bp ELSE act[k].base) + act[k].offs[i]] = v]
  /\ UNCHANGED <<bp, ip, oon, act>>

Actual(v) ==
  /\ Running
  /\ Formals(Top) = Top.arity
  /\ oon < MaxVars
  /\ bp + Top.tof + oon < StackTop
  /\ mem' = [mem EXCEPT ![bp + Top.tof + oon] = v]
  /\ oon' = oon + 1
  /\ UNCHANGED <<bp, ip, act>>

(* A wrong CALL: the frame starts over the arguments. *)
CallOverActuals(s) ==
  LET frame == bp + Top.tof IN
  /\ Running
  /\ Formals(Top) = Top.arity
  /\ Len(act) < MaxDepth
  /\ frame + LOCAL_OFF <= StackTop
  /\ mem' = [mem EXCEPT ![frame + OBP_OFF] = bp, ![frame + RET_OFF] = s]
  /\ bp' = frame
  /\ ip' = "callee"
  /\ oon' = 0
  /\ act' = Append(act, Activation(frame, oon, s))

Call(s) ==
  LET frame == bp + Top.tof + oon IN
  /\ Running
  /\ Formals(Top) = Top.arity
  /\ Len(act) < MaxDepth
  /\ frame + LOCAL_OFF <= StackTop
  /\ mem' = [mem EXCEPT ![frame + OBP_OFF] = bp, ![frame + RET_OFF] = s]
  /\ bp' = frame
  /\ ip' = "callee"
  /\ oon' = 0
  /\ act' = Append(act, Activation(frame, oon, s))

(* A wrong return: the two saved words are swapped. *)
ReturnSwapped ==
  /\ Running /\ oon = 0
  /\ Formals(Top) = Top.arity
  /\ ip' = mem[bp + OBP_OFF]
  /\ bp' = mem[bp + RET_OFF]
  /\ act' = SubSeq(act, 1, Len(act) - 1)
  /\ UNCHANGED <<mem, oon>>

Return ==
  /\ Running /\ oon = 0
  /\ Formals(Top) = Top.arity
  /\ ip' = mem[bp + RET_OFF]
  /\ bp' = mem[bp + OBP_OFF]
  /\ act' = SubSeq(act, 1, Len(act) - 1)
  /\ UNCHANGED <<mem, oon>>

Next ==
  \/ \E n \in 1..MaxVars : Var(n)
  \/ Formal
  \/ \E n \in 0..MaxVars : Rewind(n)
  \/ \E k \in DOMAIN act, v \in Value : \E i \in DOMAIN act[k].offs : Assign(k, i, v)
  \/ \E v \in Value : Actual(v)
  \/ \E s \in Sites : Call(s)
  \/ Return

Spec == Init /\ [][Next]_vars

-----------------------------------------------------------------------------
(* The words of memory, read the way the activations' code reads them. *)

Base(k) == act[k].base

WordOf(k, i) == Base(k) + act[k].offs[i]

Variables == UNION {{k} \X DOMAIN act[k].offs : k \in DOMAIN act}

StackView ==
  [k \in DOMAIN act |->
     [vals |-> [i \in DOMAIN act[k].offs |-> mem[WordOf(k, i)]],
      args |-> [i \in 1..(act[k].arity - Formals(act[k])) |->
                  mem[Base(k) - act[k].arity + i - 1]],
      ret |-> act[k].site]]

PendingView == [i \in 1..oon |-> mem[bp + Top.tof + i - 1]]

Stack == INSTANCE CallStack WITH
  Value <- Words, stack <- StackView, pending <- PendingView, at <- ip

(* Every counter is where the layout comment of the architecture document  *)
(* puts it, every word holds something.                                    *)
TypeOK ==
  /\ mem \in [Addresses -> Words]
  /\ bp \in 0..StackTop
  /\ ip \in Sites \cup {Exit, "main", "callee"}
  /\ oon \in Nat
  /\ act \in Seq([base : Addresses, tof : Nat, oof : Int, offs : Seq(Int),
                  arity : Nat, site : Sites \cup {Exit}])

(* R_BP is the running activation's base, and every activation still has   *)
(* the two words its return needs: its caller's base and the return        *)
(* address of the call that made it.                                       *)
LinksIntact ==
  /\ Running => bp = Top.base
  /\ \A k \in DOMAIN act :
       /\ mem[Base(k) + RET_OFF] = act[k].site
       /\ k > 1 => mem[Base(k) + OBP_OFF] = Base(k - 1)

(* No two variables of any activations share a word, and none is a word a  *)
(* return needs.                                                           *)
WordsDisjoint ==
  \A p \in Variables :
    /\ \A q \in Variables : WordOf(p[1], p[2]) = WordOf(q[1], q[2]) => p = q
    /\ \A k \in DOMAIN act : WordOf(p[1], p[2]) - Base(k) \notin {OBP_OFF, RET_OFF}

(* Calls and returns behave like a stack of activations: whatever a callee *)
(* declares, passes on or calls, its callers' variables change only when   *)
(* it stores through a pointer to them, and a return goes to the place the *)
(* call came from.                                                         *)
Implements == Stack!Spec

(* "actual a  # push first argument / actual b  # push second argument"    *)
(* and "`x` at BP - 4, `y` at BP - 8" for int func(int x, int y)           *)
(* (the_ccpl_architecture.md): formals take the arguments in their order.  *)
FormalsInOrder ==
  [][Formal => Last(Last(StackView').vals) = Head(Last(StackView).args)]_vars
=============================================================================
