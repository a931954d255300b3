------------------------------ MODULE CallStack ------------------------------
(***************************************************************************)
(* What function calls promise, with no memory in sight: a stack of        *)
(* activations, each with the values of its variables, the arguments it    *)
(* has not bound yet and the place to return to.  An activation can change *)
(* its own variables, and those of its callers through a pointer; nothing  *)
(* else changes them.  Module CallFrame implements it in one array.        *)
(***************************************************************************)
EXTENDS Integers, Sequences, SequencesExt

CONSTANTS Value, Sites, Exit

VARIABLES
  stack,   \* the activations, main's first
  pending, \* the ACTUALs of the call being prepared
  at       \* where the last call or return went on

vars == <<stack, pending, at>>

Frames == [vals : Seq(Value), args : Seq(Value), ret : Sites \cup {Exit}]

Init ==
  /\ stack = <<[vals |-> <<>>, args |-> <<>>, ret |-> Exit]>>
  /\ pending = <<>>
  /\ at = "main"

Top == Last(stack)

(* Variables come into being with any value, and are forgotten together.   *)
Declare ==
  /\ Len(stack') = Len(stack)
  /\ Front(stack') = Front(stack)
  /\ LET old == Top.vals
         new == Last(stack').vals
     IN  /\ Len(new) > Len(old)
         /\ SubSeq(new, 1, Len(old)) = old
         /\ \A i \in DOMAIN new : new[i] \in Value
         /\ Last(stack') = [Top EXCEPT !.vals = new]
  /\ UNCHANGED <<pending, at>>

Forget(n) ==
  /\ stack' = Front(stack) \o <<[Top EXCEPT !.vals = SubSeq(@, 1, n)]>>
  /\ UNCHANGED <<pending, at>>

(* One variable changes, of this activation or of a caller. *)
Set(k, i) ==
  /\ Len(stack') = Len(stack)
  /\ i \in DOMAIN stack'[k].vals
  /\ \E v \in {stack'[k].vals[i]} \cap Value : stack' = [stack EXCEPT ![k].vals[i] = v]
  /\ UNCHANGED <<pending, at>>

Actual(v) ==
  /\ pending' = Append(pending, v)
  /\ UNCHANGED <<stack, at>>

Call(s) ==
  /\ stack' = Append(stack, [vals |-> <<>>, args |-> pending, ret |-> s])
  /\ pending' = <<>>
  /\ at' = "callee"

(* A formal takes the last of the arguments no formal has taken. *)
Bind ==
  /\ Top.args # <<>>
  /\ stack' = Front(stack) \o
                <<[Top EXCEPT !.vals = Append(@, Last(Top.args)), !.args = Front(@)]>>
  /\ UNCHANGED <<pending, at>>

Return ==
  /\ at' = Top.ret
  /\ stack' = Front(stack)
  /\ UNCHANGED pending

Next ==
  /\ stack # <<>>
  /\ \/ Declare
     \/ \E n \in 0..Len(Top.vals) : Forget(n)
     \/ \E k \in DOMAIN stack : \E i \in DOMAIN stack[k].vals : Set(k, i)
     \/ \E v \in Value : Actual(v)
     \/ \E s \in Sites : Call(s)
     \/ Bind
     \/ Return

Spec == Init /\ [][Next]_vars
=============================================================================
