--------------------------- MODULE ControlProofs ---------------------------
(***************************************************************************)
(* Proofs about Control for programs of any size, nested to any depth.     *)
(*                                                                         *)
(* IInv says how the three stacks follow the constructs the walk is in; it *)
(* holds whichever Cases are admitted.  LInv accounts for every label: one *)
(* that was numbered is either placed already, once, or owed by exactly    *)
(* one construct under way, which places it when it ends; and a jump goes  *)
(* to a label placed beside it or owed by a construct around it.           *)
(***************************************************************************)
EXTENDS Control, FiniteSetTheorems, SequenceTheorems, TLAPS

Listed(s) == s \in Seq({s[i] : i \in 1..Len(s)})

Ops == {"DO", "RETURN", "EVAL", "INIT", "UPDATE", "LABEL", "GOTO", "IFZ", "CASE"}

Tacs ==
  {t \in [op : Ops, to : Nat, id : Nat, v : Nat] :
     t.op = "LABEL" => t.id = 0 /\ t.v = 0}

(* The labels a piece of code places, and those it jumps to.               *)
Placed(c) == {c[i].to : i \in {j \in DOMAIN c : c[j].op = "LABEL"}}

Jumped(c) == {c[i].to : i \in {j \in DOMAIN c : c[j].op \in {"GOTO", "IFZ", "CASE"}}}

Single(c) ==
  \A i, j \in DOMAIN c :
    c[i].op = "LABEL" /\ c[j].op = "LABEL" /\ c[i].to = c[j].to => i = j

Kinds == {"function", "if", "else", "while", "for", "switch"}

Frame(f) ==
  /\ DOMAIN f = {"kind", "id", "calc", "code", "kids", "thenCode", "thenKids"}
  /\ f.kind \in Kinds /\ f.id \in Nat /\ f.calc \in BOOLEAN
  /\ f.code \in Seq(Tacs) /\ f.thenCode \in Seq(Tacs)
  /\ f.kind # "else" => f.thenCode = <<>>
  /\ Listed(f.kids)

LoopContext == [start : Nat, continue : Nat, break : Nat]
SwitchContext == [break : Nat, default : Nat, case_labels : Seq(CaseValues \X Nat)]

Depth == Len(open)

StacksTyped ==
  /\ loop_stack \in Seq(LoopContext)
  /\ switch_stack \in Seq(SwitchContext)
  /\ context_type_stack \in Seq({"LOOP", "SWITCH"})

OpenTyped ==
  /\ Listed(open) /\ Depth >= 1
  /\ \A k \in 1..Depth : Frame(open[k]) /\ (open[k].kind = "function" <=> k = 1)

WellTyped ==
  /\ next_label \in Nat \ {0}
  /\ atoms \in 0..MaxAtoms /\ errors \in 0..atoms
  /\ StacksTyped
  /\ OpenTyped

(* Every rank up to the number of S is that of some member.                *)
Ranked(S) == \A i \in 1..Cardinality(S) : \E k \in S : Rank(S, k) = i

(* A stack with an entry for each member of S, and each entry someone's.   *)
Follows(s, S) == Len(s) = Cardinality(S) /\ Ranked(S)

Breakable == Loops \cup Switches

Mirrored ==
  /\ Follows(loop_stack, Loops)
  /\ Follows(switch_stack, Switches)
  /\ Follows(context_type_stack, Breakable)
  /\ \A k \in Breakable :
       context_type_stack[Rank(Breakable, k)] = IF k \in Loops THEN "LOOP" ELSE "SWITCH"

IInv == WellTyped /\ Mirrored

LoopAt(k) == loop_stack[Rank(Loops, k)]
SwitchAt(k) == switch_stack[Rank(Switches, k)]

(* The labels of a construct under way, and those it has not placed yet.   *)
PlacedBy(f) == Placed(f.thenCode) \cup Placed(f.code)
JumpedBy(f) == Jumped(f.thenCode) \cup Jumped(f.code)
Once(f) == Single(f.thenCode) /\ Single(f.code) /\ Placed(f.thenCode) \cap Placed(f.code) = {}

HasDefault(f) == \E i \in DOMAIN f.kids : f.kids[i] = [kind |-> "default"]

Owed(k) ==
  CASE open[k].kind = "while" -> {LoopAt(k).continue, LoopAt(k).break}
    [] open[k].kind = "for" -> {LoopAt(k).start, LoopAt(k).continue, LoopAt(k).break}
    [] open[k].kind = "switch" ->
         {SwitchAt(k).break} \cup (IF HasDefault(open[k]) THEN {} ELSE {SwitchAt(k).default})
    [] OTHER -> {}

(* What placed, jumped and owed say of the depths down to n, when w is the *)
(* next number: no label belongs to two of them, nor is it both placed and *)
(* owed; a jump goes to a label placed at its own depth or owed around it. *)
Accounts(n, placed, jumped, owed, w) ==
  /\ \A k \in 1..n : placed[k] \subseteq 1..(w - 1) /\ owed[k] \subseteq 1..(w - 1)
  /\ \A k, m \in 1..n :
       /\ placed[k] \cap owed[m] = {}
       /\ k # m => placed[k] \cap placed[m] = {} /\ owed[k] \cap owed[m] = {}
  /\ \A k \in 1..n : \A l \in jumped[k] :
       l \in placed[k] \/ \E m \in 1..k : l \in owed[m]

PlacedAll == [k \in 1..Depth |-> PlacedBy(open[k])]
JumpedAll == [k \in 1..Depth |-> JumpedBy(open[k])]
OwedAll == [k \in 1..Depth |-> Owed(k)]

LabelsAccounted ==
  /\ \A k \in 1..Depth : Once(open[k])
  /\ Accounts(Depth, PlacedAll, JumpedAll, OwedAll, next_label)

LoopOwn(k) ==
  /\ LoopAt(k).continue # LoopAt(k).break
  /\ open[k].kind = "for" => LoopAt(k).start \notin {LoopAt(k).continue, LoopAt(k).break}

SwitchOwn(k) ==
  /\ SwitchAt(k).break # SwitchAt(k).default
  /\ HasDefault(open[k]) => SwitchAt(k).default \in PlacedBy(open[k])
  /\ \A j \in DOMAIN SwitchAt(k).case_labels :
       SwitchAt(k).case_labels[j][2] \in PlacedBy(open[k])

OwnLabels ==
  /\ \A k \in Loops : LoopOwn(k)
  /\ \A k \in Switches : SwitchOwn(k)

LInv == LabelsAccounted /\ OwnLabels

-----------------------------------------------------------------------------
(* Sequences. *)

(* What Listed says of a sequence's elements. *)
LEMMA ListedMeans ==
  ASSUME NEW s, Listed(s)
  PROVE  Len(s) \in Nat /\ DOMAIN s = 1..Len(s)
  BY LenProperties DEF Listed

(* Any sequence of a known set is Listed. *)
LEMMA SeqIsListed ==
  ASSUME NEW S, NEW s \in Seq(S)
  PROVE  Listed(s)
<1>1. PICK n : n = Len(s)
  OBVIOUS
<1>2. n \in Nat /\ s \in [1..n -> S]
  BY <1>1, LenProperties
<1>3. s \in [1..n -> {s[i] : i \in 1..n}]
  BY <1>2
<1>4. s \in Seq({s[i] : i \in 1..n})
  BY <1>2, <1>3, SeqDef
<1> QED BY <1>1, <1>4 DEF Listed

(* The sequence t is s, of length n, with e after it.                      *)
Appended(s, n, e, t) ==
  Listed(t) /\ Len(t) = n + 1 /\ t[n + 1] = e /\ \A i \in 1..n : t[i] = s[i]

(* The sequence t is s, of length n, without its last element.             *)
Fronted(s, n, t) ==
  Listed(t) /\ Len(t) = n - 1 /\ Last(s) = s[n] /\ \A i \in 1..(n - 1) : t[i] = s[i]

(* The sequence u is s, of length m, followed by t, of length n.           *)
Concatenated(s, m, t, n, u) ==
  /\ Listed(u) /\ Len(u) = m + n /\ m \in Nat /\ n \in Nat
  /\ \A i \in 1..m : u[i] = s[i]
  /\ \A i \in 1..n : u[m + i] = t[i]

(* One element more. *)
LEMMA ListedAppend ==
  ASSUME NEW s, Listed(s), NEW n, n = Len(s), NEW e, NEW t, t = Append(s, e)
  PROVE  Appended(s, n, e, t)
<1>1. PICK S : s \in Seq(S) /\ e \in S
  <2>1. PICK R : s \in Seq(R)
    BY DEF Listed
  <2>2. s \in Seq(R \cup {e})
    BY <2>1, SeqMonotonic
  <2> QED BY <2>2
<1>2. t \in Seq(S) /\ Len(t) = Len(s) + 1 /\ Len(s) \in Nat
      /\ \A i \in 1..(Len(s) + 1) : t[i] = IF i = Len(s) + 1 THEN e ELSE s[i]
  BY <1>1, AppendProperties, LenProperties
<1>3. n \in Nat /\ Len(t) = n + 1 /\ \A i \in 1..(n + 1) : t[i] = IF i = n + 1 THEN e ELSE s[i]
  BY <1>2
<1>4. n + 1 \in 1..(n + 1) /\ \A i \in 1..n : i \in 1..(n + 1) /\ i # n + 1
  BY <1>3
<1>5. Listed(t)
  BY <1>2, SeqIsListed
<1>6. Len(t) = n + 1 /\ t[n + 1] = e /\ \A i \in 1..n : t[i] = s[i]
  BY <1>3, <1>4
<1> QED BY <1>5, <1>6 DEF Appended

(* One element less. *)
LEMMA ListedFront ==
  ASSUME NEW s, Listed(s), NEW n, n = Len(s), n >= 1, NEW t, t = Front(s)
  PROVE  Fronted(s, n, t)
<1>1. PICK S : s \in Seq(S)
  BY DEF Listed
<1>2. n \in Nat /\ \A i \in 1..n : s[i] \in S
  BY <1>1, ElementOfSeq, LenProperties
<1>3. t = SubSeq(s, 1, n - 1)
  BY DEF Front
<1>4. 1 \in Int /\ n - 1 \in Int /\ \A i \in 1..(n - 1) : s[i] \in S
  BY <1>2
<1>5. /\ t \in Seq(S)
      /\ Len(t) = IF 1 <= n - 1 THEN n - 1 - 1 + 1 ELSE 0
      /\ \A i \in 1..(n - 1 - 1 + 1) : t[i] = s[1 + i - 1]
  BY <1>3, <1>4, SubSeqProperties
<1>6. Len(t) = n - 1 /\ n - 1 - 1 + 1 = n - 1 /\ \A i \in 1..(n - 1) : 1 + i - 1 = i
  BY <1>2, <1>5
<1>7. Last(s) = s[n]
  BY DEF Last
<1>8. Listed(t)
  BY <1>5, SeqIsListed
<1>9. \A i \in 1..(n - 1) : t[i] = s[i]
  BY <1>5, <1>6
<1> QED BY <1>6, <1>7, <1>8, <1>9 DEF Fronted

(* Two sequences, one after the other. *)
LEMMA ListedConcat ==
  ASSUME NEW s, Listed(s), NEW m, m = Len(s), NEW t, Listed(t), NEW n, n = Len(t),
         NEW u, u = s \o t
  PROVE  Concatenated(s, m, t, n, u)
<1>1. PICK S : s \in Seq(S) /\ t \in Seq(S)
  <2>1. PICK R, Q : s \in Seq(R) /\ t \in Seq(Q)
    BY DEF Listed
  <2>2. s \in Seq(R \cup Q) /\ t \in Seq(R \cup Q)
    BY <2>1, SeqMonotonic
  <2> QED BY <2>2
<1>2. /\ u \in Seq(S) /\ Len(u) = Len(s) + Len(t)
      /\ Len(s) \in Nat /\ Len(t) \in Nat
      /\ \A i \in 1..(Len(s) + Len(t)) : u[i] = IF i <= Len(s) THEN s[i] ELSE t[i - Len(s)]
  BY <1>1, ConcatProperties, LenProperties
<1>3. /\ m \in Nat /\ n \in Nat
      /\ \A i \in 1..(m + n) : u[i] = IF i <= m THEN s[i] ELSE t[i - m]
  BY <1>2
<1>4. /\ \A i \in 1..m : i \in 1..(m + n) /\ i <= m
      /\ \A i \in 1..n : m + i \in 1..(m + n) /\ ~(m + i <= m) /\ m + i - m = i
  BY <1>3
<1>5. Listed(u)
  BY <1>2, SeqIsListed
<1>6. Len(u) = m + n
  BY <1>2
<1>7. \A i \in 1..m : u[i] = s[i]
  BY <1>3, <1>4
<1>8. \A i \in 1..n : u[m + i] = t[i]
  BY <1>3, <1>4
<1> QED BY <1>3, <1>5, <1>6, <1>7, <1>8 DEF Concatenated

-----------------------------------------------------------------------------
(* Code: the labels it places, each once, and those it jumps to.           *)

Piece(c, p, j) == c \in Seq(Tacs) /\ Placed(c) = p /\ Jumped(c) = j /\ Single(c)

(* The elements of the two sets. *)
LEMMA PlacedMeans ==
  ASSUME NEW c
  PROVE  \A l : l \in Placed(c) <=> \E i \in DOMAIN c : c[i].op = "LABEL" /\ c[i].to = l
  BY DEF Placed

(* The elements of the set of labels jumped to. *)
LEMMA JumpedMeans ==
  ASSUME NEW c
  PROVE  \A l : l \in Jumped(c) <=>
                 \E i \in DOMAIN c : c[i].op \in {"GOTO", "IFZ", "CASE"} /\ c[i].to = l
  BY DEF Jumped

(* Code placed after code. *)
LEMMA Joined ==
  ASSUME NEW c, NEW p, NEW j, Piece(c, p, j), NEW d, NEW q, NEW k, Piece(d, q, k),
         p \cap q = {}
  PROVE  Piece(c \o d, p \cup q, j \cup k)
<1>1. PICK m, n, u : m = Len(c) /\ n = Len(d) /\ u = c \o d
  OBVIOUS
<1>2. /\ Listed(c) /\ Listed(d) /\ DOMAIN c = 1..m /\ DOMAIN d = 1..n
      /\ u \in Seq(Tacs)
  BY <1>1, SeqIsListed, ListedMeans, ConcatProperties DEF Piece
<1>3. /\ Len(u) = m + n /\ m \in Nat /\ n \in Nat
      /\ \A i \in 1..m : u[i] = c[i]
      /\ \A i \in 1..n : u[m + i] = d[i]
  <2>1. Concatenated(c, m, d, n, u)
    BY <1>1, <1>2, ListedConcat
  <2> QED BY <2>1 DEF Concatenated
<1>4. DOMAIN u = 1..(m + n)
  BY <1>2, <1>3, LenProperties
<1>5. \A i \in 1..(m + n) : i \in 1..m \/ \E e \in 1..n : i = m + e
  <2> SUFFICES ASSUME NEW i \in 1..(m + n), i \notin 1..m
               PROVE  \E e \in 1..n : i = m + e
    OBVIOUS
  <2>1. i - m \in 1..n /\ i = m + (i - m)
    BY <1>3
  <2> QED BY <2>1
<1>6. /\ \A i \in 1..m : i \in 1..(m + n)
      /\ \A i \in 1..n : m + i \in 1..(m + n)
  BY <1>3
<1>7. \A e, f \in 1..n : e = f => m + e = m + f
  OBVIOUS
<1>8. Placed(u) = p \cup q
  <2>1. ASSUME NEW l \in Placed(u)
        PROVE  l \in p \cup q
    <3>1. PICK i \in 1..(m + n) : u[i].op = "LABEL" /\ u[i].to = l
      BY <1>4, PlacedMeans
    <3>2. CASE i \in 1..m
      BY <1>2, <1>3, <3>1, <3>2, PlacedMeans DEF Piece
    <3>3. ASSUME NEW e \in 1..n, i = m + e
          PROVE  l \in q
      <4>1. u[i] = d[e] /\ e \in DOMAIN d
        BY <1>2, <1>3, <3>3
      <4>2. u[i].to \in Placed(d)
        BY <3>1, <4>1, PlacedMeans
      <4> QED BY <3>1, <4>2 DEF Piece
    <3> QED BY <1>5, <3>2, <3>3
  <2>2. ASSUME NEW l \in p
        PROVE  l \in Placed(u)
    <3>1. PICK i \in 1..m : c[i].op = "LABEL" /\ c[i].to = l
      BY <1>2, PlacedMeans DEF Piece
    <3> QED BY <1>3, <1>4, <1>6, <3>1, PlacedMeans
  <2>3. ASSUME NEW l \in q
        PROVE  l \in Placed(u)
    <3>1. PICK i \in 1..n : d[i].op = "LABEL" /\ d[i].to = l
      BY <1>2, PlacedMeans DEF Piece
    <3>2. u[m + i] = d[i] /\ m + i \in DOMAIN u
      BY <1>3, <1>4, <1>6
    <3> QED BY <3>1, <3>2, PlacedMeans
  <2> QED BY <2>1, <2>2, <2>3
<1>9. Jumped(u) = j \cup k
  <2>1. ASSUME NEW l \in Jumped(u)
        PROVE  l \in j \cup k
    <3>1. PICK i \in 1..(m + n) : u[i].op \in {"GOTO", "IFZ", "CASE"} /\ u[i].to = l
      BY <1>4, JumpedMeans
    <3>2. CASE i \in 1..m
      BY <1>2, <1>3, <3>1, <3>2, JumpedMeans DEF Piece
    <3>3. ASSUME NEW e \in 1..n, i = m + e
          PROVE  l \in k
      <4>1. u[i] = d[e] /\ e \in DOMAIN d
        BY <1>2, <1>3, <3>3
      <4>2. u[i].to \in Jumped(d)
        BY <3>1, <4>1, JumpedMeans
      <4> QED BY <3>1, <4>2 DEF Piece
    <3> QED BY <1>5, <3>2, <3>3
  <2>2. ASSUME NEW l \in j
        PROVE  l \in Jumped(u)
    <3>1. PICK i \in 1..m : c[i].op \in {"GOTO", "IFZ", "CASE"} /\ c[i].to = l
      BY <1>2, JumpedMeans DEF Piece
    <3> QED BY <1>3, <1>4, <1>6, <3>1, JumpedMeans
  <2>3. ASSUME NEW l \in k
        PROVE  l \in Jumped(u)
    <3>1. PICK i \in 1..n : d[i].op \in {"GOTO", "IFZ", "CASE"} /\ d[i].to = l
      BY <1>2, JumpedMeans DEF Piece
    <3>2. u[m + i] = d[i] /\ m + i \in DOMAIN u
      BY <1>3, <1>4, <1>6
    <3> QED BY <3>1, <3>2, JumpedMeans
  <2> QED BY <2>1, <2>2, <2>3
<1>10. Single(u)
  <2> SUFFICES ASSUME NEW a \in 1..(m + n), NEW b \in 1..(m + n),
                      u[a].op = "LABEL", u[b].op = "LABEL", u[a].to = u[b].to
               PROVE  a = b
    BY <1>4 DEF Single
  <2>1. \A i \in 1..m : u[i].op = "LABEL" => u[i].to \in p
    BY <1>2, <1>3, PlacedMeans DEF Piece
  <2>2. ASSUME NEW i \in 1..n, u[m + i].op = "LABEL"
        PROVE  u[m + i].to \in q
    <3>1. u[m + i] = d[i] /\ i \in DOMAIN d
      BY <1>2, <1>3
    <3>2. u[m + i].to \in Placed(d)
      BY <2>2, <3>1, PlacedMeans
    <3> QED BY <3>2 DEF Piece
  <2>3. CASE a \in 1..m /\ b \in 1..m
    BY <1>2, <1>3, <2>3 DEF Single, Piece
  <2>4. ASSUME NEW e \in 1..n, NEW f \in 1..n, a = m + e, b = m + f
        PROVE  a = b
    <3>1. d[e].op = "LABEL" /\ d[f].op = "LABEL" /\ d[e].to = d[f].to
      BY <1>3, <2>4
    <3>2. e = f
      BY <1>2, <3>1 DEF Single, Piece
    <3> QED BY <2>4, <3>2
  <2>5. ASSUME a \in 1..m, NEW f \in 1..n, b = m + f
        PROVE  FALSE
    BY <2>1, <2>2, <2>5
  <2>6. ASSUME NEW e \in 1..n, a = m + e, b \in 1..m
        PROVE  FALSE
    BY <2>1, <2>2, <2>6
  <2> QED BY <1>5, <2>3, <2>4, <2>5, <2>6
<1> QED BY <1>1, <1>2, <1>8, <1>9, <1>10 DEF Piece

(* No code. *)
LEMMA NoPiece ==
  Piece(<<>>, {}, {})
<1>1. Placed(<<>>) = {} /\ Jumped(<<>>) = {}
  BY PlacedMeans, JumpedMeans
<1> QED BY <1>1, EmptySeq DEF Piece, Single

(* One instruction. *)
LEMMA OnePiece ==
  ASSUME NEW t \in Tacs
  PROVE  Piece(<<t>>, IF t.op = "LABEL" THEN {t.to} ELSE {},
               IF t.op \in {"GOTO", "IFZ", "CASE"} THEN {t.to} ELSE {})
<1>1. <<t>> \in Seq(Tacs) /\ DOMAIN <<t>> = {1} /\ <<t>>[1] = t
  OBVIOUS
<1>2. PICK u : u = <<t>>
  OBVIOUS
<1>3. u \in Seq(Tacs) /\ DOMAIN u = {1} /\ u[1] = t
  BY <1>1, <1>2
<1>4. Single(u)
  BY <1>3 DEF Single
<1>5. Placed(u) = IF t.op = "LABEL" THEN {t.to} ELSE {}
  BY <1>3, PlacedMeans
<1>6. Jumped(u) = IF t.op \in {"GOTO", "IFZ", "CASE"} THEN {t.to} ELSE {}
  BY <1>3, JumpedMeans
<1>7. Piece(u, Placed(u), Jumped(u))
  BY <1>3, <1>4 DEF Piece
<1> QED BY <1>2, <1>5, <1>6, <1>7

(* Two instructions one after the other. *)
LEMMA TwoInstructions ==
  ASSUME NEW a \in Tacs, NEW b \in Tacs
  PROVE  <<a, b>> = <<a>> \o <<b>>
<1>1. <<a>> \in Seq(Tacs) /\ <<b>> \in Seq(Tacs) /\ <<a, b>> \in Seq(Tacs)
  OBVIOUS
<1>2. Len(<<a, b>>) = 2 /\ Len(<<a>>) = 1 /\ Len(<<b>>) = 1
  OBVIOUS
<1>3. PICK u : u = <<a>> \o <<b>>
  OBVIOUS
<1>4. u \in Seq(Tacs) /\ Len(u) = 2
  BY <1>1, <1>2, <1>3, ConcatProperties
<1>5. u[1] = a /\ u[2] = b
  BY <1>1, <1>2, <1>3, ConcatProperties
<1>6. \A i \in 1..2 : u[i] = <<a, b>>[i]
  BY <1>5
<1> QED BY <1>1, <1>2, <1>3, <1>4, <1>6, SeqEqual

(* One instruction is a label, a jump or neither. *)
LEMMA LabelPiece ==
  ASSUME NEW t \in Tacs, t.op = "LABEL"
  PROVE  Piece(<<t>>, {t.to}, {})
<1>1. (IF t.op = "LABEL" THEN {t.to} ELSE {}) = {t.to}
  OBVIOUS
<1>2. (IF t.op \in {"GOTO", "IFZ", "CASE"} THEN {t.to} ELSE {}) = {}
  OBVIOUS
<1> QED BY <1>1, <1>2, OnePiece

(* A jump, a test and a case jump to their label. *)
LEMMA JumpPiece ==
  ASSUME NEW t \in Tacs, t.op \in {"GOTO", "IFZ", "CASE"}
  PROVE  Piece(<<t>>, {}, {t.to})
<1>1. (IF t.op = "LABEL" THEN {t.to} ELSE {}) = {}
  OBVIOUS
<1>2. (IF t.op \in {"GOTO", "IFZ", "CASE"} THEN {t.to} ELSE {}) = {t.to}
  OBVIOUS
<1> QED BY <1>1, <1>2, OnePiece

(* No other instruction has a label. *)
LEMMA PlainPiece ==
  ASSUME NEW t \in Tacs, t.op \notin {"LABEL", "GOTO", "IFZ", "CASE"}
  PROVE  Piece(<<t>>, {}, {})
<1>1. (IF t.op = "LABEL" THEN {t.to} ELSE {}) = {}
  OBVIOUS
<1>2. (IF t.op \in {"GOTO", "IFZ", "CASE"} THEN {t.to} ELSE {}) = {}
  OBVIOUS
<1> QED BY <1>1, <1>2, OnePiece

(* The instructions of control flow. *)
LEMMA Instructions ==
  ASSUME NEW l \in Nat, NEW id \in Nat, NEW calc \in BOOLEAN
  PROVE  /\ Piece(<<Label(l)>>, {l}, {}) /\ Label(l) \in Tacs
         /\ Piece(<<Goto(l)>>, {}, {l}) /\ Goto(l) \in Tacs
         /\ Piece(<<Ifz(l, id)>>, {}, {l})
         /\ Piece(Code(calc, id), {}, {})
         /\ \A op \in {"DO", "RETURN", "INIT", "UPDATE"} :
              Piece(<<Tac(op, 0, id, 0)>>, {}, {}) /\ Tac(op, 0, id, 0) \in Tacs
<1>1. Label(l) \in Tacs /\ Label(l).op = "LABEL" /\ Label(l).to = l
  BY DEF Label, Tac, Tacs, Ops
<1>2. Piece(<<Label(l)>>, {l}, {})
  <2>1. PICK t : t = Label(l)
    OBVIOUS
  <2>2. t \in Tacs /\ t.op = "LABEL" /\ {t.to} = {l}
    BY <1>1, <2>1
  <2>3. Piece(<<t>>, {t.to}, {})
    BY <2>2, LabelPiece
  <2> QED BY <2>1, <2>2, <2>3
<1>3. Goto(l) \in Tacs /\ Goto(l).op = "GOTO" /\ Goto(l).to = l
  BY DEF Goto, Tac, Tacs, Ops
<1>4. Piece(<<Goto(l)>>, {}, {l})
  <2>1. PICK t : t = Goto(l)
    OBVIOUS
  <2>2. t \in Tacs /\ t.op = "GOTO" /\ {t.to} = {l}
    BY <1>3, <2>1
  <2>3. Piece(<<t>>, {}, {t.to})
    BY <2>2, JumpPiece
  <2> QED BY <2>1, <2>2, <2>3
<1>5. Ifz(l, id) \in Tacs /\ Ifz(l, id).op = "IFZ" /\ Ifz(l, id).to = l
  BY DEF Ifz, Tac, Tacs, Ops
<1>6. Piece(<<Ifz(l, id)>>, {}, {l})
  <2>1. PICK t : t = Ifz(l, id)
    OBVIOUS
  <2>2. t \in Tacs /\ t.op = "IFZ" /\ {t.to} = {l}
    BY <1>5, <2>1
  <2>3. Piece(<<t>>, {}, {t.to})
    BY <2>2, JumpPiece
  <2> QED BY <2>1, <2>2, <2>3
<1>7. ASSUME NEW op \in {"DO", "RETURN", "INIT", "UPDATE", "EVAL"}
      PROVE  Piece(<<Tac(op, 0, id, 0)>>, {}, {}) /\ Tac(op, 0, id, 0) \in Tacs
  <2>1. PICK t : t = Tac(op, 0, id, 0)
    OBVIOUS
  <2>2. t \in Tacs /\ t.op \notin {"LABEL", "GOTO", "IFZ", "CASE"}
    BY <2>1 DEF Tac, Tacs, Ops
  <2>3. Piece(<<t>>, {}, {})
    BY <2>2, PlainPiece
  <2> QED BY <2>1, <2>2, <2>3
<1>8. Piece(Code(calc, id), {}, {})
  BY <1>7, NoPiece DEF Code
<1> QED BY <1>1, <1>2, <1>3, <1>4, <1>6, <1>7, <1>8

-----------------------------------------------------------------------------
(* Stacks whose entries belong to the members of a set of depths.          *)

(* The rank of a depth: below n, the members of S and of S with n + 1 in   *)
(* it are the same.                                                        *)
LEMMA RankGrows ==
  ASSUME NEW n \in Nat, NEW S \in SUBSET (1..n)
  PROVE  /\ IsFiniteSet(S) /\ Cardinality(S) \in Nat
         /\ Cardinality(S \cup {n + 1}) = Cardinality(S) + 1
         /\ \A k \in S : Rank(S, k) \in 1..Cardinality(S)
         /\ \A k \in 1..n : Rank(S \cup {n + 1}, k) = Rank(S, k)
         /\ Rank(S \cup {n + 1}, n + 1) = Cardinality(S) + 1
<1>1. IsFiniteSet(S)
  <2>1. IsFiniteSet(1..n)
    BY 1 \in Int, n \in Int, FS_Interval
  <2> QED BY <2>1, FS_Subset
<1>2. Cardinality(S) \in Nat
  BY <1>1, FS_CardinalityType
<1>3. Cardinality(S \cup {n + 1}) = Cardinality(S) + 1
  <2>1. n + 1 \notin S
    OBVIOUS
  <2> QED BY <1>1, <2>1, FS_AddElement
<1>4. ASSUME NEW k \in S
      PROVE  Rank(S, k) \in 1..Cardinality(S)
  <2>1. S \cap 1..k \in SUBSET S /\ k \in S \cap 1..k
    OBVIOUS
  <2>2. IsFiniteSet(S \cap 1..k) /\ Cardinality(S \cap 1..k) <= Cardinality(S)
    BY <1>1, <2>1, FS_Subset
  <2>3. Cardinality(S \cap 1..k) \in Nat /\ Cardinality(S \cap 1..k) # 0
    BY <2>1, <2>2, FS_CardinalityType, FS_EmptySet
  <2> QED BY <1>2, <2>2, <2>3 DEF Rank
<1>5. ASSUME NEW k \in 1..n
      PROVE  Rank(S \cup {n + 1}, k) = Rank(S, k)
  <2>1. (S \cup {n + 1}) \cap 1..k = S \cap 1..k
    OBVIOUS
  <2> QED BY <2>1 DEF Rank
<1>6. Rank(S \cup {n + 1}, n + 1) = Cardinality(S) + 1
  <2> DEFINE T == S \cup {n + 1}
  <2>1. \A x \in T : x \in 1..(n + 1)
    OBVIOUS
  <2> HIDE DEF T
  <2>2. T \cap 1..(n + 1) = T
    BY <2>1
  <2> QED BY <1>3, <2>2 DEF Rank, T
<1> QED BY <1>1, <1>2, <1>3, <1>4, <1>5, <1>6

(* s belongs to S as t to T; T has the new deepest member, with entry e;   *)
(* or it lacks the deepest of S, whose entry was s's last.                 *)
Pushing(n, S, s, T, t, e, E) ==
  /\ n \in Nat /\ S \in SUBSET (1..n) /\ T = S \cup {n + 1}
  /\ s \in Seq(E) /\ Follows(s, S) /\ e \in E /\ t = Append(s, e)

Pushed(n, S, s, T, t, e, E) ==
  /\ t \in Seq(E) /\ Follows(t, T)
  /\ \A k \in S : t[Rank(T, k)] = s[Rank(S, k)]
  /\ t[Rank(T, n + 1)] = e

Popped(n, S, s, T, t) ==
  /\ Follows(t, T)
  /\ \A k \in T : /\ t[Rank(T, k)] = s[Rank(S, k)]
                  /\ Rank(S, k) # Len(s)
  /\ Last(s) = s[Rank(S, n)] /\ Rank(S, n) = Len(s)
  /\ Len(s) \in Nat \ {0}

(* One depth more with an entry of its own. *)
LEMMA PushedFollows ==
  ASSUME NEW n, NEW S, NEW s, NEW T, NEW t, NEW e, NEW E, Pushing(n, S, s, T, t, e, E)
  PROVE  Pushed(n, S, s, T, t, e, E)
<1>0. /\ n \in Nat /\ S \in SUBSET (1..n) /\ T = S \cup {n + 1}
      /\ s \in Seq(E) /\ Follows(s, S) /\ e \in E /\ t = Append(s, e)
  BY DEF Pushing
<1>1. /\ Cardinality(S) \in Nat /\ Cardinality(T) = Cardinality(S) + 1
      /\ \A k \in S : Rank(S, k) \in 1..Cardinality(S)
      /\ \A k \in S : Rank(T, k) = Rank(S, k)
      /\ Rank(T, n + 1) = Cardinality(S) + 1
  BY <1>0, RankGrows
<1>2. PICK c : c = Cardinality(S)
  OBVIOUS
<1>3. t \in Seq(E)
  BY <1>0, AppendProperties
<1>4. Listed(s) /\ c = Len(s)
  BY <1>0, <1>2, SeqIsListed DEF Follows
<1>5. Len(t) = c + 1 /\ t[c + 1] = e /\ \A i \in 1..c : t[i] = s[i]
  <2>1. Appended(s, c, e, t)
    BY <1>0, <1>4, ListedAppend
  <2> QED BY <2>1 DEF Appended
<1>6. Ranked(T)
  <2> SUFFICES ASSUME NEW i \in 1..(c + 1)
               PROVE  \E k \in T : Rank(T, k) = i
    BY <1>0, <1>1, <1>2 DEF Ranked
  <2>1. CASE i = c + 1
    BY <1>0, <1>1, <1>2, <2>1
  <2>2. CASE i # c + 1
    <3>1. i \in 1..c
      BY <1>1, <1>2, <2>2
    <3>2. PICK k \in S : Rank(S, k) = i
      BY <1>0, <1>2, <3>1 DEF Follows, Ranked
    <3> QED BY <1>0, <1>1, <3>2
  <2> QED BY <2>1, <2>2
<1>7. Follows(t, T)
  BY <1>1, <1>2, <1>5, <1>6 DEF Follows
<1>8. \A k \in S : t[Rank(T, k)] = s[Rank(S, k)]
  BY <1>1, <1>2, <1>5
<1>9. t[Rank(T, n + 1)] = e
  BY <1>1, <1>2, <1>5
<1> QED BY <1>3, <1>7, <1>8, <1>9 DEF Pushed

(* The deepest member's entry is the last, and goes with it. *)
LEMMA PoppedFollows ==
  ASSUME NEW n \in Nat \ {0}, NEW S \in SUBSET (1..n), n \in S,
         NEW E, NEW s \in Seq(E), Follows(s, S),
         NEW t, t = Front(s), NEW T, T = S \ {n}
  PROVE  t \in Seq(E) /\ Popped(n, S, s, T, t) /\ s[Rank(S, n)] \in E
<1>1. /\ n - 1 \in Nat /\ n - 1 + 1 = n /\ T \in SUBSET (1..(n - 1))
      /\ S = T \cup {n - 1 + 1}
  OBVIOUS
<1>2. /\ Cardinality(T) \in Nat /\ Cardinality(S) = Cardinality(T) + 1
      /\ \A k \in T : Rank(T, k) \in 1..Cardinality(T)
      /\ \A k \in T : Rank(S, k) = Rank(T, k)
      /\ Rank(S, n) = Cardinality(T) + 1
  <2> HIDE DEF Rank
  <2>1. /\ Cardinality(T) \in Nat /\ Cardinality(T \cup {n - 1 + 1}) = Cardinality(T) + 1
        /\ \A k \in T : Rank(T, k) \in 1..Cardinality(T)
        /\ \A k \in 1..(n - 1) : Rank(T \cup {n - 1 + 1}, k) = Rank(T, k)
        /\ Rank(T \cup {n - 1 + 1}, n - 1 + 1) = Cardinality(T) + 1
    BY <1>1, RankGrows
  <2> QED BY <1>1, <2>1
<1>3. PICK c : c = Cardinality(T)
  OBVIOUS
<1>4. Listed(s) /\ c + 1 = Len(s) /\ c \in Nat
  BY <1>2, <1>3, SeqIsListed DEF Follows
<1>5. PICK m : m = c + 1
  OBVIOUS
<1>6. m = Len(s) /\ m >= 1 /\ m - 1 = c
  BY <1>4, <1>5
<1>7. Listed(t) /\ Len(t) = c /\ Last(s) = s[m] /\ \A i \in 1..c : t[i] = s[i]
  <2>1. Fronted(s, m, t)
    BY <1>4, <1>6, ListedFront
  <2> QED BY <1>6, <2>1 DEF Fronted
<1>8. t \in Seq(E)
  <2>1. t = SubSeq(s, 1, m - 1)
    BY <1>6 DEF Front
  <2>2. \A i \in 1..(m - 1) : s[i] \in E
    BY <1>4, <1>6, ElementOfSeq
  <2>3. 1 \in Int /\ m - 1 \in Int
    BY <1>4, <1>6
  <2> QED BY <2>1, <2>2, <2>3, SubSeqProperties
<1>9. Ranked(T)
  <2> SUFFICES ASSUME NEW i \in 1..c
               PROVE  \E k \in T : Rank(T, k) = i
    BY <1>3 DEF Ranked
  <2>1. i \in 1..Cardinality(S)
    BY <1>2, <1>3
  <2>2. PICK k \in S : Rank(S, k) = i
    BY <2>1 DEF Follows, Ranked
  <2>3. k # n
    BY <1>2, <1>3, <2>2
  <2> QED BY <1>2, <2>2, <2>3
<1>10. \A k \in T : t[Rank(T, k)] = s[Rank(S, k)] /\ Rank(S, k) # Len(s)
  <2> TAKE k \in T
  <2>1. PICK i : i = Rank(T, k)
    OBVIOUS
  <2>2. i \in 1..c /\ Rank(S, k) = i
    BY <1>2, <1>3, <2>1
  <2>3. i # c + 1
    BY <1>4, <2>2
  <2> QED BY <1>4, <1>7, <2>1, <2>2, <2>3
<1>11. Rank(S, n) = m
  BY <1>2, <1>3, <1>5
<1>12. s[m] \in E
  <2>1. m \in 1..Len(s)
    BY <1>4, <1>6
  <2> QED BY <2>1, ElementOfSeq
<1>13. Follows(t, T)
  BY <1>3, <1>7, <1>9 DEF Follows
<1>14. Len(s) \in Nat \ {0} /\ Len(s) = m
  BY <1>4, <1>6
<1>15. Popped(n, S, s, T, t)
  BY <1>7, <1>10, <1>11, <1>13, <1>14 DEF Popped
<1> QED BY <1>8, <1>11, <1>12, <1>15

-----------------------------------------------------------------------------
(* Constructs under way. *)

(* Every construct the walk is in, and the innermost one. *)
LEMMA Basics ==
  ASSUME WellTyped
  PROVE  /\ Depth \in Nat \ {0} /\ DOMAIN open = 1..Depth
         /\ Current = open[Depth] /\ Frame(open[Depth])
         /\ Loops \in SUBSET (1..Depth) /\ Switches \in SUBSET (1..Depth)
         /\ Loops \cap Switches = {}
         /\ \A k \in 1..Depth : k \in Loops <=> open[k].kind \in {"while", "for"}
         /\ \A k \in 1..Depth : k \in Switches <=> open[k].kind = "switch"
         /\ open[Depth].kind # "function" => Depth >= 2
<1>1. Depth \in Nat \ {0} /\ DOMAIN open = 1..Depth
  BY ListedMeans DEF WellTyped, OpenTyped, Depth
<1>2. Current = open[Depth]
  BY DEF Current, Last, Depth
<1>3. \A k \in 1..Depth : Frame(open[k]) /\ (open[k].kind = "function" <=> k = 1)
  BY DEF WellTyped, OpenTyped
<1>4. Depth \in 1..Depth /\ 1 \in 1..Depth
  BY <1>1
<1>5. Depth # 1 => Depth >= 2
  BY <1>1
<1>6. /\ \A k \in 1..Depth : k \in Loops <=> open[k].kind \in {"while", "for"}
      /\ \A k \in 1..Depth : k \in Switches <=> open[k].kind = "switch"
      /\ Loops \in SUBSET (1..Depth) /\ Switches \in SUBSET (1..Depth)
  BY <1>1 DEF Loops, Switches
<1>7. Loops \cap Switches = {}
  BY <1>6
<1> QED BY <1>1, <1>2, <1>3, <1>4, <1>5, <1>6, <1>7

(* A construct that begins has no code yet. *)
LEMMA NewFrame ==
  ASSUME NEW kind \in Kinds, NEW id \in Nat, NEW calc \in BOOLEAN,
         NEW f, f = Construct(kind, id, calc)
  PROVE  /\ Frame(f) /\ f.kind = kind /\ ~HasDefault(f)
         /\ PlacedBy(f) = {} /\ JumpedBy(f) = {} /\ Once(f)
<1>1. /\ DOMAIN f = {"kind", "id", "calc", "code", "kids", "thenCode", "thenKids"}
      /\ f.kind = kind /\ f.id = id /\ f.calc = calc
      /\ f.code = <<>> /\ f.thenCode = <<>> /\ f.kids = <<>>
  BY DEF Construct
<1>2. Piece(<<>>, {}, {})
  BY NoPiece
<1>3. Listed(<<>>) /\ Len(<<>>) = 0 /\ <<>> \in Seq(Tacs) /\ DOMAIN <<>> = {}
  <2>1. <<>> \in Seq(Tacs)
    BY <1>2 DEF Piece
  <2>2. Listed(<<>>)
    BY <2>1, SeqIsListed
  <2> QED BY <2>1, <2>2, EmptySeq
<1>4. Frame(f)
  BY <1>1, <1>3 DEF Frame
<1>5. PlacedBy(f) = {} /\ JumpedBy(f) = {} /\ Once(f)
  BY <1>1, <1>2 DEF PlacedBy, JumpedBy, Once, Piece
<1>6. ~HasDefault(f)
  BY <1>1, <1>3 DEF HasDefault
<1> QED BY <1>1, <1>4, <1>5, <1>6

(* A construct whose code and statements grew. *)
Grown(f, c, q) == [f EXCEPT !.code = @ \o c, !.kids = @ \o q]

Grows(f, g, c, q) ==
  /\ Frame(g) /\ g.kind = f.kind /\ g.thenCode = f.thenCode
  /\ g.code = f.code \o c /\ g.kids = f.kids \o q

(* It is a construct of the same kind. *)
LEMMA GrownFrame ==
  ASSUME NEW f, Frame(f), NEW c \in Seq(Tacs), NEW q, Listed(q), NEW g, g = Grown(f, c, q)
  PROVE  Grows(f, g, c, q)
<1>1. PICK code, kids : code = f.code \o c /\ kids = f.kids \o q
  OBVIOUS
<1>2. g = [f EXCEPT !.code = code, !.kids = kids]
  BY <1>1 DEF Grown
<1>3. code \in Seq(Tacs)
  BY <1>1, ConcatProperties DEF Frame
<1>4. Listed(kids)
  <2>1. Listed(f.kids)
    BY DEF Frame
  <2>2. PICK m, n : m = Len(f.kids) /\ n = Len(q)
    OBVIOUS
  <2>3. Concatenated(f.kids, m, q, n, kids)
    BY <1>1, <2>1, <2>2, ListedConcat
  <2> QED BY <2>3 DEF Concatenated
<1>5. /\ DOMAIN g = DOMAIN f /\ g.kind = f.kind /\ g.id = f.id /\ g.calc = f.calc
      /\ g.thenCode = f.thenCode /\ g.code = code /\ g.kids = kids
  BY <1>2 DEF Frame
<1>6. Frame(g)
  BY <1>3, <1>4, <1>5 DEF Frame
<1> QED BY <1>1, <1>5, <1>6 DEF Grows

(* Statements that are no default label leave a switch with or without one. *)
LEMMA GrownDefault ==
  ASSUME NEW f, Frame(f), NEW c, NEW q, Listed(q), NEW g, Grows(f, g, c, q)
  PROVE  HasDefault(g) <=>
           HasDefault(f) \/ \E i \in DOMAIN q : q[i] = [kind |-> "default"]
<1>1. Listed(f.kids)
  BY DEF Frame
<1> PICK v : v = f.kids
  OBVIOUS
<1>2. PICK m, n, u : m = Len(v) /\ n = Len(q) /\ u = v \o q
  OBVIOUS
<1>3. /\ Listed(u) /\ Len(u) = m + n /\ m \in Nat /\ n \in Nat
      /\ \A i \in 1..m : u[i] = v[i]
      /\ \A i \in 1..n : u[m + i] = q[i]
  <2>1. Listed(v)
    BY <1>1
  <2>2. Concatenated(v, m, q, n, u)
    BY <1>2, <2>1, ListedConcat
  <2> QED BY <2>2 DEF Concatenated
<1>4. DOMAIN u = 1..(m + n) /\ DOMAIN q = 1..n /\ DOMAIN v = 1..m
  BY <1>1, <1>2, <1>3, ListedMeans
<1>5. PICK d : d = [kind |-> "default"]
  OBVIOUS
<1>6. ASSUME NEW i \in 1..(m + n), u[i] = d
      PROVE  (\E e \in 1..m : v[e] = d) \/ \E e \in 1..n : q[e] = d
  <2>1. CASE i <= m
    BY <1>3, <1>6, <2>1
  <2>2. CASE i > m
    <3>1. PICK e : e = i - m
      OBVIOUS
    <3>2. e \in 1..n /\ m + e = i
      BY <1>3, <2>2, <3>1
    <3>3. q[e] = d
      BY <1>3, <1>6, <3>2
    <3> QED BY <3>2, <3>3
  <2> QED BY <1>3, <2>1, <2>2
<1>7. ASSUME NEW e \in 1..m, v[e] = d
      PROVE  \E i \in 1..(m + n) : u[i] = d
  <2>1. e \in 1..(m + n)
    BY <1>3
  <2> QED BY <1>3, <1>7, <2>1
<1>8. ASSUME NEW e \in 1..n, q[e] = d
      PROVE  \E i \in 1..(m + n) : u[i] = d
  <2>1. m + e \in 1..(m + n) /\ u[m + e] = d
    BY <1>3, <1>8
  <2> QED BY <2>1
<1>9. HasDefault(g) <=> \E i \in 1..(m + n) : u[i] = d
  BY <1>2, <1>4, <1>5 DEF HasDefault, Grows
<1>10. HasDefault(f) <=> \E i \in 1..m : v[i] = d
  BY <1>4, <1>5 DEF HasDefault
<1> QED BY <1>4, <1>5, <1>6, <1>7, <1>8, <1>9, <1>10

(* Labels placed elsewhere are added to those of the construct. *)
LEMMA GrownPiece ==
  ASSUME NEW f, Frame(f), Once(f), NEW c, NEW p, NEW j, Piece(c, p, j),
         p \cap PlacedBy(f) = {}, NEW g, NEW q, Grows(f, g, c, q)
  PROVE  /\ PlacedBy(g) = PlacedBy(f) \cup p
         /\ JumpedBy(g) = JumpedBy(f) \cup j
         /\ Once(g)
<1>1. Piece(f.code, Placed(f.code), Jumped(f.code))
  BY DEF Frame, Once, Piece
<1>2. Placed(f.code) \cap p = {}
  BY DEF PlacedBy
<1>3. Piece(g.code, Placed(f.code) \cup p, Jumped(f.code) \cup j)
  BY <1>1, <1>2, Joined DEF Grows
<1>4. /\ Placed(g.code) = Placed(f.code) \cup p
      /\ Jumped(g.code) = Jumped(f.code) \cup j /\ Single(g.code)
  BY <1>3 DEF Piece
<1> QED BY <1>4 DEF PlacedBy, JumpedBy, Once, Grows

(* Of the n constructs of s only the deepest changes, to t's.              *)
Emitted(s, n, c, q, t) ==
  /\ Listed(t) /\ Len(t) = n /\ n \in Nat
  /\ \A i \in 1..(n - 1) : t[i] = s[i]
  /\ t[n] = Grown(s[n], c, q)

(* What Emit does to the constructs. *)
LEMMA EmitMeans ==
  ASSUME NEW s, Listed(s), NEW n, n = Len(s), n >= 1, NEW c, NEW q, NEW t, t = Emit(s, c, q)
  PROVE  Emitted(s, n, c, q, t)
<1>1. PICK r, e : r = Front(s) /\ e = Grown(Last(s), c, q)
  OBVIOUS
<1>2. t = Append(r, e)
  BY <1>1 DEF Emit, Grown
<1>3. n \in Nat
  BY ListedMeans
<1>4. /\ Listed(r) /\ Len(r) = n - 1 /\ Last(s) = s[n]
      /\ \A i \in 1..(n - 1) : r[i] = s[i]
  <2>1. Fronted(s, n, r)
    BY <1>1, ListedFront
  <2> QED BY <2>1 DEF Fronted
<1>5. PICK m : m = n - 1
  OBVIOUS
<1>6. m + 1 = n /\ m = Len(r)
  BY <1>3, <1>4, <1>5
<1>7. Listed(t) /\ Len(t) = m + 1 /\ t[m + 1] = e /\ \A i \in 1..m : t[i] = r[i]
  <2>1. Listed(r) /\ m = Len(r) /\ t = Append(r, e)
    BY <1>2, <1>4, <1>6
  <2>2. Appended(r, m, e, t)
    BY <2>1, ListedAppend
  <2> QED BY <2>2 DEF Appended
<1>8. e = Grown(s[n], c, q)
  BY <1>1, <1>4
<1>9. \A i \in 1..(n - 1) : t[i] = s[i]
  BY <1>4, <1>5, <1>7
<1>10. Len(t) = n /\ t[n] = Grown(s[n], c, q)
  BY <1>6, <1>7, <1>8
<1> QED BY <1>3, <1>7, <1>9, <1>10 DEF Emitted

-----------------------------------------------------------------------------
(* The code of a construct that ends: what its parts place and jump to,    *)
(* and its own labels.                                                     *)

(* Pieces of two instructions. *)
LEMMA TwoPiece ==
  ASSUME NEW a \in Tacs, NEW b \in Tacs, NEW p, NEW j, Piece(<<a>>, p, j),
         NEW q, NEW k, Piece(<<b>>, q, k), p \cap q = {}
  PROVE  Piece(<<a, b>>, p \cup q, j \cup k)
<1>1. Piece(<<a>> \o <<b>>, p \cup q, j \cup k)
  BY Joined
<1> QED BY <1>1, TwoInstructions

(* Four are two and two. *)
LEMMA FourInstructions ==
  ASSUME NEW a, NEW b, NEW c, NEW d
  PROVE  <<a, b, c, d>> = <<a, b>> \o <<c, d>>
  OBVIOUS

(* An if without else. *)
LEMMA DoIf ==
  ASSUME NEW f, Frame(f), Single(f.code), next_label \in Nat,
         next_label \notin Placed(f.code)
  PROVE  Piece(do_if(f), Placed(f.code) \cup {next_label}, Jumped(f.code) \cup {next_label})
<1> DEFINE P == Placed(f.code)
<1> DEFINE J == Jumped(f.code)
<1>0. f.id \in Nat /\ f.calc \in BOOLEAN /\ next_label \in Nat
  BY DEF Frame
<1>1. next_label \notin P /\ P = Placed(f.code) /\ J = Jumped(f.code)
  OBVIOUS
<1>2. Piece(f.code, P, J)
  BY DEF Frame, Piece
<1> HIDE DEF P, J
<1>3. PICK x1 : x1 = Code(f.calc, f.id)
  OBVIOUS
<1>4. Piece(x1, {}, {})
  BY <1>0, <1>3, Instructions
<1>5. PICK x2 : x2 = <<Ifz(next_label, f.id)>>
  OBVIOUS
<1>6. Piece(x2, {}, {next_label})
  BY <1>0, <1>5, Instructions
<1>7. PICK x3 : x3 = f.code
  OBVIOUS
<1>8. Piece(x3, P, J)
  BY <1>2, <1>7
<1>9. PICK x4 : x4 = <<Label(next_label)>>
  OBVIOUS
<1>10. Piece(x4, {next_label}, {})
  BY <1>0, <1>9, Instructions
<1>11. PICK y2 : y2 = x1 \o x2
  OBVIOUS
<1>12. Piece(y2, {}, {next_label})
  <2>1. Piece(x1, {}, {})
    BY <1>4
  <2>2. {} \cap {} = {}
    BY <1>1
  <2>3. /\ {} \cup {} = {}
        /\ {} \cup ({next_label}) = {next_label}
    BY <1>1
  <2>4. Piece(x1 \o x2, {} \cup {}, {} \cup ({next_label}))
    BY <2>1, <2>2, <1>6, Joined
  <2> QED BY <2>3, <2>4, <1>11
<1>13. PICK y3 : y3 = y2 \o x3
  OBVIOUS
<1>14. Piece(y3, P, {next_label} \cup J)
  <2>1. Piece(y2, {}, {next_label})
    BY <1>12
  <2>2. {} \cap (P) = {}
    BY <1>1
  <2>3. /\ {} \cup (P) = P
        /\ ({next_label}) \cup (J) = {next_label} \cup J
    BY <1>1
  <2>4. Piece(y2 \o x3, {} \cup (P), ({next_label}) \cup (J))
    BY <2>1, <2>2, <1>8, Joined
  <2> QED BY <2>3, <2>4, <1>13
<1>15. PICK y4 : y4 = y3 \o x4
  OBVIOUS
<1>16. Piece(y4, P \cup {next_label}, {next_label} \cup J)
  <2>1. Piece(y3, P, {next_label} \cup J)
    BY <1>14
  <2>2. (P) \cap ({next_label}) = {}
    BY <1>1
  <2>3. /\ (P) \cup ({next_label}) = P \cup {next_label}
        /\ ({next_label} \cup J) \cup {} = {next_label} \cup J
    BY <1>1
  <2>4. Piece(y3 \o x4, (P) \cup ({next_label}), ({next_label} \cup J) \cup {})
    BY <2>1, <2>2, <1>10, Joined
  <2> QED BY <2>3, <2>4, <1>15
<1>17. do_if(f) = y4
  BY <1>3, <1>5, <1>11, <1>7, <1>13, <1>9, <1>15 DEF do_if
<1>18. P \cup {next_label} = Placed(f.code) \cup {next_label}
           /\ {next_label} \cup J = Jumped(f.code) \cup {next_label}
  BY <1>1
<1> QED BY <1>16, <1>17, <1>18

(* An if with else: both its parts. *)
LEMMA DoIfElse ==
  ASSUME NEW f, Frame(f), Once(f), next_label \in Nat,
         next_label \notin PlacedBy(f), next_label + 1 \notin PlacedBy(f)
  PROVE  Piece(do_if_else(f), PlacedBy(f) \cup {next_label, next_label + 1},
               JumpedBy(f) \cup {next_label, next_label + 1})
<1> DEFINE P == Placed(f.code)
<1> DEFINE J == Jumped(f.code)
<1> DEFINE T == Placed(f.thenCode)
<1> DEFINE H == Jumped(f.thenCode)
<1>0. f.id \in Nat /\ f.calc \in BOOLEAN /\ next_label \in Nat /\ next_label + 1 \in Nat
  BY DEF Frame
<1>1. /\ next_label \notin P /\ next_label \notin T /\ next_label + 1 \notin P
      /\ next_label + 1 \notin T /\ T \cap P = {} /\ next_label # next_label + 1
      /\ PlacedBy(f) = T \cup P /\ JumpedBy(f) = H \cup J
  BY DEF Once, PlacedBy, JumpedBy
<1>2. Piece(f.code, P, J) /\ Piece(f.thenCode, T, H)
  BY DEF Frame, Piece, Once
<1> HIDE DEF P, J, T, H
<1>3. PICK x1 : x1 = Code(f.calc, f.id)
  OBVIOUS
<1>4. Piece(x1, {}, {})
  BY <1>0, <1>3, Instructions
<1>5. PICK x2 : x2 = <<Ifz(next_label, f.id)>>
  OBVIOUS
<1>6. Piece(x2, {}, {next_label})
  BY <1>0, <1>5, Instructions
<1>7. PICK x3 : x3 = f.thenCode
  OBVIOUS
<1>8. Piece(x3, T, H)
  BY <1>2, <1>7
<1>9. PICK x4 : x4 = <<Goto(next_label + 1), Label(next_label)>>
  OBVIOUS
<1>10. Piece(x4, {next_label}, {next_label + 1})
  <2>1. /\ Piece(<<Goto(next_label + 1)>>, {}, {next_label + 1}) /\ Goto(next_label + 1) \in Tacs
        /\ Piece(<<Label(next_label)>>, {next_label}, {}) /\ Label(next_label) \in Tacs
    BY <1>0, Instructions
  <2>2. {} \cap ({next_label}) = {} /\ {} \cup ({next_label}) = {next_label}
            /\ ({next_label + 1}) \cup {} = {next_label + 1}
    BY <1>1
  <2>3. Piece(<<Goto(next_label + 1), Label(next_label)>>, {} \cup ({next_label}),
            ({next_label + 1}) \cup {})
    BY <2>1, <2>2, TwoPiece
  <2> QED BY <2>2, <2>3, <1>9
<1>11. PICK x5 : x5 = f.code
  OBVIOUS
<1>12. Piece(x5, P, J)
  BY <1>2, <1>11
<1>13. PICK x6 : x6 = <<Label(next_label + 1)>>
  OBVIOUS
<1>14. Piece(x6, {next_label + 1}, {})
  BY <1>0, <1>13, Instructions
<1>15. PICK y2 : y2 = x1 \o x2
  OBVIOUS
<1>16. Piece(y2, {}, {next_label})
  <2>1. Piece(x1, {}, {})
    BY <1>4
  <2>2. {} \cap {} = {}
    BY <1>1
  <2>3. /\ {} \cup {} = {}
        /\ {} \cup ({next_label}) = {next_label}
    BY <1>1
  <2>4. Piece(x1 \o x2, {} \cup {}, {} \cup ({next_label}))
    BY <2>1, <2>2, <1>6, Joined
  <2> QED BY <2>3, <2>4, <1>15
<1>17. PICK y3 : y3 = y2 \o x3
  OBVIOUS
<1>18. Piece(y3, T, {next_label} \cup H)
  <2>1. Piece(y2, {}, {next_label})
    BY <1>16
  <2>2. {} \cap (T) = {}
    BY <1>1
  <2>3. /\ {} \cup (T) = T
        /\ ({next_label}) \cup (H) = {next_label} \cup H
    BY <1>1
  <2>4. Piece(y2 \o x3, {} \cup (T), ({next_label}) \cup (H))
    BY <2>1, <2>2, <1>8, Joined
  <2> QED BY <2>3, <2>4, <1>17
<1>19. PICK y4 : y4 = y3 \o x4
  OBVIOUS
<1>20. Piece(y4, T \cup {next_label}, {next_label} \cup H \cup {next_label + 1})
  <2>1. Piece(y3, T, {next_label} \cup H)
    BY <1>18
  <2>2. (T) \cap ({next_label}) = {}
    BY <1>1
  <2>3. /\ (T) \cup ({next_label}) = T \cup {next_label}
        /\ ({next_label} \cup H) \cup ({next_label + 1}) = {next_label} \cup H \cup {next_label + 1}
    BY <1>1
  <2>4. Piece(y3 \o x4, (T) \cup ({next_label}), ({next_label} \cup H) \cup ({next_label + 1}))
    BY <2>1, <2>2, <1>10, Joined
  <2> QED BY <2>3, <2>4, <1>19
<1>21. PICK y5 : y5 = y4 \o x5
  OBVIOUS
<1>22. Piece(y5, T \cup {next_label} \cup P, {next_label} \cup H \cup {next_label + 1} \cup J)
  <2>1. Piece(y4, T \cup {next_label}, {next_label} \cup H \cup {next_label + 1})
    BY <1>20
  <2>2. (T \cup {next_label}) \cap (P) = {}
    BY <1>1
  <2>3. /\ (T \cup {next_label}) \cup (P) = T \cup {next_label} \cup P
        /\ ({next_label} \cup H \cup {next_label + 1}) \cup (J)
               = {next_label} \cup H \cup {next_label + 1} \cup J
    BY <1>1
  <2>4. Piece(y4 \o x5, (T \cup {next_label}) \cup (P), ({next_label} \cup H
            \cup {next_label + 1}) \cup (J))
    BY <2>1, <2>2, <1>12, Joined
  <2> QED BY <2>3, <2>4, <1>21
<1>23. PICK y6 : y6 = y5 \o x6
  OBVIOUS
<1>24. Piece(y6, T \cup {next_label} \cup P \cup {next_label + 1}, {next_label} \cup H
           \cup {next_label + 1} \cup J)
  <2>1. Piece(y5, T \cup {next_label} \cup P, {next_label} \cup H \cup {next_label + 1} \cup J)
    BY <1>22
  <2>2. (T \cup {next_label} \cup P) \cap ({next_label + 1}) = {}
    BY <1>1
  <2>3. /\ (T \cup {next_label} \cup P) \cup ({next_label + 1})
               = T \cup {next_label} \cup P \cup {next_label + 1}
        /\ ({next_label} \cup H \cup {next_label + 1} \cup J) \cup {}
               = {next_label} \cup H \cup {next_label + 1} \cup J
    BY <1>1
  <2>4. Piece(y5 \o x6, (T \cup {next_label} \cup P) \cup ({next_label + 1}),
            ({next_label} \cup H \cup {next_label + 1} \cup J) \cup {})
    BY <2>1, <2>2, <1>14, Joined
  <2> QED BY <2>3, <2>4, <1>23
<1>25. do_if_else(f) = y6
  BY <1>3, <1>5, <1>15, <1>7, <1>17, <1>9, <1>19, <1>11, <1>21, <1>13, <1>23 DEF do_if_else
<1>26. T \cup {next_label} \cup P \cup {next_label + 1}
           = PlacedBy(f) \cup {next_label, next_label + 1}
               /\ {next_label} \cup H \cup {next_label + 1} \cup J
                      = JumpedBy(f) \cup {next_label, next_label + 1}
  BY <1>1
<1> QED BY <1>24, <1>25, <1>26

(* A while loop. *)
LEMMA DoWhile ==
  ASSUME NEW f, Frame(f), Single(f.code), NEW a \in LoopContext,
         a.continue # a.break, a.continue \notin Placed(f.code), a.break \notin Placed(f.code)
  PROVE  Piece(do_while(f, a), Placed(f.code) \cup {a.continue, a.break},
               Jumped(f.code) \cup {a.continue, a.break})
<1> DEFINE P == Placed(f.code)
<1> DEFINE J == Jumped(f.code)
<1>0. f.id \in Nat /\ f.calc \in BOOLEAN /\ a.continue \in Nat /\ a.break \in Nat
  BY DEF Frame, LoopContext
<1>1. /\ a.continue # a.break /\ a.continue \notin P /\ a.break \notin P
      /\ P = Placed(f.code) /\ J = Jumped(f.code)
  OBVIOUS
<1>2. Piece(f.code, P, J)
  BY DEF Frame, Piece
<1> HIDE DEF P, J
<1>3. PICK x1 : x1 = <<Label(a.continue)>>
  OBVIOUS
<1>4. Piece(x1, {a.continue}, {})
  BY <1>0, <1>3, Instructions
<1>5. PICK x2 : x2 = Code(f.calc, f.id)
  OBVIOUS
<1>6. Piece(x2, {}, {})
  BY <1>0, <1>5, Instructions
<1>7. PICK x3 : x3 = <<Ifz(a.break, f.id)>>
  OBVIOUS
<1>8. Piece(x3, {}, {a.break})
  BY <1>0, <1>7, Instructions
<1>9. PICK x4 : x4 = f.code
  OBVIOUS
<1>10. Piece(x4, P, J)
  BY <1>2, <1>9
<1>11. PICK x5 : x5 = <<Goto(a.continue), Label(a.break)>>
  OBVIOUS
<1>12. Piece(x5, {a.break}, {a.continue})
  <2>1. /\ Piece(<<Goto(a.continue)>>, {}, {a.continue}) /\ Goto(a.continue) \in Tacs
        /\ Piece(<<Label(a.break)>>, {a.break}, {}) /\ Label(a.break) \in Tacs
    BY <1>0, Instructions
  <2>2. {} \cap ({a.break}) = {} /\ {} \cup ({a.break}) = {a.break}
            /\ ({a.continue}) \cup {} = {a.continue}
    BY <1>1
  <2>3. Piece(<<Goto(a.continue), Label(a.break)>>, {} \cup ({a.break}), ({a.continue}) \cup {})
    BY <2>1, <2>2, TwoPiece
  <2> QED BY <2>2, <2>3, <1>11
<1>13. PICK y2 : y2 = x1 \o x2
  OBVIOUS
<1>14. Piece(y2, {a.continue}, {})
  <2>1. Piece(x1, {a.continue}, {})
    BY <1>4
  <2>2. ({a.continue}) \cap {} = {}
    BY <1>1
  <2>3. /\ ({a.continue}) \cup {} = {a.continue}
        /\ {} \cup {} = {}
    BY <1>1
  <2>4. Piece(x1 \o x2, ({a.continue}) \cup {}, {} \cup {})
    BY <2>1, <2>2, <1>6, Joined
  <2> QED BY <2>3, <2>4, <1>13
<1>15. PICK y3 : y3 = y2 \o x3
  OBVIOUS
<1>16. Piece(y3, {a.continue}, {a.break})
  <2>1. Piece(y2, {a.continue}, {})
    BY <1>14
  <2>2. ({a.continue}) \cap {} = {}
    BY <1>1
  <2>3. /\ ({a.continue}) \cup {} = {a.continue}
        /\ {} \cup ({a.break}) = {a.break}
    BY <1>1
  <2>4. Piece(y2 \o x3, ({a.continue}) \cup {}, {} \cup ({a.break}))
    BY <2>1, <2>2, <1>8, Joined
  <2> QED BY <2>3, <2>4, <1>15
<1>17. PICK y4 : y4 = y3 \o x4
  OBVIOUS
<1>18. Piece(y4, {a.continue} \cup P, {a.break} \cup J)
  <2>1. Piece(y3, {a.continue}, {a.break})
    BY <1>16
  <2>2. ({a.continue}) \cap (P) = {}
    BY <1>1
  <2>3. /\ ({a.continue}) \cup (P) = {a.continue} \cup P
        /\ ({a.break}) \cup (J) = {a.break} \cup J
    BY <1>1
  <2>4. Piece(y3 \o x4, ({a.continue}) \cup (P), ({a.break}) \cup (J))
    BY <2>1, <2>2, <1>10, Joined
  <2> QED BY <2>3, <2>4, <1>17
<1>19. PICK y5 : y5 = y4 \o x5
  OBVIOUS
<1>20. Piece(y5, {a.continue} \cup P \cup {a.break}, {a.break} \cup J \cup {a.continue})
  <2>1. Piece(y4, {a.continue} \cup P, {a.break} \cup J)
    BY <1>18
  <2>2. ({a.continue} \cup P) \cap ({a.break}) = {}
    BY <1>1
  <2>3. /\ ({a.continue} \cup P) \cup ({a.break}) = {a.continue} \cup P \cup {a.break}
        /\ ({a.break} \cup J) \cup ({a.continue}) = {a.break} \cup J \cup {a.continue}
    BY <1>1
  <2>4. Piece(y4 \o x5, ({a.continue} \cup P) \cup ({a.break}), ({a.break} \cup J)
            \cup ({a.continue}))
    BY <2>1, <2>2, <1>12, Joined
  <2> QED BY <2>3, <2>4, <1>19
<1>21. do_while(f, a) = y5
  BY <1>3, <1>5, <1>13, <1>7, <1>15, <1>9, <1>17, <1>11, <1>19 DEF do_while
<1>22. {a.continue} \cup P \cup {a.break} = Placed(f.code) \cup {a.continue, a.break}
           /\ {a.break} \cup J \cup {a.continue} = Jumped(f.code) \cup {a.continue, a.break}
  BY <1>1
<1> QED BY <1>20, <1>21, <1>22

(* A for loop. *)
LEMMA DoFor ==
  ASSUME NEW f, Frame(f), Single(f.code), NEW a \in LoopContext,
         a.continue # a.break, a.start # a.continue, a.start # a.break,
         Placed(f.code) \cap {a.start, a.continue, a.break} = {}
  PROVE  Piece(do_for(f, a), Placed(f.code) \cup {a.start, a.continue, a.break},
               Jumped(f.code) \cup {a.start, a.break})
<1> DEFINE P == Placed(f.code)
<1> DEFINE J == Jumped(f.code)
<1>0. f.id \in Nat /\ f.calc \in BOOLEAN /\ a.start \in Nat /\ a.continue \in Nat /\ a.break \in Nat
  BY DEF Frame, LoopContext
<1>1. /\ a.continue # a.break /\ a.start # a.continue /\ a.start # a.break
      /\ a.start \notin P /\ a.continue \notin P /\ a.break \notin P
      /\ P = Placed(f.code) /\ J = Jumped(f.code)
  OBVIOUS
<1>2. Piece(f.code, P, J)
  BY DEF Frame, Piece
<1> HIDE DEF P, J
<1>3. PICK x1 : x1 = <<Tac("INIT", 0, f.id, 0), Label(a.start)>>
  OBVIOUS
<1>4. Piece(x1, {a.start}, {})
  <2>1. /\ Piece(<<Tac("INIT", 0, f.id, 0)>>, {}, {}) /\ Tac("INIT", 0, f.id, 0) \in Tacs
        /\ Piece(<<Label(a.start)>>, {a.start}, {}) /\ Label(a.start) \in Tacs
    BY <1>0, Instructions
  <2>2. {} \cap ({a.start}) = {} /\ {} \cup ({a.start}) = {a.start} /\ {} \cup {} = {}
    BY <1>1
  <2>3. Piece(<<Tac("INIT", 0, f.id, 0), Label(a.start)>>, {} \cup ({a.start}), {} \cup {})
    BY <2>1, <2>2, TwoPiece
  <2> QED BY <2>2, <2>3, <1>3
<1>5. PICK x2 : x2 = Code(f.calc, f.id)
  OBVIOUS
<1>6. Piece(x2, {}, {})
  BY <1>0, <1>5, Instructions
<1>7. PICK x3 : x3 = <<Ifz(a.break, f.id)>>
  OBVIOUS
<1>8. Piece(x3, {}, {a.break})
  BY <1>0, <1>7, Instructions
<1>9. PICK x4 : x4 = f.code
  OBVIOUS
<1>10. Piece(x4, P, J)
  BY <1>2, <1>9
<1>11. PICK x5 :
         x5 = <<Label(a.continue), Tac("UPDATE", 0, f.id, 0), Goto(a.start), Label(a.break)>>
  OBVIOUS
<1>12. Piece(x5, {a.continue} \cup {a.break}, {a.start})
  <2>1. /\ Piece(<<Label(a.continue)>>, {a.continue}, {}) /\ Label(a.continue) \in Tacs
        /\ Piece(<<Tac("UPDATE", 0, f.id, 0)>>, {}, {}) /\ Tac("UPDATE", 0, f.id, 0) \in Tacs
    BY <1>0, Instructions
  <2>2. ({a.continue}) \cap {} = {} /\ ({a.continue}) \cup {} = {a.continue} /\ {} \cup {} = {}
    BY <1>1
  <2>3. Piece(<<Label(a.continue), Tac("UPDATE", 0, f.id, 0)>>, {a.continue}, {})
    <3>1. Piece(<<Label(a.continue), Tac("UPDATE", 0, f.id, 0)>>, ({a.continue}) \cup {},
              {} \cup {})
      BY <2>1, <2>2, TwoPiece
    <3> QED BY <2>2, <3>1
  <2>4. /\ Piece(<<Goto(a.start)>>, {}, {a.start}) /\ Goto(a.start) \in Tacs
        /\ Piece(<<Label(a.break)>>, {a.break}, {}) /\ Label(a.break) \in Tacs
    BY <1>0, Instructions
  <2>5. {} \cap ({a.break}) = {} /\ {} \cup ({a.break}) = {a.break}
            /\ ({a.start}) \cup {} = {a.start}
    BY <1>1
  <2>6. Piece(<<Goto(a.start), Label(a.break)>>, {a.break}, {a.start})
    <3>1. Piece(<<Goto(a.start), Label(a.break)>>, {} \cup ({a.break}), ({a.start}) \cup {})
      BY <2>4, <2>5, TwoPiece
    <3> QED BY <2>5, <3>1
  <2>7. ({a.continue}) \cap ({a.break}) = {}
    BY <1>1
  <2>8. Piece(<<Label(a.continue), Tac("UPDATE", 0, f.id, 0)>> \o <<Goto(a.start),
            Label(a.break)>>, ({a.continue}) \cup ({a.break}), {} \cup ({a.start}))
    <3>1. PICK u, v : /\ u = <<Label(a.continue), Tac("UPDATE", 0, f.id, 0)>>
                      /\ v = <<Goto(a.start), Label(a.break)>>
      OBVIOUS
    <3>2. Piece(u, {a.continue}, {}) /\ Piece(v, {a.break}, {a.start})
      BY <2>3, <2>6, <3>1
    <3>3. Piece(u \o v, {a.continue} \cup {a.break}, {} \cup {a.start})
      BY <2>7, <3>2, Joined
    <3> QED BY <3>1, <3>3
  <2>9. x5 = <<Label(a.continue), Tac("UPDATE", 0, f.id, 0)>> \o <<Goto(a.start), Label(a.break)>>
    BY <1>11, FourInstructions
  <2>10. ({a.continue}) \cup ({a.break}) = {a.continue} \cup {a.break}
             /\ {} \cup ({a.start}) = {a.start}
    OBVIOUS
  <2> QED BY <2>8, <2>9, <2>10
<1>13. PICK y2 : y2 = x1 \o x2
  OBVIOUS
<1>14. Piece(y2, {a.start}, {})
  <2>1. Piece(x1, {a.start}, {})
    BY <1>4
  <2>2. ({a.start}) \cap {} = {}
    BY <1>1
  <2>3. /\ ({a.start}) \cup {} = {a.start}
        /\ {} \cup {} = {}
    BY <1>1
  <2>4. Piece(x1 \o x2, ({a.start}) \cup {}, {} \cup {})
    BY <2>1, <2>2, <1>6, Joined
  <2> QED BY <2>3, <2>4, <1>13
<1>15. PICK y3 : y3 = y2 \o x3
  OBVIOUS
<1>16. Piece(y3, {a.start}, {a.break})
  <2>1. Piece(y2, {a.start}, {})
    BY <1>14
  <2>2. ({a.start}) \cap {} = {}
    BY <1>1
  <2>3. /\ ({a.start}) \cup {} = {a.start}
        /\ {} \cup ({a.break}) = {a.break}
    BY <1>1
  <2>4. Piece(y2 \o x3, ({a.start}) \cup {}, {} \cup ({a.break}))
    BY <2>1, <2>2, <1>8, Joined
  <2> QED BY <2>3, <2>4, <1>15
<1>17. PICK y4 : y4 = y3 \o x4
  OBVIOUS
<1>18. Piece(y4, {a.start} \cup P, {a.break} \cup J)
  <2>1. Piece(y3, {a.start}, {a.break})
    BY <1>16
  <2>2. ({a.start}) \cap (P) = {}
    BY <1>1
  <2>3. /\ ({a.start}) \cup (P) = {a.start} \cup P
        /\ ({a.break}) \cup (J) = {a.break} \cup J
    BY <1>1
  <2>4. Piece(y3 \o x4, ({a.start}) \cup (P), ({a.break}) \cup (J))
    BY <2>1, <2>2, <1>10, Joined
  <2> QED BY <2>3, <2>4, <1>17
<1>19. PICK y5 : y5 = y4 \o x5
  OBVIOUS
<1>20. Piece(y5, {a.start} \cup P \cup {a.continue} \cup {a.break}, {a.break} \cup J \cup {a.start})
  <2>1. Piece(y4, {a.start} \cup P, {a.break} \cup J)
    BY <1>18
  <2>2. ({a.start} \cup P) \cap ({a.continue} \cup {a.break}) = {}
    BY <1>1
  <2>3. /\ ({a.start} \cup P) \cup ({a.continue} \cup {a.break})
               = {a.start} \cup P \cup {a.continue} \cup {a.break}
        /\ ({a.break} \cup J) \cup ({a.start}) = {a.break} \cup J \cup {a.start}
    BY <1>1
  <2>4. Piece(y4 \o x5, ({a.start} \cup P) \cup ({a.continue} \cup {a.break}), ({a.break}
            \cup J) \cup ({a.start}))
    BY <2>1, <2>2, <1>12, Joined
  <2> QED BY <2>3, <2>4, <1>19
<1>21. do_for(f, a) = y5
  BY <1>3, <1>5, <1>13, <1>7, <1>15, <1>9, <1>17, <1>11, <1>19 DEF do_for
<1>22. {a.start} \cup P \cup {a.continue} \cup {a.break}
           = Placed(f.code) \cup {a.start, a.continue, a.break}
               /\ {a.break} \cup J \cup {a.start} = Jumped(f.code) \cup {a.start, a.break}
  BY <1>1
<1> QED BY <1>20, <1>21, <1>22

(* The code t tests the m cases of s, and so jumps to the labels of h.     *)
Testing(t, m, s, h) ==
  /\ t \in Seq(Tacs) /\ m = Len(t)
  /\ \A i \in 1..m : t[i].op = "CASE" /\ t[i].to = s[i][2]
  /\ \A l : l \in h <=> \E i \in 1..m : s[i][2] = l

(* Code of nothing but tests places nothing. *)
LEMMA OnlyTests ==
  ASSUME NEW t, NEW m, NEW s, NEW h, Testing(t, m, s, h)
  PROVE  Piece(t, {}, h)
<1>0. t \in Seq(Tacs) /\ DOMAIN t = 1..m
  BY LenProperties DEF Testing
<1>8. \A i \in 1..m : t[i].op = "CASE" /\ t[i].to = s[i][2]
  BY DEF Testing
<1>9. \A l : l \in h <=> \E i \in 1..m : s[i][2] = l
  BY DEF Testing
<1>1. \A l : l \in Placed(t) <=> \E i \in DOMAIN t : t[i].op = "LABEL" /\ t[i].to = l
  BY PlacedMeans
<1>2. Placed(t) = {}
  BY <1>0, <1>1, <1>8
<1>3. Single(t)
  BY <1>0, <1>8 DEF Single
<1>4. \A l : l \in Jumped(t) <=>
               \E i \in DOMAIN t : t[i].op \in {"GOTO", "IFZ", "CASE"} /\ t[i].to = l
  BY JumpedMeans
<1>5. \A l : l \in Jumped(t) <=> \E i \in 1..m : s[i][2] = l
  BY <1>0, <1>4, <1>8
<1>6. Jumped(t) = h
  BY <1>5, <1>9
<1> QED BY <1>0, <1>2, <1>3, <1>6 DEF Piece

(* The tests a switch begins with place nothing. *)
LEMMA Tests ==
  ASSUME NEW a \in SwitchContext, NEW id \in Nat,
         NEW t, t = [i \in DOMAIN a.case_labels |->
                       CaseJump(a.case_labels[i][2], id, a.case_labels[i][1])]
  PROVE  Piece(t, {}, {a.case_labels[i][2] : i \in DOMAIN a.case_labels})
<1>1. PICK s, m : s = a.case_labels /\ m = Len(s)
  OBVIOUS
<1>2. s \in Seq(CaseValues \X Nat)
  BY <1>1 DEF SwitchContext
<1>3. m \in Nat /\ DOMAIN s = 1..m /\ \A i \in 1..m : s[i] \in CaseValues \X Nat
  BY <1>1, <1>2, LenProperties, ElementOfSeq
<1>4. t = [i \in 1..m |-> CaseJump(s[i][2], id, s[i][1])]
  BY <1>1, <1>3
<1>5. ASSUME NEW i \in 1..m
      PROVE  t[i] \in Tacs /\ t[i].op = "CASE" /\ t[i].to = s[i][2]
  <2>1. s[i][1] \in Nat /\ s[i][2] \in Nat
    BY <1>3, ControlAssumption
  <2>2. PICK x, l, v : x = t[i] /\ l = s[i][2] /\ v = s[i][1]
    OBVIOUS
  <2>3. x = [op |-> "CASE", to |-> l, id |-> id, v |-> v] /\ l \in Nat /\ v \in Nat
    BY <1>4, <2>1, <2>2 DEF CaseJump, Tac
  <2>4. x \in Tacs /\ x.op = "CASE" /\ x.to = l
    BY <2>3 DEF Tacs, Ops
  <2> QED BY <2>2, <2>4
<1>6. t \in [1..m -> Tacs] /\ DOMAIN t = 1..m
  <2>1. ASSUME NEW i \in 1..m
        PROVE  CaseJump(s[i][2], id, s[i][1]) \in Tacs
    <3>1. t[i] = CaseJump(s[i][2], id, s[i][1])
      BY <1>4
    <3>2. t[i] \in Tacs
      BY <1>5
    <3> QED BY <3>1, <3>2
  <2> QED BY <1>4, <2>1
<1>7. t \in Seq(Tacs)
  BY <1>3, <1>6, SeqDef
<1>8. Piece(t, {}, {s[i][2] : i \in 1..m})
  <2>1. PICK u : u = t
    OBVIOUS
  <2>2. u \in Seq(Tacs) /\ DOMAIN u = 1..m
    BY <1>6, <1>7, <2>1
  <2>7. m = Len(u)
    <3>1. DOMAIN u = 1..Len(u) /\ Len(u) \in Nat
      BY <2>2, LenProperties
    <3> QED BY <1>3, <2>2, <3>1
  <2>3. \A i \in 1..m : u[i].op = "CASE" /\ u[i].to = s[i][2]
    BY <1>5, <2>1
  <2>4. PICK h : h = {s[i][2] : i \in 1..m}
    OBVIOUS
  <2>5. \A l : l \in h <=> \E i \in 1..m : s[i][2] = l
    BY <2>4
  <2>8. Testing(u, m, s, h)
    BY <2>2, <2>3, <2>5, <2>7 DEF Testing
  <2>6. Piece(u, {}, h)
    BY <2>8, OnlyTests
  <2> QED BY <2>1, <2>4, <2>6
<1>9. {a.case_labels[i][2] : i \in DOMAIN a.case_labels} = {s[i][2] : i \in 1..m}
  BY <1>1, <1>3
<1> QED BY <1>8, <1>9

(* A switch: the tests of its cases, then the jump to default, then its code. *)
LEMMA EndSwitch ==
  ASSUME NEW f, Frame(f), Single(f.code), NEW a \in SwitchContext, a.break \notin Placed(f.code)
  PROVE  Piece(end_switch(f, a), Placed(f.code) \cup {a.break}, Jumped(f.code) \cup {a.default}
           \cup {a.case_labels[i][2] : i \in DOMAIN a.case_labels})
<1> DEFINE P == Placed(f.code)
<1> DEFINE J == Jumped(f.code)
<1> DEFINE T == {a.case_labels[i][2] : i \in DOMAIN a.case_labels}
<1>0. f.id \in Nat /\ f.calc \in BOOLEAN /\ a.default \in Nat /\ a.break \in Nat
  BY DEF Frame, SwitchContext
<1>1. a.break \notin P /\ P = Placed(f.code) /\ J = Jumped(f.code)
      /\ T = {a.case_labels[i][2] : i \in DOMAIN a.case_labels}
  OBVIOUS
<1>2. Piece(f.code, P, J)
  BY DEF Frame, Piece
<1> HIDE DEF P, J, T
<1>3. PICK x1 : x1 = [i \in DOMAIN a.case_labels |->
                  CaseJump(a.case_labels[i][2], f.id, a.case_labels[i][1])]
  OBVIOUS
<1>4. Piece(x1, {}, T)
  BY <1>0, <1>1, <1>3, Tests
<1>5. PICK x2 : x2 = <<Goto(a.default)>>
  OBVIOUS
<1>6. Piece(x2, {}, {a.default})
  BY <1>0, <1>5, Instructions
<1>7. PICK x3 : x3 = f.code
  OBVIOUS
<1>8. Piece(x3, P, J)
  BY <1>2, <1>7
<1>9. PICK x4 : x4 = <<Label(a.break)>>
  OBVIOUS
<1>10. Piece(x4, {a.break}, {})
  BY <1>0, <1>9, Instructions
<1>11. PICK y2 : y2 = x1 \o x2
  OBVIOUS
<1>12. Piece(y2, {}, T \cup {a.default})
  <2>1. Piece(x1, {}, T)
    BY <1>4
  <2>2. {} \cap {} = {}
    BY <1>1
  <2>3. /\ {} \cup {} = {}
        /\ (T) \cup ({a.default}) = T \cup {a.default}
    BY <1>1
  <2>4. Piece(x1 \o x2, {} \cup {}, (T) \cup ({a.default}))
    BY <2>1, <2>2, <1>6, Joined
  <2> QED BY <2>3, <2>4, <1>11
<1>13. PICK y3 : y3 = y2 \o x3
  OBVIOUS
<1>14. Piece(y3, P, T \cup {a.default} \cup J)
  <2>1. Piece(y2, {}, T \cup {a.default})
    BY <1>12
  <2>2. {} \cap (P) = {}
    BY <1>1
  <2>3. /\ {} \cup (P) = P
        /\ (T \cup {a.default}) \cup (J) = T \cup {a.default} \cup J
    BY <1>1
  <2>4. Piece(y2 \o x3, {} \cup (P), (T \cup {a.default}) \cup (J))
    BY <2>1, <2>2, <1>8, Joined
  <2> QED BY <2>3, <2>4, <1>13
<1>15. PICK y4 : y4 = y3 \o x4
  OBVIOUS
<1>16. Piece(y4, P \cup {a.break}, T \cup {a.default} \cup J)
  <2>1. Piece(y3, P, T \cup {a.default} \cup J)
    BY <1>14
  <2>2. (P) \cap ({a.break}) = {}
    BY <1>1
  <2>3. /\ (P) \cup ({a.break}) = P \cup {a.break}
        /\ (T \cup {a.default} \cup J) \cup {} = T \cup {a.default} \cup J
    BY <1>1
  <2>4. Piece(y3 \o x4, (P) \cup ({a.break}), (T \cup {a.default} \cup J) \cup {})
    <3>1. PICK h : h = T \cup {a.default} \cup J
      OBVIOUS
    <3>2. Piece(y3, P, h)
      BY <2>1, <3>1
    <3>3. Piece(y3 \o x4, P \cup {a.break}, h \cup {})
      BY <2>2, <3>2, <1>10, Joined
    <3> QED BY <3>1, <3>3
  <2> QED BY <2>3, <2>4, <1>15
<1>17. end_switch(f, a) = y4
  BY <1>3, <1>5, <1>11, <1>7, <1>13, <1>9, <1>15 DEF end_switch
<1>18. P \cup {a.break} = Placed(f.code) \cup {a.break}
           /\ T \cup {a.default} \cup J = Jumped(f.code) \cup {a.default}
           \cup {a.case_labels[i][2] : i \in DOMAIN a.case_labels}
  BY <1>1
<1> QED BY <1>16, <1>17, <1>18

-----------------------------------------------------------------------------
(* Accounts when a construct begins, goes on and ends.                     *)

(* A construct begins: the labels it takes are new, and owed.              *)
Started(n, P, J, O, w, v, F, Q, K, R) ==
  /\ 1 <= w /\ w <= v /\ F \in SUBSET (w..(v - 1))
  /\ \A k \in 1..n : Q[k] = P[k] /\ K[k] = J[k] /\ R[k] = O[k]
  /\ Q[n + 1] = {} /\ K[n + 1] = {} /\ R[n + 1] = F

(* The accounts are then still in order. *)
LEMMA AccountsBegin ==
  ASSUME NEW n \in Nat, NEW P, NEW J, NEW O, NEW w \in Nat, NEW v \in Nat,
         Accounts(n, P, J, O, w), NEW F, NEW Q, NEW K, NEW R,
         Started(n, P, J, O, w, v, F, Q, K, R)
  PROVE  Accounts(n + 1, Q, K, R, v)
<1> USE DEF Started
<1>1. \A k \in 1..(n + 1) : k \in 1..n \/ k = n + 1
  OBVIOUS
<1>2. \A l \in 1..(w - 1) : l \in 1..(v - 1) /\ l \notin F
  OBVIOUS
<1>3. F \subseteq 1..(v - 1)
  OBVIOUS
<1>4. /\ \A k \in 1..n : P[k] \subseteq 1..(w - 1) /\ O[k] \subseteq 1..(w - 1)
      /\ \A k, m \in 1..n :
           /\ P[k] \cap O[m] = {}
           /\ k # m => P[k] \cap P[m] = {} /\ O[k] \cap O[m] = {}
      /\ \A k \in 1..n : \A l \in J[k] : l \in P[k] \/ \E m \in 1..k : l \in O[m]
  BY DEF Accounts
<1>5. \A k \in 1..(n + 1) : Q[k] \subseteq 1..(v - 1) /\ R[k] \subseteq 1..(v - 1)
  BY <1>1, <1>2, <1>3, <1>4
<1>6. ASSUME NEW k \in 1..(n + 1), NEW m \in 1..(n + 1)
      PROVE  /\ Q[k] \cap R[m] = {}
             /\ k # m => Q[k] \cap Q[m] = {} /\ R[k] \cap R[m] = {}
  <2>1. CASE k \in 1..n /\ m \in 1..n
    BY <1>4, <2>1
  <2>2. CASE k \in 1..n /\ m = n + 1
    BY <1>2, <1>4, <2>2
  <2>3. CASE k = n + 1 /\ m \in 1..n
    BY <1>2, <1>4, <2>3
  <2>4. CASE k = n + 1 /\ m = n + 1
    BY <2>4
  <2> QED BY <1>1, <2>1, <2>2, <2>3, <2>4
<1>7. ASSUME NEW k \in 1..(n + 1), NEW l \in K[k]
      PROVE  l \in Q[k] \/ \E m \in 1..k : l \in R[m]
  <2>1. k \in 1..n /\ l \in J[k]
    BY <1>1
  <2>2. \A m \in 1..k : m \in 1..n
    BY <2>1
  <2> QED BY <1>4, <2>1, <2>2
<1> QED BY <1>5, <1>6, <1>7 DEF Accounts

(* The innermost construct goes on: it places labels q it owed and new     *)
(* ones, and jumps to labels it has placed or that are owed around it.     *)
Continued(n, P, J, O, w, v, F, q, j, Q, K, R) ==
  /\ 1 <= w /\ w <= v /\ F \in SUBSET (w..(v - 1)) /\ q \in SUBSET O[n]
  /\ \A k \in 1..(n - 1) : Q[k] = P[k] /\ K[k] = J[k] /\ R[k] = O[k]
  /\ Q[n] = P[n] \cup q \cup F /\ K[n] = J[n] \cup j /\ R[n] = O[n] \ q
  /\ \A l \in j : l \in Q[n] \/ \E m \in 1..n : l \in R[m]

(* The accounts are then still in order. *)
LEMMA AccountsGrow ==
  ASSUME NEW n \in Nat \ {0}, NEW P, NEW J, NEW O, NEW w \in Nat, NEW v \in Nat,
         Accounts(n, P, J, O, w), NEW F, NEW q, NEW j, NEW Q, NEW K, NEW R,
         Continued(n, P, J, O, w, v, F, q, j, Q, K, R)
  PROVE  Accounts(n, Q, K, R, v)
<1> USE DEF Continued
<1>1. \A k \in 1..n : k \in 1..(n - 1) \/ k = n
  OBVIOUS
<1>2. \A l \in 1..(w - 1) : l \in 1..(v - 1) /\ l \notin F
  OBVIOUS
<1>3. F \subseteq 1..(v - 1) /\ n \in 1..n /\ \A k \in 1..(n - 1) : k \in 1..n
  OBVIOUS
<1>4. /\ \A k \in 1..n : P[k] \subseteq 1..(w - 1) /\ O[k] \subseteq 1..(w - 1)
      /\ \A k, m \in 1..n :
           /\ P[k] \cap O[m] = {}
           /\ k # m => P[k] \cap P[m] = {} /\ O[k] \cap O[m] = {}
      /\ \A k \in 1..n : \A l \in J[k] : l \in P[k] \/ \E m \in 1..k : l \in O[m]
  BY DEF Accounts
<1>5. \A k \in 1..n : Q[k] \subseteq 1..(v - 1) /\ R[k] \subseteq 1..(v - 1)
  BY <1>1, <1>2, <1>3, <1>4
<1>6. ASSUME NEW k \in 1..n, NEW m \in 1..n
      PROVE  /\ Q[k] \cap R[m] = {}
             /\ k # m => Q[k] \cap Q[m] = {} /\ R[k] \cap R[m] = {}
  <2>0. /\ P[k] \cap O[m] = {} /\ P[m] \cap O[k] = {}
        /\ P[k] \subseteq 1..(w - 1) /\ O[k] \subseteq 1..(w - 1)
        /\ P[m] \subseteq 1..(w - 1) /\ O[m] \subseteq 1..(w - 1)
        /\ k # m => P[k] \cap P[m] = {} /\ O[k] \cap O[m] = {}
    BY <1>4
  <2>1. CASE k \in 1..(n - 1) /\ m \in 1..(n - 1)
    BY <2>0, <2>1
  <2>2. CASE k \in 1..(n - 1) /\ m = n
    <3>1. k # m
      BY <2>2
    <3> QED BY <1>2, <2>0, <2>2, <3>1
  <2>3. CASE k = n /\ m \in 1..(n - 1)
    <3>1. k # m
      BY <2>3
    <3> QED BY <1>2, <2>0, <2>3, <3>1
  <2>4. CASE k = n /\ m = n
    BY <1>2, <2>0, <2>4
  <2> QED BY <1>1, <2>1, <2>2, <2>3, <2>4
<1>7. ASSUME NEW k \in 1..n, NEW l \in K[k]
      PROVE  l \in Q[k] \/ \E m \in 1..k : l \in R[m]
  <2>1. CASE k \in 1..(n - 1)
    <3>1. \A m \in 1..k : m \in 1..(n - 1)
      BY <2>1
    <3> QED BY <1>3, <1>4, <2>1, <3>1
  <2>2. CASE k = n /\ l \in j
    BY <2>2
  <2>3. CASE k = n /\ l \in J[n]
    <3>1. l \in P[n] \/ \E m \in 1..n : l \in O[m]
      BY <1>3, <1>4, <2>3
    <3>2. ASSUME NEW m \in 1..n, l \in O[m]
          PROVE  l \in Q[n] \/ l \in R[m]
      BY <1>1, <3>2
    <3> QED BY <2>3, <3>1, <3>2
  <2> QED BY <1>1, <2>1, <2>2, <2>3
<1> QED BY <1>5, <1>6, <1>7 DEF Accounts

(* The innermost construct ends: with it every label it owed is placed,    *)
(* and its code is the enclosing construct's.                              *)
Ended(n, P, J, O, w, v, F, p, j, Q, K, R) ==
  /\ 1 <= w /\ w <= v /\ F \in SUBSET (w..(v - 1)) /\ p = P[n] \cup O[n] \cup F
  /\ \A l \in j : l \in J[n] \/ l \in p
  /\ \A k \in 1..(n - 2) : Q[k] = P[k] /\ K[k] = J[k]
  /\ \A k \in 1..(n - 1) : R[k] = O[k]
  /\ Q[n - 1] = P[n - 1] \cup p /\ K[n - 1] = J[n - 1] \cup j

(* The accounts of those around it are then in order. *)
LEMMA AccountsEnd ==
  ASSUME NEW n \in Nat, n >= 2, NEW P, NEW J, NEW O, NEW w \in Nat, NEW v \in Nat,
         Accounts(n, P, J, O, w), NEW F, NEW p, NEW j, NEW Q, NEW K, NEW R,
         Ended(n, P, J, O, w, v, F, p, j, Q, K, R)
  PROVE  p \cap P[n - 1] = {} /\ Accounts(n - 1, Q, K, R, v)
<1> USE DEF Ended
<1>1. \A k \in 1..(n - 1) : k \in 1..(n - 2) \/ k = n - 1
  OBVIOUS
<1>2. \A l \in 1..(w - 1) : l \in 1..(v - 1) /\ l \notin F
  OBVIOUS
<1>3. /\ F \subseteq 1..(v - 1) /\ n \in 1..n /\ n - 1 \in 1..n /\ n - 1 # n
      /\ \A k \in 1..(n - 1) : k \in 1..n /\ k # n
      /\ \A k \in 1..(n - 2) : k \in 1..(n - 1) /\ k # n - 1
  OBVIOUS
<1>4. /\ \A k \in 1..n : P[k] \subseteq 1..(w - 1) /\ O[k] \subseteq 1..(w - 1)
      /\ \A k, m \in 1..n :
           /\ P[k] \cap O[m] = {}
           /\ k # m => P[k] \cap P[m] = {} /\ O[k] \cap O[m] = {}
      /\ \A k \in 1..n : \A l \in J[k] : l \in P[k] \/ \E m \in 1..k : l \in O[m]
  BY DEF Accounts
<1>5. \A k \in 1..(n - 1) : Q[k] \subseteq 1..(v - 1) /\ R[k] \subseteq 1..(v - 1)
  BY <1>1, <1>2, <1>3, <1>4
<1>6. ASSUME NEW k \in 1..(n - 1)
      PROVE  /\ p \cap P[k] = {} /\ p \cap O[k] = {}
  <2>1. /\ P[n] \cap O[k] = {} /\ P[k] \cap O[n] = {}
        /\ P[n] \cap P[k] = {} /\ O[n] \cap O[k] = {}
        /\ P[k] \subseteq 1..(w - 1) /\ O[k] \subseteq 1..(w - 1)
    BY <1>3, <1>4
  <2> QED BY <1>2, <2>1
<1>7. ASSUME NEW k \in 1..(n - 1), NEW m \in 1..(n - 1)
      PROVE  /\ Q[k] \cap R[m] = {}
             /\ k # m => Q[k] \cap Q[m] = {} /\ R[k] \cap R[m] = {}
  <2>0. /\ P[k] \cap O[m] = {}
        /\ k # m => P[k] \cap P[m] = {} /\ O[k] \cap O[m] = {}
        /\ p \cap P[k] = {} /\ p \cap P[m] = {} /\ p \cap O[m] = {}
    BY <1>3, <1>4, <1>6
  <2>1. Q[k] \cap R[m] = {} /\ (k # m => R[k] \cap R[m] = {})
    BY <1>1, <2>0
  <2>2. CASE k \in 1..(n - 2) /\ m \in 1..(n - 2)
    BY <2>0, <2>1, <2>2
  <2>3. CASE k \in 1..(n - 2) /\ m = n - 1
    BY <2>0, <2>1, <2>3
  <2>4. CASE k = n - 1 /\ m \in 1..(n - 2)
    BY <2>0, <2>1, <2>4
  <2> QED BY <1>1, <2>1, <2>2, <2>3, <2>4
<1>8. ASSUME NEW k \in 1..(n - 1), NEW l \in K[k]
      PROVE  l \in Q[k] \/ \E m \in 1..k : l \in R[m]
  <2>1. CASE k \in 1..(n - 2)
    <3>1. \A m \in 1..k : m \in 1..(n - 1)
      BY <2>1
    <3> QED BY <1>3, <1>4, <2>1, <3>1
  <2>2. CASE k = n - 1 /\ l \in p
    BY <2>2
  <2>3. CASE k = n - 1 /\ l \in J[n - 1]
    BY <1>3, <1>4, <2>3
  <2>4. CASE k = n - 1 /\ l \in J[n]
    <3>1. l \in P[n] \/ \E m \in 1..n : l \in O[m]
      BY <1>3, <1>4, <2>4
    <3>2. ASSUME NEW m \in 1..n, l \in O[m]
          PROVE  l \in Q[n - 1] \/ \E i \in 1..(n - 1) : l \in R[i]
      <4>1. CASE m = n
        BY <3>2, <4>1
      <4>2. CASE m # n
        <5>1. m \in 1..(n - 1)
          BY <4>2
        <5> QED BY <3>2, <5>1
      <4> QED BY <4>1, <4>2
    <3> QED BY <2>4, <3>1, <3>2
  <2> QED BY <1>1, <2>1, <2>2, <2>3, <2>4
<1>9. p \cap P[n - 1] = {}
  <2>1. n - 1 \in 1..(n - 1)
    OBVIOUS
  <2> QED BY <1>6, <2>1
<1> QED BY <1>5, <1>7, <1>8, <1>9 DEF Accounts

-----------------------------------------------------------------------------
(* The three ways a step changes the constructs under way.                 *)

(* A set of depths that may get the new one. *)
LEMMA SetGrows ==
  ASSUME NEW n \in Nat, NEW S \in SUBSET (1..n), NEW T \in SUBSET (1..(n + 1)),
         \A k \in 1..n : k \in T <=> k \in S
  PROVE  /\ n + 1 \in T => T = S \cup {n + 1}
         /\ n + 1 \notin T => T = S
<1>1. \A k \in 1..(n + 1) : k \in 1..n \/ k = n + 1
  OBVIOUS
<1>2. n + 1 \notin S
  OBVIOUS
<1> QED BY <1>1, <1>2

(* The innermost construct goes on, its loops and switches the same. *)
LEMMA GoesOn ==
  ASSUME WellTyped, NEW c \in Seq(Tacs), NEW q, Listed(q), open' = Emit(open, c, q)
  PROVE  /\ Listed(open') /\ Depth' = Depth
         /\ \A k \in 1..(Depth - 1) : open'[k] = open[k]
         /\ \A k \in 1..Depth : Frame(open'[k]) /\ open'[k].kind = open[k].kind
         /\ Grows(open[Depth], open'[Depth], c, q)
         /\ Loops' = Loops /\ Switches' = Switches /\ OpenTyped'
<1>1. PICK n, s, t : n = Depth /\ s = open /\ t = open'
  OBVIOUS
<1>2. n \in Nat /\ n >= 1 /\ Listed(s) /\ n = Len(s)
  BY <1>1, Basics DEF WellTyped, OpenTyped, Depth
<1>3. DOMAIN s = 1..n /\ \A k \in 1..n : Frame(s[k]) /\ (s[k].kind = "function" <=> k = 1)
  BY <1>1, Basics DEF WellTyped, OpenTyped
<1>4. Emitted(s, n, c, q, t)
  <2>1. t = Emit(s, c, q)
    BY <1>1
  <2> QED BY <1>2, <2>1, EmitMeans
<1>5. Listed(t) /\ Len(t) = n /\ DOMAIN t = 1..n
  <2>1. Listed(t) /\ Len(t) = n
    BY <1>4 DEF Emitted
  <2> QED BY <2>1, ListedMeans
<1>6. \A k \in 1..(n - 1) : t[k] = s[k]
  BY <1>4 DEF Emitted
<1>7. PICK f, g : f = s[n] /\ g = t[n]
  OBVIOUS
<1>8. Grows(f, g, c, q)
  <2>1. g = Grown(f, c, q)
    BY <1>4, <1>7 DEF Emitted
  <2>2. Frame(f)
    BY <1>2, <1>3, <1>7
  <2> QED BY <2>1, <2>2, GrownFrame
<1>9. Frame(g) /\ g.kind = f.kind
  BY <1>8 DEF Grows
<1>10. \A k \in 1..n : Frame(t[k]) /\ t[k].kind = s[k].kind
  <2> SUFFICES ASSUME NEW k \in 1..n
               PROVE  Frame(t[k]) /\ t[k].kind = s[k].kind
    OBVIOUS
  <2>1. k = n \/ k \in 1..(n - 1)
    BY <1>2
  <2>2. CASE k = n
    BY <1>7, <1>9, <2>2
  <2>3. CASE k \in 1..(n - 1)
    BY <1>3, <1>6, <2>3
  <2> QED BY <2>1, <2>2, <2>3
<1>11. Loops' = Loops /\ Switches' = Switches
  BY <1>1, <1>3, <1>5, <1>10 DEF Loops, Switches
<1>12. Depth' = n
  BY <1>1, <1>5 DEF Depth
<1>13. OpenTyped'
  <2>1. \A k \in 1..n : Frame(t[k]) /\ (t[k].kind = "function" <=> k = 1)
    BY <1>3, <1>10
  <2> QED BY <1>1, <1>2, <1>5, <1>12, <2>1 DEF OpenTyped
<1> QED BY <1>1, <1>5, <1>6, <1>7, <1>8, <1>10, <1>11, <1>12, <1>13

(* A construct begins inside the innermost one. *)
LEMMA Begins ==
  ASSUME WellTyped, NEW kind \in Kinds, kind # "function", NEW id \in Nat,
         NEW calc \in BOOLEAN, open' = Append(open, Construct(kind, id, calc))
  PROVE  /\ Listed(open') /\ Depth' = Depth + 1
         /\ \A k \in 1..Depth : open'[k] = open[k]
         /\ open'[Depth + 1] = Construct(kind, id, calc)
         /\ OpenTyped'
         /\ open'[Depth + 1].kind = kind
         /\ Loops' = IF kind \in {"while", "for"} THEN Loops \cup {Depth + 1} ELSE Loops
         /\ Switches' = IF kind = "switch" THEN Switches \cup {Depth + 1} ELSE Switches
<1>1. PICK n, f : n = Depth /\ f = Construct(kind, id, calc)
  OBVIOUS
<1>2. /\ n \in Nat \ {0} /\ DOMAIN open = 1..n /\ Listed(open)
      /\ \A k \in 1..n : Frame(open[k]) /\ (open[k].kind = "function" <=> k = 1)
  BY <1>1, Basics DEF WellTyped, OpenTyped
<1>3. n = Len(open) /\ \A k \in 1..(n + 1) : k \in 1..n \/ k = n + 1
  BY <1>1, <1>2 DEF Depth
<1>4. open' = Append(open, f)
  BY <1>1
<1>5. n = Len(open)
  BY <1>3
<1>6. Appended(open, n, f, open')
  BY <1>2, <1>4, <1>5, ListedAppend
<1>7. Listed(open') /\ Len(open') = n + 1 /\ open'[n + 1] = f
  BY <1>6 DEF Appended
<1>8. \A k \in 1..n : open'[k] = open[k]
  BY <1>6 DEF Appended
<1>9. Frame(f) /\ f.kind = kind
  BY <1>1, NewFrame
<1>10. n + 1 # 1 /\ n + 1 \in 1..(n + 1) /\ n + 1 \notin 1..n
       /\ \A k \in 1..n : k \in 1..(n + 1)
  BY <1>2
<1>11. \A k \in 1..(n + 1) : Frame(open'[k]) /\ (open'[k].kind = "function" <=> k = 1)
  BY <1>2, <1>3, <1>7, <1>8, <1>9, <1>10
<1>12. DOMAIN open' = 1..(n + 1)
  BY <1>7, ListedMeans
<1>13. /\ \A k \in 1..(n + 1) : k \in Loops' <=> open'[k].kind \in {"while", "for"}
       /\ \A k \in 1..(n + 1) : k \in Switches' <=> open'[k].kind = "switch"
       /\ Loops' \subseteq 1..(n + 1) /\ Switches' \subseteq 1..(n + 1)
       /\ \A k \in 1..n : k \in Loops <=> open[k].kind \in {"while", "for"}
       /\ \A k \in 1..n : k \in Switches <=> open[k].kind = "switch"
       /\ Loops \in SUBSET (1..n) /\ Switches \in SUBSET (1..n)
       /\ Loops' \in SUBSET (1..(n + 1)) /\ Switches' \in SUBSET (1..(n + 1))
  BY <1>2, <1>12 DEF Loops, Switches
<1>14. Loops' = IF kind \in {"while", "for"} THEN Loops \cup {n + 1} ELSE Loops
  <2>1. \A k \in 1..n : k \in Loops' <=> k \in Loops
    BY <1>8, <1>10, <1>13
  <2>2. n + 1 \in Loops' <=> kind \in {"while", "for"}
    BY <1>7, <1>9, <1>10, <1>13
  <2>3. Loops \in SUBSET (1..n) /\ Loops' \in SUBSET (1..(n + 1)) /\ n \in Nat
    BY <1>2, <1>13
  <2>4. /\ n + 1 \in Loops' => Loops' = Loops \cup {n + 1}
        /\ n + 1 \notin Loops' => Loops' = Loops
    BY <2>1, <2>3, SetGrows
  <2> QED BY <2>2, <2>4
<1>15. Switches' = IF kind = "switch" THEN Switches \cup {n + 1} ELSE Switches
  <2>1. ASSUME NEW k \in 1..n
        PROVE  k \in Switches' <=> k \in Switches
    <3>1. k \in 1..(n + 1) /\ open'[k] = open[k]
      BY <1>8, <1>10
    <3>2. k \in Switches' <=> open'[k].kind = "switch"
      BY <1>13, <3>1
    <3>3. k \in Switches <=> open[k].kind = "switch"
      BY <1>13
    <3> QED BY <3>1, <3>2, <3>3
  <2>2. n + 1 \in Switches' <=> kind = "switch"
    BY <1>7, <1>9, <1>10, <1>13
  <2>3. Switches \in SUBSET (1..n) /\ Switches' \in SUBSET (1..(n + 1)) /\ n \in Nat
    BY <1>2, <1>13
  <2>4. /\ n + 1 \in Switches' => Switches' = Switches \cup {n + 1}
        /\ n + 1 \notin Switches' => Switches' = Switches
    BY <2>1, <2>3, SetGrows
  <2> QED BY <2>2, <2>4
<1>16. Depth' = n + 1
  BY <1>7 DEF Depth
<1>17. OpenTyped'
  BY <1>2, <1>7, <1>11, <1>16 DEF OpenTyped
<1> QED BY <1>1, <1>7, <1>8, <1>9, <1>14, <1>15, <1>16, <1>17

(* The innermost construct ends, and its code is added to the enclosing.   *)
LEMMA Ends ==
  ASSUME WellTyped, Depth >= 2, NEW c \in Seq(Tacs), NEW q, Listed(q),
         open' = Emit(Enclosing, c, q)
  PROVE  /\ Listed(open') /\ Depth' = Depth - 1
         /\ \A k \in 1..(Depth - 2) : open'[k] = open[k]
         /\ \A k \in 1..(Depth - 1) : Frame(open'[k]) /\ open'[k].kind = open[k].kind
         /\ Grows(open[Depth - 1], open'[Depth - 1], c, q)
         /\ Loops' = Loops \ {Depth} /\ Switches' = Switches \ {Depth} /\ OpenTyped'
<1>1. PICK n, m, r, s, t : n = Depth /\ m = n - 1 /\ r = Enclosing /\ s = open /\ t = open'
  OBVIOUS
<1>2. n \in Nat /\ n >= 1 /\ Listed(s) /\ n = Len(s)
  BY <1>1, Basics DEF WellTyped, OpenTyped, Depth
<1>3. DOMAIN s = 1..n /\ \A k \in 1..n : Frame(s[k]) /\ (s[k].kind = "function" <=> k = 1)
  BY <1>1, Basics DEF WellTyped, OpenTyped
<1>4. /\ m \in Nat /\ m >= 1 /\ m = n - 1 /\ n - 2 = m - 1 /\ m \in 1..m
      /\ \A k \in 1..m : (k = m \/ k \in 1..(m - 1)) /\ k \in 1..n /\ k # n
      /\ \A k \in 1..n : k = n \/ k \in 1..m
      /\ \A k \in 1..(m - 1) : k \in 1..m
  BY <1>1, <1>2
<1>5. Listed(r) /\ m = Len(r) /\ \A k \in 1..m : r[k] = s[k]
  <2>1. r = Front(s)
    BY <1>1 DEF Enclosing
  <2>2. Fronted(s, n, r)
    BY <1>2, <2>1, ListedFront
  <2> QED BY <1>4, <2>2 DEF Fronted
<1>6. Emitted(r, m, c, q, t)
  <2>1. t = Emit(r, c, q) /\ Listed(r) /\ m = Len(r) /\ m >= 1
    BY <1>1, <1>4, <1>5
  <2> QED BY <2>1, EmitMeans
<1>7. Listed(t) /\ Len(t) = m /\ DOMAIN t = 1..m
  <2>1. Listed(t) /\ Len(t) = m
    BY <1>6 DEF Emitted
  <2> QED BY <2>1, ListedMeans
<1>8. \A k \in 1..(m - 1) : t[k] = s[k]
  <2>1. \A k \in 1..(m - 1) : t[k] = r[k]
    BY <1>6 DEF Emitted
  <2> QED BY <1>4, <1>5, <2>1
<1>9. PICK f, g : f = s[m] /\ g = t[m]
  OBVIOUS
<1>10. Grows(f, g, c, q)
  <2>1. g = Grown(r[m], c, q)
    BY <1>6, <1>9 DEF Emitted
  <2>2. r[m] = f /\ Frame(f)
    BY <1>3, <1>4, <1>5, <1>9
  <2> QED BY <2>1, <2>2, GrownFrame
<1>11. Frame(g) /\ g.kind = f.kind
  BY <1>10 DEF Grows
<1>12. \A k \in 1..m : Frame(t[k]) /\ t[k].kind = s[k].kind
  <2> SUFFICES ASSUME NEW k \in 1..m
               PROVE  Frame(t[k]) /\ t[k].kind = s[k].kind
    OBVIOUS
  <2>1. CASE k = m
    BY <1>9, <1>11, <2>1
  <2>2. CASE k \in 1..(m - 1)
    BY <1>3, <1>4, <1>8, <2>2
  <2> QED BY <1>4, <2>1, <2>2
<1>13. /\ \A k : k \in Loops' <=> k \in 1..m /\ t[k].kind \in {"while", "for"}
       /\ \A k : k \in Switches' <=> k \in 1..m /\ t[k].kind = "switch"
  BY <1>1, <1>7 DEF Loops, Switches
<1>14. /\ \A k : k \in Loops <=> k \in 1..n /\ s[k].kind \in {"while", "for"}
       /\ \A k : k \in Switches <=> k \in 1..n /\ s[k].kind = "switch"
  BY <1>1, <1>3 DEF Loops, Switches
<1>15. Loops' = Loops \ {n}
  <2>1. \A k : k \in Loops' <=> k \in Loops /\ k # n
    BY <1>4, <1>12, <1>13, <1>14
  <2> QED BY <2>1
<1>16. Switches' = Switches \ {n}
  <2>1. \A k : k \in Switches' <=> k \in Switches /\ k # n
    BY <1>4, <1>12, <1>13, <1>14
  <2> QED BY <2>1
<1>17. Depth' = m
  BY <1>1, <1>7 DEF Depth
<1>18. OpenTyped'
  <2>1. \A k \in 1..m : Frame(t[k]) /\ (t[k].kind = "function" <=> k = 1)
    BY <1>3, <1>4, <1>12
  <2> QED BY <1>1, <1>4, <1>7, <1>17, <2>1 DEF OpenTyped
<1> QED BY <1>1, <1>4, <1>7, <1>8, <1>9, <1>10, <1>12, <1>15, <1>16, <1>17, <1>18

-----------------------------------------------------------------------------
(* The context stacks beside the constructs. *)

(* As long as the loops and switches are the same, so are their contexts.  *)
LEMMA ContextsKept ==
  ASSUME Mirrored, UNCHANGED contexts, Loops' = Loops, Switches' = Switches
  PROVE  Mirrored' /\ \A k : LoopAt(k)' = LoopAt(k) /\ SwitchAt(k)' = SwitchAt(k)
<1>1. /\ loop_stack' = loop_stack /\ switch_stack' = switch_stack
      /\ context_type_stack' = context_type_stack /\ Breakable' = Breakable
  BY DEF contexts, Breakable
<1>2. Mirrored'
  BY <1>1 DEF Mirrored
<1>3. \A k : LoopAt(k)' = LoopAt(k) /\ SwitchAt(k)' = SwitchAt(k)
  BY <1>1 DEF LoopAt, SwitchAt
<1> QED BY <1>2, <1>3

(* enter_loop: the new loop's labels are on top. *)
LEMMA LoopBegins ==
  ASSUME WellTyped, Mirrored, NEW e \in LoopContext,
         loop_stack' = Append(loop_stack, e),
         context_type_stack' = Append(context_type_stack, "LOOP"),
         UNCHANGED switch_stack,
         Loops' = Loops \cup {Depth + 1}, Switches' = Switches, Depth + 1 \notin Switches
  PROVE  /\ Mirrored'
         /\ loop_stack' \in Seq(LoopContext) /\ switch_stack' \in Seq(SwitchContext)
         /\ context_type_stack' \in Seq({"LOOP", "SWITCH"})
         /\ \A k \in Loops : LoopAt(k)' = LoopAt(k)
         /\ \A k : k = Depth + 1 => LoopAt(k)' = e
         /\ \A k \in Switches : SwitchAt(k)' = SwitchAt(k)
<1>1. PICK n, S, T : n = Depth /\ S = Loops /\ T = Loops'
  OBVIOUS
<1>2. PICK B, C : B = Breakable /\ C = Breakable'
  OBVIOUS
<1>3. /\ n \in Nat /\ S \in SUBSET (1..n) /\ T = S \cup {n + 1}
      /\ B \in SUBSET (1..n) /\ C = B \cup {n + 1}
  BY <1>1, <1>2, Basics DEF Breakable
<1>4. /\ loop_stack \in Seq(LoopContext) /\ Follows(loop_stack, S)
      /\ context_type_stack \in Seq({"LOOP", "SWITCH"}) /\ Follows(context_type_stack, B)
      /\ switch_stack \in Seq(SwitchContext) /\ Follows(switch_stack, Switches)
  BY <1>1, <1>2 DEF WellTyped, StacksTyped, Mirrored
<1>5. PICK r, t : r = loop_stack /\ t = loop_stack'
  OBVIOUS
<1>6. /\ r \in Seq(LoopContext) /\ Follows(r, S) /\ t = Append(r, e)
  BY <1>4, <1>5
<1>7. /\ t \in Seq(LoopContext) /\ Follows(t, T)
      /\ \A k \in S : t[Rank(T, k)] = r[Rank(S, k)]
      /\ t[Rank(T, n + 1)] = e
  <2>1. Pushing(n, S, r, T, t, e, LoopContext)
    BY <1>3, <1>6 DEF Pushing
  <2>2. Pushed(n, S, r, T, t, e, LoopContext)
    BY <2>1, PushedFollows
  <2> QED BY <2>2 DEF Pushed
<1>8. PICK E, x, y, d : E = {"LOOP", "SWITCH"} /\ x = context_type_stack
                       /\ y = context_type_stack' /\ d = "LOOP"
  OBVIOUS
<1>9. x \in Seq(E) /\ Follows(x, B) /\ y = Append(x, d) /\ d \in E
  BY <1>4, <1>8
<1>10. /\ y \in Seq(E) /\ Follows(y, C)
       /\ \A k \in B : y[Rank(C, k)] = x[Rank(B, k)]
       /\ y[Rank(C, n + 1)] = d
  <2>1. Pushing(n, B, x, C, y, d, E)
    BY <1>3, <1>9 DEF Pushing
  <2>2. Pushed(n, B, x, C, y, d, E)
    BY <2>1, PushedFollows
  <2> QED BY <2>2 DEF Pushed
<1>11. \A k \in C : y[Rank(C, k)] = IF k \in Loops' THEN "LOOP" ELSE "SWITCH"
  <2>1. \A k \in B : x[Rank(B, k)] = IF k \in Loops THEN "LOOP" ELSE "SWITCH"
    BY <1>2, <1>8 DEF Mirrored
  <2>2. \A k \in B : k \in Loops' <=> k \in Loops
    BY <1>1, <1>3
  <2>3. n + 1 \in Loops' <=> d = "LOOP"
    BY <1>1, <1>8
  <2>4. d \in {"LOOP", "SWITCH"}
    BY <1>8
  <2> QED BY <1>3, <1>10, <2>1, <2>2, <2>3, <2>4
<1>12. Mirrored'
  BY <1>1, <1>2, <1>4, <1>5, <1>7, <1>8, <1>10, <1>11 DEF Mirrored
<1>13. \A k \in Loops : LoopAt(k)' = LoopAt(k)
  BY <1>1, <1>5, <1>7 DEF LoopAt
<1>14. \A k : k = Depth + 1 => LoopAt(k)' = e
  BY <1>1, <1>5, <1>7 DEF LoopAt
<1>15. \A k \in Switches : SwitchAt(k)' = SwitchAt(k)
  BY DEF SwitchAt
<1> QED BY <1>4, <1>5, <1>7, <1>8, <1>10, <1>12, <1>13, <1>14, <1>15

(* begin_switch: the new switch's labels are on top. *)
LEMMA SwitchBegins ==
  ASSUME WellTyped, Mirrored, NEW e \in SwitchContext,
         switch_stack' = Append(switch_stack, e),
         context_type_stack' = Append(context_type_stack, "SWITCH"),
         UNCHANGED loop_stack,
         Switches' = Switches \cup {Depth + 1}, Loops' = Loops, Depth + 1 \notin Loops
  PROVE  /\ Mirrored'
         /\ loop_stack' \in Seq(LoopContext) /\ switch_stack' \in Seq(SwitchContext)
         /\ context_type_stack' \in Seq({"LOOP", "SWITCH"})
         /\ \A k \in Switches : SwitchAt(k)' = SwitchAt(k)
         /\ \A k : k = Depth + 1 => SwitchAt(k)' = e
         /\ \A k \in Loops : LoopAt(k)' = LoopAt(k)
<1>1. PICK n, S, T : n = Depth /\ S = Switches /\ T = Switches'
  OBVIOUS
<1>2. PICK B, C : B = Breakable /\ C = Breakable'
  OBVIOUS
<1>3. /\ n \in Nat /\ S \in SUBSET (1..n) /\ T = S \cup {n + 1}
      /\ B \in SUBSET (1..n) /\ C = B \cup {n + 1}
  BY <1>1, <1>2, Basics DEF Breakable
<1>4. /\ switch_stack \in Seq(SwitchContext) /\ Follows(switch_stack, S)
      /\ context_type_stack \in Seq({"LOOP", "SWITCH"}) /\ Follows(context_type_stack, B)
      /\ loop_stack \in Seq(LoopContext) /\ Follows(loop_stack, Loops)
  BY <1>1, <1>2 DEF WellTyped, StacksTyped, Mirrored
<1>5. PICK r, t : r = switch_stack /\ t = switch_stack'
  OBVIOUS
<1>6. /\ r \in Seq(SwitchContext) /\ Follows(r, S) /\ t = Append(r, e)
  BY <1>4, <1>5
<1>7. /\ t \in Seq(SwitchContext) /\ Follows(t, T)
      /\ \A k \in S : t[Rank(T, k)] = r[Rank(S, k)]
      /\ t[Rank(T, n + 1)] = e
  <2>1. Pushing(n, S, r, T, t, e, SwitchContext)
    BY <1>3, <1>6 DEF Pushing
  <2>2. Pushed(n, S, r, T, t, e, SwitchContext)
    BY <2>1, PushedFollows
  <2> QED BY <2>2 DEF Pushed
<1>8. PICK E, x, y, d : E = {"LOOP", "SWITCH"} /\ x = context_type_stack
                       /\ y = context_type_stack' /\ d = "SWITCH"
  OBVIOUS
<1>9. x \in Seq(E) /\ Follows(x, B) /\ y = Append(x, d) /\ d \in E
  BY <1>4, <1>8
<1>10. /\ y \in Seq(E) /\ Follows(y, C)
       /\ \A k \in B : y[Rank(C, k)] = x[Rank(B, k)]
       /\ y[Rank(C, n + 1)] = d
  <2>1. Pushing(n, B, x, C, y, d, E)
    BY <1>3, <1>9 DEF Pushing
  <2>2. Pushed(n, B, x, C, y, d, E)
    BY <2>1, PushedFollows
  <2> QED BY <2>2 DEF Pushed
<1>11. \A k \in C : y[Rank(C, k)] = IF k \in Loops' THEN "LOOP" ELSE "SWITCH"
  <2>1. \A k \in B : x[Rank(B, k)] = IF k \in Loops THEN "LOOP" ELSE "SWITCH"
    BY <1>2, <1>8 DEF Mirrored
  <2>2. \A k \in B : k \in Loops' <=> k \in Loops
    BY <1>1, <1>3
  <2>3. n + 1 \in Loops' <=> d = "LOOP"
    BY <1>1, <1>8
  <2>4. d \in {"LOOP", "SWITCH"}
    BY <1>8
  <2> QED BY <1>3, <1>10, <2>1, <2>2, <2>3, <2>4
<1>12. Mirrored'
  BY <1>1, <1>2, <1>4, <1>5, <1>7, <1>8, <1>10, <1>11 DEF Mirrored
<1>13. \A k \in Switches : SwitchAt(k)' = SwitchAt(k)
  BY <1>1, <1>5, <1>7 DEF SwitchAt
<1>14. \A k : k = Depth + 1 => SwitchAt(k)' = e
  BY <1>1, <1>5, <1>7 DEF SwitchAt
<1>15. \A k \in Loops : LoopAt(k)' = LoopAt(k)
  BY DEF LoopAt
<1> QED BY <1>4, <1>5, <1>7, <1>8, <1>10, <1>12, <1>13, <1>14, <1>15

(* leave_loop takes the labels of the loop that ends. *)
LEMMA LoopEnds ==
  ASSUME WellTyped, Mirrored, Depth \in Loops,
         loop_stack' = Front(loop_stack), context_type_stack' = Front(context_type_stack),
         UNCHANGED switch_stack,
         Loops' = Loops \ {Depth}, Switches' = Switches, Depth \notin Switches
  PROVE  /\ Mirrored'
         /\ loop_stack' \in Seq(LoopContext) /\ switch_stack' \in Seq(SwitchContext)
         /\ context_type_stack' \in Seq({"LOOP", "SWITCH"})
         /\ \A k \in Loops' : LoopAt(k)' = LoopAt(k)
         /\ Last(loop_stack) = LoopAt(Depth) /\ LoopAt(Depth) \in LoopContext
         /\ \A k \in Switches : SwitchAt(k)' = SwitchAt(k)
<1>1. PICK n, S, T : n = Depth /\ S = Loops /\ T = Loops'
  OBVIOUS
<1>2. PICK B, C : B = Breakable /\ C = Breakable'
  OBVIOUS
<1>3. /\ n \in Nat \ {0} /\ S \in SUBSET (1..n) /\ n \in S /\ T = S \ {n}
      /\ B \in SUBSET (1..n) /\ n \in B /\ C = B \ {n}
  BY <1>1, <1>2, Basics DEF Breakable
<1>4. /\ loop_stack \in Seq(LoopContext) /\ Follows(loop_stack, S)
      /\ context_type_stack \in Seq({"LOOP", "SWITCH"}) /\ Follows(context_type_stack, B)
      /\ switch_stack \in Seq(SwitchContext) /\ Follows(switch_stack, Switches)
  BY <1>1, <1>2 DEF WellTyped, StacksTyped, Mirrored
<1>5. PICK r, t : r = loop_stack /\ t = loop_stack'
  OBVIOUS
<1>6. r \in Seq(LoopContext) /\ Follows(r, S) /\ t = Front(r)
  BY <1>4, <1>5
<1>7. /\ t \in Seq(LoopContext) /\ Follows(t, T)
      /\ \A k \in T : t[Rank(T, k)] = r[Rank(S, k)]
      /\ Last(r) = r[Rank(S, n)] /\ r[Rank(S, n)] \in LoopContext
  <2>1. t \in Seq(LoopContext) /\ Popped(n, S, r, T, t) /\ r[Rank(S, n)] \in LoopContext
    BY <1>3, <1>6, PoppedFollows
  <2> QED BY <2>1 DEF Popped
<1>8. PICK E, x, y : E = {"LOOP", "SWITCH"} /\ x = context_type_stack
                    /\ y = context_type_stack'
  OBVIOUS
<1>9. x \in Seq(E) /\ Follows(x, B) /\ y = Front(x)
  BY <1>4, <1>8
<1>10. /\ y \in Seq(E) /\ Follows(y, C)
       /\ \A k \in C : y[Rank(C, k)] = x[Rank(B, k)]
  <2>1. y \in Seq(E) /\ Popped(n, B, x, C, y)
    BY <1>3, <1>9, PoppedFollows
  <2> QED BY <2>1 DEF Popped
<1>11. \A k \in C : y[Rank(C, k)] = IF k \in Loops' THEN "LOOP" ELSE "SWITCH"
  <2>1. \A k \in B : x[Rank(B, k)] = IF k \in Loops THEN "LOOP" ELSE "SWITCH"
    BY <1>2, <1>8 DEF Mirrored
  <2>2. \A k \in C : k \in B /\ (k \in Loops' <=> k \in Loops)
    BY <1>1, <1>3
  <2> QED BY <1>10, <2>1, <2>2
<1>12. Mirrored'
  BY <1>1, <1>2, <1>4, <1>5, <1>7, <1>8, <1>10, <1>11 DEF Mirrored
<1>13. \A k \in Loops' : LoopAt(k)' = LoopAt(k)
  BY <1>1, <1>5, <1>7 DEF LoopAt
<1>14. Last(loop_stack) = LoopAt(Depth) /\ LoopAt(Depth) \in LoopContext
  BY <1>1, <1>5, <1>7 DEF LoopAt
<1>15. \A k \in Switches : SwitchAt(k)' = SwitchAt(k)
  BY DEF SwitchAt
<1> QED BY <1>4, <1>5, <1>7, <1>8, <1>10, <1>12, <1>13, <1>14, <1>15

(* leave_switch takes the labels of the switch that ends. *)
LEMMA SwitchEnds ==
  ASSUME WellTyped, Mirrored, Depth \in Switches,
         switch_stack' = Front(switch_stack), context_type_stack' = Front(context_type_stack),
         UNCHANGED loop_stack,
         Switches' = Switches \ {Depth}, Loops' = Loops, Depth \notin Loops
  PROVE  /\ Mirrored'
         /\ loop_stack' \in Seq(LoopContext) /\ switch_stack' \in Seq(SwitchContext)
         /\ context_type_stack' \in Seq({"LOOP", "SWITCH"})
         /\ \A k \in Switches' : SwitchAt(k)' = SwitchAt(k)
         /\ Last(switch_stack) = SwitchAt(Depth) /\ SwitchAt(Depth) \in SwitchContext
         /\ \A k \in Loops : LoopAt(k)' = LoopAt(k)
<1>1. PICK n, S, T : n = Depth /\ S = Switches /\ T = Switches'
  OBVIOUS
<1>2. PICK B, C : B = Breakable /\ C = Breakable'
  OBVIOUS
<1>3. /\ n \in Nat \ {0} /\ S \in SUBSET (1..n) /\ n \in S /\ T = S \ {n}
      /\ B \in SUBSET (1..n) /\ n \in B /\ C = B \ {n}
  BY <1>1, <1>2, Basics DEF Breakable
<1>4. /\ switch_stack \in Seq(SwitchContext) /\ Follows(switch_stack, S)
      /\ context_type_stack \in Seq({"LOOP", "SWITCH"}) /\ Follows(context_type_stack, B)
      /\ loop_stack \in Seq(LoopContext) /\ Follows(loop_stack, Loops)
  BY <1>1, <1>2 DEF WellTyped, StacksTyped, Mirrored
<1>5. PICK r, t : r = switch_stack /\ t = switch_stack'
  OBVIOUS
<1>6. r \in Seq(SwitchContext) /\ Follows(r, S) /\ t = Front(r)
  BY <1>4, <1>5
<1>7. /\ t \in Seq(SwitchContext) /\ Follows(t, T)
      /\ \A k \in T : t[Rank(T, k)] = r[Rank(S, k)]
      /\ Last(r) = r[Rank(S, n)] /\ r[Rank(S, n)] \in SwitchContext
  <2>1. t \in Seq(SwitchContext) /\ Popped(n, S, r, T, t) /\ r[Rank(S, n)] \in SwitchContext
    BY <1>3, <1>6, PoppedFollows
  <2> QED BY <2>1 DEF Popped
<1>8. PICK E, x, y : E = {"LOOP", "SWITCH"} /\ x = context_type_stack
                    /\ y = context_type_stack'
  OBVIOUS
<1>9. x \in Seq(E) /\ Follows(x, B) /\ y = Front(x)
  BY <1>4, <1>8
<1>10. /\ y \in Seq(E) /\ Follows(y, C)
       /\ \A k \in C : y[Rank(C, k)] = x[Rank(B, k)]
  <2>1. y \in Seq(E) /\ Popped(n, B, x, C, y)
    BY <1>3, <1>9, PoppedFollows
  <2> QED BY <2>1 DEF Popped
<1>11. \A k \in C : y[Rank(C, k)] = IF k \in Loops' THEN "LOOP" ELSE "SWITCH"
  <2>1. \A k \in B : x[Rank(B, k)] = IF k \in Loops THEN "LOOP" ELSE "SWITCH"
    BY <1>2, <1>8 DEF Mirrored
  <2>2. \A k \in C : k \in B /\ (k \in Loops' <=> k \in Loops)
    BY <1>1, <1>3
  <2> QED BY <1>10, <2>1, <2>2
<1>12. Mirrored'
  BY <1>1, <1>2, <1>4, <1>5, <1>7, <1>8, <1>10, <1>11 DEF Mirrored
<1>13. \A k \in Switches' : SwitchAt(k)' = SwitchAt(k)
  BY <1>1, <1>5, <1>7 DEF SwitchAt
<1>14. Last(switch_stack) = SwitchAt(Depth) /\ SwitchAt(Depth) \in SwitchContext
  BY <1>1, <1>5, <1>7 DEF SwitchAt
<1>15. \A k \in Loops : LoopAt(k)' = LoopAt(k)
  BY DEF LoopAt
<1> QED BY <1>4, <1>5, <1>7, <1>8, <1>10, <1>12, <1>13, <1>14, <1>15

(* The innermost loop's or switch's entry is the top of its stack. *)
LEMMA TopContexts ==
  ASSUME WellTyped, Mirrored
  PROVE  /\ loop_stack # <<>> =>
              Last(loop_stack) \in LoopContext /\ \E k \in Loops : LoopAt(k) = Last(loop_stack)
         /\ switch_stack # <<>> =>
              Last(switch_stack) \in SwitchContext
              /\ \E k \in Switches : SwitchAt(k) = Last(switch_stack)
<1>1. ASSUME NEW E, NEW s \in Seq(E), NEW S, Follows(s, S), s # <<>>
      PROVE  Last(s) \in E /\ \E k \in S : s[Rank(S, k)] = Last(s)
  <2>1. PICK n : n = Len(s)
    OBVIOUS
  <2>2. n \in Nat /\ n # 0
    BY <1>1, <2>1, LenProperties, EmptySeq
  <2>3. n \in 1..n /\ n = Cardinality(S)
    BY <1>1, <2>1, <2>2 DEF Follows
  <2>4. PICK k \in S : Rank(S, k) = n
    BY <1>1, <2>3 DEF Follows, Ranked
  <2>5. Last(s) = s[n]
    BY <2>1 DEF Last
  <2>6. s[n] \in E
    BY <2>1, <2>3, ElementOfSeq
  <2> QED BY <2>4, <2>5, <2>6
<1>2. /\ loop_stack \in Seq(LoopContext) /\ Follows(loop_stack, Loops)
      /\ switch_stack \in Seq(SwitchContext) /\ Follows(switch_stack, Switches)
  BY DEF WellTyped, StacksTyped, Mirrored
<1>3. loop_stack # <<>> =>
        Last(loop_stack) \in LoopContext /\ \E k \in Loops : LoopAt(k) = Last(loop_stack)
  BY <1>1, <1>2 DEF LoopAt
<1>4. switch_stack # <<>> =>
        Last(switch_stack) \in SwitchContext
        /\ \E k \in Switches : SwitchAt(k) = Last(switch_stack)
  BY <1>1, <1>2 DEF SwitchAt
<1> QED BY <1>3, <1>4

(* do_case adds to the switch the walk is in, and to no other. *)
LEMMA CaseAdds ==
  ASSUME WellTyped, Mirrored, Depth \in Switches, NEW v \in CaseValues,
         switch_stack' = [switch_stack EXCEPT ![Len(switch_stack)].case_labels =
                            Append(@, <<v, next_label>>)],
         UNCHANGED <<loop_stack, context_type_stack>>,
         Loops' = Loops, Switches' = Switches
  PROVE  /\ Mirrored' /\ StacksTyped'
         /\ Last(switch_stack) = SwitchAt(Depth) /\ SwitchAt(Depth) \in SwitchContext
         /\ \A k \in Loops : LoopAt(k)' = LoopAt(k)
         /\ \A k \in Switches : k # Depth => SwitchAt(k)' = SwitchAt(k)
         /\ \A k \in Switches : SwitchAt(k)'.break = SwitchAt(k).break
                                /\ SwitchAt(k)'.default = SwitchAt(k).default
         /\ \A k : k = Depth => SwitchAt(k)'.case_labels =
                                  Append(SwitchAt(k).case_labels, <<v, next_label>>)
<1>1. PICK n, S, s, t : n = Depth /\ S = Switches /\ s = switch_stack /\ t = switch_stack'
  OBVIOUS
<1>2. /\ n \in Nat \ {0} /\ S \in SUBSET (1..n) /\ n \in S
      /\ s \in Seq(SwitchContext) /\ Follows(s, S)
  BY <1>1, Basics DEF WellTyped, StacksTyped, Mirrored
<1>3. PICK T, r : T = S \ {n} /\ r = Front(s)
  OBVIOUS
<1>4. Popped(n, S, s, T, r) /\ s[Rank(S, n)] \in SwitchContext
  BY <1>2, <1>3, PoppedFollows
<1>5. PICK m, a : m = Len(s) /\ a = s[m]
  OBVIOUS
<1>6. /\ Last(s) = a /\ Rank(S, n) = m /\ m \in Nat \ {0} /\ a \in SwitchContext
      /\ \A k \in T : Rank(S, k) # m
  BY <1>4, <1>5 DEF Popped
<1>7. PICK x, e : x = Append(a.case_labels, <<v, next_label>>)
                 /\ e = [a EXCEPT !.case_labels = x]
  OBVIOUS
<1>8. t = [s EXCEPT ![m] = e]
  BY <1>1, <1>5, <1>7
<1>9. x \in Seq(CaseValues \X Nat)
  <2>1. a.case_labels \in Seq(CaseValues \X Nat)
    BY <1>6 DEF SwitchContext
  <2>2. <<v, next_label>> \in CaseValues \X Nat
    BY DEF WellTyped
  <2> QED BY <1>7, <2>1, <2>2, AppendProperties
<1>10. e \in SwitchContext /\ e.break = a.break /\ e.default = a.default /\ e.case_labels = x
  BY <1>6, <1>7, <1>9 DEF SwitchContext
<1>11. m \in 1..m /\ DOMAIN s = 1..m
  BY <1>2, <1>5, <1>6, LenProperties
<1>12. t \in Seq(SwitchContext) /\ Len(t) = m
  BY <1>2, <1>5, <1>8, <1>10, <1>11, ExceptSeq
<1>13. t[m] = e /\ \A i \in 1..m : i # m => t[i] = s[i]
  BY <1>8, <1>11
<1>14. Follows(t, S)
  BY <1>2, <1>5, <1>12 DEF Follows
<1>15. Mirrored'
  <2>1. loop_stack' = loop_stack /\ context_type_stack' = context_type_stack
        /\ Breakable' = Breakable
    BY DEF Breakable
  <2> QED BY <1>1, <1>14, <2>1 DEF Mirrored
<1>16. StacksTyped'
  BY <1>1, <1>12 DEF StacksTyped, WellTyped
<1>17. \A k \in S : Rank(S, k) \in 1..m
  BY <1>2, <1>5, RankGrows DEF Follows
<1>18. \A k \in S : k # n => t[Rank(S, k)] = s[Rank(S, k)]
  BY <1>3, <1>6, <1>13, <1>17
<1>19. t[Rank(S, n)] = e /\ s[Rank(S, n)] = a
  BY <1>5, <1>6, <1>13
<1>20. \A k : SwitchAt(k) = s[Rank(S, k)] /\ SwitchAt(k)' = t[Rank(S, k)]
  BY <1>1 DEF SwitchAt
<1>21. Last(switch_stack) = SwitchAt(Depth) /\ SwitchAt(Depth) \in SwitchContext
  BY <1>1, <1>6, <1>19, <1>20
<1>22. \A k \in Switches : k # Depth => SwitchAt(k)' = SwitchAt(k)
  BY <1>1, <1>18, <1>20
<1>23. \A k \in Switches : SwitchAt(k)'.break = SwitchAt(k).break
                           /\ SwitchAt(k)'.default = SwitchAt(k).default
  BY <1>1, <1>10, <1>18, <1>19, <1>20
<1>24. \A k : k = Depth => SwitchAt(k)'.case_labels =
                             Append(SwitchAt(k).case_labels, <<v, next_label>>)
  BY <1>1, <1>7, <1>10, <1>19, <1>20
<1>25. \A k \in Loops : LoopAt(k)' = LoopAt(k)
  BY DEF LoopAt
<1> QED BY <1>15, <1>16, <1>21, <1>22, <1>23, <1>24, <1>25

-----------------------------------------------------------------------------
(* The stacks follow the constructs, step by step. *)

(* A list of one statement, and when it is a default label. *)
LEMMA OneStatement ==
  ASSUME NEW r, NEW q, q = <<r>>
  PROVE  Listed(q) /\ ((\E i \in DOMAIN q : q[i] = [kind |-> "default"])
                        <=> r = [kind |-> "default"])
<1>1. q \in Seq({r}) /\ DOMAIN q = {1} /\ q[1] = r
  OBVIOUS
<1>2. Listed(q)
  BY <1>1, SeqIsListed
<1> QED BY <1>1, <1>2

(* A list of none. *)
LEMMA NoStatement ==
  ASSUME NEW q, q = <<>>
  PROVE  Listed(q) /\ ~\E i \in DOMAIN q : q[i] = [kind |-> "default"]
<1>1. <<>> \in Seq({}) /\ DOMAIN <<>> = {}
  OBVIOUS
<1>2. Listed(<<>>)
  BY <1>1, SeqIsListed
<1> QED BY <1>1, <1>2

(* The code of a construct that ends is code. *)
LEMMA EndsInCode ==
  ASSUME NEW f, Frame(f), next_label \in Nat
  PROVE  /\ do_if(f) \in Seq(Tacs) /\ do_if_else(f) \in Seq(Tacs)
         /\ \A a \in LoopContext : do_while(f, a) \in Seq(Tacs) /\ do_for(f, a) \in Seq(Tacs)
         /\ \A a \in SwitchContext : end_switch(f, a) \in Seq(Tacs)
<1>1. ASSUME NEW l \in Nat
      PROVE  /\ <<Label(l)>> \in Seq(Tacs) /\ Label(l) \in Tacs
             /\ Goto(l) \in Tacs /\ <<Goto(l)>> \in Seq(Tacs)
             /\ <<Ifz(l, f.id)>> \in Seq(Tacs)
             /\ Code(f.calc, f.id) \in Seq(Tacs)
             /\ Tac("INIT", 0, f.id, 0) \in Tacs /\ Tac("UPDATE", 0, f.id, 0) \in Tacs
  <2>1. f.id \in Nat /\ f.calc \in BOOLEAN
    BY DEF Frame
  <2> QED BY <2>1, Instructions DEF Piece
<1>2. \A x, y \in Seq(Tacs) : x \o y \in Seq(Tacs)
  BY ConcatProperties
<1>3. \A x, y \in Tacs : <<x, y>> \in Seq(Tacs)
  OBVIOUS
<1>4. \A x, y \in Tacs : \A w, z \in Tacs : <<x, y, w, z>> \in Seq(Tacs)
  OBVIOUS
<1>5. f.code \in Seq(Tacs) /\ f.thenCode \in Seq(Tacs)
  BY DEF Frame
<1>6. do_if(f) \in Seq(Tacs)
  BY <1>1, <1>2, <1>5 DEF do_if
<1>7. do_if_else(f) \in Seq(Tacs)
  <2>1. next_label + 1 \in Nat
    OBVIOUS
  <2>2. <<Goto(next_label + 1), Label(next_label)>> \in Seq(Tacs)
    BY <1>1, <1>3, <2>1
  <2> QED BY <1>1, <1>2, <1>5, <2>1, <2>2 DEF do_if_else
<1>8. ASSUME NEW a \in LoopContext
      PROVE  do_while(f, a) \in Seq(Tacs) /\ do_for(f, a) \in Seq(Tacs)
  <2>1. a.start \in Nat /\ a.continue \in Nat /\ a.break \in Nat
    BY DEF LoopContext
  <2>2. <<Goto(a.continue), Label(a.break)>> \in Seq(Tacs)
    BY <1>1, <1>3, <2>1
  <2>3. do_while(f, a) \in Seq(Tacs)
    BY <1>1, <1>2, <1>5, <2>1, <2>2 DEF do_while
  <2>4. <<Tac("INIT", 0, f.id, 0), Label(a.start)>> \in Seq(Tacs)
    BY <1>1, <1>3, <2>1
  <2>5. <<Label(a.continue), Tac("UPDATE", 0, f.id, 0), Goto(a.start), Label(a.break)>>
          \in Seq(Tacs)
    BY <1>1, <1>4, <2>1
  <2>6. do_for(f, a) \in Seq(Tacs)
    BY <1>1, <1>2, <1>5, <2>1, <2>4, <2>5 DEF do_for
  <2> QED BY <2>3, <2>6
<1>9. ASSUME NEW a \in SwitchContext
      PROVE  end_switch(f, a) \in Seq(Tacs)
  <2>1. a.default \in Nat /\ a.break \in Nat /\ f.id \in Nat
    BY DEF SwitchContext, Frame
  <2>2. PICK t : t = [i \in DOMAIN a.case_labels |->
                        CaseJump(a.case_labels[i][2], f.id, a.case_labels[i][1])]
    OBVIOUS
  <2>3. t \in Seq(Tacs)
    BY <2>1, <2>2, Tests DEF Piece
  <2>4. end_switch(f, a) = t \o <<Goto(a.default)>> \o f.code \o <<Label(a.break)>>
    BY <2>2 DEF end_switch
  <2> QED BY <1>1, <1>2, <1>5, <2>1, <2>3, <2>4
<1> QED BY <1>6, <1>7, <1>8, <1>9

(* A statement inside the innermost construct. *)
LEMMA StaysMirrored ==
  ASSUME IInv, NEW c \in Seq(Tacs), NEW q, Listed(q), open' = Emit(open, c, q),
         UNCHANGED contexts
  PROVE  Mirrored' /\ StacksTyped' /\ OpenTyped'
<1>1. WellTyped /\ Mirrored
  BY DEF IInv
<1>2. Loops' = Loops /\ Switches' = Switches /\ OpenTyped'
  BY <1>1, GoesOn
<1>3. Mirrored'
  BY <1>1, <1>2, ContextsKept
<1>4. StacksTyped'
  BY <1>1 DEF WellTyped, StacksTyped, contexts
<1> QED BY <1>2, <1>3, <1>4

(* Statements without a body. *)
LEMMA SimpleIInv ==
  ASSUME IInv, NEW op \in {"DO", "RETURN"}, Simple(op)
  PROVE  IInv'
<1>1. WellTyped /\ atoms' \in Nat /\ atoms' \in 0..MaxAtoms /\ errors' \in 0..atoms'
      /\ next_label' \in Nat \ {0}
  BY ControlAssumption DEF IInv, WellTyped, Simple, Room
<1>2. PICK c, q : c = <<Tac(op, 0, atoms', 0)>> /\ q = <<[kind |-> op, id |-> atoms']>>
  OBVIOUS
<1>3. c \in Seq(Tacs) /\ Listed(q)
  <2>1. Piece(c, {}, {})
    BY <1>1, <1>2, 0 \in Nat, TRUE \in BOOLEAN, Instructions
  <2> QED BY <1>2, <2>1, OneStatement DEF Piece
<1>4. open' = Emit(open, c, q) /\ UNCHANGED contexts
  BY <1>2 DEF Simple
<1>5. Mirrored' /\ StacksTyped' /\ OpenTyped'
  BY <1>3, <1>4, StaysMirrored
<1> QED BY <1>1, <1>5 DEF IInv, WellTyped

(* What Jump and Complain have in common. *)
LEMMA JumpIInv ==
  ASSUME IInv, Room(1), atoms' = atoms + 1, UNCHANGED <<next_label, contexts>>,
         \/ \E kind : \E l \in Nat : Jump(kind, l)
         \/ \E kids : Listed(kids) /\ Complain(kids)
  PROVE  IInv'
<1>1. WellTyped /\ atoms' \in Nat /\ atoms' \in 0..MaxAtoms /\ next_label' \in Nat \ {0}
      /\ errors + 1 \in 0..atoms' /\ errors \in 0..atoms'
  BY ControlAssumption DEF IInv, WellTyped, Room
<1>2. ASSUME NEW kind, NEW l \in Nat, Jump(kind, l)
      PROVE  IInv'
  <2>1. PICK c, q : c = <<Goto(l)>> /\ q = <<[kind |-> kind]>>
    OBVIOUS
  <2>2. c \in Seq(Tacs) /\ Listed(q)
    <3>1. Piece(c, {}, {l})
      BY <2>1, 0 \in Nat, TRUE \in BOOLEAN, Instructions
    <3> QED BY <2>1, <3>1, OneStatement DEF Piece
  <2>3. open' = Emit(open, c, q) /\ UNCHANGED contexts /\ errors' = errors
    BY <1>2, <2>1 DEF Jump
  <2>4. Mirrored' /\ StacksTyped' /\ OpenTyped'
    BY <2>2, <2>3, StaysMirrored
  <2> QED BY <1>1, <2>3, <2>4 DEF IInv, WellTyped
<1>3. ASSUME NEW kids, Listed(kids), Complain(kids)
      PROVE  IInv'
  <2>1. PICK c : c = <<>>
    OBVIOUS
  <2>2. c \in Seq(Tacs)
    BY <2>1, NoPiece DEF Piece
  <2>3. open' = Emit(open, c, kids) /\ UNCHANGED contexts /\ errors' = errors + 1
    BY <1>3, <2>1 DEF Complain
  <2>4. Mirrored' /\ StacksTyped' /\ OpenTyped'
    BY <1>3, <2>2, <2>3, StaysMirrored
  <2> QED BY <1>1, <2>3, <2>4 DEF IInv, WellTyped
<1> QED BY <1>2, <1>3

(* Break and continue. *)
LEMMA BreakIInv ==
  ASSUME IInv, Break
  PROVE  IInv'
<1>1. Room(1) /\ atoms' = atoms + 1 /\ UNCHANGED <<next_label, contexts>>
  BY DEF Break
<1>2. CASE in_loop /\ Jump("break", Last(loop_stack).break)
  <2>1. Last(loop_stack).break \in Nat
    BY <1>2, TopContexts DEF IInv, in_loop, LoopContext
  <2> QED BY <1>1, <1>2, <2>1, JumpIInv
<1>3. CASE in_switch /\ Jump("break", Last(switch_stack).break)
  <2>1. Last(switch_stack).break \in Nat
    BY <1>3, TopContexts DEF IInv, in_switch, SwitchContext
  <2> QED BY <1>1, <1>3, <2>1, JumpIInv
<1>4. CASE Complain(<<>>)
  BY <1>1, <1>4, NoStatement, JumpIInv
<1> QED BY <1>2, <1>3, <1>4 DEF Break

(* continue keeps the invariant. *)
LEMMA ContinueIInv ==
  ASSUME IInv, Continue
  PROVE  IInv'
<1>1. Room(1) /\ atoms' = atoms + 1 /\ UNCHANGED <<next_label, contexts>>
  BY DEF Continue
<1>2. CASE in_loop /\ Jump("continue", Last(loop_stack).continue)
  <2>1. Last(loop_stack).continue \in Nat
    BY <1>2, TopContexts DEF IInv, in_loop, LoopContext
  <2> QED BY <1>1, <1>2, <2>1, JumpIInv
<1>3. CASE Complain(IF loop_stack # <<>> THEN <<[kind |-> "continue"]>> ELSE <<>>)
  <2>1. Listed(IF loop_stack # <<>> THEN <<[kind |-> "continue"]>> ELSE <<>>)
    BY OneStatement, NoStatement
  <2> QED BY <1>1, <1>3, <2>1, JumpIInv
<1> QED BY <1>2, <1>3 DEF Continue

(* Constructs begin. *)
LEMMA OpenIfIInv ==
  ASSUME IInv, OpenIf
  PROVE  IInv'
<1>1. WellTyped /\ Mirrored /\ atoms' \in Nat /\ atoms' \in 0..MaxAtoms
      /\ errors' \in 0..atoms' /\ next_label' \in Nat \ {0}
  BY ControlAssumption DEF IInv, WellTyped, OpenIf, Room
<1>2. open' = Append(open, Construct("if", atoms', TRUE)) /\ UNCHANGED contexts
  BY DEF OpenIf
<1>3. OpenTyped' /\ Loops' = Loops /\ Switches' = Switches
  <2>1. "if" \in Kinds /\ "if" # "function" /\ TRUE \in BOOLEAN
    BY DEF Kinds
  <2> QED BY <1>1, <1>2, <2>1, Begins
<1>4. Mirrored'
  BY <1>1, <1>2, <1>3, ContextsKept
<1>5. StacksTyped'
  BY <1>1, <1>2 DEF WellTyped, StacksTyped, contexts
<1> QED BY <1>1, <1>3, <1>4, <1>5 DEF IInv, WellTyped

(* A loop begins: what OpenWhile and OpenFor have in common. *)
LEMMA EnterIInv ==
  ASSUME IInv, NEW kind \in {"while", "for"}, NEW e \in LoopContext,
         Room(1), atoms' = atoms + 1, enter_loop(e), next_label' \in Nat \ {0},
         open' = Append(open, Construct(kind, atoms', TRUE)), UNCHANGED errors
  PROVE  /\ IInv' /\ Loops' = Loops \cup {Depth + 1} /\ Switches' = Switches
         /\ \A k \in Loops : LoopAt(k)' = LoopAt(k)
         /\ \A k : k = Depth + 1 => LoopAt(k)' = e
         /\ \A k \in Switches : SwitchAt(k)' = SwitchAt(k)
<1>1. WellTyped /\ Mirrored /\ atoms' \in Nat /\ atoms' \in 0..MaxAtoms
      /\ errors' \in 0..atoms'
  BY ControlAssumption DEF IInv, WellTyped, Room
<1>2. OpenTyped' /\ Loops' = Loops \cup {Depth + 1} /\ Switches' = Switches
  <2>1. kind \in Kinds /\ kind # "function" /\ kind # "switch" /\ TRUE \in BOOLEAN
    BY DEF Kinds
  <2> QED BY <1>1, <2>1, Begins
<1>3. Depth + 1 \notin Switches
  BY <1>1, Basics
<1>4. /\ loop_stack' = Append(loop_stack, e) /\ UNCHANGED switch_stack
      /\ context_type_stack' = Append(context_type_stack, "LOOP")
  BY DEF enter_loop
<1>5. Mirrored'
  BY <1>1, <1>2, <1>3, <1>4, LoopBegins
<1>6. StacksTyped'
  BY <1>1, <1>2, <1>3, <1>4, LoopBegins DEF StacksTyped
<1>7. /\ \A k \in Loops : LoopAt(k)' = LoopAt(k)
      /\ \A k : k = Depth + 1 => LoopAt(k)' = e
      /\ \A k \in Switches : SwitchAt(k)' = SwitchAt(k)
  BY <1>1, <1>2, <1>3, <1>4, LoopBegins
<1>8. IInv'
  BY <1>1, <1>2, <1>5, <1>6 DEF IInv, WellTyped
<1> QED BY <1>2, <1>7, <1>8

(* A while opened keeps it: its labels go on top of the loops'. *)
LEMMA OpenWhileIInv ==
  ASSUME IInv, OpenWhile
  PROVE  IInv'
<1>1. next_label' \in Nat \ {0} /\ Room(1) /\ atoms' = atoms + 1 /\ UNCHANGED errors
      /\ open' = Append(open, Construct("while", atoms', TRUE))
  BY DEF OpenWhile, IInv, WellTyped
<1>2. PICK e : e = [continue |-> next_label, break |-> next_label + 1, start |-> 0]
  OBVIOUS
<1>3. e \in LoopContext /\ enter_loop(e)
  BY <1>2 DEF OpenWhile, LoopContext, IInv, WellTyped
<1> QED BY <1>1, <1>3, EnterIInv

(* A for opened keeps it: its labels go on top of the loops'. *)
LEMMA OpenForIInv ==
  ASSUME IInv, OpenFor
  PROVE  IInv'
<1>1. next_label' \in Nat \ {0} /\ Room(1) /\ atoms' = atoms + 1 /\ UNCHANGED errors
      /\ open' = Append(open, Construct("for", atoms', TRUE))
  BY DEF OpenFor, IInv, WellTyped
<1>2. PICK e : e = [start |-> next_label, continue |-> next_label + 1,
                    break |-> next_label + 2]
  OBVIOUS
<1>3. e \in LoopContext /\ enter_loop(e)
  BY <1>2 DEF OpenFor, LoopContext, IInv, WellTyped
<1> QED BY <1>1, <1>3, EnterIInv

(* A switch opened keeps it: its labels go on top of the switches'. *)
LEMMA OpenSwitchIInv ==
  ASSUME IInv, NEW calc \in BOOLEAN, OpenSwitch(calc)
  PROVE  /\ IInv' /\ Switches' = Switches \cup {Depth + 1} /\ Loops' = Loops
         /\ \A k \in Switches : SwitchAt(k)' = SwitchAt(k)
         /\ \A k : k = Depth + 1 =>
              SwitchAt(k)' = [break |-> next_label, default |-> next_label + 1,
                              case_labels |-> <<>>]
         /\ \A k \in Loops : LoopAt(k)' = LoopAt(k)
<1>1. WellTyped /\ Mirrored /\ atoms' \in Nat /\ atoms' \in 0..MaxAtoms
      /\ errors' \in 0..atoms' /\ next_label' \in Nat \ {0}
  BY ControlAssumption DEF IInv, WellTyped, OpenSwitch, Room
<1>2. OpenTyped' /\ Loops' = Loops /\ Switches' = Switches \cup {Depth + 1}
  <2>1. "switch" \in Kinds /\ "switch" # "function" /\ "switch" \notin {"while", "for"}
    BY DEF Kinds
  <2>2. open' = Append(open, Construct("switch", atoms', calc))
    BY DEF OpenSwitch
  <2> QED BY <1>1, <2>1, <2>2, Begins
<1>3. Depth + 1 \notin Loops
  BY <1>1, Basics
<1>4. PICK e : e = [break |-> next_label, default |-> next_label + 1, case_labels |-> <<>>]
  OBVIOUS
<1>5. e \in SwitchContext
  <2>1. <<>> \in Seq(CaseValues \X Nat)
    OBVIOUS
  <2> QED BY <1>4, <2>1 DEF SwitchContext, IInv, WellTyped
<1>6. /\ switch_stack' = Append(switch_stack, e) /\ UNCHANGED loop_stack
      /\ context_type_stack' = Append(context_type_stack, "SWITCH")
  BY <1>4 DEF OpenSwitch
<1>7. Mirrored'
  BY <1>1, <1>2, <1>3, <1>5, <1>6, SwitchBegins
<1>8. StacksTyped'
  BY <1>1, <1>2, <1>3, <1>5, <1>6, SwitchBegins DEF StacksTyped
<1>9. /\ \A k \in Switches : SwitchAt(k)' = SwitchAt(k)
      /\ \A k : k = Depth + 1 => SwitchAt(k)' = e
      /\ \A k \in Loops : LoopAt(k)' = LoopAt(k)
  BY <1>1, <1>2, <1>3, <1>5, <1>6, SwitchBegins
<1>10. IInv'
  BY <1>1, <1>2, <1>7, <1>8 DEF IInv, WellTyped
<1> QED BY <1>2, <1>4, <1>9, <1>10

(* The then branch's code is put aside, and the else branch has none yet. *)
LEMMA ElseMeans ==
  ASSUME WellTyped, Else
  PROVE  /\ OpenTyped' /\ Depth' = Depth /\ Loops' = Loops /\ Switches' = Switches
         /\ \A k \in 1..(Depth - 1) : open'[k] = open[k]
         /\ open[Depth].kind = "if" /\ open'[Depth].kind = "else"
         /\ open'[Depth].code = <<>> /\ open'[Depth].thenCode = open[Depth].code
         /\ open[Depth].thenCode = <<>>
<1>1. PICK n, f, r : n = Depth /\ f = open[n] /\ r = Enclosing
  OBVIOUS
<1>2. /\ n \in Nat \ {0} /\ DOMAIN open = 1..n /\ Listed(open) /\ n = Len(open)
      /\ \A k \in 1..n : Frame(open[k]) /\ (open[k].kind = "function" <=> k = 1)
      /\ Current = f /\ Frame(f)
  BY <1>1, Basics DEF WellTyped, OpenTyped, Depth
<1>3. PICK m : m = n - 1
  OBVIOUS
<1>4. /\ m \in Nat /\ n = m + 1 /\ n \in 1..n
      /\ \A k \in 1..n : k = n \/ k \in 1..m
      /\ \A k \in 1..m : k \in 1..n /\ k # n
  <2>1. n \in Nat \ {0}
    BY <1>2
  <2> QED BY <1>3, <2>1
<1>5. Listed(r) /\ Len(r) = m /\ \A k \in 1..m : r[k] = open[k]
  <2>0. r = Front(open) /\ Listed(open) /\ n = Len(open) /\ n >= 1
    BY <1>1, <1>2 DEF Enclosing
  <2>1. Fronted(open, n, r)
    BY <2>0, ListedFront
  <2>2. Listed(r) /\ Len(r) = n - 1 /\ \A k \in 1..(n - 1) : r[k] = open[k]
    BY <2>1 DEF Fronted
  <2> QED BY <1>3, <2>2
<1>6. PICK y, z : y = f.thenCode \o f.code /\ z = f.kids
  OBVIOUS
<1>7. PICK g : g = [f EXCEPT !.kind = "else", !.code = <<>>, !.kids = <<>>,
                             !.thenCode = y, !.thenKids = z]
  OBVIOUS
<1>8. f.kind = "if" /\ f.thenCode = <<>> /\ f.code \in Seq(Tacs)
  BY <1>2 DEF Else, Frame
<1>9. y = f.code
  BY <1>6, <1>8, ConcatEmptySeq
<1>10. /\ DOMAIN g = DOMAIN f /\ g.kind = "else" /\ g.code = <<>> /\ g.kids = <<>>
       /\ g.thenCode = y /\ g.id = f.id /\ g.calc = f.calc
  BY <1>2, <1>7 DEF Frame
<1>11. Listed(<<>>) /\ <<>> \in Seq(Tacs)
  BY NoStatement, NoPiece DEF Piece
<1>12. Frame(g)
  BY <1>2, <1>8, <1>9, <1>10, <1>11 DEF Frame, Kinds
<1>13. open' = Append(r, g)
  BY <1>1, <1>2, <1>6, <1>7 DEF Else
<1>14. Listed(open') /\ Len(open') = m + 1 /\ open'[m + 1] = g
       /\ \A k \in 1..m : open'[k] = r[k]
  <2>0. Listed(r) /\ m = Len(r) /\ open' = Append(r, g)
    BY <1>5, <1>13
  <2>1. Appended(r, m, g, open')
    BY <2>0, ListedAppend
  <2> QED BY <2>1 DEF Appended
<1>15. open'[n] = g /\ Depth' = n /\ \A k \in 1..m : open'[k] = open[k]
  BY <1>4, <1>5, <1>14 DEF Depth
<1>16. n # 1
  BY <1>1, <1>2, <1>4, <1>8
<1>17. \A k \in 1..n : Frame(open'[k]) /\ (open'[k].kind = "function" <=> k = 1)
  BY <1>2, <1>4, <1>10, <1>12, <1>15, <1>16
<1>18. OpenTyped'
  BY <1>2, <1>14, <1>15, <1>17 DEF OpenTyped
<1>19. DOMAIN open' = 1..n
  BY <1>4, <1>14, ListedMeans
<1>20. Loops' = Loops /\ Switches' = Switches
  <2>1. \A k \in 1..n : /\ open'[k].kind \in {"while", "for"} <=> open[k].kind \in {"while", "for"}
                        /\ open'[k].kind = "switch" <=> open[k].kind = "switch"
    BY <1>1, <1>4, <1>8, <1>10, <1>15
  <2> QED BY <1>2, <1>19, <2>1 DEF Loops, Switches
<1> QED BY <1>1, <1>3, <1>8, <1>9, <1>10, <1>15, <1>18, <1>20

(* An else keeps it: the construct stays at its depth. *)
LEMMA ElseIInv ==
  ASSUME IInv, Else
  PROVE  IInv'
<1>1. WellTyped /\ Mirrored
  BY DEF IInv
<1>2. OpenTyped' /\ Loops' = Loops /\ Switches' = Switches
  BY <1>1, ElseMeans
<1>3. UNCHANGED <<next_label, contexts, atoms, errors>>
  BY DEF Else
<1>4. Mirrored'
  BY <1>1, <1>2, <1>3, ContextsKept
<1>5. WellTyped'
  BY <1>1, <1>2, <1>3 DEF WellTyped, StacksTyped, contexts
<1> QED BY <1>4, <1>5 DEF IInv

(* Constructs end. *)
LEMMA CloseIfIInv ==
  ASSUME IInv, CloseIf
  PROVE  IInv' /\ Loops' = Loops /\ Switches' = Switches /\ Depth >= 2
<1>1. WellTyped /\ Mirrored /\ next_label \in Nat
  BY DEF IInv, WellTyped
<1>2. PICK f : f = open[Depth]
  OBVIOUS
<1>3. Frame(f) /\ Current = f /\ f.kind \in {"if", "else"}
  BY <1>1, <1>2, Basics DEF CloseIf
<1>4. Depth >= 2 /\ Depth \notin Loops /\ Depth \notin Switches
  BY <1>1, <1>2, <1>3, Basics
<1>5. PICK c, q : c \in Seq(Tacs) /\ Listed(q) /\ open' = Emit(Enclosing, c, q)
  <2>1. do_if(f) \in Seq(Tacs) /\ do_if_else(f) \in Seq(Tacs)
    BY <1>1, <1>3, EndsInCode
  <2> QED BY <1>3, <2>1, OneStatement DEF CloseIf
<1>6. Loops' = Loops /\ Switches' = Switches /\ OpenTyped'
  BY <1>1, <1>4, <1>5, Ends
<1>7. UNCHANGED <<contexts, atoms, errors>> /\ next_label' \in Nat \ {0}
  BY DEF CloseIf, IInv, WellTyped
<1>8. Mirrored'
  BY <1>1, <1>6, <1>7, ContextsKept
<1>9. WellTyped'
  BY <1>1, <1>6, <1>7 DEF WellTyped, StacksTyped, contexts
<1> QED BY <1>4, <1>6, <1>8, <1>9 DEF IInv

(* What CloseWhile and CloseFor have in common. *)
LEMMA LeaveIInv ==
  ASSUME IInv, Depth \in Loops, NEW c \in Seq(Tacs), NEW q, Listed(q),
         open' = Emit(Enclosing, c, q), leave_loop, UNCHANGED <<next_label, atoms, errors>>
  PROVE  /\ IInv' /\ Loops' = Loops \ {Depth} /\ Switches' = Switches
         /\ \A k \in Loops' : LoopAt(k)' = LoopAt(k)
         /\ \A k \in Switches : SwitchAt(k)' = SwitchAt(k)
<1>1. WellTyped /\ Mirrored
  BY DEF IInv
<1>2. Depth \notin Switches /\ Depth >= 2
  BY <1>1, Basics
<1>3. Loops' = Loops \ {Depth} /\ Switches' = Switches /\ OpenTyped'
  BY <1>1, <1>2, Ends
<1>4. /\ loop_stack' = Front(loop_stack) /\ UNCHANGED switch_stack
      /\ context_type_stack' = Front(context_type_stack)
  BY DEF leave_loop
<1>5. Mirrored'
  BY <1>1, <1>2, <1>3, <1>4, LoopEnds
<1>6. StacksTyped'
  BY <1>1, <1>2, <1>3, <1>4, LoopEnds DEF StacksTyped
<1>7. /\ \A k \in Loops' : LoopAt(k)' = LoopAt(k)
      /\ \A k \in Switches : SwitchAt(k)' = SwitchAt(k)
  BY <1>1, <1>2, <1>3, <1>4, LoopEnds
<1>8. WellTyped'
  BY <1>1, <1>3, <1>6 DEF WellTyped
<1> QED BY <1>3, <1>5, <1>7, <1>8 DEF IInv

(* The top of its stack is the innermost loop's, or the innermost switch's. *)
LEMMA OwnContexts ==
  ASSUME IInv
  PROVE  /\ Depth \in Loops =>
              Last(loop_stack) = LoopAt(Depth) /\ LoopAt(Depth) \in LoopContext
         /\ Depth \in Switches =>
              Last(switch_stack) = SwitchAt(Depth) /\ SwitchAt(Depth) \in SwitchContext
<1>1. PICK n : n = Depth
  OBVIOUS
<1>2. n \in Nat \ {0} /\ Loops \in SUBSET (1..n) /\ Switches \in SUBSET (1..n)
  BY <1>1, Basics DEF IInv
<1>3. ASSUME NEW S \in SUBSET (1..n), n \in S, NEW E, NEW s \in Seq(E), Follows(s, S)
      PROVE  Last(s) = s[Rank(S, n)] /\ s[Rank(S, n)] \in E
  <2>1. PICK t, T : t = Front(s) /\ T = S \ {n}
    OBVIOUS
  <2>2. Popped(n, S, s, T, t) /\ s[Rank(S, n)] \in E
    BY <1>2, <1>3, <2>1, PoppedFollows
  <2> QED BY <2>2 DEF Popped
<1>4. /\ loop_stack \in Seq(LoopContext) /\ Follows(loop_stack, Loops)
      /\ switch_stack \in Seq(SwitchContext) /\ Follows(switch_stack, Switches)
  BY DEF IInv, WellTyped, StacksTyped, Mirrored
<1>5. n \in Loops => Last(loop_stack) = LoopAt(n) /\ LoopAt(n) \in LoopContext
  BY <1>2, <1>3, <1>4 DEF LoopAt
<1>6. n \in Switches => Last(switch_stack) = SwitchAt(n) /\ SwitchAt(n) \in SwitchContext
  BY <1>2, <1>3, <1>4 DEF SwitchAt
<1> QED BY <1>1, <1>5, <1>6

(* A while closed keeps it: its labels come off the loops'. *)
LEMMA CloseWhileIInv ==
  ASSUME IInv, CloseWhile
  PROVE  /\ IInv' /\ Loops' = Loops \ {Depth} /\ Switches' = Switches
         /\ \A k \in Loops' : LoopAt(k)' = LoopAt(k)
         /\ \A k \in Switches : SwitchAt(k)' = SwitchAt(k)
<1>1. PICK f : f = open[Depth]
  OBVIOUS
<1>2. Frame(f) /\ Current = f /\ f.kind = "while" /\ Depth \in Loops /\ next_label \in Nat
  BY <1>1, Basics DEF CloseWhile, IInv, WellTyped
<1>3. PICK a : a = Last(loop_stack)
  OBVIOUS
<1>4. a \in LoopContext
  BY <1>2, <1>3, OwnContexts
<1>5. PICK c, q : c \in Seq(Tacs) /\ Listed(q) /\ open' = Emit(Enclosing, c, q)
  <2>1. do_while(f, a) \in Seq(Tacs)
    BY <1>2, <1>4, EndsInCode
  <2> QED BY <1>2, <1>3, <2>1, OneStatement DEF CloseWhile
<1>6. leave_loop /\ UNCHANGED <<next_label, atoms, errors>>
  BY DEF CloseWhile
<1> QED BY <1>2, <1>5, <1>6, LeaveIInv

(* A for closed keeps it: its labels come off the loops'. *)
LEMMA CloseForIInv ==
  ASSUME IInv, CloseFor
  PROVE  /\ IInv' /\ Loops' = Loops \ {Depth} /\ Switches' = Switches
         /\ \A k \in Loops' : LoopAt(k)' = LoopAt(k)
         /\ \A k \in Switches : SwitchAt(k)' = SwitchAt(k)
<1>1. PICK f : f = open[Depth]
  OBVIOUS
<1>2. Frame(f) /\ Current = f /\ f.kind = "for" /\ Depth \in Loops /\ next_label \in Nat
  BY <1>1, Basics DEF CloseFor, IInv, WellTyped
<1>3. PICK a : a = Last(loop_stack)
  OBVIOUS
<1>4. a \in LoopContext
  BY <1>2, <1>3, OwnContexts
<1>5. PICK c, q : c \in Seq(Tacs) /\ Listed(q) /\ open' = Emit(Enclosing, c, q)
  <2>1. do_for(f, a) \in Seq(Tacs)
    BY <1>2, <1>4, EndsInCode
  <2> QED BY <1>2, <1>3, <2>1, OneStatement DEF CloseFor
<1>6. leave_loop /\ UNCHANGED <<next_label, atoms, errors>>
  BY DEF CloseFor
<1> QED BY <1>2, <1>5, <1>6, LeaveIInv

(* A case label: its own is placed, and the switch remembers it. *)
LEMMA CaseIInv ==
  ASSUME IInv, NEW v \in CaseValues, Case(v)
  PROVE  /\ IInv' /\ Loops' = Loops /\ Switches' = Switches /\ Depth \in Switches
         /\ \A k \in Loops : LoopAt(k)' = LoopAt(k)
         /\ \A k \in Switches : k # Depth => SwitchAt(k)' = SwitchAt(k)
         /\ \A k \in Switches : SwitchAt(k)'.break = SwitchAt(k).break
                                /\ SwitchAt(k)'.default = SwitchAt(k).default
         /\ \A k : k = Depth => SwitchAt(k)'.case_labels =
                                  Append(SwitchAt(k).case_labels, <<v, next_label>>)
<1>1. WellTyped /\ Mirrored /\ next_label \in Nat /\ next_label' \in Nat \ {0}
      /\ errors' = errors
  BY DEF IInv, WellTyped, Case
<1>2. atoms' \in 0..MaxAtoms /\ errors' \in 0..atoms'
  <2>1. PICK d : d = Further(v)
    OBVIOUS
  <2>2. d \in {0, 1}
    BY <2>1 DEF Further
  <2>3. atoms' = atoms + d /\ atoms + d <= MaxAtoms
    BY <2>1 DEF Case, Room
  <2> QED BY <1>1, <2>2, <2>3, ControlAssumption DEF WellTyped
<1>3. Depth \in Switches
  BY <1>1, Basics DEF Case
<1>4. PICK c, q : c = <<Label(next_label)>> /\ q = <<[kind |-> "case", value |-> v]>>
  OBVIOUS
<1>5. c \in Seq(Tacs) /\ Listed(q)
  <2>1. Piece(c, {next_label}, {})
    BY <1>1, <1>4, TRUE \in BOOLEAN, Instructions
  <2> QED BY <1>4, <2>1, OneStatement DEF Piece
<1>6. open' = Emit(open, c, q)
  BY <1>4 DEF Case
<1>7. Loops' = Loops /\ Switches' = Switches /\ OpenTyped'
  BY <1>1, <1>5, <1>6, GoesOn
<1>8. /\ switch_stack' = [switch_stack EXCEPT ![Len(switch_stack)].case_labels =
                            Append(@, <<v, next_label>>)]
      /\ UNCHANGED <<loop_stack, context_type_stack>>
  BY DEF Case
<1>9. Mirrored' /\ StacksTyped'
  BY <1>1, <1>3, <1>7, <1>8, CaseAdds
<1>10. /\ \A k \in Loops : LoopAt(k)' = LoopAt(k)
       /\ \A k \in Switches : k # Depth => SwitchAt(k)' = SwitchAt(k)
  BY <1>1, <1>3, <1>7, <1>8, CaseAdds
<1>11. \A k \in Switches : SwitchAt(k)'.break = SwitchAt(k).break
                           /\ SwitchAt(k)'.default = SwitchAt(k).default
  BY <1>1, <1>3, <1>7, <1>8, CaseAdds
<1>12. \A k : k = Depth => SwitchAt(k)'.case_labels =
                             Append(SwitchAt(k).case_labels, <<v, next_label>>)
  BY <1>1, <1>3, <1>7, <1>8, CaseAdds
<1>13. WellTyped'
  BY <1>1, <1>2, <1>7, <1>9 DEF WellTyped
<1> QED BY <1>3, <1>7, <1>9, <1>10, <1>11, <1>12, <1>13 DEF IInv

(* default keeps it: the innermost switch's context stays in place. *)
LEMMA DefaultIInv ==
  ASSUME IInv, Default
  PROVE  IInv' /\ Depth \in Switches
<1>1. WellTyped /\ Depth \in Switches /\ UNCHANGED <<next_label, contexts, atoms, errors>>
  BY Basics DEF IInv, Default
<1>2. PICK l : l = Last(switch_stack).default
  OBVIOUS
<1>3. l \in Nat
  BY <1>1, <1>2, OwnContexts DEF SwitchContext
<1>4. PICK c, q : c = <<Label(l)>> /\ q = <<[kind |-> "default"]>>
  OBVIOUS
<1>5. c \in Seq(Tacs) /\ Listed(q)
  <2>1. Piece(c, {l}, {})
    BY <1>3, <1>4, 0 \in Nat, TRUE \in BOOLEAN, Instructions
  <2> QED BY <1>4, <2>1, OneStatement DEF Piece
<1>6. open' = Emit(open, c, q) /\ UNCHANGED contexts
  BY <1>1, <1>2, <1>4 DEF Default
<1>7. Mirrored' /\ StacksTyped' /\ OpenTyped'
  BY <1>5, <1>6, StaysMirrored
<1>8. WellTyped'
  BY <1>1, <1>7 DEF WellTyped
<1> QED BY <1>1, <1>7, <1>8 DEF IInv

(* A switch closed keeps it: its labels come off the switches'. *)
LEMMA CloseSwitchIInv ==
  ASSUME IInv, CloseSwitch
  PROVE  /\ IInv' /\ Switches' = Switches \ {Depth} /\ Loops' = Loops /\ Depth \in Switches
         /\ \A k \in Switches' : SwitchAt(k)' = SwitchAt(k)
         /\ \A k \in Loops : LoopAt(k)' = LoopAt(k)
<1>1. WellTyped /\ Mirrored
  BY DEF IInv
<1>2. PICK f : f = open[Depth]
  OBVIOUS
<1>3. Frame(f) /\ Current = f /\ Depth \in Switches /\ next_label \in Nat
      /\ Depth \notin Loops /\ Depth >= 2
  BY <1>2, Basics DEF CloseSwitch, IInv, WellTyped
<1>4. PICK a : a = Last(switch_stack)
  OBVIOUS
<1>5. a \in SwitchContext
  BY <1>3, <1>4, OwnContexts
<1>6. PICK c, q : c \in Seq(Tacs) /\ Listed(q) /\ open' = Emit(Enclosing, c, q)
  <2>1. end_switch(f, a) \in Seq(Tacs)
    BY <1>3, <1>5, EndsInCode
  <2> QED BY <1>3, <1>4, <2>1, OneStatement DEF CloseSwitch
<1>7. Switches' = Switches \ {Depth} /\ Loops' = Loops /\ OpenTyped'
  BY <1>1, <1>3, <1>6, Ends
<1>8. /\ switch_stack' = Front(switch_stack) /\ UNCHANGED <<next_label, loop_stack, atoms, errors>>
      /\ context_type_stack' = Front(context_type_stack)
  BY DEF CloseSwitch
<1>9. Mirrored'
  BY <1>1, <1>3, <1>7, <1>8, SwitchEnds
<1>10. StacksTyped'
  BY <1>1, <1>3, <1>7, <1>8, SwitchEnds DEF StacksTyped
<1>11. /\ \A k \in Switches' : SwitchAt(k)' = SwitchAt(k)
       /\ \A k \in Loops : LoopAt(k)' = LoopAt(k)
  BY <1>1, <1>3, <1>7, <1>8, SwitchEnds
<1>12. WellTyped'
  BY <1>1, <1>7, <1>8, <1>10 DEF WellTyped
<1> QED BY <1>3, <1>7, <1>9, <1>11, <1>12 DEF IInv

(* A function begins outside every loop and switch. *)
LEMMA InitIInv ==
  ASSUME Init
  PROVE  IInv /\ Depth = 1 /\ Loops = {} /\ Switches = {}
         /\ open[1] = Construct("function", 0, FALSE)
<1>1. PICK f : f = Construct("function", 0, FALSE)
  OBVIOUS
<1>2. open = <<f>>
  BY <1>1 DEF Init
<1>3. Listed(open) /\ Depth = 1 /\ DOMAIN open = {1} /\ open[1] = f
  BY <1>2, OneStatement DEF Depth
<1>4. Frame(f) /\ f.kind = "function"
  <2>1. "function" \in Kinds /\ 0 \in Nat /\ FALSE \in BOOLEAN
    BY DEF Kinds
  <2> QED BY <1>1, <2>1, NewFrame
<1>5. Loops = {} /\ Switches = {}
  BY <1>3, <1>4 DEF Loops, Switches
<1>6. OpenTyped
  BY <1>3, <1>4 DEF OpenTyped
<1>7. <<>> \in Seq(LoopContext) /\ <<>> \in Seq(SwitchContext) /\ <<>> \in Seq({"LOOP", "SWITCH"})
  OBVIOUS
<1>8. WellTyped
  BY <1>6, <1>7, ControlAssumption DEF WellTyped, StacksTyped, Init
<1>9. Cardinality({}) = 0 /\ Len(<<>>) = 0
  BY FS_EmptySet, EmptySeq
<1>10. Follows(<<>>, {})
  BY <1>9 DEF Follows, Ranked
<1>11. Mirrored
  BY <1>5, <1>10 DEF Mirrored, Breakable, Init
<1> QED BY <1>1, <1>3, <1>5, <1>8, <1>11 DEF IInv

(* The stacks follow the constructs through every step. *)
LEMMA NextIInv ==
  ASSUME IInv, [Next]_vars
  PROVE  IInv'
<1>1. ASSUME NEW op \in {"DO", "RETURN"}, Simple(op)
      PROVE  IInv'
  BY <1>1, SimpleIInv
<1>2. CASE Break
  BY <1>2, BreakIInv
<1>3. CASE Continue
  BY <1>3, ContinueIInv
<1>4. CASE OpenIf
  BY <1>4, OpenIfIInv
<1>5. CASE OpenWhile
  BY <1>5, OpenWhileIInv
<1>6. CASE OpenFor
  BY <1>6, OpenForIInv
<1>7. ASSUME NEW calc \in BOOLEAN, OpenSwitch(calc)
      PROVE  IInv'
  BY <1>7, OpenSwitchIInv
<1>8. CASE Else
  BY <1>8, ElseIInv
<1>9. CASE CloseIf
  BY <1>9, CloseIfIInv
<1>10. CASE CloseWhile
  BY <1>10, CloseWhileIInv
<1>11. CASE CloseFor
  BY <1>11, CloseForIInv
<1>12. ASSUME NEW v \in CaseValues, Case(v)
       PROVE  IInv'
  BY <1>12, CaseIInv
<1>13. CASE Default
  BY <1>13, DefaultIInv
<1>14. CASE CloseSwitch
  BY <1>14, CloseSwitchIInv
<1>15. CASE UNCHANGED vars
  BY <1>15 DEF vars, contexts, IInv, WellTyped, StacksTyped, OpenTyped, Mirrored, Breakable,
               Loops, Switches, Depth
<1> QED BY <1>1, <1>2, <1>3, <1>4, <1>5, <1>6, <1>7, <1>8, <1>9, <1>10, <1>11, <1>12, <1>13,
           <1>14, <1>15 DEF Next

-----------------------------------------------------------------------------
(* The context stacks are in step with the constructs at every moment of   *)
(* every compilation, whichever Cases happen: IInv.                        *)
THEOREM Invariance == Spec => []IInv
<1>1. Init => IInv
  BY InitIInv
<1>2. IInv /\ [Next]_vars => IInv'
  BY NextIInv
<1> QED BY <1>1, <1>2, PTL DEF Spec

(* What next_label, the stacks and the counters hold has its type.         *)
THEOREM TypeCorrectness == Spec => []TypeOK
<1>1. ASSUME IInv
      PROVE  TypeOK
  <2>1. next_label \in Nat \ {0} /\ atoms \in 0..MaxAtoms /\ errors \in 0..atoms /\ StacksTyped
    BY <1>1 DEF IInv, WellTyped
  <2>2. errors \in 0..MaxAtoms
    BY <2>1, ControlAssumption
  <2>3. ASSUME NEW i \in DOMAIN loop_stack
        PROVE  loop_stack[i] \in [start : Nat, continue : Nat, break : Nat]
    BY <2>1, <2>3, LenProperties, ElementOfSeq DEF StacksTyped, LoopContext
  <2>4. ASSUME NEW i \in DOMAIN switch_stack
        PROVE  /\ DOMAIN switch_stack[i] = {"break", "default", "case_labels"}
               /\ \A j \in DOMAIN switch_stack[i].case_labels :
                    switch_stack[i].case_labels[j] \in CaseValues \X Nat
    <3>1. PICK a : a = switch_stack[i]
      OBVIOUS
    <3>2. a \in SwitchContext
      BY <2>1, <2>4, <3>1, LenProperties, ElementOfSeq DEF StacksTyped
    <3>3. PICK t : t = a.case_labels
      OBVIOUS
    <3>4. t \in Seq(CaseValues \X Nat) /\ DOMAIN a = {"break", "default", "case_labels"}
      BY <3>2, <3>3 DEF SwitchContext
    <3>5. \A j \in DOMAIN t : t[j] \in CaseValues \X Nat
      BY <3>4, LenProperties, ElementOfSeq
    <3> QED BY <3>1, <3>3, <3>4, <3>5
  <2>5. ASSUME NEW i \in DOMAIN context_type_stack
        PROVE  context_type_stack[i] \in {"LOOP", "SWITCH"}
    BY <2>1, <2>5, LenProperties, ElementOfSeq DEF StacksTyped
  <2> QED BY <2>1, <2>2, <2>3, <2>4, <2>5 DEF TypeOK
<1> QED BY <1>1, Invariance, PTL

(* break and continue find the innermost construct wherever they are used: *)
(* the loop, switch and context type stacks are those of the loops and     *)
(* switches around the walk, in their order, and have no other entry.      *)
THEOREM ContextsFollow == Spec => []ContextsMirrorNesting
<1>1. IInv => ContextsMirrorNesting
  BY DEF IInv, Mirrored, Follows, Breakable, ContextsMirrorNesting
<1> QED BY <1>1, Invariance, PTL

-----------------------------------------------------------------------------
(* Labels, step by step.  Kept(k): the construct at depth k is of the same *)
(* kind, with its labels, and no less placed.                              *)
Kept(k) ==
  /\ open'[k].kind = open[k].kind
  /\ HasDefault(open'[k]) <=> HasDefault(open[k])
  /\ PlacedBy(open[k]) \subseteq PlacedBy(open'[k])
  /\ k \in Loops => k \in Loops' /\ LoopAt(k)' = LoopAt(k)
  /\ k \in Switches => k \in Switches' /\ SwitchAt(k)' = SwitchAt(k)

(* What such a construct owes. *)
LEMMA OwedKept ==
  ASSUME WellTyped, NEW k \in 1..Depth, Kept(k)
  PROVE  Owed(k)' = Owed(k)
<1>1. /\ k \in Loops <=> open[k].kind \in {"while", "for"}
      /\ k \in Switches <=> open[k].kind = "switch"
  BY Basics
<1>2. CASE open[k].kind = "while"
  BY <1>1, <1>2 DEF Owed, Kept
<1>3. CASE open[k].kind = "for"
  BY <1>1, <1>3 DEF Owed, Kept
<1>4. CASE open[k].kind = "switch"
  BY <1>1, <1>4 DEF Owed, Kept
<1>5. CASE open[k].kind \notin {"while", "for", "switch"}
  BY <1>5 DEF Owed, Kept
<1> QED BY <1>2, <1>3, <1>4, <1>5

(* What its labels are to one another. *)
LEMMA OwnKept ==
  ASSUME NEW k, Kept(k)
  PROVE  /\ k \in Loops /\ LoopOwn(k) => LoopOwn(k)'
         /\ k \in Switches /\ SwitchOwn(k) => SwitchOwn(k)'
<1>1. k \in Loops /\ LoopOwn(k) => LoopOwn(k)'
  BY DEF Kept, LoopOwn
<1>2. k \in Switches /\ SwitchOwn(k) => SwitchOwn(k)'
  BY DEF Kept, SwitchOwn
<1> QED BY <1>1, <1>2

(* A depth whose construct is the very same. *)
LEMMA SameKept ==
  ASSUME NEW k, open'[k] = open[k],
         k \in Loops => k \in Loops' /\ LoopAt(k)' = LoopAt(k),
         k \in Switches => k \in Switches' /\ SwitchAt(k)' = SwitchAt(k)
  PROVE  Kept(k)
  BY DEF Kept

(* The innermost construct goes on: it places labels o it owed and new     *)
(* ones F, and jumps to labels it has placed or that are owed around it.   *)
GoingOn(n, c, p, j, q, F, o) ==
  /\ n = Depth /\ Depth' = n
  /\ Piece(c, p, j) /\ Grows(open[n], open'[n], c, q)
  /\ \A k \in 1..(n - 1) : Kept(k) /\ open'[k] = open[k]
  /\ next_label' \in Nat /\ next_label <= next_label'
  /\ F \in SUBSET (next_label..(next_label' - 1)) /\ o \in SUBSET Owed(n) /\ p = o \cup F
  /\ Owed(n)' = Owed(n) \ o
  /\ \A l \in j : l \in PlacedBy(open[n]) \cup p \/ \E k \in 1..n : l \in Owed(k)

(* Every label is accounted for afterwards. *)
LEMMA LabelsGoOn ==
  ASSUME WellTyped, LabelsAccounted, NEW n, NEW c, NEW p, NEW j, NEW q, NEW F, NEW o,
         GoingOn(n, c, p, j, q, F, o)
  PROVE  LabelsAccounted'
<1> USE DEF GoingOn
<1>1. PICK P, J, O, w, v : /\ P = PlacedAll /\ J = JumpedAll /\ O = OwedAll
                           /\ w = next_label /\ v = next_label'
  OBVIOUS
<1>2. PICK Q, K, R : Q = PlacedAll' /\ K = JumpedAll' /\ R = OwedAll'
  OBVIOUS
<1>3. /\ n \in Nat \ {0} /\ n \in 1..n /\ w \in Nat /\ v \in Nat /\ 1 <= w /\ w <= v
      /\ \A k \in 1..n : k = n \/ k \in 1..(n - 1)
      /\ \A k \in 1..(n - 1) : k \in 1..n
      /\ Frame(open[n])
  BY <1>1, Basics DEF WellTyped
<1>4. Accounts(n, P, J, O, w) /\ \A k \in 1..n : Once(open[k])
  BY <1>1 DEF LabelsAccounted
<1>5. \A k \in 1..n : P[k] = PlacedBy(open[k]) /\ J[k] = JumpedBy(open[k]) /\ O[k] = Owed(k)
  BY <1>1 DEF PlacedAll, JumpedAll, OwedAll
<1>6. \A k \in 1..n : Q[k] = PlacedBy(open'[k]) /\ K[k] = JumpedBy(open'[k]) /\ R[k] = Owed(k)'
  BY <1>2 DEF PlacedAll, JumpedAll, OwedAll
<1>7. p \cap P[n] = {}
  <2>1. o \subseteq O[n] /\ P[n] \cap O[n] = {} /\ P[n] \subseteq 1..(w - 1)
    BY <1>3, <1>4, <1>5 DEF Accounts
  <2>2. ASSUME NEW l \in F
        PROVE  l \notin 1..(w - 1)
    <3>1. l \in w..(v - 1)
      BY <1>1
    <3> QED BY <1>3, <3>1
  <2>3. o \cap P[n] = {}
    BY <2>1
  <2>4. F \cap P[n] = {}
    BY <2>1, <2>2
  <2> QED BY <2>3, <2>4
<1>8. /\ PlacedBy(open'[n]) = P[n] \cup p /\ JumpedBy(open'[n]) = J[n] \cup j
      /\ Once(open'[n])
  <2>1. Once(open[n]) /\ p \cap PlacedBy(open[n]) = {}
    BY <1>3, <1>4, <1>5, <1>7
  <2>2. /\ PlacedBy(open'[n]) = PlacedBy(open[n]) \cup p
        /\ JumpedBy(open'[n]) = JumpedBy(open[n]) \cup j /\ Once(open'[n])
    BY <1>3, <2>1, GrownPiece
  <2> QED BY <1>3, <1>5, <2>2
<1>9. \A k \in 1..(n - 1) : Q[k] = P[k] /\ K[k] = J[k] /\ R[k] = O[k]
  BY <1>3, <1>5, <1>6, OwedKept
<1>10. Q[n] = P[n] \cup o \cup F /\ K[n] = J[n] \cup j /\ R[n] = O[n] \ o
  BY <1>3, <1>5, <1>6, <1>8
<1>11. \A l \in j : l \in Q[n] \/ \E k \in 1..n : l \in R[k]
  <2> SUFFICES ASSUME NEW l \in j
               PROVE  l \in Q[n] \/ \E k \in 1..n : l \in R[k]
    OBVIOUS
  <2>1. CASE l \in PlacedBy(open[n]) \cup p
    BY <1>3, <1>5, <1>10, <2>1
  <2>2. ASSUME NEW k \in 1..n, l \in Owed(k)
        PROVE  l \in Q[n] \/ l \in R[k]
    <3>1. l \in O[k]
      BY <1>5, <2>2
    <3> QED BY <1>3, <1>9, <1>10, <3>1
  <2> QED BY <2>1, <2>2
<1>12. F \in SUBSET (w..(v - 1)) /\ o \in SUBSET O[n]
  BY <1>1, <1>3, <1>5
<1>13. Accounts(n, Q, K, R, v)
  <2>1. Continued(n, P, J, O, w, v, F, o, j, Q, K, R)
    BY <1>3, <1>9, <1>10, <1>11, <1>12 DEF Continued
  <2> QED BY <1>3, <1>4, <2>1, AccountsGrow
<1>14. \A k \in 1..n : Once(open'[k])
  BY <1>3, <1>4, <1>8
<1> QED BY <1>1, <1>2, <1>13, <1>14 DEF LabelsAccounted

(* A construct begins: the labels it takes are new, and owed. *)
Beginning(n, m, kind, id, calc, F) ==
  /\ n = Depth /\ m = n + 1 /\ Depth' = m
  /\ kind \in Kinds /\ id \in Nat /\ calc \in BOOLEAN
  /\ open'[m] = Construct(kind, id, calc)
  /\ \A k \in 1..n : Kept(k) /\ open'[k] = open[k]
  /\ next_label' \in Nat /\ next_label <= next_label'
  /\ F \in SUBSET (next_label..(next_label' - 1)) /\ Owed(m)' = F

(* Every label is accounted for afterwards. *)
LEMMA LabelsBegin ==
  ASSUME WellTyped, LabelsAccounted, NEW n, NEW m, NEW kind, NEW id, NEW calc, NEW F,
         Beginning(n, m, kind, id, calc, F)
  PROVE  LabelsAccounted'
<1> USE DEF Beginning
<1>1. PICK P, J, O, w, v : /\ P = PlacedAll /\ J = JumpedAll /\ O = OwedAll
                           /\ w = next_label /\ v = next_label'
  OBVIOUS
<1>2. PICK Q, K, R : Q = PlacedAll' /\ K = JumpedAll' /\ R = OwedAll'
  OBVIOUS
<1>3. /\ n \in Nat /\ m \in 1..m /\ w \in Nat /\ v \in Nat /\ 1 <= w /\ w <= v
      /\ \A k \in 1..m : k = m \/ k \in 1..n
      /\ \A k \in 1..n : k \in 1..m
  BY <1>1, Basics DEF WellTyped
<1>4. Accounts(n, P, J, O, w) /\ \A k \in 1..n : Once(open[k])
  BY <1>1 DEF LabelsAccounted
<1>5. \A k \in 1..n : P[k] = PlacedBy(open[k]) /\ J[k] = JumpedBy(open[k]) /\ O[k] = Owed(k)
  BY <1>1 DEF PlacedAll, JumpedAll, OwedAll
<1>6. \A k \in 1..m : Q[k] = PlacedBy(open'[k]) /\ K[k] = JumpedBy(open'[k]) /\ R[k] = Owed(k)'
  BY <1>2 DEF PlacedAll, JumpedAll, OwedAll
<1>7. PlacedBy(open'[m]) = {} /\ JumpedBy(open'[m]) = {} /\ Once(open'[m])
  BY NewFrame
<1>8. \A k \in 1..n : Q[k] = P[k] /\ K[k] = J[k] /\ R[k] = O[k]
  BY <1>3, <1>5, <1>6, OwedKept
<1>9. Q[m] = {} /\ K[m] = {} /\ R[m] = F /\ F \in SUBSET (w..(v - 1))
  BY <1>1, <1>3, <1>6, <1>7
<1>10. Accounts(n + 1, Q, K, R, v)
  <2>1. Started(n, P, J, O, w, v, F, Q, K, R)
    BY <1>3, <1>8, <1>9 DEF Started
  <2> QED BY <1>3, <1>4, <2>1, AccountsBegin
<1>11. \A k \in 1..m : Once(open'[k])
  BY <1>3, <1>4, <1>7
<1> QED BY <1>1, <1>2, <1>10, <1>11 DEF LabelsAccounted

(* The innermost construct ends: every label it owed is placed. *)
Ending(n, m, c, p, j, q, F) ==
  /\ n = Depth /\ n >= 2 /\ m = n - 1 /\ Depth' = m
  /\ Piece(c, p, j) /\ Grows(open[m], open'[m], c, q)
  /\ \A k \in 1..m : Kept(k)
  /\ \A k \in 1..(n - 2) : open'[k] = open[k]
  /\ next_label' \in Nat /\ next_label <= next_label'
  /\ F \in SUBSET (next_label..(next_label' - 1))
  /\ p = PlacedBy(open[n]) \cup Owed(n) \cup F
  /\ \A l \in j : l \in JumpedBy(open[n]) \/ l \in p

(* Every label is accounted for afterwards. *)
LEMMA LabelsEnd ==
  ASSUME WellTyped, LabelsAccounted, NEW n, NEW m, NEW c, NEW p, NEW j, NEW q, NEW F,
         Ending(n, m, c, p, j, q, F)
  PROVE  LabelsAccounted'
<1> USE DEF Ending
<1>1. PICK P, J, O, w, v : /\ P = PlacedAll /\ J = JumpedAll /\ O = OwedAll
                           /\ w = next_label /\ v = next_label'
  OBVIOUS
<1>2. PICK Q, K, R : Q = [k \in 1..m |-> IF k = m THEN PlacedBy(open[m]) \cup p
                                          ELSE PlacedBy(open'[k])]
                     /\ K = [k \in 1..m |-> IF k = m THEN JumpedBy(open[m]) \cup j
                                             ELSE JumpedBy(open'[k])]
                     /\ R = OwedAll'
  OBVIOUS
<1>3. /\ n \in Nat /\ n \in 1..n /\ w \in Nat /\ v \in Nat /\ 1 <= w /\ w <= v
      /\ m \in Nat \ {0} /\ m \in 1..m /\ n - 1 = m
      /\ \A k \in 1..m : k = m \/ k \in 1..(n - 2)
      /\ \A k \in 1..(n - 2) : k \in 1..m /\ k # m
      /\ \A k \in 1..m : k \in 1..n
      /\ \A k \in 1..n : Frame(open[k])
  BY <1>1, Basics DEF WellTyped, OpenTyped
<1>4. Accounts(n, P, J, O, w) /\ \A k \in 1..n : Once(open[k])
  BY <1>1 DEF LabelsAccounted
<1>5. \A k \in 1..n : P[k] = PlacedBy(open[k]) /\ J[k] = JumpedBy(open[k]) /\ O[k] = Owed(k)
  BY <1>1 DEF PlacedAll, JumpedAll, OwedAll
<1>6. \A k \in 1..m : R[k] = Owed(k)'
  BY <1>2 DEF OwedAll
<1>7. \A k \in 1..(n - 2) : Q[k] = P[k] /\ K[k] = J[k]
  BY <1>2, <1>3, <1>5
<1>8. \A k \in 1..(n - 1) : R[k] = O[k]
  BY <1>3, <1>5, <1>6, OwedKept
<1>9. Q[n - 1] = P[n - 1] \cup p /\ K[n - 1] = J[n - 1] \cup j
  BY <1>2, <1>3, <1>5
<1>10. p = P[n] \cup O[n] \cup F /\ (\A l \in j : l \in J[n] \/ l \in p)
       /\ F \in SUBSET (w..(v - 1))
  BY <1>1, <1>3, <1>5
<1>11. p \cap P[n - 1] = {} /\ Accounts(n - 1, Q, K, R, v)
  <2>1. Ended(n, P, J, O, w, v, F, p, j, Q, K, R)
    BY <1>3, <1>7, <1>8, <1>9, <1>10 DEF Ended
  <2> QED BY <1>3, <1>4, <2>1, AccountsEnd
<1>12. /\ PlacedBy(open'[m]) = PlacedBy(open[m]) \cup p
       /\ JumpedBy(open'[m]) = JumpedBy(open[m]) \cup j /\ Once(open'[m])
  <2>1. Frame(open[m]) /\ Once(open[m]) /\ p \cap PlacedBy(open[m]) = {}
    BY <1>3, <1>4, <1>5, <1>11
  <2> QED BY <2>1, GrownPiece
<1>13. Q = PlacedAll' /\ K = JumpedAll'
  <2>1. Q = [k \in 1..m |-> PlacedBy(open'[k])] /\ K = [k \in 1..m |-> JumpedBy(open'[k])]
    BY <1>2, <1>12
  <2> QED BY <2>1 DEF PlacedAll, JumpedAll
<1>14. \A k \in 1..m : Once(open'[k])
  BY <1>3, <1>4, <1>12
<1> QED BY <1>1, <1>2, <1>3, <1>11, <1>13, <1>14 DEF LabelsAccounted

(* Each construct's own labels, when none is new. *)
LEMMA OwnLabelsKept ==
  ASSUME OwnLabels, Loops' \subseteq Loops, Switches' \subseteq Switches,
         \A k \in Loops' : Kept(k), \A k \in Switches' : Kept(k)
  PROVE  OwnLabels'
<1>1. ASSUME NEW k \in Loops'
      PROVE  LoopOwn(k)'
  BY OwnKept DEF OwnLabels
<1>2. ASSUME NEW k \in Switches'
      PROVE  SwitchOwn(k)'
  BY OwnKept DEF OwnLabels
<1> QED BY <1>1, <1>2 DEF OwnLabels

(* Code that grows places no less. *)
LEMMA GrownPlaces ==
  ASSUME NEW f, Frame(f), NEW c \in Seq(Tacs), NEW g, NEW q, Grows(f, g, c, q)
  PROVE  PlacedBy(f) \subseteq PlacedBy(g)
<1>1. PICK s, u : s = f.code /\ u = s \o c
  OBVIOUS
<1>2. s \in Seq(Tacs) /\ g.code = u /\ g.thenCode = f.thenCode
  BY <1>1 DEF Frame, Grows
<1>3. PICK m, n : m = Len(s) /\ n = Len(c)
  OBVIOUS
<1>4. Listed(s) /\ Listed(c) /\ DOMAIN s = 1..m
  BY <1>2, <1>3, SeqIsListed, ListedMeans
<1>5. Listed(u) /\ Len(u) = m + n /\ m \in Nat /\ n \in Nat /\ \A i \in 1..m : u[i] = s[i]
  <2>0. Listed(s) /\ m = Len(s) /\ Listed(c) /\ n = Len(c) /\ u = s \o c
    BY <1>1, <1>3, <1>4
  <2>1. Concatenated(s, m, c, n, u)
    BY <2>0, ListedConcat
  <2> QED BY <2>1 DEF Concatenated
<1>6. DOMAIN u = 1..(m + n) /\ \A i \in 1..m : i \in 1..(m + n)
  BY <1>5, ListedMeans
<1>7. ASSUME NEW l \in Placed(s)
      PROVE  l \in Placed(u)
  <2>1. PICK i \in 1..m : s[i].op = "LABEL" /\ s[i].to = l
    BY <1>4, PlacedMeans
  <2>2. i \in DOMAIN u /\ u[i].op = "LABEL" /\ u[i].to = l
    BY <1>5, <1>6, <2>1
  <2> QED BY <2>2, PlacedMeans
<1> QED BY <1>1, <1>2, <1>7 DEF PlacedBy

(* A construct that grew by statements that are no default label. *)
LEMMA GrownKept ==
  ASSUME NEW k, Frame(open[k]), NEW c \in Seq(Tacs), NEW q, Listed(q),
         Grows(open[k], open'[k], c, q), ~\E i \in DOMAIN q : q[i] = [kind |-> "default"],
         k \in Loops => k \in Loops' /\ LoopAt(k)' = LoopAt(k),
         k \in Switches => k \in Switches' /\ SwitchAt(k)' = SwitchAt(k)
  PROVE  Kept(k)
<1>1. PICK f, g : f = open[k] /\ g = open'[k]
  OBVIOUS
<1>2. Frame(f) /\ Grows(f, g, c, q)
  BY <1>1
<1>3. HasDefault(g) <=> HasDefault(f)
  BY <1>2, GrownDefault
<1>4. PlacedBy(f) \subseteq PlacedBy(g)
  BY <1>2, GrownPlaces
<1>5. g.kind = f.kind
  BY <1>2 DEF Grows
<1> QED BY <1>1, <1>3, <1>4, <1>5 DEF Kept

(* The account of the innermost construct. *)
LEMMA OwnAccount ==
  ASSUME WellTyped, LabelsAccounted, NEW n, n = Depth
  PROVE  /\ n \in Nat \ {0} /\ n \in 1..n /\ Frame(open[n]) /\ Once(open[n])
         /\ PlacedBy(open[n]) \cap Owed(n) = {}
         /\ next_label \notin PlacedBy(open[n]) /\ next_label + 1 \notin PlacedBy(open[n])
<1>1. n \in Nat \ {0} /\ n \in 1..n /\ Frame(open[n]) /\ next_label \in Nat
  BY Basics DEF WellTyped
<1>2. Once(open[n]) /\ Accounts(n, PlacedAll, JumpedAll, OwedAll, next_label)
  BY <1>1 DEF LabelsAccounted
<1>3. PlacedAll[n] = PlacedBy(open[n]) /\ OwedAll[n] = Owed(n)
  BY <1>1 DEF PlacedAll, OwedAll
<1>4. PlacedBy(open[n]) \subseteq 1..(next_label - 1) /\ PlacedBy(open[n]) \cap Owed(n) = {}
  BY <1>1, <1>2, <1>3 DEF Accounts
<1>5. next_label \notin 1..(next_label - 1) /\ next_label + 1 \notin 1..(next_label - 1)
  BY <1>1
<1> QED BY <1>1, <1>2, <1>4, <1>5

(* Only the else branch has code put aside. *)
LEMMA NoThen ==
  ASSUME NEW f, Frame(f), f.kind # "else"
  PROVE  PlacedBy(f) = Placed(f.code) /\ JumpedBy(f) = Jumped(f.code)
<1>1. f.thenCode = <<>>
  BY DEF Frame
<1>2. Placed(<<>>) = {} /\ Jumped(<<>>) = {}
  BY NoPiece DEF Piece
<1> QED BY <1>1, <1>2 DEF PlacedBy, JumpedBy

(* A statement that places nothing and jumps to labels owed around it. *)
LEMMA GoOnLInv ==
  ASSUME IInv, LInv, NEW c, NEW j, Piece(c, {}, j), NEW q, Listed(q),
         ~\E i \in DOMAIN q : q[i] = [kind |-> "default"],
         open' = Emit(open, c, q), UNCHANGED <<next_label, contexts>>,
         \A l \in j : \E k \in 1..Depth : l \in Owed(k)
  PROVE  LInv'
<1>1. PICK n : n = Depth
  OBVIOUS
<1>2. WellTyped /\ Mirrored /\ LabelsAccounted /\ OwnLabels /\ c \in Seq(Tacs)
      /\ next_label \in Nat /\ next_label' = next_label
  BY DEF IInv, LInv, WellTyped, Piece
<1>3. n \in Nat \ {0} /\ Frame(open[n]) /\ \A k \in 1..n : k = n \/ k \in 1..(n - 1)
  BY <1>1, <1>2, Basics
<1>4. /\ Depth' = n /\ \A k \in 1..(n - 1) : open'[k] = open[k]
      /\ Grows(open[n], open'[n], c, q)
      /\ Loops' = Loops /\ Switches' = Switches
  BY <1>1, <1>2, GoesOn
<1>5. \A k : LoopAt(k)' = LoopAt(k) /\ SwitchAt(k)' = SwitchAt(k)
  BY <1>2, <1>4, ContextsKept
<1>6. \A k \in 1..(n - 1) : Kept(k)
  BY <1>4, <1>5, SameKept
<1>7. Kept(n)
  BY <1>2, <1>3, <1>4, <1>5, GrownKept
<1>8. Owed(n)' = Owed(n)
  BY <1>1, <1>2, <1>3, <1>7, OwedKept
<1>9. LabelsAccounted'
  <2>1. PICK F, o, p : F = {} /\ o = {} /\ p = {}
    OBVIOUS
  <2>2. GoingOn(n, c, p, j, q, F, o)
    BY <1>1, <1>2, <1>4, <1>6, <1>8, <2>1 DEF GoingOn
  <2> QED BY <1>2, <2>2, LabelsGoOn
<1>10. OwnLabels'
  <2>1. \A k \in Loops \cup Switches : Kept(k)
    BY <1>1, <1>2, <1>3, <1>6, <1>7, Basics
  <2> QED BY <1>2, <1>4, <2>1, OwnLabelsKept
<1> QED BY <1>9, <1>10 DEF LInv

(* Statements without a body. *)
LEMMA SimpleLInv ==
  ASSUME IInv, LInv, NEW op \in {"DO", "RETURN"}, Simple(op)
  PROVE  LInv'
<1>1. PICK c, r, q : c = <<Tac(op, 0, atoms', 0)>> /\ r = [kind |-> op, id |-> atoms']
                     /\ q = <<r>>
  OBVIOUS
<1>2. atoms' \in Nat
  BY DEF IInv, WellTyped, Simple
<1>3. Piece(c, {}, {})
  BY <1>1, <1>2, 0 \in Nat, TRUE \in BOOLEAN, Instructions
<1>4. r # [kind |-> "default"]
  <2>1. "id" \in DOMAIN r /\ "id" \notin DOMAIN [kind |-> "default"]
    BY <1>1
  <2> QED BY <2>1
<1>5. Listed(q) /\ ~\E i \in DOMAIN q : q[i] = [kind |-> "default"]
  BY <1>1, <1>4, OneStatement
<1>6. open' = Emit(open, c, q) /\ UNCHANGED <<next_label, contexts>>
  BY <1>1 DEF Simple
<1> QED BY <1>3, <1>5, <1>6, GoOnLInv

(* What Jump and Complain have in common. *)
LEMMA JumpLInv ==
  ASSUME IInv, LInv, UNCHANGED <<next_label, contexts>>,
         \/ \E kind \in {"break", "continue"}, l \in Nat :
              Jump(kind, l) /\ \E k \in 1..Depth : l \in Owed(k)
         \/ \E kids : /\ Listed(kids) /\ Complain(kids)
                      /\ ~\E i \in DOMAIN kids : kids[i] = [kind |-> "default"]
  PROVE  LInv'
<1>1. ASSUME NEW kind \in {"break", "continue"}, NEW l \in Nat, Jump(kind, l),
             \E k \in 1..Depth : l \in Owed(k)
      PROVE  LInv'
  <2>1. PICK c, r, q : c = <<Goto(l)>> /\ r = [kind |-> kind] /\ q = <<r>>
    OBVIOUS
  <2>2. Piece(c, {}, {l})
    BY <2>1, 0 \in Nat, TRUE \in BOOLEAN, Instructions
  <2>3. r # [kind |-> "default"]
    BY <2>1
  <2>4. Listed(q) /\ ~\E i \in DOMAIN q : q[i] = [kind |-> "default"]
    BY <2>1, <2>3, OneStatement
  <2>5. open' = Emit(open, c, q)
    BY <1>1, <2>1 DEF Jump
  <2> QED BY <1>1, <2>2, <2>4, <2>5, GoOnLInv
<1>2. ASSUME NEW kids, Listed(kids), Complain(kids),
             ~\E i \in DOMAIN kids : kids[i] = [kind |-> "default"]
      PROVE  LInv'
  <2>1. PICK c : c = <<>>
    OBVIOUS
  <2>2. Piece(c, {}, {}) /\ open' = Emit(open, c, kids)
    BY <1>2, <2>1, NoPiece DEF Complain
  <2> QED BY <1>2, <2>2, GoOnLInv
<1> QED BY <1>1, <1>2

(* Break and continue go to labels that a construct around them owes. *)
LEMMA TopOwed ==
  ASSUME IInv
  PROVE  /\ loop_stack # <<>> =>
              /\ Last(loop_stack).break \in Nat /\ Last(loop_stack).continue \in Nat
              /\ \E k \in 1..Depth : Last(loop_stack).break \in Owed(k)
              /\ \E k \in 1..Depth : Last(loop_stack).continue \in Owed(k)
         /\ switch_stack # <<>> =>
              /\ Last(switch_stack).break \in Nat
              /\ \E k \in 1..Depth : Last(switch_stack).break \in Owed(k)
<1>1. /\ Loops \in SUBSET (1..Depth) /\ Switches \in SUBSET (1..Depth)
      /\ \A k \in 1..Depth : k \in Loops <=> open[k].kind \in {"while", "for"}
      /\ \A k \in 1..Depth : k \in Switches <=> open[k].kind = "switch"
  BY Basics DEF IInv
<1>2. ASSUME NEW k \in Loops
      PROVE  k \in 1..Depth /\ LoopAt(k).break \in Owed(k) /\ LoopAt(k).continue \in Owed(k)
  <2>1. CASE open[k].kind = "while"
    BY <1>1, <2>1 DEF Owed
  <2>2. CASE open[k].kind = "for"
    BY <1>1, <2>2 DEF Owed
  <2> QED BY <1>1, <2>1, <2>2
<1>3. ASSUME NEW k \in Switches
      PROVE  k \in 1..Depth /\ SwitchAt(k).break \in Owed(k)
  BY <1>1 DEF Owed
<1>4. ASSUME loop_stack # <<>>
      PROVE  /\ Last(loop_stack).break \in Nat /\ Last(loop_stack).continue \in Nat
             /\ \E k \in 1..Depth : Last(loop_stack).break \in Owed(k)
             /\ \E k \in 1..Depth : Last(loop_stack).continue \in Owed(k)
  <2>1. Last(loop_stack) \in LoopContext /\ \E k \in Loops : LoopAt(k) = Last(loop_stack)
    BY <1>4, TopContexts DEF IInv
  <2> QED BY <1>2, <2>1 DEF LoopContext
<1>5. ASSUME switch_stack # <<>>
      PROVE  /\ Last(switch_stack).break \in Nat
             /\ \E k \in 1..Depth : Last(switch_stack).break \in Owed(k)
  <2>1. Last(switch_stack) \in SwitchContext
        /\ \E k \in Switches : SwitchAt(k) = Last(switch_stack)
    BY <1>5, TopContexts DEF IInv
  <2> QED BY <1>3, <2>1 DEF SwitchContext
<1> QED BY <1>4, <1>5

(* break jumps to a label still owed. *)
LEMMA BreakLInv ==
  ASSUME IInv, LInv, Break
  PROVE  LInv'
<1>1. UNCHANGED <<next_label, contexts>>
  BY DEF Break
<1>2. CASE in_loop /\ Jump("break", Last(loop_stack).break)
  BY <1>1, <1>2, TopOwed, JumpLInv DEF in_loop
<1>3. CASE in_switch /\ Jump("break", Last(switch_stack).break)
  BY <1>1, <1>3, TopOwed, JumpLInv DEF in_switch
<1>4. CASE Complain(<<>>)
  BY <1>1, <1>4, NoStatement, JumpLInv
<1> QED BY <1>2, <1>3, <1>4 DEF Break

(* continue jumps to a label still owed. *)
LEMMA ContinueLInv ==
  ASSUME IInv, LInv, Continue
  PROVE  LInv'
<1>1. UNCHANGED <<next_label, contexts>>
  BY DEF Continue
<1>2. CASE in_loop /\ Jump("continue", Last(loop_stack).continue)
  BY <1>1, <1>2, TopOwed, JumpLInv DEF in_loop
<1>3. CASE Complain(IF loop_stack # <<>> THEN <<[kind |-> "continue"]>> ELSE <<>>)
  <2>1. PICK kids : kids = IF loop_stack # <<>> THEN <<[kind |-> "continue"]>> ELSE <<>>
    OBVIOUS
  <2>2. [kind |-> "continue"] # [kind |-> "default"]
    OBVIOUS
  <2>3. Listed(kids) /\ ~\E i \in DOMAIN kids : kids[i] = [kind |-> "default"]
    BY <2>1, <2>2, OneStatement, NoStatement
  <2>4. Complain(kids)
    BY <1>3, <2>1
  <2> QED BY <1>1, <2>3, <2>4, JumpLInv
<1> QED BY <1>2, <1>3 DEF Continue

(* A construct begins, its new labels F different from one another. *)
LEMMA BeginsLInv ==
  ASSUME IInv, LInv, NEW kind \in Kinds, kind # "function", NEW id \in Nat,
         NEW calc \in BOOLEAN, open' = Append(open, Construct(kind, id, calc)),
         next_label' \in Nat, next_label <= next_label', NEW m, m = Depth + 1,
         NEW F \in SUBSET (next_label..(next_label' - 1)), Owed(m)' = F,
         \A k \in Loops : LoopAt(k)' = LoopAt(k),
         \A k \in Switches : SwitchAt(k)' = SwitchAt(k),
         kind \in {"while", "for"} => LoopOwn(m)', kind = "switch" => SwitchOwn(m)'
  PROVE  LInv'
<1>1. PICK n : n = Depth
  OBVIOUS
<1>2. WellTyped /\ LabelsAccounted /\ OwnLabels
  BY DEF IInv, LInv
<1>3. n \in Nat \ {0} /\ Loops \in SUBSET (1..n) /\ Switches \in SUBSET (1..n) /\ m = n + 1
  BY <1>1, <1>2, Basics
<1>4. /\ Depth' = n + 1 /\ \A k \in 1..n : open'[k] = open[k]
      /\ open'[m] = Construct(kind, id, calc)
      /\ Loops' = IF kind \in {"while", "for"} THEN Loops \cup {m} ELSE Loops
      /\ Switches' = IF kind = "switch" THEN Switches \cup {m} ELSE Switches
  BY <1>1, <1>2, <1>3, Begins
<1>5. ASSUME NEW k \in 1..n
      PROVE  Kept(k)
  <2>1. k \in Loops => k \in Loops' /\ LoopAt(k)' = LoopAt(k)
    BY <1>4
  <2>2. k \in Switches => k \in Switches' /\ SwitchAt(k)' = SwitchAt(k)
    BY <1>4
  <2> QED BY <1>4, <2>1, <2>2, SameKept
<1>6. LabelsAccounted'
  <2>1. Beginning(n, m, kind, id, calc, F)
    BY <1>1, <1>3, <1>4, <1>5 DEF Beginning
  <2> QED BY <1>2, <2>1, LabelsBegin
<1>7. ASSUME NEW k \in Loops'
      PROVE  LoopOwn(k)'
  <2>1. CASE k \in Loops
    BY <1>2, <1>3, <1>5, <2>1, OwnKept DEF OwnLabels
  <2>2. CASE k \notin Loops
    BY <1>4, <2>2
  <2> QED BY <2>1, <2>2
<1>8. ASSUME NEW k \in Switches'
      PROVE  SwitchOwn(k)'
  <2>1. CASE k \in Switches
    BY <1>2, <1>3, <1>5, <2>1, OwnKept DEF OwnLabels
  <2>2. CASE k \notin Switches
    BY <1>4, <2>2
  <2> QED BY <2>1, <2>2
<1> QED BY <1>6, <1>7, <1>8 DEF LInv, OwnLabels

(* An if opened owes no label. *)
LEMMA OpenIfLInv ==
  ASSUME IInv, LInv, OpenIf
  PROVE  LInv'
<1>1. PICK m, F : m = Depth + 1 /\ F = {}
  OBVIOUS
<1>2. WellTyped /\ Mirrored /\ next_label \in Nat /\ next_label' = next_label /\ atoms' \in Nat
  BY DEF IInv, WellTyped, OpenIf
<1>3. open' = Append(open, Construct("if", atoms', TRUE)) /\ UNCHANGED contexts
  BY DEF OpenIf
<1>4. "if" \in Kinds /\ "if" \notin {"function", "while", "for", "switch"}
  BY DEF Kinds
<1>5. open'[m].kind = "if" /\ Loops' = Loops /\ Switches' = Switches
  BY <1>1, <1>2, <1>3, <1>4, Begins
<1>6. Owed(m)' = F
  BY <1>1, <1>5 DEF Owed
<1>7. \A k : LoopAt(k)' = LoopAt(k) /\ SwitchAt(k)' = SwitchAt(k)
  BY <1>2, <1>3, <1>5, ContextsKept
<1>8. /\ next_label' \in Nat /\ next_label <= next_label' /\ TRUE \in BOOLEAN
      /\ F \in SUBSET (next_label..(next_label' - 1)) /\ "if" # "function"
  BY <1>1, <1>2
<1>9. ("if" \in {"while", "for"} => LoopOwn(m)') /\ ("if" = "switch" => SwitchOwn(m)')
  BY <1>4
<1> QED BY <1>1, <1>2, <1>3, <1>4, <1>6, <1>7, <1>8, <1>9, BeginsLInv

(* A while opened owes its two new labels. *)
LEMMA OpenWhileLInv ==
  ASSUME IInv, LInv, OpenWhile
  PROVE  LInv'
<1>1. PICK m, w, F : m = Depth + 1 /\ w = next_label /\ F = {w, w + 1}
  OBVIOUS
<1>2. WellTyped /\ w \in Nat /\ next_label' = w + 2 /\ atoms' \in Nat
  BY <1>1 DEF IInv, WellTyped, OpenWhile
<1>3. PICK e : e = [continue |-> w, break |-> w + 1, start |-> 0]
  OBVIOUS
<1>4. e \in LoopContext /\ enter_loop(e)
  BY <1>1, <1>2, <1>3 DEF OpenWhile, LoopContext
<1>5. open' = Append(open, Construct("while", atoms', TRUE)) /\ Room(1)
      /\ atoms' = atoms + 1 /\ UNCHANGED errors /\ next_label' \in Nat \ {0}
  BY <1>2 DEF OpenWhile
<1>6. /\ \A k \in Loops : LoopAt(k)' = LoopAt(k)
      /\ LoopAt(m)' = e
      /\ \A k \in Switches : SwitchAt(k)' = SwitchAt(k)
  BY <1>1, <1>4, <1>5, EnterIInv
<1>7. "while" \in Kinds /\ "while" \notin {"function", "switch", "for"}
  BY DEF Kinds
<1>8. open'[m].kind = "while"
  BY <1>1, <1>2, <1>5, <1>7, Begins
<1>9. Owed(m)' = F
  BY <1>1, <1>3, <1>6, <1>8 DEF Owed
<1>10. LoopOwn(m)'
  BY <1>2, <1>3, <1>6, <1>8 DEF LoopOwn
<1>11. w <= next_label' /\ F \in SUBSET (w..(next_label' - 1))
  BY <1>1, <1>2
<1> QED BY <1>1, <1>2, <1>5, <1>6, <1>7, <1>9, <1>10, <1>11, BeginsLInv

(* A for opened owes its three new labels. *)
LEMMA OpenForLInv ==
  ASSUME IInv, LInv, OpenFor
  PROVE  LInv'
<1>1. PICK m, w, F : m = Depth + 1 /\ w = next_label /\ F = {w, w + 1, w + 2}
  OBVIOUS
<1>2. WellTyped /\ w \in Nat /\ next_label' = w + 3 /\ atoms' \in Nat
  BY <1>1 DEF IInv, WellTyped, OpenFor
<1>3. PICK e : e = [start |-> w, continue |-> w + 1, break |-> w + 2]
  OBVIOUS
<1>4. e \in LoopContext /\ enter_loop(e)
  BY <1>1, <1>2, <1>3 DEF OpenFor, LoopContext
<1>5. open' = Append(open, Construct("for", atoms', TRUE)) /\ Room(1)
      /\ atoms' = atoms + 1 /\ UNCHANGED errors /\ next_label' \in Nat \ {0}
  BY <1>2 DEF OpenFor
<1>6. /\ \A k \in Loops : LoopAt(k)' = LoopAt(k)
      /\ LoopAt(m)' = e
      /\ \A k \in Switches : SwitchAt(k)' = SwitchAt(k)
  BY <1>1, <1>4, <1>5, EnterIInv
<1>7. "for" \in Kinds /\ "for" \notin {"function", "switch", "while"}
  BY DEF Kinds
<1>8. open'[m].kind = "for"
  BY <1>1, <1>2, <1>5, <1>7, Begins
<1>9. Owed(m)' = F
  BY <1>1, <1>3, <1>6, <1>8 DEF Owed
<1>10. LoopOwn(m)'
  BY <1>2, <1>3, <1>6, <1>8 DEF LoopOwn
<1>11. w <= next_label' /\ F \in SUBSET (w..(next_label' - 1))
  BY <1>1, <1>2
<1> QED BY <1>1, <1>2, <1>5, <1>6, <1>7, <1>9, <1>10, <1>11, BeginsLInv

(* A switch opened owes its two new labels. *)
LEMMA OpenSwitchLInv ==
  ASSUME IInv, LInv, NEW calc \in BOOLEAN, OpenSwitch(calc)
  PROVE  LInv'
<1>1. PICK m, w, F : m = Depth + 1 /\ w = next_label /\ F = {w, w + 1}
  OBVIOUS
<1>2. WellTyped /\ w \in Nat /\ next_label' = w + 2 /\ atoms' \in Nat
      /\ next_label' \in Nat
  BY <1>1 DEF IInv, WellTyped, OpenSwitch
<1>3. open' = Append(open, Construct("switch", atoms', calc))
  BY DEF OpenSwitch
<1>4. PICK e : e = [break |-> w, default |-> w + 1, case_labels |-> <<>>]
  OBVIOUS
<1>5. /\ \A k \in Switches : SwitchAt(k)' = SwitchAt(k)
      /\ SwitchAt(m)' = e
      /\ \A k \in Loops : LoopAt(k)' = LoopAt(k)
  BY <1>1, <1>4, OpenSwitchIInv
<1>6. "switch" \in Kinds /\ "switch" \notin {"function", "for", "while"}
  BY DEF Kinds
<1>7. open'[m] = Construct("switch", atoms', calc)
  BY <1>1, <1>2, <1>3, <1>6, Begins
<1>8. open'[m].kind = "switch" /\ ~HasDefault(open'[m])
  BY <1>2, <1>6, <1>7, NewFrame
<1>9. Owed(m)' = F
  BY <1>1, <1>4, <1>5, <1>8 DEF Owed
<1>10. SwitchOwn(m)'
  <2>1. DOMAIN e.case_labels = {} /\ e.break # e.default
    BY <1>2, <1>4
  <2> QED BY <1>5, <1>8, <2>1 DEF SwitchOwn
<1>11. w <= next_label' /\ F \in SUBSET (w..(next_label' - 1))
  BY <1>1, <1>2
<1> QED BY <1>1, <1>2, <1>3, <1>5, <1>6, <1>9, <1>10, <1>11, BeginsLInv

(* The then branch put aside, the if has the labels it had. *)
LEMMA ElseLInv ==
  ASSUME IInv, LInv, Else
  PROVE  LInv'
<1>1. PICK n : n = Depth
  OBVIOUS
<1>2. WellTyped /\ Mirrored /\ LabelsAccounted /\ OwnLabels
  BY DEF IInv, LInv
<1>3. UNCHANGED <<next_label, contexts>>
  BY DEF Else
<1>4. /\ Depth' = n /\ Loops' = Loops /\ Switches' = Switches
      /\ \A k \in 1..(n - 1) : open'[k] = open[k]
      /\ open[n].kind = "if" /\ open'[n].kind = "else"
      /\ open'[n].code = <<>> /\ open'[n].thenCode = open[n].code /\ open[n].thenCode = <<>>
  BY <1>1, <1>2, ElseMeans
<1>5. n \in Nat \ {0} /\ \A k \in 1..n : k = n \/ k \in 1..(n - 1)
  BY <1>1, <1>2, Basics
<1>6. \A k : LoopAt(k)' = LoopAt(k) /\ SwitchAt(k)' = SwitchAt(k)
  BY <1>2, <1>3, <1>4, ContextsKept
<1>7. \A k \in 1..(n - 1) : Kept(k) /\ Owed(k)' = Owed(k)
  BY <1>1, <1>2, <1>4, <1>5, <1>6, SameKept, OwedKept
<1>8. /\ PlacedBy(open'[n]) = PlacedBy(open[n]) /\ JumpedBy(open'[n]) = JumpedBy(open[n])
      /\ Once(open[n]) => Once(open'[n])
  <2>1. Placed(<<>>) = {} /\ Jumped(<<>>) = {} /\ Single(<<>>)
    BY NoPiece DEF Piece
  <2> QED BY <1>4, <2>1 DEF PlacedBy, JumpedBy, Once
<1>9. Owed(n)' = Owed(n)
  BY <1>4 DEF Owed
<1>10. /\ \A k \in 1..n : PlacedBy(open'[k]) = PlacedBy(open[k])
       /\ \A k \in 1..n : JumpedBy(open'[k]) = JumpedBy(open[k])
       /\ \A k \in 1..n : Owed(k)' = Owed(k)
       /\ \A k \in 1..n : Once(open[k]) => Once(open'[k])
  BY <1>4, <1>5, <1>7, <1>8, <1>9
<1>11. PlacedAll' = PlacedAll /\ JumpedAll' = JumpedAll /\ OwedAll' = OwedAll
  BY <1>1, <1>4, <1>10 DEF PlacedAll, JumpedAll, OwedAll
<1>12. LabelsAccounted'
  <2>1. next_label' = next_label /\ Depth' = Depth
    BY <1>1, <1>3, <1>4
  <2> QED BY <1>1, <1>2, <1>10, <1>11, <2>1 DEF LabelsAccounted
<1>13. OwnLabels'
  <2>1. \A k \in Loops \cup Switches : k \in 1..(n - 1)
    BY <1>1, <1>2, <1>4, <1>5, Basics
  <2>2. \A k \in Loops \cup Switches : Kept(k)
    BY <1>7, <2>1
  <2> QED BY <1>2, <1>4, <2>2, OwnLabelsKept
<1> QED BY <1>12, <1>13 DEF LInv

(* A case label is new, and placed at once. *)
LEMMA CaseLInv ==
  ASSUME IInv, LInv, NEW v \in CaseValues, Case(v)
  PROVE  LInv'
<1>1. PICK n, w, F : n = Depth /\ w = next_label /\ F = {w}
  OBVIOUS
<1>2. WellTyped /\ LabelsAccounted /\ OwnLabels /\ w \in Nat \ {0} /\ next_label' = w + 1
  BY <1>1 DEF IInv, LInv, WellTyped, Case
<1>3. PICK c, r, q : c = <<Label(w)>> /\ r = [kind |-> "case", value |-> v] /\ q = <<r>>
  OBVIOUS
<1>4. Piece(c, F, {}) /\ c \in Seq(Tacs)
  BY <1>1, <1>2, <1>3, TRUE \in BOOLEAN, Instructions DEF Piece
<1>5. Listed(q) /\ ~\E i \in DOMAIN q : q[i] = [kind |-> "default"]
  <2>1. "value" \in DOMAIN r /\ "value" \notin DOMAIN [kind |-> "default"]
    BY <1>3
  <2> QED BY <1>3, <2>1, OneStatement
<1>6. open' = Emit(open, c, q)
  BY <1>1, <1>3 DEF Case
<1>7. /\ n \in Nat \ {0} /\ n \in 1..n /\ Frame(open[n]) /\ Once(open[n])
      /\ w \notin PlacedBy(open[n]) /\ \A k \in 1..n : k = n \/ k \in 1..(n - 1)
  BY <1>1, <1>2, OwnAccount
<1>8. /\ Depth' = n /\ \A k \in 1..(n - 1) : open'[k] = open[k]
      /\ Grows(open[n], open'[n], c, q)
  BY <1>1, <1>2, <1>4, <1>5, <1>6, GoesOn
<1>9. /\ Loops' = Loops /\ Switches' = Switches /\ n \in Switches
      /\ \A k \in Loops : LoopAt(k)' = LoopAt(k)
      /\ \A k \in Switches : k # n => SwitchAt(k)' = SwitchAt(k)
      /\ SwitchAt(n)'.break = SwitchAt(n).break /\ SwitchAt(n)'.default = SwitchAt(n).default
      /\ SwitchAt(n)'.case_labels = Append(SwitchAt(n).case_labels, <<v, w>>)
  BY <1>1, CaseIInv
<1>10. ASSUME NEW k \in 1..(n - 1)
       PROVE  Kept(k)
  <2>1. k # n /\ k \in 1..n
    BY <1>7
  <2> QED BY <1>8, <1>9, <2>1, SameKept
<1>11. HasDefault(open'[n]) <=> HasDefault(open[n])
  BY <1>5, <1>7, <1>8, GrownDefault
<1>12. open[n].kind = "switch" /\ open'[n].kind = "switch" /\ n \notin Loops
  BY <1>1, <1>2, <1>7, <1>8, <1>9, Basics DEF Grows
<1>13. Owed(n)' = Owed(n)
  BY <1>9, <1>11, <1>12 DEF Owed
<1>14. LabelsAccounted'
  <2>1. PICK o, j : o = {} /\ j = {}
    OBVIOUS
  <2>2. GoingOn(n, c, F, j, q, F, o)
    <3>1. F \in SUBSET (next_label..(next_label' - 1)) /\ next_label <= next_label'
          /\ next_label' \in Nat
      BY <1>1, <1>2
    <3> QED BY <1>1, <1>4, <1>8, <1>10, <1>13, <2>1, <3>1 DEF GoingOn
  <2> QED BY <1>2, <2>2, LabelsGoOn
<1>15. PlacedBy(open'[n]) = PlacedBy(open[n]) \cup F
  <2>1. F \cap PlacedBy(open[n]) = {}
    BY <1>1, <1>7
  <2> QED BY <1>4, <1>7, <1>8, <2>1, GrownPiece
<1>16. SwitchOwn(n)'
  <2>1. /\ SwitchAt(n).break # SwitchAt(n).default
        /\ HasDefault(open[n]) => SwitchAt(n).default \in PlacedBy(open[n])
        /\ \A i \in DOMAIN SwitchAt(n).case_labels :
             SwitchAt(n).case_labels[i][2] \in PlacedBy(open[n])
    BY <1>2, <1>9 DEF OwnLabels, SwitchOwn
  <2>2. PICK s, e, t, d : /\ s = SwitchAt(n).case_labels /\ e = <<v, w>> /\ t = Append(s, e)
                          /\ d = Len(s)
    OBVIOUS
  <2>3. Listed(s)
    <3>1. SwitchAt(n) \in SwitchContext
      BY <1>1, <1>9, OwnContexts
    <3>2. s \in Seq(CaseValues \X Nat)
      BY <2>2, <3>1 DEF SwitchContext
    <3> QED BY <3>2, SeqIsListed
  <2>4. Listed(t) /\ Len(t) = d + 1 /\ t[d + 1] = e /\ \A i \in 1..d : t[i] = s[i]
    <3>0. Listed(s) /\ d = Len(s) /\ t = Append(s, e)
      BY <2>2, <2>3
    <3>1. Appended(s, d, e, t)
      BY <3>0, ListedAppend
    <3> QED BY <3>1 DEF Appended
  <2>5. DOMAIN s = 1..d /\ DOMAIN t = 1..(d + 1) /\ d \in Nat
    BY <2>2, <2>3, <2>4, ListedMeans
  <2>6. \A i \in 1..(d + 1) : i = d + 1 \/ i \in 1..d
    BY <2>5
  <2>7. e[2] \in F
    BY <1>1, <2>2
  <2>8. ASSUME NEW i \in DOMAIN t
        PROVE  t[i][2] \in PlacedBy(open'[n])
    <3>1. CASE i = d + 1
      BY <1>15, <2>4, <2>7, <3>1
    <3>2. CASE i # d + 1
      <4>1. i \in DOMAIN s /\ t[i] = s[i]
        BY <2>4, <2>5, <2>6, <3>2
      <4>2. s[i][2] \in PlacedBy(open[n])
        BY <2>1, <2>2, <4>1
      <4> QED BY <1>15, <4>1, <4>2
    <3> QED BY <3>1, <3>2
  <2>9. SwitchAt(n)'.case_labels = t
    BY <1>9, <2>2
  <2> QED BY <1>9, <1>11, <1>15, <2>1, <2>8, <2>9 DEF SwitchOwn
<1>17. OwnLabels'
  <2>1. ASSUME NEW k \in Loops
        PROVE  LoopOwn(k)'
    <3>1. Kept(k)
      BY <1>1, <1>2, <1>7, <1>10, <1>12, Basics
    <3> QED BY <1>2, <3>1, OwnKept DEF OwnLabels
  <2>2. ASSUME NEW k \in Switches, k # n
        PROVE  SwitchOwn(k)'
    <3>1. Kept(k)
      BY <1>1, <1>2, <1>7, <1>10, <2>2, Basics
    <3> QED BY <1>2, <3>1, OwnKept DEF OwnLabels
  <2> QED BY <1>9, <1>16, <2>1, <2>2 DEF OwnLabels
<1> QED BY <1>14, <1>17 DEF LInv

(* The default label is the one its switch owed. *)
LEMMA DefaultLInv ==
  ASSUME IInv, LInv, Default
  PROVE  LInv'
<1>1. PICK n, w, o : n = Depth /\ w = SwitchAt(n).default /\ o = {w}
  OBVIOUS
<1>2. WellTyped /\ Mirrored /\ LabelsAccounted /\ OwnLabels /\ n \in Switches
      /\ UNCHANGED <<next_label, contexts>> /\ next_label \in Nat
  BY <1>1, DefaultIInv DEF IInv, LInv, WellTyped, Default
<1>3. SwitchAt(n) \in SwitchContext /\ Last(switch_stack) = SwitchAt(n) /\ w \in Nat
  BY <1>1, <1>2, OwnContexts DEF SwitchContext
<1>4. PICK c, r, q : c = <<Label(w)>> /\ r = [kind |-> "default"] /\ q = <<r>>
  OBVIOUS
<1>5. Piece(c, o, {}) /\ c \in Seq(Tacs)
  BY <1>1, <1>3, <1>4, 0 \in Nat, TRUE \in BOOLEAN, Instructions DEF Piece
<1>6. Listed(q) /\ \E i \in DOMAIN q : q[i] = [kind |-> "default"]
  BY <1>4, OneStatement
<1>7. open' = Emit(open, c, q)
  BY <1>1, <1>3, <1>4 DEF Default
<1>8. /\ n \in Nat \ {0} /\ n \in 1..n /\ Frame(open[n]) /\ Once(open[n])
      /\ PlacedBy(open[n]) \cap Owed(n) = {}
      /\ \A k \in 1..n : k = n \/ k \in 1..(n - 1)
  BY <1>1, <1>2, OwnAccount
<1>9. /\ Depth' = n /\ \A k \in 1..(n - 1) : open'[k] = open[k]
      /\ Grows(open[n], open'[n], c, q)
      /\ Loops' = Loops /\ Switches' = Switches
  BY <1>1, <1>2, <1>5, <1>6, <1>7, GoesOn
<1>10. \A k : LoopAt(k)' = LoopAt(k) /\ SwitchAt(k)' = SwitchAt(k)
  BY <1>2, <1>9, ContextsKept
<1>11. \A k \in 1..(n - 1) : Kept(k)
  BY <1>9, <1>10, SameKept
<1>12. open[n].kind = "switch" /\ open'[n].kind = "switch" /\ n \notin Loops
  BY <1>1, <1>2, <1>8, <1>9, Basics DEF Grows
<1>13. ~HasDefault(open[n])
  <2>1. ~Marked([kind |-> "default"]) /\ Current = open[n]
    BY <1>1, <1>2, Basics DEF Default
  <2> QED BY <2>1 DEF Marked, HasDefault
<1>14. HasDefault(open'[n])
  BY <1>6, <1>8, <1>9, GrownDefault
<1>15. /\ SwitchAt(n).break # w
       /\ \A i \in DOMAIN SwitchAt(n).case_labels :
            SwitchAt(n).case_labels[i][2] \in PlacedBy(open[n])
  BY <1>1, <1>2 DEF OwnLabels, SwitchOwn
<1>16. Owed(n) = {SwitchAt(n).break, w} /\ Owed(n)' = {SwitchAt(n).break}
  BY <1>1, <1>10, <1>12, <1>13, <1>14 DEF Owed
<1>17. LabelsAccounted'
  <2>1. PICK F, j : F = {} /\ j = {}
    OBVIOUS
  <2>2. GoingOn(n, c, o, j, q, F, o)
    <3>1. o \in SUBSET Owed(n) /\ Owed(n)' = Owed(n) \ o /\ o = o \cup F
      BY <1>1, <1>15, <1>16, <2>1
    <3>2. F \in SUBSET (next_label..(next_label' - 1)) /\ next_label' \in Nat
          /\ next_label <= next_label'
      BY <1>2, <2>1
    <3> QED BY <1>1, <1>5, <1>9, <1>11, <2>1, <3>1, <3>2 DEF GoingOn
  <2> QED BY <1>2, <2>2, LabelsGoOn
<1>18. PlacedBy(open'[n]) = PlacedBy(open[n]) \cup o
  <2>1. o \cap PlacedBy(open[n]) = {}
    BY <1>1, <1>8, <1>16
  <2> QED BY <1>5, <1>8, <1>9, <2>1, GrownPiece
<1>19. SwitchOwn(n)'
  BY <1>1, <1>10, <1>15, <1>18 DEF SwitchOwn
<1>20. OwnLabels'
  <2>1. ASSUME NEW k \in Loops
        PROVE  LoopOwn(k)'
    <3>1. Kept(k)
      BY <1>1, <1>2, <1>8, <1>11, <1>12, Basics
    <3> QED BY <1>2, <3>1, OwnKept DEF OwnLabels
  <2>2. ASSUME NEW k \in Switches, k # n
        PROVE  SwitchOwn(k)'
    <3>1. Kept(k)
      BY <1>1, <1>2, <1>8, <1>11, <2>2, Basics
    <3> QED BY <1>2, <3>1, OwnKept DEF OwnLabels
  <2> QED BY <1>9, <1>19, <2>1, <2>2 DEF OwnLabels
<1> QED BY <1>17, <1>20 DEF LInv

(* The construct at depth n leaves code c and statements q to the one      *)
(* around it: c places what it placed and owed and the fresh labels of F.  *)
Leaves(n, c, p, j, q, F) ==
  /\ n = Depth /\ n >= 2 /\ Piece(c, p, j) /\ open' = Emit(Enclosing, c, q)
  /\ Listed(q) /\ ~\E i \in DOMAIN q : q[i] = [kind |-> "default"]
  /\ next_label' \in Nat /\ next_label <= next_label'
  /\ F \in SUBSET (next_label..(next_label' - 1))
  /\ p = PlacedBy(open[n]) \cup Owed(n) \cup F
  /\ \A l \in j : l \in JumpedBy(open[n]) \/ l \in p

(* The contexts of the loops and switches that go on are the same.         *)
ContextsStay ==
  /\ \A k \in Loops' : LoopAt(k)' = LoopAt(k)
  /\ \A k \in Switches' : SwitchAt(k)' = SwitchAt(k)

(* A construct ends, and its code places all it owed. *)
LEMMA EndsLInv ==
  ASSUME IInv, LInv, NEW n, NEW c, NEW p, NEW j, NEW q, NEW F,
         Leaves(n, c, p, j, q, F), ContextsStay
  PROVE  LInv'
<1>0. /\ n = Depth /\ n >= 2 /\ Piece(c, p, j) /\ open' = Emit(Enclosing, c, q)
      /\ Listed(q) /\ ~\E i \in DOMAIN q : q[i] = [kind |-> "default"]
      /\ next_label' \in Nat /\ next_label <= next_label'
      /\ F \in SUBSET (next_label..(next_label' - 1))
      /\ p = PlacedBy(open[n]) \cup Owed(n) \cup F
      /\ \A l \in j : l \in JumpedBy(open[n]) \/ l \in p
  BY DEF Leaves
<1>1. PICK m : m = n - 1
  OBVIOUS
<1>2. WellTyped /\ LabelsAccounted /\ OwnLabels /\ c \in Seq(Tacs)
  BY <1>0 DEF IInv, LInv, Piece
<1>3. /\ n \in Nat \ {0} /\ Loops \in SUBSET (1..n) /\ Switches \in SUBSET (1..n)
      /\ \A k \in 1..n : Frame(open[k])
  BY <1>0, <1>2, Basics DEF WellTyped, OpenTyped
<1>4. /\ m \in 1..n /\ \A k \in 1..m : k \in 1..n /\ k # n /\ (k = m \/ k \in 1..(n - 2))
      /\ \A k \in 1..(n - 2) : k \in 1..m
      /\ \A k \in 1..n : k # n => k \in 1..m
  BY <1>0, <1>1, <1>3
<1>5. /\ Depth' = m /\ \A k \in 1..(n - 2) : open'[k] = open[k]
      /\ Grows(open[m], open'[m], c, q)
      /\ Loops' = Loops \ {n} /\ Switches' = Switches \ {n}
  BY <1>0, <1>1, <1>2, Ends
<1>6. ASSUME NEW k \in 1..m
      PROVE  Kept(k)
  <2>1. /\ k \in Loops => k \in Loops' /\ LoopAt(k)' = LoopAt(k)
        /\ k \in Switches => k \in Switches' /\ SwitchAt(k)' = SwitchAt(k)
    BY <1>4, <1>5 DEF ContextsStay
  <2>2. CASE k = m
    BY <1>0, <1>2, <1>3, <1>4, <1>5, <2>1, <2>2, GrownKept
  <2>3. CASE k \in 1..(n - 2)
    BY <1>5, <2>1, <2>3, SameKept
  <2> QED BY <1>4, <2>2, <2>3
<1>7. LabelsAccounted'
  <2>1. Ending(n, m, c, p, j, q, F)
    BY <1>0, <1>1, <1>5, <1>6 DEF Ending
  <2> QED BY <1>2, <2>1, LabelsEnd
<1>8. OwnLabels'
  <2>1. \A k \in Loops' \cup Switches' : k \in 1..m
    BY <1>3, <1>4, <1>5
  <2> QED BY <1>2, <1>5, <1>6, <2>1, OwnLabelsKept
<1> QED BY <1>7, <1>8 DEF LInv

(* An if closed places and jumps to labels of its own alone. *)
LEMMA CloseIfLInv ==
  ASSUME IInv, LInv, CloseIf
  PROVE  LInv'
<1>1. PICK n, f, w : n = Depth /\ f = open[n] /\ w = next_label
  OBVIOUS
<1>2. WellTyped /\ Mirrored /\ LabelsAccounted /\ w \in Nat \ {0} /\ UNCHANGED contexts
  BY <1>1 DEF IInv, LInv, WellTyped, CloseIf
<1>3. /\ Frame(f) /\ Once(f) /\ w \notin PlacedBy(f) /\ w + 1 \notin PlacedBy(f)
  BY <1>1, <1>2, OwnAccount
<1>4. Current = f /\ n >= 2 /\ Loops' = Loops /\ Switches' = Switches
  BY <1>1, <1>2, Basics, CloseIfIInv
<1>5. \A k : LoopAt(k)' = LoopAt(k) /\ SwitchAt(k)' = SwitchAt(k)
  BY <1>2, <1>4, ContextsKept
<1>6. ASSUME NEW c, NEW F, NEW r, F \in SUBSET (w..(next_label' - 1)), "id" \in DOMAIN r,
             w <= next_label', next_label' \in Nat, f.kind \in {"if", "else"},
             Piece(c, PlacedBy(f) \cup F, JumpedBy(f) \cup F), open' = Emit(Enclosing, c, <<r>>)
      PROVE  LInv'
  <2>1. PICK q, p, j : q = <<r>> /\ p = PlacedBy(f) \cup F /\ j = JumpedBy(f) \cup F
    OBVIOUS
  <2>2. r # [kind |-> "default"]
    BY <1>6
  <2>3. Listed(q) /\ ~\E i \in DOMAIN q : q[i] = [kind |-> "default"]
    BY <2>1, <2>2, OneStatement
  <2>4. Owed(n) = {}
    BY <1>1, <1>6 DEF Owed
  <2>5. Piece(c, p, j) /\ open' = Emit(Enclosing, c, q)
    BY <1>6, <2>1
  <2>6. p = PlacedBy(open[n]) \cup Owed(n) \cup F /\ \A l \in j : l \in JumpedBy(open[n]) \/ l \in p
    BY <1>1, <2>1, <2>4
  <2>7. n >= 2 /\ n = Depth /\ next_label' \in Nat /\ next_label <= next_label'
        /\ F \in SUBSET (next_label..(next_label' - 1))
    BY <1>1, <1>4, <1>6
  <2>8. Leaves(n, c, p, j, q, F)
    BY <2>3, <2>5, <2>6, <2>7 DEF Leaves
  <2>9. ContextsStay
    BY <1>5 DEF ContextsStay
  <2> QED BY <2>8, <2>9, EndsLInv
<1>7. CASE f.kind = "if"
  <2>1. PICK F, r : /\ F = {w}
                    /\ r = [kind |-> "if", id |-> f.id, calc |-> f.calc,
                            body |-> f.kids, other |-> <<>>]
    OBVIOUS
  <2>2. PlacedBy(f) = Placed(f.code) /\ JumpedBy(f) = Jumped(f.code)
    BY <1>3, <1>7, NoThen
  <2>3. Single(f.code) /\ next_label \in Nat /\ next_label \notin Placed(f.code)
    BY <1>1, <1>2, <1>3, <2>2 DEF Once
  <2>4. Piece(do_if(f), PlacedBy(f) \cup F, JumpedBy(f) \cup F)
    BY <1>1, <1>3, <2>1, <2>2, <2>3, DoIf
  <2>5. open' = Emit(Enclosing, do_if(f), <<r>>) /\ next_label' = w + 1
    BY <1>1, <1>4, <1>7, <2>1 DEF CloseIf
  <2>6. F \in SUBSET (w..(next_label' - 1)) /\ "id" \in DOMAIN r /\ w <= next_label'
        /\ next_label' \in Nat
    BY <1>2, <2>1, <2>5
  <2> QED BY <1>6, <1>7, <2>4, <2>5, <2>6
<1>8. CASE f.kind = "else"
  <2>1. PICK F, r : /\ F = {w, w + 1}
                    /\ r = [kind |-> "if", id |-> f.id, calc |-> f.calc,
                            body |-> f.thenKids, other |-> f.kids]
    OBVIOUS
  <2>2. Piece(do_if_else(f), PlacedBy(f) \cup F, JumpedBy(f) \cup F)
    BY <1>1, <1>2, <1>3, <2>1, DoIfElse
  <2>3. open' = Emit(Enclosing, do_if_else(f), <<r>>) /\ next_label' = w + 2
    BY <1>1, <1>4, <1>8, <2>1 DEF CloseIf
  <2>4. F \in SUBSET (w..(next_label' - 1)) /\ "id" \in DOMAIN r /\ w <= next_label'
        /\ next_label' \in Nat
    BY <1>2, <2>1, <2>3
  <2> QED BY <1>6, <1>8, <2>2, <2>3, <2>4
<1> QED BY <1>4, <1>7, <1>8 DEF CloseIf

(* What a loop that ends places: the labels it took when it began. *)
LEMMA CloseLoopLInv ==
  ASSUME IInv, LInv, NEW n, n = Depth, n \in Loops, NEW c, NEW p, NEW j, Piece(c, p, j),
         NEW r, "id" \in DOMAIN r, open' = Emit(Enclosing, c, <<r>>), UNCHANGED next_label,
         p = PlacedBy(open[n]) \cup Owed(n),
         \A l \in j : l \in JumpedBy(open[n]) \/ l \in p, ContextsStay
  PROVE  LInv'
<1>1. n >= 2
  BY Basics DEF IInv
<1>2. PICK q, F : q = <<r>> /\ F = {}
  OBVIOUS
<1>3. r # [kind |-> "default"]
  OBVIOUS
<1>4. Listed(q) /\ ~\E i \in DOMAIN q : q[i] = [kind |-> "default"]
  BY <1>2, <1>3, OneStatement
<1>5. /\ next_label' \in Nat /\ next_label <= next_label'
      /\ F \in SUBSET (next_label..(next_label' - 1))
  BY <1>2 DEF IInv, WellTyped
<1>6. p = PlacedBy(open[n]) \cup Owed(n) \cup F /\ open' = Emit(Enclosing, c, q)
  BY <1>2
<1>7. F = {}
  BY <1>2
<1>8. p = PlacedBy(open[n]) \cup Owed(n) \cup F
  BY <1>7
<1>9. Leaves(n, c, p, j, q, F)
  BY <1>1, <1>4, <1>5, <1>6, <1>8 DEF Leaves
<1> QED BY <1>9, EndsLInv

(* A while closed places what it owed. *)
LEMMA CloseWhileLInv ==
  ASSUME IInv, LInv, CloseWhile
  PROVE  LInv'
<1>1. PICK n, f, a : n = Depth /\ f = open[n] /\ a = LoopAt(n)
  OBVIOUS
<1>2. WellTyped /\ LabelsAccounted /\ OwnLabels /\ UNCHANGED next_label
  BY DEF IInv, LInv, CloseWhile
<1>3. /\ Frame(f) /\ Once(f) /\ PlacedBy(f) \cap Owed(n) = {} /\ n \in 1..n
  BY <1>1, <1>2, OwnAccount
<1>4. Current = f /\ f.kind = "while" /\ n \in Loops
  BY <1>1, <1>2, <1>3, Basics DEF CloseWhile
<1>5. a \in LoopContext /\ Last(loop_stack) = a
  BY <1>1, <1>4, OwnContexts
<1>6. /\ Loops' = Loops \ {n} /\ Switches' = Switches
      /\ \A k \in Loops' : LoopAt(k)' = LoopAt(k)
      /\ \A k \in Switches' : SwitchAt(k)' = SwitchAt(k)
  BY <1>1, CloseWhileIInv
<1>7. a.continue # a.break /\ Owed(n) = {a.continue, a.break}
  BY <1>1, <1>2, <1>4 DEF Owed, OwnLabels, LoopOwn
<1>8. PlacedBy(f) = Placed(f.code) /\ JumpedBy(f) = Jumped(f.code) /\ Single(f.code)
  BY <1>3, <1>4, NoThen DEF Once
<1>9. PICK c, p, j, r : /\ c = do_while(f, a) /\ p = PlacedBy(f) \cup Owed(n)
                        /\ j = JumpedBy(f) \cup Owed(n)
                        /\ r = [kind |-> "while", id |-> f.id, calc |-> f.calc, body |-> f.kids]
  OBVIOUS
<1>10. Piece(c, p, j)
  <2>1. a.continue \notin Placed(f.code) /\ a.break \notin Placed(f.code)
    BY <1>3, <1>7, <1>8
  <2> QED BY <1>3, <1>5, <1>7, <1>8, <1>9, <2>1, DoWhile
<1>11. open' = Emit(Enclosing, c, <<r>>)
  BY <1>4, <1>5, <1>9 DEF CloseWhile
<1>12. p = PlacedBy(open[n]) \cup Owed(n) /\ \A l \in j : l \in JumpedBy(open[n]) \/ l \in p
  BY <1>1, <1>9
<1>13. "id" \in DOMAIN r
  BY <1>9
<1>14. ContextsStay
  BY <1>6 DEF ContextsStay
<1> QED BY <1>1, <1>2, <1>4, <1>10, <1>11, <1>12, <1>13, <1>14, CloseLoopLInv

(* A for closed places what it owed. *)
LEMMA CloseForLInv ==
  ASSUME IInv, LInv, CloseFor
  PROVE  LInv'
<1>1. PICK n, f, a : n = Depth /\ f = open[n] /\ a = LoopAt(n)
  OBVIOUS
<1>2. WellTyped /\ LabelsAccounted /\ OwnLabels /\ UNCHANGED next_label
  BY DEF IInv, LInv, CloseFor
<1>3. /\ Frame(f) /\ Once(f) /\ PlacedBy(f) \cap Owed(n) = {} /\ n \in 1..n
  BY <1>1, <1>2, OwnAccount
<1>4. Current = f /\ f.kind = "for" /\ n \in Loops
  BY <1>1, <1>2, <1>3, Basics DEF CloseFor
<1>5. a \in LoopContext /\ Last(loop_stack) = a
  BY <1>1, <1>4, OwnContexts
<1>6. /\ Loops' = Loops \ {n} /\ Switches' = Switches
      /\ \A k \in Loops' : LoopAt(k)' = LoopAt(k)
      /\ \A k \in Switches' : SwitchAt(k)' = SwitchAt(k)
  BY <1>1, CloseForIInv
<1>7. /\ a.continue # a.break /\ a.start # a.continue /\ a.start # a.break
      /\ Owed(n) = {a.start, a.continue, a.break}
  BY <1>1, <1>2, <1>4 DEF Owed, OwnLabels, LoopOwn
<1>8. PlacedBy(f) = Placed(f.code) /\ JumpedBy(f) = Jumped(f.code) /\ Single(f.code)
  BY <1>3, <1>4, NoThen DEF Once
<1>9. PICK c, p, j, r : /\ c = do_for(f, a) /\ p = PlacedBy(f) \cup Owed(n)
                        /\ j = JumpedBy(f) \cup {a.start, a.break}
                        /\ r = [kind |-> "for", id |-> f.id, calc |-> f.calc, body |-> f.kids]
  OBVIOUS
<1>10. Piece(c, p, j)
  <2>1. Placed(f.code) \cap {a.start, a.continue, a.break} = {}
    BY <1>3, <1>7, <1>8
  <2> QED BY <1>3, <1>5, <1>7, <1>8, <1>9, <2>1, DoFor
<1>11. open' = Emit(Enclosing, c, <<r>>)
  BY <1>4, <1>5, <1>9 DEF CloseFor
<1>12. p = PlacedBy(open[n]) \cup Owed(n) /\ \A l \in j : l \in JumpedBy(open[n]) \/ l \in p
  BY <1>1, <1>7, <1>9
<1>13. "id" \in DOMAIN r
  BY <1>9
<1>14. ContextsStay
  BY <1>6 DEF ContextsStay
<1> QED BY <1>1, <1>2, <1>4, <1>10, <1>11, <1>12, <1>13, <1>14, CloseLoopLInv

(* A switch with a default has placed all it jumps to but its break label. *)
LEMMA CloseSwitchLInv ==
  ASSUME IInv, LInv, CloseSwitch, "nodefault" \notin Admit
  PROVE  LInv'
<1>1. PICK n, f, a, T : /\ n = Depth /\ f = open[n] /\ a = SwitchAt(n)
                        /\ T = {a.case_labels[i][2] : i \in DOMAIN a.case_labels}
  OBVIOUS
<1>2. WellTyped /\ LabelsAccounted /\ OwnLabels /\ UNCHANGED next_label /\ next_label \in Nat
  BY DEF IInv, LInv, WellTyped, CloseSwitch
<1>3. /\ Frame(f) /\ Once(f) /\ PlacedBy(f) \cap Owed(n) = {} /\ n \in 1..n
  BY <1>1, <1>2, OwnAccount
<1>4. Current = f /\ f.kind = "switch" /\ n \in Switches /\ n >= 2
  BY <1>1, <1>2, <1>3, Basics DEF CloseSwitch
<1>5. a \in SwitchContext /\ Last(switch_stack) = a
  BY <1>1, <1>4, OwnContexts
<1>6. /\ Switches' = Switches \ {n} /\ Loops' = Loops
      /\ \A k \in Switches' : SwitchAt(k)' = SwitchAt(k)
      /\ \A k \in Loops' : LoopAt(k)' = LoopAt(k)
  BY <1>1, CloseSwitchIInv
<1>7. HasDefault(f)
  BY <1>4 DEF CloseSwitch, Marked, HasDefault
<1>8. Owed(n) = {a.break} /\ a.default \in PlacedBy(f) /\ T \subseteq PlacedBy(f)
  BY <1>1, <1>2, <1>4, <1>7 DEF Owed, OwnLabels, SwitchOwn
<1>9. PlacedBy(f) = Placed(f.code) /\ JumpedBy(f) = Jumped(f.code) /\ Single(f.code)
  BY <1>3, <1>4, NoThen DEF Once
<1>10. PICK c, p, j, r, q, F :
         /\ c = end_switch(f, a) /\ p = PlacedBy(f) \cup {a.break}
         /\ j = JumpedBy(f) \cup {a.default} \cup T
         /\ r = [kind |-> "switch", id |-> f.id, calc |-> f.calc, body |-> f.kids]
         /\ q = <<r>> /\ F = {}
  OBVIOUS
<1>11. Piece(c, p, j)
  <2>1. a.break \notin Placed(f.code)
    BY <1>3, <1>8, <1>9
  <2> QED BY <1>1, <1>3, <1>5, <1>9, <1>10, <2>1, EndSwitch
<1>12. open' = Emit(Enclosing, c, q)
  BY <1>4, <1>5, <1>10 DEF CloseSwitch
<1>13. Listed(q) /\ ~\E i \in DOMAIN q : q[i] = [kind |-> "default"]
  <2>1. r # [kind |-> "default"]
    BY <1>10
  <2> QED BY <1>10, <2>1, OneStatement
<1>14. /\ p = PlacedBy(open[n]) \cup Owed(n) \cup F
       /\ \A l \in j : l \in JumpedBy(open[n]) \/ l \in p
       /\ next_label' \in Nat /\ next_label <= next_label'
       /\ F \in SUBSET (next_label..(next_label' - 1))
  BY <1>1, <1>2, <1>8, <1>10
<1>15. Leaves(n, c, p, j, q, F)
  BY <1>1, <1>4, <1>11, <1>12, <1>13, <1>14 DEF Leaves
<1>16. ContextsStay
  BY <1>6 DEF ContextsStay
<1> QED BY <1>15, <1>16, EndsLInv

(* A function begins with no label. *)
LEMMA InitLInv ==
  ASSUME Init
  PROVE  LInv
<1>1. Depth = 1 /\ Loops = {} /\ Switches = {} /\ open[1] = Construct("function", 0, FALSE)
  BY InitIInv
<1>2. PlacedBy(open[1]) = {} /\ JumpedBy(open[1]) = {} /\ Once(open[1])
      /\ open[1].kind = "function"
  <2>1. "function" \in Kinds /\ 0 \in Nat /\ FALSE \in BOOLEAN
    BY DEF Kinds
  <2> QED BY <1>1, <2>1, NewFrame
<1>3. Owed(1) = {}
  BY <1>2 DEF Owed
<1>4. ASSUME NEW k \in 1..Depth
      PROVE  k = 1 /\ Once(open[k])
  <2>1. k = 1
    BY <1>1
  <2> QED BY <1>2, <2>1
<1>5. Accounts(Depth, PlacedAll, JumpedAll, OwedAll, next_label)
  <2>1. \A k \in 1..Depth : PlacedAll[k] = {} /\ JumpedAll[k] = {} /\ OwedAll[k] = {}
    BY <1>2, <1>3, <1>4 DEF PlacedAll, JumpedAll, OwedAll
  <2> QED BY <2>1 DEF Accounts
<1> QED BY <1>1, <1>4, <1>5 DEF LInv, LabelsAccounted, OwnLabels

(* Every step accounts for its labels, if a switch has a default. *)
LEMMA NextLInv ==
  ASSUME "nodefault" \notin Admit, IInv, LInv, [Next]_vars
  PROVE  LInv'
<1>1. ASSUME NEW op \in {"DO", "RETURN"}, Simple(op)
      PROVE  LInv'
  BY <1>1, SimpleLInv
<1>2. CASE Break
  BY <1>2, BreakLInv
<1>3. CASE Continue
  BY <1>3, ContinueLInv
<1>4. CASE OpenIf
  BY <1>4, OpenIfLInv
<1>5. CASE OpenWhile
  BY <1>5, OpenWhileLInv
<1>6. CASE OpenFor
  BY <1>6, OpenForLInv
<1>7. ASSUME NEW calc \in BOOLEAN, OpenSwitch(calc)
      PROVE  LInv'
  BY <1>7, OpenSwitchLInv
<1>8. CASE Else
  BY <1>8, ElseLInv
<1>9. CASE CloseIf
  BY <1>9, CloseIfLInv
<1>10. CASE CloseWhile
  BY <1>10, CloseWhileLInv
<1>11. CASE CloseFor
  BY <1>11, CloseForLInv
<1>12. ASSUME NEW v \in CaseValues, Case(v)
       PROVE  LInv'
  BY <1>12, CaseLInv
<1>13. CASE Default
  BY <1>13, DefaultLInv
<1>14. CASE CloseSwitch
  BY <1>14, CloseSwitchLInv
<1>15. CASE UNCHANGED vars
  <2>1. /\ next_label' = next_label /\ open' = open /\ loop_stack' = loop_stack
        /\ switch_stack' = switch_stack
    BY <1>15 DEF vars, contexts
  <2>2. Depth' = Depth /\ Loops' = Loops /\ Switches' = Switches
    BY <2>1 DEF Depth, Loops, Switches
  <2>3. \A k : LoopAt(k)' = LoopAt(k) /\ SwitchAt(k)' = SwitchAt(k)
    BY <2>1, <2>2 DEF LoopAt, SwitchAt
  <2>4. \A k \in 1..Depth : Kept(k)
    BY <2>1, <2>2, <2>3 DEF Kept
  <2>5. \A k \in 1..Depth : Owed(k)' = Owed(k)
    BY <2>4, OwedKept DEF IInv
  <2>6. PlacedAll' = PlacedAll /\ JumpedAll' = JumpedAll /\ OwedAll' = OwedAll
    BY <2>1, <2>2, <2>5 DEF PlacedAll, JumpedAll, OwedAll
  <2>7. LabelsAccounted'
    BY <2>1, <2>2, <2>6 DEF LInv, LabelsAccounted
  <2>8. OwnLabels'
    <3>1. \A k \in Loops \cup Switches : Kept(k)
      BY <2>4, Basics DEF IInv
    <3> QED BY <2>2, <3>1, OwnLabelsKept DEF LInv
  <2> QED BY <2>7, <2>8 DEF LInv
<1> QED BY <1>1, <1>2, <1>3, <1>4, <1>5, <1>6, <1>7, <1>8, <1>9, <1>10, <1>11, <1>12, <1>13,
           <1>14, <1>15 DEF Next

(* A complete function has no construct under way to owe a label. *)
LEMMA AllPlaced ==
  ASSUME IInv, LInv
  PROVE  JumpsLand
<1> SUFFICES ASSUME Complete, NEW c, c = open[1].code, NEW i \in DOMAIN c,
                    c[i].op \in {"GOTO", "IFZ", "CASE", "LABEL"}
             PROVE  Cardinality(Places(c, c[i].to)) = 1
  BY DEF JumpsLand
<1>1. Depth = 1
  BY DEF Complete, Depth
<1>2. PICK f, l : f = open[1] /\ l = c[i].to
  OBVIOUS
<1>3. Frame(f) /\ f.kind = "function"
  BY <1>1, <1>2 DEF IInv, WellTyped, OpenTyped
<1>4. Placed(c) = PlacedBy(f) /\ Jumped(c) = JumpedBy(f)
  BY <1>2, <1>3, NoThen
<1>5. Once(f) /\ Accounts(1, PlacedAll, JumpedAll, OwedAll, next_label)
  BY <1>1, <1>2 DEF LInv, LabelsAccounted
<1>6. PlacedAll[1] = PlacedBy(f) /\ JumpedAll[1] = JumpedBy(f) /\ OwedAll[1] = {}
  <2>1. Owed(1) = {}
    BY <1>2, <1>3 DEF Owed
  <2> QED BY <1>1, <1>2, <2>1 DEF PlacedAll, JumpedAll, OwedAll
<1>7. Single(c) /\ c \in Seq(Tacs)
  BY <1>2, <1>3, <1>5 DEF Once, Frame
<1>8. l \in Placed(c)
  <2>1. CASE c[i].op = "LABEL"
    BY <1>2, <2>1, PlacedMeans
  <2>2. CASE c[i].op \in {"GOTO", "IFZ", "CASE"}
    <3>1. l \in Jumped(c)
      BY <1>2, <2>2, JumpedMeans
    <3> QED BY <1>4, <1>5, <1>6, <3>1 DEF Accounts
  <2> QED BY <2>1, <2>2
<1>9. PICK e \in DOMAIN c : c[e].op = "LABEL" /\ c[e].to = l
  BY <1>8, PlacedMeans
<1>10. ASSUME NEW d \in DOMAIN c
       PROVE  c[d] = Label(l) <=> d = e
  <2>1. c[d] \in Tacs /\ c[e] \in Tacs
    BY <1>7, <1>9, LenProperties, ElementOfSeq
  <2>2. c[e] = Label(l)
    BY <1>9, <2>1 DEF Tacs, Label, Tac
  <2>3. c[d] = Label(l) => c[d].op = "LABEL" /\ c[d].to = l
    BY DEF Label, Tac
  <2>4. c[d].op = "LABEL" /\ c[d].to = l => d = e
    BY <1>7, <1>9 DEF Single
  <2> QED BY <2>2, <2>3, <2>4
<1>11. Places(c, l) = {e}
  BY <1>9, <1>10 DEF Places
<1> QED BY <1>2, <1>11, FS_Singleton

(* In the code of any complete function whose switches have a default,     *)
(* however deep its constructs, every jump has exactly one label to go to  *)
(* and no label is defined twice.  A switch without default is the only    *)
(* thing in the way: "nodefault" is the one case that is excluded.         *)
THEOREM JumpsHaveLabels ==
  ASSUME "nodefault" \notin Admit
  PROVE  Spec => []JumpsLand
<1>1. Init => IInv /\ LInv
  BY InitIInv, InitLInv
<1>2. IInv /\ LInv /\ [Next]_vars => IInv' /\ LInv'
  BY NextIInv, NextLInv
<1>3. IInv /\ LInv => JumpsLand
  BY AllPlaced
<1> QED BY <1>1, <1>2, <1>3, PTL DEF Spec

(* Inside a loop the generator complains about nothing: a break finds the  *)
(* loop or the switch it is in, whatever ended before it, and so does a    *)
(* continue but for one thing, the switch between it and its loop          *)
(* ("continue").                                                           *)
THEOREM OnlyContinueRefused ==
  ASSUME "continue" \notin Admit
  PROVE  Spec => LegalAccepted
<1>1. ASSUME IInv, loop_stack # <<>>, ~in_loop
      PROVE  in_switch
  <2>1. PICK n, t : n = Len(context_type_stack) /\ t = context_type_stack
    OBVIOUS
  <2>2. t \in Seq({"LOOP", "SWITCH"}) /\ Follows(t, Breakable)
        /\ Follows(switch_stack, Switches) /\ switch_stack \in Seq(SwitchContext)
    BY <1>1, <2>1 DEF IInv, WellTyped, StacksTyped, Mirrored
  <2>3. PICK k \in Loops : TRUE
    BY <1>1, TopContexts DEF IInv
  <2>4. Depth \in Nat /\ Breakable \in SUBSET (1..Depth) /\ Switches \in SUBSET (1..Depth)
    BY <1>1, Basics DEF IInv, Breakable
  <2>5. Rank(Breakable, k) \in 1..n
    BY <2>1, <2>2, <2>4, RankGrows DEF Breakable, Follows
  <2>6. n \in 1..n /\ n = Cardinality(Breakable)
    BY <2>1, <2>2, <2>5, LenProperties DEF Follows
  <2>7. PICK b \in Breakable : Rank(Breakable, b) = n
    BY <2>2, <2>6 DEF Follows, Ranked
  <2>8. Last(t) = IF b \in Loops THEN "LOOP" ELSE "SWITCH"
    <3>1. Last(t) = t[n]
      BY <2>1 DEF Last
    <3> QED BY <1>1, <2>1, <2>7, <3>1 DEF IInv, Mirrored
  <2>9. b \in Switches /\ Last(context_type_stack) = "SWITCH"
    BY <1>1, <2>1, <2>8 DEF in_loop, Breakable
  <2>10. Rank(Switches, b) \in 1..Len(switch_stack)
    BY <2>2, <2>4, <2>9, RankGrows DEF Follows
  <2>11. switch_stack # <<>>
    BY <2>2, <2>10, LenProperties, EmptySeq
  <2> QED BY <2>9, <2>11 DEF in_switch
<1>2. ASSUME IInv, Next, loop_stack # <<>>
      PROVE  errors' = errors
  <2>1. CASE Break
    BY <1>1, <1>2, <2>1 DEF Break, Jump
  <2>2. CASE Continue
    BY <1>2, <2>2 DEF Continue, Jump
  <2>3. CASE (\E op \in {"DO", "RETURN"} : Simple(op)) \/ OpenIf \/ OpenWhile \/ OpenFor
             \/ (\E calc \in BOOLEAN : OpenSwitch(calc)) \/ Else
    BY <2>3 DEF Simple, OpenIf, OpenWhile, OpenFor, OpenSwitch, Else
  <2>4. CASE CloseIf \/ CloseWhile \/ CloseFor \/ CloseSwitch \/ Default
             \/ \E v \in CaseValues : Case(v)
    BY <2>4 DEF CloseIf, CloseWhile, CloseFor, CloseSwitch, Default, Case
  <2> QED BY <1>2, <2>1, <2>2, <2>3, <2>4 DEF Next
<1>3. IInv /\ [Next]_vars => [loop_stack # <<>> => errors' = errors]_vars
  BY <1>2
<1> QED BY <1>3, Invariance, PTL DEF Spec, LegalAccepted

=============================================================================
