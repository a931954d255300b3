--------------------------- MODULE CallFrameProofs ---------------------------
(***************************************************************************)
(* Proofs about CallFrame for every set of words and call sites, every     *)
(* place and size of the stack and every depth of calls.                   *)
(*                                                                         *)
(* The argument is geometric: a frame is a stretch of words from its first *)
(* argument to its tof, the stretches follow one another, and inside each  *)
(* of them formals, saved words and locals have parts of their own.        *)
(***************************************************************************)
EXTENDS CallFrame, SequenceTheorems, TLAPS

Depth == Len(act)
Size(f) == Len(f.offs)

(* Inside a frame: the formals taken so far are the words below the base,  *)
(* the locals, in the order of their declarations, those from LOCAL_OFF to *)
(* tof; locals come after the last formal.                                 *)
Laid(f) ==
  /\ f.tof >= LOCAL_OFF
  /\ f.base + f.tof <= StackTop
  /\ Formals(f) \in 0..f.arity
  /\ Size(f) >= Formals(f)
  /\ Formals(f) < f.arity => Size(f) = Formals(f)
  /\ \A i \in 1..Size(f) :
       /\ i <= Formals(f) => f.offs[i] = -i
       /\ i > Formals(f) => LOCAL_OFF <= f.offs[i] /\ f.offs[i] < f.tof
       /\ \A j \in 1..Size(f) : Formals(f) < i /\ i < j => f.offs[i] < f.offs[j]

FramesLaid ==
  \A k \in 1..Depth : Laid(act[k]) /\ STACK <= act[k].base - act[k].arity

(* Between frames: the arguments of a call lie past all the caller has.    *)
FramesApart ==
  \A k, l \in 1..Depth : k < l => act[k].base + act[k].tof <= act[l].base - act[l].arity

(* A function calls others when it has taken its arguments. *)
FormalsTaken ==
  \A k \in 1..Depth : k < Depth => Formals(act[k]) = act[k].arity

(* main's saved R_BP is 0, and the words of a call being prepared fit.     *)
BottomLink == Running => mem[Base(1) + OBP_OFF] = 0

ActualsFit == Running => bp + Top.tof + oon <= StackTop

IInv ==
  /\ TypeOK
  /\ LinksIntact
  /\ FramesLaid
  /\ FramesApart
  /\ FormalsTaken
  /\ BottomLink
  /\ ActualsFit

Frame ==
  [base : Addresses, tof : Nat, oof : Int, offs : Seq(Int), arity : Nat, site : Sites \cup {Exit}]

-----------------------------------------------------------------------------
(* The numbers of a frame are numbers, its variables a sequence of them.   *)
LEMMA FrameTyped ==
  ASSUME NEW f \in Frame
  PROVE  /\ f.base \in Int /\ STACK <= f.base /\ f.base < StackTop
         /\ f.tof \in Nat /\ f.oof \in Int /\ f.arity \in Nat
         /\ f.site \in Sites \cup {Exit}
         /\ f.offs \in Seq(Int)
         /\ Size(f) \in Nat
         /\ DOMAIN f.offs = 1..Size(f)
         /\ \A i \in 1..Size(f) : f.offs[i] \in Int
         /\ Formals(f) \in Int
  BY LayoutAssumption, LenProperties, ElementOfSeq DEF Frame, Addresses, Formals, FORMAL_OFF, Size

(* The activations are a sequence of frames, the last of them the running one.*)
LEMMA ActSeq ==
  ASSUME TypeOK
  PROVE  /\ act \in Seq(Frame)
         /\ Depth \in Nat
         /\ DOMAIN act = 1..Depth
         /\ \A k \in 1..Depth : act[k] \in Frame
         /\ Running => Depth \in 1..Depth
         /\ Top = act[Depth]
<1>1. act \in Seq(Frame)
  BY DEF TypeOK, Frame
<1>2. /\ Depth \in Nat /\ DOMAIN act = 1..Depth
      /\ \A k \in 1..Depth : act[k] \in Frame
  BY <1>1, LenProperties, ElementOfSeq DEF Depth
<1>3. Running => Depth \in 1..Depth
  BY <1>1, EmptySeq DEF Running, Depth
<1> QED BY <1>1, <1>2, <1>3 DEF Top, Depth

(* What the type invariant says of one activation.                        *)
LEMMA ActTyped ==
  ASSUME TypeOK
  PROVE  /\ Depth \in Nat
         /\ \A k \in 1..Depth :
              /\ act[k] \in Frame
              /\ act[k].base \in Int /\ act[k].tof \in Nat /\ act[k].arity \in Nat
              /\ Base(k) = act[k].base
  BY ActSeq, FrameTyped DEF Base

(* Every offset lies between the first argument and tof, and is none of    *)
(* the two saved words; no two are the same.                               *)
LEMMA OffsetsLaid ==
  ASSUME NEW f \in Frame, Laid(f), NEW i \in 1..Size(f)
  PROVE  /\ f.offs[i] \in Int
         /\ -f.arity <= f.offs[i] /\ f.offs[i] < f.tof
         /\ f.offs[i] \notin {OBP_OFF, RET_OFF}
         /\ \A j \in 1..Size(f) : f.offs[i] = f.offs[j] => i = j
<1>1. /\ f.tof \in Nat /\ f.arity \in Nat /\ Size(f) \in Nat /\ Formals(f) \in Int
      /\ \A j \in 1..Size(f) : f.offs[j] \in Int
  BY FrameTyped
<1>2. /\ -f.arity <= f.offs[i] /\ f.offs[i] < f.tof
      /\ f.offs[i] \notin {OBP_OFF, RET_OFF}
  <2>1. CASE i <= Formals(f)
    <3>1. f.offs[i] = -i /\ i <= f.arity
      BY <1>1, <2>1 DEF Laid
    <3> QED BY <1>1, <3>1 DEF Laid, OBP_OFF, RET_OFF, LOCAL_OFF
  <2>2. CASE i > Formals(f)
    <3>1. LOCAL_OFF <= f.offs[i] /\ f.offs[i] < f.tof
      BY <1>1, <2>2 DEF Laid
    <3> QED BY <1>1, <3>1 DEF OBP_OFF, RET_OFF, LOCAL_OFF
  <2> QED BY <1>1, <2>1, <2>2
<1>3. ASSUME NEW j \in 1..Size(f), f.offs[i] = f.offs[j]
      PROVE  i = j
  <2>1. CASE i <= Formals(f) /\ j <= Formals(f)
    BY <1>1, <1>3, <2>1 DEF Laid
  <2>2. CASE i <= Formals(f) /\ j > Formals(f)
    BY <1>1, <1>3, <2>2 DEF Laid, LOCAL_OFF
  <2>3. CASE i > Formals(f) /\ j <= Formals(f)
    BY <1>1, <1>3, <2>3 DEF Laid, LOCAL_OFF
  <2>4. CASE i > Formals(f) /\ j > Formals(f)
    BY <1>1, <1>3, <2>4 DEF Laid
  <2> QED BY <1>1, <2>1, <2>2, <2>3, <2>4
<1> QED BY <1>1, <1>2, <1>3

(* Every variable of an activation lies inside its frame.                 *)
LEMMA VariableInFrame ==
  ASSUME IInv, NEW k \in 1..Depth, NEW i \in 1..Size(act[k])
  PROVE  /\ act[k].offs[i] \in Int
         /\ -act[k].arity <= act[k].offs[i] /\ act[k].offs[i] < act[k].tof
         /\ act[k].offs[i] \notin {OBP_OFF, RET_OFF}
         /\ \A j \in 1..Size(act[k]) : act[k].offs[i] = act[k].offs[j] => i = j
<1>1. act[k] \in Frame /\ Laid(act[k])
  BY ActTyped DEF IInv, FramesLaid
<1> QED BY <1>1, OffsetsLaid

(* Words of different frames are different words. *)
LEMMA FramesDisjoint ==
  ASSUME IInv, NEW k \in 1..Depth, NEW l \in 1..Depth, k # l,
         NEW a \in Int, -act[k].arity <= a, a < act[k].tof,
         NEW b \in Int, -act[l].arity <= b, b < act[l].tof
  PROVE  Base(k) + a # Base(l) + b
<1>1. act[k] \in Frame /\ act[l] \in Frame
  BY ActTyped DEF IInv
<1>2. \/ act[k].base + act[k].tof <= act[l].base - act[l].arity
      \/ act[l].base + act[l].tof <= act[k].base - act[k].arity
  BY ActTyped DEF IInv, FramesApart
<1>3. /\ act[k].base \in Int /\ act[k].tof \in Nat /\ act[k].arity \in Nat
      /\ act[l].base \in Int /\ act[l].tof \in Nat /\ act[l].arity \in Nat
  BY ActTyped DEF IInv
<1>4. CASE act[k].base + act[k].tof <= act[l].base - act[l].arity
  BY <1>3, <1>4 DEF Base
<1>5. CASE act[l].base + act[l].tof <= act[k].base - act[k].arity
  BY <1>3, <1>5 DEF Base
<1> QED BY <1>2, <1>4, <1>5

(* No variable lies on a saved word of any activation. *)
LEMMA VariableNotLink ==
  ASSUME IInv, NEW k \in 1..Depth, NEW i \in 1..Size(act[k]), NEW l \in 1..Depth,
         NEW o \in {OBP_OFF, RET_OFF}
  PROVE  WordOf(k, i) # Base(l) + o
<1>1. act[k] \in Frame /\ act[l] \in Frame /\ Laid(act[l])
  BY ActTyped DEF IInv, FramesLaid
<1>2. o \in Int /\ -act[l].arity <= o /\ o < act[l].tof
  BY <1>1, ActTyped DEF IInv, Laid, OBP_OFF, RET_OFF, LOCAL_OFF
<1>3. /\ act[k].offs[i] \in Int /\ act[k].offs[i] # o
      /\ -act[k].arity <= act[k].offs[i] /\ act[k].offs[i] < act[k].tof
  BY VariableInFrame
<1>4. CASE k = l
  BY <1>2, <1>3, <1>4, ActTyped DEF IInv, WordOf
<1>5. CASE k # l
  BY <1>2, <1>3, <1>5, FramesDisjoint DEF WordOf
<1> QED BY <1>4, <1>5

(* The invariant gives the properties.                                     *)
LEMMA IInvDisjoint ==
  IInv => WordsDisjoint
<1> SUFFICES ASSUME IInv, NEW p \in Variables
             PROVE  /\ \A q \in Variables : WordOf(p[1], p[2]) = WordOf(q[1], q[2]) => p = q
                    /\ \A k \in DOMAIN act : WordOf(p[1], p[2]) - Base(k) \notin {OBP_OFF, RET_OFF}
  BY DEF WordsDisjoint
<1>1. \A q \in Variables : /\ q = <<q[1], q[2]>>
                           /\ q[1] \in 1..Depth /\ q[2] \in 1..Size(act[q[1]])
                           /\ WordOf(q[1], q[2]) \in Int
  <2> SUFFICES ASSUME NEW q \in Variables
               PROVE  /\ q = <<q[1], q[2]>>
                      /\ q[1] \in 1..Depth /\ q[2] \in 1..Size(act[q[1]])
                      /\ WordOf(q[1], q[2]) \in Int
    OBVIOUS
  <2>1. q = <<q[1], q[2]>> /\ q[1] \in DOMAIN act /\ q[2] \in DOMAIN act[q[1]].offs
    BY DEF Variables
  <2>2. q[1] \in 1..Depth /\ act[q[1]] \in Frame
    BY <2>1, ActSeq DEF IInv
  <2> QED BY <2>1, <2>2, FrameTyped DEF WordOf, Base
<1>2. ASSUME NEW q \in Variables, WordOf(p[1], p[2]) = WordOf(q[1], q[2])
      PROVE  p = q
  <2>1. p[1] = q[1]
    <3>1. \A r \in {p, q} :
             LET o == act[r[1]].offs[r[2]]
             IN  o \in Int /\ -act[r[1]].arity <= o /\ o < act[r[1]].tof
      BY <1>1, VariableInFrame
    <3> QED BY <1>1, <1>2, <3>1, FramesDisjoint DEF WordOf
  <2>2. act[p[1]].offs[p[2]] = act[q[1]].offs[q[2]]
    BY <1>1, <1>2, <2>1, VariableInFrame, ActTyped DEF WordOf, IInv
  <2> QED BY <1>1, <2>1, <2>2, VariableInFrame
<1>3. ASSUME NEW k \in DOMAIN act
      PROVE  WordOf(p[1], p[2]) - Base(k) \notin {OBP_OFF, RET_OFF}
  <2>1. k \in 1..Depth /\ act[k] \in Frame
    BY ActSeq DEF IInv
  <2>2. \A o \in {OBP_OFF, RET_OFF} : WordOf(p[1], p[2]) # Base(k) + o
    BY <1>1, <2>1, VariableNotLink
  <2> QED BY <1>1, <2>1, <2>2, FrameTyped DEF Base, OBP_OFF, RET_OFF
<1> QED BY <1>2, <1>3

(* What LinksIntact says of one activation.                                *)
LEMMA LinkOf ==
  ASSUME IInv, NEW k \in 1..Depth
  PROVE  /\ mem[act[k].base + RET_OFF] = act[k].site
         /\ k > 1 => k - 1 \in 1..Depth /\ mem[act[k].base + OBP_OFF] = act[k - 1].base
         /\ act[k].base + OBP_OFF \in Addresses /\ act[k].base + RET_OFF \in Addresses
<1>1. Depth \in Nat /\ DOMAIN act = 1..Depth
  BY ActSeq DEF IInv
<1>2. k > 1 => k - 1 \in 1..Depth
  BY <1>1
<1>3. k \in DOMAIN act
  BY <1>1
<1>4. /\ mem[Base(k) + RET_OFF] = act[k].site
      /\ k > 1 => mem[Base(k) + OBP_OFF] = Base(k - 1)
  BY <1>3 DEF IInv, LinksIntact
<1>5. act[k].base + OBP_OFF \in Addresses /\ act[k].base + RET_OFF \in Addresses
  <2>1. act[k] \in Frame /\ Laid(act[k])
    BY ActTyped DEF IInv, FramesLaid
  <2>2. /\ act[k].base \in Int /\ STACK <= act[k].base /\ act[k].tof \in Nat
        /\ act[k].base + act[k].tof <= StackTop /\ act[k].tof >= LOCAL_OFF
    BY <2>1, FrameTyped DEF Laid
  <2> QED BY <2>2, LayoutAssumption DEF Addresses, OBP_OFF, RET_OFF, LOCAL_OFF
<1> QED BY <1>2, <1>4, <1>5 DEF Base

(* A store changes the word it names.                                      *)
LEMMA OneWritten ==
  ASSUME NEW S, NEW m \in [Addresses -> S], NEW a, NEW x, NEW w, w = [m EXCEPT ![a] = x]
  PROVE  \A u \in Addresses : w[u] = IF u = a THEN x ELSE m[u]
  OBVIOUS

(* Two stores change the two words they name.                             *)
LEMMA TwoWritten ==
  ASSUME NEW S, NEW m \in [Addresses -> S], NEW a \in Addresses, NEW b \in Addresses, a # b,
         NEW x, NEW y, NEW w, w = [m EXCEPT ![a] = x, ![b] = y]
  PROVE  w[a] = x /\ w[b] = y /\ \A u \in Addresses : u # a /\ u # b => w[u] = m[u]
  OBVIOUS

-----------------------------------------------------------------------------
(* The steps. The frame of main is laid out, nothing is suspended.         *)
LEMMA InitGood ==
  Init => IInv
<1> SUFFICES ASSUME Init PROVE IInv
  OBVIOUS
<1> DEFINE main == Activation(STACK, 0, Exit)
<1>1. /\ main \in Frame
      /\ main.base = STACK /\ main.tof = LOCAL_OFF /\ main.arity = 0 /\ main.site = Exit
      /\ Formals(main) = 0 /\ Size(main) = 0
  BY LayoutAssumption, EmptySeq
     DEF Frame, Activation, Addresses, LOCAL_OFF, FORMAL_OFF, Formals, Size
<1>2. act = <<main>>
  BY DEF Init
<1> HIDE DEF main
<1>3. /\ act \in Seq(Frame) /\ Depth = 1 /\ DOMAIN act = 1..1 /\ act[1] = main
      /\ Running /\ Top = main
  BY <1>1, <1>2 DEF Depth, Running, Top
<1>4. /\ STACK + OBP_OFF \in Addresses /\ STACK + RET_OFF \in Addresses
      /\ STACK + OBP_OFF # STACK + RET_OFF
  BY LayoutAssumption DEF Addresses, OBP_OFF, RET_OFF, LOCAL_OFF
<1>5. /\ mem \in [Addresses -> Words]
      /\ mem[STACK + OBP_OFF] = 0 /\ mem[STACK + RET_OFF] = Exit
  BY <1>4, LayoutAssumption DEF Init, Words
<1>6. TypeOK
  <2>1. bp \in 0..StackTop
    BY LayoutAssumption DEF Init, LOCAL_OFF
  <2> QED BY <1>3, <1>5, <2>1 DEF Init, TypeOK, Frame
<1>7. LinksIntact
  BY <1>1, <1>3, <1>5 DEF LinksIntact, Init, Base
<1>8. Laid(main) /\ STACK <= main.base - main.arity
  BY <1>1, LayoutAssumption DEF Laid, LOCAL_OFF
<1>9. FramesLaid /\ FramesApart /\ FormalsTaken
  <2>1. \A k \in 1..Depth : k = 1
    BY <1>3
  <2>2. FramesLaid
    BY <1>3, <1>8, <2>1 DEF FramesLaid
  <2> QED BY <1>3, <2>1, <2>2 DEF FramesApart, FormalsTaken
<1>10. BottomLink /\ ActualsFit
  BY <1>1, <1>3, <1>5, LayoutAssumption DEF BottomLink, ActualsFit, Base, Init, LOCAL_OFF
<1> QED BY <1>6, <1>7, <1>9, <1>10 DEF IInv

(* n words in a row. *)
LEMMA Row ==
  ASSUME NEW t \in Int, NEW n \in Nat, NEW new, new = [i \in 1..n |-> t + i - 1]
  PROVE  /\ new \in Seq(Int) /\ Len(new) = n
         /\ \A i \in 1..n : new[i] = t + i - 1
<1>1. new \in [1..n -> Int]
  OBVIOUS
<1>2. new \in Seq(Int)
  BY <1>1, SeqDef
<1>3. DOMAIN new = 1..n /\ DOMAIN new = 1..Len(new) /\ Len(new) \in Nat
  BY <1>1, <1>2, LenProperties
<1> QED BY <1>2, <1>3

(* What VAR makes of a frame: n more locals, all past the old ones.        *)
LEMMA Declared ==
  ASSUME NEW g \in Frame, Laid(g), Formals(g) = g.arity, NEW n \in Nat \ {0},
         g.base + (g.tof + n) <= StackTop,
         NEW f \in Frame, f.tof = g.tof + n,
         f.base = g.base, f.arity = g.arity, f.oof = g.oof,
         Size(f) = Size(g) + n,
         \A i \in 1..Size(g) : f.offs[i] = g.offs[i],
         \A i \in 1..Size(f) : i > Size(g) => f.offs[i] = g.tof + (i - Size(g)) - 1
  PROVE  Laid(f)
<1>1. /\ g.tof \in Nat /\ g.arity \in Nat /\ Size(g) \in Nat
      /\ \A i \in 1..Size(g) : g.offs[i] \in Int
  BY FrameTyped
<1>2. Formals(f) = g.arity /\ f.tof \in Nat
  BY <1>1 DEF Formals
<1>3. g.arity <= Size(g) /\ LOCAL_OFF <= g.tof
  BY <1>1 DEF Laid
<1>4. ASSUME NEW i \in 1..Size(f), i <= Size(g)
      PROVE  /\ i \in 1..Size(g) /\ f.offs[i] = g.offs[i] /\ f.offs[i] \in Int
             /\ i <= g.arity => f.offs[i] = -i
             /\ i > g.arity => LOCAL_OFF <= f.offs[i] /\ f.offs[i] < g.tof
             /\ \A j \in 1..Size(g) : g.arity < i /\ i < j => f.offs[i] < g.offs[j]
  <2>1. i \in 1..Size(g)
    BY <1>1, <1>4
  <2>2. f.offs[i] = g.offs[i] /\ f.offs[i] \in Int
    BY <1>1, <2>1
  <2> QED BY <2>1, <2>2 DEF Laid
<1>5. ASSUME NEW i \in 1..Size(f), i > Size(g)
      PROVE  f.offs[i] = g.tof + (i - Size(g)) - 1 /\ i \in Int /\ i <= Size(g) + n
  BY <1>1, <1>5
<1>6. ASSUME NEW i \in 1..Size(f)
      PROVE  /\ i <= g.arity => f.offs[i] = -i
             /\ i > g.arity => LOCAL_OFF <= f.offs[i] /\ f.offs[i] < f.tof
  <2>1. CASE i <= Size(g)
    BY <1>1, <1>4, <2>1
  <2>2. CASE i > Size(g)
    BY <1>1, <1>3, <1>5, <2>2 DEF LOCAL_OFF
  <2> QED BY <1>1, <2>1, <2>2
<1>7. ASSUME NEW i \in 1..Size(f), NEW j \in 1..Size(f), g.arity < i, i < j
      PROVE  f.offs[i] < f.offs[j]
  <2>1. CASE j <= Size(g)
    <3>1. i <= Size(g)
      BY <1>1, <1>7, <2>1
    <3>2. /\ f.offs[j] = g.offs[j] /\ j \in 1..Size(g)
          /\ \A l \in 1..Size(g) : g.arity < i /\ i < l => f.offs[i] < g.offs[l]
      BY <1>4, <2>1, <3>1
    <3> QED BY <1>7, <3>2
  <2>2. CASE i <= Size(g) /\ j > Size(g)
    <3>1. f.offs[i] < g.tof /\ f.offs[i] \in Int
      BY <1>4, <1>7, <2>2
    <3>2. f.offs[j] = g.tof + (j - Size(g)) - 1 /\ j \in Int
      BY <1>5, <2>2
    <3> QED BY <1>1, <2>2, <3>1, <3>2
  <2>3. CASE i > Size(g)
    <3>1. /\ f.offs[i] = g.tof + (i - Size(g)) - 1 /\ i \in Int
      BY <1>5, <2>3
    <3>2. j > Size(g) /\ j \in Int
      BY <1>1, <1>7, <2>3
    <3>3. f.offs[j] = g.tof + (j - Size(g)) - 1
      BY <1>5, <3>2
    <3> QED BY <1>1, <1>7, <3>1, <3>2, <3>3
  <2> QED BY <1>1, <2>1, <2>2, <2>3
<1>8. /\ f.tof >= LOCAL_OFF /\ f.base + f.tof <= StackTop
      /\ Formals(f) \in 0..f.arity /\ Size(f) >= Formals(f) /\ Formals(f) = f.arity
  BY <1>1, <1>2, <1>3 DEF LOCAL_OFF
<1> QED BY <1>2, <1>6, <1>7, <1>8 DEF Laid

(* What FML makes of a frame: the next formal is the word below the last.  *)
LEMMA Taken ==
  ASSUME NEW g \in Frame, Laid(g), Formals(g) < g.arity,
         NEW f \in Frame, f.oof = g.oof - 1,
         f.base = g.base, f.arity = g.arity, f.tof = g.tof,
         Size(f) = Size(g) + 1,
         \A i \in 1..Size(g) : f.offs[i] = g.offs[i],
         f.offs[Size(g) + 1] = g.oof
  PROVE  /\ Laid(f)
         /\ Formals(f) = Formals(g) + 1
<1>1. /\ g.arity \in Nat /\ Size(g) \in Nat /\ g.oof \in Int
  BY FrameTyped
<1>2. /\ Formals(g) = -1 - g.oof /\ Formals(f) = Formals(g) + 1
      /\ Formals(g) \in 0..g.arity /\ Size(g) = Formals(g)
  BY <1>1 DEF Laid, Formals, FORMAL_OFF
<1>3. \A i \in 1..Size(f) : f.offs[i] = -i
  <2> SUFFICES ASSUME NEW i \in 1..Size(f) PROVE f.offs[i] = -i
    OBVIOUS
  <2>1. CASE i = Size(g) + 1
    BY <1>1, <1>2, <2>1
  <2>2. CASE i # Size(g) + 1
    <3>1. i \in 1..Size(g) /\ i <= Formals(g)
      BY <1>1, <1>2, <2>2
    <3> QED BY <3>1 DEF Laid
  <2> QED BY <2>1, <2>2
<1>4. f.tof >= LOCAL_OFF /\ f.base + f.tof <= StackTop
  BY DEF Laid
<1>5. Formals(f) \in 0..f.arity /\ Size(f) = Formals(f)
  BY <1>1, <1>2
<1>6. \A i \in 1..Size(f) : i <= Formals(f) /\ ~(i > Formals(f)) /\ ~(Formals(f) < i)
  BY <1>1, <1>2, <1>5
<1>7. Size(f) >= Formals(f)
  BY <1>1, <1>2, <1>5
<1> QED BY <1>2, <1>3, <1>4, <1>5, <1>6, <1>7 DEF Laid

(* What a jump back makes of a frame: locals after the first n forgotten.  *)
LEMMA Forgotten ==
  ASSUME NEW g \in Frame, Laid(g), Formals(g) = g.arity, NEW n \in g.arity..(Size(g) - 1),
         NEW f \in Frame, f.tof = g.offs[n + 1],
         f.base = g.base, f.arity = g.arity, f.oof = g.oof,
         Size(f) = n,
         \A i \in 1..n : f.offs[i] = g.offs[i]
  PROVE  Laid(f) /\ f.tof <= g.tof
<1>1. /\ g.tof \in Nat /\ g.arity \in Nat /\ Size(g) \in Nat /\ g.base \in Int
      /\ n \in Nat /\ n + 1 \in 1..Size(g)
      /\ \A i \in 1..Size(g) : g.offs[i] \in Int
  BY FrameTyped
<1>2. /\ LOCAL_OFF <= f.tof /\ f.tof < g.tof /\ f.tof \in Int
      /\ \A i \in 1..Size(g) : g.arity < i /\ i < n + 1 => g.offs[i] < f.tof
  <2>1. n + 1 > Formals(g)
    BY <1>1
  <2> QED BY <1>1, <2>1 DEF Laid
<1>3. Formals(f) = g.arity
  BY DEF Formals
<1>4. f.base + f.tof <= StackTop
  <2>1. g.base + g.tof <= StackTop
    BY DEF Laid
  <2> QED BY <1>1, <1>2, <2>1, LayoutAssumption
<1>5. ASSUME NEW i \in 1..Size(f)
      PROVE  /\ i <= g.arity => f.offs[i] = -i
             /\ i > g.arity => LOCAL_OFF <= f.offs[i] /\ f.offs[i] < f.tof
             /\ \A j \in 1..Size(f) : g.arity < i /\ i < j => f.offs[i] < f.offs[j]
  <2>1. i \in 1..Size(g) /\ f.offs[i] = g.offs[i] /\ i < n + 1
    BY <1>1
  <2>2. \A j \in 1..Size(f) : j \in 1..Size(g) /\ f.offs[j] = g.offs[j]
    BY <1>1
  <2>3. /\ i <= g.arity => g.offs[i] = -i
        /\ i > g.arity => LOCAL_OFF <= g.offs[i]
        /\ \A j \in 1..Size(g) : g.arity < i /\ i < j => g.offs[i] < g.offs[j]
    BY <2>1 DEF Laid
  <2>4. i > g.arity => g.offs[i] < f.tof
    BY <1>1, <1>2, <2>1
  <2> QED BY <2>1, <2>2, <2>3, <2>4
<1>6. Formals(f) \in 0..f.arity /\ Size(f) >= Formals(f) /\ Formals(f) = f.arity
  BY <1>1, <1>3
<1>7. f.tof <= g.tof /\ f.tof >= LOCAL_OFF
  BY <1>1, <1>2 DEF LOCAL_OFF
<1> QED BY <1>3, <1>4, <1>5, <1>6, <1>7 DEF Laid

(* The activations after a step of the running one.                        *)
LEMMA ReplacedTop ==
  ASSUME TypeOK, Running, NEW f \in Frame, act' = ReplaceTop(f)
  PROVE  /\ act' \in Seq(Frame) /\ Depth' = Depth /\ DOMAIN act' = 1..Depth
         /\ act'[Depth] = f
         /\ \A k \in 1..Depth : k # Depth => act'[k] = act[k]
         /\ Running' /\ Top' = f
<1>1. act \in Seq(Frame) /\ Depth \in 1..Depth
  BY ActSeq
<1>2. act' = [act EXCEPT ![Depth] = f]
  BY DEF ReplaceTop, Depth
<1>3. /\ act' \in Seq(Frame) /\ Depth' = Depth
      /\ \A k \in 1..Depth : act'[k] = IF k = Depth THEN f ELSE act[k]
  BY <1>1, <1>2, ExceptSeq DEF Depth
<1>4. DOMAIN act' = 1..Depth /\ Running'
  BY <1>1, <1>3, LenProperties, EmptySeq DEF Depth, Running
<1>5. Top' = act'[Depth']
  BY DEF Top, Depth
<1> QED BY <1>1, <1>3, <1>4, <1>5

(* A step that declares, takes or forgets variables of the running         *)
(* activation leaves everything in order when its frame is.                *)
LEMMA TopReplaced ==
  ASSUME IInv, Running, NEW f \in Frame,
         f.base = Top.base, f.arity = Top.arity, f.site = Top.site,
         Laid(f), bp + f.tof + oon <= StackTop,
         act' = ReplaceTop(f), UNCHANGED <<mem, bp, ip, oon>>
  PROVE  IInv'
<1>1. /\ act \in Seq(Frame) /\ Depth \in 1..Depth /\ DOMAIN act = 1..Depth
      /\ Top = act[Depth] /\ Depth \in Nat
  BY ActSeq DEF IInv
<1>2. /\ act' \in Seq(Frame) /\ Depth' = Depth /\ DOMAIN act' = 1..Depth
      /\ act'[Depth] = f
      /\ \A k \in 1..Depth : k # Depth => act'[k] = act[k]
      /\ Running' /\ Top' = f
  BY ReplacedTop DEF IInv
<1>3. \A k \in 1..Depth : /\ act'[k].base = act[k].base
                          /\ act'[k].arity = act[k].arity
                          /\ act'[k].site = act[k].site
  BY <1>1, <1>2
<1>4. TypeOK'
  BY <1>2 DEF IInv, TypeOK, Frame
<1>5. LinksIntact'
  <2>1. bp' = Top'.base
    BY <1>1, <1>2 DEF IInv, LinksIntact
  <2>2. ASSUME NEW k \in 1..Depth
        PROVE  /\ mem'[act'[k].base + RET_OFF] = act'[k].site
               /\ k > 1 => mem'[act'[k].base + OBP_OFF] = act'[k - 1].base
    <3>1. act'[k].base = act[k].base /\ act'[k].site = act[k].site /\ mem' = mem
      BY <1>3
    <3>2. k > 1 => act'[k - 1].base = act[k - 1].base
      BY <1>3, LinkOf
    <3> QED BY LinkOf, <3>1, <3>2
  <2> QED BY <1>2, <2>1, <2>2 DEF LinksIntact, Base
<1>6. FramesLaid'
  BY <1>1, <1>2, <1>3 DEF IInv, FramesLaid
<1>7. FramesApart'
  <2> SUFFICES ASSUME NEW k \in 1..Depth, NEW l \in 1..Depth, k < l
               PROVE  act'[k].base + act'[k].tof <= act'[l].base - act'[l].arity
    BY <1>2 DEF FramesApart
  <2>1. k # Depth
    BY <1>1
  <2> QED BY <1>2, <1>3, <2>1 DEF IInv, FramesApart
<1>8. FormalsTaken'
  BY <1>1, <1>2 DEF IInv, FormalsTaken
<1>9. BottomLink'
  BY <1>1, <1>3 DEF IInv, BottomLink, Base
<1>10. ActualsFit'
  BY <1>2 DEF ActualsFit
<1> QED BY <1>4, <1>5, <1>6, <1>7, <1>8, <1>9, <1>10 DEF IInv

(* What the invariant says of the running activation.                     *)
LEMMA TopGood ==
  ASSUME IInv, Running
  PROVE  /\ Top \in Frame /\ Laid(Top) /\ bp = Top.base /\ STACK <= Top.base - Top.arity
         /\ Len(Top.offs) = Size(Top) /\ DOMAIN Top.offs = 1..Size(Top)
         /\ bp + Top.tof + oon <= StackTop
<1>1. Depth \in 1..Depth /\ Top = act[Depth] /\ Top \in Frame
  BY ActSeq DEF IInv
<1> QED BY <1>1, FrameTyped DEF IInv, LinksIntact, FramesLaid, ActualsFit, Size

(* What a VAR does to the running activation's frame.                      *)
LEMMA VarFrame ==
  ASSUME IInv, NEW n \in 1..MaxVars, Var(n)
  PROVE  \E f \in Frame :
           /\ f.base = Top.base /\ f.arity = Top.arity /\ f.site = Top.site /\ f.oof = Top.oof
           /\ f.tof = Top.tof + n
           /\ Size(f) = Size(Top) + n
           /\ \A i \in 1..Size(Top) : f.offs[i] = Top.offs[i]
           /\ Laid(f)
           /\ act' = ReplaceTop(f)
<1>1. PICK g \in Frame : g = Top
  BY TopGood DEF Var
<1>2. PICK new : new = [i \in 1..n |-> g.tof + i - 1]
  OBVIOUS
<1>3. PICK both : both = g.offs \o new
  OBVIOUS
<1>4. PICK f : f = [g EXCEPT !.offs = both, !.tof = g.tof + n, !.oof = g.oof]
  OBVIOUS
<1>5. /\ Laid(g) /\ bp = g.base /\ n \in Nat \ {0}
      /\ Formals(g) = g.arity /\ bp + g.tof + n <= StackTop
  BY <1>1, TopGood DEF Var
<1>6. act' = ReplaceTop(f)
  <2>1. f = [g EXCEPT !.offs = both, !.tof = g.tof + n]
    BY <1>4 DEF Frame
  <2> QED BY <1>1, <1>2, <1>3, <2>1 DEF Var
<1>7. /\ g.base \in Int /\ g.tof \in Nat /\ g.oof \in Int /\ g.offs \in Seq(Int) /\ Size(g) \in Nat
  BY FrameTyped
<1>8. /\ new \in Seq(Int) /\ Len(new) = n
      /\ \A i \in 1..n : new[i] = g.tof + i - 1
  BY <1>2, <1>5, <1>7, Row
<1>9. /\ both \in Seq(Int)
      /\ Len(both) = Size(g) + n
      /\ \A i \in 1..(Size(g) + n) :
           both[i] = IF i <= Size(g) THEN g.offs[i] ELSE new[i - Size(g)]
  BY <1>3, <1>7, <1>8, ConcatProperties DEF Size
<1>10. g.tof + n \in Nat
  BY <1>5, <1>7
<1>11. /\ f \in Frame
       /\ f.base = g.base /\ f.arity = g.arity /\ f.site = g.site
       /\ f.offs = both /\ f.tof = g.tof + n /\ f.oof = g.oof
  <2>1. both \in Seq(Int) /\ g.oof \in Int
    BY <1>7, <1>9
  <2> QED BY <1>4, <1>10, <2>1 DEF Frame
<1>12. /\ Size(f) = Size(g) + n
       /\ \A i \in 1..Size(f) : f.offs[i] = IF i <= Size(g) THEN g.offs[i] ELSE new[i - Size(g)]
  BY <1>9, <1>11 DEF Size
<1>13. \A i \in 1..Size(g) : f.offs[i] = g.offs[i]
  <2>1. \A i \in 1..Size(g) : i \in 1..Size(f) /\ i <= Size(g)
    BY <1>5, <1>7, <1>12
  <2> QED BY <1>12, <2>1
<1>14. \A i \in 1..Size(f) : i > Size(g) => f.offs[i] = g.tof + (i - Size(g)) - 1
  <2> SUFFICES ASSUME NEW i \in 1..Size(f), i > Size(g)
               PROVE  f.offs[i] = g.tof + (i - Size(g)) - 1
    OBVIOUS
  <2>1. ~(i <= Size(g)) /\ i - Size(g) \in 1..n
    BY <1>5, <1>7, <1>12
  <2>2. f.offs[i] = new[i - Size(g)]
    BY <1>12, <2>1
  <2> QED BY <1>8, <2>1, <2>2
<1>15. Laid(f)
  <2>1. g.base + (g.tof + n) <= StackTop
    BY <1>5, <1>7
  <2> QED BY <1>5, <1>11, <1>12, <1>13, <1>14, <2>1, Declared
<1> QED BY <1>1, <1>6, <1>11, <1>12, <1>13, <1>15

(* What an FML does to it.                                                 *)
LEMMA FormalFrame ==
  ASSUME IInv, Formal
  PROVE  \E f \in Frame :
           /\ f.base = Top.base /\ f.arity = Top.arity /\ f.site = Top.site
           /\ f.oof = Top.oof - 1 /\ f.tof = Top.tof
           /\ Size(f) = Size(Top) + 1
           /\ \A i \in 1..Size(Top) : f.offs[i] = Top.offs[i]
           /\ f.offs[Size(Top) + 1] = Top.oof
           /\ Laid(f) /\ Formals(f) = Formals(Top) + 1
           /\ act' = ReplaceTop(f)
<1>1. PICK g \in Frame : g = Top
  BY TopGood DEF Formal
<1>2. PICK both : both = Append(g.offs, g.oof)
  OBVIOUS
<1>3. PICK f : f = [g EXCEPT !.offs = both, !.tof = g.tof, !.oof = g.oof - 1]
  OBVIOUS
<1>4. Laid(g) /\ Formals(g) < g.arity
  BY <1>1, TopGood DEF Formal
<1>5. act' = ReplaceTop(f)
  <2>1. f = [g EXCEPT !.offs = both, !.oof = g.oof - 1]
    BY <1>3 DEF Frame
  <2> QED BY <1>1, <1>2, <2>1 DEF Formal
<1>6. /\ g.tof \in Nat /\ g.oof \in Int /\ g.offs \in Seq(Int) /\ Size(g) \in Nat
      /\ g.oof - 1 \in Int
  BY FrameTyped
<1>7. /\ both \in Seq(Int) /\ Len(both) = Size(g) + 1
      /\ \A i \in 1..Size(g) : both[i] = g.offs[i]
      /\ both[Size(g) + 1] = g.oof
  BY <1>2, <1>6, AppendProperties DEF Size
<1>8. /\ f \in Frame
      /\ f.base = g.base /\ f.arity = g.arity /\ f.site = g.site
      /\ f.offs = both /\ f.tof = g.tof /\ f.oof = g.oof - 1
  <2>1. both \in Seq(Int) /\ g.tof \in Nat /\ g.oof - 1 \in Int
    BY <1>6, <1>7
  <2> QED BY <1>3, <2>1 DEF Frame
<1>9. /\ Size(f) = Size(g) + 1
      /\ \A i \in 1..Size(g) : f.offs[i] = g.offs[i]
      /\ f.offs[Size(g) + 1] = g.oof
  BY <1>7, <1>8 DEF Size
<1>10. Laid(f) /\ Formals(f) = Formals(g) + 1
  BY <1>4, <1>8, <1>9, Taken
<1> QED BY <1>1, <1>5, <1>8, <1>9, <1>10

(* What a jump back does to it.                                            *)
LEMMA RewindFrame ==
  ASSUME IInv, NEW n \in 0..MaxVars, Rewind(n)
  PROVE  \E f \in Frame :
           /\ f.base = Top.base /\ f.arity = Top.arity /\ f.site = Top.site /\ f.oof = Top.oof
           /\ n \in 0..Size(Top) /\ n >= Top.arity
           /\ Size(f) = n
           /\ \A i \in 1..n : f.offs[i] = Top.offs[i]
           /\ Laid(f) /\ f.tof <= Top.tof
           /\ act' = ReplaceTop(f)
<1>1. PICK g \in Frame : g = Top
  BY TopGood DEF Rewind
<1>2. PICK cut : cut = SubSeq(g.offs, 1, n)
  OBVIOUS
<1>3. PICK f : f = [g EXCEPT !.offs = cut, !.tof = g.offs[n + 1], !.oof = g.oof]
  OBVIOUS
<1>4. /\ Laid(g) /\ Formals(g) = g.arity
      /\ n \in g.arity..(Size(g) - 1)
  BY <1>1, TopGood DEF Rewind
<1>5. act' = ReplaceTop(f)
  <2>1. f = [g EXCEPT !.offs = cut, !.tof = g.offs[n + 1]]
    BY <1>3 DEF Frame
  <2> QED BY <1>1, <1>2, <2>1 DEF Rewind
<1>6. /\ g.oof \in Int /\ Size(g) \in Nat /\ g.arity \in Nat
      /\ \A i \in 1..Size(g) : g.offs[i] \in Int
  BY FrameTyped
<1>7. n \in Nat /\ n \in 0..Size(g) /\ n >= g.arity /\ n + 1 \in 1..Size(g)
  BY <1>4, <1>6
<1>8. /\ cut \in Seq(Int) /\ Len(cut) = n
      /\ \A i \in 1..n : cut[i] = g.offs[i]
  <2>1. \A i \in 1..n : g.offs[i] \in Int
    BY <1>6, <1>7
  <2>2. /\ cut \in Seq(Int)
        /\ Len(cut) = IF 1 <= n THEN n - 1 + 1 ELSE 0
        /\ \A i \in 1..(n - 1 + 1) : cut[i] = g.offs[1 + i - 1]
    BY <1>2, <1>7, <2>1, SubSeqProperties
  <2>3. n - 1 + 1 = n /\ \A i \in 1..n : 1 + i - 1 = i
    BY <1>7
  <2> QED BY <1>7, <2>2, <2>3
<1>9. g.offs[n + 1] \in Nat
  <2>1. n + 1 > Formals(g)
    BY <1>4, <1>6, <1>7
  <2>2. LOCAL_OFF <= g.offs[n + 1]
    BY <1>4, <1>7, <2>1 DEF Laid
  <2> QED BY <1>6, <1>7, <2>2 DEF LOCAL_OFF
<1>10. /\ f \in Frame
       /\ f.base = g.base /\ f.arity = g.arity /\ f.site = g.site
       /\ f.offs = cut /\ f.tof = g.offs[n + 1] /\ f.oof = g.oof
  <2>1. cut \in Seq(Int) /\ g.oof \in Int
    BY <1>6, <1>8
  <2> QED BY <1>3, <1>9, <2>1 DEF Frame
<1>11. Size(f) = n /\ \A i \in 1..n : f.offs[i] = g.offs[i]
  BY <1>8, <1>10 DEF Size
<1>12. Laid(f) /\ f.tof <= g.tof
  BY <1>4, <1>10, <1>11, Forgotten
<1> QED BY <1>1, <1>5, <1>7, <1>10, <1>11, <1>12

(* A VAR (CodeGen: asm_code, TAC_VAR) keeps the invariant.                *)
LEMMA StepVar ==
  ASSUME IInv, NEW n \in 1..MaxVars, Var(n)
  PROVE  IInv'
<1>1. PICK f \in Frame :
        /\ f.base = Top.base /\ f.arity = Top.arity /\ f.site = Top.site
        /\ Laid(f) /\ act' = ReplaceTop(f)
  BY VarFrame
<1>2. Running /\ oon = 0 /\ UNCHANGED <<mem, bp, ip, oon>>
  BY DEF Var
<1>3. bp + f.tof + oon <= StackTop
  <2>1. bp = f.base /\ f.base \in Int /\ f.tof \in Nat
    BY <1>1, <1>2, TopGood, FrameTyped
  <2> QED BY <1>1, <1>2, <2>1 DEF Laid
<1> QED BY <1>1, <1>2, <1>3, TopReplaced

(* A FORMAL keeps it: the new formal lies below those taken.              *)
LEMMA StepFormal ==
  ASSUME IInv, Formal
  PROVE  IInv'
<1>1. PICK f \in Frame :
        /\ f.base = Top.base /\ f.arity = Top.arity /\ f.site = Top.site /\ f.tof = Top.tof
        /\ Laid(f) /\ act' = ReplaceTop(f)
  BY FormalFrame
<1>2. Running /\ UNCHANGED <<mem, bp, ip, oon>>
  BY DEF Formal
<1>3. bp + f.tof + oon <= StackTop
  BY <1>1, <1>2, TopGood
<1> QED BY <1>1, <1>2, <1>3, TopReplaced

(* A jump back keeps it: only locals declared since are forgotten.        *)
LEMMA StepRewind ==
  ASSUME IInv, NEW n \in 0..MaxVars, Rewind(n)
  PROVE  IInv'
<1>1. PICK f \in Frame :
        /\ f.base = Top.base /\ f.arity = Top.arity /\ f.site = Top.site
        /\ Laid(f) /\ act' = ReplaceTop(f)
  BY RewindFrame
<1>2. Running /\ oon = 0 /\ UNCHANGED <<mem, bp, ip, oon>>
  BY DEF Rewind
<1>3. bp + f.tof + oon <= StackTop
  <2>1. bp = f.base /\ f.base \in Int /\ f.tof \in Nat
    BY <1>1, <1>2, TopGood, FrameTyped
  <2> QED BY <1>1, <1>2, <2>1 DEF Laid
<1> QED BY <1>1, <1>2, <1>3, TopReplaced

(* A store to a word that no return needs.                                 *)
LEMMA WordWritten ==
  ASSUME IInv, NEW w \in Int, NEW v \in Words,
         \A l \in 1..Depth : w # act[l].base + OBP_OFF /\ w # act[l].base + RET_OFF,
         mem' = [mem EXCEPT ![w] = v],
         UNCHANGED <<bp, ip, act>>, oon' \in Nat, ActualsFit'
  PROVE  IInv'
<1>1. TypeOK'
  BY DEF IInv, TypeOK
<1>2. \A u \in Addresses : u # w => mem'[u] = mem[u]
  <2>1. mem \in [Addresses -> Words]
    BY DEF IInv, TypeOK
  <2> QED BY <2>1, OneWritten
<1>3. Depth \in Nat /\ DOMAIN act = 1..Depth
  BY ActSeq DEF IInv
<1>4. LinksIntact'
  <2>1. ASSUME NEW k \in 1..Depth
        PROVE  /\ mem'[act[k].base + RET_OFF] = act[k].site
               /\ k > 1 => mem'[act[k].base + OBP_OFF] = act[k - 1].base
    BY <1>2, LinkOf
  <2>2. (Running => bp = Top.base)'
    BY DEF IInv, LinksIntact, Running, Top
  <2> QED BY <1>3, <2>1, <2>2 DEF LinksIntact, Base
<1>5. FramesLaid' /\ FramesApart' /\ FormalsTaken'
  BY DEF IInv, FramesLaid, FramesApart, FormalsTaken, Depth, Laid, Formals, Size
<1>6. BottomLink'
  <2> SUFFICES ASSUME Running PROVE mem'[act[1].base + OBP_OFF] = 0
    BY DEF BottomLink, Running, Base
  <2>1. 1 \in 1..Depth
    BY <1>3, ActSeq DEF IInv
  <2>2. mem[act[1].base + OBP_OFF] = 0
    BY DEF IInv, BottomLink, Base
  <2> QED BY <1>2, <2>1, <2>2, LinkOf
<1> QED BY <1>1, <1>4, <1>5, <1>6 DEF IInv

(* A store to a variable or through a pointer to one keeps it.            *)
LEMMA StepAssign ==
  ASSUME IInv, NEW k \in DOMAIN act, NEW v \in Value, NEW i \in DOMAIN act[k].offs,
         Assign(k, i, v)
  PROVE  IInv'
<1>1. k \in 1..Depth /\ act[k] \in Frame /\ i \in 1..Size(act[k]) /\ Depth \in Nat
  <2>1. k \in 1..Depth /\ act[k] \in Frame /\ Depth \in Nat
    BY ActSeq DEF IInv
  <2> QED BY <2>1, FrameTyped
<1>2. (IF k = Len(act) THEN bp ELSE act[k].base) = act[k].base
  BY TopGood DEF Assign, Top
<1>3. mem' = [mem EXCEPT ![act[k].base + act[k].offs[i]] = v]
  BY <1>2 DEF Assign
<1>4. act[k].base + act[k].offs[i] \in Int
  BY <1>1, FrameTyped
<1>5. \A l \in 1..Depth : /\ act[k].base + act[k].offs[i] # act[l].base + OBP_OFF
                          /\ act[k].base + act[k].offs[i] # act[l].base + RET_OFF
  BY <1>1, VariableNotLink DEF WordOf, Base
<1>6. v \in Words /\ UNCHANGED <<bp, ip, oon, act>>
  BY DEF Assign, Words
<1>7. oon' \in Nat /\ ActualsFit'
  BY <1>6 DEF IInv, TypeOK, ActualsFit, Running, Top
<1> QED BY <1>3, <1>4, <1>5, <1>6, <1>7, WordWritten

(* Past the running frame there is no saved word.                          *)
LEMMA TopIsLast ==
  ASSUME IInv, Running, NEW l \in 1..Depth
  PROVE  /\ act[l].base + act[l].tof <= bp + Top.tof
         /\ act[l].base + OBP_OFF < bp + Top.tof /\ act[l].base + RET_OFF < bp + Top.tof
         /\ bp \in Int /\ Top.tof \in Nat /\ bp >= STACK
<1>1. Depth \in 1..Depth /\ Top = act[Depth] /\ Depth \in Nat /\ bp = act[Depth].base
  BY ActSeq, TopGood DEF IInv
<1>2. /\ act[l].base \in Int /\ act[l].tof \in Nat
      /\ act[Depth].base \in Int /\ act[Depth].tof \in Nat /\ act[Depth].arity \in Nat
  BY <1>1, ActTyped DEF IInv
<1>3. act[l].tof >= LOCAL_OFF /\ act[Depth].base >= STACK + act[Depth].arity
  <2>1. Laid(act[l]) /\ STACK <= act[Depth].base - act[Depth].arity
    BY <1>1 DEF IInv, FramesLaid
  <2> QED BY <1>2, <2>1, LayoutAssumption DEF Laid
<1>4. act[l].base + act[l].tof <= act[Depth].base + act[Depth].tof
  <2>1. CASE l = Depth
    BY <1>2, <2>1
  <2>2. CASE l # Depth
    <3>1. act[l].base + act[l].tof <= act[Depth].base - act[Depth].arity
      <4>1. l < Depth
        BY <1>1, <2>2
      <4> QED BY <1>1, <4>1 DEF IInv, FramesApart
    <3> QED BY <1>2, <3>1
  <2> QED BY <2>1, <2>2
<1> QED BY <1>1, <1>2, <1>3, <1>4, LayoutAssumption DEF OBP_OFF, RET_OFF, LOCAL_OFF

(* An ACTUAL keeps it: the argument lies past the running frame.          *)
LEMMA StepActual ==
  ASSUME IInv, NEW v \in Value, Actual(v)
  PROVE  IInv'
<1> DEFINE w == bp + Top.tof + oon
<1>1. Running /\ Depth \in 1..Depth /\ oon \in Nat
  BY ActSeq DEF IInv, Actual, TypeOK
<1>2. bp \in Int /\ Top.tof \in Nat /\ w \in Int
  BY <1>1, TopIsLast
<1>3. \A l \in 1..Depth : w # act[l].base + OBP_OFF /\ w # act[l].base + RET_OFF
  <2> SUFFICES ASSUME NEW l \in 1..Depth
               PROVE  w # act[l].base + OBP_OFF /\ w # act[l].base + RET_OFF
    OBVIOUS
  <2>1. act[l].base \in Int
    BY ActTyped DEF IInv
  <2>2. act[l].base + OBP_OFF < bp + Top.tof /\ act[l].base + RET_OFF < bp + Top.tof
    BY <1>1, TopIsLast
  <2> HIDE <1>1
  <2> QED BY <1>1, <1>2, <2>1, <2>2 DEF OBP_OFF, RET_OFF
<1>4. /\ mem' = [mem EXCEPT ![w] = v] /\ UNCHANGED <<bp, ip, act>> /\ v \in Words
      /\ oon' = oon + 1 /\ w < StackTop
  BY DEF Actual, Words
<1>5. oon' \in Nat /\ ActualsFit'
  <2>1. Top' = Top
    BY <1>4 DEF Top
  <2> QED BY <1>1, <1>2, <1>4, <2>1, LayoutAssumption DEF ActualsFit
<1> QED BY <1>2, <1>3, <1>4, <1>5, WordWritten

(* What a call does to the activations.                                    *)
LEMMA CallFrames ==
  ASSUME IInv, NEW s \in Sites, Call(s)
  PROVE  \E f \in Frame :
           /\ f.base = bp + Top.tof + oon /\ f.arity = oon /\ f.site = s /\ f.tof = LOCAL_OFF
           /\ Formals(f) = 0 /\ Size(f) = 0
           /\ bp' = f.base /\ mem' = [mem EXCEPT ![f.base + OBP_OFF] = bp, ![f.base + RET_OFF] = s]
           /\ f.base + LOCAL_OFF <= StackTop
           /\ act' \in Seq(Frame)
           /\ Depth' = Depth + 1
           /\ \A k \in 1..Depth : act'[k] = act[k]
           /\ act'[Depth + 1] = f
<1>1. PICK f : f = Activation(bp + Top.tof + oon, oon, s)
  OBVIOUS
<1>2. act \in Seq(Frame) /\ Running /\ Depth \in 1..Depth /\ oon \in Nat
  BY ActSeq DEF Call, IInv, TypeOK
<1>3. /\ act' = Append(act, f)
      /\ bp + Top.tof + oon + LOCAL_OFF <= StackTop
      /\ bp' = bp + Top.tof + oon
      /\ mem' = [mem EXCEPT ![bp + Top.tof + oon + OBP_OFF] = bp, ![bp + Top.tof + oon + RET_OFF] = s]
  BY <1>1 DEF Call
<1>4. bp \in Int /\ Top.tof \in Nat /\ bp >= STACK
  BY <1>2, TopIsLast
<1>5. bp + Top.tof + oon \in Addresses
  <2>1. oon \in Nat /\ bp + Top.tof + oon + LOCAL_OFF <= StackTop
    BY <1>2, <1>3
  <2> QED BY <1>4, <2>1, LayoutAssumption DEF Addresses, LOCAL_OFF
<1>6. /\ f.base = bp + Top.tof + oon /\ f.arity = oon /\ f.site = s /\ f.tof = LOCAL_OFF
      /\ f.oof = FORMAL_OFF /\ f.offs = <<>>
  BY <1>1 DEF Activation
<1>7. f \in Frame
  <2>1. <<>> \in Seq(Int)
    BY EmptySeq
  <2> QED BY <1>1, <1>2, <1>5, <2>1 DEF Activation, Frame, LOCAL_OFF, FORMAL_OFF
<1>8. Formals(f) = 0 /\ Size(f) = 0
  BY <1>6, EmptySeq DEF Formals, FORMAL_OFF, Size
<1>9. /\ act' \in Seq(Frame) /\ Depth' = Depth + 1
      /\ \A k \in 1..Depth : act'[k] = act[k]
      /\ act'[Depth + 1] = f
  BY <1>2, <1>3, <1>7, AppendProperties DEF Depth
<1> QED BY <1>3, <1>6, <1>7, <1>8, <1>9

(* A call keeps it: the new frame starts past the arguments passed.       *)
LEMMA StepCall ==
  ASSUME IInv, NEW s \in Sites, Call(s)
  PROVE  IInv'
<1>1. PICK f \in Frame :
           /\ f.base = bp + Top.tof + oon /\ f.arity = oon /\ f.site = s /\ f.tof = LOCAL_OFF
           /\ Formals(f) = 0 /\ Size(f) = 0
           /\ bp' = f.base /\ mem' = [mem EXCEPT ![f.base + OBP_OFF] = bp, ![f.base + RET_OFF] = s]
           /\ f.base + LOCAL_OFF <= StackTop
           /\ act' \in Seq(Frame)
           /\ Depth' = Depth + 1
           /\ \A k \in 1..Depth : act'[k] = act[k]
           /\ act'[Depth + 1] = f
  BY CallFrames
<1>2. /\ Running /\ Depth \in 1..Depth /\ Depth \in Nat /\ oon \in Nat /\ Top = act[Depth]
      /\ Formals(Top) = Top.arity /\ ip' = "callee" /\ oon' = 0
      /\ bp \in Int /\ Top.tof \in Nat /\ bp >= STACK /\ bp = Top.base /\ bp \in 0..StackTop
  <2>1. Running /\ Formals(Top) = Top.arity /\ ip' = "callee" /\ oon' = 0
    BY DEF Call
  <2> QED BY <2>1, ActSeq, TopIsLast, TopGood DEF IInv, TypeOK
<1>3. /\ Depth' \in Nat /\ DOMAIN act' = 1..Depth' /\ Depth + 1 \in 1..Depth'
      /\ Running' /\ Top' = act'[Depth + 1] /\ Top' = f
      /\ \A k \in 1..Depth' : k \in 1..Depth \/ k = Depth + 1
      /\ \A k \in 1..Depth : k \in 1..Depth' /\ k # Depth + 1
  <2>1. DOMAIN act' = 1..Depth'
    BY <1>1, LenProperties DEF Depth
  <2>2. Running'
    <3> SUFFICES act' # <<>>
      BY DEF Running
    <3>1. Depth' # 0
      BY <1>1, <1>2
    <3> QED BY <3>1, EmptySeq DEF Depth
  <2>3. Top' = act'[Depth']
    BY DEF Top, Depth
  <2> QED BY <1>1, <1>2, <2>1, <2>2, <2>3
<1>4. /\ f.base \in Int /\ f.base \in 0..StackTop
      /\ f.base + OBP_OFF \in Addresses /\ f.base + RET_OFF \in Addresses
      /\ f.base = bp + Top.tof + oon /\ f.arity = oon /\ f.tof = LOCAL_OFF
      /\ f.base + LOCAL_OFF <= StackTop
      /\ oon \in Nat /\ bp \in Int /\ bp >= STACK /\ Top.tof \in Nat
  <2>1. /\ f.base = bp + Top.tof + oon /\ f.arity = oon /\ f.tof = LOCAL_OFF
        /\ f.base + LOCAL_OFF <= StackTop
        /\ oon \in Nat /\ bp \in Int /\ bp >= STACK /\ Top.tof \in Nat
    BY <1>1, <1>2
  <2> QED BY <2>1, LayoutAssumption DEF Addresses, OBP_OFF, RET_OFF, LOCAL_OFF
<1>5. TypeOK'
  <2>1. mem' \in [Addresses -> Words]
    <3>1. bp \in Words /\ s \in Words
      BY <1>2 DEF Words
    <3> QED BY <1>1, <3>1 DEF IInv, TypeOK
  <2> QED BY <1>1, <1>2, <1>4, <2>1 DEF TypeOK, Frame
<1>6. /\ mem'[f.base + OBP_OFF] = bp
      /\ mem'[f.base + RET_OFF] = s
      /\ \A u \in Addresses : u # f.base + OBP_OFF /\ u # f.base + RET_OFF => mem'[u] = mem[u]
  <2>1. mem \in [Addresses -> Words] /\ f.base + OBP_OFF # f.base + RET_OFF
    BY <1>4 DEF IInv, TypeOK, OBP_OFF, RET_OFF
  <2>2. mem' = [mem EXCEPT ![f.base + OBP_OFF] = bp, ![f.base + RET_OFF] = s]
    BY <1>1
  <2>3. f.base + OBP_OFF \in Addresses /\ f.base + RET_OFF \in Addresses
    BY <1>4
  <2> QED BY <2>1, <2>2, <2>3, TwoWritten
<1>7. ASSUME NEW k \in 1..Depth
      PROVE  /\ mem'[act[k].base + RET_OFF] = mem[act[k].base + RET_OFF]
             /\ mem'[act[k].base + OBP_OFF] = mem[act[k].base + OBP_OFF]
  <2>1. act[k].base \in Int
    BY ActTyped DEF IInv
  <2>2. act[k].base + OBP_OFF < bp + Top.tof /\ act[k].base + RET_OFF < bp + Top.tof
    BY <1>2, TopIsLast
  <2>3. \A u \in Int : u < bp + Top.tof => u # f.base + OBP_OFF /\ u # f.base + RET_OFF
    BY <1>4 DEF OBP_OFF, RET_OFF
  <2>4. act[k].base + OBP_OFF \in Addresses /\ act[k].base + RET_OFF \in Addresses
    BY LinkOf
  <2>5. act[k].base + OBP_OFF \in Int /\ act[k].base + RET_OFF \in Int
    BY <2>1 DEF OBP_OFF, RET_OFF
  <2> QED BY <1>6, <2>2, <2>3, <2>4, <2>5
<1>8. LinksIntact'
  <2>1. ASSUME NEW k \in 1..Depth'
        PROVE  /\ mem'[act'[k].base + RET_OFF] = act'[k].site
               /\ k > 1 => mem'[act'[k].base + OBP_OFF] = act'[k - 1].base
    <3>1. CASE k \in 1..Depth
      <4>1. act'[k] = act[k]
        BY <1>1, <3>1
      <4>2. k > 1 => act'[k - 1] = act[k - 1]
        BY <1>1, <3>1, LinkOf
      <4> QED BY <1>7, <3>1, <4>1, <4>2, LinkOf
    <3>2. CASE k = Depth + 1
      <4>1. act'[k] = f /\ k - 1 = Depth
        BY <1>1, <1>2, <3>2
      <4>2. act'[k - 1].base = bp
        BY <1>1, <1>2, <4>1
      <4> QED BY <1>1, <1>6, <4>1, <4>2
    <3> QED BY <1>3, <3>1, <3>2
  <2> QED BY <1>1, <1>3, <2>1 DEF LinksIntact, Base
<1>9. FramesLaid'
  <2>1. Laid(f)
    <3>1. Size(f) = 0 /\ Formals(f) = 0
      BY <1>1
    <3>2. \A i \in 1..Size(f) : FALSE
      BY <3>1
    <3>3. f.tof >= LOCAL_OFF
      BY <1>4 DEF LOCAL_OFF
    <3> QED BY <1>4, <3>1, <3>2, <3>3 DEF Laid
  <2>2. STACK <= f.base - f.arity
    BY <1>4, LayoutAssumption
  <2>3. ASSUME NEW k \in 1..Depth'
        PROVE  Laid(act'[k]) /\ STACK <= act'[k].base - act'[k].arity
    <3>1. CASE k \in 1..Depth
      BY <1>1, <3>1 DEF IInv, FramesLaid
    <3>2. CASE k = Depth + 1
      BY <1>1, <2>1, <2>2, <3>2
    <3> QED BY <1>3, <3>1, <3>2
  <2> QED BY <2>3 DEF FramesLaid
<1>10. FramesApart'
  <2> SUFFICES ASSUME NEW k \in 1..Depth', NEW l \in 1..Depth', k < l
               PROVE  act'[k].base + act'[k].tof <= act'[l].base - act'[l].arity
    BY DEF FramesApart
  <2>1. k \in 1..Depth
    <3>1. Depth' = Depth + 1 /\ Depth \in Nat
      BY <1>1, <1>2
    <3> QED BY <3>1
  <2>2. act'[k] = act[k]
    BY <1>1, <2>1
  <2>3. CASE l \in 1..Depth
    BY <1>1, <2>1, <2>2, <2>3 DEF IInv, FramesApart
  <2>4. CASE l = Depth + 1
    <3>1. act[k].base + act[k].tof <= bp + Top.tof
      BY <1>2, <2>1, TopIsLast
    <3>2. act'[l].base - act'[l].arity = bp + Top.tof
      <4>1. act'[l] = f
        BY <1>1, <2>4
      <4> QED BY <1>4, <4>1
    <3> QED BY <2>2, <3>1, <3>2
  <2> QED BY <1>3, <2>3, <2>4
<1>11. FormalsTaken'
  <2> SUFFICES ASSUME NEW k \in 1..Depth', k < Depth'
               PROVE  Formals(act'[k]) = act'[k].arity
    BY DEF FormalsTaken, Formals
  <2>1. k \in 1..Depth /\ act'[k] = act[k]
    BY <1>1, <1>2
  <2>2. CASE k < Depth
    BY <2>1, <2>2 DEF IInv, FormalsTaken
  <2>3. CASE k = Depth
    BY <1>2, <2>1, <2>3
  <2> QED BY <1>2, <2>1, <2>2, <2>3
<1>12. BottomLink'
  <2> SUFFICES mem'[act'[1].base + OBP_OFF] = 0
    BY DEF BottomLink, Base
  <2>1. 1 \in 1..Depth
    BY <1>2
  <2>2. act'[1] = act[1] /\ mem[act[1].base + OBP_OFF] = 0
    BY <1>1, <1>2, <2>1 DEF IInv, BottomLink, Base
  <2> QED BY <1>7, <2>1, <2>2
<1>13. ActualsFit'
  BY <1>1, <1>2, <1>3, <1>4 DEF ActualsFit, LOCAL_OFF
<1> QED BY <1>5, <1>8, <1>9, <1>10, <1>11, <1>12, <1>13 DEF IInv

(* What a return does to the activations. *)
LEMMA ReturnFrames ==
  ASSUME IInv, Return
  PROVE  /\ Running /\ oon = 0 /\ UNCHANGED <<mem, oon>>
         /\ Depth \in Nat /\ Depth >= 1 /\ Depth \in 1..Depth /\ Top = act[Depth]
         /\ Depth' = Depth - 1
         /\ act' \in Seq(Frame) /\ DOMAIN act' = 1..Depth'
         /\ \A k \in 1..Depth' : k \in 1..Depth /\ k < Depth /\ act'[k] = act[k]
         /\ Running' => 1 \in 1..Depth' /\ Depth' \in 1..Depth' /\ Top' = act'[Depth']
         /\ Running' <=> Depth > 1
         /\ ip' = Top.site
         /\ bp' = IF Depth > 1 THEN act[Depth - 1].base ELSE 0
<1>1. /\ act \in Seq(Frame) /\ Running /\ Depth \in 1..Depth /\ Top = act[Depth] /\ Depth \in Nat
      /\ \A k \in 1..Depth : act[k] \in Frame
      /\ oon = 0 /\ UNCHANGED <<mem, oon>>
  BY ActSeq DEF Return, IInv
<1>2. PICK cut : cut = SubSeq(act, 1, Depth - 1)
  OBVIOUS
<1>3. act' = cut
  BY <1>2 DEF Return, Depth
<1>4. /\ cut \in Seq(Frame) /\ Len(cut) = Depth - 1
      /\ \A k \in 1..(Depth - 1) : cut[k] = act[k]
  <2>1. Depth - 1 \in Int /\ \A k \in 1..(Depth - 1) : act[k] \in Frame
    BY <1>1
  <2>2. /\ cut \in Seq(Frame)
        /\ Len(cut) = IF 1 <= Depth - 1 THEN Depth - 1 - 1 + 1 ELSE 0
        /\ \A k \in 1..(Depth - 1 - 1 + 1) : cut[k] = act[1 + k - 1]
    BY <1>2, <2>1, SubSeqProperties
  <2>3. Depth - 1 - 1 + 1 = Depth - 1 /\ \A k \in 1..(Depth - 1) : 1 + k - 1 = k
    BY <1>1
  <2> QED BY <1>1, <2>2, <2>3
<1>5. DOMAIN cut = 1..Len(cut) /\ (cut # <<>> => Len(cut) \in Nat \ {0}) /\ (cut = <<>> => Len(cut) = 0)
  BY <1>4, LenProperties, EmptySeq
<1>6. /\ Depth' = Depth - 1 /\ act' \in Seq(Frame) /\ DOMAIN act' = 1..Depth'
      /\ (Running' <=> cut # <<>>)
      /\ Top' = act'[Depth']
  BY <1>3, <1>4, <1>5 DEF Depth, Running, Top
<1>7. /\ Depth >= 1
      /\ \A k \in 1..Depth' : k \in 1..Depth /\ k < Depth
      /\ Running' <=> Depth > 1
      /\ Running' => 1 \in 1..Depth' /\ Depth' \in 1..Depth'
  BY <1>1, <1>4, <1>5, <1>6
<1>8. \A k \in 1..Depth' : act'[k] = act[k]
  BY <1>3, <1>4, <1>6
<1>9. ip' = Top.site
  BY <1>1, LinkOf, TopGood DEF Return
<1>10. bp' = IF Depth > 1 THEN act[Depth - 1].base ELSE 0
  <2>1. bp' = mem[act[Depth].base + OBP_OFF]
    BY <1>1, TopGood DEF Return
  <2>2. CASE Depth > 1
    BY <1>1, <2>1, <2>2, LinkOf
  <2>3. CASE ~(Depth > 1)
    <3>1. Depth = 1
      BY <1>1, <2>3
    <3> QED BY <1>1, <2>1, <2>3, <3>1 DEF IInv, BottomLink, Base
  <2> QED BY <2>2, <2>3
<1> QED BY <1>1, <1>6, <1>7, <1>8, <1>9, <1>10

(* A return keeps it: the running activation is the caller again.         *)
LEMMA StepReturn ==
  ASSUME IInv, Return
  PROVE  IInv'
<1>1. /\ oon = 0 /\ UNCHANGED <<mem, oon>>
      /\ Depth \in Nat /\ Depth >= 1 /\ Depth \in 1..Depth /\ Top = act[Depth]
      /\ Depth' = Depth - 1
      /\ act' \in Seq(Frame) /\ DOMAIN act' = 1..Depth'
      /\ \A k \in 1..Depth' : k \in 1..Depth /\ k < Depth /\ act'[k] = act[k]
      /\ Running' => 1 \in 1..Depth' /\ Depth' \in 1..Depth' /\ Top' = act'[Depth']
      /\ Running' <=> Depth > 1
      /\ ip' = Top.site
      /\ bp' = IF Depth > 1 THEN act[Depth - 1].base ELSE 0
  BY ReturnFrames
<1>2. Running' => bp' = Top'.base
  BY <1>1
<1>3. \A k \in 1..Depth' : act'[k] \in Frame /\ Laid(act'[k]) /\ STACK <= act'[k].base - act'[k].arity
  BY <1>1, ActTyped DEF IInv, FramesLaid
<1>4. TypeOK'
  <2>1. bp' \in 0..StackTop
    <3>1. CASE Running'
      <4>1. Top' \in Frame
        BY <1>1, <1>3, <3>1
      <4> QED BY <1>2, <3>1, <4>1, LayoutAssumption DEF Frame, Addresses
    <3>2. CASE ~Running'
      BY <1>1, <3>2, LayoutAssumption
    <3> QED BY <3>1, <3>2
  <2>2. Top.site \in Sites \cup {Exit}
    BY <1>1, ActTyped, FrameTyped DEF IInv
  <2> QED BY <1>1, <2>1, <2>2 DEF IInv, TypeOK, Frame
<1>5. LinksIntact'
  <2>1. ASSUME NEW k \in 1..Depth'
        PROVE  /\ mem'[act'[k].base + RET_OFF] = act'[k].site
               /\ k > 1 => mem'[act'[k].base + OBP_OFF] = act'[k - 1].base
    <3>1. k \in 1..Depth /\ act'[k] = act[k]
      BY <1>1
    <3>2. k > 1 => act'[k - 1] = act[k - 1]
      <4>1. k > 1 => k - 1 \in 1..Depth'
        BY <1>1
      <4> QED BY <1>1, <4>1
    <3> QED BY <1>1, <3>1, <3>2, LinkOf
  <2> QED BY <1>1, <1>2, <2>1 DEF LinksIntact, Base
<1>6. FramesLaid'
  BY <1>3 DEF FramesLaid
<1>7. FramesApart'
  BY <1>1 DEF IInv, FramesApart
<1>8. FormalsTaken'
  <2> SUFFICES ASSUME NEW k \in 1..Depth', k < Depth'
               PROVE  Formals(act'[k]) = act'[k].arity
    BY DEF FormalsTaken, Formals
  <2> QED BY <1>1 DEF IInv, FormalsTaken
<1>9. BottomLink'
  <2> SUFFICES ASSUME Running' PROVE mem'[act'[1].base + OBP_OFF] = 0
    BY DEF BottomLink, Base
  <2>1. act'[1] = act[1] /\ mem' = mem /\ Running
    BY <1>1, ReturnFrames
  <2>2. mem[act[1].base + OBP_OFF] = 0
    BY <2>1 DEF IInv, BottomLink, Base
  <2> QED BY <2>1, <2>2
<1>10. ActualsFit'
  <2> SUFFICES ASSUME Running' PROVE bp' + Top'.tof + oon' <= StackTop
    BY DEF ActualsFit
  <2>1. Top' \in Frame /\ Laid(Top') /\ Top'.base \in Int /\ Top'.tof \in Nat
    <3>1. Top' \in Frame /\ Laid(Top')
      BY <1>1, <1>3
    <3> QED BY <3>1, FrameTyped
  <2> QED BY <1>1, <1>2, <2>1 DEF Laid
<1> QED BY <1>4, <1>5, <1>6, <1>7, <1>8, <1>9, <1>10 DEF IInv

(* A step that changes nothing keeps it.                                  *)
LEMMA StepStutter ==
  ASSUME IInv, UNCHANGED vars
  PROVE  IInv'
  BY DEF vars, IInv, TypeOK, LinksIntact, FramesLaid, FramesApart, FormalsTaken, BottomLink,
         ActualsFit, Running, Top, Depth, Size, Laid, Formals, Base

(* Every step keeps it.                                                   *)
LEMMA StepGood ==
  ASSUME IInv, [Next]_vars
  PROVE  IInv'
  BY StepVar, StepFormal, StepRewind, StepAssign, StepActual, StepCall, StepReturn, StepStutter
     DEF Next

-----------------------------------------------------------------------------
(* The frames of the activations follow one another in the stack, each with *)
(* its formals, saved words and locals apart, after any sequence of        *)
(* declarations, stores, calls, returns and jumps back.                    *)
THEOREM Invariance ==
  Spec => []IInv
<1>1. Init => IInv
  BY InitGood
<1>2. IInv /\ [Next]_vars => IInv'
  BY StepGood
<1> QED BY <1>1, <1>2, PTL DEF Spec

(* The words of memory, R_BP and the counters are what they should be.     *)
THEOREM TypeCorrectness ==
  Spec => []TypeOK
<1>1. IInv => TypeOK
  BY DEF IInv
<1> QED BY <1>1, Invariance, PTL

(* No store of a program, to a variable, an argument or through a pointer, *)
(* destroys what a return of any suspended activation needs.               *)
THEOREM LinksSurvive ==
  Spec => []LinksIntact
<1>1. IInv => LinksIntact
  BY DEF IInv
<1> QED BY <1>1, Invariance, PTL

(* No two variables of the activations share a word, and none is on a      *)
(* saved R_BP or return address.                                           *)
THEOREM VariablesApart ==
  Spec => []WordsDisjoint
<1>1. IInv => WordsDisjoint
  BY IInvDisjoint
<1> QED BY <1>1, Invariance, PTL

-----------------------------------------------------------------------------
(***************************************************************************)
(* CallFrame implements CallStack: one array with two saved words per call *)
(* behaves like a stack of activations with variables of their own.        *)
(*                                                                         *)
(* What the view of an activation holds is stated once (ViewGood); then    *)
(* every step is shown to leave the views it should not change alone,      *)
(* because the word it writes is outside of their frames.                  *)
(***************************************************************************)

(* The arguments of activation k no formal has taken yet.                  *)
Left(k) == act[k].arity - Formals(act[k])

(* What the views are made of. *)
ViewGood ==
  /\ StackView \in Seq(Stack!Frames)
  /\ Len(StackView) = Depth
  /\ \A k \in 1..Depth :
       /\ StackView[k].ret = act[k].site
       /\ Len(StackView[k].vals) = Size(act[k])
       /\ \A i \in 1..Size(act[k]) :
            StackView[k].vals[i] = mem[act[k].base + act[k].offs[i]]
       /\ Len(StackView[k].args) = Left(k)
       /\ \A i \in 1..Left(k) :
            StackView[k].args[i] = mem[act[k].base - act[k].arity + i - 1]

PendingGood ==
  /\ PendingView \in Seq(Words)
  /\ Len(PendingView) = oon
  /\ \A i \in 1..oon : PendingView[i] = mem[bp + Top.tof + i - 1]

-----------------------------------------------------------------------------
(* A function from 1..n is a sequence of length n. *)
LEMMA FunctionSeq ==
  ASSUME NEW S, NEW n \in Nat, NEW s \in [1..n -> S]
  PROVE  s \in Seq(S) /\ Len(s) = n
<1>1. s \in Seq(S)
  BY SeqDef
<1>2. DOMAIN s = 1..n /\ DOMAIN s = 1..Len(s) /\ Len(s) \in Nat
  BY <1>1, LenProperties
<1> QED BY <1>1, <1>2

(* Every variable and every argument of an activation is in memory.        *)
LEMMA WordsOfFrame ==
  ASSUME IInv, NEW k \in 1..Depth
  PROVE  /\ Left(k) \in Nat /\ Left(k) <= act[k].arity /\ act[k].arity \in Nat
         /\ act[k].base \in Int
         /\ \A i \in 1..Size(act[k]) :
              /\ act[k].base + act[k].offs[i] \in Addresses
              /\ -act[k].arity <= act[k].offs[i] /\ act[k].offs[i] < act[k].tof
              /\ act[k].offs[i] \in Int
         /\ \A i \in 1..Left(k) :
              /\ act[k].base - act[k].arity + i - 1 \in Addresses
              /\ act[k].base - act[k].arity + i - 1 < act[k].base
              /\ act[k].base - act[k].arity + i - 1 >= act[k].base - act[k].arity
              /\ act[k].base - act[k].arity + i - 1 \in Int
<1>1. act[k] \in Frame /\ Laid(act[k]) /\ STACK <= act[k].base - act[k].arity
  BY ActTyped DEF IInv, FramesLaid
<1>2. /\ act[k].base \in Int /\ act[k].base < StackTop /\ STACK <= act[k].base
      /\ act[k].tof \in Nat /\ act[k].arity \in Nat
      /\ Formals(act[k]) \in Int
  BY <1>1, FrameTyped
<1>3. /\ act[k].base + act[k].tof <= StackTop /\ Formals(act[k]) \in 0..act[k].arity
  BY <1>1 DEF Laid
<1>4. Left(k) \in Nat /\ Left(k) <= act[k].arity
  BY <1>2, <1>3 DEF Left
<1>5. ASSUME NEW i \in 1..Size(act[k])
      PROVE  /\ act[k].base + act[k].offs[i] \in Addresses
             /\ -act[k].arity <= act[k].offs[i] /\ act[k].offs[i] < act[k].tof
             /\ act[k].offs[i] \in Int
  <2>1. /\ act[k].offs[i] \in Int
        /\ -act[k].arity <= act[k].offs[i] /\ act[k].offs[i] < act[k].tof
    BY VariableInFrame
  <2> QED BY <1>1, <1>2, <1>3, <2>1, LayoutAssumption DEF Addresses
<1>6. ASSUME NEW i \in 1..Left(k)
      PROVE  /\ act[k].base - act[k].arity + i - 1 \in Addresses
             /\ act[k].base - act[k].arity + i - 1 < act[k].base
             /\ act[k].base - act[k].arity + i - 1 >= act[k].base - act[k].arity
             /\ act[k].base - act[k].arity + i - 1 \in Int
  <2>1. i \in Int /\ 1 <= i /\ i <= act[k].arity
    BY <1>2, <1>4
  <2> QED BY <1>1, <1>2, <2>1, LayoutAssumption DEF Addresses
<1> QED BY <1>2, <1>4, <1>5, <1>6

(* The view of one activation.                                             *)
LEMMA FrameView ==
  ASSUME IInv, NEW k \in 1..Depth
  PROVE  /\ StackView[k] \in Stack!Frames
         /\ StackView[k].ret = act[k].site
         /\ Len(StackView[k].vals) = Size(act[k])
         /\ \A i \in 1..Size(act[k]) :
              StackView[k].vals[i] = mem[act[k].base + act[k].offs[i]]
         /\ Len(StackView[k].args) = Left(k)
         /\ \A i \in 1..Left(k) :
              StackView[k].args[i] = mem[act[k].base - act[k].arity + i - 1]
<1>1. /\ k \in DOMAIN act /\ act[k] \in Frame
      /\ Size(act[k]) \in Nat /\ DOMAIN act[k].offs = 1..Size(act[k])
      /\ act[k].site \in Sites \cup {Exit}
  <2>1. k \in DOMAIN act /\ act[k] \in Frame
    BY ActSeq DEF IInv
  <2> QED BY <2>1, FrameTyped
<1>2. PICK vals : vals = [i \in DOMAIN act[k].offs |-> mem[WordOf(k, i)]]
  OBVIOUS
<1>3. PICK args : args = [i \in 1..(act[k].arity - Formals(act[k])) |->
                            mem[Base(k) - act[k].arity + i - 1]]
  OBVIOUS
<1>4. StackView[k] = [vals |-> vals, args |-> args, ret |-> act[k].site]
  BY <1>1, <1>2, <1>3 DEF StackView
<1>5. mem \in [Addresses -> Words] /\ Left(k) \in Nat
  BY WordsOfFrame DEF IInv, TypeOK
<1>6. /\ vals \in Seq(Words) /\ Len(vals) = Size(act[k])
      /\ \A i \in 1..Size(act[k]) : vals[i] = mem[act[k].base + act[k].offs[i]]
  <2>1. vals = [i \in 1..Size(act[k]) |-> mem[act[k].base + act[k].offs[i]]]
    BY <1>1, <1>2 DEF WordOf, Base
  <2>2. \A i \in 1..Size(act[k]) : mem[act[k].base + act[k].offs[i]] \in Words
    BY <1>5, WordsOfFrame
  <2>3. vals \in [1..Size(act[k]) -> Words]
    BY <2>1, <2>2
  <2> QED BY <1>1, <2>1, <2>3, FunctionSeq
<1>7. /\ args \in Seq(Words) /\ Len(args) = Left(k)
      /\ \A i \in 1..Left(k) : args[i] = mem[act[k].base - act[k].arity + i - 1]
  <2>1. args = [i \in 1..Left(k) |-> mem[act[k].base - act[k].arity + i - 1]]
    BY <1>3 DEF Left, Base
  <2>2. \A i \in 1..Left(k) : mem[act[k].base - act[k].arity + i - 1] \in Words
    BY <1>5, WordsOfFrame
  <2>3. args \in [1..Left(k) -> Words]
    BY <2>1, <2>2
  <2> QED BY <1>5, <2>1, <2>3, FunctionSeq
<1>8. StackView[k] \in Stack!Frames
  BY <1>1, <1>4, <1>6, <1>7 DEF Stack!Frames
<1> QED BY <1>4, <1>6, <1>7, <1>8

(* The view of every reachable state is a sequence of abstract frames.    *)
LEMMA ViewIsGood ==
  IInv => ViewGood
<1> SUFFICES ASSUME IInv PROVE ViewGood
  OBVIOUS
<1>1. Depth \in Nat /\ DOMAIN act = 1..Depth
  BY ActSeq DEF IInv
<1>2. DOMAIN StackView = 1..Depth
  BY <1>1 DEF StackView
<1>3. \A k \in 1..Depth : StackView[k] \in Stack!Frames
  BY FrameView
<1>4. StackView \in [1..Depth -> Stack!Frames]
  <2>1. StackView = [k \in 1..Depth |-> StackView[k]]
    BY <1>1, <1>2 DEF StackView
  <2> QED BY <1>3, <2>1
<1>5. StackView \in Seq(Stack!Frames) /\ Len(StackView) = Depth
  BY <1>1, <1>4, FunctionSeq
<1> QED BY <1>5, FrameView DEF ViewGood

(* So is the view of the state after a step.                              *)
LEMMA ViewIsGoodNext ==
  IInv' => ViewGood'
  BY ViewIsGood, PTL

(* The arguments being passed are the words past the running frame.       *)
LEMMA PendingIsGood ==
  IInv /\ Running => PendingGood
<1> SUFFICES ASSUME IInv, Running PROVE PendingGood
  OBVIOUS
<1>1. Depth \in 1..Depth /\ Depth \in Nat /\ oon \in Nat /\ mem \in [Addresses -> Words]
  BY ActSeq DEF IInv, TypeOK
<1>2. bp \in Int /\ Top.tof \in Nat /\ bp >= STACK /\ bp + Top.tof + oon <= StackTop
  BY <1>1, TopIsLast, TopGood
<1>3. \A i \in 1..oon : mem[bp + Top.tof + i - 1] \in Words
  <2> SUFFICES ASSUME NEW i \in 1..oon PROVE bp + Top.tof + i - 1 \in Addresses
    BY <1>1
  <2> QED BY <1>1, <1>2, LayoutAssumption DEF Addresses
<1>4. PendingView \in [1..oon -> Words]
  BY <1>3 DEF PendingView
<1>5. \A i \in 1..oon : PendingView[i] = mem[bp + Top.tof + i - 1]
  BY DEF PendingView
<1> QED BY <1>1, <1>4, <1>5, FunctionSeq DEF PendingGood

(* So are those after a step.                                             *)
LEMMA PendingIsGoodNext ==
  IInv' /\ Running' => PendingGood'
  BY PendingIsGood, PTL

-----------------------------------------------------------------------------
(* Sequences: all but the last element. *)
LEMMA FrontOf ==
  ASSUME NEW S, NEW s \in Seq(S), NEW n \in Nat, n >= 1, Len(s) = n
  PROVE  /\ Front(s) \in Seq(S) /\ Len(Front(s)) = n - 1
         /\ \A i \in 1..(n - 1) : Front(s)[i] = s[i]
         /\ Last(s) = s[n] /\ Last(s) \in S
<1>1. \A i \in 1..n : s[i] \in S
  BY ElementOfSeq
<1>2. /\ Front(s) \in Seq(S)
      /\ Len(Front(s)) = IF 1 <= n - 1 THEN n - 1 - 1 + 1 ELSE 0
      /\ \A i \in 1..(n - 1 - 1 + 1) : Front(s)[i] = s[1 + i - 1]
  <2>1. n - 1 \in Int /\ \A i \in 1..(n - 1) : s[i] \in S
    BY <1>1
  <2>2. Front(s) = SubSeq(s, 1, n - 1)
    BY DEF Front
  <2> QED BY <2>1, <2>2, SubSeqProperties
<1>3. n - 1 - 1 + 1 = n - 1 /\ \A i \in 1..(n - 1) : 1 + i - 1 = i
  OBVIOUS
<1>4. Last(s) = s[n] /\ n \in 1..n
  BY DEF Last
<1> QED BY <1>1, <1>2, <1>3, <1>4

(* Two sequences that differ at most in the last element.                  *)
LEMMA LastReplaced ==
  ASSUME NEW S, NEW n \in Nat, n >= 1,
         NEW s \in Seq(S), Len(s) = n, NEW t \in Seq(S), Len(t) = n,
         \A i \in 1..n : i # n => t[i] = s[i]
  PROVE  /\ Front(t) = Front(s)
         /\ Last(t) = t[n] /\ Last(s) = s[n]
         /\ t = Front(s) \o <<t[n]>>
<1>1. /\ Front(s) \in Seq(S) /\ Len(Front(s)) = n - 1
      /\ \A i \in 1..(n - 1) : Front(s)[i] = s[i]
      /\ Last(s) = s[n]
  BY FrontOf
<1>2. /\ Front(t) \in Seq(S) /\ Len(Front(t)) = n - 1
      /\ \A i \in 1..(n - 1) : Front(t)[i] = t[i]
      /\ Last(t) = t[n] /\ Last(t) \in S
  BY FrontOf
<1>3. \A i \in 1..(n - 1) : i \in 1..n /\ i # n
  OBVIOUS
<1>4. Front(t) = Front(s)
  <2>1. \A i \in 1..Len(Front(t)) : Front(t)[i] = Front(s)[i]
    BY <1>1, <1>2, <1>3
  <2> QED BY <1>1, <1>2, <2>1, SeqEqual
<1>5. t = Front(s) \o <<t[n]>>
  <2>1. PICK e : e = t[n]
    OBVIOUS
  <2>2. e \in S /\ <<e>> \in Seq(S) /\ Len(<<e>>) = 1 /\ <<e>>[1] = e
    BY <1>2, <2>1
  <2>3. PICK f : f = Front(s)
    OBVIOUS
  <2>4. PICK u : u = f \o <<e>>
    OBVIOUS
  <2>5. f \in Seq(S) /\ Len(f) = n - 1 /\ \A i \in 1..(n - 1) : f[i] = s[i]
    BY <1>1, <2>3
  <2>6. /\ u \in Seq(S) /\ Len(u) = n - 1 + 1
        /\ \A i \in 1..(n - 1 + 1) : u[i] = IF i <= n - 1 THEN f[i] ELSE <<e>>[i - (n - 1)]
    BY <2>2, <2>4, <2>5, ConcatProperties
  <2>7. ASSUME NEW i \in 1..n PROVE t[i] = u[i]
    <3>1. CASE i = n
      <4>1. ~(i <= n - 1) /\ i - (n - 1) = 1 /\ i \in 1..(n - 1 + 1)
        BY <3>1
      <4>2. u[i] = <<e>>[1]
        BY <2>6, <4>1
      <4> QED BY <2>1, <2>2, <3>1, <4>2
    <3>2. CASE i # n
      <4>1. i \in 1..(n - 1) /\ i <= n - 1 /\ i \in 1..(n - 1 + 1)
        BY <3>2
      <4>2. u[i] = f[i]
        BY <2>6, <4>1
      <4> QED BY <2>5, <3>2, <4>1, <4>2
    <3> QED BY <3>1, <3>2
  <2>8. Len(u) = n
    BY <2>6
  <2>9. t = u
    BY <2>6, <2>7, <2>8, SeqEqual
  <2> QED BY <2>1, <2>3, <2>4, <2>9
<1> QED BY <1>1, <1>2, <1>4, <1>5

(* An abstract frame is its values, its arguments and its return address.  *)
LEMMA FrameEqual ==
  ASSUME NEW f \in Stack!Frames, NEW g \in Stack!Frames,
         f.vals = g.vals, f.args = g.args, f.ret = g.ret
  PROVE  f = g
  BY DEF Stack!Frames

(* An activation none of whose words changes looks the same.               *)
LEMMA SameActivation ==
  ASSUME IInv, IInv', NEW k \in 1..Depth, k \in 1..Depth', act'[k] = act[k],
         \A i \in 1..Size(act[k]) :
           mem'[act[k].base + act[k].offs[i]] = mem[act[k].base + act[k].offs[i]],
         \A i \in 1..Left(k) :
           mem'[act[k].base - act[k].arity + i - 1] = mem[act[k].base - act[k].arity + i - 1]
  PROVE  StackView'[k] = StackView[k]
<1>1. /\ StackView \in Seq(Stack!Frames) /\ Len(StackView) = Depth
      /\ StackView' \in Seq(Stack!Frames) /\ Len(StackView') = Depth'
  BY ViewIsGood, ViewIsGoodNext DEF ViewGood
<1>2. PICK f \in Stack!Frames : f = StackView[k]
  BY <1>1, ElementOfSeq
<1>3. PICK g \in Stack!Frames : g = StackView'[k]
  BY <1>1, ElementOfSeq
<1>4. /\ f.ret = act[k].site
      /\ Len(f.vals) = Size(act[k])
      /\ \A i \in 1..Size(act[k]) : f.vals[i] = mem[act[k].base + act[k].offs[i]]
      /\ Len(f.args) = Left(k)
      /\ \A i \in 1..Left(k) : f.args[i] = mem[act[k].base - act[k].arity + i - 1]
  BY <1>2, ViewIsGood DEF ViewGood
<1>5. /\ g.ret = act[k].site
      /\ Len(g.vals) = Size(act[k])
      /\ \A i \in 1..Size(act[k]) : g.vals[i] = mem'[act[k].base + act[k].offs[i]]
      /\ Len(g.args) = Left(k)
      /\ \A i \in 1..Left(k) : g.args[i] = mem'[act[k].base - act[k].arity + i - 1]
  BY <1>3, ViewIsGoodNext DEF ViewGood, Size, Left, Formals
<1>6. f.vals \in Seq(Words) /\ g.vals \in Seq(Words) /\ f.args \in Seq(Words) /\ g.args \in Seq(Words)
  BY DEF Stack!Frames
<1>7. f.vals = g.vals
  <2>1. \A i \in 1..Len(f.vals) : f.vals[i] = g.vals[i]
    BY <1>4, <1>5
  <2> QED BY <1>4, <1>5, <1>6, <2>1, SeqEqual
<1>8. f.args = g.args
  <2>1. \A i \in 1..Len(f.args) : f.args[i] = g.args[i]
    BY <1>4, <1>5
  <2> QED BY <1>4, <1>5, <1>6, <2>1, SeqEqual
<1> QED BY <1>2, <1>3, <1>4, <1>5, <1>7, <1>8, FrameEqual

-----------------------------------------------------------------------------
(* The views before and after a step that changes the running activation's *)
(* frame and no word.                                                      *)
LEMMA TopReplacedView ==
  ASSUME IInv, IInv', Running, NEW f \in Frame,
         f.base = Top.base, f.arity = Top.arity, f.site = Top.site,
         act' = ReplaceTop(f), mem' = mem
  PROVE  \E F, G \in Stack!Frames :
           /\ StackView # <<>> /\ Len(StackView) = Depth /\ Len(StackView') = Depth
           /\ Last(StackView) = F /\ Last(StackView') = G
           /\ Front(StackView') = Front(StackView)
           /\ StackView' = Front(StackView) \o <<G>>
           /\ F.ret = G.ret
           /\ Len(F.vals) = Size(Top) /\ Len(G.vals) = Size(f)
           /\ \A i \in 1..Size(Top) : F.vals[i] = mem[Top.base + Top.offs[i]]
           /\ \A i \in 1..Size(f) : G.vals[i] = mem[Top.base + f.offs[i]]
           /\ Len(F.args) = Top.arity - Formals(Top) /\ Len(G.args) = Top.arity - Formals(f)
           /\ \A i \in 1..(Top.arity - Formals(Top)) : F.args[i] = mem[Top.base - Top.arity + i - 1]
           /\ \A i \in 1..(Top.arity - Formals(f)) : G.args[i] = mem[Top.base - Top.arity + i - 1]
<1>1. /\ Depth \in 1..Depth /\ Depth \in Nat /\ Depth >= 1 /\ Top = act[Depth] /\ Top \in Frame
      /\ Depth' = Depth /\ act'[Depth] = f
      /\ \A k \in 1..Depth : k # Depth => act'[k] = act[k]
  <2>1. Depth \in 1..Depth /\ Depth \in Nat /\ Top = act[Depth] /\ Top \in Frame
    BY ActSeq DEF IInv
  <2> QED BY <2>1, ReplacedTop DEF IInv
<1>2. /\ StackView \in Seq(Stack!Frames) /\ Len(StackView) = Depth
      /\ StackView' \in Seq(Stack!Frames) /\ Len(StackView') = Depth
  BY <1>1, ViewIsGood, ViewIsGoodNext DEF ViewGood
<1>3. \A k \in 1..Depth : k # Depth => StackView'[k] = StackView[k]
  BY <1>1, SameActivation
<1>4. /\ Front(StackView') = Front(StackView)
      /\ Last(StackView') = StackView'[Depth] /\ Last(StackView) = StackView[Depth]
      /\ StackView' = Front(StackView) \o <<StackView'[Depth]>>
  BY <1>1, <1>2, <1>3, LastReplaced
<1>5. StackView # <<>>
  BY <1>1, <1>2, EmptySeq
<1>6. /\ StackView[Depth] \in Stack!Frames
      /\ StackView[Depth].ret = Top.site
      /\ Len(StackView[Depth].vals) = Size(Top)
      /\ \A i \in 1..Size(Top) : StackView[Depth].vals[i] = mem[Top.base + Top.offs[i]]
      /\ Len(StackView[Depth].args) = Top.arity - Formals(Top)
      /\ \A i \in 1..(Top.arity - Formals(Top)) :
           StackView[Depth].args[i] = mem[Top.base - Top.arity + i - 1]
  BY <1>1, FrameView DEF Left
<1>7. /\ StackView'[Depth].ret = f.site
      /\ Len(StackView'[Depth].vals) = Size(f)
      /\ \A i \in 1..Size(f) : StackView'[Depth].vals[i] = mem[f.base + f.offs[i]]
      /\ Len(StackView'[Depth].args) = f.arity - Formals(f)
      /\ \A i \in 1..(f.arity - Formals(f)) :
           StackView'[Depth].args[i] = mem[f.base - f.arity + i - 1]
  <2>1. PICK G : G = StackView'[Depth]
    OBVIOUS
  <2>2. /\ G.ret = act'[Depth].site
        /\ Len(G.vals) = Size(act'[Depth])
        /\ \A i \in 1..Size(act'[Depth]) : G.vals[i] = mem'[act'[Depth].base + act'[Depth].offs[i]]
        /\ Len(G.args) = act'[Depth].arity - Formals(act'[Depth])
        /\ \A i \in 1..(act'[Depth].arity - Formals(act'[Depth])) :
             G.args[i] = mem'[act'[Depth].base - act'[Depth].arity + i - 1]
    BY <1>1, <2>1, ViewIsGoodNext DEF ViewGood, Size, Left, Formals
  <2> QED BY <1>1, <2>1, <2>2
<1>8. StackView'[Depth] \in Stack!Frames
  BY <1>1, <1>2, ElementOfSeq
<1>9. PICK F, G \in Stack!Frames : F = StackView[Depth] /\ G = StackView'[Depth]
  BY <1>6, <1>8
<1> WITNESS F \in Stack!Frames, G \in Stack!Frames
<1> QED BY <1>2, <1>4, <1>5, <1>6, <1>7, <1>9

(* With no call being prepared nothing is pending.                         *)
LEMMA NothingPending ==
  ASSUME oon = 0, oon' = 0
  PROVE  PendingView' = PendingView
<1>1. PendingView = <<>>
  BY DEF PendingView
<1>2. PendingView' = <<>>
  BY DEF PendingView
<1> QED BY <1>1, <1>2

(* The first elements of a sequence, as a sequence.                       *)
LEMMA PrefixOf ==
  ASSUME NEW S, NEW s \in Seq(S), NEW t \in Seq(S), NEW n \in Nat, Len(t) = n, Len(s) >= n,
         \A i \in 1..n : s[i] = t[i]
  PROVE  SubSeq(s, 1, n) = t
<1>1. PICK u : u = SubSeq(s, 1, n)
  OBVIOUS
<1>2. \A i \in 1..n : s[i] \in S
  BY ElementOfSeq
<1>3. /\ u \in Seq(S) /\ Len(u) = IF 1 <= n THEN n - 1 + 1 ELSE 0
      /\ \A i \in 1..(n - 1 + 1) : u[i] = s[1 + i - 1]
  BY <1>1, <1>2, SubSeqProperties
<1>4. n - 1 + 1 = n /\ (\A i \in 1..n : 1 + i - 1 = i) /\ (~(1 <= n) => n = 0)
  OBVIOUS
<1>5. u = t
  <2>1. Len(u) = n /\ \A i \in 1..n : u[i] = t[i]
    BY <1>3, <1>4
  <2> QED BY <1>3, <2>1, SeqEqual
<1> QED BY <1>1, <1>5

(* A declaration is Declare. *)
LEMMA RefVar ==
  ASSUME IInv, IInv', NEW n \in 1..MaxVars, Var(n)
  PROVE  Stack!Declare /\ StackView # <<>>
<1>1. PICK f \in Frame :
        /\ f.base = Top.base /\ f.arity = Top.arity /\ f.site = Top.site /\ f.oof = Top.oof
        /\ Size(f) = Size(Top) + n
        /\ \A i \in 1..Size(Top) : f.offs[i] = Top.offs[i]
        /\ act' = ReplaceTop(f)
  BY VarFrame
<1>2. Running /\ oon = 0 /\ UNCHANGED <<mem, bp, ip, oon>>
  BY DEF Var
<1>3. Formals(f) = Formals(Top)
  BY <1>1 DEF Formals
<1>4. PICK F, G \in Stack!Frames :
           /\ StackView # <<>> /\ Len(StackView) = Depth /\ Len(StackView') = Depth
           /\ Last(StackView) = F /\ Last(StackView') = G
           /\ Front(StackView') = Front(StackView)
           /\ StackView' = Front(StackView) \o <<G>>
           /\ F.ret = G.ret
           /\ Len(F.vals) = Size(Top) /\ Len(G.vals) = Size(f)
           /\ \A i \in 1..Size(Top) : F.vals[i] = mem[Top.base + Top.offs[i]]
           /\ \A i \in 1..Size(f) : G.vals[i] = mem[Top.base + f.offs[i]]
           /\ Len(F.args) = Top.arity - Formals(Top) /\ Len(G.args) = Top.arity - Formals(f)
           /\ \A i \in 1..(Top.arity - Formals(Top)) : F.args[i] = mem[Top.base - Top.arity + i - 1]
           /\ \A i \in 1..(Top.arity - Formals(f)) : G.args[i] = mem[Top.base - Top.arity + i - 1]
  BY <1>1, <1>2, TopReplacedView
<1>5. /\ F.vals \in Seq(Words) /\ G.vals \in Seq(Words)
      /\ F.args \in Seq(Words) /\ G.args \in Seq(Words)
  BY DEF Stack!Frames
<1>6. Size(Top) \in Nat /\ n \in Nat /\ n >= 1
  BY <1>2, TopGood, FrameTyped
<1>7. Len(G.vals) > Len(F.vals) /\ Len(F.vals) \in Nat
  BY <1>1, <1>4, <1>6
<1>8. SubSeq(G.vals, 1, Len(F.vals)) = F.vals
  <2>1. Len(F.vals) = Size(Top)
    BY <1>4
  <2>2. ASSUME NEW i \in 1..Size(Top) PROVE G.vals[i] = F.vals[i]
    <3>1. f.offs[i] = Top.offs[i] /\ i \in 1..Size(f)
      BY <1>1, <1>6
    <3>2. F.vals[i] = mem[Top.base + Top.offs[i]]
      BY <1>4
    <3>3. G.vals[i] = mem[Top.base + f.offs[i]]
      BY <1>4, <3>1
    <3> QED BY <3>1, <3>2, <3>3
  <2>3. /\ Len(F.vals) \in Nat /\ Len(G.vals) >= Len(F.vals)
        /\ \A i \in 1..Len(F.vals) : G.vals[i] = F.vals[i]
    BY <1>1, <1>4, <1>6, <2>1, <2>2
  <2> QED BY <1>5, <2>3, PrefixOf
<1>9. \A i \in DOMAIN G.vals : G.vals[i] \in Words
  BY <1>5, LenProperties, ElementOfSeq
<1>10. F.args = G.args
  <2>1. Len(F.args) = Len(G.args) /\ \A i \in 1..Len(F.args) : F.args[i] = G.args[i]
    BY <1>3, <1>4
  <2> QED BY <1>5, <2>1, SeqEqual
<1>11. G = [F EXCEPT !.vals = G.vals]
  <2>1. F.ret = G.ret
    BY <1>4
  <2> QED BY <1>10, <2>1 DEF Stack!Frames
<1>12. PendingView' = PendingView /\ ip' = ip
  BY <1>2, NothingPending
<1> QED BY <1>4, <1>7, <1>8, <1>9, <1>11, <1>12 DEF Stack!Declare, Stack!Top, Stack!Last, Stack!Front, Last, Front

(* Taking a formal is Bind: the word it names is the last argument left.   *)
LEMMA RefFormal ==
  ASSUME IInv, IInv', Formal
  PROVE  Stack!Bind /\ StackView # <<>>
<1>1. PICK f \in Frame :
        /\ f.base = Top.base /\ f.arity = Top.arity /\ f.site = Top.site
        /\ f.oof = Top.oof - 1 /\ f.tof = Top.tof
        /\ Size(f) = Size(Top) + 1
        /\ \A i \in 1..Size(Top) : f.offs[i] = Top.offs[i]
        /\ f.offs[Size(Top) + 1] = Top.oof
        /\ Formals(f) = Formals(Top) + 1
        /\ act' = ReplaceTop(f)
  BY FormalFrame
<1>2. Running /\ Formals(Top) < Top.arity /\ UNCHANGED <<mem, bp, ip, oon>>
  BY DEF Formal
<1>3. PICK F, G \in Stack!Frames :
           /\ StackView # <<>> /\ Len(StackView) = Depth /\ Len(StackView') = Depth
           /\ Last(StackView) = F /\ Last(StackView') = G
           /\ Front(StackView') = Front(StackView)
           /\ StackView' = Front(StackView) \o <<G>>
           /\ F.ret = G.ret
           /\ Len(F.vals) = Size(Top) /\ Len(G.vals) = Size(f)
           /\ \A i \in 1..Size(Top) : F.vals[i] = mem[Top.base + Top.offs[i]]
           /\ \A i \in 1..Size(f) : G.vals[i] = mem[Top.base + f.offs[i]]
           /\ Len(F.args) = Top.arity - Formals(Top) /\ Len(G.args) = Top.arity - Formals(f)
           /\ \A i \in 1..(Top.arity - Formals(Top)) : F.args[i] = mem[Top.base - Top.arity + i - 1]
           /\ \A i \in 1..(Top.arity - Formals(f)) : G.args[i] = mem[Top.base - Top.arity + i - 1]
  BY <1>1, <1>2, TopReplacedView
<1>4. /\ F.vals \in Seq(Words) /\ G.vals \in Seq(Words)
      /\ F.args \in Seq(Words) /\ G.args \in Seq(Words)
  BY DEF Stack!Frames
<1>5. /\ Size(Top) \in Nat /\ Top.arity \in Nat /\ Formals(Top) \in Int /\ Top.base \in Int
      /\ Top.oof \in Int /\ Formals(Top) = -1 - Top.oof
  BY <1>2, TopGood, FrameTyped DEF Formals, FORMAL_OFF
<1>6. PICK m \in Nat : m = Top.arity - Formals(Top) /\ m >= 1 /\ Top.arity - Formals(f) = m - 1
  <2>1. /\ Top.arity - Formals(Top) \in Nat /\ Top.arity - Formals(Top) >= 1
        /\ Top.arity - Formals(f) = Top.arity - Formals(Top) - 1
    BY <1>1, <1>2, <1>5
  <2> QED BY <2>1
<1>7. Len(F.args) = m /\ Len(G.args) = m - 1 /\ Len(F.vals) = Size(Top) /\ Len(G.vals) = Size(Top) + 1
  BY <1>1, <1>3, <1>6
<1>8. /\ Front(F.args) \in Seq(Words) /\ Len(Front(F.args)) = m - 1
      /\ \A i \in 1..(m - 1) : Front(F.args)[i] = F.args[i]
      /\ Last(F.args) = F.args[m] /\ Last(F.args) \in Words
  BY <1>4, <1>6, <1>7, FrontOf
<1>9. F.args # <<>>
  BY <1>4, <1>6, <1>7, EmptySeq
<1>10. G.args = Front(F.args)
  <2>1. ASSUME NEW i \in 1..(m - 1) PROVE G.args[i] = Front(F.args)[i]
    <3>1. i \in 1..m
      BY <1>6
    <3>2. F.args[i] = mem[Top.base - Top.arity + i - 1]
      BY <1>3, <1>6, <3>1
    <3>3. G.args[i] = mem[Top.base - Top.arity + i - 1]
      BY <1>3, <1>6
    <3> QED BY <1>8, <3>2, <3>3
  <2> QED BY <1>4, <1>7, <1>8, <2>1, SeqEqual
<1>11. Last(F.args) = G.vals[Size(Top) + 1]
  <2>1. m \in 1..(Top.arity - Formals(Top)) /\ Size(Top) + 1 \in 1..Size(f)
    BY <1>1, <1>5, <1>6
  <2>2. F.args[m] = mem[Top.base - Top.arity + m - 1]
    BY <1>3, <2>1
  <2>3. G.vals[Size(Top) + 1] = mem[Top.base + Top.oof]
    BY <1>1, <1>3, <2>1
  <2>4. Top.base - Top.arity + m - 1 = Top.base + Top.oof
    BY <1>5, <1>6
  <2> QED BY <1>8, <2>2, <2>3, <2>4
<1>12. G.vals = Append(F.vals, Last(F.args))
  <2>1. PICK e \in Words : e = Last(F.args)
    BY <1>8
  <2>2. PICK u : u = Append(F.vals, e)
    OBVIOUS
  <2>3. /\ u \in Seq(Words) /\ Len(u) = Size(Top) + 1
        /\ \A i \in 1..Size(Top) : u[i] = F.vals[i]
        /\ u[Size(Top) + 1] = e
    BY <1>4, <1>7, <2>2, AppendProperties
  <2>4. ASSUME NEW i \in 1..(Size(Top) + 1) PROVE G.vals[i] = u[i]
    <3>1. CASE i = Size(Top) + 1
      BY <1>11, <2>1, <2>3, <3>1
    <3>2. CASE i # Size(Top) + 1
      <4>1. i \in 1..Size(Top) /\ i \in 1..Size(f)
        BY <1>1, <1>5, <3>2
      <4>2. F.vals[i] = mem[Top.base + Top.offs[i]]
        BY <1>3, <4>1
      <4>3. G.vals[i] = mem[Top.base + f.offs[i]] /\ f.offs[i] = Top.offs[i]
        BY <1>1, <1>3, <4>1
      <4> QED BY <2>3, <4>1, <4>2, <4>3
    <3> QED BY <3>1, <3>2
  <2>5. G.vals = u
    BY <1>4, <1>7, <2>3, <2>4, SeqEqual
  <2> QED BY <2>1, <2>2, <2>5
<1>13. G = [F EXCEPT !.vals = Append(F.vals, Last(F.args)), !.args = Front(F.args)]
  <2>1. F.ret = G.ret
    BY <1>3
  <2>2. G = [F EXCEPT !.vals = G.vals, !.args = G.args]
    BY <2>1 DEF Stack!Frames
  <2> QED BY <1>10, <1>12, <2>2
<1>14. PendingView' = PendingView
  <2>1. Top' = f
    BY <1>1, <1>2, ReplacedTop DEF IInv
  <2> QED BY <1>1, <1>2, <2>1 DEF PendingView
<1>15. StackView' = Front(StackView) \o
          <<[Last(StackView) EXCEPT !.vals = Append(@, Last(Last(StackView).args)), !.args = Front(@)]>>
  BY <1>3, <1>13
<1> QED BY <1>2, <1>3, <1>9, <1>14, <1>15 DEF Stack!Bind, Stack!Top, Stack!Last, Stack!Front, Last, Front

(* A jump back is Forget. *)
LEMMA RefRewind ==
  ASSUME IInv, IInv', NEW n \in 0..MaxVars, Rewind(n)
  PROVE  /\ n \in 0..Len(Stack!Top.vals) /\ Stack!Forget(n) /\ StackView # <<>>
<1>1. PICK f \in Frame :
        /\ f.base = Top.base /\ f.arity = Top.arity /\ f.site = Top.site /\ f.oof = Top.oof
        /\ n \in 0..Size(Top)
        /\ Size(f) = n
        /\ \A i \in 1..n : f.offs[i] = Top.offs[i]
        /\ act' = ReplaceTop(f)
  BY RewindFrame
<1>2. Running /\ oon = 0 /\ UNCHANGED <<mem, bp, ip, oon>>
  BY DEF Rewind
<1>3. Formals(f) = Formals(Top)
  BY <1>1 DEF Formals
<1>4. PICK F, G \in Stack!Frames :
           /\ StackView # <<>> /\ Len(StackView) = Depth /\ Len(StackView') = Depth
           /\ Last(StackView) = F /\ Last(StackView') = G
           /\ Front(StackView') = Front(StackView)
           /\ StackView' = Front(StackView) \o <<G>>
           /\ F.ret = G.ret
           /\ Len(F.vals) = Size(Top) /\ Len(G.vals) = Size(f)
           /\ \A i \in 1..Size(Top) : F.vals[i] = mem[Top.base + Top.offs[i]]
           /\ \A i \in 1..Size(f) : G.vals[i] = mem[Top.base + f.offs[i]]
           /\ Len(F.args) = Top.arity - Formals(Top) /\ Len(G.args) = Top.arity - Formals(f)
           /\ \A i \in 1..(Top.arity - Formals(Top)) : F.args[i] = mem[Top.base - Top.arity + i - 1]
           /\ \A i \in 1..(Top.arity - Formals(f)) : G.args[i] = mem[Top.base - Top.arity + i - 1]
  BY <1>1, <1>2, TopReplacedView
<1>5. /\ F.vals \in Seq(Words) /\ G.vals \in Seq(Words)
      /\ F.args \in Seq(Words) /\ G.args \in Seq(Words)
  BY DEF Stack!Frames
<1>6. Size(Top) \in Nat /\ n \in Nat /\ n <= Size(Top)
  BY <1>1, <1>2, TopGood, FrameTyped
<1>7. SubSeq(F.vals, 1, n) = G.vals
  <2>1. Len(F.vals) = Size(Top) /\ Len(G.vals) = n
    BY <1>1, <1>4
  <2>2. ASSUME NEW i \in 1..n PROVE F.vals[i] = G.vals[i]
    <3>1. f.offs[i] = Top.offs[i] /\ i \in 1..Size(f) /\ i \in 1..Size(Top)
      BY <1>1, <1>6
    <3>2. F.vals[i] = mem[Top.base + Top.offs[i]]
      BY <1>4, <3>1
    <3>3. G.vals[i] = mem[Top.base + f.offs[i]]
      BY <1>4, <3>1
    <3> QED BY <3>1, <3>2, <3>3
  <2> QED BY <1>5, <1>6, <2>1, <2>2, PrefixOf
<1>8. F.args = G.args
  <2>1. Len(F.args) = Len(G.args) /\ \A i \in 1..Len(F.args) : F.args[i] = G.args[i]
    BY <1>3, <1>4
  <2> QED BY <1>5, <2>1, SeqEqual
<1>9. G = [F EXCEPT !.vals = SubSeq(F.vals, 1, n)]
  <2>1. F.ret = G.ret
    BY <1>4
  <2>2. G = [F EXCEPT !.vals = G.vals]
    BY <1>8, <2>1 DEF Stack!Frames
  <2> QED BY <1>7, <2>2
<1>10. PendingView' = PendingView /\ ip' = ip
  BY <1>2, NothingPending
<1>11. n \in 0..Len(F.vals)
  BY <1>1, <1>4
<1> QED BY <1>4, <1>9, <1>10, <1>11 DEF Stack!Forget, Stack!Top, Stack!Last, Stack!Front, Last, Front

(* While the running activation has no formal to take, no activation has.  *)
LEMMA NothingLeft ==
  ASSUME IInv, Running, Formals(Top) = Top.arity, NEW l \in 1..Depth
  PROVE  Left(l) = 0
<1>1. /\ Depth \in Nat /\ Top = act[Depth]
      /\ act[l].arity \in Nat /\ Left(l) = act[l].arity - Formals(act[l])
  BY ActSeq, ActTyped DEF IInv, Left
<1>2. Formals(act[l]) = act[l].arity
  <2>1. CASE l = Depth
    BY <1>1, <2>1
  <2>2. CASE l # Depth
    BY <1>1, <2>2 DEF IInv, FormalsTaken
  <2> QED BY <2>1, <2>2
<1> QED BY <1>1, <1>2

(* Different offsets from one base are different addresses.               *)
LEMMA PlusInjective ==
  ASSUME NEW a \in Int, NEW x \in Int, NEW y \in Int, x # y
  PROVE  a + x # a + y
  OBVIOUS

(* A store to a variable is Set of that variable. *)
LEMMA RefAssign ==
  ASSUME IInv, IInv', NEW k \in DOMAIN act, NEW v \in Value, NEW i \in DOMAIN act[k].offs,
         Assign(k, i, v)
  PROVE  /\ k \in DOMAIN StackView /\ i \in DOMAIN StackView[k].vals
         /\ Stack!Set(k, i) /\ StackView # <<>>
<1>1. k \in 1..Depth /\ act[k] \in Frame /\ i \in 1..Size(act[k]) /\ Depth \in Nat /\ Depth >= 1
  <2>1. k \in 1..Depth /\ act[k] \in Frame /\ Depth \in Nat
    BY ActSeq DEF IInv
  <2> QED BY <2>1, FrameTyped
<1>2. PICK w : w = act[k].base + act[k].offs[i]
  OBVIOUS
<1>3. /\ Running /\ Formals(Top) = Top.arity /\ mem' = [mem EXCEPT ![w] = v]
      /\ UNCHANGED <<bp, ip, oon, act>> /\ v \in Words
  <2>1. (IF k = Len(act) THEN bp ELSE act[k].base) = act[k].base
    BY TopGood DEF Assign, Top
  <2> QED BY <1>2, <2>1 DEF Assign, Words
<1>4. /\ w \in Addresses
      /\ \A u \in Addresses : mem'[u] = IF u = w THEN v ELSE mem[u]
  <2>1. w \in Addresses
    BY <1>1, <1>2, WordsOfFrame
  <2>2. mem \in [Addresses -> Words]
    BY DEF IInv, TypeOK
  <2> QED BY <1>3, <2>1, <2>2, OneWritten
<1>5. /\ StackView \in Seq(Stack!Frames) /\ Len(StackView) = Depth
      /\ StackView' \in Seq(Stack!Frames) /\ Len(StackView') = Depth
  BY <1>3, ViewIsGood, ViewIsGoodNext DEF ViewGood, Depth
<1>6. ASSUME NEW l \in 1..Depth, l # k
      PROVE  StackView'[l] = StackView[l]
  <2>1. \A j \in 1..Size(act[l]) : mem'[act[l].base + act[l].offs[j]] = mem[act[l].base + act[l].offs[j]]
    <3> SUFFICES ASSUME NEW j \in 1..Size(act[l])
                 PROVE  mem'[act[l].base + act[l].offs[j]] = mem[act[l].base + act[l].offs[j]]
      OBVIOUS
    <3>1. /\ act[l].base + act[l].offs[j] \in Addresses
          /\ act[l].offs[j] \in Int /\ -act[l].arity <= act[l].offs[j] /\ act[l].offs[j] < act[l].tof
      BY WordsOfFrame
    <3>2. /\ act[k].offs[i] \in Int /\ -act[k].arity <= act[k].offs[i] /\ act[k].offs[i] < act[k].tof
      BY <1>1, WordsOfFrame
    <3>3. Base(l) + act[l].offs[j] # Base(k) + act[k].offs[i]
      BY <1>1, <1>6, <3>1, <3>2, FramesDisjoint
    <3> QED BY <1>2, <1>4, <3>1, <3>3 DEF Base
  <2>2. \A j \in 1..Left(l) :
          mem'[act[l].base - act[l].arity + j - 1] = mem[act[l].base - act[l].arity + j - 1]
    BY <1>3, NothingLeft
  <2>3. l \in 1..Depth' /\ act'[l] = act[l]
    BY <1>3 DEF Depth
  <2> QED BY <2>1, <2>2, <2>3, SameActivation
<1>7. PICK F \in Stack!Frames : F = StackView[k]
  BY <1>1, <1>5, ElementOfSeq
<1>8. PICK G \in Stack!Frames : G = StackView'[k]
  BY <1>1, <1>5, ElementOfSeq
<1>9. /\ F.vals \in Seq(Words) /\ G.vals \in Seq(Words)
      /\ F.args \in Seq(Words) /\ G.args \in Seq(Words)
  BY DEF Stack!Frames
<1>10. /\ F.ret = act[k].site
       /\ Len(F.vals) = Size(act[k]) /\ Len(F.args) = 0
       /\ \A j \in 1..Size(act[k]) : F.vals[j] = mem[act[k].base + act[k].offs[j]]
  BY <1>1, <1>3, <1>7, FrameView, NothingLeft
<1>11. /\ G.ret = act[k].site
       /\ Len(G.vals) = Size(act[k]) /\ Len(G.args) = 0
       /\ \A j \in 1..Size(act[k]) : G.vals[j] = mem'[act[k].base + act[k].offs[j]]
  <2>1. k \in 1..Depth' /\ act'[k] = act[k] /\ Left(k) = 0
    BY <1>1, <1>3, NothingLeft DEF Depth
  <2>2. Left(k)' = Left(k)
    BY <2>1 DEF Left, Formals
  <2>3. /\ G.ret = act'[k].site
        /\ Len(G.vals) = Size(act'[k]) /\ Len(G.args) = Left(k)'
        /\ \A j \in 1..Size(act'[k]) : G.vals[j] = mem'[act'[k].base + act'[k].offs[j]]
    BY <1>8, <2>1, ViewIsGoodNext DEF ViewGood, Size
  <2> QED BY <2>1, <2>2, <2>3
<1>12. F.args = G.args
  <2>1. \A j \in 1..Len(F.args) : F.args[j] = G.args[j]
    BY <1>10
  <2> QED BY <1>9, <1>10, <1>11, <2>1, SeqEqual
<1>13. G.vals[i] = v /\ i \in 1..Len(G.vals) /\ i \in 1..Len(F.vals)
  BY <1>1, <1>2, <1>4, <1>10, <1>11
<1>14. G.vals = [F.vals EXCEPT ![i] = v]
  <2>1. PICK u : u = [F.vals EXCEPT ![i] = v]
    OBVIOUS
  <2>2. /\ u \in Seq(Words) /\ Len(u) = Len(F.vals)
        /\ \A j \in 1..Len(F.vals) : u[j] = IF j = i THEN v ELSE F.vals[j]
    BY <1>3, <1>9, <1>13, <2>1, ExceptSeq
  <2>3. ASSUME NEW j \in 1..Size(act[k]) PROVE G.vals[j] = u[j]
    <3>1. CASE j = i
      BY <1>10, <1>13, <2>2, <3>1
    <3>2. CASE j # i
      <4>1. act[k].offs[j] # act[k].offs[i]
        BY <1>1, <3>2, VariableInFrame
      <4>2. /\ act[k].base + act[k].offs[j] \in Addresses
            /\ act[k].base + act[k].offs[j] # w
        <5>1. /\ act[k].base \in Int /\ act[k].offs[j] \in Int /\ act[k].offs[i] \in Int
              /\ act[k].base + act[k].offs[j] \in Addresses
          BY <1>1, WordsOfFrame
        <5>2. act[k].base + act[k].offs[j] # act[k].base + act[k].offs[i]
          BY <4>1, <5>1, PlusInjective
        <5> QED BY <1>2, <5>1, <5>2
      <4>3. u[j] = F.vals[j]
        BY <1>10, <2>2, <3>2
      <4>4. mem'[act[k].base + act[k].offs[j]] = mem[act[k].base + act[k].offs[j]]
        BY <1>4, <4>2
      <4>5. /\ F.vals[j] = mem[act[k].base + act[k].offs[j]]
            /\ G.vals[j] = mem'[act[k].base + act[k].offs[j]]
        BY <1>10, <1>11
      <4> QED BY <4>3, <4>4, <4>5
    <3> QED BY <3>1, <3>2
  <2>4. Len(G.vals) = Len(u) /\ \A j \in 1..Len(G.vals) : G.vals[j] = u[j]
    BY <1>10, <1>11, <2>2, <2>3
  <2>5. G.vals = u
    BY <1>9, <2>2, <2>4, SeqEqual
  <2> QED BY <2>1, <2>5
<1>15. G = [F EXCEPT !.vals[i] = v]
  <2>1. F.ret = G.ret
    BY <1>10, <1>11
  <2>2. G = [F EXCEPT !.vals = G.vals]
    BY <1>12, <2>1 DEF Stack!Frames
  <2> QED BY <1>14, <2>2
<1>16. StackView' = [StackView EXCEPT ![k] = G]
  <2>1. PICK U : U = [StackView EXCEPT ![k] = G]
    OBVIOUS
  <2>2. /\ U \in Seq(Stack!Frames) /\ Len(U) = Len(StackView)
        /\ \A l \in 1..Len(StackView) : U[l] = IF l = k THEN G ELSE StackView[l]
    BY <1>1, <1>5, <2>1, ExceptSeq
  <2>3. \A l \in 1..Depth : StackView'[l] = U[l]
    BY <1>5, <1>6, <1>8, <2>2
  <2> QED BY <1>5, <2>1, <2>2, <2>3, SeqEqual
<1>17. StackView' = [StackView EXCEPT ![k].vals[i] = v]
  BY <1>7, <1>15, <1>16
<1>18. PendingView' = PendingView
  <2>1. ASSUME NEW j \in 1..oon
        PROVE  mem'[bp + Top.tof + j - 1] = mem[bp + Top.tof + j - 1]
    <3>1. /\ act[k].base + act[k].tof <= bp + Top.tof
          /\ bp \in Int /\ Top.tof \in Nat /\ bp >= STACK /\ bp + Top.tof + oon <= StackTop
          /\ act[k].base \in Int /\ act[k].tof \in Nat /\ oon \in Nat
      BY <1>1, <1>3, TopIsLast, TopGood, ActTyped DEF IInv, TypeOK
    <3>2. w < act[k].base + act[k].tof /\ w \in Int
      <4>1. act[k].offs[i] < act[k].tof /\ act[k].offs[i] \in Int
        BY <1>1, WordsOfFrame
      <4> QED BY <1>2, <3>1, <4>1
    <3>3. bp + Top.tof + j - 1 # w /\ bp + Top.tof + j - 1 \in Addresses
      BY <3>1, <3>2, LayoutAssumption DEF Addresses
    <3> QED BY <1>4, <3>3
  <2>2. Top' = Top
    BY <1>3 DEF Top
  <2> QED BY <1>3, <2>1, <2>2 DEF PendingView
<1>19. /\ k \in DOMAIN StackView /\ i \in DOMAIN StackView[k].vals /\ i \in DOMAIN StackView'[k].vals
       /\ StackView # <<>>
  <2>1. k \in DOMAIN StackView /\ i \in DOMAIN F.vals /\ i \in DOMAIN G.vals
    BY <1>1, <1>5, <1>9, <1>13, LenProperties
  <2>2. StackView # <<>>
    BY <1>1, <1>5, EmptySeq
  <2> QED BY <1>7, <1>8, <2>1, <2>2
<1>20. Len(StackView') = Len(StackView) /\ v \in {StackView'[k].vals[i]} \cap Words
  BY <1>3, <1>5, <1>8, <1>13
<1> QED BY <1>3, <1>17, <1>18, <1>19, <1>20 DEF Stack!Set

(* Passing an argument is Actual: it is written past every frame.          *)
LEMMA RefActual ==
  ASSUME IInv, IInv', NEW v \in Value, Actual(v)
  PROVE  Stack!Actual(v) /\ v \in Words /\ StackView # <<>>
<1>1. PICK w : w = bp + Top.tof + oon
  OBVIOUS
<1>2. /\ Running /\ Formals(Top) = Top.arity /\ mem' = [mem EXCEPT ![w] = v]
      /\ oon' = oon + 1 /\ w < StackTop
      /\ UNCHANGED <<bp, ip, act>> /\ v \in Words
  BY <1>1 DEF Actual, Words
<1>3. /\ Depth \in 1..Depth /\ Depth \in Nat /\ oon \in Nat
      /\ bp \in Int /\ Top.tof \in Nat /\ bp >= STACK /\ w \in Int
      /\ mem \in [Addresses -> Words]
  <2>1. Depth \in 1..Depth /\ Depth \in Nat /\ oon \in Nat /\ mem \in [Addresses -> Words]
    BY <1>2, ActSeq DEF IInv, TypeOK
  <2> QED BY <1>1, <1>2, <2>1, TopIsLast
<1>4. /\ w \in Addresses
      /\ \A u \in Addresses : mem'[u] = IF u = w THEN v ELSE mem[u]
  <2>1. w \in Addresses
    BY <1>1, <1>2, <1>3, LayoutAssumption DEF Addresses
  <2> QED BY <1>2, <1>3, <2>1, OneWritten
<1>5. /\ StackView \in Seq(Stack!Frames) /\ Len(StackView) = Depth
      /\ StackView' \in Seq(Stack!Frames) /\ Len(StackView') = Depth
  BY <1>2, ViewIsGood, ViewIsGoodNext DEF ViewGood, Depth
<1>6. ASSUME NEW l \in 1..Depth
      PROVE  StackView'[l] = StackView[l]
  <2>1. ASSUME NEW j \in 1..Size(act[l])
        PROVE  mem'[act[l].base + act[l].offs[j]] = mem[act[l].base + act[l].offs[j]]
    <3>1. /\ act[l].base + act[l].offs[j] \in Addresses
          /\ act[l].offs[j] \in Int /\ act[l].offs[j] < act[l].tof
      BY WordsOfFrame
    <3>2. /\ act[l].base \in Int /\ act[l].tof \in Nat
          /\ act[l].base + act[l].tof <= bp + Top.tof
      BY <1>2, ActTyped, TopIsLast DEF IInv
    <3>3. act[l].base + act[l].offs[j] # w
      <4> HIDE <1>1
      <4> QED BY <1>1, <1>3, <3>1, <3>2
    <3> QED BY <1>4, <3>1, <3>3
  <2>2. \A j \in 1..Left(l) :
          mem'[act[l].base - act[l].arity + j - 1] = mem[act[l].base - act[l].arity + j - 1]
    BY <1>2, NothingLeft
  <2>3. l \in 1..Depth' /\ act'[l] = act[l]
    BY <1>2 DEF Depth
  <2> QED BY <2>1, <2>2, <2>3, SameActivation
<1>7. StackView' = StackView /\ StackView # <<>>
  <2>1. StackView # <<>>
    BY <1>3, <1>5, EmptySeq
  <2> QED BY <1>5, <1>6, <2>1, SeqEqual
<1>8. PICK P, Q : P = PendingView /\ Q = PendingView'
  OBVIOUS
<1>9. /\ P \in Seq(Words) /\ Len(P) = oon
      /\ \A i \in 1..oon : P[i] = mem[bp + Top.tof + i - 1]
  BY <1>2, <1>8, PendingIsGood DEF PendingGood
<1>10. /\ Q \in Seq(Words) /\ Len(Q) = oon + 1
       /\ \A i \in 1..(oon + 1) : Q[i] = mem'[bp + Top.tof + i - 1]
  <2>1. Running' /\ Top' = Top
    BY <1>2 DEF Running, Top
  <2> QED BY <1>2, <1>8, <2>1, PendingIsGoodNext DEF PendingGood
<1>11. Q = Append(P, v)
  <2>1. PICK u : u = Append(P, v)
    OBVIOUS
  <2>2. /\ u \in Seq(Words) /\ Len(u) = oon + 1
        /\ \A i \in 1..oon : u[i] = P[i]
        /\ u[oon + 1] = v
    BY <1>2, <1>9, <2>1, AppendProperties
  <2>3. ASSUME NEW i \in 1..(oon + 1) PROVE Q[i] = u[i]
    <3>1. CASE i = oon + 1
      <4>1. bp + Top.tof + i - 1 = w
        BY <1>1, <1>3, <3>1
      <4> QED BY <1>4, <1>10, <2>2, <3>1, <4>1
    <3>2. CASE i # oon + 1
      <4>1. i \in 1..oon
        BY <1>3, <3>2
      <4>2. bp + Top.tof + i - 1 # w /\ bp + Top.tof + i - 1 \in Addresses
        BY <1>1, <1>2, <1>3, <4>1, LayoutAssumption DEF Addresses
      <4>3. mem'[bp + Top.tof + i - 1] = mem[bp + Top.tof + i - 1]
        BY <1>4, <4>2
      <4>4. P[i] = mem[bp + Top.tof + i - 1] /\ u[i] = P[i]
        BY <1>9, <2>2, <4>1
      <4> QED BY <1>10, <4>3, <4>4
    <3> QED BY <3>1, <3>2
  <2>4. Len(Q) = Len(u) /\ \A i \in 1..Len(Q) : Q[i] = u[i]
    BY <1>10, <2>2, <2>3
  <2>5. Q = u
    BY <1>10, <2>2, <2>4, SeqEqual
  <2> QED BY <2>1, <2>5
<1> QED BY <1>2, <1>7, <1>8, <1>11 DEF Stack!Actual

(* A return is Return. *)
LEMMA RefReturn ==
  ASSUME IInv, IInv', Return
  PROVE  Stack!Return /\ StackView # <<>>
<1>1. /\ Running /\ oon = 0 /\ UNCHANGED <<mem, oon>>
      /\ Depth \in Nat /\ Depth >= 1 /\ Depth \in 1..Depth /\ Top = act[Depth]
      /\ Depth' = Depth - 1
      /\ \A k \in 1..Depth' : k \in 1..Depth /\ k < Depth /\ act'[k] = act[k]
      /\ ip' = Top.site
  BY ReturnFrames
<1>2. /\ StackView \in Seq(Stack!Frames) /\ Len(StackView) = Depth
      /\ StackView' \in Seq(Stack!Frames) /\ Len(StackView') = Depth - 1
  BY <1>1, ViewIsGood, ViewIsGoodNext DEF ViewGood
<1>3. \A k \in 1..(Depth - 1) : StackView'[k] = StackView[k]
  BY <1>1, SameActivation
<1>4. /\ Front(StackView) \in Seq(Stack!Frames) /\ Len(Front(StackView)) = Depth - 1
      /\ \A k \in 1..(Depth - 1) : Front(StackView)[k] = StackView[k]
      /\ Last(StackView) = StackView[Depth]
  BY <1>1, <1>2, FrontOf
<1>5. StackView' = Front(StackView)
  <2>1. \A k \in 1..Len(StackView') : StackView'[k] = Front(StackView)[k]
    BY <1>2, <1>3, <1>4
  <2> QED BY <1>2, <1>4, <2>1, SeqEqual
<1>6. ip' = Last(StackView).ret
  BY <1>1, <1>4, FrameView
<1>7. StackView # <<>>
  BY <1>1, <1>2, EmptySeq
<1>8. PendingView' = PendingView
  BY <1>1, NothingPending
<1> QED BY <1>5, <1>6, <1>7, <1>8 DEF Stack!Return, Stack!Top, Stack!Last, Stack!Front, Last, Front

(* A call is Call: what is pending becomes the callee's arguments.         *)
LEMMA RefCall ==
  ASSUME IInv, IInv', NEW s \in Sites, Call(s)
  PROVE  Stack!Call(s) /\ StackView # <<>>
<1>1. PICK f \in Frame :
           /\ f.base = bp + Top.tof + oon /\ f.arity = oon /\ f.site = s /\ f.tof = LOCAL_OFF
           /\ Formals(f) = 0 /\ Size(f) = 0
           /\ mem' = [mem EXCEPT ![f.base + OBP_OFF] = bp, ![f.base + RET_OFF] = s]
           /\ f.base + LOCAL_OFF <= StackTop
           /\ Depth' = Depth + 1
           /\ \A k \in 1..Depth : act'[k] = act[k]
           /\ act'[Depth + 1] = f
  BY CallFrames
<1>2. /\ Running /\ Formals(Top) = Top.arity /\ ip' = "callee" /\ oon' = 0
      /\ Depth \in 1..Depth /\ Depth \in Nat /\ oon \in Nat
      /\ bp \in Int /\ Top.tof \in Nat /\ bp >= STACK
      /\ mem \in [Addresses -> Words]
  <2>1. Running /\ Formals(Top) = Top.arity /\ ip' = "callee" /\ oon' = 0
    BY DEF Call
  <2>2. Depth \in 1..Depth /\ Depth \in Nat /\ oon \in Nat /\ mem \in [Addresses -> Words]
    BY <2>1, ActSeq DEF IInv, TypeOK
  <2> QED BY <2>1, <2>2, TopIsLast
<1>3. /\ f.base = bp + Top.tof + oon /\ f.base \in Int /\ oon \in Nat
      /\ f.base + OBP_OFF \in Addresses /\ f.base + RET_OFF \in Addresses
      /\ f.base + OBP_OFF # f.base + RET_OFF
      /\ bp \in Int /\ Top.tof \in Nat /\ bp >= STACK /\ f.base + LOCAL_OFF <= StackTop
  <2>1. /\ f.base = bp + Top.tof + oon /\ f.base + LOCAL_OFF <= StackTop
        /\ oon \in Nat /\ bp \in Int /\ bp >= STACK /\ Top.tof \in Nat
    BY <1>1, <1>2
  <2> QED BY <2>1, LayoutAssumption DEF Addresses, OBP_OFF, RET_OFF, LOCAL_OFF
<1>4. \A u \in Addresses : u < f.base => mem'[u] = mem[u]
  <2>1. mem' = [mem EXCEPT ![f.base + OBP_OFF] = bp, ![f.base + RET_OFF] = s]
    BY <1>1
  <2>2. \A u \in Addresses : u # f.base + OBP_OFF /\ u # f.base + RET_OFF => mem'[u] = mem[u]
    BY <1>2, <1>3, <2>1, TwoWritten
  <2>3. \A u \in Addresses : u < f.base => u # f.base + OBP_OFF /\ u # f.base + RET_OFF
    BY <1>3 DEF Addresses, OBP_OFF, RET_OFF
  <2> QED BY <2>2, <2>3
<1>5. /\ StackView \in Seq(Stack!Frames) /\ Len(StackView) = Depth
      /\ StackView' \in Seq(Stack!Frames) /\ Len(StackView') = Depth + 1
  BY <1>1, ViewIsGood, ViewIsGoodNext DEF ViewGood
<1>6. ASSUME NEW l \in 1..Depth
      PROVE  StackView'[l] = StackView[l]
  <2>1. ASSUME NEW j \in 1..Size(act[l])
        PROVE  mem'[act[l].base + act[l].offs[j]] = mem[act[l].base + act[l].offs[j]]
    <3>1. /\ act[l].base + act[l].offs[j] \in Addresses
          /\ act[l].offs[j] \in Int /\ act[l].offs[j] < act[l].tof
      BY WordsOfFrame
    <3>2. /\ act[l].base \in Int /\ act[l].tof \in Nat
          /\ act[l].base + act[l].tof <= bp + Top.tof
      BY <1>2, ActTyped, TopIsLast DEF IInv
    <3>3. act[l].base + act[l].offs[j] < f.base
      BY <1>3, <3>1, <3>2
    <3> QED BY <1>4, <3>1, <3>3
  <2>2. \A j \in 1..Left(l) :
          mem'[act[l].base - act[l].arity + j - 1] = mem[act[l].base - act[l].arity + j - 1]
    BY <1>2, NothingLeft
  <2>3. l \in 1..Depth' /\ act'[l] = act[l]
    BY <1>1, <1>2
  <2> QED BY <2>1, <2>2, <2>3, SameActivation
<1>7. PICK P \in Seq(Words) : P = PendingView
  BY <1>2, PendingIsGood DEF PendingGood
<1>8. /\ Len(P) = oon
      /\ \A i \in 1..oon : P[i] = mem[bp + Top.tof + i - 1]
  BY <1>2, <1>7, PendingIsGood DEF PendingGood
<1>9. PICK G \in Stack!Frames : G = StackView'[Depth + 1]
  <2>1. Depth + 1 \in 1..Len(StackView')
    BY <1>2, <1>5
  <2> QED BY <1>5, <2>1, ElementOfSeq
<1>10. /\ G.ret = s /\ Len(G.vals) = 0 /\ Len(G.args) = oon
       /\ \A i \in 1..oon : G.args[i] = mem'[f.base - oon + i - 1]
  <2>1. Depth + 1 \in 1..Depth'
    BY <1>1, <1>2
  <2>2. /\ G.ret = act'[Depth + 1].site
        /\ Len(G.vals) = Size(act'[Depth + 1])
        /\ Len(G.args) = act'[Depth + 1].arity - Formals(act'[Depth + 1])
        /\ \A i \in 1..(act'[Depth + 1].arity - Formals(act'[Depth + 1])) :
             G.args[i] = mem'[act'[Depth + 1].base - act'[Depth + 1].arity + i - 1]
    BY <1>9, <2>1, ViewIsGoodNext DEF ViewGood, Size, Left, Formals
  <2>3. oon - 0 = oon
    BY <1>2
  <2> QED BY <1>1, <2>2, <2>3
<1>11. G.vals = <<>> /\ G.args \in Seq(Words)
  <2>1. G.vals \in Seq(Words) /\ G.args \in Seq(Words)
    BY DEF Stack!Frames
  <2> QED BY <1>10, <2>1, EmptySeq
<1>12. G.args = P
  <2>1. ASSUME NEW i \in 1..oon PROVE G.args[i] = P[i]
    <3>1. f.base - oon + i - 1 = bp + Top.tof + i - 1 /\ bp + Top.tof + i - 1 < f.base
          /\ bp + Top.tof + i - 1 \in Addresses
      <4>1. PICK b, t, o \in Int : b = bp /\ t = Top.tof /\ o = oon
        BY <1>3
      <4>2. /\ f.base = b + t + o /\ f.base + LOCAL_OFF <= StackTop
            /\ b >= STACK /\ t >= 0 /\ i \in Int /\ 1 <= i /\ i <= o
        BY <1>3, <4>1
      <4>3. b + t + i - 1 < f.base /\ f.base - o + i - 1 = b + t + i - 1
        BY <4>2
      <4>4. b + t + i - 1 \in Addresses
        BY <4>2, LayoutAssumption DEF Addresses, LOCAL_OFF
      <4> QED BY <4>1, <4>3, <4>4
    <3>2. mem'[bp + Top.tof + i - 1] = mem[bp + Top.tof + i - 1]
      BY <1>4, <3>1
    <3> QED BY <1>8, <1>10, <3>1, <3>2
  <2> QED BY <1>8, <1>10, <1>11, <2>1, SeqEqual
<1>13. G = [vals |-> <<>>, args |-> PendingView, ret |-> s]
  BY <1>7, <1>10, <1>11, <1>12 DEF Stack!Frames
<1>14. StackView' = Append(StackView, G)
  <2>1. PICK u : u = Append(StackView, G)
    OBVIOUS
  <2>2. /\ u \in Seq(Stack!Frames) /\ Len(u) = Depth + 1
        /\ \A k \in 1..Depth : u[k] = StackView[k]
        /\ u[Depth + 1] = G
    BY <1>5, <2>1, AppendProperties
  <2>3. ASSUME NEW k \in 1..(Depth + 1) PROVE StackView'[k] = u[k]
    <3>1. CASE k = Depth + 1
      BY <1>9, <2>2, <3>1
    <3>2. CASE k # Depth + 1
      <4>1. k \in 1..Depth
        BY <1>2, <3>2
      <4> QED BY <1>6, <2>2, <4>1
    <3> QED BY <3>1, <3>2
  <2>4. StackView' = u
    BY <1>5, <2>2, <2>3, SeqEqual
  <2> QED BY <2>1, <2>4
<1>15. PendingView' = <<>>
  BY <1>2 DEF PendingView
<1>16. StackView # <<>>
  BY <1>2, <1>5, EmptySeq
<1> QED BY <1>2, <1>13, <1>14, <1>15, <1>16 DEF Stack!Call

-----------------------------------------------------------------------------
(* The initial view is the initial state of the abstract call stack.      *)
LEMMA RefInit ==
  Init => Stack!Init
<1> SUFFICES ASSUME Init PROVE Stack!Init
  OBVIOUS
<1>1. IInv
  BY InitGood
<1>2. PICK main : main = Activation(STACK, 0, Exit)
  OBVIOUS
<1>3. act = <<main>> /\ oon = 0 /\ ip = "main"
  BY <1>2 DEF Init
<1>4. main.site = Exit /\ Formals(main) = 0 /\ Size(main) = 0 /\ main.arity = 0
  BY <1>2, EmptySeq DEF Activation, Formals, FORMAL_OFF, Size
<1>5. Depth = 1 /\ act[1] = main
  BY <1>3 DEF Depth
<1>6. StackView \in Seq(Stack!Frames) /\ Len(StackView) = 1
  BY <1>1, <1>5, ViewIsGood DEF ViewGood
<1>7. PICK G \in Stack!Frames : G = StackView[1]
  BY <1>6, ElementOfSeq
<1>8. G.ret = Exit /\ Len(G.vals) = 0 /\ Len(G.args) = 0
  <2>1. 1 \in 1..Depth /\ Left(1) = 0
    BY <1>4, <1>5 DEF Left
  <2> QED BY <1>1, <1>4, <1>5, <1>7, <2>1, FrameView
<1>9. G = [vals |-> <<>>, args |-> <<>>, ret |-> Exit]
  <2>1. G.vals \in Seq(Words) /\ G.args \in Seq(Words)
    BY DEF Stack!Frames
  <2>2. G.vals = <<>> /\ G.args = <<>>
    BY <1>8, <2>1, EmptySeq
  <2> QED BY <1>8, <2>2 DEF Stack!Frames
<1>10. StackView = <<G>>
  <2>1. PICK u : u = <<G>>
    OBVIOUS
  <2>2. u \in Seq(Stack!Frames) /\ Len(u) = 1 /\ u[1] = G
    BY <2>1
  <2>3. \A k \in 1..Len(StackView) : k = 1
    BY <1>6
  <2>4. \A k \in 1..Len(StackView) : StackView[k] = u[k]
    BY <1>7, <2>2, <2>3
  <2> QED BY <1>6, <2>1, <2>2, <2>4, SeqEqual
<1>11. PendingView = <<>>
  BY <1>3 DEF PendingView
<1> QED BY <1>3, <1>9, <1>10, <1>11 DEF Stack!Init

(* A step that changes nothing changes nothing in the view.               *)
LEMMA RefStutter ==
  ASSUME UNCHANGED vars
  PROVE  UNCHANGED Stack!vars
  BY DEF vars, Stack!vars, StackView, PendingView, WordOf, Base, Formals, Top

(* Every step of the frames is a step of the call stack, or stutters.     *)
LEMMA RefStep ==
  ASSUME IInv, [Next]_vars
  PROVE  [Stack!Next]_Stack!vars
<1>1. IInv'
  BY StepGood
<1>2. ASSUME NEW n \in 1..MaxVars, Var(n) PROVE Stack!Next
  BY <1>1, <1>2, RefVar DEF Stack!Next
<1>3. ASSUME Formal PROVE Stack!Next
  BY <1>1, <1>3, RefFormal DEF Stack!Next
<1>4. ASSUME NEW n \in 0..MaxVars, Rewind(n) PROVE Stack!Next
  BY <1>1, <1>4, RefRewind DEF Stack!Next
<1>5. ASSUME NEW k \in DOMAIN act, NEW v \in Value, NEW i \in DOMAIN act[k].offs, Assign(k, i, v)
      PROVE  Stack!Next
  BY <1>1, <1>5, RefAssign DEF Stack!Next
<1>6. ASSUME NEW v \in Value, Actual(v) PROVE Stack!Next
  BY <1>1, <1>6, RefActual DEF Stack!Next
<1>7. ASSUME NEW s \in Sites, Call(s) PROVE Stack!Next
  BY <1>1, <1>7, RefCall DEF Stack!Next
<1>8. ASSUME Return PROVE Stack!Next
  BY <1>1, <1>8, RefReturn DEF Stack!Next
<1>9. CASE UNCHANGED vars
  BY <1>9, RefStutter
<1> QED BY <1>2, <1>3, <1>4, <1>5, <1>6, <1>7, <1>8, <1>9 DEF Next

(* Calls, declarations, stores and returns in one array behave like a      *)
(* stack of activations, whatever the program does and however deep its    *)
(* calls: an activation's variables change only by stores to them, its     *)
(* arguments are those its caller passed, and it returns to the call that  *)
(* made it.                                                                *)
THEOREM Refinement ==
  Spec => Implements
<1>1. Init => Stack!Init
  BY RefInit
<1>2. IInv /\ [Next]_vars => [Stack!Next]_Stack!vars
  BY RefStep
<1>3. Spec => []IInv
  BY Invariance
<1> QED BY <1>1, <1>2, <1>3, PTL DEF Spec, Implements, Stack!Spec
=============================================================================
