-------------------------- MODULE ToolchainProofs --------------------------
(***************************************************************************)
(* The addresses the assembler resolves, for every program the front end   *)
(* may leave and every text it may be given by hand.                       *)
(*                                                                         *)
(* Three arguments meet. The generator prints nothing but lines whose      *)
(* names are the program's own or EXIT, STATIC, STACK and main, and prints *)
(* a definition of each (GenGood, Printed). The first pass has counted     *)
(* Addresses(text)[k] when it comes to line k, and an entry of its table   *)
(* is the address of a definition before k or stands at 0 (AsmGood). The   *)
(* second pass meets no name that is not in the table, so it counts the    *)
(* same addresses and puts none of the zeros into the image.               *)
(*                                                                         *)
(* Addresses and FlattenSeq are recursive functions; what is needed of     *)
(* them is shown by the least number for which it would fail.              *)
(***************************************************************************)
EXTENDS Toolchain, FiniteSetTheorems, SequenceTheorems, WellFoundedInduction, TLAPS

-----------------------------------------------------------------------------
(* Induction: the least element of a set of numbers. *)
LEMMA Least ==
  ASSUME NEW T, T \subseteq Nat, T # {}
  PROVE  \E x \in T : \A y \in T : x <= y
<1>1. PICK R : R = {ss \in Nat \X Nat : ss[1] < ss[2]}
  OBVIOUS
<1>2. IsWellFoundedOn(R, Nat)
  BY <1>1, NatLessThanWellFounded DEF OpToRel
<1>3. PICK x \in T : \A y \in T : <<y, x>> \notin R
  BY <1>2, WFMin
<1>4. ASSUME NEW y \in T
      PROVE  x <= y
  <2>1. ~(y < x)
    BY <1>1, <1>3
  <2> QED BY <2>1
<1> QED BY <1>3, <1>4

(* The sums of the first numbers of e. *)
SumsOf(n, e, f) ==
  f = [k \in 1..(n + 1) |-> IF k = 1 THEN 0 ELSE f[k - 1] + e[k - 1]]

(* Sums of numbers are numbers. *)
LEMMA SumsTyped ==
  ASSUME NEW n \in Nat, NEW e, \A i \in 1..n : e[i] \in Nat, NEW f, SumsOf(n, e, f)
  PROVE  f \in [1..(n + 1) -> Nat]
<1> DEFINE Bad == {k \in 1..(n + 1) : f[k] \notin Nat}
<1>1. \A k \in 1..(n + 1) : f[k] = IF k = 1 THEN 0 ELSE f[k - 1] + e[k - 1]
  BY DEF SumsOf
<1>2. ASSUME Bad # {}
      PROVE  FALSE
  <2>0. Bad \subseteq Nat
    OBVIOUS
  <2>1. PICK k \in Bad : \A m \in Bad : k <= m
    BY <1>2, <2>0, Least
  <2>2. k # 1
    BY <1>1, <2>1
  <2>3. k - 1 \in 1..n /\ k - 1 \notin Bad
    BY <2>1, <2>2
  <2>4. f[k - 1] \in Nat /\ e[k - 1] \in Nat /\ f[k] = f[k - 1] + e[k - 1]
    BY <1>1, <2>1, <2>2, <2>3
  <2> QED BY <2>1, <2>4
<1>3. \A k \in 1..(n + 1) : f[k] \in Nat
  BY <1>2
<1> QED BY <1>3 DEF SumsOf

(* There are such sums, so that the recursive function is what it says. *)
LEMMA SumsExist ==
  ASSUME NEW n \in Nat, NEW e, \A i \in 1..n : e[i] \in Nat
  PROVE  \E f : SumsOf(n, e, f)
<1> DEFINE Bad == {m \in 0..n : ~\E f : SumsOf(m, e, f)}
<1>1. SUFFICES ASSUME Bad # {}
               PROVE  FALSE
  OBVIOUS
<1>2. PICK m \in Bad : \A k \in Bad : m <= k
  <2>1. Bad \subseteq Nat
    OBVIOUS
  <2> QED BY <1>1, <2>1, Least
<1>3. m # 0
  <2>1. PICK f : f = [k \in 1..1 |-> 0]
    OBVIOUS
  <2>2. f = [k \in 1..(0 + 1) |-> IF k = 1 THEN 0 ELSE f[k - 1] + e[k - 1]]
    BY <2>1
  <2>3. SumsOf(0, e, f)
    BY <2>2 DEF SumsOf
  <2>4. ~\E h : SumsOf(m, e, h)
    BY <1>2
  <2> QED BY <2>3, <2>4
<1>4. m - 1 \in 0..n /\ m - 1 \notin Bad
  BY <1>2, <1>3
<1>5. PICK f : SumsOf(m - 1, e, f)
  BY <1>4
<1>6. PICK g : g = [k \in 1..(m + 1) |-> IF k = m + 1 THEN f[m] + e[m] ELSE f[k]]
  OBVIOUS
<1>7. \A k \in 1..m : f[k] = IF k = 1 THEN 0 ELSE f[k - 1] + e[k - 1]
  BY <1>3, <1>5 DEF SumsOf
<1>10. ASSUME NEW k \in 1..(m + 1)
       PROVE  g[k] = IF k = 1 THEN 0 ELSE g[k - 1] + e[k - 1]
  <2>1. CASE k = m + 1
    <3>1. k # 1 /\ k - 1 = m /\ g[m] = f[m] /\ g[k] = f[m] + e[m]
      BY <1>3, <1>6, <2>1
    <3> QED BY <3>1
  <2>2. CASE k # m + 1
    <3>1. k \in 1..m /\ g[k] = f[k]
      BY <1>6, <2>2
    <3>2. k # 1 => k - 1 \in 1..(m + 1) /\ k - 1 # m + 1 /\ g[k - 1] = f[k - 1]
      BY <1>6, <3>1
    <3> QED BY <1>7, <3>1, <3>2
  <2> QED BY <2>1, <2>2
<1>11. SumsOf(m, e, g)
  BY <1>6, <1>10 DEF SumsOf
<1> QED BY <1>11, <1>2

(* An index of a sequence, and its length. *)
LEMMA ListedMeans ==
  ASSUME NEW s, Listed(s)
  PROVE  Len(s) \in Nat /\ DOMAIN s = 1..Len(s)
  BY LenProperties DEF Listed

(* Line by line, the addresses are the sums of the extents.                *)
LEMMA AddressesAre ==
  ASSUME NEW text, Listed(text), \A k \in DOMAIN text : Extent(text[k]) \in Nat
  PROVE  /\ Addresses(text) \in [1..(Len(text) + 1) -> Nat]
         /\ Addresses(text)[1] = 0
         /\ \A k \in DOMAIN text : Addresses(text)[k + 1] = Addresses(text)[k] + Extent(text[k])
<1>1. PICK n : n = Len(text)
  OBVIOUS
<1>2. n \in Nat /\ DOMAIN text = 1..n
  BY <1>1, ListedMeans
<1>3. PICK e : e = [i \in 1..n |-> Extent(text[i])]
  OBVIOUS
<1> DEFINE Is(f) == f = [k \in 1..(n + 1) |-> IF k = 1 THEN 0 ELSE f[k - 1] + Extent(text[k - 1])]
<1>4. ASSUME NEW f
      PROVE  Is(f) <=> f = [k \in 1..(n + 1) |-> IF k = 1 THEN 0 ELSE f[k - 1] + e[k - 1]]
  <2>1. \A k \in 1..(n + 1) :
          (IF k = 1 THEN 0 ELSE f[k - 1] + Extent(text[k - 1])) = IF k = 1 THEN 0 ELSE f[k - 1] + e[k - 1]
    BY <1>2, <1>3
  <2> QED BY <2>1
<1>5. PICK f : SumsOf(n, e, f)
  <2>1. \A i \in 1..n : e[i] \in Nat
    BY <1>2, <1>3
  <2> QED BY <1>2, <2>1, SumsExist
<1>6. Is(f)
  BY <1>4, <1>5 DEF SumsOf
<1>7. Addresses(text) = CHOOSE h : Is(h)
  BY <1>1 DEF Addresses
<1>8. Is(Addresses(text))
  BY <1>6, <1>7
<1>9. SumsOf(n, e, Addresses(text))
  BY <1>4, <1>8 DEF SumsOf
<1>10. Addresses(text) \in [1..(n + 1) -> Nat]
  <2>1. \A i \in 1..n : e[i] \in Nat
    BY <1>2, <1>3
  <2> QED BY <1>2, <1>9, <2>1, SumsTyped
<1>11. Addresses(text)[1] = 0
  BY <1>2, <1>8
<1>12. ASSUME NEW k \in DOMAIN text
       PROVE  Addresses(text)[k + 1] = Addresses(text)[k] + Extent(text[k])
  <2>1. k + 1 \in 1..(n + 1) /\ k + 1 # 1 /\ (k + 1) - 1 = k
    BY <1>2
  <2> QED BY <1>8, <2>1
<1> QED BY <1>1, <1>10, <1>11, <1>12

(* If the first line takes room, no later line is at address 0.            *)
LEMMA AddressesPositive ==
  ASSUME NEW text, Listed(text), \A k \in DOMAIN text : Extent(text[k]) \in Nat,
         1 \in DOMAIN text, Extent(text[1]) > 0
  PROVE  \A k \in DOMAIN text : k # 1 => Addresses(text)[k] > 0
<1>1. PICK n : n = Len(text)
  OBVIOUS
<1>2. n \in Nat /\ DOMAIN text = 1..n
  BY <1>1, ListedMeans
<1>3. PICK f : f = Addresses(text)
  OBVIOUS
<1>4. /\ f \in [1..(n + 1) -> Nat] /\ f[1] = 0
      /\ \A k \in DOMAIN text : f[k + 1] = f[k] + Extent(text[k])
  BY <1>1, <1>3, AddressesAre
<1> DEFINE Bad == {k \in 2..n : ~(f[k] > 0)}
<1>5. ASSUME Bad # {}
      PROVE  FALSE
  <2>0. Bad \subseteq Nat
    BY <1>2
  <2>1. PICK k \in Bad : \A m \in Bad : k <= m
    BY <1>5, <2>0, Least
  <2>2. k - 1 \in DOMAIN text /\ (k - 1) + 1 = k /\ k - 1 \notin Bad
    BY <1>2, <2>1
  <2>3. f[k] = f[k - 1] + Extent(text[k - 1])
    BY <1>4, <2>2
  <2>4. Extent(text[k - 1]) \in Nat /\ f[k - 1] \in Nat
    BY <1>2, <1>4, <2>2
  <2>5. CASE k = 2
    BY <1>4, <2>1, <2>3, <2>4, <2>5
  <2>6. CASE k # 2
    <3>1. k - 1 \in 2..n
      BY <1>2, <2>1, <2>6
    <3>2. f[k - 1] > 0
      BY <2>2, <3>1
    <3> QED BY <2>1, <2>3, <2>4, <3>2
  <2> QED BY <2>5, <2>6
<1> QED BY <1>2, <1>3, <1>5

-----------------------------------------------------------------------------
(* Sequences of lines. *)

(* A sequence over any set is one over its own range. *)
LEMMA SeqIsListed ==
  ASSUME NEW S, NEW s \in Seq(S)
  PROVE  Listed(s)
<1>1. PICK n : n = Len(s)
  OBVIOUS
<1>2. n \in Nat /\ s \in [1..n -> S] /\ DOMAIN s = 1..n
  BY <1>1, LenProperties
<1>3. s \in [1..n -> Range(s)]
  BY <1>2 DEF Range
<1>4. s \in Seq(Range(s))
  BY <1>2, <1>3, SeqDef
<1> QED BY <1>4 DEF Listed

(* The length of a sequence is the end of its domain. *)
LEMMA LengthIs ==
  ASSUME NEW S, NEW s \in Seq(S), NEW n \in Nat, DOMAIN s = 1..n
  PROVE  Len(s) = n
<1>1. PICK m : m = Len(s)
  OBVIOUS
<1>2. m \in Nat /\ 1..m = 1..n
  BY <1>1, LenProperties
<1>3. m <= n
  <2>1. CASE m = 0
    BY <2>1
  <2>2. CASE m # 0
    <3>1. m \in 1..n
      BY <1>2, <2>2
    <3> QED BY <3>1
  <2> QED BY <2>1, <2>2
<1>4. n <= m
  <2>1. CASE n = 0
    BY <1>2, <2>1
  <2>2. CASE n # 0
    <3>1. n \in 1..m
      BY <1>2, <2>2
    <3> QED BY <3>1
  <2> QED BY <2>1, <2>2
<1> QED BY <1>1, <1>2, <1>3, <1>4

(* The sequence u is s followed by t.                                      *)
Joined(s, t, u) ==
  /\ Listed(u) /\ Len(u) = Len(s) + Len(t)
  /\ \A i \in DOMAIN s : i \in DOMAIN u /\ u[i] = s[i]
  /\ \A i \in DOMAIN t : Len(s) + i \in DOMAIN u /\ u[Len(s) + i] = t[i]
  /\ \A k \in DOMAIN u : u[k] \in Range(s) \cup Range(t)

(* Concatenation is what Joined says. *)
LEMMA Concatenation ==
  ASSUME NEW s, NEW t, Listed(s), Listed(t)
  PROVE  Joined(s, t, s \o t)
<1>1. PICK S : S = Range(s) \cup Range(t)
  OBVIOUS
<1>2. s \in Seq(S) /\ t \in Seq(S)
  BY <1>1, SeqMonotonic DEF Listed
<1>3. PICK m, n, u : m = Len(s) /\ n = Len(t) /\ u = s \o t
  OBVIOUS
<1>4. m \in Nat /\ n \in Nat /\ DOMAIN s = 1..m /\ DOMAIN t = 1..n
  BY <1>2, <1>3, LenProperties
<1>5. /\ u \in Seq(S) /\ Len(u) = m + n
      /\ \A i \in 1..(m + n) : u[i] = IF i <= m THEN s[i] ELSE t[i - m]
  BY <1>2, <1>3, ConcatProperties
<1>6. Listed(u) /\ DOMAIN u = 1..(m + n)
  BY <1>5, SeqIsListed, LenProperties
<1>7. \A k \in DOMAIN u : u[k] \in S
  BY <1>5, <1>6, ElementOfSeq, LenProperties
<1>8. \A i \in 1..m : i \in 1..(m + n) /\ u[i] = s[i]
  BY <1>4, <1>5
<1>9. ASSUME NEW i \in 1..n
      PROVE  m + i \in 1..(m + n) /\ u[m + i] = t[i]
  <2>1. m + i \in 1..(m + n) /\ ~(m + i <= m) /\ (m + i) - m = i
    BY <1>4
  <2> QED BY <1>5, <2>1
<1>10. Joined(s, t, u)
  BY <1>1, <1>3, <1>4, <1>5, <1>6, <1>7, <1>8, <1>9 DEF Joined
<1> QED BY <1>3, <1>10

(* The sequence f holds the first m of seqs, joined.                       *)
Holds(m, seqs, f) ==
  /\ Listed(f)
  /\ \A i \in 1..m : \A j \in DOMAIN seqs[i] : \E k \in DOMAIN f : f[k] = seqs[i][j]
  /\ \A k \in DOMAIN f : \E i \in 1..m : f[k] \in Range(seqs[i])

(* One more part. *)
LEMMA HoldsMore ==
  ASSUME NEW m \in Nat, NEW seqs, NEW f, Holds(m, seqs, f), Listed(seqs[m + 1])
  PROVE  Holds(m + 1, seqs, f \o seqs[m + 1])
<1>1. PICK t, u : t = seqs[m + 1] /\ u = f \o t
  OBVIOUS
<1>2. Joined(f, t, u)
  BY <1>1, Concatenation DEF Holds
<1>3. ASSUME NEW i \in 1..(m + 1), NEW j \in DOMAIN seqs[i]
      PROVE  \E k \in DOMAIN u : u[k] = seqs[i][j]
  <2>1. CASE i = m + 1
    <3>1. j \in DOMAIN t /\ t[j] = seqs[i][j]
      BY <1>1, <1>3, <2>1
    <3> QED BY <1>2, <3>1 DEF Joined
  <2>2. CASE i # m + 1
    <3>1. i \in 1..m
      BY <2>2
    <3>2. PICK k \in DOMAIN f : f[k] = seqs[i][j]
      BY <3>1 DEF Holds
    <3> QED BY <1>2, <3>2 DEF Joined
  <2> QED BY <2>1, <2>2
<1>4. ASSUME NEW k \in DOMAIN u
      PROVE  \E i \in 1..(m + 1) : u[k] \in Range(seqs[i])
  <2>1. u[k] \in Range(f) \/ u[k] \in Range(t)
    BY <1>2 DEF Joined
  <2>2. CASE u[k] \in Range(t)
    BY <1>1, <2>2
  <2>3. CASE u[k] \in Range(f)
    <3>1. PICK l \in DOMAIN f : u[k] = f[l]
      BY <2>3 DEF Range
    <3>2. PICK i \in 1..m : f[l] \in Range(seqs[i])
      BY DEF Holds
    <3> QED BY <3>1, <3>2
  <2> QED BY <2>1, <2>2, <2>3
<1> QED BY <1>1, <1>2, <1>3, <1>4 DEF Holds, Joined

FlattenedAs(n, seqs, f) ==
  f = [i \in 1..n |-> IF i = 1 THEN seqs[i] ELSE f[i - 1] \o seqs[i]]

(* The recursive function in FlattenSeq exists. *)
LEMMA FlattenedExists ==
  ASSUME NEW n \in Nat, NEW seqs
  PROVE  \E f : FlattenedAs(n, seqs, f)
<1> DEFINE Bad == {m \in 0..n : ~\E f : FlattenedAs(m, seqs, f)}
<1>1. SUFFICES ASSUME Bad # {}
               PROVE  FALSE
  OBVIOUS
<1>2. PICK m \in Bad : \A k \in Bad : m <= k
  <2>1. Bad \subseteq Nat
    OBVIOUS
  <2> QED BY <1>1, <2>1, Least
<1>3. m # 0
  <2>1. PICK f : f = [i \in 1..0 |-> 0]
    OBVIOUS
  <2>2. f = [i \in 1..0 |-> IF i = 1 THEN seqs[i] ELSE f[i - 1] \o seqs[i]]
    BY <2>1
  <2>3. FlattenedAs(0, seqs, f)
    BY <2>2 DEF FlattenedAs
  <2>4. ~\E h : FlattenedAs(m, seqs, h)
    BY <1>2
  <2> QED BY <2>3, <2>4
<1>4. m - 1 \in 0..n /\ m - 1 \notin Bad
  BY <1>2, <1>3
<1>5. PICK f : FlattenedAs(m - 1, seqs, f)
  BY <1>4
<1>6. PICK g : g = [i \in 1..m |-> IF i < m THEN f[i] ELSE IF i = 1 THEN seqs[i] ELSE f[i - 1] \o seqs[i]]
  OBVIOUS
<1>7. \A i \in 1..(m - 1) : f[i] = IF i = 1 THEN seqs[i] ELSE f[i - 1] \o seqs[i]
  BY <1>5 DEF FlattenedAs
<1>8. ASSUME NEW i \in 1..m
      PROVE  g[i] = IF i = 1 THEN seqs[i] ELSE g[i - 1] \o seqs[i]
  <2>1. i # 1 => i - 1 \in 1..m /\ i - 1 < m /\ g[i - 1] = f[i - 1]
    BY <1>6
  <2>2. CASE i = m
    <3>1. g[i] = IF i = 1 THEN seqs[i] ELSE f[i - 1] \o seqs[i]
      BY <1>6, <2>2
    <3> QED BY <2>1, <3>1
  <2>3. CASE i # m
    <3>1. i \in 1..(m - 1) /\ g[i] = f[i]
      BY <1>2, <1>6, <2>3
    <3> QED BY <1>7, <2>1, <3>1
  <2> QED BY <2>2, <2>3
<1>9. FlattenedAs(m, seqs, g)
  BY <1>6, <1>8 DEF FlattenedAs
<1>10. ~\E h : FlattenedAs(m, seqs, h)
  BY <1>2
<1> QED BY <1>9, <1>10

(* FlattenSeq has all that its parts have, and nothing else. *)
LEMMA Flattening ==
  ASSUME NEW n \in Nat, NEW seqs, Listed(seqs), Len(seqs) = n, \A i \in 1..n : Listed(seqs[i])
  PROVE  Holds(n, seqs, FlattenSeq(seqs))
<1>1. DOMAIN seqs = 1..n
  BY ListedMeans
<1>2. CASE n = 0
  <2>1. FlattenSeq(seqs) = seqs
    BY <1>2 DEF FlattenSeq
  <2> QED BY <1>1, <1>2, <2>1 DEF Holds
<1>3. CASE n # 0
  <2>1. FlattenSeq(seqs) = (CHOOSE f : FlattenedAs(n, seqs, f))[n]
    BY <1>3 DEF FlattenSeq, FlattenedAs
  <2>2. PICK f : FlattenedAs(n, seqs, f) /\ FlattenSeq(seqs) = f[n]
    BY <2>1, FlattenedExists
  <2>3. \A i \in 1..n : f[i] = IF i = 1 THEN seqs[i] ELSE f[i - 1] \o seqs[i]
    BY <2>2 DEF FlattenedAs
  <2> DEFINE Bad == {m \in 1..n : ~Holds(m, seqs, f[m])}
  <2>4. ASSUME Bad # {}
        PROVE  FALSE
    <3>0. Bad \subseteq Nat
      OBVIOUS
    <3>1. PICK m \in Bad : \A k \in Bad : m <= k
      BY <2>4, <3>0, Least
    <3>2. CASE m = 1
      <4>1. f[1] = seqs[1] /\ Listed(seqs[1])
        BY <2>3, <3>1, <3>2
      <4>2. \A k \in DOMAIN seqs[1] : seqs[1][k] \in Range(seqs[1])
        BY DEF Range
      <4>3. Holds(1, seqs, f[1])
        BY <4>1, <4>2 DEF Holds
      <4> QED BY <3>1, <3>2, <4>3
    <3>3. CASE m # 1
      <4>1. m - 1 \in 1..n /\ m - 1 \notin Bad /\ (m - 1) + 1 = m /\ m - 1 \in Nat
        BY <3>1, <3>3
      <4>2. Holds(m - 1, seqs, f[m - 1])
        BY <4>1
      <4>3. Listed(seqs[m]) /\ f[m] = f[m - 1] \o seqs[m]
        BY <2>3, <3>1, <3>3
      <4>4. Holds(m, seqs, f[m])
        BY <4>1, <4>2, <4>3, HoldsMore
      <4> QED BY <3>1, <4>4
    <3> QED BY <3>2, <3>3
  <2>5. Holds(n, seqs, f[n])
    <3>1. n \in 1..n
      BY <1>3
    <3> QED BY <2>4, <3>1
  <2> QED BY <2>2, <2>5
<1> QED BY <1>2, <1>3

-----------------------------------------------------------------------------
(* The generator: whatever it does, it goes on with a text of good lines.  *)

LineGood(l, names) == IsLine(l) /\ l.name \in names \cup {""}

Lines(s, names) == Listed(s) /\ \A k \in DOMAIN s : LineGood(s[k], names)

GenGood(g, names) ==
  /\ DOMAIN g = {"text", "var", "mod", "tof", "oof", "oon", "tos", "offset"}
  /\ Lines(g.text, names)
  /\ g.tos \in Nat
  /\ {"EXIT", "STATIC", "STACK", "main"} \subseteq names

(* h is g with more text. *)
Grows(g, h, names) ==
  /\ GenGood(h, names)
  /\ \A k \in DOMAIN g.text : k \in DOMAIN h.text /\ h.text[k] = g.text[k]

Plain(op) == op \notin {"LABEL", "DBN", "DBS"}

(* An instruction without a name is a good line. *)
LEMMA PlainLine ==
  ASSUME NEW op, Plain(op), NEW rx, NEW ry, NEW n, NEW names
  PROVE  LineGood(Line(op, rx, ry, n), names)
  BY DEF Plain, LineGood, Line, IsLine, Extent

(* So is one whose number the grammar may not read. *)
LEMMA UnsignedLine ==
  ASSUME NEW op, Plain(op), NEW rx, NEW ry, NEW n, NEW names
  PROVE  LineGood(Unsigned(op, rx, ry, n), names)
<1>1. Plain(Unreadable)
  BY DEF Plain, Unreadable
<1> QED BY <1>1, PlainLine DEF Unsigned

(* An instruction with a name needs the name among those of the text. *)
LEMMA NamedLine ==
  ASSUME NEW op, Plain(op), NEW rx, NEW names, NEW name \in names
  PROVE  LineGood(Named(op, rx, name), names)
  BY DEF Plain, LineGood, Named, Line, IsLine, Extent

(* So does a definition. *)
LEMMA LabelLineGood ==
  ASSUME NEW names, NEW name \in names
  PROVE  /\ LineGood(LabelLine(name), names)
         /\ LabelLine(name).op = "LABEL" /\ LabelLine(name).name = name
  BY DEF LineGood, LabelLine, Named, Line, IsLine, Extent

(* No lines are good lines. *)
LEMMA NoLines ==
  ASSUME NEW names
  PROVE  Lines(<<>>, names)
  BY DEF Lines, Listed

(* Good lines in a sequence. *)
LEMMA LinesOf ==
  ASSUME NEW names, NEW S, \A l \in S : LineGood(l, names), NEW s \in Seq(S)
  PROVE  Lines(s, names)
<1>1. Listed(s)
  BY SeqIsListed
<1>2. \A k \in DOMAIN s : s[k] \in S
  BY ElementOfSeq, LenProperties
<1> QED BY <1>1, <1>2 DEF Lines

(* One good line. *)
LEMMA OneLine ==
  ASSUME NEW names, NEW l, LineGood(l, names)
  PROVE  Lines(<<l>>, names)
<1>1. <<l>> \in Seq({l})
  OBVIOUS
<1>2. \A x \in {l} : LineGood(x, names)
  OBVIOUS
<1> QED BY <1>1, <1>2, LinesOf

(* Two good lines. *)
LEMMA TwoLines ==
  ASSUME NEW names, NEW l1, NEW l2, LineGood(l1, names), LineGood(l2, names)
  PROVE  Lines(<<l1, l2>>, names)
<1>1. <<l1, l2>> \in Seq({l1, l2})
  OBVIOUS
<1>2. \A x \in {l1, l2} : LineGood(x, names)
  OBVIOUS
<1> QED BY <1>1, <1>2, LinesOf

(* Three good lines. *)
LEMMA ThreeLines ==
  ASSUME NEW names, NEW l1, NEW l2, NEW l3, LineGood(l1, names), LineGood(l2, names), LineGood(l3, names)
  PROVE  Lines(<<l1, l2, l3>>, names)
<1>1. <<l1, l2, l3>> \in Seq({l1, l2, l3})
  OBVIOUS
<1>2. \A x \in {l1, l2, l3} : LineGood(x, names)
  OBVIOUS
<1> QED BY <1>1, <1>2, LinesOf

(* Good lines and more of them. *)
LEMMA LinesJoined ==
  ASSUME NEW names, NEW s, NEW t, Lines(s, names), Lines(t, names)
  PROVE  Lines(s \o t, names)
<1>1. Joined(s, t, s \o t)
  BY Concatenation DEF Lines
<1>2. \A x \in Range(s) \cup Range(t) : LineGood(x, names)
  BY DEF Lines, Range
<1> QED BY <1>1, <1>2 DEF Joined, Lines

(* Doing nothing adds nothing. *)
LEMMA GrowsSelf ==
  ASSUME NEW g, NEW names, GenGood(g, names)
  PROVE  Grows(g, g, names)
  BY DEF Grows

(* Adding twice is adding. *)
LEMMA GrowsOn ==
  ASSUME NEW f, NEW g, NEW h, NEW names, Grows(f, g, names), Grows(g, h, names)
  PROVE  Grows(f, h, names)
  BY DEF Grows

(* A step that leaves the text alone. *)
LEMMA SameText ==
  ASSUME NEW g, NEW h, NEW names, GenGood(g, names),
         DOMAIN h = DOMAIN g, h.text = g.text, h.tos \in Nat
  PROVE  Grows(g, h, names)
  BY DEF Grows, GenGood

(* Printing good lines. *)
LEMMA EmitGrows ==
  ASSUME NEW g, NEW lines, NEW names, GenGood(g, names), Lines(lines, names)
  PROVE  /\ Grows(g, Emit(g, lines), names)
         /\ \A k \in DOMAIN lines : \E j \in DOMAIN Emit(g, lines).text : Emit(g, lines).text[j] = lines[k]
<1>1. PICK h : h = Emit(g, lines)
  OBVIOUS
<1>2. h.text = g.text \o lines /\ DOMAIN h = DOMAIN g /\ h.tos = g.tos
  BY <1>1 DEF Emit, GenGood
<1>3. Lines(h.text, names)
  BY <1>2, LinesJoined DEF GenGood
<1>4. Joined(g.text, lines, h.text)
  BY <1>2, Concatenation DEF GenGood, Lines
<1>5. GenGood(h, names)
  BY <1>2, <1>3 DEF GenGood
<1>6. Grows(g, h, names)
  BY <1>4, <1>5 DEF Grows, Joined
<1>7. \A k \in DOMAIN lines : \E j \in DOMAIN h.text : h.text[j] = lines[k]
  BY <1>4 DEF Joined
<1> QED BY <1>1, <1>6, <1>7

(* What is printed is in the text. *)
LEMMA EmitHas ==
  ASSUME NEW g, NEW lines, NEW names, GenGood(g, names), Lines(lines, names), NEW k \in DOMAIN lines
  PROVE  \E j \in DOMAIN Emit(g, lines).text : Emit(g, lines).text[j] = lines[k]
<1>1. Joined(g.text, lines, g.text \o lines)
  BY Concatenation DEF GenGood, Lines
<1>2. Emit(g, lines).text = g.text \o lines
  BY DEF Emit, GenGood
<1> QED BY <1>1, <1>2 DEF Joined

(* A store is printed in good lines. *)
LEMMA StoreLines ==
  ASSUME NEW g, NEW names, GenGood(g, names), NEW r, NEW s
  PROVE  Lines(Store(g, r, s), names)
<1>1. LineGood(Line("STO_3", R_BP, r, OffsetOf(g, s)), names)
  BY PlainLine DEF Plain
<1>2. LineGood(Named("LOD_0", R_TP, "STATIC"), names)
  BY NamedLine DEF Plain, GenGood
<1>3. LineGood(Unsigned("STO_3", R_TP, r, OffsetOf(g, s)), names)
  BY UnsignedLine DEF Plain
<1> QED BY <1>1, <1>2, <1>3, OneLine, TwoLines DEF Store

(* So is a load from memory. *)
LEMMA FetchLines ==
  ASSUME NEW g, NEW names, GenGood(g, names), NEW r, NEW s
  PROVE  Lines(Fetch(g, r, s), names)
<1>1. LineGood(Line("LOD_5", r, R_BP, OffsetOf(g, s)), names)
  BY PlainLine DEF Plain
<1>2. LineGood(Named("LOD_0", R_TP, "STATIC"), names)
  BY NamedLine DEF Plain, GenGood
<1>3. LineGood(Unsigned("LOD_5", r, R_TP, OffsetOf(g, s)), names)
  BY UnsignedLine DEF Plain
<1> QED BY <1>1, <1>2, <1>3, OneLine, TwoLines DEF Fetch

(* Bookkeeping prints nothing. *)
LEMMA ClearGrows ==
  ASSUME NEW g, NEW names, GenGood(g, names), NEW r
  PROVE  Grows(g, RdescClear(g, r), names)
  BY SameText DEF GenGood, RdescClear

(* Marking a register modified prints nothing. *)
LEMMA ModifyGrows ==
  ASSUME NEW g, NEW names, GenGood(g, names), NEW r
  PROVE  Grows(g, Modify(g, r), names)
  BY SameText DEF GenGood, Modify

(* Neither does filling its descriptor, *)
LEMMA FillGrows ==
  ASSUME NEW g, NEW names, GenGood(g, names), NEW r, NEW s
  PROVE  Grows(g, RdescFill(g, r, s), names)
  BY SameText DEF GenGood, RdescFill

(* or clearing all of them, *)
LEMMA ForgetGrows ==
  ASSUME NEW g, NEW names, GenGood(g, names)
  PROVE  Grows(g, ClearAllRegs(g), names)
  BY SameText DEF GenGood, ClearAllRegs

(* or giving a register to the variable just computed. *)
LEMMA DefineGrows ==
  ASSUME NEW g, NEW names, GenGood(g, names), NEW r, NEW a
  PROVE  Grows(g, Define(g, r, a), names)
<1>1. PICK h : h = RdescFill(g, r, a)
  OBVIOUS
<1>2. Grows(g, h, names)
  BY <1>1, FillGrows
<1>3. Grows(h, Modify(h, r), names)
  BY <1>2, ModifyGrows DEF Grows
<1> QED BY <1>1, <1>2, <1>3, GrowsOn DEF Define

(* Writing a register back. *)
LEMMA WriteBackGrows ==
  ASSUME NEW g, NEW names, GenGood(g, names), NEW r
  PROVE  Grows(g, WriteBack(g, r), names)
<1>1. PICK h, m : h = Emit(g, Store(g, r, g.var[r])) /\ m = h.mod \ {r}
  OBVIOUS
<1>2. Grows(g, h, names)
  BY <1>1, StoreLines, EmitGrows
<1>3. Grows(h, [h EXCEPT !.mod = m], names)
  BY <1>2, SameText DEF Grows, GenGood
<1>4. Grows(g, [h EXCEPT !.mod = m], names)
  BY <1>2, <1>3, GrowsOn
<1>5. WriteBack(g, r) \in {g, [h EXCEPT !.mod = m]}
  BY <1>1 DEF WriteBack
<1> QED BY <1>4, <1>5, GrowsSelf

(* Writing all registers back. *)
LEMMA WriteBackAllGrows ==
  ASSUME NEW g, NEW names, GenGood(g, names)
  PROVE  Grows(g, WriteBackAll(g), names)
<1> DEFINE dirty == {r \in g.mod : g.var[r] # Nil}
           code(r) == IF r \in dirty THEN Store(g, r, g.var[r]) ELSE <<>>
           all == [i \in 1 .. R_NUM - R_GEN |-> code(R_GEN + i - 1)]
<1>1. \A r : Lines(code(r), names)
  BY StoreLines, NoLines
<1> HIDE DEF code
<1>2. PICK S : S = {code(R_GEN + i - 1) : i \in 1 .. 11}
  OBVIOUS
<1>3. all \in [1 .. 11 -> S] /\ \A i \in 1 .. 11 : Lines(all[i], names)
  BY <1>1, <1>2 DEF R_NUM, R_GEN
<1> HIDE DEF all
<1>4. all \in Seq(S) /\ Len(all) = 11
  <2>1. 11 \in Nat
    OBVIOUS
  <2>2. all \in Seq(S)
    BY <1>3, <2>1, SeqDef
  <2> QED BY <1>3, <2>1, <2>2, LengthIs
<1>5. Holds(11, all, FlattenSeq(all))
  BY <1>3, <1>4, SeqIsListed, Flattening DEF Lines
<1>6. Lines(FlattenSeq(all), names)
  <2>1. \A i \in 1 .. 11 : \A x \in Range(all[i]) : LineGood(x, names)
    BY <1>3 DEF Lines, Range
  <2> QED BY <1>5, <2>1 DEF Holds, Lines
<1>7. PICK h : h = Emit(g, FlattenSeq(all))
  OBVIOUS
<1>8. Grows(g, h, names)
  BY <1>6, <1>7, EmitGrows
<1>9. PICK m : m = h.mod \ dirty
  OBVIOUS
<1>10. Grows(h, [h EXCEPT !.mod = m], names)
  BY <1>8, SameText DEF Grows, GenGood
<1>11. WriteBackAll(g) = [h EXCEPT !.mod = m]
  BY <1>7, <1>9 DEF WriteBackAll, all, code
<1> QED BY <1>8, <1>10, <1>11, GrowsOn

(* A symbol that can be loaded. *)
Loadable(s, names) ==
  /\ s.type \in {"CONST_INT", "CONST_CHAR", "VAR", "TEXT"}
  /\ s.type = "TEXT" => s.name \in names

(* Loading a symbol. *)
LEMMA LoadGrows ==
  ASSUME NEW g, NEW names, GenGood(g, names), NEW r, NEW s, Loadable(s, names)
  PROVE  Grows(g, Load(g, r, s), names)
<1>1. Lines(<<Line("LOD_1", r, First(Holding(g, s)), 0)>>, names)
  BY PlainLine, OneLine DEF Plain
<1>2. Lines(<<Unsigned("LOD_0", r, 0, Number(s))>>, names)
  BY UnsignedLine, OneLine DEF Plain
<1>3. Lines(Fetch(g, r, s), names)
  BY FetchLines
<1>4. s.type = "TEXT" => Lines(<<Named("LOD_0", r, TextLabel(s))>>, names)
  BY NamedLine, OneLine DEF Plain, Loadable, TextLabel
<1> DEFINE lines ==
      IF Holding(g, s) # {} THEN <<Line("LOD_1", r, First(Holding(g, s)), 0)>>
      ELSE CASE IsConst(s) -> <<Unsigned("LOD_0", r, 0, Number(s))>>
             [] s.type = "VAR" -> Fetch(g, r, s)
             [] s.type = "TEXT" -> <<Named("LOD_0", r, TextLabel(s))>>
<1>6. Load(g, r, s) = Emit(g, lines)
  BY DEF Load
<1>7. Lines(lines, names)
  BY <1>1, <1>2, <1>3, <1>4 DEF Loadable, IsConst
<1> HIDE DEF lines
<1> QED BY <1>6, <1>7, EmitGrows

(* Allocating a register. *)
LEMMA AllocGrows ==
  ASSUME NEW g, NEW names, GenGood(g, names), NEW s, NEW r, Loadable(s, names)
  PROVE  Grows(g, Alloc(g, s, r), names)
<1>1. PICK w, l, f : w = WriteBack(g, r) /\ l = Load(w, r, s) /\ f = RdescFill(l, r, s)
  OBVIOUS
<1>2. Grows(g, w, names)
  BY <1>1, WriteBackGrows
<1>3. Grows(w, l, names)
  BY <1>1, <1>2, LoadGrows DEF Grows
<1>4. Grows(l, f, names)
  BY <1>1, <1>3, FillGrows DEF Grows
<1>5. Grows(g, f, names)
  BY <1>2, <1>3, <1>4, GrowsOn
<1>6. Alloc(g, s, r) \in {w, f}
  BY <1>1 DEF Alloc
<1> QED BY <1>2, <1>5, <1>6

(* More code, then a. *)
LEMMA ComputeGrows ==
  ASSUME NEW g, NEW names, GenGood(g, names), NEW lines, Lines(lines, names), NEW r, NEW a
  PROVE  Grows(g, Define(Emit(g, lines), r, a), names)
<1>1. PICK h : h = Emit(g, lines)
  OBVIOUS
<1>2. Grows(g, h, names)
  BY <1>1, EmitGrows
<1>3. Grows(h, Define(h, r, a), names)
  BY <1>2, DefineGrows DEF Grows
<1> QED BY <1>1, <1>2, <1>3, GrowsOn

(* The forms of the operations define nothing. *)
LEMMA OperationsPlain ==
  ASSUME NEW op \in Arithmetic
  PROVE  Plain(WithNumber[op]) /\ Plain(WithRegister[op])
  BY DEF Arithmetic, WithNumber, WithRegister, Plain

(* asm_bin. *)
LEMMA AsmBinGrows ==
  ASSUME NEW g, NEW names, GenGood(g, names), NEW op \in Arithmetic, NEW a, NEW b, NEW c, NEW rand,
         Loadable(b, names), Loadable(c, names)
  PROVE  Grows(g, AsmBin(g, op, a, b, c, rand).g, names)
<1>1. PICK rb, placed, pinned, rc, loaded :
        /\ rb = AllocReg(g, b, rand) /\ placed = Alloc(g, b, rb)
        /\ pinned = Modify(placed, rb) /\ rc = AllocReg(pinned, c, rand)
        /\ loaded = Alloc(pinned, c, rc)
  OBVIOUS
<1>2. Grows(g, placed, names)
  BY <1>1, AllocGrows
<1>3. Grows(placed, pinned, names)
  BY <1>1, <1>2, ModifyGrows DEF Grows
<1>4. Grows(g, pinned, names)
  BY <1>2, <1>3, GrowsOn
<1>5. Grows(pinned, loaded, names)
  BY <1>1, <1>3, AllocGrows DEF Grows
<1>6. PICK m, both : m = (loaded.mod \ {rb}) \cup (placed.mod \cap {rb}) /\ both = [loaded EXCEPT !.mod = m]
  OBVIOUS
<1>7. Grows(loaded, both, names)
  BY <1>5, <1>6, SameText DEF Grows, GenGood
<1>8. Grows(g, both, names)
  BY <1>4, <1>5, <1>7, GrowsOn
<1>9. PICK constant, code :
        /\ constant = <<Unsigned(WithNumber[op], rb, 0, Number(c))>>
        /\ code = IF rb = rc
                  THEN <<Line("LOD_1", R_TP, rc, 0), Line(WithRegister[op], rb, R_TP, 0)>>
                  ELSE <<Line(WithRegister[op], rb, rc, 0)>>
  OBVIOUS
<1>10. Lines(constant, names)
  BY <1>9, OperationsPlain, UnsignedLine, OneLine
<1>11. Lines(code, names)
  <2>1. LineGood(Line("LOD_1", R_TP, rc, 0), names)
    BY PlainLine DEF Plain
  <2>2. \A r : LineGood(Line(WithRegister[op], rb, r, 0), names)
    BY OperationsPlain, PlainLine
  <2> QED BY <1>9, <2>1, <2>2, OneLine, TwoLines
<1>12. Grows(pinned, Define(Emit(pinned, constant), rb, a), names)
  BY <1>3, <1>10, ComputeGrows DEF Grows
<1>13. Grows(both, Define(Emit(both, code), rb, a), names)
  BY <1>8, <1>11, ComputeGrows DEF Grows
<1>14. AsmBin(g, op, a, b, c, rand).g =
         IF IsConst(c) THEN Define(Emit(pinned, constant), rb, a) ELSE Define(Emit(both, code), rb, a)
  BY <1>1, <1>6, <1>9 DEF AsmBin
<1>15. Grows(g, Define(Emit(pinned, constant), rb, a), names)
  BY <1>4, <1>12, GrowsOn
<1>16. Grows(g, Define(Emit(both, code), rb, a), names)
  BY <1>8, <1>13, GrowsOn
<1> QED BY <1>14, <1>15, <1>16

(* The lines a comparison ends with. *)
LEMMA AnswerLines ==
  ASSUME NEW names, NEW op \in Relations, NEW r, NEW taken
  PROVE  Lines(Answer(Jump[op], r, taken), names)
<1>1. Plain(Jump[op])
  BY DEF Plain, Jump, Relations
<1>2. PICK l1, l2, l3, l4, l5, l6, l7 :
        /\ l1 = Line("TST_0", r, 0, 0) /\ l2 = Line("LOD_2", R_JP, R_IP, 40)
        /\ l3 = Line(Jump[op], R_JP, 0, 0) /\ l4 = Line("LOD_0", r, 0, 1 - taken)
        /\ l5 = Line("LOD_2", R_JP, R_IP, 24) /\ l6 = Line("JMP_1", R_JP, 0, 0)
        /\ l7 = Line("LOD_0", r, 0, taken)
  OBVIOUS
<1>3. \A x \in {l1, l2, l3, l4, l5, l6, l7} : LineGood(x, names)
  <2>1. Plain("TST_0") /\ Plain("LOD_2") /\ Plain("LOD_0") /\ Plain("JMP_1")
    BY DEF Plain
  <2>2. LineGood(l1, names) /\ LineGood(l2, names) /\ LineGood(l3, names) /\ LineGood(l4, names)
    BY <1>1, <1>2, <2>1, PlainLine
  <2>3. LineGood(l5, names) /\ LineGood(l6, names) /\ LineGood(l7, names)
    BY <1>2, <2>1, PlainLine
  <2> QED BY <2>2, <2>3
<1>4. <<l1, l2, l3, l4, l5, l6, l7>> \in Seq({l1, l2, l3, l4, l5, l6, l7})
  OBVIOUS
<1>5. Lines(<<l1, l2, l3, l4, l5, l6, l7>>, names)
  BY <1>3, <1>4, LinesOf
<1> QED BY <1>2, <1>5 DEF Answer

(* asm_cmp. *)
LEMMA AsmCmpGrows ==
  ASSUME NEW g, NEW names, GenGood(g, names), NEW op \in Relations, NEW a, NEW b, NEW c, NEW rand,
         Loadable(b, names), Loadable(c, names)
  PROVE  Grows(g, AsmCmp(g, op, a, b, c, rand), names)
<1>1. PICK sub, r, code : sub = AsmBin(g, "SUB", a, b, c, rand) /\ r = sub.r
                          /\ code = Answer(Jump[op], r, WhenTaken[op])
  OBVIOUS
<1>2. Grows(g, sub.g, names)
  BY <1>1, AsmBinGrows DEF Arithmetic
<1>3. PICK h, k : h = Emit(sub.g, code) /\ k = RdescClear(h, r)
  OBVIOUS
<1>4. Grows(sub.g, h, names)
  BY <1>1, <1>2, <1>3, AnswerLines, EmitGrows DEF Grows
<1>5. Grows(h, k, names)
  BY <1>3, <1>4, ClearGrows DEF Grows
<1>6. Grows(k, Define(k, r, a), names)
  BY <1>5, DefineGrows DEF Grows
<1>7. Grows(g, Define(k, r, a), names)
  BY <1>2, <1>4, <1>5, <1>6, GrowsOn
<1> QED BY <1>1, <1>3, <1>7 DEF AsmCmp

(* asm_cond. *)
LEMMA AsmCondGrows ==
  ASSUME NEW g, NEW names, GenGood(g, names), NEW op, Plain(op), NEW s, NEW name \in names, NEW rand,
         s = Nil \/ Loadable(s, names)
  PROVE  Grows(g, AsmCond(g, op, s, name, rand), names)
<1>1. PICK w, r : w = WriteBackAll(g) /\ r = AllocReg(w, s, rand)
  OBVIOUS
<1>2. Grows(g, w, names)
  BY <1>1, WriteBackAllGrows
<1>3. PICK placed : placed = IF Holding(w, s) # {} THEN w ELSE Alloc(w, s, r)
  OBVIOUS
<1>4. s # Nil => Grows(w, placed, names)
  BY <1>2, <1>3, AllocGrows, GrowsSelf DEF Grows
<1>5. PICK tested : tested = IF s = Nil THEN w ELSE Emit(placed, <<Line("TST_0", r, 0, 0)>>)
  OBVIOUS
<1>6. Lines(<<Line("TST_0", r, 0, 0)>>, names) /\ Lines(<<Named(op, 0, name)>>, names)
  BY PlainLine, NamedLine, OneLine DEF Plain
<1>7. s # Nil => Grows(placed, tested, names)
  BY <1>4, <1>5, <1>6, EmitGrows DEF Grows
<1>8. Grows(g, tested, names)
  BY <1>2, <1>4, <1>5, <1>7, GrowsOn
<1>9. Grows(tested, Emit(tested, <<Named(op, 0, name)>>), names)
  BY <1>6, <1>8, EmitGrows DEF Grows
<1>10. Grows(g, Emit(tested, <<Named(op, 0, name)>>), names)
  BY <1>8, <1>9, GrowsOn
<1>11. AsmCond(g, op, s, name, rand) = Emit(tested, <<Named(op, 0, name)>>)
  BY <1>1, <1>3, <1>5 DEF AsmCond
<1> QED BY <1>10, <1>11

(* asm_call. *)
LEMMA AsmCallGrows ==
  ASSUME NEW g, NEW names, GenGood(g, names), NEW ret, NEW func, NEW rand,
         func.name \in names, ret = Nil \/ Loadable(ret, names)
  PROVE  Grows(g, AsmCall(g, ret, func, rand), names)
<1>1. PICK b, w, top : b = WriteBackAll(g) /\ w = ClearAllRegs(b) /\ top = w.tof + w.oon
  OBVIOUS
<1>2. Grows(g, b, names)
  BY <1>1, WriteBackAllGrows
<1>3. Grows(b, w, names)
  BY <1>1, <1>2, ForgetGrows DEF Grows
<1>4. PICK l1, l2, l3, l4, l5 :
        /\ l1 = Line("STO_3", R_BP, R_BP, top) /\ l2 = Line("LOD_2", R_TP, R_IP, 32)
        /\ l3 = Line("STO_3", R_BP, R_TP, top + 4) /\ l4 = Line("LOD_2", R_BP, R_BP, top)
        /\ l5 = Named("JMP_0", 0, func.name)
  OBVIOUS
<1>5. Lines(<<l1, l2, l3, l4, l5>>, names)
  <2>1. Plain("STO_3") /\ Plain("LOD_2") /\ Plain("JMP_0")
    BY DEF Plain
  <2>2. LineGood(l1, names) /\ LineGood(l2, names) /\ LineGood(l3, names) /\ LineGood(l4, names)
    BY <1>4, <2>1, PlainLine
  <2>3. LineGood(l5, names)
    BY <1>4, <2>1, NamedLine
  <2>4. \A x \in {l1, l2, l3, l4, l5} : LineGood(x, names)
    BY <2>2, <2>3
  <2>5. <<l1, l2, l3, l4, l5>> \in Seq({l1, l2, l3, l4, l5})
    OBVIOUS
  <2> QED BY <2>4, <2>5, LinesOf
<1>6. PICK e, called : e = Emit(w, <<l1, l2, l3, l4, l5>>) /\ called = [e EXCEPT !.oon = 0]
  OBVIOUS
<1>7. Grows(w, e, names)
  BY <1>3, <1>5, <1>6, EmitGrows DEF Grows
<1>8. Grows(e, called, names)
  BY <1>6, <1>7, SameText DEF Grows, GenGood
<1>9. Grows(g, called, names)
  BY <1>2, <1>3, <1>7, <1>8, GrowsOn
<1>10. PICK r, p, l, m : /\ r = AllocReg(called, ret, rand) /\ p = Alloc(called, ret, r)
                         /\ l = Emit(p, <<Line("LOD_1", r, R_TP, 0)>>) /\ m = Modify(l, r)
  OBVIOUS
<1>11. AsmCall(g, ret, func, rand) = IF ret = Nil THEN called ELSE m
  BY <1>1, <1>4, <1>6, <1>10 DEF AsmCall
<1>12. CASE ret = Nil
  BY <1>9, <1>11, <1>12
<1>13. CASE ret # Nil
  <2>1. Grows(called, p, names)
    BY <1>9, <1>10, <1>13, AllocGrows DEF Grows
  <2>2. Grows(p, l, names)
    <3>1. Lines(<<Line("LOD_1", r, R_TP, 0)>>, names)
      BY PlainLine, OneLine DEF Plain
    <3> QED BY <1>10, <2>1, <3>1, EmitGrows DEF Grows
  <2>3. Grows(l, m, names)
    BY <1>10, <2>2, ModifyGrows DEF Grows
  <2>4. Grows(g, m, names)
    BY <1>9, <2>1, <2>2, <2>3, GrowsOn
  <2> QED BY <1>11, <1>13, <2>4
<1> QED BY <1>12, <1>13

(* asm_return. *)
LEMMA AsmReturnGrows ==
  ASSUME NEW g, NEW names, GenGood(g, names), NEW value, value = Nil \/ Loadable(value, names)
  PROVE  Grows(g, AsmReturn(g, value), names)
<1>1. PICK b, w, l : /\ b = WriteBackAll(g) /\ w = ClearAllRegs(b)
                     /\ l = IF value = Nil THEN w ELSE Load(w, R_TP, value)
  OBVIOUS
<1>2. Grows(g, b, names)
  BY <1>1, WriteBackAllGrows
<1>3. Grows(b, w, names)
  BY <1>1, <1>2, ForgetGrows DEF Grows
<1>4. Grows(w, l, names)
  BY <1>1, <1>3, LoadGrows, GrowsSelf DEF Grows
<1>5. PICK lines : lines = <<Line("LOD_5", R_JP, R_BP, RET_OFF), Line("LOD_4", R_BP, R_BP, 0),
                             Line("JMP_1", R_JP, 0, 0)>>
  OBVIOUS
<1>6. Lines(lines, names)
  BY <1>5, PlainLine, ThreeLines DEF Plain
<1>7. Grows(l, Emit(l, lines), names)
  BY <1>4, <1>6, EmitGrows DEF Grows
<1>8. AsmReturn(g, value) = Emit(l, lines)
  BY <1>1, <1>5 DEF AsmReturn
<1> QED BY <1>2, <1>3, <1>4, <1>7, <1>8, GrowsOn

(* A copy. *)
LEMMA AsmCopyGrows ==
  ASSUME NEW g, NEW names, GenGood(g, names), NEW a, NEW b, NEW rand, Loadable(b, names)
  PROVE  Grows(g, AsmCopy(g, a, b, rand), names)
<1>1. PICK r, p : r = AllocReg(g, b, rand) /\ p = Alloc(g, b, r)
  OBVIOUS
<1>2. Grows(g, p, names)
  BY <1>1, AllocGrows
<1>3. Grows(p, Define(p, r, a), names)
  BY <1>2, DefineGrows DEF Grows
<1> QED BY <1>1, <1>2, <1>3, GrowsOn DEF AsmCopy

(* An input. *)
LEMMA AsmInputGrows ==
  ASSUME NEW g, NEW names, GenGood(g, names), NEW a, NEW rand, Loadable(a, names)
  PROVE  Grows(g, AsmInput(g, a, rand), names)
<1>1. PICK r, p, read, e : /\ r = AllocReg(g, a, rand) /\ p = Alloc(g, a, r)
                           /\ read = IF a.data = "CHAR" THEN "ITC" ELSE "ITI"
                           /\ e = Emit(p, <<Line(read, 0, 0, 0), Line("LOD_1", r, R_IO, 0)>>)
  OBVIOUS
<1>2. Grows(g, p, names)
  BY <1>1, AllocGrows
<1>3. Lines(<<Line(read, 0, 0, 0), Line("LOD_1", r, R_IO, 0)>>, names)
  BY <1>1, PlainLine, TwoLines DEF Plain
<1>4. Grows(p, e, names)
  BY <1>1, <1>2, <1>3, EmitGrows DEF Grows
<1>5. Grows(e, Modify(e, r), names)
  BY <1>4, ModifyGrows DEF Grows
<1> QED BY <1>1, <1>2, <1>4, <1>5, GrowsOn DEF AsmInput

(* An output. *)
LEMMA AsmOutputGrows ==
  ASSUME NEW g, NEW names, GenGood(g, names), NEW a, NEW rand, Loadable(a, names),
         a.type = "TEXT" \/ a.data \in {"INT", "CHAR"}
  PROVE  Grows(g, AsmOutput(g, a, rand), names)
<1>1. PICK r, p : r = AllocReg(g, a, rand) /\ p = Alloc(g, a, r)
  OBVIOUS
<1> DEFINE show == CASE a.type = "TEXT" -> "OTS"
                     [] a.data = "CHAR" -> "OTC"
                     [] a.data = "INT" -> "OTI"
<1>2. Plain(show)
  BY DEF Plain
<1>3. AsmOutput(g, a, rand) = Emit(p, <<Line("LOD_1", R_IO, r, 0), Line(show, 0, 0, 0)>>)
  BY <1>1 DEF AsmOutput
<1> HIDE DEF show
<1>4. Grows(g, p, names)
  BY <1>1, AllocGrows
<1>5. Plain("LOD_1")
  BY DEF Plain
<1>6. Lines(<<Line("LOD_1", R_IO, r, 0), Line(show, 0, 0, 0)>>, names)
  BY <1>2, <1>5, PlainLine, TwoLines
<1>7. Grows(p, Emit(p, <<Line("LOD_1", R_IO, r, 0), Line(show, 0, 0, 0)>>), names)
  BY <1>4, <1>6, EmitGrows DEF Grows
<1> QED BY <1>3, <1>4, <1>7, GrowsOn

(* An argument. *)
LEMMA AsmActualGrows ==
  ASSUME NEW g, NEW names, GenGood(g, names), NEW a, NEW rand, Loadable(a, names)
  PROVE  Grows(g, AsmActual(g, a, rand), names)
<1>1. PICK r, p, e, o : /\ r = AllocReg(g, a, rand) /\ p = Alloc(g, a, r)
                        /\ e = Emit(p, <<Line("STO_3", R_BP, r, g.tof + g.oon)>>)
                        /\ o = e.oon + 4
  OBVIOUS
<1>2. Grows(g, p, names)
  BY <1>1, AllocGrows
<1>3. Lines(<<Line("STO_3", R_BP, r, g.tof + g.oon)>>, names)
  BY PlainLine, OneLine DEF Plain
<1>4. Grows(p, e, names)
  BY <1>1, <1>2, <1>3, EmitGrows DEF Grows
<1>5. Grows(e, [e EXCEPT !.oon = o], names)
  BY <1>4, SameText DEF Grows, GenGood
<1>6. AsmActual(g, a, rand) = [e EXCEPT !.oon = o]
  BY <1>1 DEF AsmActual
<1> QED BY <1>2, <1>4, <1>5, <1>6, GrowsOn

(* A label's line is in the text from then on. *)
LEMMA AsmLabelGrows ==
  ASSUME NEW g, NEW names, GenGood(g, names), NEW name \in names
  PROVE  Grows(g, AsmLabel(g, name), names) /\ Defined(AsmLabel(g, name).text, name)
<1>1. PICK b, w, lines : b = WriteBackAll(g) /\ w = ClearAllRegs(b) /\ lines = <<LabelLine(name)>>
  OBVIOUS
<1>2. Grows(g, b, names)
  BY <1>1, WriteBackAllGrows
<1>3. Grows(b, w, names)
  BY <1>1, <1>2, ForgetGrows DEF Grows
<1>4. Lines(lines, names)
  BY <1>1, LabelLineGood, OneLine
<1>5. PICK e : e = Emit(w, lines)
  OBVIOUS
<1>6. Grows(w, e, names) /\ \A k \in DOMAIN lines : \E j \in DOMAIN e.text : e.text[j] = lines[k]
  BY <1>3, <1>4, <1>5, EmitGrows DEF Grows
<1>7. 1 \in DOMAIN lines /\ lines[1] = LabelLine(name)
  BY <1>1
<1>8. PICK j \in DOMAIN e.text : e.text[j] = LabelLine(name)
  BY <1>6, <1>7
<1>9. Defined(e.text, name)
  BY <1>8, LabelLineGood DEF Defined
<1> QED BY <1>1, <1>2, <1>3, <1>5, <1>6, <1>9, GrowsOn DEF AsmLabel

(* What is declared takes room in the frame and prints nothing. *)
LEMMA DeclarationsGrow ==
  ASSUME NEW g, NEW names, GenGood(g, names), NEW a, NEW size \in Nat
  PROVE  Grows(g, BeginFunc(g), names) /\ Grows(g, Formal(g, a), names) /\ Grows(g, VarCode(g, a, size), names)
<1>1. Grows(g, BeginFunc(g), names)
  BY SameText DEF GenGood, BeginFunc
<1>2. PICK h, n : h = Place(g, a, g.oof) /\ n = h.oof - 4
  OBVIOUS
<1>3. Grows(g, [h EXCEPT !.oof = n], names)
  BY <1>2, SameText DEF GenGood, Place
<1>4. Grows(g, VarCode(g, a, size), names)
  <2>1. PICK p, q, m, n2 : /\ p = Place(g, a, g.tof) /\ q = Place(g, a, g.tos)
                           /\ m = p.tof + size /\ n2 = q.tos + size
    OBVIOUS
  <2>2. VarCode(g, a, size) = IF a.scope = "LOCAL" THEN [p EXCEPT !.tof = m] ELSE [q EXCEPT !.tos = n2]
    BY <2>1 DEF VarCode
  <2>3. DOMAIN p = DOMAIN g /\ p.text = g.text /\ p.tos = g.tos
    BY <2>1 DEF Place, GenGood
  <2>4. DOMAIN q = DOMAIN g /\ q.text = g.text /\ q.tos = g.tos
    BY <2>1 DEF Place, GenGood
  <2>5. n2 \in Nat
    BY <2>1, <2>4 DEF GenGood
  <2>6. Grows(g, [p EXCEPT !.tof = m], names)
    BY <2>3, SameText DEF GenGood
  <2>7. Grows(g, [q EXCEPT !.tos = n2], names)
    BY <2>4, <2>5, SameText DEF GenGood
  <2> QED BY <2>2, <2>6, <2>7
<1> QED BY <1>1, <1>2, <1>3, <1>4 DEF Formal

(* An address. *)
LEMMA AsmAddrGrows ==
  ASSUME NEW g, NEW names, GenGood(g, names), NEW a, NEW b
  PROVE  Grows(g, AsmAddr(g, a, b), names)
<1>1. PICK dirty, saved, r, off, w :
        /\ dirty = Holding(g, b) \cap g.mod
        /\ saved = IF dirty = {} THEN g ELSE WriteBack(g, First(dirty))
        /\ r = AddrReg(saved) /\ off = OffsetOf(g, b) /\ w = WriteBack(saved, r)
  OBVIOUS
<1>2. PICK code :
        code = IF b.scope = "LOCAL"
               THEN <<Line("LOD_1", r, R_BP, 0),
                      IF off >= 0 THEN Line("ADD_0", r, 0, off) ELSE Line("SUB_0", r, 0, -off)>>
               ELSE <<Named("LOD_0", r, "STATIC"), Unsigned("ADD_0", r, 0, off)>>
  OBVIOUS
<1>3. Lines(code, names)
  <2>1. Plain("LOD_1") /\ Plain("ADD_0") /\ Plain("SUB_0") /\ Plain("LOD_0")
    BY DEF Plain
  <2>2. LineGood(Line("LOD_1", r, R_BP, 0), names) /\ LineGood(Unsigned("ADD_0", r, 0, off), names)
    BY <2>1, PlainLine, UnsignedLine
  <2>3. LineGood(IF off >= 0 THEN Line("ADD_0", r, 0, off) ELSE Line("SUB_0", r, 0, -off), names)
    BY <2>1, PlainLine
  <2>4. LineGood(Named("LOD_0", r, "STATIC"), names)
    BY <2>1, NamedLine DEF GenGood
  <2> QED BY <1>2, <2>2, <2>3, <2>4, TwoLines
<1>4. Grows(g, saved, names)
  BY <1>1, WriteBackGrows, GrowsSelf
<1>5. Grows(saved, w, names)
  BY <1>1, <1>4, WriteBackGrows DEF Grows
<1>6. Grows(w, Define(Emit(w, code), r, a), names)
  BY <1>3, <1>5, ComputeGrows DEF Grows
<1>7. AsmAddr(g, a, b) = Define(Emit(w, code), r, a)
  BY <1>1, <1>2 DEF AsmAddr
<1> QED BY <1>4, <1>5, <1>6, <1>7, GrowsOn

(* A load through a pointer. *)
LEMMA AsmLoadPtrGrows ==
  ASSUME NEW g, NEW names, GenGood(g, names), NEW a, NEW b, NEW rand, Loadable(b, names)
  PROVE  Grows(g, AsmLoadPtr(g, a, b, rand), names)
<1>1. PICK rp, placed, rv, w, c, load :
        /\ rp = AllocReg(g, b, rand) /\ placed = Alloc(g, b, rp) /\ rv = ValueReg(placed, rp)
        /\ w = WriteBack(placed, rv) /\ c = RdescClear(w, rv)
        /\ load = IF a.data = "CHAR" THEN "LDC_4" ELSE "LOD_4"
  OBVIOUS
<1>2. Grows(g, placed, names)
  BY <1>1, AllocGrows
<1>3. Grows(placed, w, names)
  BY <1>1, <1>2, WriteBackGrows DEF Grows
<1>4. Grows(w, c, names)
  BY <1>1, <1>3, ClearGrows DEF Grows
<1>5. Lines(<<Line(load, rv, rp, 0)>>, names)
  BY <1>1, PlainLine, OneLine DEF Plain
<1>6. Grows(c, Define(Emit(c, <<Line(load, rv, rp, 0)>>), rv, a), names)
  BY <1>4, <1>5, ComputeGrows DEF Grows
<1>7. AsmLoadPtr(g, a, b, rand) = Define(Emit(c, <<Line(load, rv, rp, 0)>>), rv, a)
  BY <1>1 DEF AsmLoadPtr
<1> QED BY <1>2, <1>3, <1>4, <1>6, <1>7, GrowsOn

(* A store through a pointer. *)
LEMMA AsmStorePtrGrows ==
  ASSUME NEW g, NEW names, GenGood(g, names), NEW a, NEW b, NEW rand,
         Loadable(a, names), Loadable(b, names)
  PROVE  Grows(g, AsmStorePtr(g, a, b, rand), names)
<1>1. PICK ra, p, rb, placed, off :
        /\ ra = AllocReg(g, a, rand) /\ p = Alloc(g, a, ra) /\ rb = AllocReg(p, b, rand)
        /\ placed = Alloc(p, b, rb) /\ off = OffsetOf(g, a)
  OBVIOUS
<1>2. PICK reload : reload = IF a.scope = "LOCAL" THEN <<Unsigned("LOD_5", R_TP, R_BP, off)>>
                    ELSE <<Named("LOD_0", R_TP, "STATIC"), Unsigned("LOD_5", R_TP, R_TP, off)>>
  OBVIOUS
<1>3. PICK store : store = Line(IF b.data = "CHAR" THEN "STC_1" ELSE "STO_1",
                                IF ra = rb THEN R_TP ELSE ra, rb, 0)
  OBVIOUS
<1>4. PICK code : code = IF ra = rb THEN Append(reload, store) ELSE <<store>>
  OBVIOUS
<1>5. PICK stored, w : stored = Emit(placed, code) /\ w = WriteBackAll(stored)
  OBVIOUS
<1>6. AsmStorePtr(g, a, b, rand) = ClearAllRegs(w)
  BY <1>1, <1>2, <1>3, <1>4, <1>5 DEF AsmStorePtr
<1>7. Lines(reload, names)
  <2>1. Plain("LOD_0") /\ Plain("LOD_5")
    BY DEF Plain
  <2>2. LineGood(Named("LOD_0", R_TP, "STATIC"), names)
    BY <2>1, NamedLine DEF GenGood
  <2>3. \A ry : LineGood(Unsigned("LOD_5", R_TP, ry, off), names)
    BY <2>1, UnsignedLine
  <2> QED BY <1>2, <2>2, <2>3, OneLine, TwoLines
<1>8. LineGood(store, names)
  BY <1>3, PlainLine DEF Plain
<1>9. Lines(code, names)
  <2>1. Lines(<<store>>, names)
    BY <1>8, OneLine
  <2>2. Append(reload, store) = reload \o <<store>>
    BY <1>7, AppendIsConcat DEF Lines, Listed
  <2> QED BY <1>4, <1>7, <2>1, <2>2, LinesJoined
<1>10. Grows(g, p, names)
  BY <1>1, AllocGrows
<1>11. Grows(p, placed, names)
  BY <1>1, <1>10, AllocGrows DEF Grows
<1>12. Grows(placed, stored, names)
  BY <1>5, <1>9, <1>11, EmitGrows DEF Grows
<1>13. Grows(stored, w, names)
  BY <1>5, <1>12, WriteBackAllGrows DEF Grows
<1>14. Grows(w, ClearAllRegs(w), names)
  BY <1>13, ForgetGrows DEF Grows
<1>15. Grows(g, stored, names)
  BY <1>10, <1>11, <1>12, GrowsOn
<1> QED BY <1>6, <1>13, <1>14, <1>15, GrowsOn

(* One TAC, when the program has what it refers to. *)
TacGood(t, names) ==
  /\ t.op \in Opcodes
  /\ t.op \in {"GOTO", "IFZ", "LABEL"} => t.a.name \in names
  /\ t.op = "CALL" => t.b.name \in names
  /\ t.op = "VAR" => Number(t.c) \in Nat
  /\ t.op = "OUTPUT" => t.a.type = "TEXT" \/ t.a.data \in {"INT", "CHAR"}
  /\ \A s \in Loaded(t) : Loadable(s, names)

(* Both operands of an operation are loaded. *)
LEMMA OperandsLoaded ==
  ASSUME NEW t, NEW names, TacGood(t, names), t.op \in Arithmetic \cup Relations
  PROVE  Loadable(t.b, names) /\ Loadable(t.c, names)
<1>1. t.op \notin {"NEG", "COPY", "LOAD_PTR", "INPUT", "OUTPUT", "ACTUAL", "IFZ", "CALL", "RETURN",
                   "STORE_PTR"}
  BY DEF Arithmetic, Relations
<1>2. Loaded(t) = {t.b, t.c}
  BY <1>1 DEF Loaded
<1>3. t.b \in Loaded(t) /\ t.c \in Loaded(t)
  BY <1>2
<1> QED BY <1>3 DEF TacGood

(* asm_code: every TAC prints good lines, and a LABEL its definition. *)
LEMMA AsmCodeGrows ==
  ASSUME NEW g, NEW names, GenGood(g, names), NEW t, TacGood(t, names), NEW rand
  PROVE  /\ Grows(g, AsmCode(g, t, rand), names)
         /\ t.op = "LABEL" => Defined(AsmCode(g, t, rand).text, t.a.name)
<1>1. PICK h : h = AsmCode(g, t, rand)
  OBVIOUS
<1>2. CASE t.op \in Arithmetic
  <2>0. t.op \in {"ADD", "SUB", "MUL", "DIV"}
    BY <1>2 DEF Arithmetic
  <2>1. h = AsmBin(g, t.op, t.a, t.b, t.c, rand).g
    BY <1>1, <2>0 DEF AsmCode, Jump
  <2>2. Loadable(t.b, names) /\ Loadable(t.c, names)
    BY <1>2, OperandsLoaded
  <2>3. t.op # "LABEL"
    BY <1>2 DEF Arithmetic
  <2>4. Grows(g, h, names)
    BY <1>2, <2>1, <2>2, AsmBinGrows
  <2> QED BY <1>1, <2>3, <2>4
<1>3. CASE t.op \in Relations
  <2>1. h = AsmCmp(g, t.op, t.a, t.b, t.c, rand)
    BY <1>1, <1>3 DEF AsmCode, Relations, Jump
  <2>2. Loadable(t.b, names) /\ Loadable(t.c, names)
    BY <1>3, OperandsLoaded
  <2>3. t.op # "LABEL"
    BY <1>3 DEF Relations
  <2>4. Grows(g, h, names)
    BY <1>3, <2>1, <2>2, AsmCmpGrows
  <2> QED BY <1>1, <2>3, <2>4
<1>4. CASE t.op = "NEG"
  <2>1. h = AsmBin(g, "SUB", t.a, Zero, t.b, rand).g
    BY <1>1, <1>4 DEF AsmCode, Jump
  <2>2. Loadable(t.b, names)
    BY <1>4 DEF TacGood, Loaded, Arithmetic, Relations
  <2>3. Loadable(Zero, names)
    BY DEF Loadable, Zero, Const, Symbol
  <2>4. Grows(g, h, names)
    BY <2>1, <2>2, <2>3, AsmBinGrows DEF Arithmetic
  <2> QED BY <1>1, <1>4, <2>4
<1>5. CASE t.op = "COPY"
  <2>1. h = AsmCopy(g, t.a, t.b, rand)
    BY <1>1, <1>5 DEF AsmCode, Jump
  <2>2. Loadable(t.b, names)
    BY <1>5 DEF TacGood, Loaded, Arithmetic, Relations
  <2>3. Grows(g, h, names)
    BY <2>1, <2>2, AsmCopyGrows
  <2> QED BY <1>1, <1>5, <2>3
<1>6. CASE t.op = "INPUT"
  <2>1. h = AsmInput(g, t.a, rand)
    BY <1>1, <1>6 DEF AsmCode, Jump
  <2>2. Loadable(t.a, names)
    BY <1>6 DEF TacGood, Loaded, Arithmetic, Relations
  <2>3. Grows(g, h, names)
    BY <2>1, <2>2, AsmInputGrows
  <2> QED BY <1>1, <1>6, <2>3
<1>7. CASE t.op = "OUTPUT"
  <2>1. h = AsmOutput(g, t.a, rand)
    BY <1>1, <1>7 DEF AsmCode, Jump
  <2>2. Loadable(t.a, names)
    BY <1>7 DEF TacGood, Loaded, Arithmetic, Relations
  <2>3. t.a.type = "TEXT" \/ t.a.data \in {"INT", "CHAR"}
    BY <1>7 DEF TacGood
  <2>4. Grows(g, h, names)
    BY <2>1, <2>2, <2>3, AsmOutputGrows
  <2> QED BY <1>1, <1>7, <2>4
<1>8. CASE t.op = "GOTO"
  <2>1. h = AsmCond(g, "JMP_0", Nil, t.a.name, rand)
    BY <1>1, <1>8 DEF AsmCode, Jump
  <2>2. t.a.name \in names /\ Plain("JMP_0")
    BY <1>8 DEF TacGood, Plain
  <2>3. Grows(g, h, names)
    BY <2>1, <2>2, AsmCondGrows
  <2> QED BY <1>1, <1>8, <2>3
<1>9. CASE t.op = "IFZ"
  <2>1. h = AsmCond(g, "JEZ_0", t.b, t.a.name, rand)
    BY <1>1, <1>9 DEF AsmCode, Jump
  <2>2. t.a.name \in names /\ Plain("JEZ_0")
    BY <1>9 DEF TacGood, Plain
  <2>3. t.b = Nil \/ Loadable(t.b, names)
    BY <1>9 DEF TacGood, Loaded, Arithmetic, Relations
  <2>4. Grows(g, h, names)
    BY <2>1, <2>2, <2>3, AsmCondGrows
  <2> QED BY <1>1, <1>9, <2>4
<1>10. CASE t.op = "LABEL"
  <2>1. h = AsmLabel(g, t.a.name)
    BY <1>1, <1>10 DEF AsmCode, Jump
  <2>2. t.a.name \in names
    BY <1>10 DEF TacGood
  <2>3. Grows(g, h, names) /\ Defined(h.text, t.a.name)
    BY <2>1, <2>2, AsmLabelGrows
  <2> QED BY <1>1, <2>3
<1>11. CASE t.op = "ACTUAL"
  <2>1. h = AsmActual(g, t.a, rand)
    BY <1>1, <1>11 DEF AsmCode, Jump
  <2>2. Loadable(t.a, names)
    BY <1>11 DEF TacGood, Loaded, Arithmetic, Relations
  <2>3. Grows(g, h, names)
    BY <2>1, <2>2, AsmActualGrows
  <2> QED BY <1>1, <1>11, <2>3
<1>12. CASE t.op = "CALL"
  <2>1. h = AsmCall(g, t.a, t.b, rand)
    BY <1>1, <1>12 DEF AsmCode, Jump
  <2>2. t.b.name \in names
    BY <1>12 DEF TacGood
  <2>3. t.a = Nil \/ Loadable(t.a, names)
    BY <1>12 DEF TacGood, Loaded, Arithmetic, Relations
  <2>4. Grows(g, h, names)
    BY <2>1, <2>2, <2>3, AsmCallGrows
  <2> QED BY <1>1, <1>12, <2>4
<1>13. CASE t.op \in {"BEGINFUNC", "FORMAL", "VAR"}
  <2>1. h \in {BeginFunc(g), Formal(g, t.a), VarCode(g, t.a, Number(t.c))}
    BY <1>1, <1>13 DEF AsmCode, Jump
  <2>2. t.op = "VAR" => Number(t.c) \in Nat
    BY DEF TacGood
  <2>3. t.op # "VAR" => h \in {BeginFunc(g), Formal(g, t.a)}
    BY <1>1, <1>13 DEF AsmCode, Jump
  <2>4. Grows(g, BeginFunc(g), names) /\ Grows(g, Formal(g, t.a), names)
    BY DeclarationsGrow
  <2>5. t.op = "VAR" => Grows(g, VarCode(g, t.a, Number(t.c)), names)
    BY <2>2, DeclarationsGrow
  <2> QED BY <1>1, <1>13, <2>1, <2>3, <2>4, <2>5
<1>14. CASE t.op = "RETURN"
  <2>1. h = AsmReturn(g, t.a)
    BY <1>1, <1>14 DEF AsmCode, Jump
  <2>2. t.a = Nil \/ Loadable(t.a, names)
    BY <1>14 DEF TacGood, Loaded, Arithmetic, Relations
  <2>3. Grows(g, h, names)
    BY <2>1, <2>2, AsmReturnGrows
  <2> QED BY <1>1, <1>14, <2>3
<1>15. CASE t.op = "ENDFUNC"
  <2>1. h = AsmReturn(g, Nil)
    BY <1>1, <1>15 DEF AsmCode, Jump
  <2>2. Grows(g, h, names)
    BY <2>1, AsmReturnGrows
  <2> QED BY <1>1, <1>15, <2>2
<1>16. CASE t.op = "ADDR"
  <2>1. h = AsmAddr(g, t.a, t.b)
    BY <1>1, <1>16 DEF AsmCode, Jump
  <2>2. Grows(g, h, names)
    BY <2>1, AsmAddrGrows
  <2> QED BY <1>1, <1>16, <2>2
<1>17. CASE t.op = "LOAD_PTR"
  <2>1. h = AsmLoadPtr(g, t.a, t.b, rand)
    BY <1>1, <1>17 DEF AsmCode, Jump
  <2>2. Loadable(t.b, names)
    BY <1>17 DEF TacGood, Loaded, Arithmetic, Relations
  <2>3. Grows(g, h, names)
    BY <2>1, <2>2, AsmLoadPtrGrows
  <2> QED BY <1>1, <1>17, <2>3
<1>18. CASE t.op = "STORE_PTR"
  <2>1. h = AsmStorePtr(g, t.a, t.b, rand)
    BY <1>1, <1>18 DEF AsmCode, Jump
  <2>2. Loadable(t.a, names) /\ Loadable(t.b, names)
    BY <1>18 DEF TacGood, Loaded, Arithmetic, Relations
  <2>3. Grows(g, h, names)
    BY <2>1, <2>2, AsmStorePtrGrows
  <2> QED BY <1>1, <1>18, <2>3
<1> QED BY <1>2, <1>3, <1>4, <1>5, <1>6, <1>7, <1>8, <1>9, <1>10, <1>11, <1>12, <1>13, <1>14, <1>15,
           <1>16, <1>17, <1>18 DEF TacGood, Opcodes

-----------------------------------------------------------------------------
(* The lines around the program's own. *)
LEMMA FourLines ==
  ASSUME NEW names, NEW l1, NEW l2, NEW l3, NEW l4,
         LineGood(l1, names), LineGood(l2, names), LineGood(l3, names), LineGood(l4, names)
  PROVE  Lines(<<l1, l2, l3, l4>>, names)
<1>1. <<l1, l2, l3, l4>> \in Seq({l1, l2, l3, l4})
  OBVIOUS
<1>2. \A x \in {l1, l2, l3, l4} : LineGood(x, names)
  OBVIOUS
<1> QED BY <1>1, <1>2, LinesOf

(* The names every text has. *)
Fixed == {"EXIT", "STATIC", "STACK", "main"}

(* The generator before it has printed anything. *)
LEMMA FreshGood ==
  ASSUME NEW names, Fixed \subseteq names
  PROVE  GenGood(Fresh, names) /\ Fresh.text = <<>>
<1>1. /\ DOMAIN Fresh = {"text", "var", "mod", "tof", "oof", "oon", "tos", "offset"}
      /\ Fresh.text = <<>> /\ Fresh.tos \in Nat
  BY DEF Fresh
<1> QED BY <1>1, NoLines DEF GenGood, Fixed

(* The first line of the head is an instruction. *)
LEMMA AsmHeadGood ==
  ASSUME NEW tacs, NEW names, Fixed \subseteq names
  PROVE  /\ GenGood(AsmHead(Fresh, tacs), names)
         /\ 1 \in DOMAIN AsmHead(Fresh, tacs).text
         /\ Extent(AsmHead(Fresh, tacs).text[1]) > 0
<1>1. PICK l1, l2, l3, l4, j :
        /\ l1 = Named("LOD_0", R_BP, "STACK") /\ l2 = Line("STO_0", R_BP, 0, 0)
        /\ l3 = Named("LOD_0", R_TP, "EXIT") /\ l4 = Line("STO_3", R_BP, R_TP, RET_OFF)
        /\ j = Named("JMP_0", 0, "main")
  OBVIOUS
<1>2. PICK first, rest : /\ first = <<l1, l2, l3, l4>>
                         /\ rest = IF MainFirst(tacs) THEN <<>> ELSE <<j>>
  OBVIOUS
<1>3. PICK lines, h : lines = first \o rest /\ h = Emit(Fresh, lines)
  OBVIOUS
<1>4. AsmHead(Fresh, tacs) = h
  BY <1>1, <1>2, <1>3 DEF AsmHead
<1>5. /\ LineGood(l1, names) /\ LineGood(l2, names) /\ LineGood(l3, names)
      /\ LineGood(l4, names) /\ LineGood(j, names)
  <2>1. Plain("LOD_0") /\ Plain("STO_0") /\ Plain("STO_3") /\ Plain("JMP_0")
    BY DEF Plain
  <2>2. "STACK" \in names /\ "EXIT" \in names /\ "main" \in names
    BY DEF Fixed
  <2> QED BY <1>1, <2>1, <2>2, PlainLine, NamedLine
<1>6. Lines(first, names)
  BY <1>2, <1>5, FourLines
<1>7. Lines(rest, names)
  BY <1>2, <1>5, OneLine, NoLines
<1>8. Lines(lines, names)
  BY <1>3, <1>6, <1>7, LinesJoined
<1>9. GenGood(Fresh, names) /\ Fresh.text = <<>>
  BY FreshGood
<1>10. GenGood(h, names)
  BY <1>3, <1>8, <1>9, EmitGrows DEF Grows
<1>11. h.text = <<>> \o lines
  BY <1>3, <1>9 DEF Emit, Fresh
<1>12. Joined(first, rest, lines) /\ Joined(<<>>, lines, h.text)
  BY <1>3, <1>6, <1>7, <1>8, <1>11, Concatenation, NoLines DEF Lines
<1>13. 1 \in DOMAIN first /\ first[1] = l1
  BY <1>2
<1>14. 1 \in DOMAIN lines /\ lines[1] = l1
  BY <1>12, <1>13 DEF Joined
<1>15. 1 \in DOMAIN h.text /\ h.text[1] = l1
  BY <1>12, <1>14 DEF Joined
<1>16. Extent(l1) > 0
  <2>1. l1.op = "LOD_0"
    BY <1>1 DEF Named, Line
  <2>2. Extent(l1) = 8
    BY <2>1 DEF Extent
  <2> QED BY <2>2
<1> QED BY <1>4, <1>10, <1>15, <1>16

(* asm_tail defines EXIT. *)
LEMMA AsmTailGrows ==
  ASSUME NEW g, NEW names, GenGood(g, names)
  PROVE  Grows(g, AsmTail(g), names) /\ Defined(AsmTail(g).text, "EXIT")
<1>1. PICK lines, h : /\ lines = <<LabelLine("EXIT"), Line("END", 0, 0, 0)>>
                      /\ h = Emit(g, lines)
  OBVIOUS
<1>2. "EXIT" \in names /\ Plain("END")
  BY DEF GenGood, Plain
<1>3. Lines(lines, names)
  BY <1>1, <1>2, LabelLineGood, PlainLine, TwoLines
<1>4. Grows(g, h, names) /\ \A k \in DOMAIN lines : \E j \in DOMAIN h.text : h.text[j] = lines[k]
  BY <1>1, <1>3, EmitGrows
<1>5. 1 \in DOMAIN lines /\ lines[1] = LabelLine("EXIT")
  BY <1>1
<1>6. PICK j \in DOMAIN h.text : h.text[j] = LabelLine("EXIT")
  BY <1>4, <1>5
<1>7. Defined(h.text, "EXIT")
  BY <1>2, <1>6, LabelLineGood DEF Defined
<1> QED BY <1>1, <1>4, <1>7 DEF AsmTail

(* A text is its label and its characters with the null behind them. *)
LEMMA AsmStrLines ==
  ASSUME NEW s, Listed(s.value), NEW names, s.name \in names
  PROVE  /\ Lines(AsmStr(s), names)
         /\ 1 \in DOMAIN AsmStr(s) /\ AsmStr(s)[1] = LabelLine(s.name)
<1>1. PICK bytes : bytes = Append(s.value, 0)
  OBVIOUS
<1>2. PICK dbs : dbs = [Named("DBS", 0, "") EXCEPT !.bytes = bytes]
  OBVIOUS
<1>3. Len(bytes) \in Nat
  <2>1. PICK S : S = Range(s.value) \cup {0}
    OBVIOUS
  <2>2. s.value \in Seq(S)
    BY <2>1, SeqMonotonic DEF Listed
  <2>3. bytes \in Seq(S)
    BY <1>1, <2>1, <2>2, AppendProperties
  <2> QED BY <2>3, LenProperties
<1>4. LineGood(dbs, names)
  <2>1. /\ DOMAIN dbs = {"op", "rx", "ry", "n", "name", "bytes"}
        /\ dbs.op = "DBS" /\ dbs.name = "" /\ dbs.bytes = bytes
    BY <1>2 DEF Named, Line
  <2>2. Extent(dbs) = Len(bytes)
    BY <2>1 DEF Extent
  <2> QED BY <1>3, <2>1, <2>2 DEF LineGood, IsLine
<1>5. AsmStr(s) = <<LabelLine(s.name), dbs>>
  BY <1>1, <1>2 DEF AsmStr, TextLabel
<1>6. LineGood(LabelLine(s.name), names)
  BY LabelLineGood
<1>7. Lines(<<LabelLine(s.name), dbs>>, names)
  BY <1>4, <1>6, TwoLines
<1> QED BY <1>5, <1>7

(* asm_static defines the texts, STATIC and STACK. *)
LEMMA AsmStaticGrows ==
  ASSUME NEW g, NEW names, GenGood(g, names), NEW texts, Listed(texts),
         \A i \in DOMAIN texts : Listed(texts[i].value) /\ texts[i].name \in names
  PROVE  /\ Grows(g, AsmStatic(g, texts), names)
         /\ Defined(AsmStatic(g, texts).text, "STATIC")
         /\ Defined(AsmStatic(g, texts).text, "STACK")
         /\ \A i \in DOMAIN texts : Defined(AsmStatic(g, texts).text, texts[i].name)
<1>1. PICK n : n = Len(texts)
  OBVIOUS
<1>2. n \in Nat /\ DOMAIN texts = 1..n
  BY <1>1, ListedMeans
<1>3. PICK strs : strs = [i \in 1..n |-> AsmStr(texts[i])]
  OBVIOUS
<1>4. ASSUME NEW i \in 1..n
      PROVE  /\ Lines(strs[i], names)
             /\ 1 \in DOMAIN strs[i] /\ strs[i][1] = LabelLine(texts[i].name)
  BY <1>2, <1>3, AsmStrLines
<1>5. Listed(strs) /\ Len(strs) = n
  <2>1. PICK S : S = {strs[i] : i \in 1..n}
    OBVIOUS
  <2>2. strs \in [1..n -> S]
    BY <1>3, <2>1
  <2>3. strs \in Seq(S)
    BY <1>2, <2>2, SeqDef
  <2>4. Len(strs) = n
    BY <1>2, <1>3, <2>3, LengthIs
  <2> QED BY <2>3, <2>4, SeqIsListed
<1>6. PICK flat : flat = FlattenSeq(strs)
  OBVIOUS
<1>7. Holds(n, strs, flat)
  BY <1>2, <1>4, <1>5, <1>6, Flattening DEF Lines
<1>8. Lines(flat, names)
  <2>1. \A i \in 1..n : \A x \in Range(strs[i]) : LineGood(x, names)
    BY <1>4 DEF Lines, Range
  <2> QED BY <1>7, <2>1 DEF Holds, Lines
<1>9. PICK dbn, last : /\ dbn = Line("DBN", 0, 0, g.tos)
                       /\ last = <<LabelLine("STATIC"), dbn, LabelLine("STACK")>>
  OBVIOUS
<1>10. LineGood(dbn, names)
  BY <1>9 DEF LineGood, IsLine, Line, Extent, GenGood
<1>11. "STATIC" \in names /\ "STACK" \in names
  BY DEF GenGood
<1>12. Lines(last, names)
  BY <1>9, <1>10, <1>11, LabelLineGood, ThreeLines
<1>13. PICK lines, h : lines = flat \o last /\ h = Emit(g, lines)
  OBVIOUS
<1>14. Lines(lines, names)
  BY <1>8, <1>12, <1>13, LinesJoined
<1>15. Joined(flat, last, lines)
  BY <1>8, <1>12, <1>13, Concatenation DEF Lines
<1>16. /\ Grows(g, h, names)
       /\ \A k \in DOMAIN lines : \E j \in DOMAIN h.text : h.text[j] = lines[k]
  <2>1. h = Emit(g, lines)
    BY <1>13
  <2>2. Grows(g, Emit(g, lines), names)
    BY <1>14, EmitGrows
  <2>3. ASSUME NEW k \in DOMAIN lines
        PROVE  \E j \in DOMAIN Emit(g, lines).text : Emit(g, lines).text[j] = lines[k]
    BY <1>14, EmitHas
  <2> QED BY <2>1, <2>2, <2>3
<1>17. AsmStatic(g, texts) = h
  BY <1>2, <1>3, <1>6, <1>9, <1>13 DEF AsmStatic
<1>18. ASSUME NEW name \in names, NEW k \in DOMAIN lines, lines[k] = LabelLine(name)
       PROVE  Defined(h.text, name)
  <2>1. PICK j \in DOMAIN h.text : h.text[j] = LabelLine(name)
    BY <1>16, <1>18
  <2> QED BY <2>1, LabelLineGood DEF Defined
<1>19. 1 \in DOMAIN last /\ 3 \in DOMAIN last /\ last[1] = LabelLine("STATIC") /\ last[3] = LabelLine("STACK")
  BY <1>9
<1>20. Defined(h.text, "STATIC")
  <2>1. \E k \in DOMAIN lines : lines[k] = LabelLine("STATIC")
    BY <1>15, <1>19 DEF Joined
  <2> QED BY <1>11, <1>18, <2>1
<1>21. Defined(h.text, "STACK")
  <2>1. \E k \in DOMAIN lines : lines[k] = LabelLine("STACK")
    BY <1>15, <1>19 DEF Joined
  <2> QED BY <1>11, <1>18, <2>1
<1>22. ASSUME NEW i \in DOMAIN texts
       PROVE  Defined(h.text, texts[i].name)
  <2>1. i \in 1..n /\ 1 \in DOMAIN strs[i] /\ strs[i][1] = LabelLine(texts[i].name)
    BY <1>2, <1>4
  <2>2. \E k \in DOMAIN flat : flat[k] = LabelLine(texts[i].name)
    BY <1>7, <2>1 DEF Holds
  <2>3. \E k \in DOMAIN lines : lines[k] = LabelLine(texts[i].name)
    BY <1>15, <2>2 DEF Joined
  <2> QED BY <1>18, <2>3
<1> QED BY <1>16, <1>17, <1>20, <1>21, <1>22

(* The names of a program, its own and those the generator adds. *)
Placed(p) == {p.tacs[i].a.name : i \in {j \in DOMAIN p.tacs : p.tacs[j].op = "LABEL"}}
TextNames(p) == {p.texts[i].name : i \in DOMAIN p.texts}
Names(p) == Placed(p) \cup TextNames(p) \cup Fixed

(* A complete program has good TACs only. *)
LEMMA CompleteMeans ==
  ASSUME NEW p, Complete(p)
  PROVE  /\ Listed(p.tacs) /\ Listed(p.texts) /\ "main" \in Placed(p)
         /\ \A i \in DOMAIN p.texts : Listed(p.texts[i].value) /\ p.texts[i].name \in Names(p)
         /\ \A i \in DOMAIN p.tacs : TacGood(p.tacs[i], Names(p))
<1>1. /\ Listed(p.tacs) /\ Listed(p.texts) /\ "main" \in Placed(p)
      /\ \A i \in DOMAIN p.texts : Listed(p.texts[i].value)
  BY DEF Complete, Placed
<1>2. \A i \in DOMAIN p.texts : p.texts[i].name \in Names(p)
  BY DEF Names, TextNames
<1>3. ASSUME NEW i \in DOMAIN p.tacs
      PROVE  TacGood(p.tacs[i], Names(p))
  <2>1. PICK t : t = p.tacs[i]
    OBVIOUS
  <2>2. /\ t.op \in Opcodes
        /\ t.op \in {"GOTO", "IFZ"} => t.a.name \in Placed(p)
        /\ t.op = "CALL" => t.b.name \in Placed(p)
        /\ t.op = "VAR" => Number(t.c) \in Nat
        /\ t.op = "OUTPUT" => t.a.type = "TEXT" \/ t.a.data \in {"INT", "CHAR"}
    BY <2>1 DEF Complete, Placed
  <2>3. \A s \in Loaded(t) : /\ s.type \in {"CONST_INT", "CONST_CHAR", "VAR", "TEXT"}
                             /\ s.type = "TEXT" => s.name \in TextNames(p)
    BY <2>1 DEF Complete, TextNames
  <2>4. t.op = "LABEL" => t.a.name \in Placed(p)
    BY <2>1 DEF Placed
  <2>5. \A s \in Loaded(t) : Loadable(s, Names(p))
    BY <2>3 DEF Loadable, Names
  <2> QED BY <2>1, <2>2, <2>4, <2>5 DEF TacGood, Names
<1> QED BY <1>1, <1>2, <1>3

-----------------------------------------------------------------------------
(* The assembler: what it knows before it reads line k of the text.        *)

(* A text that begins with an instruction, as all of the generator's do.   *)
Roomy(text) == 1 \in DOMAIN text /\ Extent(text[1]) > 0

Defines(l, name) == l.op = "LABEL" /\ l.name = name
Uses(l) == l.op = "LABEL" \/ l.name # ""

(* An entry of the table is undefined as yet, or has the address of one of *)
(* the definitions read.                                                   *)
EntryGood(e, text, k) ==
  \/ e.addr = 0 /\ \A j \in 1..(k - 1) : ~Defines(text[j], e.name)
  \/ \E j \in 1..(k - 1) : Defines(text[j], e.name) /\ e.addr = Addresses(text)[j]

(* The table has an entry, and but one, for every name read.               *)
TableGood(table, text, k) ==
  /\ Listed(table)
  /\ \A i \in DOMAIN table : \E x : table[i] = [name |-> table[i].name, addr |-> x]
  /\ \A i, j \in DOMAIN table : table[i].name = table[j].name => i = j
  /\ \A i \in DOMAIN table : EntryGood(table[i], text, k)
  /\ \A j \in 1..(k - 1) : Uses(text[j]) => \E i \in DOMAIN table : table[i].name = text[j].name

(* Nothing read was defined twice. *)
OnceBefore(text, k) ==
  \A i, j \in 1..(k - 1) :
    text[i].op = "LABEL" /\ text[j].op = "LABEL" /\ text[i].name = text[j].name => i = j

(* Every label operand of the image is an address of that label. *)
CodeGood(code, text) ==
  \A x \in DOMAIN code :
    code[x].name # "" =>
      \E k \in DOMAIN text : Defines(text[k], code[x].name) /\ code[x].n = Addresses(text)[k]

(* In the second pass the table is that of the whole text. *)
AsmGood(a, text, k) ==
  /\ DOMAIN a = {"table", "pass", "ip", "state", "code", "data"}
  /\ a.pass \in {1, 2} /\ a.state \in {"reading", "done", "refused"}
  /\ a.state = "reading" => k \in 1..(Len(text) + 1) /\ a.ip = Addresses(text)[k]
  /\ a.state = "done" => a.pass = 2
  /\ a.state # "refused" =>
       \E m : /\ m = IF a.pass = 1 THEN k ELSE Len(text) + 1
              /\ TableGood(a.table, text, m)
              /\ Roomy(text) => OnceBefore(text, m)
  /\ a.state # "refused" => CodeGood(a.code, text)

(* The assembler before the first line. *)
LEMMA BeginGood ==
  ASSUME NEW text, IsText(text)
  PROVE  AsmGood(Begin, text, 1)
<1>1. Len(text) \in Nat /\ Addresses(text)[1] = 0
  BY ListedMeans, AddressesAre DEF IsText, IsLine
<1>2. /\ DOMAIN Begin = {"table", "pass", "ip", "state", "code", "data"}
      /\ Begin.table = <<>> /\ Begin.pass = 1 /\ Begin.ip = 0 /\ Begin.state = "reading"
      /\ DOMAIN Begin.code = {}
  BY DEF Begin
<1>3. TableGood(<<>>, text, 1)
  BY DEF TableGood, Listed
<1>4. OnceBefore(text, 1)
  BY DEF OnceBefore
<1>5. CodeGood(Begin.code, text)
  BY <1>2 DEF CodeGood
<1> QED BY <1>1, <1>2, <1>3, <1>4, <1>5 DEF AsmGood

(* What the search for a name in the table finds. *)
LEMMA Lookup ==
  ASSUME NEW a, NEW text, NEW k, TableGood(a.table, text, k), NEW i \in DOMAIN a.table
  PROVE  /\ Known(a, a.table[i].name)
         /\ (CHOOSE j \in Entry(a, a.table[i].name) : TRUE) = i
         /\ AddressOf(a, a.table[i].name) = a.table[i].addr
<1>1. Entry(a, a.table[i].name) = {i}
  BY DEF Entry, TableGood
<1>2. (CHOOSE j \in Entry(a, a.table[i].name) : TRUE) = i
  BY <1>1
<1> QED BY <1>1, <1>2 DEF Known, AddressOf

(* A name that is read is in the table then. *)
LEMMA EnterGood ==
  ASSUME NEW a, "table" \in DOMAIN a, NEW text, NEW k \in Nat, TableGood(a.table, text, k), NEW name
  PROVE  /\ DOMAIN Enter(a, name) = DOMAIN a
         /\ \A f \in DOMAIN a : f # "table" => Enter(a, name)[f] = a[f]
         /\ TableGood(Enter(a, name).table, text, k)
         /\ \E i \in DOMAIN Enter(a, name).table : Enter(a, name).table[i].name = name
<1>1. CASE Known(a, name)
  <2>1. Enter(a, name) = a
    BY <1>1 DEF Enter
  <2>2. \E i \in DOMAIN a.table : a.table[i].name = name
    BY <1>1 DEF Known, Entry
  <2> QED BY <2>1, <2>2
<1>2. CASE ~Known(a, name)
  <2>1. PICK e, t : e = [name |-> name, addr |-> 0] /\ t = Append(a.table, e)
    OBVIOUS
  <2>2. Enter(a, name) = [a EXCEPT !.table = t]
    BY <1>2, <2>1 DEF Enter
  <2>3. PICK n : n = Len(a.table)
    OBVIOUS
  <2>4. n \in Nat /\ DOMAIN a.table = 1..n
    BY <2>3, ListedMeans DEF TableGood
  <2>5. /\ Listed(t) /\ DOMAIN t = 1..(n + 1) /\ t[n + 1] = e
        /\ \A i \in 1..n : t[i] = a.table[i]
    <3>1. PICK S : S = Range(a.table) \cup {e}
      OBVIOUS
    <3>2. a.table \in Seq(S)
      BY <3>1, SeqMonotonic DEF TableGood, Listed
    <3>3. /\ t \in Seq(S) /\ Len(t) = n + 1 /\ t[n + 1] = e
          /\ \A i \in 1..n : t[i] = a.table[i]
      BY <2>1, <2>3, <3>1, <3>2, AppendProperties
    <3> QED BY <3>3, SeqIsListed, LenProperties
  <2>6. \A i \in 1..n : a.table[i].name # name
    BY <1>2, <2>4 DEF Known, Entry
  <2>7. \A i, j \in DOMAIN t : t[i].name = t[j].name => i = j
    <3>1. \A i, j \in 1..n : a.table[i].name = a.table[j].name => i = j
      BY <2>4 DEF TableGood
    <3>2. \A i \in 1..(n + 1) : i \in 1..n \/ i = n + 1
      BY <2>4
    <3>3. e.name = name
      BY <2>1
    <3> QED BY <2>4, <2>5, <2>6, <3>1, <3>2, <3>3
  <2>8. EntryGood(e, text, k)
    <3>1. ASSUME NEW j \in 1..(k - 1), Defines(text[j], name)
          PROVE  FALSE
      <4>1. Uses(text[j]) /\ text[j].name = name
        BY <3>1 DEF Defines, Uses
      <4>2. \E i \in DOMAIN a.table : a.table[i].name = name
        BY <4>1 DEF TableGood
      <4> QED BY <2>4, <2>6, <4>2
    <3> QED BY <2>1, <3>1 DEF EntryGood
  <2>9. \A i \in DOMAIN t : EntryGood(t[i], text, k) /\ \E x : t[i] = [name |-> t[i].name, addr |-> x]
    <3>1. \A i \in 1..n : EntryGood(a.table[i], text, k)
      BY <2>4 DEF TableGood
    <3>2. \A i \in 1..n : \E x : a.table[i] = [name |-> a.table[i].name, addr |-> x]
      BY <2>4 DEF TableGood
    <3>3. \A i \in 1..(n + 1) : i \in 1..n \/ i = n + 1
      BY <2>4
    <3>4. \E x : e = [name |-> e.name, addr |-> x]
      BY <2>1
    <3> QED BY <2>5, <2>8, <3>1, <3>2, <3>3, <3>4
  <2>10. \A j \in 1..(k - 1) : Uses(text[j]) => \E i \in DOMAIN t : t[i].name = text[j].name
    <3>1. \A i \in 1..n : i \in 1..(n + 1)
      BY <2>4
    <3>2. \A j \in 1..(k - 1) : Uses(text[j]) => \E i \in 1..n : a.table[i].name = text[j].name
      BY <2>4 DEF TableGood
    <3> QED BY <2>5, <3>1, <3>2
  <2>11. TableGood(t, text, k)
    BY <2>5, <2>7, <2>9, <2>10 DEF TableGood
  <2>12. \E i \in DOMAIN t : t[i].name = name
    <3>1. n + 1 \in 1..(n + 1) /\ e.name = name
      BY <2>1, <2>4
    <3> QED BY <2>5, <3>1
  <2> QED BY <2>2, <2>11, <2>12
<1> QED BY <1>1, <1>2

(* The lines before the next one. *)
LEMMA NextLine ==
  ASSUME NEW k \in Nat \ {0}
  PROVE  /\ \A j \in 1..((k + 1) - 1) : j \in 1..(k - 1) \/ j = k
         /\ \A j \in 1..(k - 1) : j \in 1..((k + 1) - 1)
         /\ k \in 1..((k + 1) - 1)
  OBVIOUS

(* A line that defines nothing leaves the table good. *)
LEMMA TableOn ==
  ASSUME NEW table, NEW text, NEW k \in Nat \ {0}, TableGood(table, text, k), text[k].op # "LABEL",
         text[k].name # "" => \E i \in DOMAIN table : table[i].name = text[k].name
  PROVE  TableGood(table, text, k + 1)
<1>1. \A j \in 1..((k + 1) - 1) : j \in 1..(k - 1) \/ j = k
  BY NextLine
<1>2. \A j \in 1..(k - 1) : j \in 1..((k + 1) - 1)
  BY NextLine
<1>3. \A name : ~Defines(text[k], name)
  BY DEF Defines
<1>4. \A i \in DOMAIN table : EntryGood(table[i], text, k + 1)
  <2>1. SUFFICES ASSUME NEW i \in DOMAIN table
                 PROVE  EntryGood(table[i], text, k + 1)
    OBVIOUS
  <2>2. EntryGood(table[i], text, k)
    BY DEF TableGood
  <2> QED BY <1>1, <1>2, <1>3, <2>2 DEF EntryGood
<1>5. \A j \in 1..((k + 1) - 1) : Uses(text[j]) => \E i \in DOMAIN table : table[i].name = text[j].name
  <2>1. \A j \in 1..(k - 1) : Uses(text[j]) => \E i \in DOMAIN table : table[i].name = text[j].name
    BY DEF TableGood
  <2>2. Uses(text[k]) => \E i \in DOMAIN table : table[i].name = text[k].name
    BY DEF Uses
  <2> QED BY <1>1, <2>1, <2>2
<1> QED BY <1>4, <1>5 DEF TableGood

(* A line that defines nothing defines nothing twice. *)
LEMMA OnceOn ==
  ASSUME NEW text, NEW k \in Nat \ {0}, OnceBefore(text, k), text[k].op # "LABEL"
  PROVE  OnceBefore(text, k + 1)
<1>1. \A j \in 1..((k + 1) - 1) : j \in 1..(k - 1) \/ j = k
  OBVIOUS
<1> QED BY <1>1 DEF OnceBefore

(* A definition resolves its entry. *)
LEMMA TableResolved ==
  ASSUME NEW table, NEW text, NEW k \in Nat \ {0}, TableGood(table, text, k), text[k].op = "LABEL",
         NEW i \in DOMAIN table, table[i].name = text[k].name
  PROVE  TableGood([table EXCEPT ![i].addr = Addresses(text)[k]], text, k + 1)
<1>1. \A j \in 1..((k + 1) - 1) : j \in 1..(k - 1) \/ j = k
  BY NextLine
<1>2. \A j \in 1..(k - 1) : j \in 1..((k + 1) - 1)
  BY NextLine
<1>3. PICK e, t : /\ e = [name |-> text[k].name, addr |-> Addresses(text)[k]]
                  /\ t = [table EXCEPT ![i] = e]
  OBVIOUS
<1>4. [table EXCEPT ![i].addr = Addresses(text)[k]] = t
  <2>1. PICK x : table[i] = [name |-> table[i].name, addr |-> x]
    BY DEF TableGood
  <2>2. [table[i] EXCEPT !.addr = Addresses(text)[k]] = e
    BY <1>3, <2>1
  <2> QED BY <1>3, <2>2
<1>5. DOMAIN t = DOMAIN table /\ t[i] = e /\ \A j \in DOMAIN table : j # i => t[j] = table[j]
  BY <1>3
<1>6. \A j \in DOMAIN table : t[j].name = table[j].name
  BY <1>3, <1>5
<1>7. Listed(t)
  <2>1. PICK n : n = Len(table)
    OBVIOUS
  <2>2. n \in Nat /\ DOMAIN table = 1..n
    BY <2>1, ListedMeans DEF TableGood
  <2>3. t \in [1..n -> Range(t)]
    BY <1>3, <1>5, <2>2 DEF Range
  <2>4. t \in Seq(Range(t))
    BY <2>2, <2>3, SeqDef
  <2> QED BY <2>4 DEF Listed
<1>8. EntryGood(e, text, k + 1)
  <2>1. Defines(text[k], e.name) /\ e.addr = Addresses(text)[k] /\ k \in 1..((k + 1) - 1)
    BY <1>3 DEF Defines
  <2> QED BY <2>1 DEF EntryGood
<1>9. ASSUME NEW j \in DOMAIN t
      PROVE  EntryGood(t[j], text, k + 1)
  <2>1. CASE j = i
    BY <1>5, <1>8, <2>1
  <2>2. CASE j # i
    <3>1. t[j] = table[j] /\ EntryGood(table[j], text, k)
      BY <1>5, <2>2 DEF TableGood
    <3>2. table[j].name # text[k].name
      BY <1>5, <2>2 DEF TableGood
    <3>3. ~Defines(text[k], table[j].name)
      BY <3>2 DEF Defines
    <3> QED BY <1>1, <1>2, <3>1, <3>3 DEF EntryGood
  <2> QED BY <2>1, <2>2
<1>10. \A j \in DOMAIN t : \E x : t[j] = [name |-> t[j].name, addr |-> x]
  <2>1. \A j \in DOMAIN table : \E x : table[j] = [name |-> table[j].name, addr |-> x]
    BY DEF TableGood
  <2>2. \E x : e = [name |-> e.name, addr |-> x]
    BY <1>3
  <2> QED BY <1>5, <2>1, <2>2
<1>11. \A j, l \in DOMAIN t : t[j].name = t[l].name => j = l
  BY <1>5, <1>6 DEF TableGood
<1>12. \A j \in 1..((k + 1) - 1) : Uses(text[j]) => \E l \in DOMAIN t : t[l].name = text[j].name
  <2>1. \A j \in 1..(k - 1) : Uses(text[j]) => \E l \in DOMAIN table : table[l].name = text[j].name
    BY DEF TableGood
  <2> QED BY <1>1, <1>5, <1>6, <2>1
<1>13. TableGood(t, text, k + 1)
  BY <1>7, <1>9, <1>10, <1>11, <1>12 DEF TableGood
<1> QED BY <1>4, <1>13

(* Address 0 stands for "not defined yet" and is no label's address: a     *)
(* second definition is noticed.                                           *)
LEMMA OnceResolved ==
  ASSUME NEW text, IsText(text), Roomy(text), NEW k \in DOMAIN text, OnceBefore(text, k),
         text[k].op = "LABEL", NEW e, EntryGood(e, text, k), e.name = text[k].name, e.addr = 0
  PROVE  OnceBefore(text, k + 1)
<1>0. PICK n : n = Len(text)
  OBVIOUS
<1>1. n \in Nat /\ DOMAIN text = 1..n /\ k \in Nat \ {0}
  <2>1. n \in Nat /\ DOMAIN text = 1..n
    BY <1>0, ListedMeans DEF IsText
  <2> QED BY <2>1
<1>2. \A j \in 1..((k + 1) - 1) : j \in 1..(k - 1) \/ j = k
  BY <1>1
<1>3. ASSUME NEW j \in 1..(k - 1)
      PROVE  ~Defines(text[j], e.name)
  <2>1. SUFFICES ASSUME NEW i \in 1..(k - 1), Defines(text[i], e.name), Addresses(text)[i] = 0
                 PROVE  FALSE
    BY DEF EntryGood
  <2>2. i \in DOMAIN text
    BY <1>1
  <2>3. \A l \in DOMAIN text : Extent(text[l]) \in Nat
    BY DEF IsText, IsLine
  <2>4. i = 1
    <3>1. \A l \in DOMAIN text : l # 1 => Addresses(text)[l] > 0
      BY <2>3, AddressesPositive DEF IsText, Roomy
    <3> QED BY <2>1, <2>2, <3>1
  <2>5. Extent(text[1]) = 0
    BY <2>1, <2>4 DEF Defines, Extent
  <2> QED BY <2>5 DEF Roomy
<1>4. \A j \in 1..(k - 1) : ~(text[j].op = "LABEL" /\ text[j].name = text[k].name)
  BY <1>3 DEF Defines
<1> QED BY <1>2, <1>4 DEF OnceBefore

(* One on and one back. *)
LEMMA AndBack == \A m \in Nat : (m + 1) - 1 = m
  OBVIOUS

(* In the second pass every name is known and has its label's address. *)
LEMMA KnownByThen ==
  ASSUME NEW a, NEW text, IsText(text), TableGood(a.table, text, Len(text) + 1), NEW k \in DOMAIN text,
         text[k].name # ""
  PROVE  /\ Known(a, text[k].name)
         /\ \E j \in DOMAIN text : /\ Defines(text[j], text[k].name)
                                   /\ AddressOf(a, text[k].name) = Addresses(text)[j]
<1>1. PICK n, name : n = Len(text) /\ name = text[k].name
  OBVIOUS
<1>2. n \in Nat /\ DOMAIN text = 1..((n + 1) - 1)
  <2>1. n \in Nat
    BY <1>1, ListedMeans DEF IsText
  <2>2. (n + 1) - 1 = n
    BY <2>1, AndBack
  <2>3. DOMAIN text = 1..n
    BY <1>1, ListedMeans DEF IsText
  <2> QED BY <2>1, <2>2, <2>3
<1>3. TableGood(a.table, text, n + 1)
  BY <1>1
<1>4. PICK i \in DOMAIN a.table : a.table[i].name = name
  <2>1. Uses(text[k])
    BY DEF Uses
  <2> QED BY <1>1, <1>2, <1>3, <2>1 DEF TableGood
<1>5. Known(a, name) /\ AddressOf(a, name) = a.table[i].addr
  BY <1>3, <1>4, Lookup
<1>6. \E j \in DOMAIN text : Defines(text[j], name)
  BY <1>1 DEF IsText, Defined, Defines
<1>7. EntryGood(a.table[i], text, n + 1)
  BY <1>3 DEF TableGood
<1>8. \E j \in DOMAIN text : Defines(text[j], name) /\ a.table[i].addr = Addresses(text)[j]
  BY <1>2, <1>4, <1>6, <1>7 DEF EntryGood
<1> QED BY <1>1, <1>5, <1>8

(* The second pass puts bytes into the image and changes nothing else. *)
LEMMA EmittedFrame ==
  ASSUME NEW a, DOMAIN a = {"table", "pass", "ip", "state", "code", "data"}, NEW l
  PROVE  /\ DOMAIN Emitted(a, l) = DOMAIN a
         /\ \A f \in DOMAIN a : f \notin {"code", "data"} => Emitted(a, l)[f] = a[f]
<1>1. CASE l.op \in {"DBN", "DBS"}
  <2>1. PICK d : Emitted(a, l) = [a EXCEPT !.data = d]
    BY <1>1 DEF Emitted
  <2> QED BY <2>1
<1>2. CASE l.op \notin {"DBN", "DBS"}
  <2>1. PICK c : Emitted(a, l) = [a EXCEPT !.code = c]
    BY <1>2 DEF Emitted
  <2> QED BY <2>1
<1> QED BY <1>1, <1>2

(* What the second pass puts into the image. *)
LEMMA EmittedGood ==
  ASSUME NEW a, DOMAIN a = {"table", "pass", "ip", "state", "code", "data"},
         NEW text, CodeGood(a.code, text), NEW l, IsLine(l),
         l.name # "" => \E j \in DOMAIN text : /\ Defines(text[j], l.name)
                                               /\ AddressOf(a, l.name) = Addresses(text)[j]
  PROVE  /\ DOMAIN Emitted(a, l) = DOMAIN a
         /\ \A f \in DOMAIN a : f \notin {"code", "data"} => Emitted(a, l)[f] = a[f]
         /\ CodeGood(Emitted(a, l).code, text)
<1>1. CASE l.op \in {"DBN", "DBS"}
  <2>1. PICK d : Emitted(a, l) = [a EXCEPT !.data = d]
    BY <1>1 DEF Emitted
  <2> QED BY <2>1
<1>2. CASE l.op \notin {"DBN", "DBS"}
  <2>1. PICK v : v = IF l.name = "" THEN l.n ELSE AddressOf(a, l.name)
    OBVIOUS
  <2>2. PICK new : new = [l EXCEPT !.n = v]
    OBVIOUS
  <2>3. PICK c : c = [x \in DOMAIN a.code \cup {a.ip} |-> IF x = a.ip THEN new ELSE a.code[x]]
    OBVIOUS
  <2>4. Emitted(a, l) = [a EXCEPT !.code = c]
    BY <1>2, <2>1, <2>2, <2>3 DEF Emitted
  <2>5. new.name = l.name /\ new.n = v
    BY <2>2 DEF IsLine
  <2>6. CodeGood(c, text)
    <3>1. ASSUME NEW x \in DOMAIN c, c[x].name # ""
          PROVE  \E j \in DOMAIN text : Defines(text[j], c[x].name) /\ c[x].n = Addresses(text)[j]
      <4>1. CASE x = a.ip
        <5>1. c[x] = new
          BY <2>3, <4>1
        <5> QED BY <2>1, <2>5, <3>1, <5>1
      <4>2. CASE x # a.ip
        <5>1. x \in DOMAIN a.code /\ c[x] = a.code[x]
          BY <2>3, <4>2
        <5> QED BY <3>1, <5>1 DEF CodeGood
      <4> QED BY <4>1, <4>2
    <3> QED BY <3>1 DEF CodeGood
  <2> QED BY <2>4, <2>6
<1> QED BY <1>1, <1>2

(* Of an assembler that has refused nothing is claimed. *)
LEMMA RefuseGood ==
  ASSUME NEW a, DOMAIN a = {"table", "pass", "ip", "state", "code", "data"}, a.pass \in {1, 2},
         NEW text, NEW k
  PROVE  AsmGood(Refuse(a), text, k)
<1>1. PICK b : b = Refuse(a)
  OBVIOUS
<1>2. DOMAIN b = DOMAIN a /\ b.pass = a.pass /\ b.state = "refused"
  BY <1>1 DEF Refuse
<1> QED BY <1>1, <1>2 DEF AsmGood

(* The first pass over a definition. *)
LEMMA LabelRead ==
  ASSUME NEW text, IsText(text), NEW k \in DOMAIN text, NEW a, AsmGood(a, text, k),
         a.state = "reading", a.pass = 1, text[k].op = "LABEL"
  PROVE  AsmGood(LabStmt(a, text[k].name), text, k + 1)
<1>1. PICK n, name, e : n = Len(text) /\ name = text[k].name /\ e = Enter(a, name)
  OBVIOUS
<1>2. n \in Nat /\ DOMAIN text = 1..n
  BY <1>1, ListedMeans DEF IsText
<1>3. k \in Nat \ {0} /\ k + 1 \in 1..(n + 1) /\ k \in Nat
  BY <1>2
<1>4. /\ DOMAIN a = {"table", "pass", "ip", "state", "code", "data"}
      /\ a.ip = Addresses(text)[k] /\ CodeGood(a.code, text)
  BY DEF AsmGood
<1>5. TableGood(a.table, text, k) /\ (Roomy(text) => OnceBefore(text, k))
  BY DEF AsmGood
<1>6. Addresses(text)[k + 1] = Addresses(text)[k]
  <2>1. \A l \in DOMAIN text : Extent(text[l]) \in Nat
    BY DEF IsText, IsLine
  <2>2. Addresses(text)[k + 1] = Addresses(text)[k] + Extent(text[k])
    BY <2>1, AddressesAre DEF IsText
  <2>3. Extent(text[k]) = 0
    BY DEF Extent
  <2>4. Addresses(text)[k] \in Nat
    <3>1. Addresses(text) \in [1..(n + 1) -> Nat]
      BY <1>1, <2>1, AddressesAre DEF IsText
    <3>2. k \in 1..(n + 1)
      BY <1>2
    <3> QED BY <3>1, <3>2
  <2> QED BY <2>2, <2>3, <2>4
<1>7. /\ DOMAIN e = DOMAIN a
      /\ \A f \in DOMAIN a : f # "table" => e[f] = a[f]
      /\ TableGood(e.table, text, k)
      /\ \E i \in DOMAIN e.table : e.table[i].name = name
  <2>1. "table" \in DOMAIN a
    BY <1>4
  <2> QED BY <1>1, <1>3, <1>5, <2>1, EnterGood
<1>8. e.pass = 1 /\ e.ip = a.ip /\ e.state = "reading" /\ e.code = a.code
  BY <1>4, <1>7
<1>9. CASE AddressOf(e, name) # 0
  <2>1. LabStmt(a, name) = Refuse(e)
    BY <1>1, <1>9 DEF LabStmt
  <2> QED BY <1>1, <1>4, <1>7, <1>8, <2>1, RefuseGood
<1>10. CASE AddressOf(e, name) = 0
  <2>1. PICK i \in DOMAIN e.table : e.table[i].name = name
    BY <1>7
  <2>2. (CHOOSE j \in Entry(e, name) : TRUE) = i /\ e.table[i].addr = 0
    <3>1. /\ (CHOOSE j \in Entry(e, e.table[i].name) : TRUE) = i
          /\ AddressOf(e, e.table[i].name) = e.table[i].addr
      BY <1>7, Lookup
    <3> QED BY <1>10, <2>1, <3>1
  <2>3. PICK t, b : /\ t = [e.table EXCEPT ![i].addr = Addresses(text)[k]]
                    /\ b = [e EXCEPT !.table = t]
    OBVIOUS
  <2>4. LabStmt(a, name) = Resolve(e, name, a.ip)
    BY <1>1, <1>10 DEF LabStmt
  <2>5. Resolve(e, name, a.ip) = b
    BY <1>4, <2>2, <2>3 DEF Resolve
  <2>6. TableGood(t, text, k + 1)
    BY <1>1, <1>3, <1>7, <2>1, <2>3, TableResolved
  <2>7. Roomy(text) => OnceBefore(text, k + 1)
    <3>1. EntryGood(e.table[i], text, k)
      BY <1>7 DEF TableGood
    <3> QED BY <1>1, <1>5, <2>1, <2>2, <3>1, OnceResolved
  <2>8. /\ DOMAIN b = {"table", "pass", "ip", "state", "code", "data"}
        /\ b.table = t /\ b.pass = 1 /\ b.ip = Addresses(text)[k + 1]
        /\ b.state = "reading" /\ CodeGood(b.code, text)
    BY <1>4, <1>6, <1>7, <1>8, <2>3
  <2>9. AsmGood(b, text, k + 1)
    BY <1>1, <1>3, <2>6, <2>7, <2>8 DEF AsmGood
  <2> QED BY <1>1, <2>4, <2>5, <2>9
<1> QED BY <1>9, <1>10

(* A line of either pass. *)
LEMMA ReadGood ==
  ASSUME NEW text, IsText(text), NEW k \in DOMAIN text, NEW a, AsmGood(a, text, k),
         a.state = "reading"
  PROVE  AsmGood(Read(a, text[k]), text, k + 1)
<1>1. PICK n, l : n = Len(text) /\ l = text[k]
  OBVIOUS
<1>2. n \in Nat /\ DOMAIN text = 1..n
  BY <1>1, ListedMeans DEF IsText
<1>3. k \in Nat \ {0} /\ k + 1 \in 1..(n + 1) /\ k \in Nat
  BY <1>2
<1>4. /\ DOMAIN a = {"table", "pass", "ip", "state", "code", "data"} /\ a.pass \in {1, 2}
      /\ a.ip = Addresses(text)[k] /\ CodeGood(a.code, text)
  BY DEF AsmGood
<1>5. IsLine(l) /\ \A i \in DOMAIN text : Extent(text[i]) \in Nat
  BY <1>1 DEF IsText, IsLine
<1>6. Addresses(text)[k + 1] = Addresses(text)[k] + Extent(l) /\ Addresses(text)[k] \in Nat
  <2>1. Addresses(text)[k + 1] = Addresses(text)[k] + Extent(text[k])
    BY <1>5, AddressesAre DEF IsText
  <2>2. Addresses(text) \in [1..(n + 1) -> Nat]
    BY <1>1, <1>5, AddressesAre DEF IsText
  <2>3. k \in 1..(n + 1)
    BY <1>2
  <2> QED BY <1>1, <2>1, <2>2, <2>3
<1>7. PICK named : named = IF l.name = "" THEN a ELSE Enter(a, l.name)
  OBVIOUS
<1>8. PICK put : put = IF a.pass = 2 THEN Emitted(named, l) ELSE named
  OBVIOUS
<1>9. PICK b : b = [put EXCEPT !.ip = @ + Extent(l)]
  OBVIOUS
<1>10. \/ Read(a, l) = Refuse(a)
       \/ l.op = "LABEL" /\ Read(a, l) = LabStmt(a, l.name)
       \/ l.op # "LABEL" /\ Read(a, l) = b
  BY <1>7, <1>8, <1>9 DEF Read
<1>11. CASE Read(a, l) = Refuse(a)
  BY <1>1, <1>4, <1>11, RefuseGood
<1>12. CASE l.op = "LABEL" /\ Read(a, l) = LabStmt(a, l.name)
  <2>1. CASE a.pass = 1
    BY <1>1, <1>12, <2>1, LabelRead
  <2>2. CASE a.pass = 2
    <3>1. LabStmt(a, l.name) = a
      BY <2>2 DEF LabStmt
    <3>2. a.ip = Addresses(text)[k + 1]
      <4>1. Extent(l) = 0
        BY <1>12 DEF Extent
      <4> QED BY <1>4, <1>6, <4>1
    <3>3. AsmGood(a, text, k + 1)
      BY <1>1, <1>3, <2>2, <3>2 DEF AsmGood
    <3> QED BY <1>1, <1>12, <3>1, <3>3
  <2> QED BY <1>4, <2>1, <2>2
<1>13. CASE l.op # "LABEL" /\ Read(a, l) = b /\ a.pass = 1
  <2>1. TableGood(a.table, text, k) /\ (Roomy(text) => OnceBefore(text, k))
    BY <1>13 DEF AsmGood
  <2>2. /\ DOMAIN named = DOMAIN a
        /\ \A f \in DOMAIN a : f # "table" => named[f] = a[f]
        /\ TableGood(named.table, text, k)
        /\ l.name # "" => \E i \in DOMAIN named.table : named.table[i].name = l.name
    <3>1. CASE l.name = ""
      BY <1>7, <2>1, <3>1
    <3>2. CASE l.name # ""
      <4>1. "table" \in DOMAIN a /\ named = Enter(a, l.name)
        BY <1>4, <1>7, <3>2
      <4>2. DOMAIN Enter(a, l.name) = DOMAIN a /\ TableGood(Enter(a, l.name).table, text, k)
        BY <1>3, <2>1, <4>1, EnterGood
      <4>3. \A f \in DOMAIN a : f # "table" => Enter(a, l.name)[f] = a[f]
        BY <1>3, <2>1, <4>1, EnterGood
      <4>4. \E i \in DOMAIN Enter(a, l.name).table : Enter(a, l.name).table[i].name = l.name
        BY <1>3, <2>1, <4>1, EnterGood
      <4> QED BY <4>1, <4>2, <4>3, <4>4
    <3> QED BY <3>1, <3>2
  <2>3. TableGood(named.table, text, k + 1)
    BY <1>1, <1>3, <1>13, <2>2, TableOn
  <2>4. Roomy(text) => OnceBefore(text, k + 1)
    BY <1>1, <1>3, <1>13, <2>1, OnceOn
  <2>5. put = named
    BY <1>8, <1>13
  <2>6. /\ DOMAIN b = {"table", "pass", "ip", "state", "code", "data"}
        /\ b.table = named.table /\ b.pass = 1 /\ b.state = "reading"
        /\ b.ip = a.ip + Extent(l) /\ b.code = a.code
    <3>1. b = [named EXCEPT !.ip = named.ip + Extent(l)]
      BY <1>9, <2>5
    <3>2. /\ DOMAIN named = {"table", "pass", "ip", "state", "code", "data"}
          /\ named.pass = 1 /\ named.state = "reading" /\ named.ip = a.ip /\ named.code = a.code
      BY <1>4, <1>13, <2>2
    <3> QED BY <3>1, <3>2
  <2>7. b.ip = Addresses(text)[k + 1]
    BY <1>4, <1>6, <2>6
  <2>8. AsmGood(b, text, k + 1)
    BY <1>1, <1>3, <1>4, <2>3, <2>4, <2>6, <2>7 DEF AsmGood
  <2> QED BY <1>1, <1>13, <2>8
<1>14. CASE l.op # "LABEL" /\ Read(a, l) = b /\ a.pass = 2
  <2>1. TableGood(a.table, text, n + 1) /\ (Roomy(text) => OnceBefore(text, n + 1))
    BY <1>1, <1>14 DEF AsmGood
  <2>2. named = a
    <3>1. l.name # "" => Known(a, l.name)
      BY <1>1, <2>1, KnownByThen
    <3> QED BY <1>7, <3>1 DEF Enter
  <2>3. l.name # "" => \E j \in DOMAIN text : /\ Defines(text[j], l.name)
                                              /\ AddressOf(a, l.name) = Addresses(text)[j]
    BY <1>1, <2>1, KnownByThen
  <2>4. put = Emitted(a, l)
    BY <1>8, <1>14, <2>2
  <2>5. /\ DOMAIN put = DOMAIN a
        /\ \A f \in DOMAIN a : f \notin {"code", "data"} => put[f] = a[f]
        /\ CodeGood(put.code, text)
    <3>1. DOMAIN Emitted(a, l) = DOMAIN a /\ CodeGood(Emitted(a, l).code, text)
      BY <1>4, <1>5, <2>3, EmittedGood
    <3>2. \A f \in DOMAIN a : f \notin {"code", "data"} => Emitted(a, l)[f] = a[f]
      BY <1>4, EmittedFrame
    <3> QED BY <2>4, <3>1, <3>2
  <2>6. /\ DOMAIN b = {"table", "pass", "ip", "state", "code", "data"}
        /\ b.table = a.table /\ b.pass = 2 /\ b.state = "reading"
        /\ b.ip = a.ip + Extent(l) /\ b.code = put.code
    BY <1>4, <1>9, <1>14, <2>5
  <2>7. b.ip = Addresses(text)[k + 1]
    BY <1>4, <1>6, <2>6
  <2>8. AsmGood(b, text, k + 1)
    BY <1>1, <1>3, <2>1, <2>5, <2>6, <2>7 DEF AsmGood
  <2> QED BY <1>1, <1>14, <2>8
<1> QED BY <1>4, <1>10, <1>11, <1>12, <1>13, <1>14

(* The end of the text, in either pass. *)
LEMMA RewindGood ==
  ASSUME NEW text, IsText(text), NEW a, AsmGood(a, text, Len(text) + 1), a.state = "reading"
  PROVE  AsmGood(Rewind(a), text, 1)
<1>1. PICK n, b : n = Len(text) /\ b = Rewind(a)
  OBVIOUS
<1>2. n \in Nat /\ 1 \in 1..(n + 1)
  <2>1. n \in Nat
    BY <1>1, ListedMeans DEF IsText
  <2> QED BY <2>1
<1>3. Addresses(text)[1] = 0
  BY AddressesAre DEF IsText, IsLine
<1>4. /\ DOMAIN a = {"table", "pass", "ip", "state", "code", "data"} /\ a.pass \in {1, 2}
      /\ CodeGood(a.code, text)
      /\ TableGood(a.table, text, n + 1) /\ (Roomy(text) => OnceBefore(text, n + 1))
  BY <1>1 DEF AsmGood
<1>5. CASE a.pass = 1
  <2>1. b = [a EXCEPT !.pass = 2, !.ip = 0]
    BY <1>1, <1>5 DEF Rewind
  <2>2. /\ DOMAIN b = DOMAIN a /\ b.table = a.table /\ b.pass = 2 /\ b.ip = 0
        /\ b.state = "reading" /\ b.code = a.code
    BY <1>4, <2>1
  <2> QED BY <1>1, <1>2, <1>3, <1>4, <2>2 DEF AsmGood
<1>6. CASE a.pass = 2
  <2>1. b = [a EXCEPT !.state = "done"]
    BY <1>1, <1>6 DEF Rewind
  <2>2. /\ DOMAIN b = DOMAIN a /\ b.table = a.table /\ b.pass = 2
        /\ b.state = "done" /\ b.code = a.code
    BY <1>4, <1>6, <2>1
  <2> QED BY <1>1, <1>4, <2>2 DEF AsmGood
<1> QED BY <1>4, <1>5, <1>6

-----------------------------------------------------------------------------
(* From one tool to the next. *)
LEMMA GrownDefined ==
  ASSUME NEW g, NEW h, NEW names, Grows(g, h, names), NEW name, Defined(g.text, name)
  PROVE  Defined(h.text, name)
<1>1. PICK k \in DOMAIN g.text : g.text[k].op = "LABEL" /\ g.text[k].name = name
  BY DEF Defined
<1>2. k \in DOMAIN h.text /\ h.text[k] = g.text[k]
  BY DEF Grows
<1> QED BY <1>1, <1>2 DEF Defined

(* The first line stays the first. *)
LEMMA GrownRoomy ==
  ASSUME NEW g, NEW h, NEW names, Grows(g, h, names), Roomy(g.text)
  PROVE  Roomy(h.text)
<1>1. 1 \in DOMAIN g.text /\ Extent(g.text[1]) > 0
  BY DEF Roomy
<1>2. 1 \in DOMAIN h.text /\ h.text[1] = g.text[1]
  BY <1>1 DEF Grows
<1> QED BY <1>1, <1>2 DEF Roomy

(* The generator before TAC k: it has printed the definitions of all the   *)
(* labels before.                                                          *)
Printed(p, g, k) ==
  /\ p \in Programs /\ k \in Nat \ {0}
  /\ GenGood(g, Names(p)) /\ Roomy(g.text)
  /\ \A j \in 1..(k - 1) :
       j \in DOMAIN p.tacs /\ p.tacs[j].op = "LABEL" => Defined(g.text, p.tacs[j].a.name)

(* One TAC more. *)
LEMMA PrintedOn ==
  ASSUME NEW p, NEW g, NEW k, Printed(p, g, k), k \in DOMAIN p.tacs, NEW rand
  PROVE  Printed(p, AsmCode(g, p.tacs[k], rand), k + 1)
<1>1. PICK h : h = AsmCode(g, p.tacs[k], rand)
  OBVIOUS
<1>2. p \in Programs /\ k \in Nat \ {0} /\ k + 1 \in Nat \ {0} /\ Complete(p)
  BY ProgramsAssumption DEF Printed
<1>3. TacGood(p.tacs[k], Names(p))
  BY <1>2, CompleteMeans
<1>4. Grows(g, h, Names(p)) /\ (p.tacs[k].op = "LABEL" => Defined(h.text, p.tacs[k].a.name))
  BY <1>1, <1>3, AsmCodeGrows DEF Printed
<1>5. GenGood(h, Names(p)) /\ Roomy(h.text)
  BY <1>4, GrownRoomy DEF Grows, Printed
<1>6. ASSUME NEW j \in 1..((k + 1) - 1), j \in DOMAIN p.tacs, p.tacs[j].op = "LABEL"
      PROVE  Defined(h.text, p.tacs[j].a.name)
  <2>1. CASE j = k
    BY <1>4, <1>6, <2>1
  <2>2. CASE j # k
    <3>1. j \in 1..(k - 1)
      BY <1>2, <2>2, NextLine
    <3>2. Defined(g.text, p.tacs[j].a.name)
      BY <1>6, <3>1 DEF Printed
    <3> QED BY <1>4, <3>2, GrownDefined
  <2> QED BY <2>1, <2>2
<1>7. Printed(p, h, k + 1)
  BY <1>2, <1>5, <1>6 DEF Printed
<1> QED BY <1>1, <1>7

(* The text that is finished defines every name in it. *)
LEMMA Finished ==
  ASSUME NEW p, NEW g, Printed(p, g, Len(p.tacs) + 1), NEW texts \in Orders(p.texts)
  PROVE  /\ IsText(AsmStatic(AsmTail(g), texts).text)
         /\ Roomy(AsmStatic(AsmTail(g), texts).text)
<1>1. PICK t, h, n : t = AsmTail(g) /\ h = AsmStatic(t, texts) /\ n = Len(p.tacs)
  OBVIOUS
<1>2. p \in Programs /\ Complete(p)
  BY ProgramsAssumption DEF Printed
<1>3. /\ Listed(p.tacs) /\ Listed(p.texts) /\ "main" \in Placed(p)
      /\ \A i \in DOMAIN p.texts : Listed(p.texts[i].value) /\ p.texts[i].name \in Names(p)
  BY <1>2, CompleteMeans
<1>4. n \in Nat /\ DOMAIN p.tacs = 1..n
  BY <1>1, <1>3, ListedMeans
<1>5. GenGood(g, Names(p)) /\ Roomy(g.text)
  BY DEF Printed
<1>6. Grows(g, t, Names(p)) /\ Defined(t.text, "EXIT")
  BY <1>1, <1>5, AsmTailGrows
<1>7. /\ texts \in [DOMAIN p.texts -> Range(p.texts)]
      /\ \A x \in Range(p.texts) : \E i \in DOMAIN p.texts : texts[i] = x
  BY DEF Orders
<1>8. \A x \in Range(p.texts) : Listed(x.value) /\ x.name \in Names(p)
  BY <1>3 DEF Range
<1>9. Listed(texts)
  <2>1. PICK m : m = Len(p.texts)
    OBVIOUS
  <2>2. m \in Nat /\ DOMAIN p.texts = 1..m
    BY <1>3, <2>1, ListedMeans
  <2>3. texts \in Seq(Range(p.texts))
    BY <1>7, <2>2, SeqDef
  <2> QED BY <2>3, SeqIsListed
<1>10. \A i \in DOMAIN texts : Listed(texts[i].value) /\ texts[i].name \in Names(p)
  BY <1>7, <1>8
<1>11. GenGood(t, Names(p))
  BY <1>6 DEF Grows
<1>12. Grows(t, h, Names(p)) /\ Defined(h.text, "STATIC") /\ Defined(h.text, "STACK")
  BY <1>1, <1>9, <1>10, <1>11, AsmStaticGrows
<1>13. ASSUME NEW i \in DOMAIN texts
       PROVE  Defined(h.text, texts[i].name)
  <2>1. /\ Grows(t, AsmStatic(t, texts), Names(p))
        /\ \A j \in DOMAIN texts : Defined(AsmStatic(t, texts).text, texts[j].name)
    BY <1>9, <1>10, <1>11, AsmStaticGrows
  <2> QED BY <1>1, <2>1
<1>14. Grows(g, h, Names(p))
  BY <1>6, <1>12, GrowsOn
<1>15. \A name \in TextNames(p) : Defined(h.text, name)
  <2>1. SUFFICES ASSUME NEW i \in DOMAIN p.texts
                 PROVE  Defined(h.text, p.texts[i].name)
    BY DEF TextNames
  <2>2. p.texts[i] \in Range(p.texts)
    BY DEF Range
  <2>3. PICK j \in DOMAIN p.texts : texts[j] = p.texts[i]
    BY <1>7, <2>2
  <2>4. j \in DOMAIN texts
    BY <1>7
  <2> QED BY <1>13, <2>3, <2>4
<1>16. \A name \in Placed(p) : Defined(h.text, name)
  <2>1. SUFFICES ASSUME NEW i \in DOMAIN p.tacs, p.tacs[i].op = "LABEL"
                 PROVE  Defined(h.text, p.tacs[i].a.name)
    BY DEF Placed
  <2>2. i \in 1..((n + 1) - 1)
    BY <1>4, AndBack
  <2>3. Defined(g.text, p.tacs[i].a.name)
    BY <1>1, <2>1, <2>2 DEF Printed
  <2> QED BY <1>14, <2>3, GrownDefined
<1>17. \A name \in Fixed : Defined(h.text, name)
  <2>1. Defined(h.text, "EXIT")
    BY <1>6, <1>12, GrownDefined
  <2>2. Defined(h.text, "main")
    BY <1>3, <1>16
  <2> QED BY <1>12, <2>1, <2>2 DEF Fixed
<1>18. \A name \in Names(p) : Defined(h.text, name)
  BY <1>15, <1>16, <1>17 DEF Names
<1>19. Lines(h.text, Names(p))
  BY <1>14 DEF Grows, GenGood
<1>20. IsText(h.text)
  BY <1>18, <1>19 DEF IsText, Lines, LineGood
<1> QED BY <1>1, <1>5, <1>14, <1>20, GrownRoomy

(* One definition only of every name: no name is defined twice. *)
LEMMA NotTwice ==
  ASSUME NEW text, IsText(text), OnceBefore(text, Len(text) + 1)
  PROVE  Twice(text) = {}
<1>1. PICK n : n = Len(text)
  OBVIOUS
<1>2. n \in Nat /\ DOMAIN text = 1..n
  BY <1>1, ListedMeans DEF IsText
<1>3. DOMAIN text = 1..((n + 1) - 1) /\ OnceBefore(text, n + 1)
  BY <1>1, <1>2, AndBack
<1>4. ASSUME NEW name
      PROVE  ~(Cardinality({i \in DOMAIN text : text[i].op = "LABEL" /\ text[i].name = name}) > 1)
  <2>1. PICK D : D = {i \in DOMAIN text : text[i].op = "LABEL" /\ text[i].name = name}
    OBVIOUS
  <2>2. \A i, j \in D : i = j
    BY <1>3, <2>1 DEF OnceBefore
  <2>3. D = {} \/ \E i : D = {i}
    BY <2>2
  <2>4. Cardinality(D) \in {0, 1}
    BY <2>3, FS_EmptySet, FS_Singleton
  <2> QED BY <2>1, <2>4
<1> QED BY <1>4 DEF Twice

-----------------------------------------------------------------------------
(* The invariant that is inductive, tool by tool. *)
IInv ==
  /\ phase \in {"generate", "assemble", "run"}
  /\ phase = "generate" => Printed(program, gen, at) /\ asm = Begin
  /\ phase = "assemble" =>
       /\ IsText(gen.text)
       /\ Roomy(gen.text) \/ (Twice(gen.text) # {} => "address0" \in Admit)
       /\ AsmGood(asm, gen.text, at)
  /\ phase = "run" => asm = Begin

(* The two ways to start: with a program, and with a text written by hand. *)
LEMMA InitGood == Init => IInv
<1>1. SUFFICES ASSUME Init
               PROVE  IInv
  OBVIOUS
<1>2. at = 1 /\ asm = Begin
  BY <1>1 DEF Init
<1>3. CASE Compile
  <2>1. PICK p \in Programs : program = p /\ phase = "generate" /\ gen = AsmHead(Fresh, p.tacs)
    BY <1>3 DEF Compile
  <2>2. Fixed \subseteq Names(p)
    BY DEF Names
  <2>3. GenGood(gen, Names(p)) /\ Roomy(gen.text)
    BY <2>1, <2>2, AsmHeadGood DEF Roomy
  <2>4. Printed(p, gen, 1)
    BY <2>1, <2>3 DEF Printed
  <2> QED BY <1>2, <2>1, <2>4 DEF IInv
<1>4. CASE WrittenByHand
  <2>1. PICK s \in Sources : /\ Twice(s.text) # {} => "address0" \in Admit
                             /\ phase = "assemble" /\ gen = Emit(Fresh, s.text)
    BY <1>4 DEF WrittenByHand
  <2>2. IsText(s.text)
    BY SourcesAssumption
  <2>3. gen.text = s.text
    <3>1. gen.text = <<>> \o s.text
      BY <2>1 DEF Emit, Fresh
    <3> QED BY <2>2, <3>1, ConcatEmptySeq DEF IsText, Listed
  <2> QED BY <1>2, <2>1, <2>2, <2>3, BeginGood DEF IInv
<1> QED BY <1>1, <1>3, <1>4 DEF Init

(* No step of any tool breaks the invariant. *)
LEMMA NextGood == IInv /\ [Next]_vars => IInv'
<1> SUFFICES ASSUME IInv, [Next]_vars
             PROVE  IInv'
  OBVIOUS
<1>1. CASE Generate
  <2>1. /\ phase = "generate" /\ at \in DOMAIN program.tacs /\ at' = at + 1
        /\ program' = program /\ phase' = phase /\ asm' = asm
    BY <1>1 DEF Generate
  <2>2. PICK rand : gen' = AsmCode(gen, program.tacs[at], rand)
    BY <1>1 DEF Generate
  <2>3. Printed(program, gen', at + 1)
    BY <2>1, <2>2, PrintedOn DEF IInv
  <2> QED BY <2>1, <2>3 DEF IInv
<1>2. CASE FinishText
  <2>1. /\ phase = "generate" /\ at = Len(program.tacs) + 1 /\ at' = 1
        /\ phase' = "assemble" /\ asm' = asm
    BY <1>2 DEF FinishText
  <2>2. PICK texts \in Orders(program.texts) : gen' = AsmStatic(AsmTail(gen), texts)
    BY <1>2 DEF FinishText
  <2>3. Printed(program, gen, Len(program.tacs) + 1) /\ asm = Begin
    BY <2>1 DEF IInv
  <2>4. IsText(gen'.text) /\ Roomy(gen'.text)
    BY <2>2, <2>3, Finished
  <2>5. AsmGood(Begin, gen'.text, 1)
    BY <2>4, BeginGood
  <2> QED BY <2>1, <2>3, <2>4, <2>5 DEF IInv
<1>3. CASE ReadLine
  <2>1. /\ phase = "assemble" /\ asm.state = "reading" /\ at \in DOMAIN gen.text
        /\ asm' = Read(asm, gen.text[at]) /\ at' = at + 1
        /\ phase' = phase /\ gen' = gen
    BY <1>3 DEF ReadLine
  <2>2. /\ IsText(gen.text) /\ AsmGood(asm, gen.text, at)
        /\ Roomy(gen.text) \/ (Twice(gen.text) # {} => "address0" \in Admit)
    BY <2>1 DEF IInv
  <2>3. AsmGood(asm', gen.text, at + 1)
    BY <2>1, <2>2, ReadGood
  <2> QED BY <2>1, <2>2, <2>3 DEF IInv
<1>4. CASE EndOfText
  <2>1. /\ phase = "assemble" /\ asm.state = "reading" /\ at = Len(gen.text) + 1
        /\ asm' = Rewind(asm) /\ at' = 1
        /\ phase' = phase /\ gen' = gen
    BY <1>4 DEF EndOfText
  <2>2. /\ IsText(gen.text) /\ AsmGood(asm, gen.text, at)
        /\ Roomy(gen.text) \/ (Twice(gen.text) # {} => "address0" \in Admit)
    BY <2>1 DEF IInv
  <2>3. AsmGood(asm', gen.text, 1)
    BY <2>1, <2>2, RewindGood
  <2> QED BY <2>1, <2>2, <2>3 DEF IInv
<1>5. CASE LoadImage
  BY <1>5 DEF LoadImage, IInv
<1>6. CASE RunCycle
  BY <1>6 DEF RunCycle, IInv
<1>7. CASE UNCHANGED vars
  BY <1>7 DEF vars, IInv
<1>8. CASE Over
  BY <1>7, <1>8 DEF Over
<1> QED BY <1>1, <1>2, <1>3, <1>4, <1>5, <1>6, <1>7, <1>8 DEF Next

(* The invariant says that the labels agree. *)
LEMMA LabelsGood == IInv => LabelsAgree
<1>1. SUFFICES ASSUME IInv, asm.state = "done"
               PROVE  /\ Twice(gen.text) # {} => "address0" \in Admit
                      /\ CodeGood(asm.code, gen.text)
  BY DEF LabelsAgree, CodeGood, Defines
<1>2. phase = "assemble"
  <2>1. asm # Begin
    BY <1>1 DEF Begin
  <2> QED BY <1>1, <2>1 DEF IInv
<1>3. /\ IsText(gen.text) /\ AsmGood(asm, gen.text, at)
      /\ Roomy(gen.text) \/ (Twice(gen.text) # {} => "address0" \in Admit)
  BY <1>1, <1>2 DEF IInv
<1>4. /\ Roomy(gen.text) => OnceBefore(gen.text, Len(gen.text) + 1)
      /\ CodeGood(asm.code, gen.text)
  BY <1>1, <1>3 DEF AsmGood
<1> QED BY <1>3, <1>4, NotTwice

(* The two passes agree, whatever is compiled: in every image a label      *)
(* operand is the address of the line behind the label's definition, and   *)
(* what the generator prints has no image when it defines a label twice.   *)
THEOREM LabelsResolved == Spec => []LabelsAgree
<1>1. Spec => []IInv
  BY InitGood, NextGood, PTL DEF Spec
<1> QED BY <1>1, LabelsGood, PTL
=============================================================================
