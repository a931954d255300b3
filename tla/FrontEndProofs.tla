--------------------------- MODULE FrontEndProofs ---------------------------
(***************************************************************************)
(* Proofs about FrontEnd, its symbol tables, the homes of variables and    *)
(* what is read: for any names, types, structs and functions, any bounds   *)
(* and any sequence of declarations, blocks, functions and uses.           *)
(*                                                                         *)
(* The tables and what C says of the same names advance together. A symbol *)
(* of the local table or of the global one was made by a declaration, and  *)
(* carries its number; the numbers of declarations are all different, and  *)
(* none is used again while a table or a scope still has it. So it is      *)
(* enough that every action enters a name where C's scopes do, and that    *)
(* where a scope ends the tables forget what the scopes forget. Blocks     *)
(* have no table: there the two agree because no name hides another or is  *)
(* declared twice in a function, as long as "redeclared" is left out.      *)
(*                                                                         *)
(* A home is a sum over what was emitted before it. Its invariant says     *)
(* which emission is a variable's own, and that between two variables of   *)
(* one scope no function begins; the rest is that sums grow by what the    *)
(* types take.                                                             *)
(*                                                                         *)
(* What is read follows the types an expression passes, from its name on:  *)
(* they are what the language says, and step by step what the generator    *)
(* finds in the symbol, the array metadata and the struct metadata.        *)
(***************************************************************************)
EXTENDS FrontEnd, FiniteSetTheorems, SequenceTheorems, WellFoundedInduction, TLAPS

-----------------------------------------------------------------------------
(* The inductive invariant, in parts: of a generator g, what is emitted and *)
(* what the names mean.                                                    *)
Types == GlobalTypes \cup LocalTypes \cup {Adjusted(t) : t \in ParamTypes}

(* What the names mean is a table for every open scope. *)
IsEnv(e) ==
  /\ e \in Seq(Range(e)) /\ e # <<>>
  /\ \A k \in DOMAIN e : DOMAIN e[k] \subseteq Names
  /\ \A k \in DOMAIN e : \A x \in DOMAIN e[k] :
       /\ e[k][x].decl \in Nat /\ e[k][x].decl # 0
       /\ e[k][x].scope \in Nat /\ e[k][x].scope # 0
       /\ e[k][x].type \in Types

Shape(g) ==
  DOMAIN g = {"scope", "struct_types", "sym_tab_global", "sym_tab_local", "attributes", "array_metadata_map"}

Scoped(g, e) == g.scope = IF Len(e) = 1 THEN "GLOBAL" ELSE "LOCAL"

(* An entry of a variable has its symbol; those of the global table are    *)
(* what the outermost scope declares.                                      *)
GlobalsRight(g, e) ==
  \A s \in DOMAIN g.sym_tab_global :
    LET entry == g.sym_tab_global[s]
    IN  /\ entry.type \in {"VAR", "FUNC", "TEXT", "CONST_INT", "CONST_CHAR"}
        /\ entry.type = "VAR" => s \in DOMAIN e[1] /\ entry.decl = e[1][s].decl /\ entry.decl \in DOMAIN g.attributes
        /\ entry.type = "FUNC" => s \in ToSet(Functions)
        /\ entry.type # "VAR" => entry.decl = 0

LocalsRight(g, e) ==
  /\ \A s \in DOMAIN g.sym_tab_local :
       LET entry == g.sym_tab_local[s]
       IN  entry.type = "VAR" /\ entry.decl # 0 /\ entry.decl \in DOMAIN g.attributes
  /\ Len(e) = 1 => g.sym_tab_local = Empty

Numbered(g) == IsFiniteSet(DOMAIN g.attributes) /\ DOMAIN g.attributes \subseteq Nat /\ 0 \in DOMAIN g.attributes

Remembered(g) == \A b \in DOMAIN g.array_metadata_map : g.array_metadata_map[b].dimensions # <<>>

TypeInv(g, e) ==
  /\ IsEnv(e)
  /\ Shape(g) /\ g.struct_types = struct_types
  /\ Scoped(g, e)
  /\ GlobalsRight(g, e)
  /\ LocalsRight(g, e)
  /\ Numbered(g)
  /\ Remembered(g)

(* In every open scope, a name of the outermost one is in the global table *)
(* and hidden by nothing, and any other is in the local one.               *)
Bound(g, e) ==
  \A k \in DOMAIN e : \A x \in DOMAIN e[k] :
    IF x \in DOMAIN e[1]
    THEN /\ x \in DOMAIN g.sym_tab_global /\ x \notin DOMAIN g.sym_tab_local
         /\ g.sym_tab_global[x] = Symbol("VAR", e[k][x].decl)
    ELSE x \in DOMAIN g.sym_tab_local /\ g.sym_tab_local[x] = Symbol("VAR", e[k][x].decl)

QuotesStand(g) == \A q \in Quoted \cap DOMAIN g.sym_tab_global : g.sym_tab_global[q].type = "CONST_CHAR"

-----------------------------------------------------------------------------
(* A set of natural numbers that is not empty has a least element. *)
LEMMA Least ==
  ASSUME NEW T, T \subseteq Nat, T # {}
  PROVE  \E x \in T : \A y \in T : x <= y
<1>1. PICK R : R = {ss \in Nat \X Nat : ss[1] < ss[2]}
  OBVIOUS
<1>2. IsWellFoundedOn(R, Nat)
  BY <1>1, NatLessThanWellFounded DEF OpToRel
<1>3. PICK x \in T : \A y \in T : <<y, x>> \notin R
  BY <1>2, WFMin
<1>4. ASSUME NEW y \in T
      PROVE  x <= y
  <2>1. ~(y < x)
    BY <1>1, <1>3
  <2> QED BY <2>1
<1> QED BY <1>3, <1>4

(* What a function makes of a finite set is finite. *)
LEMMA ImageFinite ==
  ASSUME NEW f, IsFiniteSet(DOMAIN f), NEW T, \A t \in T : \E x \in DOMAIN f : t = f[x]
  PROVE  IsFiniteSet(T)
<1>1. PICK D : D = DOMAIN f
  OBVIOUS
<1>2. PICK R : R = {f[x] : x \in D}
  OBVIOUS
<1>3. PICK h : h = [x \in D |-> f[x]]
  OBVIOUS
<1>4. h \in [D -> R] /\ \A t \in R : \E s \in D : h[s] = t
  BY <1>2, <1>3
<1>5. h \in Surjection(D, R)
  BY <1>4 DEF Surjection
<1>6. IsFiniteSet(R)
  BY <1>1, <1>5, FS_Surjection
<1>7. T \subseteq R
  BY <1>1, <1>2
<1> QED BY <1>6, <1>7, FS_Subset

(* The largest of the first k values of a sequence of numbers. *)
LEMMA Largest ==
  ASSUME NEW n \in Nat, n # 0, NEW f, \A k \in 1 .. n : f[k] \in Nat
  PROVE  \E m \in 1 .. n : \A k \in 1 .. n : f[k] <= f[m]
<1> DEFINE Bad == {j \in 1 .. n : ~\E m \in 1 .. j : \A k \in 1 .. j : f[k] <= f[m]}
<1>1. SUFFICES ASSUME Bad # {}
               PROVE  FALSE
  <2>1. n \in 1 .. n
    OBVIOUS
  <2>2. Bad = {} => n \notin Bad
    OBVIOUS
  <2> QED BY <2>1, <2>2
<1>2. Bad \subseteq Nat
  OBVIOUS
<1>3. PICK j \in Bad : \A i \in Bad : j <= i
  BY <1>1, <1>2, Least
<1>4. j # 1
  <2>1. SUFFICES ASSUME j = 1
                 PROVE  FALSE
    OBVIOUS
  <2>2. 1 \in 1 .. 1 /\ \A k \in 1 .. 1 : f[k] <= f[1]
    OBVIOUS
  <2> QED BY <1>3, <2>1, <2>2
<1>5. j - 1 \in 1 .. n /\ j - 1 \notin Bad
  <2>1. j \in 1 .. n
    OBVIOUS
  <2>2. j - 1 \in 1 .. n /\ ~(j <= j - 1)
    BY <1>4, <2>1
  <2> HIDE DEF Bad
  <2> QED BY <1>3, <2>2
<1>6. PICK m \in 1 .. (j - 1) : \A k \in 1 .. (j - 1) : f[k] <= f[m]
  BY <1>5
<1>7. m \in 1 .. j /\ j \in 1 .. j /\ f[m] \in Nat /\ f[j] \in Nat
  BY <1>3, <1>5
<1>8. CASE f[j] <= f[m]
  <2>1. \A k \in 1 .. j : f[k] <= f[m]
    BY <1>3, <1>5, <1>6, <1>8
  <2> QED BY <1>3, <1>7, <2>1
<1>9. CASE ~(f[j] <= f[m])
  <2>1. \A k \in 1 .. j : f[k] <= f[j]
    <3>1. TAKE k \in 1 .. j
    <3>2. k = j \/ k \in 1 .. (j - 1)
      BY <1>3
    <3>3. f[k] \in Nat
      BY <1>3
    <3> QED BY <1>6, <1>7, <1>9, <3>2, <3>3
  <2> QED BY <1>3, <1>7, <2>1
<1> QED BY <1>8, <1>9

(* Max is what it says, for a finite set of numbers. *)
LEMMA MaxIsLargest ==
  ASSUME NEW T, IsFiniteSet(T), T \subseteq Nat, T # {}
  PROVE  Max(T) \in T /\ \A t \in T : t <= Max(T)
<1>1. PICK n : n = Cardinality(T)
  OBVIOUS
<1>2. n \in Nat /\ ExistsBijection(1 .. n, T)
  BY <1>1, FS_CardinalityType
<1>3. PICK f \in [1 .. n -> T] : \A t \in T : \E k \in 1 .. n : f[k] = t
  BY <1>2 DEF ExistsBijection, Bijection, Surjection, Injection
<1>4. n # 0
  <2>1. PICK t : t \in T
    OBVIOUS
  <2>2. PICK k : k \in 1 .. n
    BY <1>3, <2>1
  <2> QED BY <1>2, <2>2
<1>5. \A k \in 1 .. n : f[k] \in Nat
  BY <1>3
<1>6. PICK m \in 1 .. n : \A k \in 1 .. n : f[k] <= f[m]
  BY <1>2, <1>4, <1>5, Largest
<1>7. f[m] \in T /\ \A t \in T : f[m] >= t
  BY <1>3, <1>5, <1>6
<1>8. PICK x : x = Max(T)
  OBVIOUS
<1>9. x \in T /\ \A t \in T : x >= t
  BY <1>7, <1>8 DEF Max
<1>10. \A t \in T : t <= x
  BY <1>9
<1> QED BY <1>8, <1>9, <1>10

-----------------------------------------------------------------------------
(* The scopes are counted from one. *)
LEMMA EnvShape ==
  ASSUME NEW e, IsEnv(e)
  PROVE  /\ Len(e) \in Nat /\ Len(e) >= 1
         /\ DOMAIN e = 1 .. Len(e)
         /\ 1 \in DOMAIN e /\ Len(e) \in DOMAIN e
<1>1. e \in Seq(Range(e)) /\ e # <<>>
  BY DEF IsEnv
<1>2. Len(e) \in Nat \ {0} /\ DOMAIN e = 1 .. Len(e)
  BY <1>1, EmptySeq, LenProperties
<1> QED BY <1>2

(* The numbers of the symbols that names mean are finitely many. *)
LEMMA DeclaredFinite ==
  ASSUME NEW e, IsEnv(e), NEW N, N = {d.decl : d \in UNION {Range(e[k]) : k \in DOMAIN e}}
  PROVE  IsFiniteSet(N) /\ N \subseteq Nat
<1>1. PICK P : P = (1 .. Len(e)) \X Names
  OBVIOUS
<1>2. PICK Q : Q = {p \in P : p[2] \in DOMAIN e[p[1]]}
  OBVIOUS
<1>3. PICK f : f = [p \in Q |-> e[p[1]][p[2]].decl]
  OBVIOUS
<1>4. IsFiniteSet(P)
  <2>1. IsFiniteSet(1 .. Len(e))
    BY EnvShape, FS_Interval
  <2>2. IsFiniteSet(Names)
    BY FrontEndAssumption
  <2> QED BY <1>1, <2>1, <2>2, FS_Product
<1>5. IsFiniteSet(Q)
  BY <1>2, <1>4, FS_Subset
<1>6. ASSUME NEW n \in N
      PROVE  n \in Nat /\ \E p \in DOMAIN f : n = f[p]
  <2>1. PICK d \in UNION {Range(e[k]) : k \in DOMAIN e} : n = d.decl
    OBVIOUS
  <2>2. PICK k \in DOMAIN e : d \in Range(e[k])
    BY <2>1
  <2>3. PICK x \in DOMAIN e[k] : d = e[k][x]
    BY <2>2 DEF Range
  <2>4. k \in 1 .. Len(e) /\ x \in Names
    BY <2>3, EnvShape DEF IsEnv
  <2>5. PICK p : p = <<k, x>>
    OBVIOUS
  <2>6. p \in Q /\ p[1] = k /\ p[2] = x
    BY <1>1, <1>2, <2>3, <2>4, <2>5
  <2>7. f[p] = e[k][x].decl /\ p \in DOMAIN f
    BY <1>3, <2>6
  <2>8. e[k][x].decl \in Nat
    BY <2>3 DEF IsEnv
  <2> QED BY <2>1, <2>3, <2>7, <2>8
<1>7. IsFiniteSet(N)
  <2>1. DOMAIN f = Q
    BY <1>3
  <2>2. IsFiniteSet(DOMAIN f)
    BY <1>5, <2>1
  <2>3. \A n \in N : \E p \in DOMAIN f : n = f[p]
    BY <1>6
  <2> QED BY <2>2, <2>3, ImageFinite
<1> QED BY <1>6, <1>7

(* A new symbol is new: no symbol and no declaration has its number. *)
LEMMA UnusedIsNew ==
  ASSUME IsEnv(env), Numbered(gen)
  PROVE  /\ Unused \in Nat /\ Unused # 0
         /\ \A d \in DOMAIN gen.attributes : d < Unused
         /\ \A k \in DOMAIN env : \A x \in DOMAIN env[k] : env[k][x].decl < Unused
<1>1. PICK N : N = {d.decl : d \in UNION {Range(env[k]) : k \in DOMAIN env}}
  OBVIOUS
<1>2. PICK T : T = {0} \cup DOMAIN gen.attributes \cup N
  OBVIOUS
<1>3. IsFiniteSet(N) /\ N \subseteq Nat
  BY <1>1, DeclaredFinite
<1>4. IsFiniteSet(T) /\ T \subseteq Nat /\ T # {}
  <2>1. IsFiniteSet(DOMAIN gen.attributes) /\ DOMAIN gen.attributes \subseteq Nat
    BY DEF Numbered
  <2>2. IsFiniteSet({0})
    BY FS_Singleton
  <2>3. IsFiniteSet({0} \cup DOMAIN gen.attributes)
    BY <2>1, <2>2, FS_Union
  <2>4. IsFiniteSet(T)
    BY <1>2, <1>3, <2>3, FS_Union
  <2>5. 0 \in T
    BY <1>2
  <2>6. T \subseteq Nat
    <3>1. ASSUME NEW t \in T
          PROVE  t \in Nat
      <4>1. t = 0 \/ t \in DOMAIN gen.attributes \/ t \in N
        BY <1>2
      <4>2. CASE t \in DOMAIN gen.attributes
        BY ONLY <2>1, <4>2
      <4>3. CASE t \in N
        BY ONLY <1>3, <4>3
      <4>4. CASE t = 0
        BY ONLY <4>4
      <4> QED BY <4>1, <4>2, <4>3, <4>4
    <3> QED BY <3>1
  <2> QED BY <2>4, <2>5, <2>6
<1>5. Unused = 1 + Max(T)
  <2>1. {d.decl : d \in Declared} = N
    BY <1>1 DEF Declared
  <2> QED BY <1>2, <2>1 DEF Unused
<1>6. Max(T) \in T /\ \A t \in T : t <= Max(T)
  BY <1>4, MaxIsLargest
<1>7. Max(T) \in Nat
  BY <1>4, <1>6
<1>8. \A t \in T : t < Unused
  <2>1. TAKE t \in T
  <2>2. t \in Nat /\ t <= Max(T)
    BY <1>4, <1>6
  <2> QED BY <1>5, <1>7, <2>2
<1>9. ASSUME NEW k \in DOMAIN env, NEW x \in DOMAIN env[k]
      PROVE  env[k][x].decl \in T
  <2>1. env[k][x] \in Range(env[k])
    BY DEF Range
  <2>2. env[k][x] \in UNION {Range(env[l]) : l \in DOMAIN env}
    BY <2>1
  <2> QED BY <1>1, <1>2, <2>2
<1>10. Unused \in Nat /\ Unused # 0
  BY <1>5, <1>7
<1>11. \A d \in DOMAIN gen.attributes : d < Unused
  BY <1>2, <1>8
<1> QED BY <1>8, <1>9, <1>10, <1>11

-----------------------------------------------------------------------------
(* What the operations of the generator do to its tables. *)

LEMMA ExtendedIs ==
  ASSUME NEW f, NEW x, NEW v, NEW h, h = Extended(f, x, v)
  PROVE  /\ DOMAIN h = DOMAIN f \cup {x}
         /\ h[x] = v
         /\ \A y \in DOMAIN f : y # x => h[y] = f[y]
BY DEF Extended

(* A name that is in the table already gets no symbol. *)
LEMMA MkVarKnown ==
  ASSUME NEW g, NEW x, NEW data, NEW decl, lookup_sym(g, x) # NoSymbol
  PROVE  mk_var(g, x, data, decl) = g
BY DEF mk_var

(* Any other gets one, in the table of the scope. *)
LEMMA MkVarNew ==
  ASSUME NEW g, Shape(g), NEW x, NEW data, NEW decl, lookup_sym(g, x) = NoSymbol,
         NEW h, h = mk_var(g, x, data, decl)
  PROVE  /\ Shape(h)
         /\ h.scope = g.scope /\ h.struct_types = g.struct_types /\ h.array_metadata_map = g.array_metadata_map
         /\ h.attributes = Extended(g.attributes, decl, Attributes(g.scope, data))
         /\ g.scope = "LOCAL" =>
              /\ h.sym_tab_local = Extended(g.sym_tab_local, x, Symbol("VAR", decl))
              /\ h.sym_tab_global = g.sym_tab_global
         /\ g.scope # "LOCAL" =>
              /\ h.sym_tab_global = Extended(g.sym_tab_global, x, Symbol("VAR", decl))
              /\ h.sym_tab_local = g.sym_tab_local
<1>1. PICK k : k = [g EXCEPT !.attributes = Extended(@, decl, Attributes(g.scope, data))]
  OBVIOUS
<1>2. /\ DOMAIN k = DOMAIN g
      /\ k.attributes = Extended(g.attributes, decl, Attributes(g.scope, data))
      /\ k.scope = g.scope /\ k.struct_types = g.struct_types /\ k.array_metadata_map = g.array_metadata_map
      /\ k.sym_tab_local = g.sym_tab_local /\ k.sym_tab_global = g.sym_tab_global
  BY <1>1 DEF Shape
<1>3. CASE g.scope = "LOCAL"
  <2>1. h = [k EXCEPT !.sym_tab_local = Extended(@, x, Symbol("VAR", decl))]
    BY <1>1, <1>3 DEF mk_var
  <2> QED BY <1>2, <1>3, <2>1 DEF Shape
<1>4. CASE g.scope # "LOCAL"
  <2>1. h = [k EXCEPT !.sym_tab_global = Extended(@, x, Symbol("VAR", decl))]
    BY <1>1, <1>4 DEF mk_var
  <2> QED BY <1>2, <1>4, <2>1 DEF Shape
<1> QED BY <1>3, <1>4

(* A declaration makes a symbol as mk_var does, and then fills it in; the  *)
(* metadata of an array is stored under its name.                          *)
MadeAndFilled(g, x, t, decl, h, r) ==
  /\ h = mk_var(g, x, IF IsArray(t) THEN "INT" ELSE Data(t), decl)
  /\ r = generate_var_decl(g, x, t, decl)

FilledIn(g, x, t, h, r) ==
  /\ Shape(r)
  /\ r.scope = h.scope /\ r.struct_types = h.struct_types
  /\ r.sym_tab_global = h.sym_tab_global /\ r.sym_tab_local = h.sym_tab_local
  /\ DOMAIN r.attributes = DOMAIN h.attributes
  /\ \A d \in DOMAIN h.attributes : d # lookup_sym(h, x).decl => r.attributes[d] = h.attributes[d]
  /\ r.array_metadata_map =
       IF IsArray(t)
       THEN Extended(h.array_metadata_map, Id(x), create_array_metadata(g.struct_types, t))
       ELSE h.array_metadata_map

LEMMA VarDeclIs ==
  ASSUME NEW g, NEW x, NEW t, IsType(t, Len(StructDefs)), NEW decl, NEW h, NEW r,
         Shape(h), MadeAndFilled(g, x, t, decl, h, r)
  PROVE  FilledIn(g, x, t, h, r)
<1>1. PICK s : s = lookup_sym(h, x).decl
  OBVIOUS
<1>2. PICK m : m = create_array_metadata(g.struct_types, t)
  OBVIOUS
<1>10. ~(IsPointer(t) /\ (IsArray(t) \/ IsStruct(t)))
  <2>1. IsStruct(t) => t.base # "PTR"
    BY StructAssumption DEF IsStruct, StructNames
  <2> QED BY <2>1 DEF IsType, IsPointer
<1>3. CASE IsArray(t)
  <2>1. r = [h EXCEPT !.attributes[s].array_metadata = m, !.array_metadata_map = Extended(@, Id(x), m)]
    BY <1>1, <1>2, <1>3, <1>10 DEF generate_var_decl, MadeAndFilled, Stored
  <2> QED BY <1>1, <1>2, <1>3, <2>1 DEF Shape, FilledIn
<1>4. CASE ~IsArray(t) /\ IsStruct(t)
  <2>1. r = [h EXCEPT !.attributes[s].struct = t.base]
    BY <1>1, <1>4, <1>10 DEF generate_var_decl, MadeAndFilled
  <2> QED BY <1>1, <1>4, <2>1 DEF Shape, FilledIn
<1>5. CASE ~IsArray(t) /\ ~IsStruct(t) /\ IsPointer(t)
  <2>1. PICK v, w : v = Data(Pointee(t)) /\ w = IF IsStruct(Pointee(t)) THEN Pointee(t).base ELSE ""
    OBVIOUS
  <2>2. r = [h EXCEPT !.attributes[s].is_pointer = TRUE, !.attributes[s].base_type = v, !.attributes[s].struct = w]
    BY <1>1, <1>5, <2>1 DEF generate_var_decl, MadeAndFilled
  <2> QED BY <1>1, <1>5, <2>2 DEF Shape, FilledIn
<1>6. CASE ~IsArray(t) /\ ~IsStruct(t) /\ ~IsPointer(t)
  <2>1. r = [h EXCEPT !.attributes[s].is_pointer = FALSE]
    BY <1>1, <1>6 DEF generate_var_decl, MadeAndFilled
  <2> QED BY <1>1, <1>6, <2>1 DEF Shape, FilledIn
<1> QED BY <1>3, <1>4, <1>5, <1>6

(* The metadata of an array of the language has its sizes in their order. *)
LEMMA MetadataIs ==
  ASSUME NEW structs, NEW t, NEW n, IsType(t, n), NEW m, m = create_array_metadata(structs, t)
  PROVE  /\ m.dimensions = t.dims
         /\ m.element_size = IF IsStruct(t) THEN structs[t.base].total_size ELSE 4
<1>1. PICK d : d = t.dims
  OBVIOUS
<1>2. d \in Seq(Nat \ {0})
  BY <1>1 DEF IsType
<1>3. PICK l : l = Len(d)
  OBVIOUS
<1>4. l \in Nat /\ d \in [1 .. l -> Nat \ {0}]
  BY <1>2, <1>3, LenProperties
<1>5. PICK r : r = Reverse(d)
  OBVIOUS
<1>6. r = [i \in 1 .. l |-> d[(l - i) + 1]]
  BY <1>3, <1>5 DEF Reverse
<1>7. r \in Seq(Nat \ {0}) /\ Len(r) = l
  <2>1. \A i \in 1 .. l : d[(l - i) + 1] \in Nat \ {0}
    <3>1. TAKE i \in 1 .. l
    <3>2. (l - i) + 1 \in 1 .. l
      BY <1>4
    <3> QED BY <1>4, <3>2
  <2>2. r \in [1 .. l -> Nat \ {0}]
    BY <1>6, <2>1
  <2>3. r \in Seq(Nat \ {0})
    BY <1>4, <2>2, SeqDef
  <2>4. DOMAIN r = 1 .. Len(r) /\ Len(r) \in Nat
    BY <2>3, LenProperties
  <2> QED BY <1>4, <2>2, <2>3, <2>4
<1>8. PICK s : s = Reverse(r)
  OBVIOUS
<1>9. s = [i \in 1 .. l |-> r[(l - i) + 1]]
  BY <1>7, <1>8 DEF Reverse
<1>10. ASSUME NEW i \in 1 .. l
       PROVE  s[i] = d[i]
  <2>1. PICK j : j = (l - i) + 1
    OBVIOUS
  <2>2. j \in 1 .. l /\ (l - j) + 1 = i
    BY <1>4, <2>1
  <2>3. r[j] = d[(l - j) + 1]
    BY <1>6, <2>2
  <2> QED BY <1>9, <2>1, <2>2, <2>3
<1>11. s = d
  BY <1>4, <1>9, <1>10
<1>12. m.dimensions = Reverse(Nested(t)) /\ m.element_size = IF IsStruct(t) THEN structs[t.base].total_size ELSE 4
  BY DEF create_array_metadata
<1> QED BY <1>1, <1>5, <1>8, <1>11, <1>12 DEF Nested

-----------------------------------------------------------------------------
(* Tables of meanings, as scopes open, grow and close. *)
Meant(d) == d.decl \in Nat /\ d.decl # 0 /\ d.scope \in Nat /\ d.scope # 0 /\ d.type \in Types

LEMMA IsEnvFrom ==
  ASSUME NEW S, NEW e \in Seq(S), e # <<>>,
         \A k \in DOMAIN e : DOMAIN e[k] \subseteq Names,
         \A k \in DOMAIN e : \A x \in DOMAIN e[k] : Meant(e[k][x])
  PROVE  IsEnv(e)
<1>1. e \in Seq(Range(e))
  BY SeqOfRange
<1> QED BY <1>1 DEF IsEnv, Meant

Grown(e, x, d) == [e EXCEPT ![Len(e)] = Extended(e[Len(e)], x, d)]

LEMMA EnvGrows ==
  ASSUME NEW e, IsEnv(e), NEW x \in Names, NEW d, Meant(d)
  PROVE  /\ IsEnv(Grown(e, x, d))
         /\ Len(Grown(e, x, d)) = Len(e) /\ DOMAIN Grown(e, x, d) = DOMAIN e
         /\ \A k \in DOMAIN e : k # Len(e) => Grown(e, x, d)[k] = e[k]
         /\ Grown(e, x, d)[Len(e)] = Extended(e[Len(e)], x, d)
<1>0. PICK f : f = Grown(e, x, d)
  OBVIOUS
<1>1. PICK n : n = Len(e)
  OBVIOUS
<1>2. PICK v : v = Extended(e[n], x, d)
  OBVIOUS
<1>3. PICK S : S = Range(e) \cup {v}
  OBVIOUS
<1>4. e \in Seq(S) /\ n \in 1 .. Len(e) /\ v \in S /\ DOMAIN e = 1 .. n
  <2>1. Range(e) \subseteq S /\ v \in S
    BY <1>3
  <2>2. e \in Seq(Range(e))
    BY DEF IsEnv
  <2>3. e \in Seq(S)
    BY <2>1, <2>2, SeqMonotonic
  <2> QED BY <1>1, <2>1, <2>3, EnvShape
<1>5. /\ f \in Seq(S) /\ Len(f) = n
      /\ \A j \in 1 .. n : f[j] = IF j = n THEN v ELSE e[j]
  <2>1. f = [e EXCEPT ![n] = v]
    BY <1>0, <1>1, <1>2 DEF Grown
  <2> QED BY <1>1, <1>4, <2>1, ExceptSeq
<1>6. DOMAIN f = 1 .. n
  BY <1>5, LenProperties
<1>7. \A k \in 1 .. n : DOMAIN e[k] \subseteq Names /\ \A y \in DOMAIN e[k] : Meant(e[k][y])
  BY <1>4 DEF IsEnv, Meant
<1>8. DOMAIN v \subseteq Names /\ \A y \in DOMAIN v : Meant(v[y])
  <2>1. DOMAIN v = DOMAIN e[n] \cup {x} /\ v[x] = d /\ \A y \in DOMAIN e[n] : y # x => v[y] = e[n][y]
    BY <1>2 DEF Extended
  <2>2. n \in 1 .. n
    BY <1>1, <1>4
  <2> QED BY <1>7, <2>1, <2>2
<1>9. \A k \in DOMAIN f : DOMAIN f[k] \subseteq Names /\ \A y \in DOMAIN f[k] : Meant(f[k][y])
  BY <1>5, <1>6, <1>7, <1>8
<1>10. f # <<>>
  BY <1>1, <1>5, EnvShape, EmptySeq
<1>11. IsEnv(f)
  BY <1>5, <1>9, <1>10, IsEnvFrom
<1> QED BY <1>0, <1>1, <1>2, <1>4, <1>5, <1>6, <1>11

OpenedBy(e, v, f) == f = Append(e, v)

LEMMA EnvOpens ==
  ASSUME NEW e, IsEnv(e), NEW v, DOMAIN v \subseteq Names, \A x \in DOMAIN v : Meant(v[x]),
         NEW f, OpenedBy(e, v, f)
  PROVE  /\ IsEnv(f)
         /\ Len(f) = Len(e) + 1 /\ DOMAIN f = 1 .. (Len(e) + 1)
         /\ \A k \in DOMAIN e : f[k] = e[k]
         /\ f[Len(e) + 1] = v
<1>1. PICK S : S = Range(e) \cup {v}
  OBVIOUS
<1>2. e \in Seq(S) /\ v \in S /\ DOMAIN e = 1 .. Len(e) /\ Len(e) \in Nat
  <2>1. Range(e) \subseteq S /\ v \in S
    BY <1>1
  <2>2. e \in Seq(Range(e))
    BY DEF IsEnv
  <2>3. e \in Seq(S)
    BY <2>1, <2>2, SeqMonotonic
  <2> QED BY <2>1, <2>3, EnvShape
<1>3. /\ f \in Seq(S) /\ f # <<>> /\ Len(f) = Len(e) + 1
      /\ \A i \in 1 .. Len(e) : f[i] = e[i]
      /\ f[Len(e) + 1] = v
  BY <1>2, AppendProperties DEF OpenedBy
<1>4. DOMAIN f = 1 .. (Len(e) + 1)
  BY <1>3, LenProperties
<1>5. \A k \in 1 .. Len(e) : DOMAIN e[k] \subseteq Names /\ \A y \in DOMAIN e[k] : Meant(e[k][y])
  BY <1>2 DEF IsEnv, Meant
<1>6. ASSUME NEW k \in DOMAIN f
      PROVE  DOMAIN f[k] \subseteq Names /\ \A y \in DOMAIN f[k] : Meant(f[k][y])
  <2>1. k = Len(e) + 1 \/ k \in 1 .. Len(e)
    BY <1>2, <1>4
  <2> QED BY <1>3, <1>5, <2>1
<1>7. IsEnv(f)
  BY <1>3, <1>6, IsEnvFrom
<1> QED BY <1>2, <1>3, <1>4, <1>7

(* What is left after scopes close: the first n of them. *)
ClosedTo(e, n, f) == f = SubSeq(e, 1, n)

LEMMA EnvCloses ==
  ASSUME NEW e, IsEnv(e), NEW n \in 1 .. Len(e), NEW f, ClosedTo(e, n, f)
  PROVE  /\ IsEnv(f)
         /\ Len(f) = n /\ DOMAIN f = 1 .. n
         /\ \A k \in 1 .. n : f[k] = e[k]
<1>1. PICK S : S = Range(e)
  OBVIOUS
<1>2. e \in Seq(S) /\ DOMAIN e = 1 .. Len(e) /\ Len(e) \in Nat /\ n \in Int /\ 1 <= n
  BY <1>1, EnvShape DEF IsEnv
<1>3. \A i \in 1 .. n : e[i] \in S
  BY <1>2, ElementOfSeq
<1>4. /\ f \in Seq(S) /\ Len(f) = n - 1 + 1
      /\ \A i \in 1 .. n - 1 + 1 : f[i] = e[1 + i - 1]
  BY <1>2, <1>3, SubSeqProperties DEF ClosedTo
<1>5. Len(f) = n /\ \A i \in 1 .. n : f[i] = e[i]
  BY <1>2, <1>4
<1>6. DOMAIN f = 1 .. n
  BY <1>4, <1>5, LenProperties
<1>7. \A k \in DOMAIN f : DOMAIN f[k] \subseteq Names /\ \A y \in DOMAIN f[k] : Meant(f[k][y])
  <2>1. \A k \in DOMAIN f : k \in DOMAIN e /\ f[k] = e[k]
    BY <1>2, <1>5, <1>6
  <2> QED BY <2>1 DEF IsEnv, Meant
<1>8. f # <<>>
  BY <1>2, <1>5, EmptySeq
<1>9. IsEnv(f)
  BY <1>4, <1>7, <1>8, IsEnvFrom
<1> QED BY <1>5, <1>6, <1>9

-----------------------------------------------------------------------------
(* Type correctness, an action at a time. *)

LEMMA DeclareVarTyped ==
  ASSUME TypeInv(gen, env), NEW x \in Names, NEW t \in GlobalTypes \cup LocalTypes, DeclareVar(x, t)
  PROVE  TypeInv(gen', env')
<1>1. PICK U : U = Unused
  OBVIOUS
<1>2. U \in Nat /\ U # 0 /\ U \notin DOMAIN gen.attributes
  <2>1. IsEnv(env) /\ Numbered(gen)
    BY DEF TypeInv
  <2>2. U \in Nat /\ U # 0 /\ (\A d \in DOMAIN gen.attributes : d < U)
    BY <1>1, <2>1, UnusedIsNew
  <2>3. \A d \in DOMAIN gen.attributes : d \in Nat
    BY <2>1 DEF Numbered
  <2>4. \A d \in DOMAIN gen.attributes : d # U
    BY <2>2, <2>3
  <2> QED BY <2>2, <2>4
<1>3. PICK h : h = mk_var(gen, x, IF IsArray(t) THEN "INT" ELSE Data(t), U)
  OBVIOUS
<1>4. PICK m : m = Meaning(t, U, Len(env))
  OBVIOUS
<1>5. Meant(m)
  <2>1. t \in Types
    BY DEF Types
  <2>2. Len(env) \in Nat /\ Len(env) >= 1
    BY EnvShape DEF TypeInv
  <2> QED BY <1>2, <1>4, <2>1, <2>2 DEF Meant, Meaning
<1>6. IsType(t, Len(StructDefs))
  BY FrontEndAssumption
<1>7. /\ gen' = generate_var_decl(gen, x, t, U)
      /\ env' = [env EXCEPT ![Len(env)] = Extended(env[Len(env)], x, m)]
  BY <1>1, <1>4 DEF DeclareVar, Here
<1>8. /\ IsEnv(env')
      /\ Len(env') = Len(env) /\ DOMAIN env' = DOMAIN env
      /\ \A k \in DOMAIN env : k # Len(env) => env'[k] = env[k]
      /\ env'[Len(env)] = Extended(env[Len(env)], x, m)
  <2>1. IsEnv(env)
    BY DEF TypeInv
  <2>2. env' = Grown(env, x, m)
    BY <1>7 DEF Grown
  <2> QED BY <1>5, <2>1, <2>2, EnvGrows
<1>9. 1 \in DOMAIN env /\ Len(env) \in DOMAIN env
  BY EnvShape DEF TypeInv
<1>10. \A s \in DOMAIN env[1] : s # x \/ Len(env) # 1 => s \in DOMAIN env'[1] /\ env'[1][s] = env[1][s]
  BY <1>8, <1>9 DEF Extended
<1>11. Len(env) = 1 => x \in DOMAIN env'[1] /\ env'[1][x] = m /\ x \notin DOMAIN env[1]
  <2>1. SUFFICES ASSUME Len(env) = 1
                 PROVE  x \in DOMAIN env'[1] /\ env'[1][x] = m /\ x \notin DOMAIN env[1]
    OBVIOUS
  <2>2. x \in DOMAIN env'[1] /\ env'[1][x] = m
    BY <1>8, <2>1 DEF Extended
  <2>3. ASSUME x \in DOMAIN env[1]
        PROVE  FALSE
    <3>1. env[1][x].scope < 1
      BY <2>1, <2>3 DEF DeclareVar, Visible, Meanings, Here
    <3>2. env[1][x].scope \in Nat /\ env[1][x].scope # 0
      BY <1>9, <2>3 DEF TypeInv, IsEnv
    <3> QED BY <3>1, <3>2
  <2> QED BY <2>2, <2>3
<1>12. /\ Shape(h) /\ h.struct_types = struct_types /\ h.scope = gen.scope
       /\ h.array_metadata_map = gen.array_metadata_map
       /\ GlobalsRight(h, env') /\ LocalsRight(h, env') /\ Numbered(h)
  <2>1. CASE lookup_sym(gen, x) # NoSymbol
    <3>1. h = gen
      BY <1>3, <2>1, MkVarKnown
    <3>2. GlobalsRight(h, env')
      <4>1. SUFFICES ASSUME NEW s \in DOMAIN gen.sym_tab_global, gen.sym_tab_global[s].type = "VAR"
                     PROVE  s \in DOMAIN env'[1] /\ gen.sym_tab_global[s].decl = env'[1][s].decl
        BY <3>1 DEF GlobalsRight, TypeInv
      <4>2. s \in DOMAIN env[1] /\ gen.sym_tab_global[s].decl = env[1][s].decl
        BY <4>1 DEF GlobalsRight, TypeInv
      <4> QED BY <1>10, <1>11, <4>2
    <3>3. LocalsRight(h, env')
      BY <1>8, <3>1 DEF LocalsRight, TypeInv
    <3> QED BY <3>1, <3>2, <3>3 DEF TypeInv
  <2>2. CASE lookup_sym(gen, x) = NoSymbol
    <3>1. Shape(gen)
      BY DEF TypeInv
    <3>2. /\ Shape(h)
          /\ h.scope = gen.scope /\ h.struct_types = gen.struct_types
          /\ h.array_metadata_map = gen.array_metadata_map
          /\ \E v : h.attributes = Extended(gen.attributes, U, v)
          /\ gen.scope = "LOCAL" =>
               /\ h.sym_tab_local = Extended(gen.sym_tab_local, x, Symbol("VAR", U))
               /\ h.sym_tab_global = gen.sym_tab_global
          /\ gen.scope # "LOCAL" =>
               /\ h.sym_tab_global = Extended(gen.sym_tab_global, x, Symbol("VAR", U))
               /\ h.sym_tab_local = gen.sym_tab_local
      BY <1>3, <2>2, <3>1, MkVarNew
    <3>3. DOMAIN h.attributes = DOMAIN gen.attributes \cup {U}
      BY <3>2 DEF Extended
    <3>4. Numbered(h)
      BY <1>2, <3>3, FS_AddElement DEF Numbered, TypeInv
    <3>5. CASE Len(env) = 1
      <4>1. /\ h.sym_tab_global = Extended(gen.sym_tab_global, x, Symbol("VAR", U))
            /\ h.sym_tab_local = gen.sym_tab_local
        BY <3>2, <3>5 DEF TypeInv, Scoped
      <4>2. ASSUME NEW s \in DOMAIN h.sym_tab_global
            PROVE  LET entry == h.sym_tab_global[s]
                   IN  /\ entry.type \in {"VAR", "FUNC", "TEXT", "CONST_INT", "CONST_CHAR"}
                       /\ entry.type = "VAR" =>
                            s \in DOMAIN env'[1] /\ entry.decl = env'[1][s].decl /\ entry.decl \in DOMAIN h.attributes
                       /\ entry.type = "FUNC" => s \in ToSet(Functions)
                       /\ entry.type # "VAR" => entry.decl = 0
        <5>1. CASE s = x
          <6>1. h.sym_tab_global[s] = Symbol("VAR", U)
            BY <4>1, <5>1 DEF Extended
          <6>2. env'[1][s].decl = U
            BY <1>4, <1>11, <3>5, <5>1 DEF Meaning
          <6> QED BY <1>11, <3>3, <3>5, <5>1, <6>1, <6>2 DEF Symbol
        <5>2. CASE s # x
          <6>1. s \in DOMAIN gen.sym_tab_global /\ h.sym_tab_global[s] = gen.sym_tab_global[s]
            BY <4>1, <5>2 DEF Extended
          <6> QED BY <1>10, <3>3, <5>2, <6>1 DEF TypeInv, GlobalsRight
        <5> QED BY <5>1, <5>2
      <4>3. GlobalsRight(h, env')
        BY <4>2 DEF GlobalsRight
      <4>4. LocalsRight(h, env')
        BY <1>8, <3>3, <4>1 DEF LocalsRight, TypeInv
      <4> QED BY <3>2, <3>4, <4>3, <4>4 DEF TypeInv
    <3>6. CASE Len(env) # 1
      <4>1. /\ h.sym_tab_local = Extended(gen.sym_tab_local, x, Symbol("VAR", U))
            /\ h.sym_tab_global = gen.sym_tab_global
        BY <3>2, <3>6 DEF TypeInv, Scoped
      <4>2. GlobalsRight(h, env')
        BY <1>10, <3>3, <3>6, <4>1 DEF GlobalsRight, TypeInv
      <4>3. ASSUME NEW s \in DOMAIN h.sym_tab_local
            PROVE  LET entry == h.sym_tab_local[s]
                   IN  entry.type = "VAR" /\ entry.decl # 0 /\ entry.decl \in DOMAIN h.attributes
        <5>1. CASE s = x
          <6>1. h.sym_tab_local[s] = Symbol("VAR", U)
            BY <4>1, <5>1 DEF Extended
          <6> QED BY <1>2, <3>3, <6>1 DEF Symbol
        <5>2. CASE s # x
          <6>1. s \in DOMAIN gen.sym_tab_local /\ h.sym_tab_local[s] = gen.sym_tab_local[s]
            BY <4>1, <5>2 DEF Extended
          <6> QED BY <3>3, <6>1 DEF TypeInv, LocalsRight
        <5> QED BY <5>1, <5>2
      <4>4. LocalsRight(h, env')
        BY <1>8, <3>6, <4>3 DEF LocalsRight
      <4> QED BY <3>2, <3>4, <4>2, <4>4 DEF TypeInv
    <3> QED BY <3>5, <3>6
  <2> QED BY <2>1, <2>2
<1>13. /\ Shape(gen')
       /\ gen'.scope = h.scope /\ gen'.struct_types = h.struct_types
       /\ gen'.sym_tab_global = h.sym_tab_global /\ gen'.sym_tab_local = h.sym_tab_local
       /\ DOMAIN gen'.attributes = DOMAIN h.attributes
       /\ gen'.array_metadata_map =
            IF IsArray(t)
            THEN Extended(h.array_metadata_map, Id(x), create_array_metadata(gen.struct_types, t))
            ELSE h.array_metadata_map
  <2>1. Shape(h)
    BY <1>12
  <2>2. PICK r : r = gen'
    OBVIOUS
  <2>3. /\ Shape(r)
        /\ r.scope = h.scope /\ r.struct_types = h.struct_types
        /\ r.sym_tab_global = h.sym_tab_global /\ r.sym_tab_local = h.sym_tab_local
        /\ DOMAIN r.attributes = DOMAIN h.attributes
        /\ r.array_metadata_map =
             IF IsArray(t)
             THEN Extended(h.array_metadata_map, Id(x), create_array_metadata(gen.struct_types, t))
             ELSE h.array_metadata_map
    <3>1. MadeAndFilled(gen, x, t, U, h, r)
      BY <1>3, <1>7, <2>2 DEF MadeAndFilled
    <3>2. FilledIn(gen, x, t, h, r)
      BY <1>6, <2>1, <3>1, VarDeclIs
    <3> QED BY <3>2 DEF FilledIn
  <2> QED BY <2>2, <2>3
<1>14. Remembered(gen')
  <2>1. SUFFICES ASSUME NEW b \in DOMAIN gen'.array_metadata_map
                 PROVE  gen'.array_metadata_map[b].dimensions # <<>>
    BY DEF Remembered
  <2>2. CASE IsArray(t) /\ b = Id(x)
    <3>1. gen'.array_metadata_map[b] = create_array_metadata(gen.struct_types, t)
      BY <1>13, <2>2 DEF Extended
    <3>2. create_array_metadata(gen.struct_types, t).dimensions = t.dims
      BY <1>6, MetadataIs
    <3> QED BY <2>2, <3>1, <3>2 DEF IsArray
  <2>3. CASE ~(IsArray(t) /\ b = Id(x))
    <3>1. b \in DOMAIN gen.array_metadata_map /\ gen'.array_metadata_map[b] = gen.array_metadata_map[b]
      BY <1>12, <1>13, <2>1, <2>3 DEF Extended
    <3> QED BY <3>1 DEF TypeInv, Remembered
  <2> QED BY <2>2, <2>3
<1>15. Scoped(gen', env')
  BY <1>8, <1>12, <1>13 DEF Scoped, TypeInv
<1>16. GlobalsRight(gen', env') /\ LocalsRight(gen', env') /\ Numbered(gen')
  BY <1>12, <1>13 DEF GlobalsRight, LocalsRight, Numbered
<1> QED BY <1>8, <1>12, <1>13, <1>14, <1>15, <1>16 DEF TypeInv

(* A parameter is a symbol as mk_var makes it, in the function's table, of *)
(* which nothing more is known than its own type.                          *)
Unfilled(a, t) ==
  /\ a.array_metadata = NoArray /\ a.data_type = IF IsArray(t) THEN "INT" ELSE Data(t)
  /\ a.base_type = "UNSET" /\ a.struct = ""
  /\ IsArray(t) \/ IsPointer(t) => a.is_pointer = TRUE
  /\ ~IsArray(t) /\ ~IsPointer(t) => a.is_pointer = FALSE

ParaMade(g, p, decl, r) == r = declare_para(g, p, decl)

ParaTaken(g, p, decl, r) ==
  /\ Shape(r)
  /\ r.scope = "LOCAL" /\ r.struct_types = g.struct_types
  /\ r.sym_tab_global = g.sym_tab_global /\ r.array_metadata_map = g.array_metadata_map
  /\ lookup_sym(g, p.name) # NoSymbol =>
       r.sym_tab_local = g.sym_tab_local /\ DOMAIN r.attributes = DOMAIN g.attributes
  /\ lookup_sym(g, p.name) = NoSymbol =>
       /\ r.sym_tab_local = Extended(g.sym_tab_local, p.name, Symbol("VAR", decl))
       /\ DOMAIN r.attributes = DOMAIN g.attributes \cup {decl}
       /\ r.attributes[decl].scope = "LOCAL" /\ Unfilled(r.attributes[decl], p.type)
       /\ \A d \in DOMAIN g.attributes : d # decl => r.attributes[d] = g.attributes[d]

LEMMA ParaIs ==
  ASSUME NEW g, Shape(g), g.scope = "LOCAL", NEW p, NEW decl, NEW r, ParaMade(g, p, decl, r)
  PROVE  ParaTaken(g, p, decl, r)
<1>1. PICK data : data = IF IsArray(p.type) THEN "INT" ELSE Data(p.type)
  OBVIOUS
<1>2. PICK h : h = mk_var(g, p.name, data, decl)
  OBVIOUS
<1>3. PICK s : s = lookup_sym(h, p.name).decl
  OBVIOUS
<1>4. PICK v : v = (IsArray(p.type) \/ IsPointer(p.type))
  OBVIOUS
<1>5. r = [h EXCEPT !.attributes[s].is_pointer = v]
  BY <1>1, <1>2, <1>3, <1>4 DEF ParaMade, declare_para
<1>6. CASE lookup_sym(g, p.name) # NoSymbol
  <2>1. h = g
    BY <1>2, <1>6, MkVarKnown
  <2> QED BY <1>5, <1>6, <2>1 DEF ParaTaken, Shape
<1>7. CASE lookup_sym(g, p.name) = NoSymbol
  <2>1. /\ Shape(h)
        /\ h.scope = g.scope /\ h.struct_types = g.struct_types
        /\ h.array_metadata_map = g.array_metadata_map
        /\ h.attributes = Extended(g.attributes, decl, Attributes(g.scope, data))
        /\ h.sym_tab_local = Extended(g.sym_tab_local, p.name, Symbol("VAR", decl))
        /\ h.sym_tab_global = g.sym_tab_global
    BY <1>2, <1>7, MkVarNew
  <2>2. p.name \in DOMAIN h.sym_tab_local /\ h.sym_tab_local[p.name] = Symbol("VAR", decl)
    BY <2>1 DEF Extended
  <2>3. s = decl
    BY <1>3, <2>1, <2>2 DEF lookup_sym, Symbol
  <2>4. /\ DOMAIN h.attributes = DOMAIN g.attributes \cup {decl}
        /\ h.attributes[decl] = Attributes("LOCAL", data)
        /\ \A d \in DOMAIN g.attributes : d # decl => h.attributes[d] = g.attributes[d]
    BY <2>1 DEF Extended
  <2>5. /\ DOMAIN r = DOMAIN h
        /\ r.scope = h.scope /\ r.struct_types = h.struct_types
        /\ r.sym_tab_global = h.sym_tab_global /\ r.sym_tab_local = h.sym_tab_local
        /\ r.array_metadata_map = h.array_metadata_map
        /\ r.attributes = [h.attributes EXCEPT ![decl].is_pointer = v]
    BY <1>5, <2>1, <2>3 DEF Shape
  <2>6. /\ DOMAIN r.attributes = DOMAIN h.attributes
        /\ r.attributes[decl].scope = "LOCAL" /\ Unfilled(r.attributes[decl], p.type)
        /\ \A d \in DOMAIN g.attributes : d # decl => r.attributes[d] = h.attributes[d]
    <3>1. PICK w : w = [Attributes("LOCAL", data) EXCEPT !.is_pointer = v]
      OBVIOUS
    <3>2. w.scope = "LOCAL" /\ Unfilled(w, p.type)
      <4>1. w.scope = "LOCAL" /\ w.array_metadata = NoArray /\ w.data_type = data /\ w.base_type = "UNSET" /\ w.struct = ""
        BY <3>1 DEF Attributes
      <4>2. w.is_pointer = v
        BY <3>1 DEF Attributes
      <4>3. /\ IsArray(p.type) \/ IsPointer(p.type) => w.is_pointer = TRUE
            /\ ~IsArray(p.type) /\ ~IsPointer(p.type) => w.is_pointer = FALSE
        BY <1>4, <4>2
      <4> QED BY <1>1, <4>1, <4>3 DEF Unfilled
    <3>3. r.attributes = [h.attributes EXCEPT ![decl] = w]
      BY <2>4, <2>5, <3>1
    <3> QED BY <2>4, <3>2, <3>3
  <2> QED BY <1>7, <2>1, <2>4, <2>5, <2>6 DEF ParaTaken, Shape
<1> QED BY <1>6, <1>7

(* The generator after the first n parameters, one after the other. *)
ParasTo(first, params, unused, n, h) ==
  h = [k \in 0 .. n |-> IF k = 0 THEN first ELSE declare_para(h[k - 1], params[k], unused + k - 1)]

LEMMA ParasExist ==
  ASSUME NEW first, NEW params, NEW unused \in Nat, NEW n \in Nat
  PROVE  \E h : ParasTo(first, params, unused, n, h)
<1> DEFINE Bad == {m \in 0 .. n : ~\E h : ParasTo(first, params, unused, m, h)}
<1>1. SUFFICES ASSUME Bad # {}
               PROVE  FALSE
  OBVIOUS
<1>2. PICK m \in Bad : \A k \in Bad : m <= k
  <2>1. Bad \subseteq Nat
    OBVIOUS
  <2> QED BY <1>1, <2>1, Least
<1>3. m # 0
  <2>1. PICK h : h = [k \in 0 .. 0 |-> first]
    OBVIOUS
  <2>2. h = [k \in 0 .. 0 |-> IF k = 0 THEN first ELSE declare_para(h[k - 1], params[k], unused + k - 1)]
    BY <2>1
  <2>3. ParasTo(first, params, unused, 0, h)
    BY <2>2 DEF ParasTo
  <2>4. ~\E i : ParasTo(first, params, unused, m, i)
    BY <1>2
  <2> QED BY <2>3, <2>4
<1>4. m - 1 \in 0 .. n /\ m - 1 \notin Bad
  BY <1>2, <1>3
<1>5. PICK f : ParasTo(first, params, unused, m - 1, f)
  BY <1>4
<1>6. PICK last : last = declare_para(f[m - 1], params[m], unused + m - 1)
  OBVIOUS
<1>7. PICK h : h = [k \in 0 .. m |-> IF k = m THEN last ELSE f[k]]
  OBVIOUS
<1>8. \A k \in 0 .. (m - 1) :
        f[k] = IF k = 0 THEN first ELSE declare_para(f[k - 1], params[k], unused + k - 1)
  BY <1>5 DEF ParasTo
<1>9. ASSUME NEW k \in 0 .. m
      PROVE  h[k] = IF k = 0 THEN first ELSE declare_para(h[k - 1], params[k], unused + k - 1)
  <2>1. CASE k = m
    <3>1. k # 0 /\ k - 1 \in 0 .. m /\ k - 1 # m /\ h[k - 1] = f[k - 1] /\ h[k] = last
      BY <1>3, <1>7, <2>1
    <3> QED BY <1>6, <2>1, <3>1
  <2>2. CASE k # m
    <3>1. k \in 0 .. (m - 1) /\ h[k] = f[k]
      BY <1>7, <2>2
    <3>2. k # 0 => k - 1 \in 0 .. m /\ k - 1 # m /\ h[k - 1] = f[k - 1]
      BY <1>7, <3>1
    <3> QED BY <1>8, <3>1, <3>2
  <2> QED BY <2>1, <2>2
<1>10. ParasTo(first, params, unused, m, h)
  BY <1>7, <1>9 DEF ParasTo
<1> QED BY <1>2, <1>10

(* What no parameter changes. *)
ParasRight(first, v) ==
  /\ Shape(v) /\ v.scope = "LOCAL" /\ v.struct_types = first.struct_types
  /\ v.sym_tab_global = first.sym_tab_global /\ v.array_metadata_map = first.array_metadata_map
  /\ Numbered(v) /\ DOMAIN first.attributes \subseteq DOMAIN v.attributes
  /\ \A s \in DOMAIN v.sym_tab_local :
       /\ v.sym_tab_local[s].type = "VAR" /\ v.sym_tab_local[s].decl # 0
       /\ v.sym_tab_local[s].decl \in DOMAIN v.attributes

LEMMA ParaKeeps ==
  ASSUME NEW first, NEW g, ParasRight(first, g), NEW p, NEW decl \in Nat, decl # 0,
         NEW r, ParaMade(g, p, decl, r)
  PROVE  ParasRight(first, r)
<1>1. ParaTaken(g, p, decl, r)
  BY ParaIs DEF ParasRight
<1>2. CASE lookup_sym(g, p.name) # NoSymbol
  BY <1>1, <1>2 DEF ParaTaken, ParasRight, Numbered
<1>3. CASE lookup_sym(g, p.name) = NoSymbol
  <2>1. /\ r.sym_tab_local = Extended(g.sym_tab_local, p.name, Symbol("VAR", decl))
        /\ DOMAIN r.attributes = DOMAIN g.attributes \cup {decl}
    BY <1>1, <1>3 DEF ParaTaken
  <2>2. Numbered(r)
    <3>1. IsFiniteSet(DOMAIN g.attributes)
      BY DEF ParasRight, Numbered
    <3>2. IsFiniteSet(DOMAIN r.attributes)
      BY <2>1, <3>1, FS_AddElement
    <3> QED BY <2>1, <3>2 DEF Numbered, ParasRight
  <2>3. ASSUME NEW s \in DOMAIN r.sym_tab_local
        PROVE  /\ r.sym_tab_local[s].type = "VAR" /\ r.sym_tab_local[s].decl # 0
               /\ r.sym_tab_local[s].decl \in DOMAIN r.attributes
    <3>1. CASE s = p.name
      <4>1. r.sym_tab_local[s] = Symbol("VAR", decl)
        BY <2>1, <3>1 DEF Extended
      <4> QED BY <2>1, <4>1 DEF Symbol
    <3>2. CASE s # p.name
      <4>1. s \in DOMAIN g.sym_tab_local /\ r.sym_tab_local[s] = g.sym_tab_local[s]
        BY <2>1, <3>2 DEF Extended
      <4> QED BY <2>1, <4>1 DEF ParasRight
    <3> QED BY <3>1, <3>2
  <2> QED BY <1>1, <2>1, <2>2, <2>3 DEF ParaTaken, ParasRight
<1> QED BY <1>2, <1>3

LEMMA ParasKeep ==
  ASSUME NEW first, ParasRight(first, first), NEW params, NEW unused \in Nat, unused # 0, NEW n \in Nat,
         NEW h, ParasTo(first, params, unused, n, h)
  PROVE  \A k \in 0 .. n : ParasRight(first, h[k])
<1> DEFINE Bad == {k \in 0 .. n : ~ParasRight(first, h[k])}
<1>1. SUFFICES ASSUME Bad # {}
               PROVE  FALSE
  OBVIOUS
<1>2. PICK m \in Bad : \A k \in Bad : m <= k
  <2>1. Bad \subseteq Nat
    OBVIOUS
  <2> QED BY <1>1, <2>1, Least
<1>3. \A k \in 0 .. n :
        h[k] = IF k = 0 THEN first ELSE declare_para(h[k - 1], params[k], unused + k - 1)
  BY DEF ParasTo
<1>4. m # 0
  <2>1. m = 0 => h[m] = first
    BY <1>2, <1>3
  <2> QED BY <1>2, <2>1
<1>5. m - 1 \in 0 .. n /\ m - 1 \notin Bad
  BY <1>2, <1>4
<1>6. ParasRight(first, h[m - 1])
  BY <1>5
<1>7. ParaMade(h[m - 1], params[m], unused + m - 1, h[m])
  BY <1>2, <1>3, <1>4 DEF ParaMade
<1>8. unused + m - 1 \in Nat /\ unused + m - 1 # 0
  BY <1>2, <1>4
<1>9. ParasRight(first, h[m])
  BY <1>6, <1>7, <1>8, ParaKeeps
<1> QED BY <1>2, <1>9

(* What a function definition does: its parameters, one after the other,   *)
(* from the tables it starts with.                                         *)
Begun(params, n, fn, unused, h) ==
  /\ n \in Nat /\ Len(params) = n /\ DOMAIN params = 1 .. n
  /\ \A k \in 1 .. n : params[k].name \in Names /\ params[k].type \in ParamTypes
  /\ \A k, l \in 1 .. n : params[k].name = params[l].name => k = l
  /\ fn \in ToSet(Functions)
  /\ unused = Unused
  /\ ParasTo(Started(fn), params, unused, n, h)
  /\ gen' = h[n]
  /\ emitted' = Append(emitted, [op |-> "BEGINFUNC", decl |-> 0])
                \o [k \in DOMAIN params |-> Emission("FORMAL", h[k], params[k].name)]

LEMMA BeginFuncIs ==
  ASSUME NEW params \in ParamLists, BeginFunc(params), IsEnv(env), Numbered(gen)
  PROVE  \E n, fn, unused, h : Begun(params, n, fn, unused, h)
<1>1. PICK n \in 0 .. MaxParams : params \in [1 .. n -> [name : Names, type : ParamTypes]]
  BY DEF ParamLists
<1>2. n \in Nat /\ Len(params) = n /\ DOMAIN params = 1 .. n
  <2>1. n \in Nat /\ DOMAIN params = 1 .. n
    BY <1>1
  <2>2. PICK S : S = [name : Names, type : ParamTypes]
    OBVIOUS
  <2>3. params \in Seq(S)
    <3>1. params \in [1 .. n -> S]
      BY <1>1, <2>2
    <3> QED BY ONLY <2>1, <3>1, SeqDef
  <2>4. Len(params) \in Nat /\ DOMAIN params = 1 .. Len(params)
    BY <2>3, LenProperties
  <2> QED BY <2>1, <2>4
<1>3. \A k \in 1 .. n : params[k].name \in Names /\ params[k].type \in ParamTypes
  BY <1>1
<1>4. \A k, l \in 1 .. n : params[k].name = params[l].name => k = l
  BY <1>2 DEF ParamLists
<1>5. PICK fn : fn = Functions[Finished + 1]
  OBVIOUS
<1>6. fn \in ToSet(Functions)
  <2>1. PICK F : F = ToSet(Functions)
    OBVIOUS
  <2>2. Functions \in Seq(F)
    BY <2>1, FrontEndAssumption
  <2>3. Len(Functions) \in Nat /\ DOMAIN Functions = 1 .. Len(Functions)
    BY <2>2, LenProperties
  <2>4. IsFiniteSet(F)
    <3>1. F = {Functions[k] : k \in 1 .. Len(Functions)}
      BY <2>1, <2>3 DEF ToSet
    <3>2. IsFiniteSet(DOMAIN Functions)
      BY <2>3, FS_Interval
    <3>3. \A t \in F : \E k \in DOMAIN Functions : t = Functions[k]
      BY <2>3, <3>1
    <3> QED BY <3>2, <3>3, ImageFinite
  <2>5. PICK G : G = {f \in ToSet(Functions) : f \in DOMAIN gen.sym_tab_global}
    OBVIOUS
  <2>6. IsFiniteSet(G)
    BY <2>1, <2>4, <2>5, FS_Subset
  <2>7. Finished \in Nat
    <3>1. Finished = Cardinality(G)
      BY <2>5 DEF Finished
    <3> QED BY <2>6, <3>1, FS_CardinalityType
  <2>8. Finished < Len(Functions)
    BY DEF BeginFunc
  <2>9. Finished + 1 \in DOMAIN Functions
    BY <2>3, <2>7, <2>8
  <2> QED BY <1>5, <2>9 DEF ToSet
<1>7. PICK U : U = Unused
  OBVIOUS
<1>8. U \in Nat
  BY <1>7, UnusedIsNew
<1>9. PICK i : ParasTo(Started(fn), params, U, n, i)
  BY <1>2, <1>8, ParasExist
<1> DEFINE h == CHOOSE h : h = [k \in 0 .. n |-> IF k = 0 THEN Started(fn)
                                                  ELSE declare_para(h[k - 1], params[k], U + k - 1)]
<1>10. h = [k \in 0 .. n |-> IF k = 0 THEN Started(fn) ELSE declare_para(h[k - 1], params[k], U + k - 1)]
  <2>1. i = [k \in 0 .. n |-> IF k = 0 THEN Started(fn) ELSE declare_para(i[k - 1], params[k], U + k - 1)]
    BY <1>9 DEF ParasTo
  <2> QED BY <2>1
<1>11. /\ gen' = h[n]
       /\ emitted' = Append(emitted, [op |-> "BEGINFUNC", decl |-> 0])
                     \o [k \in DOMAIN params |-> Emission("FORMAL", h[k], params[k].name)]
  BY <1>2, <1>5, <1>7 DEF BeginFunc
<1> HIDE DEF h
<1>12. ParasTo(Started(fn), params, U, n, h)
  BY <1>10 DEF ParasTo
<1>13. Begun(params, n, fn, U, h)
  BY <1>2, <1>3, <1>4, <1>6, <1>7, <1>11, <1>12 DEF Begun
<1> QED BY <1>13

(* A function starts with what is known of the rest. *)
LEMMA StartedIs ==
  ASSUME NEW fn, TypeInv(gen, env)
  PROVE  /\ ParasRight(Started(fn), Started(fn))
         /\ Started(fn).struct_types = gen.struct_types
         /\ Started(fn).array_metadata_map = gen.array_metadata_map
         /\ Started(fn).attributes = gen.attributes
         /\ Started(fn).sym_tab_local = Empty
         /\ Started(fn).sym_tab_global = Extended(gen.sym_tab_global, fn, Symbol("FUNC", 0))
<1>1. PICK G : G = Extended(gen.sym_tab_global, fn, Symbol("FUNC", 0))
  OBVIOUS
<1>2. PICK first : first = Started(fn)
  OBVIOUS
<1>3. first = [gen EXCEPT !.sym_tab_global = G, !.scope = "LOCAL", !.sym_tab_local = Empty]
  BY <1>1, <1>2 DEF Started
<1>4. /\ DOMAIN first = DOMAIN gen
      /\ first.scope = "LOCAL" /\ first.struct_types = gen.struct_types
      /\ first.array_metadata_map = gen.array_metadata_map
      /\ first.attributes = gen.attributes
      /\ first.sym_tab_local = Empty /\ first.sym_tab_global = G
  BY <1>3 DEF TypeInv, Shape
<1>5. ParasRight(first, first)
  BY <1>4 DEF ParasRight, TypeInv, Shape, Numbered, Empty
<1> QED BY <1>1, <1>2, <1>4, <1>5

LEMMA BeginFuncTyped ==
  ASSUME TypeInv(gen, env), NEW params \in ParamLists, BeginFunc(params)
  PROVE  TypeInv(gen', env')
<1>1. IsEnv(env) /\ Numbered(gen)
  BY DEF TypeInv
<1>2. PICK n, fn, U, h : Begun(params, n, fn, U, h)
  BY <1>1, BeginFuncIs
<1>3. U \in Nat /\ U # 0
  BY <1>1, <1>2, UnusedIsNew DEF Begun
<1>4. PICK first : first = Started(fn)
  OBVIOUS
<1>5. /\ ParasRight(first, first)
      /\ first.struct_types = gen.struct_types /\ first.array_metadata_map = gen.array_metadata_map
      /\ first.attributes = gen.attributes /\ first.sym_tab_local = Empty
      /\ first.sym_tab_global = Extended(gen.sym_tab_global, fn, Symbol("FUNC", 0))
  BY <1>4, StartedIs
<1>6. ParasRight(first, gen')
  <2>1. n \in Nat /\ ParasTo(first, params, U, n, h) /\ gen' = h[n]
    BY <1>2, <1>4 DEF Begun
  <2>2. \A k \in 0 .. n : ParasRight(first, h[k])
    BY <1>3, <1>5, <2>1, ParasKeep
  <2> QED BY <2>1, <2>2
<1> DEFINE named(x) == {k \in DOMAIN params : params[k].name = x}
<1>7. PICK v : v = [x \in Visible \cup {params[k].name : k \in DOMAIN params} |->
                     IF named(x) = {} THEN Meanings[x]
                     ELSE LET k == CHOOSE k \in named(x) : TRUE
                          IN  Meaning(Adjusted(params[k].type), Unused + k - 1, 2)]
  OBVIOUS
<1>8. env' = Append(env, v) /\ Len(env) = 1
  BY <1>7 DEF BeginFunc, Here
<1>9. DOMAIN env[1] \subseteq Names /\ \A y \in DOMAIN env[1] : Meant(env[1][y])
  BY <1>1, EnvShape DEF IsEnv, Meant
<1>10. DOMAIN v \subseteq Names /\ \A x \in DOMAIN v : Meant(v[x])
  <2>1. ASSUME NEW x \in DOMAIN v
        PROVE  x \in Names /\ Meant(v[x])
    <3>1. CASE named(x) = {}
      <4>1. v[x] = Meanings[x] /\ x \in Visible
        BY <1>7, <2>1, <3>1
      <4> QED BY <1>8, <1>9, <4>1 DEF Visible, Meanings, Here
    <3>2. CASE named(x) # {}
      <4>1. PICK k : k = CHOOSE i \in named(x) : TRUE
        OBVIOUS
      <4>2. k \in DOMAIN params /\ params[k].name = x
        BY <3>2, <4>1
      <4>3. v[x] = Meaning(Adjusted(params[k].type), U + k - 1, 2)
        BY <1>2, <1>7, <3>2, <4>1 DEF Begun
      <4>4. k \in Nat /\ k # 0 /\ x \in Names /\ params[k].type \in ParamTypes
        BY <1>2, <4>2 DEF Begun
      <4>5. Adjusted(params[k].type) \in Types
        BY <4>4 DEF Types
      <4>6. U + k - 1 \in Nat /\ U + k - 1 # 0
        BY <1>3, <4>4
      <4> QED BY <4>3, <4>4, <4>5, <4>6 DEF Meant, Meaning
    <3> QED BY <3>1, <3>2
  <2> QED BY <2>1
<1>11. /\ IsEnv(env')
       /\ Len(env') = 2
       /\ env'[1] = env[1]
  <2>1. PICK f : f = Append(env, v) /\ OpenedBy(env, v, f)
    BY DEF OpenedBy
  <2>2. /\ IsEnv(f) /\ Len(f) = Len(env) + 1
        /\ \A k \in DOMAIN env : f[k] = env[k]
    BY <1>1, <1>10, <2>1, EnvOpens
  <2>3. 1 \in DOMAIN env
    BY <1>1, EnvShape
  <2> QED BY <1>8, <2>1, <2>2, <2>3
<1>12. GlobalsRight(gen', env')
  <2>1. ASSUME NEW s \in DOMAIN gen'.sym_tab_global
        PROVE  LET entry == gen'.sym_tab_global[s]
               IN  /\ entry.type \in {"VAR", "FUNC", "TEXT", "CONST_INT", "CONST_CHAR"}
                   /\ entry.type = "VAR" =>
                        s \in DOMAIN env'[1] /\ entry.decl = env'[1][s].decl /\ entry.decl \in DOMAIN gen'.attributes
                   /\ entry.type = "FUNC" => s \in ToSet(Functions)
                   /\ entry.type # "VAR" => entry.decl = 0
    <3>1. gen'.sym_tab_global = Extended(gen.sym_tab_global, fn, Symbol("FUNC", 0))
      BY <1>5, <1>6 DEF ParasRight
    <3>2. DOMAIN gen.attributes \subseteq DOMAIN gen'.attributes
      BY <1>5, <1>6 DEF ParasRight
    <3>3. CASE s = fn
      <4>1. gen'.sym_tab_global[s] = Symbol("FUNC", 0)
        BY <3>1, <3>3 DEF Extended
      <4> QED BY <1>2, <3>3, <4>1 DEF Begun, Symbol
    <3>4. CASE s # fn
      <4>1. s \in DOMAIN gen.sym_tab_global /\ gen'.sym_tab_global[s] = gen.sym_tab_global[s]
        BY <3>1, <3>4 DEF Extended
      <4> QED BY <1>11, <3>2, <4>1 DEF TypeInv, GlobalsRight
    <3> QED BY <3>3, <3>4
  <2> QED BY <2>1 DEF GlobalsRight
<1>13. LocalsRight(gen', env')
  BY <1>6, <1>11 DEF LocalsRight, ParasRight
<1>14. Scoped(gen', env')
  BY <1>6, <1>11 DEF Scoped, ParasRight
<1>15. Remembered(gen')
  BY <1>5, <1>6 DEF Remembered, TypeInv, ParasRight
<1>16. Shape(gen') /\ gen'.struct_types = struct_types /\ Numbered(gen')
  BY <1>5, <1>6 DEF ParasRight, TypeInv
<1> QED BY <1>11, <1>12, <1>13, <1>14, <1>15, <1>16 DEF TypeInv

LEMMA OpenBlockTyped ==
  ASSUME TypeInv(gen, env), OpenBlock
  PROVE  TypeInv(gen', env')
<1>1. IsEnv(env) /\ Len(env) \in DOMAIN env /\ 1 \in DOMAIN env /\ Len(env) \in Nat
  BY EnvShape DEF TypeInv
<1>2. gen' = gen /\ env' = Append(env, env[Len(env)]) /\ Len(env) > 1
  BY DEF OpenBlock, Meanings, Here
<1>3. PICK v : v = env[Len(env)]
  OBVIOUS
<1>4. DOMAIN v \subseteq Names /\ \A x \in DOMAIN v : Meant(v[x])
  BY <1>1, <1>3 DEF IsEnv, Meant
<1>5. PICK f : f = env' /\ OpenedBy(env, v, f)
  BY <1>2, <1>3 DEF OpenedBy
<1>6. IsEnv(f) /\ Len(f) = Len(env) + 1 /\ \A k \in DOMAIN env : f[k] = env[k]
  BY <1>1, <1>4, <1>5, EnvOpens
<1>7. IsEnv(env') /\ Len(env') # 1 /\ Len(env) # 1 /\ env'[1] = env[1]
  BY <1>1, <1>2, <1>5, <1>6
<1> QED BY <1>2, <1>7 DEF TypeInv, Scoped, GlobalsRight, LocalsRight

LEMMA CloseBlockTyped ==
  ASSUME TypeInv(gen, env), CloseBlock
  PROVE  TypeInv(gen', env')
<1>1. IsEnv(env) /\ Len(env) \in Nat
  BY EnvShape DEF TypeInv
<1>2. gen' = gen /\ env' = SubSeq(env, 1, Len(env) - 1) /\ Len(env) > 2
  BY DEF CloseBlock, Front, Here
<1>3. PICK n \in 1 .. Len(env) : n = Len(env) - 1 /\ n # 1
  BY <1>1, <1>2
<1>4. PICK f : f = env' /\ ClosedTo(env, n, f)
  BY <1>2, <1>3 DEF ClosedTo
<1>5. IsEnv(f) /\ Len(f) = n /\ \A k \in 1 .. n : f[k] = env[k]
  BY <1>1, <1>4, EnvCloses
<1>6. IsEnv(env') /\ Len(env') # 1 /\ Len(env) # 1 /\ env'[1] = env[1]
  BY <1>1, <1>2, <1>3, <1>4, <1>5
<1> QED BY <1>2, <1>6 DEF TypeInv, Scoped, GlobalsRight, LocalsRight

(* What is left after a function: the outermost scope, and its symbols. *)
LEMMA EndFuncIs ==
  ASSUME TypeInv(gen, env), EndFunc, NEW kept,
         kept = ({0} \cup {env[1][x].decl : x \in DOMAIN env[1]}) \cap DOMAIN gen.attributes
  PROVE  /\ Len(env) = 2
         /\ IsEnv(env') /\ Len(env') = 1 /\ DOMAIN env' = 1 .. 1 /\ env'[1] = env[1]
         /\ Shape(gen') /\ gen'.scope = "GLOBAL"
         /\ gen'.struct_types = gen.struct_types /\ gen'.array_metadata_map = gen.array_metadata_map
         /\ gen'.sym_tab_global = gen.sym_tab_global /\ gen'.sym_tab_local = Empty
         /\ gen'.attributes = [d \in kept |-> gen.attributes[d]]
<1>1. IsEnv(env) /\ 1 \in DOMAIN env /\ Len(env) = 2
  BY EnvShape DEF TypeInv, EndFunc, Here
<1>2. PICK v : v = env[1]
  OBVIOUS
<1>3. DOMAIN v \subseteq Names /\ \A x \in DOMAIN v : Meant(v[x])
  BY <1>1, <1>2 DEF IsEnv, Meant
<1>4. PICK f : f = <<v>>
  OBVIOUS
<1>5. f \in Seq({v}) /\ f # <<>> /\ Len(f) = 1 /\ DOMAIN f = 1 .. 1 /\ f[1] = v
  BY <1>4
<1>6. \A k \in DOMAIN f : f[k] = v
  BY <1>5
<1>7. IsEnv(f)
  BY <1>3, <1>5, <1>6, IsEnvFrom
<1>8. env' = f
  BY <1>2, <1>4 DEF EndFunc
<1>9. PICK g : g = leave_scope(gen)
  OBVIOUS
<1>10. gen' = [g EXCEPT !.attributes =
                 Restrict(@, ({0} \cup {env[1][x].decl : x \in DOMAIN env[1]}) \cap DOMAIN @)]
  BY <1>9 DEF EndFunc
<1>11. /\ DOMAIN g = DOMAIN gen /\ g.scope = "GLOBAL" /\ g.sym_tab_local = Empty
       /\ g.struct_types = gen.struct_types /\ g.array_metadata_map = gen.array_metadata_map
       /\ g.sym_tab_global = gen.sym_tab_global /\ g.attributes = gen.attributes
  BY <1>9 DEF leave_scope, TypeInv, Shape
<1>12. PICK a : a = Restrict(gen.attributes, kept)
  OBVIOUS
<1>13. gen' = [g EXCEPT !.attributes = a]
  BY <1>10, <1>11, <1>12 DEF TypeInv, Shape
<1>14. a = [d \in kept |-> gen.attributes[d]]
  BY <1>12 DEF Restrict
<1> QED BY <1>1, <1>2, <1>5, <1>7, <1>8, <1>11, <1>13, <1>14 DEF TypeInv, Shape

LEMMA EndFuncTyped ==
  ASSUME TypeInv(gen, env), EndFunc
  PROVE  TypeInv(gen', env')
<1>1. PICK kept : kept = ({0} \cup {env[1][x].decl : x \in DOMAIN env[1]}) \cap DOMAIN gen.attributes
  OBVIOUS
<1>2. /\ IsEnv(env') /\ Len(env') = 1 /\ env'[1] = env[1]
      /\ Shape(gen') /\ gen'.scope = "GLOBAL"
      /\ gen'.struct_types = gen.struct_types /\ gen'.array_metadata_map = gen.array_metadata_map
      /\ gen'.sym_tab_global = gen.sym_tab_global /\ gen'.sym_tab_local = Empty
      /\ gen'.attributes = [d \in kept |-> gen.attributes[d]]
  BY <1>1, EndFuncIs
<1>3. DOMAIN gen'.attributes = kept /\ kept \subseteq DOMAIN gen.attributes /\ 0 \in kept
  BY <1>1, <1>2 DEF TypeInv, Numbered
<1>4. Numbered(gen')
  BY <1>3, FS_Subset DEF TypeInv, Numbered
<1>5. GlobalsRight(gen', env')
  <2>1. ASSUME NEW s \in DOMAIN gen.sym_tab_global, gen.sym_tab_global[s].type = "VAR"
        PROVE  gen.sym_tab_global[s].decl \in kept
    BY <1>1, <2>1 DEF TypeInv, GlobalsRight
  <2> QED BY <1>2, <1>3, <2>1 DEF TypeInv, GlobalsRight
<1>6. LocalsRight(gen', env')
  BY <1>2 DEF LocalsRight, Empty
<1> QED BY <1>2, <1>4, <1>5, <1>6 DEF TypeInv, Scoped, Remembered

(* A number or a literal enters the table as what it is.                   *)
EnteredAs(g, kinds, r) ==
  /\ Shape(r)
  /\ r.scope = g.scope /\ r.struct_types = g.struct_types
  /\ r.sym_tab_local = g.sym_tab_local /\ r.attributes = g.attributes
  /\ DOMAIN g.sym_tab_global \subseteq DOMAIN r.sym_tab_global
  /\ \A s \in DOMAIN r.sym_tab_global :
       IF s \in DOMAIN g.sym_tab_global THEN r.sym_tab_global[s] = g.sym_tab_global[s]
       ELSE \E k \in kinds : r.sym_tab_global[s] = Symbol(k[1], 0) /\ s = Spelling(k[1], k[2])

LEMMA EnteredTyped ==
  ASSUME TypeInv(gen, env), NEW kinds, \A k \in kinds : k[1] \in {"TEXT", "CONST_INT", "CONST_CHAR"},
         NEW r, EnteredAs(gen, kinds, r), Remembered(r)
  PROVE  TypeInv(r, env)
<1>1. GlobalsRight(r, env)
  <2>1. ASSUME NEW s \in DOMAIN r.sym_tab_global
        PROVE  LET entry == r.sym_tab_global[s]
               IN  /\ entry.type \in {"VAR", "FUNC", "TEXT", "CONST_INT", "CONST_CHAR"}
                   /\ entry.type = "VAR" =>
                        s \in DOMAIN env[1] /\ entry.decl = env[1][s].decl /\ entry.decl \in DOMAIN r.attributes
                   /\ entry.type = "FUNC" => s \in ToSet(Functions)
                   /\ entry.type # "VAR" => entry.decl = 0
    <3>1. CASE s \in DOMAIN gen.sym_tab_global
      BY <3>1 DEF EnteredAs, TypeInv, GlobalsRight
    <3>2. CASE s \notin DOMAIN gen.sym_tab_global
      <4>1. PICK k \in kinds : r.sym_tab_global[s] = Symbol(k[1], 0)
        BY <3>2 DEF EnteredAs
      <4> QED BY <4>1 DEF Symbol
    <3> QED BY <3>1, <3>2
  <2> QED BY <2>1 DEF GlobalsRight
<1> QED BY <1>1 DEF TypeInv, EnteredAs, Scoped, LocalsRight, Numbered

LEMMA UseEnters ==
  ASSUME TypeInv(gen, env), NEW e, Use(e)
  PROVE  /\ EnteredAs(gen, {<<"CONST_INT", n>> : n \in Known(generate_expression(gen, e).numbers)}, gen')
         /\ Remembered(gen') /\ env' = env /\ emitted' = emitted
<1>1. PICK numbers : numbers = Known(generate_expression(gen, e).numbers)
  OBVIOUS
<1>2. PICK new : new = {b \in generate_expression(gen, e).arrays \ DOMAIN gen.array_metadata_map :
                   Kind(b) # "id" /\ infer_array_metadata_from_access(gen, b).dimensions # <<>>}
  OBVIOUS
<1>3. PICK g : g = mk_consts(gen, numbers)
  OBVIOUS
<1>4. gen' = [g EXCEPT !.array_metadata_map = [b \in DOMAIN @ \cup new |-> array_metadata(gen, b)]]
  BY <1>1, <1>2, <1>3 DEF Use
<1>5. PICK table : table = [s \in DOMAIN gen.sym_tab_global \cup {Spelling("CONST_INT", n) : n \in numbers} |->
                      IF s \in DOMAIN gen.sym_tab_global THEN gen.sym_tab_global[s] ELSE Symbol("CONST_INT", 0)]
  OBVIOUS
<1>6. g = [gen EXCEPT !.sym_tab_global = table]
  BY <1>3, <1>5 DEF mk_consts
<1>7. /\ DOMAIN g = DOMAIN gen /\ g.scope = gen.scope /\ g.struct_types = gen.struct_types
      /\ g.sym_tab_local = gen.sym_tab_local /\ g.attributes = gen.attributes
      /\ g.array_metadata_map = gen.array_metadata_map
      /\ g.sym_tab_global = table
  BY <1>6 DEF TypeInv, Shape
<1>8. PICK map : map = [b \in DOMAIN gen.array_metadata_map \cup new |-> array_metadata(gen, b)]
  OBVIOUS
<1>9. gen' = [g EXCEPT !.array_metadata_map = map]
  BY <1>4, <1>7, <1>8
<1>10. /\ DOMAIN gen' = DOMAIN gen /\ gen'.scope = gen.scope /\ gen'.struct_types = gen.struct_types
       /\ gen'.sym_tab_local = gen.sym_tab_local /\ gen'.attributes = gen.attributes
       /\ gen'.array_metadata_map = map
       /\ gen'.sym_tab_global = table
  BY <1>7, <1>9 DEF TypeInv, Shape
<1>11. ASSUME NEW b \in DOMAIN map
       PROVE  map[b].dimensions # <<>>
  <2>1. map[b] = array_metadata(gen, b)
    BY <1>8
  <2>2. CASE b \in DOMAIN gen.array_metadata_map
    BY <2>1, <2>2 DEF array_metadata, TypeInv, Remembered
  <2>3. CASE b \notin DOMAIN gen.array_metadata_map
    BY <1>2, <1>8, <2>1, <2>3 DEF array_metadata
  <2> QED BY <2>2, <2>3
<1>12. PICK kinds : kinds = {<<"CONST_INT", n>> : n \in numbers}
  OBVIOUS
<1>13. ASSUME NEW s \in DOMAIN table
       PROVE  IF s \in DOMAIN gen.sym_tab_global THEN table[s] = gen.sym_tab_global[s]
              ELSE \E k \in kinds : table[s] = Symbol(k[1], 0) /\ s = Spelling(k[1], k[2])
  <2>1. CASE s \in DOMAIN gen.sym_tab_global
    BY <1>5, <2>1
  <2>2. CASE s \notin DOMAIN gen.sym_tab_global
    <3>1. PICK n \in numbers : s = Spelling("CONST_INT", n)
      BY <1>5, <2>2
    <3>2. PICK k \in kinds : k = <<"CONST_INT", n>>
      BY <1>12
    <3>3. k[1] = "CONST_INT" /\ k[2] = n
      BY <3>2
    <3>4. table[s] = Symbol("CONST_INT", 0)
      BY <1>5, <2>2
    <3> QED BY <2>2, <3>1, <3>3, <3>4
  <2> QED BY <2>1, <2>2
<1>14. DOMAIN gen.sym_tab_global \subseteq DOMAIN table
  BY <1>5
<1>15. EnteredAs(gen, kinds, gen')
  BY <1>10, <1>13, <1>14 DEF EnteredAs, TypeInv, Shape
<1>16. Remembered(gen')
  BY <1>10, <1>11 DEF Remembered
<1> QED BY <1>1, <1>12, <1>15, <1>16 DEF Use

LEMMA UseTyped ==
  ASSUME TypeInv(gen, env), NEW e, Use(e)
  PROVE  TypeInv(gen', env')
<1>1. PICK kinds : kinds = {<<"CONST_INT", n>> : n \in Known(generate_expression(gen, e).numbers)}
  OBVIOUS
<1>2. EnteredAs(gen, kinds, gen') /\ Remembered(gen') /\ env' = env
  BY <1>1, UseEnters
<1>3. \A k \in kinds : k[1] \in {"TEXT", "CONST_INT", "CONST_CHAR"}
  BY <1>1
<1>4. TypeInv(gen', env)
  BY <1>2, <1>3, EnteredTyped
<1> QED BY <1>2, <1>4

LEMMA UseLiteralEnters ==
  ASSUME TypeInv(gen, env), NEW kind, NEW v, UseLiteral(kind, v)
  PROVE  /\ EnteredAs(gen, {<<kind, v>>}, gen')
         /\ Remembered(gen') /\ env' = env /\ emitted' = emitted
<1>1. PICK s : s = Spelling(kind, v)
  OBVIOUS
<1>2. PICK kinds : kinds = {<<kind, v>>}
  OBVIOUS
<1>3. gen' = IF s \in DOMAIN gen.sym_tab_global THEN gen
             ELSE [gen EXCEPT !.sym_tab_global = Extended(@, s, Symbol(kind, 0))]
  BY <1>1 DEF UseLiteral, mk_literal
<1>4. CASE s \in DOMAIN gen.sym_tab_global
  <2>1. gen' = gen
    BY <1>3, <1>4
  <2> QED BY <1>2, <2>1 DEF EnteredAs, TypeInv, UseLiteral
<1>5. CASE s \notin DOMAIN gen.sym_tab_global
  <2>1. PICK table : table = Extended(gen.sym_tab_global, s, Symbol(kind, 0))
    OBVIOUS
  <2>2. gen' = [gen EXCEPT !.sym_tab_global = table]
    BY <1>3, <1>5, <2>1
  <2>3. /\ DOMAIN gen' = DOMAIN gen /\ gen'.scope = gen.scope /\ gen'.struct_types = gen.struct_types
        /\ gen'.sym_tab_local = gen.sym_tab_local /\ gen'.attributes = gen.attributes
        /\ gen'.array_metadata_map = gen.array_metadata_map
        /\ gen'.sym_tab_global = table
    BY <2>2 DEF TypeInv, Shape
  <2>4. /\ DOMAIN table = DOMAIN gen.sym_tab_global \cup {s} /\ table[s] = Symbol(kind, 0)
        /\ \A y \in DOMAIN gen.sym_tab_global : table[y] = gen.sym_tab_global[y]
    BY <1>5, <2>1 DEF Extended
  <2>5. PICK k \in kinds : k = <<kind, v>> /\ k[1] = kind /\ k[2] = v
    BY <1>2
  <2>6. EnteredAs(gen, kinds, gen')
    BY <1>1, <2>3, <2>4, <2>5 DEF EnteredAs, TypeInv, Shape
  <2>7. Remembered(gen')
    BY <2>3 DEF Remembered, TypeInv
  <2> QED BY <1>2, <2>6, <2>7 DEF UseLiteral
<1> QED BY <1>4, <1>5

LEMMA UseLiteralTyped ==
  ASSUME TypeInv(gen, env), NEW l \in Literals, UseLiteral(l[1], l[2])
  PROVE  TypeInv(gen', env')
<1>1. PICK kinds : kinds = {<<l[1], l[2]>>}
  OBVIOUS
<1>2. EnteredAs(gen, kinds, gen') /\ Remembered(gen') /\ env' = env
  BY <1>1, UseLiteralEnters
<1>3. l[1] \in {"TEXT", "CONST_INT", "CONST_CHAR"}
  BY DEF Literals
<1>4. \A k \in kinds : k[1] \in {"TEXT", "CONST_INT", "CONST_CHAR"}
  BY <1>1, <1>3
<1>5. TypeInv(gen', env)
  BY <1>2, <1>4, EnteredTyped
<1> QED BY <1>2, <1>5

LEMMA InitTyped ==
  ASSUME Init
  PROVE  TypeInv(gen, env)
<1>1. PICK v : v = Empty
  OBVIOUS
<1>2. env = <<v>> /\ DOMAIN v = {}
  BY <1>1 DEF Init, Empty
<1>3. env \in Seq({v}) /\ env # <<>> /\ Len(env) = 1 /\ DOMAIN env = 1 .. 1 /\ env[1] = v
  BY <1>2
<1>4. \A k \in DOMAIN env : env[k] = v
  BY <1>3
<1>5. IsEnv(env)
  BY <1>2, <1>3, <1>4, IsEnvFrom
<1>6. /\ Shape(gen) /\ gen.scope = "GLOBAL" /\ gen.struct_types = struct_types
      /\ DOMAIN gen.sym_tab_global = {} /\ gen.sym_tab_local = Empty
      /\ DOMAIN gen.attributes = {0} /\ DOMAIN gen.array_metadata_map = {}
  BY DEF Init, Shape, Empty
<1>7. Numbered(gen)
  <2>1. IsFiniteSet({0})
    BY FS_Singleton
  <2> QED BY <1>6, <2>1 DEF Numbered
<1>8. LocalsRight(gen, env)
  BY <1>6 DEF LocalsRight, Empty
<1> QED BY <1>3, <1>5, <1>6, <1>7, <1>8 DEF TypeInv, Scoped, GlobalsRight, Remembered

LEMMA StepTyped ==
  ASSUME TypeInv(gen, env), [Next]_vars
  PROVE  TypeInv(gen', env')
<1>1. ASSUME NEW x \in Names, NEW t \in GlobalTypes \cup LocalTypes, DeclareVar(x, t)
      PROVE  TypeInv(gen', env')
  BY <1>1, DeclareVarTyped
<1>2. ASSUME NEW params \in ParamLists, BeginFunc(params)
      PROVE  TypeInv(gen', env')
  BY <1>2, BeginFuncTyped
<1>3. CASE OpenBlock
  BY <1>3, OpenBlockTyped
<1>4. CASE CloseBlock
  BY <1>4, CloseBlockTyped
<1>5. CASE EndFunc
  BY <1>5, EndFuncTyped
<1>6. ASSUME NEW e \in Paths, Use(e)
      PROVE  TypeInv(gen', env')
  BY <1>6, UseTyped
<1>7. ASSUME NEW l \in Literals, UseLiteral(l[1], l[2])
      PROVE  TypeInv(gen', env')
  BY <1>7, UseLiteralTyped
<1>8. CASE UNCHANGED vars
  <2>1. gen' = gen /\ env' = env
    BY <1>8 DEF vars
  <2> QED BY <2>1
<1> QED BY <1>1, <1>2, <1>3, <1>4, <1>5, <1>6, <1>7, <1>8 DEF Next

LEMMA TypeInvImplies ==
  ASSUME TypeInv(gen, env)
  PROVE  TypeOK
<1>1. IsEnv(env) /\ 1 \in DOMAIN env /\ 0 \in DOMAIN gen.attributes
  BY EnvShape DEF TypeInv, Numbered
<1>2. ASSUME NEW s \in DOMAIN gen.sym_tab_global
      PROVE  /\ gen.sym_tab_global[s].type \in {"VAR", "FUNC", "TEXT", "CONST_INT", "CONST_CHAR"}
             /\ gen.sym_tab_global[s].decl \in DOMAIN gen.attributes
             /\ gen.sym_tab_global[s].type = "VAR" <=> gen.sym_tab_global[s].decl # 0
  <2>1. CASE gen.sym_tab_global[s].type = "VAR"
    <3>1. /\ s \in DOMAIN env[1] /\ gen.sym_tab_global[s].decl = env[1][s].decl
          /\ gen.sym_tab_global[s].decl \in DOMAIN gen.attributes
      BY <2>1 DEF TypeInv, GlobalsRight
    <3>2. env[1][s].decl # 0
      BY <1>1, <3>1 DEF IsEnv
    <3> QED BY <2>1, <3>1, <3>2
  <2>2. CASE gen.sym_tab_global[s].type # "VAR"
    BY <1>1, <2>2 DEF TypeInv, GlobalsRight
  <2> QED BY <2>1, <2>2
<1>3. ASSUME NEW s \in DOMAIN gen.sym_tab_local
      PROVE  /\ gen.sym_tab_local[s].type \in {"VAR", "FUNC", "TEXT", "CONST_INT", "CONST_CHAR"}
             /\ gen.sym_tab_local[s].decl \in DOMAIN gen.attributes
             /\ gen.sym_tab_local[s].type = "VAR" <=> gen.sym_tab_local[s].decl # 0
  BY DEF TypeInv, LocalsRight
<1>4. gen.scope = IF Here = 1 THEN "GLOBAL" ELSE "LOCAL"
  BY DEF TypeInv, Scoped, Here
<1>5. Here = 1 => gen.sym_tab_local = Empty
  BY DEF TypeInv, LocalsRight, Here
<1>6. \A b \in DOMAIN gen.array_metadata_map : gen.array_metadata_map[b].dimensions # <<>>
  BY DEF TypeInv, Remembered
<1> QED BY <1>2, <1>3, <1>4, <1>5, <1>6 DEF TypeOK

(* Whatever the program declares, opens, closes and uses, with all that    *)
(* may happen of the Cases: every entry of a variable in a symbol table    *)
(* has its symbol, no local symbol outlives its function, and what is      *)
(* remembered of an array is of an array (mk_var, leave_scope, mk_const,   *)
(* store_array_metadata).                                                  *)
THEOREM TablesTyped == Spec => []TypeOK
<1>1. Init => TypeInv(gen, env)
  BY InitTyped
<1>2. TypeInv(gen, env) /\ [Next]_vars => TypeInv(gen, env)'
  BY StepTyped
<1>3. TypeInv(gen, env) => TypeOK
  BY TypeInvImplies
<1> QED BY <1>1, <1>2, <1>3, PTL DEF Spec

-----------------------------------------------------------------------------
(* Names. Where nothing is redeclared and no literal is taken for another  *)
(* thing, what is declared gets a symbol of its own.                       *)

LEMMA FreshIsNew ==
  ASSUME TypeInv(gen, env), NEW x \in Names, Fresh(x), "redeclared" \notin Admit, "literal" \notin Admit
  PROVE  x \notin DOMAIN gen.sym_tab_global /\ x \notin DOMAIN gen.sym_tab_local
<1>1. PICK s : s = lookup_sym(gen, x)
  OBVIOUS
<1>2. s.type \notin {"VAR", "TEXT", "CONST_INT", "CONST_CHAR"}
  BY <1>1 DEF Fresh
<1>3. ASSUME x \in DOMAIN gen.sym_tab_local
      PROVE  FALSE
  <2>1. gen.scope = "LOCAL"
    BY <1>3 DEF TypeInv, LocalsRight, Scoped, Empty
  <2>2. s = gen.sym_tab_local[x]
    BY <1>1, <1>3, <2>1 DEF lookup_sym
  <2> QED BY <1>2, <1>3, <2>2 DEF TypeInv, LocalsRight
<1>4. ASSUME x \in DOMAIN gen.sym_tab_global
      PROVE  FALSE
  <2>1. s = gen.sym_tab_global[x]
    BY <1>1, <1>3, <1>4 DEF lookup_sym
  <2>2. s.type = "FUNC" /\ x \in ToSet(Functions)
    BY <1>2, <1>4, <2>1 DEF TypeInv, GlobalsRight
  <2> QED BY <2>2, FrontEndAssumption
<1> QED BY <1>3, <1>4

(* The symbol a declaration makes before it is filled in.                  *)
MadeFor(x, t, unused, h) ==
  /\ MadeAndFilled(gen, x, t, unused, h, gen') /\ Shape(h)
  /\ lookup_sym(h, x).decl = unused /\ unused \in DOMAIN h.attributes
  /\ h.attributes[unused] = Attributes(gen.scope, IF IsArray(t) THEN "INT" ELSE Data(t))

(* What a declaration of a new name does.                                  *)
DeclaredNew(x, t, unused) ==
  /\ lookup_sym(gen', x).decl = unused /\ \E h : MadeFor(x, t, unused, h)
  /\ env' = Grown(env, x, Meaning(t, unused, Len(env)))
  /\ DOMAIN gen'.attributes = DOMAIN gen.attributes \cup {unused}
  /\ \A d \in DOMAIN gen.attributes : gen'.attributes[d] = gen.attributes[d]
  /\ Len(env) = 1 => /\ gen'.sym_tab_global = Extended(gen.sym_tab_global, x, Symbol("VAR", unused))
                     /\ gen'.sym_tab_local = gen.sym_tab_local
  /\ Len(env) # 1 => /\ gen'.sym_tab_local = Extended(gen.sym_tab_local, x, Symbol("VAR", unused))
                     /\ gen'.sym_tab_global = gen.sym_tab_global

LEMMA DeclareVarNew ==
  ASSUME TypeInv(gen, env), NEW x \in Names, NEW t \in GlobalTypes \cup LocalTypes, DeclareVar(x, t),
         "redeclared" \notin Admit, "literal" \notin Admit
  PROVE  DeclaredNew(x, t, Unused)
<1>1. PICK U : U = Unused
  OBVIOUS
<1>2. U \notin DOMAIN gen.attributes
  <2>1. \A d \in DOMAIN gen.attributes : d \in Nat /\ d < U
    BY <1>1, UnusedIsNew DEF TypeInv, Numbered
  <2>2. \A d \in DOMAIN gen.attributes : d # U
    BY <2>1
  <2> QED BY <2>2
<1>3. PICK data : data = IF IsArray(t) THEN "INT" ELSE Data(t)
  OBVIOUS
<1>4. PICK h : h = mk_var(gen, x, data, U)
  OBVIOUS
<1>5. IsType(t, Len(StructDefs))
  BY FrontEndAssumption
<1>6. /\ gen' = generate_var_decl(gen, x, t, U)
      /\ env' = Grown(env, x, Meaning(t, U, Len(env)))
  BY <1>1 DEF DeclareVar, Here, Grown
<1>7. x \notin DOMAIN gen.sym_tab_global /\ x \notin DOMAIN gen.sym_tab_local
  BY FreshIsNew DEF DeclareVar
<1>8. lookup_sym(gen, x) = NoSymbol /\ Shape(gen)
  BY <1>7 DEF lookup_sym, TypeInv
<1>9. /\ Shape(h) /\ h.scope = gen.scope
      /\ h.attributes = Extended(gen.attributes, U, Attributes(gen.scope, data))
      /\ gen.scope = "LOCAL" =>
           /\ h.sym_tab_local = Extended(gen.sym_tab_local, x, Symbol("VAR", U))
           /\ h.sym_tab_global = gen.sym_tab_global
      /\ gen.scope # "LOCAL" =>
           /\ h.sym_tab_global = Extended(gen.sym_tab_global, x, Symbol("VAR", U))
           /\ h.sym_tab_local = gen.sym_tab_local
  BY <1>4, <1>8, MkVarNew
<1>10. lookup_sym(h, x) = Symbol("VAR", U)
  <2>1. CASE gen.scope = "LOCAL"
    <3>1. x \in DOMAIN h.sym_tab_local /\ h.sym_tab_local[x] = Symbol("VAR", U)
      BY <1>9, <2>1 DEF Extended
    <3> QED BY <1>9, <2>1, <3>1 DEF lookup_sym
  <2>2. CASE gen.scope # "LOCAL"
    <3>1. x \in DOMAIN h.sym_tab_global /\ h.sym_tab_global[x] = Symbol("VAR", U)
      BY <1>9, <2>2 DEF Extended
    <3> QED BY <1>9, <2>2, <3>1 DEF lookup_sym
  <2> QED BY <2>1, <2>2
<1>11. lookup_sym(h, x).decl = U
  BY <1>10 DEF Symbol
<1>12. PICK r : r = gen'
  OBVIOUS
<1>13. MadeAndFilled(gen, x, t, U, h, r)
  BY <1>4, <1>6, <1>12, <1>3 DEF MadeAndFilled
<1>14. FilledIn(gen, x, t, h, r)
  BY <1>5, <1>9, <1>13, VarDeclIs
<1>15. /\ r.scope = h.scope
       /\ r.sym_tab_global = h.sym_tab_global /\ r.sym_tab_local = h.sym_tab_local
       /\ DOMAIN r.attributes = DOMAIN h.attributes
       /\ \A d \in DOMAIN h.attributes : d # U => r.attributes[d] = h.attributes[d]
  BY <1>11, <1>14 DEF FilledIn
<1>16. /\ DOMAIN h.attributes = DOMAIN gen.attributes \cup {U}
       /\ \A d \in DOMAIN gen.attributes : d # U => h.attributes[d] = gen.attributes[d]
  BY <1>9 DEF Extended
<1>17. /\ DOMAIN r.attributes = DOMAIN gen.attributes \cup {U}
       /\ \A d \in DOMAIN gen.attributes : r.attributes[d] = gen.attributes[d]
  BY <1>2, <1>15, <1>16
<1>18. gen.scope = "LOCAL" <=> Len(env) # 1
  BY DEF TypeInv, Scoped
<1>19. lookup_sym(gen', x).decl = U
  <2>1. lookup_sym(r, x) = lookup_sym(h, x)
    BY <1>15 DEF lookup_sym
  <2> QED BY <1>11, <1>12, <2>1
<1>20. MadeFor(x, t, U, h)
  <2>1. U \in DOMAIN h.attributes /\ h.attributes[U] = Attributes(gen.scope, data)
    BY <1>9 DEF Extended
  <2> QED BY <1>9, <1>11, <1>12, <1>13, <1>3, <2>1 DEF MadeFor
<1> QED BY <1>1, <1>6, <1>9, <1>12, <1>15, <1>17, <1>18, <1>19, <1>20 DEF DeclaredNew

(* After the first k parameters, all of them new: the table of the         *)
(* function is theirs.                                                     *)
ParasBound(first, params, unused, k, v) ==
  /\ \A s : s \in DOMAIN v.sym_tab_local <=> \E j \in 1 .. k : s = params[j].name
  /\ \A j \in 1 .. k : v.sym_tab_local[params[j].name] = Symbol("VAR", unused + j - 1)
  /\ \A d : d \in DOMAIN v.attributes <=>
       d \in DOMAIN first.attributes \/ \E j \in 1 .. k : d = unused + j - 1
  /\ \A j \in 1 .. k : /\ v.attributes[unused + j - 1].scope = "LOCAL"
                       /\ Unfilled(v.attributes[unused + j - 1], params[j].type)
  /\ \A d \in DOMAIN first.attributes : v.attributes[d] = first.attributes[d]

LEMMA ParaBinds ==
  ASSUME NEW first, NEW params, NEW unused \in Nat, NEW k \in Nat, k # 0, NEW g, NEW r,
         ParasRight(first, g), ParasBound(first, params, unused, k - 1, g),
         ParaMade(g, params[k], unused + k - 1, r),
         \A d \in DOMAIN first.attributes : d \in Nat /\ d < unused,
         params[k].name \notin DOMAIN first.sym_tab_global,
         \A j \in 1 .. (k - 1) : params[j].name # params[k].name
  PROVE  ParasBound(first, params, unused, k, r)
<1>1. PICK p : p = params[k]
  OBVIOUS
<1>2. PICK decl : decl = unused + k - 1
  OBVIOUS
<1>3. ParaTaken(g, p, decl, r)
  BY <1>1, <1>2, ParaIs DEF ParasRight
<1>4. lookup_sym(g, p.name) = NoSymbol
  BY <1>1 DEF lookup_sym, ParasRight, ParasBound
<1>5. /\ r.sym_tab_local = Extended(g.sym_tab_local, p.name, Symbol("VAR", decl))
      /\ DOMAIN r.attributes = DOMAIN g.attributes \cup {decl}
      /\ r.attributes[decl].scope = "LOCAL" /\ Unfilled(r.attributes[decl], p.type)
      /\ \A d \in DOMAIN g.attributes : d # decl => r.attributes[d] = g.attributes[d]
  BY <1>3, <1>4 DEF ParaTaken
<1>6. \A j : j \in 1 .. k <=> j \in 1 .. (k - 1) \/ j = k
  OBVIOUS
<1>7. ASSUME NEW s
      PROVE  s \in DOMAIN r.sym_tab_local <=> \E j \in 1 .. k : s = params[j].name
  <2>1. s \in DOMAIN r.sym_tab_local <=> s \in DOMAIN g.sym_tab_local \/ s = p.name
    BY <1>5 DEF Extended
  <2>2. s \in DOMAIN g.sym_tab_local <=> \E j \in 1 .. (k - 1) : s = params[j].name
    BY DEF ParasBound
  <2> QED BY <1>1, <1>6, <2>1, <2>2
<1>8. ASSUME NEW j \in 1 .. k
      PROVE  r.sym_tab_local[params[j].name] = Symbol("VAR", unused + j - 1)
  <2>1. CASE j = k
    BY <1>1, <1>2, <1>5, <2>1 DEF Extended
  <2>2. CASE j \in 1 .. (k - 1)
    <3>1. /\ params[j].name # p.name /\ params[j].name \in DOMAIN g.sym_tab_local
          /\ g.sym_tab_local[params[j].name] = Symbol("VAR", unused + j - 1)
      BY <1>1, <2>2 DEF ParasBound
    <3> QED BY <1>5, <3>1 DEF Extended
  <2> QED BY <1>6, <2>1, <2>2
<1>9. ASSUME NEW d
      PROVE  d \in DOMAIN r.attributes <=> d \in DOMAIN first.attributes \/ \E j \in 1 .. k : d = unused + j - 1
  <2>1. d \in DOMAIN r.attributes <=> d \in DOMAIN g.attributes \/ d = decl
    BY <1>5
  <2>2. d \in DOMAIN g.attributes <=>
          d \in DOMAIN first.attributes \/ \E j \in 1 .. (k - 1) : d = unused + j - 1
    BY DEF ParasBound
  <2> QED BY <1>2, <1>6, <2>1, <2>2
<1>10. ASSUME NEW j \in 1 .. k
       PROVE  r.attributes[unused + j - 1].scope = "LOCAL" /\ Unfilled(r.attributes[unused + j - 1], params[j].type)
  <2>1. CASE j = k
    BY <1>1, <1>2, <1>5, <2>1
  <2>2. CASE j \in 1 .. (k - 1)
    <3>1. /\ unused + j - 1 \in DOMAIN g.attributes /\ g.attributes[unused + j - 1].scope = "LOCAL"
          /\ Unfilled(g.attributes[unused + j - 1], params[j].type)
      BY <2>2 DEF ParasBound
    <3>2. unused + j - 1 # decl
      BY <1>2, <2>2
    <3> QED BY <1>5, <3>1, <3>2
  <2> QED BY <1>6, <2>1, <2>2
<1>11. ASSUME NEW d \in DOMAIN first.attributes
       PROVE  r.attributes[d] = first.attributes[d]
  <2>1. d \in DOMAIN g.attributes /\ g.attributes[d] = first.attributes[d]
    BY DEF ParasBound
  <2>2. d # decl
    <3>1. d \in Nat /\ d < unused
      OBVIOUS
    <3> QED BY <1>2, <3>1
  <2> QED BY <1>5, <2>1, <2>2
<1> QED BY <1>7, <1>8, <1>9, <1>10, <1>11 DEF ParasBound

LEMMA ParasBind ==
  ASSUME NEW first, ParasRight(first, first), first.sym_tab_local = Empty,
         NEW params, NEW unused \in Nat, unused # 0, NEW n \in Nat,
         NEW h, ParasTo(first, params, unused, n, h),
         \A d \in DOMAIN first.attributes : d \in Nat /\ d < unused,
         \A k \in 1 .. n : params[k].name \notin DOMAIN first.sym_tab_global,
         \A k, l \in 1 .. n : params[k].name = params[l].name => k = l
  PROVE  \A k \in 0 .. n : ParasRight(first, h[k]) /\ ParasBound(first, params, unused, k, h[k])
<1> DEFINE Bad == {k \in 0 .. n : ~ParasBound(first, params, unused, k, h[k])}
<1>1. \A k \in 0 .. n : ParasRight(first, h[k])
  BY ParasKeep
<1>2. SUFFICES ASSUME Bad # {}
               PROVE  FALSE
  BY <1>1
<1>3. PICK m \in Bad : \A k \in Bad : m <= k
  <2>1. Bad \subseteq Nat
    OBVIOUS
  <2> QED BY <1>2, <2>1, Least
<1>4. \A k \in 0 .. n :
        h[k] = IF k = 0 THEN first ELSE declare_para(h[k - 1], params[k], unused + k - 1)
  BY DEF ParasTo
<1>5. m # 0
  <2>1. SUFFICES ASSUME m = 0
                 PROVE  FALSE
    OBVIOUS
  <2>2. h[0] = first
    BY <1>3, <1>4, <2>1
  <2>3. ParasBound(first, params, unused, 0, first)
    BY DEF ParasBound, Empty
  <2> QED BY <1>3, <2>1, <2>2, <2>3
<1>6. m - 1 \in 0 .. n /\ m - 1 \notin Bad /\ m \in Nat /\ m \in 1 .. n
  BY <1>3, <1>5
<1>7. ParasBound(first, params, unused, m - 1, h[m - 1]) /\ ParasRight(first, h[m - 1])
  BY <1>1, <1>6
<1>8. ParaMade(h[m - 1], params[m], unused + m - 1, h[m])
  BY <1>3, <1>4, <1>5 DEF ParaMade
<1>9. \A j \in 1 .. (m - 1) : params[j].name # params[m].name
  <2>1. TAKE j \in 1 .. (m - 1)
  <2>2. j \in 1 .. n /\ j # m
    BY <1>6
  <2> QED BY <1>6, <2>2
<1>10. params[m].name \notin DOMAIN first.sym_tab_global
  BY <1>6
<1>11. ParasBound(first, params, unused, m, h[m])
  BY <1>5, <1>6, <1>7, <1>8, <1>9, <1>10, ParaBinds
<1> QED BY <1>3, <1>11

(* The scope a function begins: what can be seen there, and its parameters. *)
ScopeOfParas(params, n, unused, v) ==
  /\ OpenedBy(env, v, env')
  /\ \A x : x \in DOMAIN v <=> x \in DOMAIN env[1] \/ \E k \in 1 .. n : x = params[k].name
  /\ \A k \in 1 .. n : v[params[k].name] = Meaning(Adjusted(params[k].type), unused + k - 1, 2)
  /\ \A x \in DOMAIN env[1] : (\A k \in 1 .. n : x # params[k].name) => v[x] = env[1][x]

LEMMA BeginFuncOpens ==
  ASSUME NEW params \in ParamLists, BeginFunc(params),
         NEW n, NEW fn, NEW unused, NEW h, Begun(params, n, fn, unused, h)
  PROVE  \E v : ScopeOfParas(params, n, unused, v)
<1> DEFINE named(x) == {k \in DOMAIN params : params[k].name = x}
<1>1. PICK v : v = [x \in Visible \cup {params[k].name : k \in DOMAIN params} |->
                     IF named(x) = {} THEN Meanings[x]
                     ELSE LET k == CHOOSE k \in named(x) : TRUE
                          IN  Meaning(Adjusted(params[k].type), Unused + k - 1, 2)]
  OBVIOUS
<1>2. env' = Append(env, v) /\ Len(env) = 1
  BY <1>1 DEF BeginFunc, Here
<1>3. DOMAIN params = 1 .. n /\ unused = Unused /\ n \in Nat
  BY DEF Begun
<1>4. ASSUME NEW x
      PROVE  x \in DOMAIN v <=> x \in DOMAIN env[1] \/ \E k \in 1 .. n : x = params[k].name
  BY <1>1, <1>2, <1>3 DEF Visible, Meanings, Here
<1>5. ASSUME NEW k \in 1 .. n
      PROVE  v[params[k].name] = Meaning(Adjusted(params[k].type), unused + k - 1, 2)
  <2>1. PICK x : x = params[k].name
    OBVIOUS
  <2>2. PICK l : l = CHOOSE i \in named(x) : TRUE
    OBVIOUS
  <2>3. k \in named(x)
    BY <1>3, <2>1
  <2>4. l \in named(x)
    BY <2>2, <2>3
  <2>5. l = k
    BY <1>3, <2>1, <2>4 DEF Begun
  <2>6. x \in DOMAIN v
    BY <1>4, <2>1
  <2>7. v[x] = Meaning(Adjusted(params[l].type), Unused + l - 1, 2)
    BY <1>1, <2>2, <2>3, <2>6
  <2> QED BY <1>3, <2>1, <2>5, <2>7
<1>6. ASSUME NEW x \in DOMAIN env[1], \A k \in 1 .. n : x # params[k].name
      PROVE  v[x] = env[1][x]
  <2>1. x \in DOMAIN v
    BY <1>4
  <2>2. named(x) = {}
    BY <1>3, <1>6
  <2> QED BY <1>1, <1>2, <2>1, <2>2 DEF Meanings, Here
<1>7. OpenedBy(env, v, env')
  BY <1>2 DEF OpenedBy
<1>8. ScopeOfParas(params, n, unused, v)
  BY <1>4, <1>5, <1>6, <1>7 DEF ScopeOfParas
<1> QED BY <1>8

(* A function whose parameters are all new. *)
BegunNew(params, n, fn, unused, h, v) ==
  /\ Begun(params, n, fn, unused, h)
  /\ unused \in Nat /\ unused # 0
  /\ \A k \in 1 .. n : params[k].name \notin DOMAIN gen.sym_tab_global
  /\ \A k \in 0 .. n : ParasRight(Started(fn), h[k]) /\ ParasBound(Started(fn), params, unused, k, h[k])
  /\ ScopeOfParas(params, n, unused, v)

LEMMA BeginFuncNew ==
  ASSUME TypeInv(gen, env), NEW params \in ParamLists, BeginFunc(params),
         "redeclared" \notin Admit, "literal" \notin Admit
  PROVE  \E n, fn, unused, h, v : BegunNew(params, n, fn, unused, h, v)
<1>1. IsEnv(env) /\ Numbered(gen)
  BY DEF TypeInv
<1>2. PICK n, fn, U, h : Begun(params, n, fn, U, h)
  BY <1>1, BeginFuncIs
<1>3. U \in Nat /\ U # 0 /\ \A d \in DOMAIN gen.attributes : d \in Nat /\ d < U
  BY <1>1, <1>2, UnusedIsNew DEF Begun, Numbered
<1>4. PICK first : first = Started(fn)
  OBVIOUS
<1>5. /\ ParasRight(first, first)
      /\ first.attributes = gen.attributes /\ first.sym_tab_local = Empty
      /\ first.sym_tab_global = Extended(gen.sym_tab_global, fn, Symbol("FUNC", 0))
  BY <1>4, StartedIs
<1>6. /\ n \in Nat /\ ParasTo(first, params, U, n, h) /\ fn \in ToSet(Functions)
      /\ \A k \in 1 .. n : params[k].name \in Names
      /\ \A k, l \in 1 .. n : params[k].name = params[l].name => k = l
  BY <1>2, <1>4 DEF Begun
<1>7. ASSUME NEW k \in 1 .. n
      PROVE  /\ params[k].name \notin DOMAIN gen.sym_tab_global
             /\ params[k].name \notin DOMAIN first.sym_tab_global
  <2>1. Fresh(params[k].name)
    <3>1. k \in DOMAIN params
      BY <1>2 DEF Begun
    <3>2. params[k] \in ToSet(params)
      BY <3>1 DEF ToSet
    <3> QED BY <3>2 DEF BeginFunc
  <2>2. params[k].name \notin DOMAIN gen.sym_tab_global
    BY <1>6, <2>1, FreshIsNew
  <2>3. params[k].name # fn
    BY <1>6, FrontEndAssumption
  <2> QED BY <1>5, <2>2, <2>3 DEF Extended
<1>8. \A d \in DOMAIN first.attributes : d \in Nat /\ d < U
  BY <1>3, <1>5
<1>9. \A k \in 0 .. n : ParasRight(first, h[k]) /\ ParasBound(first, params, U, k, h[k])
  BY <1>3, <1>5, <1>6, <1>7, <1>8, ParasBind
<1>10. PICK v : ScopeOfParas(params, n, U, v)
  BY <1>2, BeginFuncOpens
<1>11. BegunNew(params, n, fn, U, h, v)
  BY <1>2, <1>3, <1>4, <1>7, <1>9, <1>10 DEF BegunNew
<1> QED BY <1>11

-----------------------------------------------------------------------------
(* Every name has the symbol of its declaration, an action at a time.      *)

LEMMA DeclareVarBinds ==
  ASSUME TypeInv(gen, env), Bound(gen, env), NEW x \in Names, NEW t \in GlobalTypes \cup LocalTypes, DeclareVar(x, t),
         "redeclared" \notin Admit, "literal" \notin Admit
  PROVE  Bound(gen', env')
<1>1. PICK U : U = Unused
  OBVIOUS
<1>2. DeclaredNew(x, t, U)
  BY <1>1, DeclareVarNew
<1>3. PICK m : m = Meaning(t, U, Len(env)) /\ m.decl = U
  <2>1. Meaning(t, U, Len(env)).decl = U
    BY DEF Meaning
  <2> QED BY <2>1
<1>4. IsEnv(env) /\ Len(env) \in DOMAIN env /\ 1 \in DOMAIN env
  BY EnvShape DEF TypeInv
<1>5. Meant(m)
  <2>1. t \in Types
    BY DEF Types
  <2>2. Len(env) \in Nat /\ Len(env) # 0
    BY <1>4, EnvShape
  <2>3. U \in Nat /\ U # 0
    BY <1>1, <1>4, UnusedIsNew DEF TypeInv
  <2> QED BY <1>3, <2>1, <2>2, <2>3 DEF Meant, Meaning
<1>6. /\ DOMAIN env' = DOMAIN env
      /\ \A k \in DOMAIN env : k # Len(env) => env'[k] = env[k]
      /\ env'[Len(env)] = Extended(env[Len(env)], x, m)
  BY <1>2, <1>3, <1>4, <1>5, EnvGrows DEF DeclaredNew
<1>7. x \notin DOMAIN gen.sym_tab_global /\ x \notin DOMAIN gen.sym_tab_local
  BY FreshIsNew DEF DeclareVar
<1>8. \A k \in DOMAIN env : x \notin DOMAIN env[k]
  BY <1>7 DEF Bound
<1>9. ASSUME NEW k \in DOMAIN env, NEW y \in DOMAIN env'[k], y # x
      PROVE  y \in DOMAIN env[k] /\ env'[k][y] = env[k][y]
  BY <1>6, <1>9 DEF Extended
<1>10. ASSUME NEW k \in DOMAIN env, x \in DOMAIN env'[k]
       PROVE  k = Len(env) /\ env'[k][x].decl = U
  <2>1. k = Len(env)
    BY <1>6, <1>8, <1>10
  <2> QED BY <1>3, <1>6, <2>1 DEF Extended
<1>11. \A y : y # x => (y \in DOMAIN env'[1] <=> y \in DOMAIN env[1])
  BY <1>4, <1>6 DEF Extended
<1>12. x \in DOMAIN env'[1] <=> Len(env) = 1
  BY <1>4, <1>6, <1>8 DEF Extended
<1>13. CASE Len(env) = 1
  <2>1. /\ gen'.sym_tab_global = Extended(gen.sym_tab_global, x, Symbol("VAR", U))
        /\ gen'.sym_tab_local = gen.sym_tab_local
    BY <1>2, <1>13 DEF DeclaredNew
  <2>2. ASSUME NEW k \in DOMAIN env', NEW y \in DOMAIN env'[k]
        PROVE  IF y \in DOMAIN env'[1]
               THEN /\ y \in DOMAIN gen'.sym_tab_global /\ y \notin DOMAIN gen'.sym_tab_local
                    /\ gen'.sym_tab_global[y] = Symbol("VAR", env'[k][y].decl)
               ELSE y \in DOMAIN gen'.sym_tab_local /\ gen'.sym_tab_local[y] = Symbol("VAR", env'[k][y].decl)
    <3>1. CASE y = x
      BY <1>6, <1>7, <1>10, <1>12, <1>13, <2>1, <3>1 DEF Extended
    <3>2. CASE y # x
      <4>1. y \in DOMAIN env[k] /\ env'[k][y] = env[k][y] /\ k \in DOMAIN env
        BY <1>6, <1>9, <3>2
      <4> QED BY <1>11, <2>1, <3>2, <4>1 DEF Bound, Extended
    <3> QED BY <3>1, <3>2
  <2> QED BY <2>2 DEF Bound
<1>14. CASE Len(env) # 1
  <2>1. /\ gen'.sym_tab_local = Extended(gen.sym_tab_local, x, Symbol("VAR", U))
        /\ gen'.sym_tab_global = gen.sym_tab_global
    BY <1>2, <1>14 DEF DeclaredNew
  <2>2. ASSUME NEW k \in DOMAIN env', NEW y \in DOMAIN env'[k]
        PROVE  IF y \in DOMAIN env'[1]
               THEN /\ y \in DOMAIN gen'.sym_tab_global /\ y \notin DOMAIN gen'.sym_tab_local
                    /\ gen'.sym_tab_global[y] = Symbol("VAR", env'[k][y].decl)
               ELSE y \in DOMAIN gen'.sym_tab_local /\ gen'.sym_tab_local[y] = Symbol("VAR", env'[k][y].decl)
    <3>1. CASE y = x
      BY <1>6, <1>7, <1>10, <1>12, <1>14, <2>1, <3>1 DEF Extended
    <3>2. CASE y # x
      <4>1. y \in DOMAIN env[k] /\ env'[k][y] = env[k][y] /\ k \in DOMAIN env
        BY <1>6, <1>9, <3>2
      <4> QED BY <1>11, <2>1, <3>2, <4>1 DEF Bound, Extended
    <3> QED BY <3>1, <3>2
  <2> QED BY <2>2 DEF Bound
<1> QED BY <1>13, <1>14

LEMMA BeginFuncBinds ==
  ASSUME TypeInv(gen, env), Bound(gen, env), NEW params \in ParamLists, BeginFunc(params),
         "redeclared" \notin Admit, "literal" \notin Admit
  PROVE  Bound(gen', env')
<1>1. PICK n, fn, U, h, v : BegunNew(params, n, fn, U, h, v)
  BY BeginFuncNew
<1>2. PICK first : first = Started(fn)
  OBVIOUS
<1>3. ParasRight(first, gen') /\ ParasBound(first, params, U, n, gen') /\ n \in Nat
  BY <1>1, <1>2 DEF BegunNew, Begun
<1>4. first.sym_tab_global = Extended(gen.sym_tab_global, fn, Symbol("FUNC", 0))
  BY <1>2, StartedIs
<1>5. gen'.sym_tab_global = Extended(gen.sym_tab_global, fn, Symbol("FUNC", 0))
  BY <1>3, <1>4 DEF ParasRight
<1>6. fn \notin Names
  BY <1>1, FrontEndAssumption DEF BegunNew, Begun
<1>7. IsEnv(env) /\ Len(env) = 1 /\ DOMAIN env = 1 .. 1
  BY EnvShape DEF TypeInv, BeginFunc, Here
<1>8. ScopeOfParas(params, n, U, v)
  BY <1>1 DEF BegunNew
<1>9. DOMAIN env[1] \subseteq Names /\ \A y \in DOMAIN env[1] : Meant(env[1][y])
  BY <1>7 DEF IsEnv, Meant
<1>10. \A k \in 1 .. n : params[k].name \notin DOMAIN env[1]
  BY <1>1, <1>7 DEF BegunNew, Bound
<1>11. DOMAIN env' = 1 .. 2 /\ env'[1] = env[1] /\ env'[2] = v
  <2>1. \E S : env \in Seq(S) /\ v \in S
    <3>1. PICK S : S = Range(env) \cup {v}
      OBVIOUS
    <3>2. Range(env) \subseteq S /\ v \in S
      BY <3>1
    <3>3. env \in Seq(S)
      BY <1>7, <3>2, SeqMonotonic DEF IsEnv
    <3> QED BY <3>2, <3>3
  <2>2. PICK S : env \in Seq(S) /\ v \in S
    BY <2>1
  <2>3. env' = Append(env, v)
    BY <1>8 DEF ScopeOfParas, OpenedBy
  <2>4. /\ env' \in Seq(S) /\ Len(env') = 2
        /\ env'[1] = env[1] /\ env'[2] = v
    <3>1. PICK f : f = Append(env, v)
      OBVIOUS
    <3>2. /\ f \in Seq(S) /\ Len(f) = Len(env) + 1
          /\ \A i \in 1 .. Len(env) : f[i] = env[i]
          /\ f[Len(env) + 1] = v
      BY ONLY <2>2, <3>1, AppendProperties
    <3> QED BY <1>7, <2>3, <3>1, <3>2
  <2> QED BY <2>4, LenProperties
<1>12. ASSUME NEW y \in DOMAIN env[1]
       PROVE  /\ y \in DOMAIN gen'.sym_tab_global /\ y \notin DOMAIN gen'.sym_tab_local
              /\ gen'.sym_tab_global[y] = Symbol("VAR", env[1][y].decl)
  <2>1. y \in DOMAIN gen.sym_tab_global /\ gen.sym_tab_global[y] = Symbol("VAR", env[1][y].decl)
    BY <1>7 DEF Bound
  <2>2. y # fn
    BY <1>6, <1>9
  <2>3. y \in DOMAIN gen'.sym_tab_global /\ gen'.sym_tab_global[y] = gen.sym_tab_global[y]
    BY <1>5, <2>1, <2>2 DEF Extended
  <2>4. y \notin DOMAIN gen'.sym_tab_local
    BY <1>3, <1>10 DEF ParasBound
  <2> QED BY <2>1, <2>3, <2>4
<1>13. ASSUME NEW y \in DOMAIN v, y \in DOMAIN env[1]
       PROVE  v[y] = env[1][y]
  BY <1>8, <1>10, <1>13 DEF ScopeOfParas
<1>14. ASSUME NEW y \in DOMAIN v, y \notin DOMAIN env[1]
       PROVE  y \in DOMAIN gen'.sym_tab_local /\ gen'.sym_tab_local[y] = Symbol("VAR", v[y].decl)
  <2>1. PICK k \in 1 .. n : y = params[k].name
    BY <1>8, <1>14 DEF ScopeOfParas
  <2>2. v[y] = Meaning(Adjusted(params[k].type), U + k - 1, 2)
    BY <1>8, <2>1 DEF ScopeOfParas
  <2>3. y \in DOMAIN gen'.sym_tab_local /\ gen'.sym_tab_local[y] = Symbol("VAR", U + k - 1)
    BY <1>3, <2>1 DEF ParasBound
  <2> QED BY <2>2, <2>3 DEF Meaning
<1>15. ASSUME NEW k \in DOMAIN env', NEW y \in DOMAIN env'[k]
       PROVE  IF y \in DOMAIN env'[1]
              THEN /\ y \in DOMAIN gen'.sym_tab_global /\ y \notin DOMAIN gen'.sym_tab_local
                   /\ gen'.sym_tab_global[y] = Symbol("VAR", env'[k][y].decl)
              ELSE y \in DOMAIN gen'.sym_tab_local /\ gen'.sym_tab_local[y] = Symbol("VAR", env'[k][y].decl)
  <2>1. k = 1 \/ k = 2
    BY <1>11
  <2>2. CASE k = 1
    BY <1>11, <1>12, <2>2
  <2>3. CASE k = 2
    BY <1>11, <1>12, <1>13, <1>14, <2>3
  <2> QED BY <2>1, <2>2, <2>3
<1> QED BY <1>15 DEF Bound

LEMMA OpenBlockBinds ==
  ASSUME TypeInv(gen, env), Bound(gen, env), OpenBlock
  PROVE  Bound(gen', env')
<1>1. IsEnv(env) /\ Len(env) \in DOMAIN env /\ 1 \in DOMAIN env
  BY EnvShape DEF TypeInv
<1>2. PICK v : v = env[Len(env)]
  OBVIOUS
<1>3. DOMAIN v \subseteq Names /\ \A x \in DOMAIN v : Meant(v[x])
  BY <1>1, <1>2 DEF IsEnv, Meant
<1>4. gen' = gen /\ OpenedBy(env, v, env')
  BY <1>2 DEF OpenBlock, Meanings, Here, OpenedBy
<1>5. /\ DOMAIN env' = 1 .. (Len(env) + 1) /\ DOMAIN env = 1 .. Len(env) /\ Len(env) \in Nat
      /\ \A k \in DOMAIN env : env'[k] = env[k]
      /\ env'[Len(env) + 1] = v
  BY <1>1, <1>3, <1>4, EnvOpens, EnvShape
<1>6. \A k \in DOMAIN env' : \E l \in DOMAIN env : env'[k] = env[l]
  <2>1. ASSUME NEW k \in DOMAIN env'
        PROVE  \E l \in DOMAIN env : env'[k] = env[l]
    <3>1. k = Len(env) + 1 \/ k \in DOMAIN env
      BY <1>5
    <3> QED BY <1>1, <1>2, <1>5, <3>1
  <2> QED BY <2>1
<1> QED BY <1>1, <1>4, <1>5, <1>6 DEF Bound

LEMMA CloseBlockBinds ==
  ASSUME TypeInv(gen, env), Bound(gen, env), CloseBlock
  PROVE  Bound(gen', env')
<1>1. IsEnv(env) /\ Len(env) \in Nat /\ DOMAIN env = 1 .. Len(env)
  BY EnvShape DEF TypeInv
<1>2. gen' = gen /\ env' = SubSeq(env, 1, Len(env) - 1) /\ Len(env) > 2
  BY DEF CloseBlock, Front, Here
<1>3. PICK n \in 1 .. Len(env) : n = Len(env) - 1
  <2>1. Len(env) - 1 \in 1 .. Len(env)
    BY <1>1, <1>2
  <2> QED BY <2>1
<1>4. ClosedTo(env, n, env')
  BY <1>2, <1>3 DEF ClosedTo
<1>5. DOMAIN env' = 1 .. n /\ \A k \in 1 .. n : env'[k] = env[k]
  BY <1>1, <1>4, EnvCloses
<1>6. 1 \in 1 .. n /\ \A k \in 1 .. n : k \in DOMAIN env
  BY <1>1, <1>3
<1> QED BY <1>2, <1>5, <1>6 DEF Bound

LEMMA EndFuncBinds ==
  ASSUME TypeInv(gen, env), Bound(gen, env), EndFunc
  PROVE  Bound(gen', env')
<1>1. PICK kept : kept = ({0} \cup {env[1][x].decl : x \in DOMAIN env[1]}) \cap DOMAIN gen.attributes
  OBVIOUS
<1>2. /\ DOMAIN env' = 1 .. 1 /\ env'[1] = env[1]
      /\ gen'.sym_tab_global = gen.sym_tab_global /\ gen'.sym_tab_local = Empty
  BY <1>1, EndFuncIs
<1>3. 1 \in DOMAIN env
  BY EnvShape DEF TypeInv
<1> QED BY <1>2, <1>3 DEF Bound, Empty

LEMMA EnteredBinds ==
  ASSUME Bound(gen, env), NEW kinds, NEW r, EnteredAs(gen, kinds, r)
  PROVE  Bound(r, env)
BY DEF Bound, EnteredAs

(* What is written between quotes is a character in the table.             *)
LEMMA QuotesKept ==
  ASSUME QuotesStand(gen), NEW r,
         \A q \in Quoted \cap DOMAIN r.sym_tab_global :
           \/ q \in DOMAIN gen.sym_tab_global /\ r.sym_tab_global[q] = gen.sym_tab_global[q]
           \/ r.sym_tab_global[q].type = "CONST_CHAR"
  PROVE  QuotesStand(r)
BY DEF QuotesStand

NamesInv(g, e) == TypeInv(g, e) /\ Bound(g, e)

LEMMA StepNames ==
  ASSUME NamesInv(gen, env), [Next]_vars, "redeclared" \notin Admit, "literal" \notin Admit
  PROVE  NamesInv(gen', env')
<1>1. TypeInv(gen, env) /\ Bound(gen, env) /\ TypeInv(gen', env')
  BY StepTyped DEF NamesInv
<1>2. ASSUME NEW x \in Names, NEW t \in GlobalTypes \cup LocalTypes, DeclareVar(x, t)
      PROVE  Bound(gen', env')
  BY <1>1, <1>2, DeclareVarBinds
<1>3. ASSUME NEW params \in ParamLists, BeginFunc(params)
      PROVE  Bound(gen', env')
  BY <1>1, <1>3, BeginFuncBinds
<1>4. ASSUME OpenBlock
      PROVE  Bound(gen', env')
  BY <1>1, <1>4, OpenBlockBinds
<1>5. ASSUME CloseBlock
      PROVE  Bound(gen', env')
  BY <1>1, <1>5, CloseBlockBinds
<1>6. ASSUME EndFunc
      PROVE  Bound(gen', env')
  BY <1>1, <1>6, EndFuncBinds
<1>7. ASSUME NEW e \in Paths, Use(e)
      PROVE  Bound(gen', env')
  <2>1. PICK numbers : numbers = Known(generate_expression(gen, e).numbers)
    OBVIOUS
  <2>2. PICK kinds : kinds = {<<"CONST_INT", n>> : n \in numbers}
    OBVIOUS
  <2>3. EnteredAs(gen, kinds, gen') /\ env' = env
    BY <1>1, <1>7, <2>1, <2>2, UseEnters
  <2> QED BY <1>1, <2>3, EnteredBinds
<1>8. ASSUME NEW l \in Literals, UseLiteral(l[1], l[2])
      PROVE  Bound(gen', env')
  <2>1. PICK kinds : kinds = {<<l[1], l[2]>>}
    OBVIOUS
  <2>2. EnteredAs(gen, kinds, gen') /\ env' = env
    BY <1>1, <1>8, <2>1, UseLiteralEnters
  <2> QED BY <1>1, <2>2, EnteredBinds
<1>9. ASSUME UNCHANGED vars
      PROVE  Bound(gen', env')
  <2>1. gen' = gen /\ env' = env
    BY <1>9 DEF vars
  <2> QED BY <1>1, <2>1
<1> QED BY <1>1, <1>2, <1>3, <1>4, <1>5, <1>6, <1>7, <1>8, <1>9 DEF Next, NamesInv

LEMMA StepQuotes ==
  ASSUME NamesInv(gen, env), QuotesStand(gen), [Next]_vars,
         "redeclared" \notin Admit, "literal" \notin Admit, Quoted \cap Texts = {}
  PROVE  QuotesStand(gen')
<1>1. TypeInv(gen, env) /\ Bound(gen, env) /\ QuotesStand(gen)
  BY DEF NamesInv
<1>2. ASSUME NEW x \in Names, NEW t \in GlobalTypes \cup LocalTypes, DeclareVar(x, t)
      PROVE  QuotesStand(gen')
  <2>2. PICK U : DeclaredNew(x, t, U)
    BY <1>1, <1>2, DeclareVarNew
  <2>3. x \notin Quoted
    BY SpellingAssumption
  <2>4. \A q \in Quoted \cap DOMAIN gen'.sym_tab_global :
          q \in DOMAIN gen.sym_tab_global /\ gen'.sym_tab_global[q] = gen.sym_tab_global[q]
    <3>1. CASE Len(env) = 1
      BY <2>2, <2>3, <3>1 DEF DeclaredNew, Extended
    <3>2. CASE Len(env) # 1
      BY <2>2, <3>2 DEF DeclaredNew
    <3> QED BY <3>1, <3>2
  <2> QED BY <1>1, <2>4, QuotesKept
<1>3. ASSUME NEW params \in ParamLists, BeginFunc(params)
      PROVE  QuotesStand(gen')
  <2>2. PICK n, fn, U, h, v : BegunNew(params, n, fn, U, h, v)
    BY <1>1, <1>3, BeginFuncNew
  <2>3. fn \notin Quoted
    BY <2>2, SpellingAssumption DEF BegunNew, Begun
  <2>4. gen'.sym_tab_global = Extended(gen.sym_tab_global, fn, Symbol("FUNC", 0))
    <3>1. ParasRight(Started(fn), gen')
      BY <2>2 DEF BegunNew, Begun
    <3> QED BY <1>1, <3>1, StartedIs DEF ParasRight
  <2> QED BY <1>1, <2>3, <2>4, QuotesKept DEF Extended
<1>4. CASE OpenBlock
  BY <1>1, <1>4 DEF OpenBlock
<1>5. CASE CloseBlock
  BY <1>1, <1>5 DEF CloseBlock
<1>6. CASE EndFunc
  <2>2. PICK kept : kept = ({0} \cup {env[1][x].decl : x \in DOMAIN env[1]}) \cap DOMAIN gen.attributes
    OBVIOUS
  <2>3. gen'.sym_tab_global = gen.sym_tab_global
    BY <1>1, <1>6, <2>2, EndFuncIs
  <2> QED BY <1>1, <2>3 DEF QuotesStand
<1>7. ASSUME NEW e \in Paths, Use(e)
      PROVE  QuotesStand(gen')
  <2>1. PICK numbers : numbers = Known(generate_expression(gen, e).numbers)
    OBVIOUS
  <2>2. PICK kinds : kinds = {<<"CONST_INT", n>> : n \in numbers}
    OBVIOUS
  <2>3. EnteredAs(gen, kinds, gen') /\ env' = env
    BY <1>1, <1>7, <2>1, <2>2, UseEnters
  <2>4. \A k \in kinds : Spelling(k[1], k[2]) \notin Quoted
    <3>1. TAKE k \in kinds
    <3>2. PICK n \in numbers : k = <<"CONST_INT", n>>
      BY <2>2
    <3>3. k[1] = "CONST_INT" /\ k[2] = n /\ Spelling("CONST_INT", n) \in Texts
      BY <2>1, <3>2 DEF Known
    <3> QED BY <3>3
  <2> QED BY <1>1, <2>3, <2>4, QuotesKept DEF EnteredAs
<1>8. ASSUME NEW l \in Literals, UseLiteral(l[1], l[2])
      PROVE  QuotesStand(gen')
  <2>1. PICK kinds : kinds = {<<l[1], l[2]>>}
    OBVIOUS
  <2>2. EnteredAs(gen, kinds, gen') /\ env' = env
    BY <1>1, <1>8, <2>1, UseLiteralEnters
  <2>3. l[1] = "CONST_CHAR" \/ Spelling(l[1], l[2]) \notin Quoted
    <3>1. CASE l \in {<<"TEXT", t>> : t \in Texts}
      <4>1. PICK t \in Texts : l = <<"TEXT", t>>
        BY <3>1
      <4>2. Spelling(l[1], l[2]) = t
        BY <4>1 DEF Spelling
      <4> QED BY <4>2
    <3>2. CASE l \in {<<"CONST_CHAR", c>> : c \in Letters}
      BY <3>2
    <3>3. CASE l \in {<<"CONST_INT", n>> : n \in Numbers}
      <4>1. PICK n \in Numbers : l = <<"CONST_INT", n>>
        BY <3>3
      <4>2. Spelling(l[1], l[2]) = Spelling("CONST_INT", n)
        BY <4>1
      <4> QED BY <4>2, SpellingAssumption
    <3> QED BY <3>1, <3>2, <3>3 DEF Literals
  <2>4. \A q \in Quoted \cap DOMAIN gen'.sym_tab_global :
          \/ q \in DOMAIN gen.sym_tab_global /\ gen'.sym_tab_global[q] = gen.sym_tab_global[q]
          \/ gen'.sym_tab_global[q].type = "CONST_CHAR"
    <3>1. TAKE q \in Quoted \cap DOMAIN gen'.sym_tab_global
    <3>2. CASE q \in DOMAIN gen.sym_tab_global
      BY <2>2, <3>2 DEF EnteredAs
    <3>3. CASE q \notin DOMAIN gen.sym_tab_global
      <4>1. PICK k \in kinds : gen'.sym_tab_global[q] = Symbol(k[1], 0) /\ q = Spelling(k[1], k[2])
        BY <2>2, <3>3 DEF EnteredAs
      <4>2. k[1] = l[1] /\ k[2] = l[2]
        BY <2>1
      <4> QED BY <2>3, <4>1, <4>2 DEF Symbol
    <3> QED BY <3>2, <3>3
  <2> QED BY <1>1, <2>4, QuotesKept
<1>9. CASE UNCHANGED vars
  BY <1>1, <1>9 DEF vars
<1> QED BY <1>2, <1>3, <1>4, <1>5, <1>6, <1>7, <1>8, <1>9 DEF Next

LEMMA NamesFound ==
  ASSUME NamesInv(gen, env), NEW x \in Visible
  PROVE  lookup_sym(gen, x) = Symbol("VAR", Meanings[x].decl)
<1>1. IsEnv(env) /\ Len(env) \in DOMAIN env /\ 1 \in DOMAIN env
  BY EnvShape DEF NamesInv, TypeInv
<1>2. x \in DOMAIN env[Len(env)] /\ Meanings[x] = env[Len(env)][x]
  BY DEF Visible, Meanings, Here
<1>3. CASE x \in DOMAIN env[1]
  <2>1. /\ x \in DOMAIN gen.sym_tab_global /\ x \notin DOMAIN gen.sym_tab_local
        /\ gen.sym_tab_global[x] = Symbol("VAR", env[Len(env)][x].decl)
    BY <1>1, <1>2, <1>3 DEF NamesInv, Bound
  <2> QED BY <1>2, <2>1 DEF lookup_sym
<1>4. CASE x \notin DOMAIN env[1]
  <2>1. x \in DOMAIN gen.sym_tab_local /\ gen.sym_tab_local[x] = Symbol("VAR", env[Len(env)][x].decl)
    BY <1>1, <1>2, <1>4 DEF NamesInv, Bound
  <2>2. gen.scope = "LOCAL"
    BY <1>2, <1>4 DEF NamesInv, TypeInv, Scoped
  <2> QED BY <1>2, <2>1, <2>2 DEF lookup_sym
<1> QED BY <1>3, <1>4

LEMMA NamesInvImplies ==
  ASSUME NamesInv(gen, env), QuotesStand(gen), "literal" \notin Admit
  PROVE  NamesResolve
<1>1. ASSUME NEW x \in Visible
      PROVE  lookup_sym(gen, x) = Symbol("VAR", Meanings[x].decl)
  BY NamesFound
<1>2. ASSUME NEW l \in Literals, l[1] = "CONST_CHAR"
      PROVE  Stands(gen, l[1], l[2])
  <2>1. PICK c \in Letters : l = <<"CONST_CHAR", c>>
    BY <1>2 DEF Literals
  <2>2. PICK q : q = Spelling("CONST_CHAR", c)
    OBVIOUS
  <2>3. q \in Quoted
    BY <2>2 DEF Quoted
  <2>4. q \in DOMAIN gen.sym_tab_global => gen.sym_tab_global[q].type = "CONST_CHAR"
    BY <2>3 DEF QuotesStand
  <2>5. l[1] = "CONST_CHAR" /\ l[2] = c
    BY <2>1
  <2> QED BY <2>2, <2>4, <2>5 DEF Stands
<1> QED BY <1>1, <1>2 DEF NamesResolve

(* Where no name is declared again and no literal is taken for something   *)
(* else: at every place of every program a name stands for the variable of *)
(* its innermost declaration, through one table for a function and one for *)
(* the rest, and a character for itself (lookup_sym, mk_var, leave_scope,  *)
(* mk_const_char).                                                         *)
THEOREM NamesTold ==
  ASSUME "redeclared" \notin Admit, "literal" \notin Admit, Quoted \cap Texts = {}
  PROVE  Spec => []NamesResolve
<1>1. Init => NamesInv(gen, env) /\ QuotesStand(gen)
  <2>1. SUFFICES ASSUME Init
                 PROVE  NamesInv(gen, env) /\ QuotesStand(gen)
    OBVIOUS
  <2>2. TypeInv(gen, env)
    BY <2>1, InitTyped
  <2>3. DOMAIN gen.sym_tab_global = {} /\ \A k \in DOMAIN env : DOMAIN env[k] = {}
    BY <2>1 DEF Init, Empty
  <2> QED BY <2>2, <2>3 DEF NamesInv, Bound, QuotesStand
<1>2. NamesInv(gen, env) /\ QuotesStand(gen) /\ [Next]_vars => (NamesInv(gen, env) /\ QuotesStand(gen))'
  BY StepNames, StepQuotes
<1>3. NamesInv(gen, env) /\ QuotesStand(gen) => NamesResolve
  BY NamesInvImplies
<1> QED BY <1>1, <1>2, <1>3, PTL DEF Spec
-----------------------------------------------------------------------------
(* Going up from nothing, one after the other.                             *)

(* What holds of 0 and goes on from each number to the next. *)
LEMMA Upwards ==
  ASSUME NEW n \in Nat, NEW G, 0 \in G, \A k \in 1 .. n : k - 1 \in G => k \in G
  PROVE  \A k \in 0 .. n : k \in G
<1>1. PICK Bad : Bad = {k \in 0 .. n : k \notin G}
  OBVIOUS
<1>2. SUFFICES ASSUME Bad # {}
               PROVE  FALSE
  BY <1>1
<1>3. Bad \subseteq Nat
  BY <1>1
<1>4. PICK m \in Bad : \A k \in Bad : m <= k
  BY <1>2, <1>3, Least
<1>5. m \in 0 .. n /\ m \notin G /\ m # 0
  BY <1>1, <1>4
<1>6. m - 1 \in 0 .. n /\ ~(m <= m - 1) /\ m \in 1 .. n
  BY <1>5
<1>7. m - 1 \in G
  BY <1>1, <1>4, <1>6
<1> QED BY <1>5, <1>6, <1>7

(* A value for each of the first n numbers, made of the value before. *)
Chained(S, first, step, n, h) ==
  h \in [0 .. n -> S] /\ h[0] = first /\ \A k \in 1 .. n : h[k] = step[k][h[k - 1]]

LEMMA ChainExists ==
  ASSUME NEW n \in Nat, NEW S, NEW first \in S, NEW step, \A k \in 1 .. n : \A v \in S : step[k][v] \in S
  PROVE  \E h : Chained(S, first, step, n, h)
<1>1. PICK G : G = {k \in 0 .. n : \E h : Chained(S, first, step, k, h)}
  OBVIOUS
<1>2. 0 \in G
  <2>1. PICK h : h = [k \in 0 .. 0 |-> first]
    OBVIOUS
  <2>2. Chained(S, first, step, 0, h)
    BY <2>1 DEF Chained
  <2> QED BY <1>1, <2>2
<1>3. ASSUME NEW k \in 1 .. n, k - 1 \in G
      PROVE  k \in G
  <2>1. PICK f : Chained(S, first, step, k - 1, f)
    BY <1>1, <1>3
  <2>2. /\ f \in [0 .. (k - 1) -> S] /\ f[0] = first
        /\ \A j \in 1 .. (k - 1) : f[j] = step[j][f[j - 1]]
    BY <2>1 DEF Chained
  <2>3. PICK last : last = step[k][f[k - 1]]
    OBVIOUS
  <2>4. last \in S
    <3>1. f[k - 1] \in S
      BY <2>2
    <3> QED BY <2>3, <3>1
  <2>5. PICK h : h = [j \in 0 .. k |-> IF j = k THEN last ELSE f[j]]
    OBVIOUS
  <2>6. h \in [0 .. k -> S]
    <3>1. \A j \in 0 .. k : j # k => j \in 0 .. (k - 1)
      OBVIOUS
    <3> QED BY <2>2, <2>4, <2>5, <3>1
  <2>7. h[0] = first
    BY <2>2, <2>5
  <2>8. ASSUME NEW j \in 1 .. k
        PROVE  h[j] = step[j][h[j - 1]]
    <3>1. j - 1 \in 0 .. k /\ j - 1 # k /\ j \in 0 .. k
      OBVIOUS
    <3>2. h[j - 1] = f[j - 1]
      BY <2>5, <3>1
    <3>3. CASE j = k
      BY <2>3, <2>5, <3>1, <3>2, <3>3
    <3>4. CASE j # k
      <4>1. j \in 1 .. (k - 1)
        BY <3>4
      <4> QED BY <2>2, <2>5, <3>1, <3>2, <3>4, <4>1
    <3> QED BY <3>3, <3>4
  <2>9. Chained(S, first, step, k, h)
    BY <2>6, <2>7, <2>8 DEF Chained
  <2> QED BY <1>1, <2>9
<1>4. \A k \in 0 .. n : k \in G
  BY <1>2, <1>3, Upwards
<1> QED BY <1>1, <1>4

-----------------------------------------------------------------------------
(* Sums and products of numbers. *)

IsSums(w, s) == s = [k \in 0 .. Len(w) |-> IF k = 0 THEN 0 ELSE s[k - 1] + w[k]]

LEMMA SumsAre ==
  ASSUME NEW w \in Seq(Nat)
  PROVE  /\ Sums(w) \in [0 .. Len(w) -> Nat]
         /\ Sums(w)[0] = 0
         /\ \A k \in 1 .. Len(w) : Sums(w)[k] = Sums(w)[k - 1] + w[k]
<1>1. PICK n : n = Len(w)
  OBVIOUS
<1>2. n \in Nat /\ DOMAIN w = 1 .. n /\ \A k \in 1 .. n : w[k] \in Nat
  BY <1>1, LenProperties, ElementOfSeq
<1>3. PICK step : step = [k \in 1 .. n |-> [v \in Nat |-> v + w[k]]]
  OBVIOUS
<1>4. \A k \in 1 .. n : \A v \in Nat : step[k][v] = v + w[k] /\ step[k][v] \in Nat
  BY <1>2, <1>3
<1>5. PICK h : Chained(Nat, 0, step, n, h)
  BY <1>2, <1>4, ChainExists
<1>6. h \in [0 .. n -> Nat] /\ h[0] = 0 /\ \A k \in 1 .. n : h[k] = step[k][h[k - 1]]
  BY <1>5 DEF Chained
<1>7. ASSUME NEW k \in 0 .. n
      PROVE  h[k] = IF k = 0 THEN 0 ELSE h[k - 1] + w[k]
  <2>1. CASE k = 0
    BY <1>6, <2>1
  <2>2. CASE k # 0
    <3>1. k \in 1 .. n /\ k - 1 \in 0 .. n
      BY <1>2, <2>2
    <3>2. h[k - 1] \in Nat
      BY <1>6, <3>1
    <3> QED BY <1>4, <1>6, <2>2, <3>1, <3>2
  <2> QED BY <2>1, <2>2
<1>8. h = [k \in 0 .. n |-> IF k = 0 THEN 0 ELSE h[k - 1] + w[k]]
  BY <1>6, <1>7
<1>9. IsSums(w, h)
  BY <1>1, <1>8 DEF IsSums
<1>10. PICK s : s = Sums(w)
  OBVIOUS
<1>11. s = CHOOSE sum : IsSums(w, sum)
  BY <1>10 DEF Sums, IsSums
<1>12. IsSums(w, s)
  BY <1>9, <1>11
<1>13. s = [k \in 0 .. n |-> IF k = 0 THEN 0 ELSE s[k - 1] + w[k]]
  BY <1>1, <1>12 DEF IsSums
<1>14. DOMAIN s = 0 .. n
  BY <1>13
<1>15. s[0] = 0
  BY <1>2, <1>13
<1>16. ASSUME NEW k \in 1 .. n
       PROVE  s[k] = s[k - 1] + w[k]
  <2>1. k \in 0 .. n /\ k # 0
    OBVIOUS
  <2> QED BY <1>13, <2>1
<1>17. PICK G : G = {k \in 0 .. n : s[k] \in Nat}
  OBVIOUS
<1>18. \A k \in 0 .. n : k \in G
  <2>1. 0 \in G
    BY <1>2, <1>15, <1>17
  <2>2. ASSUME NEW k \in 1 .. n, k - 1 \in G
        PROVE  k \in G
    <3>1. s[k - 1] \in Nat /\ w[k] \in Nat /\ k \in 0 .. n
      BY <1>2, <1>17, <2>2
    <3>2. s[k] \in Nat
      BY <1>16, <3>1
    <3> QED BY <1>17, <3>1, <3>2
  <2> QED BY <1>2, <2>1, <2>2, Upwards
<1>19. \A k \in 0 .. n : s[k] \in Nat
  BY <1>17, <1>18
<1>20. s \in [0 .. n -> Nat]
  BY <1>13, <1>14, <1>19
<1> QED BY <1>1, <1>10, <1>15, <1>16, <1>20

IsProducts(w, s) == s = [k \in 0 .. Len(w) |-> IF k = 0 THEN 1 ELSE s[k - 1] * w[k]]

(* The products of the first numbers, up to the product of all. *)
ProductsTo(w, s) ==
  /\ s \in [0 .. Len(w) -> Nat] /\ s[0] = 1
  /\ \A k \in 1 .. Len(w) : s[k] = s[k - 1] * w[k]
  /\ Product(w) = s[Len(w)]

LEMMA ProductIs ==
  ASSUME NEW w \in Seq(Nat)
  PROVE  \E s : ProductsTo(w, s)
<1>1. PICK n : n = Len(w)
  OBVIOUS
<1>2. n \in Nat /\ DOMAIN w = 1 .. n /\ \A k \in 1 .. n : w[k] \in Nat
  BY <1>1, LenProperties, ElementOfSeq
<1>3. PICK step : step = [k \in 1 .. n |-> [v \in Nat |-> v * w[k]]]
  OBVIOUS
<1>4. ASSUME NEW k \in 1 .. n, NEW v \in Nat
      PROVE  step[k][v] = v * w[k] /\ step[k][v] \in Nat
  <2>1. w[k] \in Nat
    BY <1>2
  <2>2. v * w[k] \in Nat
    BY <2>1
  <2> QED BY <1>3, <2>2
<1>5. PICK h : Chained(Nat, 1, step, n, h)
  BY <1>2, <1>4, ChainExists
<1>6. h \in [0 .. n -> Nat] /\ h[0] = 1 /\ \A k \in 1 .. n : h[k] = step[k][h[k - 1]]
  BY <1>5 DEF Chained
<1>7. ASSUME NEW k \in 0 .. n
      PROVE  h[k] = IF k = 0 THEN 1 ELSE h[k - 1] * w[k]
  <2>1. CASE k = 0
    BY <1>6, <2>1
  <2>2. CASE k # 0
    <3>1. k \in 1 .. n /\ k - 1 \in 0 .. n
      BY <1>2, <2>2
    <3>2. h[k - 1] \in Nat
      BY <1>6, <3>1
    <3> QED BY <1>4, <1>6, <2>2, <3>1, <3>2
  <2> QED BY <2>1, <2>2
<1>8. h = [k \in 0 .. n |-> IF k = 0 THEN 1 ELSE h[k - 1] * w[k]]
  BY <1>6, <1>7
<1>9. IsProducts(w, h)
  BY <1>1, <1>8 DEF IsProducts
<1>10. PICK s : s = CHOOSE product : IsProducts(w, product)
  OBVIOUS
<1>11. Product(w) = s[n]
  BY <1>1, <1>10 DEF Product, IsProducts
<1>12. IsProducts(w, s)
  BY <1>9, <1>10
<1>13. s = [k \in 0 .. n |-> IF k = 0 THEN 1 ELSE s[k - 1] * w[k]]
  BY <1>1, <1>12 DEF IsProducts
<1>14. DOMAIN s = 0 .. n
  BY <1>13
<1>15. s[0] = 1
  BY <1>2, <1>13
<1>16. ASSUME NEW k \in 1 .. n
       PROVE  s[k] = s[k - 1] * w[k]
  <2>1. k \in 0 .. n /\ k # 0
    OBVIOUS
  <2> QED BY <1>13, <2>1
<1>17. PICK G : G = {k \in 0 .. n : s[k] \in Nat}
  OBVIOUS
<1>18. \A k \in 0 .. n : k \in G
  <2>1. 0 \in G
    BY <1>2, <1>15, <1>17
  <2>2. ASSUME NEW k \in 1 .. n, k - 1 \in G
        PROVE  k \in G
    <3>1. s[k - 1] \in Nat /\ w[k] \in Nat /\ k \in 0 .. n
      BY <1>2, <1>17, <2>2
    <3>2. s[k - 1] * w[k] \in Nat
      BY <3>1
    <3>3. s[k] \in Nat
      BY <1>16, <3>2
    <3> QED BY <1>17, <3>1, <3>3
  <2> QED BY <1>2, <2>1, <2>2, Upwards
<1>19. \A k \in 0 .. n : s[k] \in Nat
  BY <1>17, <1>18
<1>20. s \in [0 .. n -> Nat]
  BY <1>13, <1>14, <1>19
<1> QED BY <1>1, <1>11, <1>15, <1>16, <1>20 DEF ProductsTo

LEMMA ProductNat ==
  ASSUME NEW w \in Seq(Nat)
  PROVE  Product(w) \in Nat /\ (w = <<>> => Product(w) = 1)
<1>1. PICK s : ProductsTo(w, s)
  BY ProductIs
<1>2. s \in [0 .. Len(w) -> Nat] /\ s[0] = 1 /\ Product(w) = s[Len(w)]
  BY <1>1 DEF ProductsTo
<1>3. Len(w) \in Nat /\ Len(w) \in 0 .. Len(w)
  BY LenProperties
<1>4. w = <<>> => Len(w) = 0
  OBVIOUS
<1> QED BY <1>2, <1>3, <1>4

(* The order of the factors does not matter: the parser's nesting of the   *)
(* sizes of an array is as good as the other way round.                    *)
LEMMA ProductReversed ==
  ASSUME NEW d \in Seq(Nat)
  PROVE  Product(Reverse(d)) = Product(d)
<1>1. PICK n : n = Len(d)
  OBVIOUS
<1>2. n \in Nat /\ DOMAIN d = 1 .. n /\ \A k \in 1 .. n : d[k] \in Nat
  BY <1>1, LenProperties, ElementOfSeq
<1>3. PICK r : r = Reverse(d)
  OBVIOUS
<1>4. r = [i \in 1 .. n |-> d[(n - i) + 1]]
  BY <1>1, <1>3 DEF Reverse
<1>5. r \in Seq(Nat) /\ Len(r) = n
  <2>1. \A i \in 1 .. n : (n - i) + 1 \in 1 .. n
    BY <1>2
  <2>2. r \in [1 .. n -> Nat]
    BY <1>2, <1>4, <2>1
  <2>3. r \in Seq(Nat)
    BY <1>2, <2>2, SeqDef
  <2>4. DOMAIN r = 1 .. Len(r) /\ Len(r) \in Nat
    BY <2>3, LenProperties
  <2> QED BY <1>2, <2>2, <2>3, <2>4
<1>6. PICK p : ProductsTo(d, p)
  BY ProductIs
<1>7. PICK q : ProductsTo(r, q)
  BY <1>5, ProductIs
<1>8. /\ p \in [0 .. n -> Nat] /\ p[0] = 1 /\ Product(d) = p[n]
      /\ \A k \in 1 .. n : p[k] = p[k - 1] * d[k]
  BY <1>1, <1>6 DEF ProductsTo
<1>9. /\ q \in [0 .. n -> Nat] /\ q[0] = 1 /\ Product(r) = q[n]
      /\ \A k \in 1 .. n : q[k] = q[k - 1] * r[k]
  BY <1>5, <1>7 DEF ProductsTo
<1>10. PICK G : G = {k \in 0 .. n : q[k] * p[n - k] = p[n]}
  OBVIOUS
<1>11. 0 \in G
  <2>1. p[n] \in Nat /\ n - 0 = n
    BY <1>2, <1>8
  <2>2. 1 * p[n] = p[n]
    BY <2>1
  <2> QED BY <1>2, <1>9, <1>10, <2>1, <2>2
<1>12. ASSUME NEW k \in 1 .. n, k - 1 \in G
       PROVE  k \in G
  <2>1. PICK a, b, c : a = q[k - 1] /\ b = p[n - k] /\ c = r[k]
    OBVIOUS
  <2>2. k - 1 \in 0 .. n /\ n - k \in 0 .. n /\ (n - k) + 1 \in 1 .. n /\ k \in 0 .. n
    BY <1>2
  <2>3. c = d[(n - k) + 1]
    BY <1>4, <2>1
  <2>4. a \in Nat /\ b \in Nat /\ c \in Nat
    BY <1>2, <1>8, <1>9, <2>1, <2>2, <2>3
  <2>5. q[k] = a * c
    BY <1>9, <2>1
  <2>6. p[n - (k - 1)] = b * c
    <3>1. n - (k - 1) = (n - k) + 1 /\ ((n - k) + 1) - 1 = n - k
      BY <1>2
    <3>2. p[(n - k) + 1] = p[((n - k) + 1) - 1] * d[(n - k) + 1]
      BY <1>8, <2>2
    <3> QED BY <2>1, <2>3, <3>1, <3>2
  <2>7. a * (b * c) = p[n]
    BY <1>10, <1>12, <2>1, <2>6
  <2>8. (a * c) * b = a * (b * c)
    BY <2>4
  <2>9. q[k] * p[n - k] = p[n]
    BY <2>1, <2>5, <2>7, <2>8
  <2> QED BY <1>10, <2>2, <2>9
<1>13. \A k \in 0 .. n : k \in G
  BY <1>2, <1>11, <1>12, Upwards
<1>14. q[n] * p[n - n] = p[n]
  BY <1>2, <1>10, <1>13
<1>15. n - n = 0 /\ q[n] \in Nat
  BY <1>2, <1>9
<1>16. q[n] * 1 = q[n]
  BY <1>15
<1> QED BY <1>3, <1>8, <1>9, <1>14, <1>15, <1>16

-----------------------------------------------------------------------------
(* What the compiler records of a struct is what the language says.        *)

LEMMA StructsAre ==
  /\ Len(StructDefs) \in Nat /\ DOMAIN StructDefs = 1 .. Len(StructDefs)
  /\ \A k \in DOMAIN StructDefs :
       /\ StructDefs[k].name \in StructNames /\ NumberOf(StructDefs[k].name) = k
       /\ StructDefs[k].name \notin {"INT", "CHAR", "PTR", ""}
       /\ StructDefs[k].fields \in Seq(ToSet(StructDefs[k].fields))
       /\ \A j \in DOMAIN StructDefs[k].fields : IsType(StructDefs[k].fields[j].type, k - 1)
<1>1. StructDefs \in Seq(ToSet(StructDefs))
  BY StructAssumption
<1>2. Len(StructDefs) \in Nat /\ DOMAIN StructDefs = 1 .. Len(StructDefs)
  BY <1>1, LenProperties
<1>3. ASSUME NEW k \in DOMAIN StructDefs
      PROVE  StructDefs[k].name \in StructNames /\ NumberOf(StructDefs[k].name) = k
  <2>1. PICK l : l = CHOOSE i \in DOMAIN StructDefs : StructDefs[i].name = StructDefs[k].name
    OBVIOUS
  <2>2. l \in DOMAIN StructDefs /\ StructDefs[l].name = StructDefs[k].name
    BY <2>1
  <2>3. l = k
    BY <2>2, StructAssumption
  <2> QED BY <2>1, <2>3 DEF StructNames, NumberOf
<1>4. ASSUME NEW k \in DOMAIN StructDefs, NEW j \in DOMAIN StructDefs[k].fields
      PROVE  IsType(StructDefs[k].fields[j].type, k - 1)
  <2>1. StructDefs[k].fields[j] \in ToSet(StructDefs[k].fields)
    BY DEF ToSet
  <2> QED BY <2>1, StructAssumption
<1> QED BY <1>2, <1>3, <1>4, StructAssumption

(* The sizes of a type's array, and its struct: one of the first n.        *)
LEMMA TypeIs ==
  ASSUME NEW n \in 0 .. Len(StructDefs), NEW t, IsType(t, n)
  PROVE  /\ t.dims \in Seq(Nat)
         /\ IsPointer(t) => t.dims = <<>> /\ ~IsStruct(t)
         /\ IsStruct(t) => \E j \in 1 .. n : j \in DOMAIN StructDefs /\ t.base = StructDefs[j].name /\ NumberOf(t.base) = j
         /\ ~IsStruct(t) => t.base \in {"INT", "CHAR", "PTR"}
<1>1. t.dims \in Seq(Nat)
  <2>1. t.dims \in Seq(Nat \ {0}) /\ Nat \ {0} \subseteq Nat
    BY DEF IsType
  <2> QED BY <2>1, SeqMonotonic
<1>2. n \in Nat /\ n <= Len(StructDefs) /\ 1 .. n \subseteq DOMAIN StructDefs
  <2>1. PICK l : l = Len(StructDefs)
    OBVIOUS
  <2>2. l \in Nat /\ DOMAIN StructDefs = 1 .. l /\ n \in 0 .. l
    BY <2>1, StructsAre
  <2> QED BY <2>1, <2>2
<1>3. IsStruct(t) => t.base \notin {"INT", "CHAR", "PTR"}
  BY StructsAre DEF IsStruct, StructNames
<1>4. ASSUME IsStruct(t)
      PROVE  \E j \in 1 .. n : j \in DOMAIN StructDefs /\ t.base = StructDefs[j].name /\ NumberOf(t.base) = j
  <2>1. PICK j \in 1 .. n : t.base = StructDefs[j].name
    BY <1>3, <1>4 DEF IsType
  <2>2. j \in DOMAIN StructDefs
    BY <1>2
  <2> QED BY <2>1, <2>2, StructsAre
<1>5. ASSUME ~IsStruct(t)
      PROVE  t.base \in {"INT", "CHAR", "PTR"}
  <2>1. ASSUME NEW j \in 1 .. n
        PROVE  t.base # StructDefs[j].name
    BY <1>2, <1>5, StructsAre DEF IsStruct
  <2> QED BY <2>1 DEF IsType
<1>6. IsPointer(t) => t.dims = <<>> /\ ~IsStruct(t)
  BY <1>3 DEF IsType, IsPointer, IsArray
<1> QED BY <1>1, <1>4, <1>5, <1>6

(* What a type occupies depends on the structs before. *)
LEMMA BytesAgree ==
  ASSUME NEW n \in 0 .. Len(StructDefs), NEW t, IsType(t, n),
         NEW f \in [DOMAIN StructDefs -> Nat], NEW g, \A j \in 1 .. n : f[j] = g[j]
  PROVE  Bytes(f, t) \in Nat /\ Bytes(g, t) = Bytes(f, t)
<1>1. PICK p : p = Product(t.dims)
  OBVIOUS
<1>2. p \in Nat
  BY <1>1, TypeIs, ProductNat
<1>3. CASE IsStruct(t)
  <2>1. PICK j \in 1 .. n : j \in DOMAIN StructDefs /\ NumberOf(t.base) = j
    BY <1>3, TypeIs
  <2>2. f[j] \in Nat /\ f[j] = g[j]
    BY <2>1
  <2>3. p * f[j] \in Nat
    BY <1>2, <2>2
  <2>4. Bytes(f, t) = p * f[j] /\ Bytes(g, t) = p * g[j]
    BY <1>1, <1>3, <2>1 DEF Bytes
  <2> QED BY <2>2, <2>3, <2>4
<1>4. CASE ~IsStruct(t)
  <2>1. Bytes(f, t) = p * 4 /\ Bytes(g, t) = p * 4
    BY <1>1, <1>4 DEF Bytes
  <2>2. p * 4 \in Nat
    BY <1>2
  <2> QED BY <2>1, <2>2
<1> QED BY <1>3, <1>4

SizeIn(sizes, k) == Spans(sizes, StructDefs[k].fields)[Len(StructDefs[k].fields)]

LEMMA SizeInAgrees ==
  ASSUME NEW k \in DOMAIN StructDefs, NEW f \in [DOMAIN StructDefs -> Nat],
         NEW g, \A j \in 1 .. (k - 1) : f[j] = g[j]
  PROVE  SizeIn(f, k) \in Nat /\ SizeIn(g, k) = SizeIn(f, k)
<1>1. PICK fields : fields = StructDefs[k].fields
  OBVIOUS
<1>2. /\ fields \in Seq(ToSet(fields)) /\ Len(fields) \in Nat /\ DOMAIN fields = 1 .. Len(fields)
      /\ \A j \in DOMAIN fields : IsType(fields[j].type, k - 1)
  BY <1>1, StructsAre, LenProperties
<1>3. k - 1 \in 0 .. Len(StructDefs)
  <2>1. PICK n : n = Len(StructDefs)
    OBVIOUS
  <2>2. n \in Nat /\ k \in 1 .. n
    BY <2>1, StructsAre
  <2> QED BY <2>1, <2>2
<1>4. PICK w : w = [j \in DOMAIN fields |-> Bytes(f, fields[j].type)]
  OBVIOUS
<1>5. \A j \in DOMAIN fields :
        Bytes(f, fields[j].type) \in Nat /\ Bytes(g, fields[j].type) = Bytes(f, fields[j].type)
  BY <1>2, <1>3, BytesAgree
<1>6. w = [j \in DOMAIN fields |-> Bytes(g, fields[j].type)]
  BY <1>4, <1>5
<1>7. w \in Seq(Nat) /\ Len(w) = Len(fields)
  <2>1. w \in [1 .. Len(fields) -> Nat]
    BY <1>2, <1>4, <1>5
  <2>2. w \in Seq(Nat)
    BY <1>2, <2>1, SeqDef
  <2>3. DOMAIN w = 1 .. Len(w) /\ Len(w) \in Nat
    BY <2>2, LenProperties
  <2> QED BY <1>2, <2>1, <2>2, <2>3
<1>8. Spans(f, fields) = Sums(w) /\ Spans(g, fields) = Sums(w)
  BY <1>4, <1>6 DEF Spans
<1>9. Sums(w) \in [0 .. Len(w) -> Nat]
  BY <1>7, SumsAre
<1>10. Len(fields) \in 0 .. Len(w)
  BY <1>2, <1>7
<1>11. Sums(w)[Len(fields)] \in Nat
  BY <1>9, <1>10
<1> QED BY <1>1, <1>8, <1>11 DEF SizeIn

(* Sizes that are right for the first n structs. *)
SizesTo(n, f) == f \in [DOMAIN StructDefs -> Nat] /\ \A k \in 1 .. n : f[k] = SizeIn(f, k)
Sized(f) == f = [k \in DOMAIN StructDefs |-> SizeIn(f, k)]

(* Every struct has its size, which is that of its fields. *)
LEMMA StructSizesAre ==
  /\ StructSizes \in [DOMAIN StructDefs -> Nat]
  /\ \A k \in DOMAIN StructDefs : StructSizes[k] = SizeIn(StructSizes, k)
<1>1. PICK n : n = Len(StructDefs)
  OBVIOUS
<1>2. n \in Nat /\ DOMAIN StructDefs = 1 .. n
  BY <1>1, StructsAre
<1>3. PICK G : G = {k \in 0 .. n : \E f : SizesTo(k, f)}
  OBVIOUS
<1>4. 0 \in G
  <2>1. PICK f : f = [k \in DOMAIN StructDefs |-> 0]
    OBVIOUS
  <2>2. SizesTo(0, f)
    BY <2>1 DEF SizesTo
  <2> QED BY <1>2, <1>3, <2>2
<1>5. ASSUME NEW k \in 1 .. n, k - 1 \in G
      PROVE  k \in G
  <2>1. PICK f : SizesTo(k - 1, f)
    BY <1>3, <1>5
  <2>2. f \in [DOMAIN StructDefs -> Nat] /\ \A j \in 1 .. (k - 1) : f[j] = SizeIn(f, j)
    BY <2>1 DEF SizesTo
  <2>3. PICK size : size = SizeIn(f, k)
    OBVIOUS
  <2>4. size \in Nat
    BY <1>2, <2>2, <2>3, SizeInAgrees
  <2>5. PICK h : h = [f EXCEPT ![k] = size]
    OBVIOUS
  <2>6. h \in [DOMAIN StructDefs -> Nat]
    BY <2>2, <2>4, <2>5
  <2>7. ASSUME NEW j \in 1 .. k
        PROVE  h[j] = SizeIn(h, j)
    <3>1. \A i \in 1 .. (j - 1) : i # k /\ i \in DOMAIN StructDefs
      BY <1>2
    <3>2. \A i \in 1 .. (j - 1) : f[i] = h[i]
      BY <2>2, <2>5, <3>1
    <3>3. j \in DOMAIN StructDefs
      BY <1>2
    <3>4. SizeIn(h, j) = SizeIn(f, j)
      BY <2>2, <3>2, <3>3, SizeInAgrees
    <3>5. CASE j = k
      BY <2>2, <2>3, <2>5, <3>3, <3>4, <3>5
    <3>6. CASE j # k
      <4>1. j \in 1 .. (k - 1)
        BY <3>6
      <4> QED BY <2>2, <2>5, <3>3, <3>4, <3>6, <4>1
    <3> QED BY <3>5, <3>6
  <2>8. SizesTo(k, h)
    BY <2>6, <2>7 DEF SizesTo
  <2> QED BY <1>3, <2>8
<1>6. \A k \in 0 .. n : k \in G
  BY <1>2, <1>4, <1>5, Upwards
<1>7. n \in G
  BY <1>2, <1>6
<1>8. PICK f : SizesTo(n, f)
  BY <1>3, <1>7
<1>9. Sized(f)
  BY <1>2, <1>8 DEF SizesTo, Sized
<1>10. StructSizes = CHOOSE sizes : Sized(sizes)
  BY DEF StructSizes, Sized, SizeIn
<1>11. Sized(StructSizes)
  BY <1>9, <1>10
<1>12. StructSizes = [k \in DOMAIN StructDefs |-> SizeIn(StructSizes, k)]
  BY <1>11 DEF Sized
<1>13. PICK s : s = StructSizes
  OBVIOUS
<1>14. DOMAIN s = 1 .. n /\ \A k \in 1 .. n : s[k] = SizeIn(s, k)
  BY <1>2, <1>12, <1>13
<1>15. PICK H : H = {k \in 0 .. n : \A j \in 1 .. k : s[j] = f[j]}
  OBVIOUS
<1>16. ASSUME NEW k \in 1 .. n, k - 1 \in H
       PROVE  k \in H
  <2>1. \A j \in 1 .. (k - 1) : f[j] = s[j]
    BY <1>15, <1>16
  <2>2. SizeIn(s, k) = SizeIn(f, k)
    BY <1>2, <1>8, <2>1, SizeInAgrees DEF SizesTo
  <2>3. s[k] = f[k]
    BY <1>8, <1>14, <2>2 DEF SizesTo
  <2>4. \A j \in 1 .. k : j = k \/ j \in 1 .. (k - 1)
    OBVIOUS
  <2> QED BY <1>15, <2>1, <2>3, <2>4
<1>17. \A k \in 0 .. n : k \in H
  <2>1. 0 \in H
    BY <1>2, <1>15
  <2> QED BY <1>2, <1>16, <2>1, Upwards
<1>18. \A k \in 1 .. n : s[k] \in Nat
  <2>1. n \in H
    BY <1>2, <1>17
  <2>2. \A k \in 1 .. n : s[k] = f[k]
    BY <1>15, <2>1
  <2> QED BY <1>2, <1>8, <2>2 DEF SizesTo
<1> QED BY <1>2, <1>12, <1>13, <1>14, <1>18

(* The structs the compiler knows after the first n declarations. *)
StructsTo(n, h) ==
  h = [k \in 0 .. n |-> IF k = 0 THEN [x \in {} |-> 0] ELSE declare_struct_type(h[k - 1], StructDefs[k])]

LEMMA StructsExist ==
  ASSUME NEW n \in Nat
  PROVE  \E h : StructsTo(n, h)
<1>1. PICK G : G = {k \in 0 .. n : \E h : StructsTo(k, h)}
  OBVIOUS
<1>2. 0 \in G
  <2>1. PICK none : none = [x \in {} |-> 0]
    OBVIOUS
  <2>2. PICK h : h = [k \in 0 .. 0 |-> none]
    OBVIOUS
  <2>3. h = [k \in 0 .. 0 |-> IF k = 0 THEN none ELSE declare_struct_type(h[k - 1], StructDefs[k])]
    BY <2>2
  <2>4. StructsTo(0, h)
    BY <2>1, <2>3 DEF StructsTo
  <2> QED BY <1>1, <2>4
<1>3. ASSUME NEW k \in 1 .. n, k - 1 \in G
      PROVE  k \in G
  <2>1. PICK f : StructsTo(k - 1, f)
    BY <1>1, <1>3
  <2>2. PICK none : none = [x \in {} |-> 0]
    OBVIOUS
  <2>3. \A j \in 0 .. (k - 1) :
          f[j] = IF j = 0 THEN none ELSE declare_struct_type(f[j - 1], StructDefs[j])
    BY <2>1, <2>2 DEF StructsTo
  <2>4. PICK last : last = declare_struct_type(f[k - 1], StructDefs[k])
    OBVIOUS
  <2>5. PICK h : h = [j \in 0 .. k |-> IF j = k THEN last ELSE f[j]]
    OBVIOUS
  <2>6. ASSUME NEW j \in 0 .. k
        PROVE  h[j] = IF j = 0 THEN none ELSE declare_struct_type(h[j - 1], StructDefs[j])
    <3>1. CASE j = k
      <4>1. k - 1 \in 0 .. k /\ k - 1 # k /\ k # 0
        OBVIOUS
      <4>2. h[k - 1] = f[k - 1] /\ h[k] = last
        BY <2>5, <4>1
      <4> QED BY <2>4, <3>1, <4>1, <4>2
    <3>2. CASE j # k
      <4>1. j \in 0 .. (k - 1) /\ h[j] = f[j]
        BY <2>5, <3>2
      <4>2. j # 0 => h[j - 1] = f[j - 1]
        <5>1. j # 0 => j - 1 \in 0 .. k /\ j - 1 # k
          BY <4>1
        <5> QED BY <2>5, <5>1
      <4> QED BY <2>3, <4>1, <4>2
    <3> QED BY <3>1, <3>2
  <2>7. StructsTo(k, h)
    BY <2>2, <2>5, <2>6 DEF StructsTo
  <2> QED BY <1>1, <2>7
<1>4. \A k \in 0 .. n : k \in G
  BY <1>2, <1>3, Upwards
<1> QED BY <1>1, <1>4

(* The first k structs are known, with their sizes and fields. *)
FieldsKnown(def, made) ==
  /\ DOMAIN made.fields = DOMAIN def.fields
  /\ \A j \in DOMAIN def.fields :
       /\ made.fields[j].name = def.fields[j].name /\ made.fields[j].type = def.fields[j].type
       /\ made.fields[j].offset = Spans(StructSizes, def.fields)[j - 1]

StructsKnown(k, s) ==
  /\ DOMAIN s = {StructDefs[j].name : j \in 1 .. k}
  /\ \A j \in 1 .. k : /\ s[StructDefs[j].name].total_size = StructSizes[j]
                       /\ FieldsKnown(StructDefs[j], s[StructDefs[j].name])

LEMMA TypeSizeIs ==
  ASSUME NEW n \in 0 .. Len(StructDefs), NEW t, IsType(t, n), NEW s, StructsKnown(n, s)
  PROVE  calculate_type_size(s, t) = Bytes(StructSizes, t)
<1>1. t.dims \in Seq(Nat)
  BY TypeIs
<1>2. PICK p : p = Product(t.dims)
  OBVIOUS
<1>3. p \in Nat /\ Product(Nested(t)) = p /\ (t.dims = <<>> => p = 1)
  BY <1>1, <1>2, ProductNat, ProductReversed DEF Nested
<1>4. CASE IsPointer(t)
  <2>1. calculate_type_size(s, t) = 4
    BY <1>4 DEF calculate_type_size
  <2>2. p = 1 /\ ~IsStruct(t)
    BY <1>3, <1>4, TypeIs
  <2> QED BY <1>2, <2>1, <2>2 DEF Bytes
<1>5. CASE IsStruct(t)
  <2>1. PICK j \in 1 .. n : j \in DOMAIN StructDefs /\ t.base = StructDefs[j].name /\ NumberOf(t.base) = j
    BY <1>5, TypeIs
  <2>2. PICK size : size = StructSizes[j] /\ size \in Nat
    BY <2>1, StructSizesAre
  <2>3. t.base \in DOMAIN s /\ s[t.base].total_size = size
    BY <2>1, <2>2 DEF StructsKnown
  <2>4. ~IsPointer(t)
    BY <1>5, TypeIs
  <2>5. calculate_type_size(s, t) = size * p
    BY <1>3, <2>3, <2>4 DEF calculate_type_size
  <2>6. Bytes(StructSizes, t) = p * size
    BY <1>2, <1>5, <2>1, <2>2 DEF Bytes
  <2>7. size * p = p * size
    BY <1>3, <2>2
  <2> QED BY <2>5, <2>6, <2>7
<1>6. CASE ~IsPointer(t) /\ ~IsStruct(t)
  <2>1. t.base \notin DOMAIN s
    <3>1. t.base \in {"INT", "CHAR", "PTR"}
      BY <1>6, TypeIs
    <3>2. ASSUME NEW j \in 1 .. n
          PROVE  StructDefs[j].name # t.base
      <4>1. PICK l : l = Len(StructDefs)
        OBVIOUS
      <4>2. l \in Nat /\ n \in 0 .. l /\ DOMAIN StructDefs = 1 .. l
        BY <4>1, StructsAre
      <4>3. j \in DOMAIN StructDefs
        BY <4>2
      <4> QED BY <3>1, <4>3, StructsAre
    <3> QED BY <3>2 DEF StructsKnown
  <2>2. calculate_type_size(s, t) = 4 * p
    BY <1>3, <1>6, <2>1 DEF calculate_type_size
  <2>3. Bytes(StructSizes, t) = p * 4
    BY <1>2, <1>6 DEF Bytes
  <2> QED BY <1>3, <2>2, <2>3
<1> QED BY <1>4, <1>5, <1>6

LEMMA StructTypesAre ==
  StructsKnown(Len(StructDefs), struct_types)
<1>1. PICK n : n = Len(StructDefs)
  OBVIOUS
<1>2. n \in Nat /\ DOMAIN StructDefs = 1 .. n
  BY <1>1, StructsAre
<1>3. PICK h : h = CHOOSE declared : StructsTo(n, declared)
  OBVIOUS
<1>4. struct_types = h[n]
  BY <1>1, <1>3 DEF struct_types, StructsTo
<1>5. StructsTo(n, h)
  BY <1>2, <1>3, StructsExist
<1>6. PICK none : none = [x \in {} |-> 0]
  OBVIOUS
<1>7. \A k \in 0 .. n : h[k] = IF k = 0 THEN none ELSE declare_struct_type(h[k - 1], StructDefs[k])
  BY <1>5, <1>6 DEF StructsTo
<1>8. PICK G : G = {k \in 0 .. n : StructsKnown(k, h[k])}
  OBVIOUS
<1>9. 0 \in G
  <2>1. h[0] = none /\ 0 \in 0 .. n
    BY <1>2, <1>7
  <2>2. DOMAIN none = {} /\ 1 .. 0 = {}
    BY <1>6
  <2>3. StructsKnown(0, none)
    BY <2>2 DEF StructsKnown
  <2> QED BY <1>8, <2>1, <2>3
<1>10. ASSUME NEW k \in 1 .. n, k - 1 \in G
       PROVE  k \in G
  <2>1. k \in 0 .. n /\ k # 0 /\ k - 1 \in 0 .. n /\ k \in DOMAIN StructDefs
    BY <1>2
  <2>2. PICK s, def : s = h[k - 1] /\ def = StructDefs[k]
    OBVIOUS
  <2>3. StructsKnown(k - 1, s)
    BY <1>8, <1>10, <2>2
  <2>4. h[k] = declare_struct_type(s, def)
    BY <1>7, <2>1, <2>2
  <2>5. \A j \in 1 .. k : j = k \/ j \in 1 .. (k - 1)
    OBVIOUS
  <2>6. \A j \in 1 .. (k - 1) : StructDefs[j].name # def.name
    <3>1. TAKE j \in 1 .. (k - 1)
    <3>2. j \in DOMAIN StructDefs /\ j # k
      BY <1>2
    <3> QED BY <2>1, <2>2, <3>2, StructAssumption
  <2>7. def.name \notin DOMAIN s
    BY <2>3, <2>6 DEF StructsKnown
  <2>8. PICK made : made = calculate_size(s, def.fields)
    OBVIOUS
  <2>8a. [j \in DOMAIN def.fields |-> calculate_type_size(s, def.fields[j].type)]
         = [j \in DOMAIN def.fields |-> Bytes(StructSizes, def.fields[j].type)]
    <3>1. k - 1 \in 0 .. Len(StructDefs)
      BY <1>1, <1>2
    <3>2. ASSUME NEW j \in DOMAIN def.fields
          PROVE  calculate_type_size(s, def.fields[j].type) = Bytes(StructSizes, def.fields[j].type)
      <4>1. IsType(def.fields[j].type, k - 1)
        BY <2>1, <2>2, StructsAre
      <4> QED BY <2>3, <3>1, <4>1, TypeSizeIs
    <3> QED BY <3>2
  <2>9. h[k] = [x \in DOMAIN s \cup {def.name} |-> IF x = def.name THEN made ELSE s[x]]
    BY <2>4, <2>7, <2>8 DEF declare_struct_type
  <2>10. made.total_size = StructSizes[k]
    <3>1. PICK w, v : /\ w = [j \in DOMAIN def.fields |-> calculate_type_size(s, def.fields[j].type)]
                      /\ v = [j \in DOMAIN def.fields |-> Bytes(StructSizes, def.fields[j].type)]
      OBVIOUS
    <3>4. w = v
      BY <2>8a, <3>1
    <3>5. made.total_size = Sums(w)[Len(def.fields)]
      BY <2>8, <3>1 DEF calculate_size
    <3>6. SizeIn(StructSizes, k) = Sums(v)[Len(def.fields)]
      BY <2>2, <3>1 DEF SizeIn, Spans
    <3> QED BY <2>1, <3>4, <3>5, <3>6, StructSizesAre
  <2>11. ASSUME NEW x
         PROVE  x \in DOMAIN h[k] <=> \E j \in 1 .. k : x = StructDefs[j].name
    <3>1. x \in DOMAIN h[k] <=> x \in DOMAIN s \/ x = def.name
      BY <2>9
    <3>2. x \in DOMAIN s <=> \E j \in 1 .. (k - 1) : x = StructDefs[j].name
      BY <2>3 DEF StructsKnown
    <3>3. \A j \in 1 .. (k - 1) : j \in 1 .. k
      OBVIOUS
    <3>4. k \in 1 .. k
      OBVIOUS
    <3> QED BY <2>2, <2>5, <3>1, <3>2, <3>3, <3>4
  <2>12. FieldsKnown(def, made)
    <3>1. PICK total : total = Sums([j \in DOMAIN def.fields |-> calculate_type_size(s, def.fields[j].type)])
      OBVIOUS
    <3>2. made.fields = [j \in DOMAIN def.fields |->
                           [name |-> def.fields[j].name, type |-> def.fields[j].type, offset |-> total[j - 1]]]
      BY <2>8, <3>1 DEF calculate_size
    <3>3. total = Spans(StructSizes, def.fields)
      BY <2>8a, <3>1 DEF Spans
    <3> QED BY <3>2, <3>3 DEF FieldsKnown
  <2>13. ASSUME NEW j \in 1 .. k
         PROVE  /\ h[k][StructDefs[j].name].total_size = StructSizes[j]
                /\ FieldsKnown(StructDefs[j], h[k][StructDefs[j].name])
    <3>1. CASE j = k
      BY <2>2, <2>9, <2>10, <2>12, <3>1
    <3>2. CASE j # k
      <4>1. j \in 1 .. (k - 1)
        BY <2>5, <3>2
      <4>2. StructDefs[j].name # def.name /\ StructDefs[j].name \in DOMAIN s
        BY <2>3, <2>6, <4>1 DEF StructsKnown
      <4> QED BY <2>3, <2>9, <4>1, <4>2 DEF StructsKnown
    <3> QED BY <3>1, <3>2
  <2>14. DOMAIN h[k] = {StructDefs[j].name : j \in 1 .. k}
    BY <2>11
  <2>15. StructsKnown(k, h[k])
    BY <2>13, <2>14 DEF StructsKnown
  <2> QED BY <1>8, <2>1, <2>15
<1>11. \A k \in 0 .. n : k \in G
  BY <1>2, <1>9, <1>10, Upwards
<1>12. n \in G
  BY <1>2, <1>11
<1> QED BY <1>1, <1>4, <1>8, <1>12

-----------------------------------------------------------------------------
(* What is known of a symbol after a declaration of type t.                *)
DeclaredAs(a, t) ==
  IF IsArray(t) THEN a.array_metadata = create_array_metadata(struct_types, t)
  ELSE /\ a.array_metadata = NoArray /\ a.data_type = Data(t)
       /\ IsStruct(t) => a.struct = t.base

(* And whether it is a pointer, and to what, which a parameter's symbol     *)
(* leaves open.                                                            *)
RecordedAs(a, t) ==
  /\ DeclaredAs(a, t)
  /\ IsPointer(t) => /\ a.is_pointer = TRUE
                     /\ a.base_type = "UNSET" \/ a.base_type = Data(Pointee(t))
                     /\ a.struct \in {"", Pointee(t).base}
  /\ ~IsPointer(t) => a.is_pointer = FALSE

(* The compiler's size of a variable is the language's size of its type.   *)
LEMMA SizeKept ==
  ASSUME NEW t, IsType(t, Len(StructDefs)), NEW a, DeclaredAs(a, t), gen.struct_types = struct_types
  PROVE  get_size(a) \in Nat /\ get_size(a) = SizeOf(t)
<1>1. PICK n : n = Len(StructDefs)
  OBVIOUS
<1>2. n \in Nat /\ n \in 0 .. n /\ DOMAIN StructDefs = 1 .. n
  <2>1. n \in Nat /\ DOMAIN StructDefs = 1 .. n
    BY <1>1, StructsAre
  <2>2. n \in 0 .. n
    BY ONLY <2>1
  <2> QED BY <2>1, <2>2
<1>3. IsType(t, n) /\ n \in 0 .. Len(StructDefs)
  BY <1>1, <1>2
<1>4. \A j \in 1 .. n : StructSizes[j] = StructSizes[j]
  OBVIOUS
<1>5. SizeOf(t) \in Nat
  BY <1>3, <1>4, BytesAgree, StructSizesAre DEF SizeOf
<1>6. PICK p : p = Product(t.dims)
  OBVIOUS
<1>7. p \in Nat /\ (t.dims = <<>> => p = 1)
  BY <1>3, <1>6, TypeIs, ProductNat
<1>8. PICK size : size = IF IsStruct(t) THEN struct_types[t.base].total_size ELSE 4
  OBVIOUS
<1>9. size \in Nat /\ SizeOf(t) = p * size
  <2>1. CASE IsStruct(t)
    <3>1. PICK j \in 1 .. n : j \in DOMAIN StructDefs /\ t.base = StructDefs[j].name /\ NumberOf(t.base) = j
      BY <1>3, <2>1, TypeIs
    <3>2. struct_types[t.base].total_size = StructSizes[j]
      BY <1>1, <3>1, StructTypesAre DEF StructsKnown
    <3>3. StructSizes[j] \in Nat
      BY <3>1, StructSizesAre
    <3> QED BY <1>6, <1>8, <2>1, <3>1, <3>2, <3>3 DEF SizeOf, Bytes
  <2>2. CASE ~IsStruct(t)
    BY <1>6, <1>8, <2>2 DEF SizeOf, Bytes
  <2> QED BY <2>1, <2>2
<1>10. CASE IsArray(t)
  <2>1. PICK m : m = create_array_metadata(struct_types, t)
    OBVIOUS
  <2>2. m.dimensions = t.dims /\ m.element_size = size
    BY <1>3, <1>8, <2>1, MetadataIs
  <2>3. a.array_metadata = m
    BY <1>10, <2>1 DEF DeclaredAs
  <2>4. m # NoArray
    <3>1. m.dimensions # <<>>
      BY <1>10, <2>2 DEF IsArray
    <3>2. NoArray.dimensions = <<>>
      BY DEF NoArray
    <3> QED BY <3>1, <3>2
  <2>5. get_size(a) = p * size
    BY <1>6, <2>2, <2>3, <2>4 DEF get_size, get_total_elements
  <2> QED BY <1>5, <1>9, <2>5
<1>11. CASE ~IsArray(t)
  <2>1. p = 1 /\ 1 * size = size
    BY <1>7, <1>9, <1>11 DEF IsArray
  <2>2. a.array_metadata = NoArray /\ a.data_type = Data(t)
    BY <1>11 DEF DeclaredAs
  <2>3. CASE IsStruct(t)
    <3>1. ~IsPointer(t) /\ t.base \in StructNames
      BY <1>3, <2>3, TypeIs DEF IsStruct
    <3>2. a.data_type = "STRUCT" /\ a.struct = t.base
      BY <1>11, <2>2, <2>3, <3>1 DEF Data, DeclaredAs
    <3>3. t.base # ""
      BY <3>1, StructsAre DEF StructNames
    <3>4. get_size(a) = struct_types[t.base].total_size
      BY <2>2, <3>2, <3>3 DEF get_size
    <3> QED BY <1>5, <1>8, <1>9, <2>1, <2>3, <3>4
  <2>4. CASE ~IsStruct(t)
    <3>1. a.data_type # "STRUCT"
      <4>1. t.base \in {"INT", "CHAR", "PTR"}
        BY <1>3, <2>4, TypeIs
      <4> QED BY <2>2, <2>4, <4>1 DEF Data, IsPointer
    <3>2. get_size(a) = 4
      BY <2>2, <3>1 DEF get_size
    <3> QED BY <1>8, <1>9, <2>1, <2>4, <3>2
  <2> QED BY <2>3, <2>4
<1> QED BY <1>10, <1>11

-----------------------------------------------------------------------------
(* The inductive invariant behind homes: of a generator g, what m emitted  *)
(* and what the names mean, e.                                             *)

(* Begins: where functions start; an event gives a variable its home. *)
Begins(m) == {n \in DOMAIN m : m[n].op = "BEGINFUNC"}
Events(m) == DOMAIN m \ Begins(m)

IsEmission(m) == m \in Seq(Range(m)) /\ \A n \in DOMAIN m : m[n].op \in {"VAR", "FORMAL", "BEGINFUNC"}

(* Every event is of a symbol, each of one of its own, and those of VAR    *)
(* have what get_size asks for.                                            *)
EventsRight(g, m) ==
  /\ \A n \in Events(m) :
       /\ m[n].decl \in DOMAIN g.attributes
       /\ g.attributes[m[n].decl].scope \in {"GLOBAL", "LOCAL"}
       /\ m[n].op = "VAR" => \E t \in GlobalTypes \cup LocalTypes : DeclaredAs(g.attributes[m[n].decl], t)
  /\ \A k, n \in Events(m) : m[k].decl = m[n].decl => k = n

(* Before the last function that began, and when none is under way, only   *)
(* globals have homes.                                                     *)
OnlyGlobals(m, e) ==
  \A n \in Events(m) : Len(e) = 1 \/ (\E b \in Begins(m) : n < b) => \E x \in DOMAIN e[1] : m[n].decl = e[1][x].decl

(* Event n is where d has its home: a global before the function under     *)
(* way, if there is one, and any other in it.                              *)
HomeAt(g, m, within, d, n) ==
  /\ n \in Events(m) /\ m[n].decl = d.decl
  /\ m[n].op = "FORMAL" => SizeOf(d.type) = 4
  /\ m[n].op = "VAR" => d.type \in GlobalTypes \cup LocalTypes /\ DeclaredAs(g.attributes[d.decl], d.type)
  /\ d.scope = 1 => /\ m[n].op = "VAR" /\ g.attributes[d.decl].scope = "GLOBAL"
                    /\ within => \E b \in Begins(m) : n < b
  /\ d.scope # 1 => /\ m[n].op = "VAR" => g.attributes[d.decl].scope = "LOCAL"
                    /\ \A b \in Begins(m) : b < n

Homed(g, m, e) == \A k \in DOMAIN e : \A x \in DOMAIN e[k] : \E n \in DOMAIN m : HomeAt(g, m, Len(e) > 1, e[k][x], n)

(* A variable that can be seen in several scopes is the same in all. *)
OneMeaning(e) ==
  /\ \A k, l \in DOMAIN e : \A x \in DOMAIN e[k], y \in DOMAIN e[l] :
       e[k][x].decl = e[l][y].decl => e[k][x] = e[l][y]
  /\ \A x \in DOMAIN e[1] : e[1][x].scope = 1

HomesRight(g, m, e) ==
  /\ IsEmission(m) /\ EventsRight(g, m)
  /\ Len(e) > 1 => Begins(m) # {}
  /\ OnlyGlobals(m, e)
  /\ Homed(g, m, e)
  /\ OneMeaning(e)

HomesInv(g, m, e) == NamesInv(g, e) /\ HomesRight(g, m, e)

(* What is emitted, as it grows and is cut. *)
LEMMA EmissionShape ==
  ASSUME NEW m, IsEmission(m)
  PROVE  Len(m) \in Nat /\ DOMAIN m = 1 .. Len(m)
BY LenProperties DEF IsEmission

LEMMA IsEmissionFrom ==
  ASSUME NEW S, NEW m \in Seq(S), \A n \in DOMAIN m : m[n].op \in {"VAR", "FORMAL", "BEGINFUNC"}
  PROVE  IsEmission(m)
BY SeqOfRange DEF IsEmission

LEMMA EmissionGrows ==
  ASSUME NEW m, IsEmission(m), NEW v, v.op \in {"VAR", "FORMAL", "BEGINFUNC"}, NEW f, OpenedBy(m, v, f)
  PROVE  /\ IsEmission(f)
         /\ Len(f) = Len(m) + 1 /\ DOMAIN f = 1 .. (Len(m) + 1)
         /\ \A k \in DOMAIN m : f[k] = m[k]
         /\ f[Len(m) + 1] = v
<1>1. PICK S : S = Range(m) \cup {v}
  OBVIOUS
<1>2. m \in Seq(S) /\ v \in S /\ DOMAIN m = 1 .. Len(m) /\ Len(m) \in Nat
  <2>1. Range(m) \subseteq S /\ v \in S
    BY <1>1
  <2>2. m \in Seq(Range(m))
    BY DEF IsEmission
  <2>3. m \in Seq(S)
    BY <2>1, <2>2, SeqMonotonic
  <2> QED BY <2>1, <2>3, EmissionShape
<1>3. /\ f \in Seq(S) /\ Len(f) = Len(m) + 1
      /\ \A i \in 1 .. Len(m) : f[i] = m[i]
      /\ f[Len(m) + 1] = v
  BY <1>2, AppendProperties DEF OpenedBy
<1>4. DOMAIN f = 1 .. (Len(m) + 1)
  BY <1>3, LenProperties
<1>5. \A k \in 1 .. Len(m) : m[k].op \in {"VAR", "FORMAL", "BEGINFUNC"}
  BY <1>2 DEF IsEmission
<1>6. ASSUME NEW k \in DOMAIN f
      PROVE  f[k].op \in {"VAR", "FORMAL", "BEGINFUNC"}
  <2>1. k = Len(m) + 1 \/ k \in 1 .. Len(m)
    BY <1>2, <1>4
  <2> QED BY <1>3, <1>5, <2>1
<1>7. IsEmission(f)
  BY <1>3, <1>6, IsEmissionFrom
<1> QED BY <1>2, <1>3, <1>4, <1>7

JoinedTo(m, s, f) == f = m \o s

LEMMA EmissionJoins ==
  ASSUME NEW m, IsEmission(m), NEW s, IsEmission(s), NEW f, JoinedTo(m, s, f)
  PROVE  /\ IsEmission(f)
         /\ Len(f) = Len(m) + Len(s) /\ DOMAIN f = 1 .. (Len(m) + Len(s))
         /\ \A k \in DOMAIN m : f[k] = m[k]
         /\ \A k \in DOMAIN s : f[Len(m) + k] = s[k]
<1>1. PICK S : S = Range(m) \cup Range(s)
  OBVIOUS
<1>2. m \in Seq(S) /\ s \in Seq(S)
  <2>1. Range(m) \subseteq S /\ Range(s) \subseteq S
    BY <1>1
  <2>2. m \in Seq(Range(m)) /\ s \in Seq(Range(s))
    BY DEF IsEmission
  <2> QED BY <2>1, <2>2, SeqMonotonic
<1>3. PICK a, b : a = Len(m) /\ b = Len(s) /\ a \in Nat /\ b \in Nat /\ DOMAIN m = 1 .. a /\ DOMAIN s = 1 .. b
  BY EmissionShape
<1>4. /\ f \in Seq(S) /\ Len(f) = Len(m) + Len(s)
      /\ \A i \in 1 .. Len(m) + Len(s) : f[i] = IF i <= Len(m) THEN m[i] ELSE s[i - Len(m)]
  BY <1>2, ConcatProperties DEF JoinedTo
<1>5. /\ f \in Seq(S) /\ Len(f) = a + b
      /\ \A i \in 1 .. a + b : f[i] = IF i <= a THEN m[i] ELSE s[i - a]
  BY <1>3, <1>4
<1>6. DOMAIN f = 1 .. (a + b)
  BY <1>5, LenProperties
<1>7. \A k \in 1 .. a : f[k] = m[k]
  <2>1. \A k \in 1 .. a : k \in 1 .. a + b /\ k <= a
    BY <1>3
  <2> QED BY <1>5, <2>1
<1>8. \A k \in 1 .. b : f[a + k] = s[k]
  <2>1. \A k \in 1 .. b : a + k \in 1 .. a + b /\ ~(a + k <= a) /\ (a + k) - a = k
    BY <1>3
  <2> QED BY <1>5, <2>1
<1>9. ASSUME NEW k \in DOMAIN f
      PROVE  f[k].op \in {"VAR", "FORMAL", "BEGINFUNC"}
  <2>1. CASE k \in 1 .. a
    BY <1>3, <1>7, <2>1 DEF IsEmission
  <2>2. CASE k \notin 1 .. a
    <3>1. k - a \in 1 .. b /\ a + (k - a) = k
      BY <1>3, <1>6, <2>2
    <3>2. f[k] = s[k - a]
      BY <1>8, <3>1
    <3> QED BY <1>3, <3>1, <3>2 DEF IsEmission
  <2> QED BY <2>1, <2>2
<1>10. IsEmission(f)
  BY <1>5, <1>9, IsEmissionFrom
<1> QED BY <1>3, <1>5, <1>6, <1>7, <1>8, <1>10

LEMMA EmissionCut ==
  ASSUME NEW m, IsEmission(m), NEW n \in 1 .. Len(m), NEW f, ClosedTo(m, n, f)
  PROVE  IsEmission(f) /\ DOMAIN f = 1 .. n /\ \A k \in 1 .. n : f[k] = m[k]
<1>1. PICK S : S = Range(m)
  OBVIOUS
<1>2. m \in Seq(S) /\ DOMAIN m = 1 .. Len(m) /\ Len(m) \in Nat /\ n \in Int /\ 1 <= n
  BY <1>1, EmissionShape DEF IsEmission
<1>3. \A i \in 1 .. n : m[i] \in S
  BY <1>2, ElementOfSeq
<1>4. /\ f \in Seq(S) /\ Len(f) = n - 1 + 1
      /\ \A i \in 1 .. n - 1 + 1 : f[i] = m[1 + i - 1]
  BY <1>2, <1>3, SubSeqProperties DEF ClosedTo
<1>5. Len(f) = n /\ \A i \in 1 .. n : f[i] = m[i]
  BY <1>2, <1>4
<1>6. DOMAIN f = 1 .. n
  BY <1>4, <1>5, LenProperties
<1>7. \A k \in DOMAIN f : f[k].op \in {"VAR", "FORMAL", "BEGINFUNC"}
  <2>1. \A k \in DOMAIN f : k \in DOMAIN m /\ f[k] = m[k]
    BY <1>2, <1>5, <1>6
  <2> QED BY <2>1 DEF IsEmission
<1>8. IsEmission(f)
  BY <1>4, <1>7, IsEmissionFrom
<1> QED BY <1>5, <1>6, <1>8

-----------------------------------------------------------------------------
(* What a declaration fills in is what get_size asks for. *)
LEMMA VarAttribute ==
  ASSUME NEW x, NEW t, IsType(t, Len(StructDefs)), NEW U, NEW h, MadeFor(x, t, U, h),
         Shape(gen), gen.struct_types = struct_types
  PROVE  gen'.attributes[U].scope = gen.scope /\ RecordedAs(gen'.attributes[U], t)
<1>1. PICK data : data = IF IsArray(t) THEN "INT" ELSE Data(t)
  OBVIOUS
<1>2. PICK a : a = Attributes(gen.scope, data)
  OBVIOUS
<1>3. /\ a.scope = gen.scope /\ a.data_type = data /\ a.array_metadata = NoArray /\ a.is_pointer = FALSE
      /\ DOMAIN a = {"scope", "data_type", "is_pointer", "base_type", "struct", "array_metadata"}
  BY <1>2 DEF Attributes
<1>4. Shape(h) /\ lookup_sym(h, x).decl = U /\ U \in DOMAIN h.attributes /\ h.attributes[U] = a
  BY <1>1, <1>2 DEF MadeFor
<1>5. PICK r : r = gen'
  OBVIOUS
<1>6. r = generate_var_decl(gen, x, t, U) /\ h = mk_var(gen, x, IF IsArray(t) THEN "INT" ELSE Data(t), U)
  BY <1>5 DEF MadeFor, MadeAndFilled
<1>7. PICK m : m = create_array_metadata(struct_types, t)
  OBVIOUS
<1>8. ~(IsPointer(t) /\ (IsArray(t) \/ IsStruct(t)))
  <2>1. IsStruct(t) => t.base # "PTR"
    BY StructAssumption DEF IsStruct, StructNames
  <2> QED BY <2>1 DEF IsType, IsPointer
<1>9. CASE IsArray(t)
  <2>1. r = [h EXCEPT !.attributes[U].array_metadata = m, !.array_metadata_map = Extended(@, Id(x), m)]
    BY <1>4, <1>6, <1>7, <1>8, <1>9 DEF generate_var_decl, Stored
  <2>2. PICK b : b = [a EXCEPT !.array_metadata = m]
    OBVIOUS
  <2>3. r.attributes = [h.attributes EXCEPT ![U] = b]
    BY <1>4, <2>1, <2>2 DEF Shape
  <2>4. r.attributes[U] = b
    BY <1>4, <2>3
  <2>5. b.scope = gen.scope /\ b.array_metadata = m /\ b.is_pointer = FALSE
    BY <1>3, <2>2
  <2> QED BY <1>5, <1>7, <1>8, <1>9, <2>4, <2>5 DEF DeclaredAs, RecordedAs
<1>10. CASE ~IsArray(t) /\ IsStruct(t)
  <2>1. r = [h EXCEPT !.attributes[U].struct = t.base]
    BY <1>4, <1>6, <1>8, <1>10 DEF generate_var_decl
  <2>2. PICK b : b = [a EXCEPT !.struct = t.base]
    OBVIOUS
  <2>3. r.attributes = [h.attributes EXCEPT ![U] = b]
    BY <1>4, <2>1, <2>2 DEF Shape
  <2>4. r.attributes[U] = b
    BY <1>4, <2>3
  <2>5. b.scope = gen.scope /\ b.array_metadata = NoArray /\ b.data_type = Data(t) /\ b.struct = t.base
        /\ b.is_pointer = FALSE
    BY <1>1, <1>3, <1>10, <2>2
  <2> QED BY <1>5, <1>8, <1>10, <2>4, <2>5 DEF DeclaredAs, RecordedAs
<1>11. CASE ~IsArray(t) /\ ~IsStruct(t) /\ IsPointer(t)
  <2>1. PICK v, w : v = Data(Pointee(t)) /\ w = IF IsStruct(Pointee(t)) THEN Pointee(t).base ELSE ""
    OBVIOUS
  <2>2. r = [h EXCEPT !.attributes[U].is_pointer = TRUE, !.attributes[U].base_type = v, !.attributes[U].struct = w]
    BY <1>4, <1>6, <1>11, <2>1 DEF generate_var_decl
  <2>3. PICK b : b = [a EXCEPT !.is_pointer = TRUE, !.base_type = v, !.struct = w]
    OBVIOUS
  <2>4. r.attributes = [h.attributes EXCEPT ![U] = b]
    BY <1>4, <2>2, <2>3 DEF Shape
  <2>5. r.attributes[U] = b
    BY <1>4, <2>4
  <2>6. b.scope = gen.scope /\ b.array_metadata = NoArray /\ b.data_type = Data(t)
    BY <1>1, <1>3, <1>11, <2>3
  <2>7. b.is_pointer = TRUE /\ b.base_type = v /\ b.struct = w
    BY <1>3, <2>3
  <2> QED BY <1>5, <1>11, <2>1, <2>5, <2>6, <2>7 DEF DeclaredAs, RecordedAs
<1>12. CASE ~IsArray(t) /\ ~IsStruct(t) /\ ~IsPointer(t)
  <2>1. r = [h EXCEPT !.attributes[U].is_pointer = FALSE]
    BY <1>4, <1>6, <1>12 DEF generate_var_decl
  <2>2. PICK b : b = [a EXCEPT !.is_pointer = FALSE]
    OBVIOUS
  <2>3. r.attributes = [h.attributes EXCEPT ![U] = b]
    BY <1>4, <2>1, <2>2 DEF Shape
  <2>4. r.attributes[U] = b
    BY <1>4, <2>3
  <2>5. b.scope = gen.scope /\ b.array_metadata = NoArray /\ b.data_type = Data(t) /\ b.is_pointer = FALSE
    BY <1>1, <1>3, <1>12, <2>2
  <2> QED BY <1>5, <1>12, <2>4, <2>5 DEF DeclaredAs, RecordedAs
<1> QED BY <1>9, <1>10, <1>11, <1>12

-----------------------------------------------------------------------------
(* Every variable keeps its home, an action at a time. *)

LEMMA DeclareVarHomes ==
  ASSUME NamesInv(gen, env), HomesRight(gen, emitted, env),
         NEW x \in Names, NEW t \in GlobalTypes \cup LocalTypes, DeclareVar(x, t),
         "redeclared" \notin Admit, "literal" \notin Admit
  PROVE  HomesRight(gen', emitted', env')
<1>1. PICK U : U = Unused
  OBVIOUS
<1>2. TypeInv(gen, env) /\ Bound(gen, env)
  BY DEF NamesInv
<1>3. DeclaredNew(x, t, U)
  BY <1>1, <1>2, DeclareVarNew
<1>4. PICK c : c = Meaning(t, U, Len(env))
  OBVIOUS
<1>5. c.decl = U /\ c.type = t /\ c.scope = Len(env)
  BY <1>4 DEF Meaning
<1>6. IsEnv(env) /\ Len(env) \in Nat /\ Len(env) \in DOMAIN env /\ 1 \in DOMAIN env /\ Len(env) # 0 /\ Len(env) >= 1
  BY <1>2, EnvShape DEF TypeInv
<1>7. /\ U \in Nat /\ U # 0 /\ U \notin DOMAIN gen.attributes
      /\ \A k \in DOMAIN env : \A y \in DOMAIN env[k] : env[k][y].decl # U
  <2>1. /\ U \in Nat /\ U # 0 /\ \A d \in DOMAIN gen.attributes : d \in Nat /\ d < U
        /\ \A k \in DOMAIN env : \A y \in DOMAIN env[k] : env[k][y].decl \in Nat /\ env[k][y].decl < U
    BY <1>1, <1>2, UnusedIsNew DEF TypeInv, Numbered, IsEnv
  <2>2. \A d \in Nat : d < U => d # U
    BY <2>1
  <2> QED BY <2>1, <2>2
<1>8. Meant(c)
  <2>1. t \in Types
    BY DEF Types
  <2> QED BY <1>5, <1>6, <1>7, <2>1 DEF Meant
<1>9. /\ Len(env') = Len(env) /\ DOMAIN env' = DOMAIN env
      /\ \A k \in DOMAIN env : k # Len(env) => env'[k] = env[k]
      /\ env'[Len(env)] = Extended(env[Len(env)], x, c)
  BY <1>3, <1>4, <1>6, <1>8, EnvGrows DEF DeclaredNew
<1>10. \A k \in DOMAIN env : x \notin DOMAIN env[k]
  <2>1. x \notin DOMAIN gen.sym_tab_global /\ x \notin DOMAIN gen.sym_tab_local
    BY <1>2, FreshIsNew DEF DeclareVar
  <2> QED BY <1>2, <2>1 DEF Bound
<1>11. ASSUME NEW k \in DOMAIN env'
       PROVE  /\ \A y \in DOMAIN env'[k] : \/ y \in DOMAIN env[k] /\ env'[k][y] = env[k][y]
                                           \/ k = Len(env) /\ env'[k][y] = c
              /\ \A y \in DOMAIN env[k] : y \in DOMAIN env'[k] /\ env'[k][y] = env[k][y]
  <2>1. CASE k = Len(env)
    BY <1>9, <1>10, <2>1 DEF Extended
  <2>2. CASE k # Len(env)
    BY <1>9, <2>2
  <2> QED BY <2>1, <2>2
<1>12. x \in DOMAIN env'[Len(env)] /\ env'[Len(env)][x] = c
  BY <1>9 DEF Extended
<1>13. PICK v : v = Emission("VAR", gen', x)
  OBVIOUS
<1>14. v.op = "VAR" /\ v.decl = U
  BY <1>3, <1>13 DEF Emission, DeclaredNew
<1>15. PICK m : m = emitted' /\ OpenedBy(emitted, v, m)
  BY <1>13 DEF DeclareVar, OpenedBy
<1>16. PICK n : n = Len(emitted) /\ n \in Nat /\ DOMAIN emitted = 1 .. n
  BY EmissionShape DEF HomesRight
<1>17. /\ IsEmission(m) /\ DOMAIN m = 1 .. (n + 1)
       /\ \A k \in DOMAIN emitted : m[k] = emitted[k]
       /\ m[n + 1] = v
  BY <1>14, <1>15, <1>16, EmissionGrows DEF HomesRight
<1>18. /\ Begins(m) = Begins(emitted) /\ Events(m) = Events(emitted) \cup {n + 1}
       /\ \A k \in Begins(m) : k < n + 1
       /\ \A k \in Events(emitted) : k < n + 1 /\ m[k] = emitted[k]
  <2>1. ASSUME NEW k \in DOMAIN m
        PROVE  k = n + 1 \/ k \in DOMAIN emitted
    BY <1>16, <1>17
  <2>2. \A k \in DOMAIN emitted : k \in DOMAIN m /\ k < n + 1 /\ k # n + 1 /\ n + 1 \in DOMAIN m
    BY <1>16, <1>17
  <2>3. n + 1 \in DOMAIN m /\ n + 1 \notin DOMAIN emitted
    BY <1>16, <1>17
  <2> QED BY <1>14, <1>17, <2>1, <2>2, <2>3 DEF Begins, Events
<1>19. gen'.attributes[U].scope = gen.scope /\ DeclaredAs(gen'.attributes[U], t)
  <2>1. PICK h : MadeFor(x, t, U, h)
    BY <1>3 DEF DeclaredNew
  <2>2. IsType(t, Len(StructDefs))
    BY FrontEndAssumption
  <2> QED BY <1>2, <2>1, <2>2, VarAttribute DEF TypeInv, RecordedAs
<1>20. /\ DOMAIN gen'.attributes = DOMAIN gen.attributes \cup {U}
       /\ \A d \in DOMAIN gen.attributes : gen'.attributes[d] = gen.attributes[d]
  BY <1>3 DEF DeclaredNew
<1>21. gen.scope = IF Len(env) = 1 THEN "GLOBAL" ELSE "LOCAL"
  BY <1>2 DEF TypeInv, Scoped
<1>22. \A k \in Events(emitted) : emitted[k].decl \in DOMAIN gen.attributes
  BY DEF HomesRight, EventsRight
<1>23. EventsRight(gen', m)
  <2>1. ASSUME NEW k \in Events(m)
        PROVE  /\ m[k].decl \in DOMAIN gen'.attributes
               /\ gen'.attributes[m[k].decl].scope \in {"GLOBAL", "LOCAL"}
               /\ m[k].op = "VAR" =>
                    \E u \in GlobalTypes \cup LocalTypes : DeclaredAs(gen'.attributes[m[k].decl], u)
    <3>1. CASE k = n + 1
      BY <1>14, <1>17, <1>19, <1>20, <1>21, <3>1
    <3>2. CASE k \in Events(emitted)
      BY <1>18, <1>20, <1>22, <3>2 DEF HomesRight, EventsRight
    <3> QED BY <1>18, <3>1, <3>2
  <2>2. ASSUME NEW k \in Events(m), NEW l \in Events(m), m[k].decl = m[l].decl
        PROVE  k = l
    <3>1. \A j \in Events(emitted) : m[j].decl # m[n + 1].decl
      BY <1>7, <1>14, <1>17, <1>18, <1>22
    <3>2. CASE k \in Events(emitted) /\ l \in Events(emitted)
      BY <1>18, <2>2, <3>2 DEF HomesRight, EventsRight
    <3> QED BY <1>18, <2>2, <3>1, <3>2
  <2> QED BY <2>1, <2>2 DEF EventsRight
<1>24. OnlyGlobals(m, env')
  <2>1. ASSUME NEW k \in Events(m), Len(env') = 1 \/ \E b \in Begins(m) : k < b
        PROVE  \E y \in DOMAIN env'[1] : m[k].decl = env'[1][y].decl
    <3>1. CASE k = n + 1
      <4>1. Len(env) = 1
        <5>1. \A b \in Begins(m) : b \in Nat /\ b < n + 1
          BY <1>17, <1>18 DEF Begins
        <5> QED BY <1>9, <1>16, <2>1, <3>1, <5>1
      <4> QED BY <1>5, <1>12, <1>14, <1>17, <3>1, <4>1
    <3>2. CASE k \in Events(emitted)
      <4>1. PICK y \in DOMAIN env[1] : emitted[k].decl = env[1][y].decl
        BY <1>9, <1>18, <2>1, <3>2 DEF HomesRight, OnlyGlobals
      <4> QED BY <1>6, <1>9, <1>11, <1>18, <3>2, <4>1
    <3> QED BY <1>18, <3>1, <3>2
  <2> QED BY <2>1 DEF OnlyGlobals
<1>25. Homed(gen', m, env')
  <2>1. ASSUME NEW k \in DOMAIN env', NEW y \in DOMAIN env'[k]
        PROVE  \E j \in DOMAIN m : HomeAt(gen', m, Len(env') > 1, env'[k][y], j)
    <3>1. CASE y \in DOMAIN env[k] /\ env'[k][y] = env[k][y]
      <4>1. PICK d : d = env[k][y]
        OBVIOUS
      <4>2. PICK j \in DOMAIN emitted : HomeAt(gen, emitted, Len(env) > 1, d, j)
        BY <1>9, <3>1, <4>1 DEF HomesRight, Homed
      <4>3. j \in Events(emitted) /\ emitted[j].decl = d.decl
        BY <4>2 DEF HomeAt
      <4>4. j \in Events(m) /\ m[j] = emitted[j] /\ gen'.attributes[d.decl] = gen.attributes[d.decl]
        BY <1>18, <1>20, <1>22, <4>3
      <4>5. HomeAt(gen', m, Len(env') > 1, d, j)
        BY <1>9, <1>18, <4>2, <4>4 DEF HomeAt
      <4> QED BY <3>1, <4>1, <4>4, <4>5 DEF Events
    <3>2. CASE k = Len(env) /\ env'[k][y] = c
      <4>1. n + 1 \in Events(m) /\ m[n + 1].decl = c.decl /\ m[n + 1].op = "VAR"
        BY <1>5, <1>14, <1>17, <1>18
      <4>2. c.scope = 1 => gen'.attributes[c.decl].scope = "GLOBAL" /\ ~(Len(env') > 1)
        BY <1>5, <1>9, <1>19, <1>21
      <4>3. c.scope # 1 => gen'.attributes[c.decl].scope = "LOCAL"
        BY <1>5, <1>19, <1>21
      <4>4. HomeAt(gen', m, Len(env') > 1, c, n + 1)
        BY <1>5, <1>18, <1>19, <4>1, <4>2, <4>3 DEF HomeAt
      <4> QED BY <3>2, <4>1, <4>4 DEF Events
    <3> QED BY <1>11, <3>1, <3>2
  <2> QED BY <2>1 DEF Homed
<1>26. OneMeaning(env')
  <2>1. ASSUME NEW k \in DOMAIN env', NEW l \in DOMAIN env', NEW y \in DOMAIN env'[k], NEW z \in DOMAIN env'[l],
               env'[k][y].decl = env'[l][z].decl
        PROVE  env'[k][y] = env'[l][z]
    <3>1. CASE env'[k][y] = c /\ env'[l][z] = c
      BY <3>1
    <3>2. CASE y \in DOMAIN env[k] /\ env'[k][y] = env[k][y] /\ z \in DOMAIN env[l] /\ env'[l][z] = env[l][z]
      BY <1>9, <2>1, <3>2 DEF HomesRight, OneMeaning
    <3>3. CASE y \in DOMAIN env[k] /\ env'[k][y] = env[k][y] /\ env'[l][z] = c
      BY <1>5, <1>7, <1>9, <2>1, <3>3
    <3>4. CASE env'[k][y] = c /\ z \in DOMAIN env[l] /\ env'[l][z] = env[l][z]
      BY <1>5, <1>7, <1>9, <2>1, <3>4
    <3> QED BY <1>11, <3>1, <3>2, <3>3, <3>4
  <2>2. ASSUME NEW y \in DOMAIN env'[1]
        PROVE  env'[1][y].scope = 1
    BY <1>5, <1>6, <1>9, <1>11 DEF HomesRight, OneMeaning
  <2> QED BY <2>1, <2>2 DEF OneMeaning
<1>27. Len(env') > 1 => Begins(m) # {}
  BY <1>9, <1>18 DEF HomesRight
<1> QED BY <1>15, <1>17, <1>23, <1>24, <1>25, <1>26, <1>27 DEF HomesRight

(* A parameter takes four bytes: an array is passed as a pointer. *)
LEMMA ParameterSize ==
  ASSUME NEW t \in ParamTypes
  PROVE  SizeOf(Adjusted(t)) = 4
<1>1. IsType(t, Len(StructDefs)) /\ (IsStruct(t) => IsArray(t))
  BY FrontEndAssumption
<1>2. PICK a : a = Adjusted(t)
  OBVIOUS
<1>3. a.dims = <<>> /\ ~IsStruct(a)
  <2>1. CASE IsArray(t)
    <3>1. a.dims = <<>> /\ a.base = "PTR"
      BY <1>2, <2>1 DEF Adjusted, PointerTo, Type
    <3>2. "PTR" \notin StructNames
      BY StructAssumption DEF StructNames
    <3> QED BY <3>1, <3>2 DEF IsStruct
  <2>2. CASE ~IsArray(t)
    BY <1>1, <1>2, <2>2 DEF Adjusted, IsArray
  <2> QED BY <2>1, <2>2
<1>4. Product(a.dims) = 1
  <2>1. <<>> \in Seq(Nat)
    OBVIOUS
  <2>2. PICK d : d = a.dims /\ d \in Seq(Nat) /\ d = <<>>
    BY <1>3, <2>1
  <2>3. Product(d) = 1
    BY <2>2, ProductNat
  <2> QED BY <2>2, <2>3
<1> QED BY <1>2, <1>3, <1>4 DEF SizeOf, Bytes

LEMMA BeginFuncHomes ==
  ASSUME NamesInv(gen, env), HomesRight(gen, emitted, env), NEW params \in ParamLists, BeginFunc(params),
         "redeclared" \notin Admit, "literal" \notin Admit
  PROVE  HomesRight(gen', emitted', env')
<1>1. TypeInv(gen, env) /\ Bound(gen, env)
  BY DEF NamesInv
<1>2. PICK n, fn, U, h, v : BegunNew(params, n, fn, U, h, v)
  BY <1>1, BeginFuncNew
<1>3. PICK first : first = Started(fn)
  OBVIOUS
<1>4. first.attributes = gen.attributes
  BY <1>1, <1>3, StartedIs
<1>5. /\ n \in Nat /\ DOMAIN params = 1 .. n /\ U \in Nat /\ U # 0 /\ U = Unused /\ gen' = h[n]
      /\ \A k \in 1 .. n : params[k].name \in Names /\ params[k].type \in ParamTypes
      /\ \A k \in 0 .. n : ParasRight(first, h[k]) /\ ParasBound(first, params, U, k, h[k])
  BY <1>2, <1>3 DEF BegunNew, Begun
<1>6. IsEnv(env) /\ Len(env) = 1 /\ 1 \in DOMAIN env /\ DOMAIN env = 1 .. 1
  BY <1>1, EnvShape DEF TypeInv, BeginFunc, Here
<1>7. /\ \A d \in DOMAIN gen.attributes : d \in Nat /\ d < U
      /\ \A y \in DOMAIN env[1] : env[1][y].decl \in Nat /\ env[1][y].decl < U
  BY <1>1, <1>5, <1>6, UnusedIsNew DEF TypeInv, Numbered, IsEnv
<1>8. /\ \A d : d \in DOMAIN gen'.attributes <=> d \in DOMAIN gen.attributes \/ \E j \in 1 .. n : d = U + j - 1
      /\ \A j \in 1 .. n : gen'.attributes[U + j - 1].scope = "LOCAL"
      /\ \A d \in DOMAIN gen.attributes : gen'.attributes[d] = gen.attributes[d]
  <2>1. ParasBound(first, params, U, n, gen')
    BY <1>5
  <2> QED BY <1>4, <2>1 DEF ParasBound
<1>9. ScopeOfParas(params, n, U, v)
  BY <1>2 DEF BegunNew
<1>10. \A k \in 1 .. n : params[k].name \notin DOMAIN env[1]
  BY <1>2, <1>1, <1>6 DEF BegunNew, Bound
<1>11. \A y \in DOMAIN v : \/ y \in DOMAIN env[1] /\ v[y] = env[1][y]
                           \/ \E k \in 1 .. n : v[y] = Meaning(Adjusted(params[k].type), U + k - 1, 2)
  <2>1. ASSUME NEW y \in DOMAIN v
        PROVE  \/ y \in DOMAIN env[1] /\ v[y] = env[1][y]
               \/ \E k \in 1 .. n : v[y] = Meaning(Adjusted(params[k].type), U + k - 1, 2)
    <3>1. CASE y \in DOMAIN env[1]
      BY <1>9, <1>10, <3>1 DEF ScopeOfParas
    <3>2. CASE \E k \in 1 .. n : y = params[k].name
      BY <1>9, <3>2 DEF ScopeOfParas
    <3> QED BY <1>9, <3>1, <3>2 DEF ScopeOfParas
  <2> QED BY <2>1
<1>12. Len(env') = 2 /\ DOMAIN env' = 1 .. 2 /\ env'[1] = env[1] /\ env'[2] = v
  <2>1. PICK S : S = Range(env) \cup {v}
    OBVIOUS
  <2>2. env \in Seq(S) /\ v \in S
    <3>1. Range(env) \subseteq S /\ v \in S
      BY <2>1
    <3> QED BY <1>6, <3>1, SeqMonotonic DEF IsEnv
  <2>3. env' = Append(env, v)
    BY <1>9 DEF ScopeOfParas, OpenedBy
  <2>4. PICK f : f = Append(env, v)
    OBVIOUS
  <2>5. /\ f \in Seq(S) /\ Len(f) = Len(env) + 1
        /\ \A i \in 1 .. Len(env) : f[i] = env[i]
        /\ f[Len(env) + 1] = v
    BY ONLY <2>2, <2>4, AppendProperties
  <2>6. f \in Seq(S) /\ Len(f) = 2 /\ f[1] = env[1] /\ f[2] = v
    BY <1>6, <2>5
  <2>7. DOMAIN f = 1 .. 2
    BY <2>6, LenProperties
  <2> QED BY <2>3, <2>4, <2>6, <2>7
<1>13. PICK b : b = [op |-> "BEGINFUNC", decl |-> 0]
  OBVIOUS
<1>14. PICK s : s = [k \in DOMAIN params |-> Emission("FORMAL", h[k], params[k].name)]
  OBVIOUS
<1>15. DOMAIN s = 1 .. n /\ \A k \in 1 .. n : s[k].op = "FORMAL" /\ s[k].decl = U + k - 1
  <2>1. ASSUME NEW k \in 1 .. n
        PROVE  lookup_sym(h[k], params[k].name).decl = U + k - 1
    <3>1. k \in 0 .. n /\ k \in 1 .. k
      OBVIOUS
    <3>2. /\ h[k].scope = "LOCAL"
          /\ params[k].name \in DOMAIN h[k].sym_tab_local
          /\ h[k].sym_tab_local[params[k].name] = Symbol("VAR", U + k - 1)
      BY <1>5, <3>1 DEF ParasRight, ParasBound
    <3> QED BY <3>2 DEF lookup_sym, Symbol
  <2> QED BY <1>5, <1>14, <2>1 DEF Emission
<1>16. IsEmission(s) /\ Len(s) = n
  <2>1. PICK S : S = Range(s)
    OBVIOUS
  <2>2. s \in [1 .. n -> S]
    <3>1. \A k \in 1 .. n : s[k] \in S
      BY <1>15, <2>1 DEF Range
    <3>2. s = [k \in 1 .. n |-> s[k]]
      BY <1>5, <1>14
    <3> QED BY <3>1, <3>2
  <2>3. s \in Seq(S)
    BY ONLY <1>5, <2>2, SeqDef
  <2>4. \A k \in DOMAIN s : s[k].op \in {"VAR", "FORMAL", "BEGINFUNC"}
    BY <1>15
  <2>5. IsEmission(s)
    BY <2>3, <2>4, IsEmissionFrom
  <2>6. Len(s) \in Nat /\ DOMAIN s = 1 .. Len(s)
    BY <2>5, EmissionShape
  <2>7. Len(s) = n
    BY <1>5, <1>15, <2>6
  <2> QED BY <2>5, <2>7
<1>17. PICK N : N = Len(emitted) /\ N \in Nat /\ DOMAIN emitted = 1 .. N
  BY EmissionShape DEF HomesRight
<1>18. PICK i : OpenedBy(emitted, b, i)
  BY DEF OpenedBy
<1>19. /\ IsEmission(i) /\ Len(i) = N + 1 /\ DOMAIN i = 1 .. (N + 1)
       /\ \A k \in DOMAIN emitted : i[k] = emitted[k]
       /\ i[N + 1] = b
  <2>1. b.op \in {"VAR", "FORMAL", "BEGINFUNC"}
    BY <1>13
  <2> QED BY <1>17, <1>18, <2>1, EmissionGrows DEF HomesRight
<1>20. PICK m : m = emitted' /\ JoinedTo(i, s, m)
  <2>1. emitted' = Append(emitted, [op |-> "BEGINFUNC", decl |-> 0])
                   \o [k \in DOMAIN params |-> Emission("FORMAL", h[k], params[k].name)]
    BY <1>2 DEF BegunNew, Begun
  <2>2. emitted' = Append(emitted, b) \o s
    BY <1>13, <1>14, <2>1
  <2> QED BY <1>18, <2>2 DEF JoinedTo, OpenedBy
<1>21. /\ IsEmission(m) /\ DOMAIN m = 1 .. (N + 1 + n)
       /\ \A k \in DOMAIN i : m[k] = i[k]
       /\ \A k \in 1 .. n : m[N + 1 + k] = s[k]
  BY <1>15, <1>16, <1>19, <1>20, EmissionJoins
<1>22. m[N + 1].op = "BEGINFUNC" /\ N + 1 \in DOMAIN m /\ \A k \in DOMAIN emitted : m[k] = emitted[k] /\ k < N + 1
  <2>1. N + 1 \in DOMAIN i /\ \A k \in DOMAIN emitted : k \in DOMAIN i /\ k < N + 1
    BY <1>17, <1>19
  <2>2. N + 1 \in DOMAIN m
    BY <1>5, <1>17, <1>21
  <2> QED BY <1>13, <1>19, <1>21, <2>1, <2>2
<1>23. \A k \in 1 .. n : /\ N + 1 + k \in DOMAIN m /\ N + 1 < N + 1 + k
                         /\ m[N + 1 + k].op = "FORMAL" /\ m[N + 1 + k].decl = U + k - 1
  <2>1. TAKE k \in 1 .. n
  <2>2. N + 1 + k \in DOMAIN m /\ N + 1 < N + 1 + k
    BY <1>5, <1>17, <1>21
  <2> QED BY <1>15, <1>21, <2>2
<1>24. \A j \in DOMAIN m : j \in DOMAIN emitted \/ j = N + 1 \/ \E k \in 1 .. n : j = N + 1 + k
  <2>1. ASSUME NEW j \in DOMAIN m, j \notin DOMAIN emitted, j # N + 1
        PROVE  \E k \in 1 .. n : j = N + 1 + k
    <3>1. j - (N + 1) \in 1 .. n /\ j = N + 1 + (j - (N + 1))
      BY <1>5, <1>17, <1>21, <2>1
    <3> QED BY <3>1
  <2> QED BY <2>1
<1>25. /\ N + 1 \in Begins(m) /\ \A j \in Begins(m) : j <= N + 1
       /\ \A j \in Events(emitted) : j \in Events(m) /\ m[j] = emitted[j] /\ j < N + 1
       /\ \A k \in 1 .. n : N + 1 + k \in Events(m)
       /\ \A j \in Events(m) : j \in Events(emitted) \/ \E k \in 1 .. n : j = N + 1 + k
  <2>1. N + 1 \in Begins(m)
    BY <1>22 DEF Begins
  <2>2. ASSUME NEW j \in Begins(m)
        PROVE  j <= N + 1
    <3>1. j \in DOMAIN emitted \/ j = N + 1
      BY <1>23, <1>24 DEF Begins
    <3> QED BY <1>17, <3>1
  <2>3. ASSUME NEW j \in Events(emitted)
        PROVE  j \in Events(m) /\ m[j] = emitted[j] /\ j < N + 1
    <3>1. j \in DOMAIN emitted /\ emitted[j].op # "BEGINFUNC"
      BY DEF Events, Begins
    <3>2. j \in DOMAIN m
      BY <1>5, <1>17, <1>21, <3>1
    <3> QED BY <1>22, <3>1, <3>2 DEF Events, Begins
  <2>4. \A k \in 1 .. n : N + 1 + k \in Events(m)
    BY <1>23 DEF Events, Begins
  <2>5. ASSUME NEW j \in Events(m)
        PROVE  j \in Events(emitted) \/ \E k \in 1 .. n : j = N + 1 + k
    <3>1. j \in DOMAIN m /\ m[j].op # "BEGINFUNC"
      BY DEF Events, Begins
    <3> QED BY <1>22, <1>24, <3>1 DEF Events, Begins
  <2> QED BY <2>1, <2>2, <2>3, <2>4, <2>5
<1>26. \A k \in Events(emitted) : emitted[k].decl \in DOMAIN gen.attributes
  BY DEF HomesRight, EventsRight
<1>27. EventsRight(gen', m)
  <2>1. ASSUME NEW j \in Events(m)
        PROVE  /\ m[j].decl \in DOMAIN gen'.attributes
               /\ gen'.attributes[m[j].decl].scope \in {"GLOBAL", "LOCAL"}
               /\ m[j].op = "VAR" =>
                    \E u \in GlobalTypes \cup LocalTypes : DeclaredAs(gen'.attributes[m[j].decl], u)
    <3>1. CASE j \in Events(emitted)
      BY <1>8, <1>25, <1>26, <3>1 DEF HomesRight, EventsRight
    <3>2. CASE \E k \in 1 .. n : j = N + 1 + k
      BY <1>8, <1>23, <3>2
    <3> QED BY <1>25, <3>1, <3>2
  <2>2. ASSUME NEW j \in Events(m), NEW l \in Events(m), m[j].decl = m[l].decl
        PROVE  j = l
    <3>1. CASE j \in Events(emitted) /\ l \in Events(emitted)
      BY <1>25, <2>2, <3>1 DEF HomesRight, EventsRight
    <3>2. ASSUME NEW p \in Events(emitted), NEW k \in 1 .. n, m[p].decl = m[N + 1 + k].decl
          PROVE  FALSE
      <4>1. m[p].decl \in Nat /\ m[p].decl < U /\ m[N + 1 + k].decl = U + k - 1
        BY <1>7, <1>23, <1>25, <1>26
      <4> QED BY <1>5, <3>2, <4>1
    <3>3. ASSUME NEW k \in 1 .. n, NEW p \in 1 .. n, j = N + 1 + k, l = N + 1 + p
          PROVE  j = l
      <4>1. m[j].decl = U + k - 1 /\ m[l].decl = U + p - 1
        BY <1>23, <3>3
      <4>2. U + k - 1 = U + p - 1
        BY <2>2, <4>1
      <4>3. k \in Int /\ p \in Int /\ U \in Int
        BY <1>5
      <4>4. k = p
        BY ONLY <4>2, <4>3
      <4> QED BY <3>3, <4>4
    <3> QED BY <1>25, <2>2, <3>1, <3>2, <3>3
  <2> QED BY <2>1, <2>2 DEF EventsRight
<1>28. OnlyGlobals(m, env')
  <2>1. ASSUME NEW j \in Events(m), Len(env') = 1 \/ \E k \in Begins(m) : j < k
        PROVE  \E y \in DOMAIN env'[1] : m[j].decl = env'[1][y].decl
    <3>1. CASE j \in Events(emitted)
      BY <1>6, <1>12, <1>25, <3>1 DEF HomesRight, OnlyGlobals
    <3>2. CASE \E k \in 1 .. n : j = N + 1 + k
      <4>1. PICK p \in Begins(m) : j < p
        BY <1>12, <2>1
      <4>2. PICK k \in 1 .. n : j = N + 1 + k
        BY <3>2
      <4>3. p <= N + 1 /\ p \in Nat
        BY <1>21, <1>25 DEF Begins
      <4> QED BY <1>5, <1>17, <4>1, <4>2, <4>3
    <3> QED BY <1>25, <3>1, <3>2
  <2> QED BY <2>1 DEF OnlyGlobals
<1>29. Homed(gen', m, env')
  <2>1. ASSUME NEW y \in DOMAIN env[1]
        PROVE  \E j \in DOMAIN m : HomeAt(gen', m, Len(env') > 1, env[1][y], j)
    <3>1. PICK d : d = env[1][y] /\ d.scope = 1
      BY <1>6 DEF HomesRight, OneMeaning
    <3>2. PICK j \in DOMAIN emitted : HomeAt(gen, emitted, Len(env) > 1, d, j)
      BY <1>6, <3>1 DEF HomesRight, Homed
    <3>3. j \in Events(emitted) /\ emitted[j].decl = d.decl
      BY <3>2 DEF HomeAt
    <3>4. j \in Events(m) /\ m[j] = emitted[j] /\ gen'.attributes[d.decl] = gen.attributes[d.decl]
      BY <1>8, <1>25, <1>26, <3>3
    <3>5. \E k \in Begins(m) : j < k
      BY <1>25, <3>3
    <3>6. HomeAt(gen', m, Len(env') > 1, d, j)
      BY <3>1, <3>2, <3>4, <3>5 DEF HomeAt
    <3> QED BY <3>1, <3>4, <3>6 DEF Events
  <2>2. ASSUME NEW k \in 1 .. n
        PROVE  \E j \in DOMAIN m : HomeAt(gen', m, Len(env') > 1, Meaning(Adjusted(params[k].type), U + k - 1, 2), j)
    <3>1. PICK d : d = Meaning(Adjusted(params[k].type), U + k - 1, 2)
      OBVIOUS
    <3>2. d.type = Adjusted(params[k].type) /\ d.decl = U + k - 1 /\ d.scope = 2
      BY <3>1 DEF Meaning
    <3>3. SizeOf(d.type) = 4
      BY <1>5, <3>2, ParameterSize
    <3>4. PICK j : j = N + 1 + k
      OBVIOUS
    <3>5. j \in Events(m) /\ m[j].op = "FORMAL" /\ m[j].decl = d.decl /\ j \in DOMAIN m
      BY <1>23, <1>25, <3>2, <3>4
    <3>6. ASSUME NEW p \in Begins(m)
          PROVE  p < j
      <4>1. p <= N + 1 /\ p \in Nat
        BY <1>21, <1>25 DEF Begins
      <4> QED BY <1>17, <3>4, <4>1
    <3>7. HomeAt(gen', m, Len(env') > 1, d, j)
      BY <3>2, <3>3, <3>5, <3>6 DEF HomeAt
    <3> QED BY <3>1, <3>5, <3>7
  <2>3. ASSUME NEW k \in DOMAIN env', NEW y \in DOMAIN env'[k]
        PROVE  \E j \in DOMAIN m : HomeAt(gen', m, Len(env') > 1, env'[k][y], j)
    <3>1. CASE k = 1
      BY <1>12, <2>1, <3>1
    <3>2. CASE k = 2
      BY <1>11, <1>12, <2>1, <2>2, <3>2
    <3> QED BY <1>12, <3>1, <3>2
  <2> QED BY <2>3 DEF Homed
<1>30. OneMeaning(env')
  <2>1. \A k \in DOMAIN env' : \A y \in DOMAIN env'[k] :
          \/ \E z \in DOMAIN env[1] : env'[k][y] = env[1][z]
          \/ \E p \in 1 .. n : env'[k][y] = Meaning(Adjusted(params[p].type), U + p - 1, 2)
    <3>1. ASSUME NEW k \in DOMAIN env', NEW y \in DOMAIN env'[k]
          PROVE  \/ \E z \in DOMAIN env[1] : env'[k][y] = env[1][z]
                 \/ \E p \in 1 .. n : env'[k][y] = Meaning(Adjusted(params[p].type), U + p - 1, 2)
      <4>1. CASE k = 1
        BY <1>12, <4>1
      <4>2. CASE k = 2
        BY <1>11, <1>12, <4>2
      <4> QED BY <1>12, <4>1, <4>2
    <3> QED BY <3>1
  <2>2. \A p \in 1 .. n : Meaning(Adjusted(params[p].type), U + p - 1, 2).decl = U + p - 1
    BY DEF Meaning
  <2>3. ASSUME NEW y \in DOMAIN env[1], NEW p \in 1 .. n, env[1][y].decl = U + p - 1
        PROVE  FALSE
    BY <1>5, <1>7, <2>3
  <2>4. ASSUME NEW k \in DOMAIN env', NEW l \in DOMAIN env', NEW y \in DOMAIN env'[k], NEW z \in DOMAIN env'[l],
               env'[k][y].decl = env'[l][z].decl
        PROVE  env'[k][y] = env'[l][z]
    <3>1. PICK c, d : c = env'[k][y] /\ d = env'[l][z] /\ c.decl = d.decl
      BY <2>4
    <3>2. CASE (\E a \in DOMAIN env[1] : c = env[1][a]) /\ (\E a \in DOMAIN env[1] : d = env[1][a])
      BY <1>6, <3>1, <3>2 DEF HomesRight, OneMeaning
    <3>3. CASE \/ (\E a \in DOMAIN env[1] : c = env[1][a])
                  /\ (\E p \in 1 .. n : d = Meaning(Adjusted(params[p].type), U + p - 1, 2))
               \/ (\E a \in DOMAIN env[1] : d = env[1][a])
                  /\ (\E p \in 1 .. n : c = Meaning(Adjusted(params[p].type), U + p - 1, 2))
      BY <2>2, <2>3, <3>1, <3>3
    <3>4. ASSUME NEW p \in 1 .. n, NEW q \in 1 .. n,
                 c = Meaning(Adjusted(params[p].type), U + p - 1, 2),
                 d = Meaning(Adjusted(params[q].type), U + q - 1, 2)
          PROVE  c = d
      <4>1. U + p - 1 = U + q - 1
        BY <2>2, <3>1, <3>4
      <4>2. p = q
        BY <1>5, <4>1
      <4> QED BY <3>4, <4>2
    <3> QED BY <2>1, <3>1, <3>2, <3>3, <3>4
  <2>5. \A y \in DOMAIN env'[1] : env'[1][y].scope = 1
    BY <1>12 DEF HomesRight, OneMeaning
  <2> QED BY <2>4, <2>5 DEF OneMeaning
<1> QED BY <1>20, <1>21, <1>25, <1>27, <1>28, <1>29, <1>30 DEF HomesRight

(* A block opens with what can be seen, and closes with it. *)
LEMMA ScopesHomes ==
  ASSUME NEW g, NEW m, NEW e, HomesRight(g, m, e), NEW f,
         Len(e) > 1, Len(f) > 1, 1 \in DOMAIN e, f[1] = e[1],
         \A k \in DOMAIN f : \E l \in DOMAIN e : f[k] = e[l]
  PROVE  HomesRight(g, m, f)
<1>1. Begins(m) # {} /\ IsEmission(m) /\ EventsRight(g, m)
  BY DEF HomesRight
<1>2. OnlyGlobals(m, f)
  <2>1. ASSUME NEW n \in Events(m), Len(f) = 1 \/ \E b \in Begins(m) : n < b
        PROVE  \E x \in DOMAIN f[1] : m[n].decl = f[1][x].decl
    <3>1. PICK l : l = Len(f) /\ l > 1
      OBVIOUS
    <3>2. l # 1
      BY ONLY <3>1
    <3> QED BY <2>1, <3>1, <3>2 DEF HomesRight, OnlyGlobals
  <2> QED BY <2>1 DEF OnlyGlobals
<1>3. Homed(g, m, f)
  <2>1. ASSUME NEW k \in DOMAIN f, NEW x \in DOMAIN f[k]
        PROVE  \E n \in DOMAIN m : HomeAt(g, m, Len(f) > 1, f[k][x], n)
    <3>1. PICK l \in DOMAIN e : f[k] = e[l]
      OBVIOUS
    <3>2. PICK n \in DOMAIN m : HomeAt(g, m, Len(e) > 1, e[l][x], n)
      BY <3>1 DEF HomesRight, Homed
    <3>3. HomeAt(g, m, Len(f) > 1, e[l][x], n)
      BY <3>2 DEF HomeAt
    <3> QED BY <3>1, <3>3
  <2> QED BY <2>1 DEF Homed
<1>4. OneMeaning(f)
  <2>1. ASSUME NEW k \in DOMAIN f, NEW l \in DOMAIN f, NEW x \in DOMAIN f[k], NEW y \in DOMAIN f[l],
               f[k][x].decl = f[l][y].decl
        PROVE  f[k][x] = f[l][y]
    <3>1. PICK i, j \in DOMAIN e : f[k] = e[i] /\ f[l] = e[j]
      OBVIOUS
    <3> QED BY <2>1, <3>1 DEF HomesRight, OneMeaning
  <2> QED BY <2>1 DEF HomesRight, OneMeaning
<1> QED BY <1>1, <1>2, <1>3, <1>4 DEF HomesRight

LEMMA OpenBlockHomes ==
  ASSUME TypeInv(gen, env), HomesRight(gen, emitted, env), OpenBlock
  PROVE  HomesRight(gen', emitted', env')
<1>1. IsEnv(env) /\ Len(env) \in DOMAIN env /\ 1 \in DOMAIN env
  BY EnvShape DEF TypeInv
<1>2. PICK v : v = env[Len(env)]
  OBVIOUS
<1>3. DOMAIN v \subseteq Names /\ \A x \in DOMAIN v : Meant(v[x])
  BY <1>1, <1>2 DEF IsEnv, Meant
<1>4. gen' = gen /\ emitted' = emitted /\ Len(env) > 1 /\ OpenedBy(env, v, env')
  BY <1>2 DEF OpenBlock, Meanings, Here, OpenedBy
<1>5. /\ Len(env') = Len(env) + 1
      /\ DOMAIN env' = 1 .. (Len(env) + 1) /\ DOMAIN env = 1 .. Len(env) /\ Len(env) \in Nat
      /\ \A k \in DOMAIN env : env'[k] = env[k]
      /\ env'[Len(env) + 1] = v
  BY <1>1, <1>3, <1>4, EnvOpens, EnvShape
<1>6. Len(env') > 1
  BY <1>4, <1>5
<1>7. \A k \in DOMAIN env' : \E l \in DOMAIN env : env'[k] = env[l]
  <2>1. ASSUME NEW k \in DOMAIN env'
        PROVE  \E l \in DOMAIN env : env'[k] = env[l]
    <3>1. k = Len(env) + 1 \/ k \in DOMAIN env
      BY <1>5
    <3> QED BY <1>1, <1>2, <1>5, <3>1
  <2> QED BY <2>1
<1>8. PICK f : f = env'
  OBVIOUS
<1>9. Len(f) > 1 /\ f[1] = env[1] /\ \A k \in DOMAIN f : \E l \in DOMAIN env : f[k] = env[l]
  BY <1>1, <1>5, <1>6, <1>7, <1>8
<1>10. HomesRight(gen, emitted, f)
  BY <1>1, <1>4, <1>9, ScopesHomes
<1> QED BY <1>4, <1>8, <1>10

LEMMA CloseBlockHomes ==
  ASSUME TypeInv(gen, env), HomesRight(gen, emitted, env), CloseBlock
  PROVE  HomesRight(gen', emitted', env')
<1>1. IsEnv(env) /\ Len(env) \in Nat /\ DOMAIN env = 1 .. Len(env) /\ 1 \in DOMAIN env
  BY EnvShape DEF TypeInv
<1>2. gen' = gen /\ emitted' = emitted /\ env' = SubSeq(env, 1, Len(env) - 1) /\ Len(env) > 2
  BY DEF CloseBlock, Front, Here
<1>3. PICK n \in 1 .. Len(env) : n = Len(env) - 1
  <2>1. Len(env) - 1 \in 1 .. Len(env)
    BY <1>1, <1>2
  <2> QED BY <2>1
<1>4. PICK f : f = env' /\ ClosedTo(env, n, f)
  BY <1>2, <1>3 DEF ClosedTo
<1>5. Len(f) = n /\ DOMAIN f = 1 .. n /\ \A k \in 1 .. n : f[k] = env[k]
  BY <1>1, <1>4, EnvCloses
<1>6. n > 1 /\ Len(env) > 1 /\ 1 \in 1 .. n /\ \A k \in 1 .. n : k \in DOMAIN env
  BY <1>1, <1>2, <1>3
<1>7. HomesRight(gen, emitted, f)
  <2>1. Len(f) > 1 /\ f[1] = env[1] /\ \A k \in DOMAIN f : \E l \in DOMAIN env : f[k] = env[l]
    BY <1>5, <1>6
  <2> QED BY <1>1, <1>6, <2>1, ScopesHomes
<1> QED BY <1>2, <1>4, <1>7

LEMMA EndFuncHomes ==
  ASSUME TypeInv(gen, env), HomesRight(gen, emitted, env), EndFunc
  PROVE  HomesRight(gen', emitted', env')
<1>1. PICK kept : kept = ({0} \cup {env[1][x].decl : x \in DOMAIN env[1]}) \cap DOMAIN gen.attributes
  OBVIOUS
<1>2. /\ Len(env) = 2
      /\ IsEnv(env') /\ Len(env') = 1 /\ DOMAIN env' = 1 .. 1 /\ env'[1] = env[1]
      /\ gen'.attributes = [d \in kept |-> gen.attributes[d]]
  BY <1>1, EndFuncIs
<1>3. 1 \in DOMAIN env
  BY EnvShape DEF TypeInv
<1>4. PICK N : N = Len(emitted) /\ N \in Nat /\ DOMAIN emitted = 1 .. N
  BY EmissionShape DEF HomesRight
<1>5. PICK B : B = Max(Begins(emitted))
  OBVIOUS
<1>6. B \in Begins(emitted) /\ (\A b \in Begins(emitted) : b <= B) /\ B \in 1 .. N
  <2>1. Begins(emitted) \subseteq 1 .. N /\ 1 .. N \subseteq Nat
    BY <1>4 DEF Begins
  <2>2. IsFiniteSet(Begins(emitted))
    <3>1. IsFiniteSet(1 .. N)
      BY <1>4, FS_Interval
    <3> QED BY <2>1, <3>1, FS_Subset
  <2>3. Begins(emitted) # {}
    BY <1>2 DEF HomesRight
  <2>4. PICK T : T = Begins(emitted)
    OBVIOUS
  <2>5. Max(T) \in T /\ \A t \in T : t <= Max(T)
    BY <2>1, <2>2, <2>3, <2>4, MaxIsLargest
  <2> QED BY <1>5, <2>1, <2>4, <2>5
<1>7. PICK m : m = emitted' /\ ClosedTo(emitted, B, m)
  BY <1>5 DEF EndFunc, ClosedTo, Begins
<1>8. IsEmission(m) /\ DOMAIN m = 1 .. B /\ \A k \in 1 .. B : m[k] = emitted[k]
  BY <1>4, <1>6, <1>7, EmissionCut DEF HomesRight
<1>9. \A k \in 1 .. B : k \in DOMAIN emitted
  BY <1>4, <1>6
<1>10. ASSUME NEW j \in Events(m)
       PROVE  /\ j \in Events(emitted) /\ m[j] = emitted[j] /\ j < B
              /\ \E x \in DOMAIN env[1] : m[j].decl = env[1][x].decl
              /\ m[j].decl \in kept /\ gen'.attributes[m[j].decl] = gen.attributes[m[j].decl]
  <2>1. j \in 1 .. B /\ m[j].op # "BEGINFUNC" /\ j \in DOMAIN emitted
    BY <1>8, <1>9 DEF Events, Begins
  <2>2. j \in Events(emitted) /\ m[j] = emitted[j]
    BY <1>8, <2>1 DEF Events, Begins
  <2>3. j # B
    BY <1>6, <2>2 DEF Events
  <2>4. j < B
    BY <1>6, <2>1, <2>3
  <2>5. PICK x \in DOMAIN env[1] : m[j].decl = env[1][x].decl
    BY <1>6, <2>2, <2>4 DEF HomesRight, OnlyGlobals
  <2>6. m[j].decl \in DOMAIN gen.attributes
    BY <2>2 DEF HomesRight, EventsRight
  <2>7. m[j].decl \in kept
    BY <1>1, <2>5, <2>6
  <2> QED BY <1>2, <2>2, <2>4, <2>5, <2>7
<1>11. EventsRight(gen', m)
  <2>1. ASSUME NEW k \in Events(m)
        PROVE  /\ m[k].decl \in DOMAIN gen'.attributes
               /\ gen'.attributes[m[k].decl].scope \in {"GLOBAL", "LOCAL"}
               /\ m[k].op = "VAR" =>
                    \E u \in GlobalTypes \cup LocalTypes : DeclaredAs(gen'.attributes[m[k].decl], u)
    BY <1>2, <1>10 DEF HomesRight, EventsRight
  <2>2. ASSUME NEW k \in Events(m), NEW l \in Events(m), m[k].decl = m[l].decl
        PROVE  k = l
    BY <1>10, <2>2 DEF HomesRight, EventsRight
  <2> QED BY <2>1, <2>2 DEF EventsRight
<1>12. OnlyGlobals(m, env')
  BY <1>2, <1>10 DEF OnlyGlobals
<1>13. Homed(gen', m, env')
  <2>1. ASSUME NEW x \in DOMAIN env[1]
        PROVE  \E j \in DOMAIN m : HomeAt(gen', m, Len(env') > 1, env[1][x], j)
    <3>1. PICK d : d = env[1][x] /\ d.scope = 1
      BY <1>3 DEF HomesRight, OneMeaning
    <3>2. PICK j \in DOMAIN emitted : HomeAt(gen, emitted, Len(env) > 1, d, j)
      BY <1>3, <3>1 DEF HomesRight, Homed
    <3>3. PICK b \in Begins(emitted) : j < b
      BY <1>2, <3>1, <3>2 DEF HomeAt
    <3>4. j \in 1 .. B
      BY <1>4, <1>6, <3>3 DEF Begins
    <3>5. j \in Events(m)
      BY <1>8, <3>2, <3>4 DEF Events, Begins, HomeAt
    <3>6. ~(Len(env') > 1)
      BY <1>2
    <3>7. m[j] = emitted[j] /\ gen'.attributes[d.decl] = gen.attributes[d.decl]
      <4>1. emitted[j].decl = d.decl
        BY <3>2 DEF HomeAt
      <4> QED BY <1>10, <3>5, <4>1
    <3>8. HomeAt(gen', m, Len(env') > 1, d, j)
      BY <3>1, <3>2, <3>5, <3>6, <3>7 DEF HomeAt
    <3> QED BY <3>1, <3>5, <3>8 DEF Events
  <2> QED BY <1>2, <2>1 DEF Homed
<1>14. OneMeaning(env')
  BY <1>2, <1>3 DEF HomesRight, OneMeaning
<1>15. ~(Len(env') > 1)
  BY <1>2
<1> QED BY <1>7, <1>8, <1>11, <1>12, <1>13, <1>14, <1>15 DEF HomesRight

LEMMA EnteredHomes ==
  ASSUME NEW g, NEW m, NEW e, HomesRight(g, m, e), NEW r, r.attributes = g.attributes
  PROVE  HomesRight(r, m, e)
<1>1. EventsRight(r, m)
  BY DEF HomesRight, EventsRight
<1>2. Homed(r, m, e)
  BY DEF HomesRight, Homed, HomeAt
<1> QED BY <1>1, <1>2 DEF HomesRight

LEMMA InitHomes ==
  ASSUME Init
  PROVE  HomesRight(gen, emitted, env)
<1>1. PICK none : none = Empty /\ DOMAIN none = {}
  BY DEF Empty
<1>2. emitted = <<>> /\ env = <<none>> /\ Len(env) = 1 /\ DOMAIN env = 1 .. 1 /\ env[1] = none
  BY <1>1 DEF Init
<1>3. DOMAIN emitted = {} /\ emitted \in Seq(Range(emitted))
  BY <1>2
<1>4. Events(emitted) = {}
  BY <1>3 DEF Events
<1>5. \A k \in DOMAIN env : DOMAIN env[k] = {}
  BY <1>1, <1>2
<1>6. IsEmission(emitted)
  BY <1>3 DEF IsEmission
<1>7. ~(Len(env) > 1)
  BY <1>2
<1> QED BY <1>1, <1>2, <1>4, <1>5, <1>6, <1>7 DEF HomesRight, EventsRight, OnlyGlobals, Homed, OneMeaning

LEMMA StepHomes ==
  ASSUME HomesInv(gen, emitted, env), [Next]_vars,
         "redeclared" \notin Admit, "literal" \notin Admit
  PROVE  HomesInv(gen', emitted', env')
<1>1. NamesInv(gen, env) /\ TypeInv(gen, env) /\ HomesRight(gen, emitted, env) /\ NamesInv(gen', env')
  BY StepNames DEF HomesInv, NamesInv
<1>2. HomesRight(gen', emitted', env')
  <2>1. ASSUME NEW x \in Names, NEW t \in GlobalTypes \cup LocalTypes, DeclareVar(x, t)
        PROVE  HomesRight(gen', emitted', env')
    BY <1>1, <2>1, DeclareVarHomes
  <2>2. ASSUME NEW params \in ParamLists, BeginFunc(params)
        PROVE  HomesRight(gen', emitted', env')
    BY <1>1, <2>2, BeginFuncHomes
  <2>3. CASE OpenBlock
    BY <1>1, <2>3, OpenBlockHomes
  <2>4. CASE CloseBlock
    BY <1>1, <2>4, CloseBlockHomes
  <2>5. CASE EndFunc
    BY <1>1, <2>5, EndFuncHomes
  <2>6. ASSUME NEW e \in Paths, Use(e)
        PROVE  HomesRight(gen', emitted', env')
    <3>1. PICK numbers : numbers = Known(generate_expression(gen, e).numbers)
      OBVIOUS
    <3>2. PICK kinds : kinds = {<<"CONST_INT", n>> : n \in numbers}
      OBVIOUS
    <3>3. EnteredAs(gen, kinds, gen') /\ env' = env /\ emitted' = emitted
      BY <1>1, <2>6, <3>1, <3>2, UseEnters DEF Use
    <3> QED BY <1>1, <3>3, EnteredHomes DEF EnteredAs
  <2>7. ASSUME NEW l \in Literals, UseLiteral(l[1], l[2])
        PROVE  HomesRight(gen', emitted', env')
    <3>1. PICK kinds : kinds = {<<l[1], l[2]>>}
      OBVIOUS
    <3>2. EnteredAs(gen, kinds, gen') /\ env' = env /\ emitted' = emitted
      BY <1>1, <2>7, <3>1, UseLiteralEnters DEF UseLiteral
    <3> QED BY <1>1, <3>2, EnteredHomes DEF EnteredAs
  <2>8. CASE UNCHANGED vars
    <3>1. gen' = gen /\ env' = env /\ emitted' = emitted
      BY <2>8 DEF vars
    <3> QED BY <1>1, <3>1
  <2> QED BY <2>1, <2>2, <2>3, <2>4, <2>5, <2>6, <2>7, <2>8 DEF Next
<1> QED BY <1>1, <1>2 DEF HomesInv

-----------------------------------------------------------------------------
(* Where the counters stand. *)

Standing == [tos : Nat, tof : {k \in Nat : k >= 8}, oof : {k \in Int : k <= -4}]
AtStart == [tos |-> 0, tof |-> 8, oof |-> -4]

After(l, e) ==
  CASE e.op = "BEGINFUNC" -> [l EXCEPT !.tof = 8, !.oof = -4]
    [] e.op = "FORMAL" -> [l EXCEPT !.oof = @ - 4]
    [] e.op = "VAR" /\ gen.attributes[e.decl].scope = "LOCAL" -> [l EXCEPT !.tof = @ + get_size(gen.attributes[e.decl])]
    [] e.op = "VAR" /\ gen.attributes[e.decl].scope = "GLOBAL" -> [l EXCEPT !.tos = @ + get_size(gen.attributes[e.decl])]

(* What one emission does to the counters. *)
Moved(l, e, r) ==
  LET a == gen.attributes[e.decl]
  IN  \/ e.op = "BEGINFUNC" /\ r.tos = l.tos /\ r.tof = 8 /\ r.oof = -4
      \/ e.op = "FORMAL" /\ r.tos = l.tos /\ r.tof = l.tof /\ r.oof = l.oof - 4
      \/ /\ e.op = "VAR" /\ a.scope = "LOCAL" /\ get_size(a) \in Nat
         /\ r.tos = l.tos /\ r.tof = l.tof + get_size(a) /\ r.oof = l.oof
      \/ /\ e.op = "VAR" /\ a.scope = "GLOBAL" /\ get_size(a) \in Nat
         /\ r.tos = l.tos + get_size(a) /\ r.tof = l.tof /\ r.oof = l.oof

LEMMA AfterIs ==
  ASSUME HomesInv(gen, emitted, env), NEW n \in DOMAIN emitted, NEW l \in Standing
  PROVE  After(l, emitted[n]) \in Standing /\ Moved(l, emitted[n], After(l, emitted[n]))
<1>1. PICK e : e = emitted[n]
  OBVIOUS
<1>2. e.op \in {"VAR", "FORMAL", "BEGINFUNC"}
  BY <1>1 DEF HomesInv, HomesRight, IsEmission
<1>3. PICK r : r = After(l, e)
  OBVIOUS
<1>4. /\ l.tos \in Nat /\ l.tof \in Nat /\ l.tof >= 8 /\ l.oof \in Int /\ l.oof <= -4
      /\ l = [tos |-> l.tos, tof |-> l.tof, oof |-> l.oof]
  BY DEF Standing
<1>5. CASE e.op = "BEGINFUNC"
  <2>1. r = [l EXCEPT !.tof = 8, !.oof = -4]
    BY <1>3, <1>5 DEF After
  <2>2. r = [tos |-> l.tos, tof |-> 8, oof |-> -4]
    BY <1>4, <2>1
  <2>3. r \in Standing
    BY <1>4, <2>2 DEF Standing
  <2>4. Moved(l, e, r)
    BY <1>5, <2>2 DEF Moved
  <2> QED BY <1>1, <1>3, <2>3, <2>4
<1>6. CASE e.op = "FORMAL"
  <2>1. r = [l EXCEPT !.oof = @ - 4]
    BY <1>3, <1>6 DEF After
  <2>2. r = [tos |-> l.tos, tof |-> l.tof, oof |-> l.oof - 4]
    BY <1>4, <2>1
  <2>3. r \in Standing
    <3>1. l.oof - 4 \in Int /\ l.oof - 4 <= -4
      BY <1>4
    <3> QED BY <1>4, <2>2, <3>1 DEF Standing
  <2>4. Moved(l, e, r)
    BY <1>6, <2>2 DEF Moved
  <2> QED BY <1>1, <1>3, <2>3, <2>4
<1>7. CASE e.op = "VAR"
  <2>1. PICK a : a = gen.attributes[e.decl]
    OBVIOUS
  <2>2. n \in Events(emitted)
    BY <1>1, <1>7 DEF Events, Begins
  <2>3. PICK t \in GlobalTypes \cup LocalTypes : DeclaredAs(a, t) /\ a.scope \in {"GLOBAL", "LOCAL"}
    BY <1>1, <1>7, <2>1, <2>2 DEF HomesInv, HomesRight, EventsRight
  <2>4. PICK size \in Nat : size = get_size(a)
    <3>1. IsType(t, Len(StructDefs)) /\ gen.struct_types = struct_types
      BY FrontEndAssumption DEF HomesInv, NamesInv, TypeInv
    <3>2. get_size(a) \in Nat
      BY <2>3, <3>1, SizeKept
    <3> QED BY <3>2
  <2>5. CASE a.scope = "LOCAL"
    <3>1. r = [l EXCEPT !.tof = @ + size]
      BY <1>3, <1>7, <2>1, <2>4, <2>5 DEF After
    <3>2. r = [tos |-> l.tos, tof |-> l.tof + size, oof |-> l.oof]
      BY <1>4, <3>1
    <3>3. r \in Standing
      <4>1. l.tof + size \in Nat /\ l.tof + size >= 8
        BY <1>4
      <4> QED BY <1>4, <3>2, <4>1 DEF Standing
    <3>4. Moved(l, e, r)
      BY <1>7, <2>1, <2>4, <2>5, <3>2 DEF Moved
    <3> QED BY <1>1, <1>3, <3>3, <3>4
  <2>6. CASE a.scope = "GLOBAL"
    <3>1. r = [l EXCEPT !.tos = @ + size]
      BY <1>3, <1>7, <2>1, <2>4, <2>6 DEF After
    <3>2. r = [tos |-> l.tos + size, tof |-> l.tof, oof |-> l.oof]
      BY <1>4, <3>1
    <3>3. r \in Standing
      <4>1. l.tos + size \in Nat
        BY <1>4
      <4> QED BY <1>4, <3>2, <4>1 DEF Standing
    <3>4. Moved(l, e, r)
      BY <1>7, <2>1, <2>4, <2>6, <3>2 DEF Moved
    <3> QED BY <1>1, <1>3, <3>3, <3>4
  <2> QED BY <2>3, <2>5, <2>6
<1> QED BY <1>2, <1>5, <1>6, <1>7

(* The counters, one emission after the other. *)
Laid(h) ==
  h = [n \in 0 .. Len(emitted) |->
        LET l == h[n - 1]
            e == emitted[n]
            a == gen.attributes[e.decl]
        IN  CASE n = 0 -> [tos |-> 0, tof |-> 8, oof |-> -4]
              [] n # 0 /\ e.op = "BEGINFUNC" -> [l EXCEPT !.tof = 8, !.oof = -4]
              [] n # 0 /\ e.op = "FORMAL" -> [l EXCEPT !.oof = @ - 4]
              [] n # 0 /\ e.op = "VAR" /\ a.scope = "LOCAL" -> [l EXCEPT !.tof = @ + get_size(a)]
              [] n # 0 /\ e.op = "VAR" /\ a.scope = "GLOBAL" -> [l EXCEPT !.tos = @ + get_size(a)]]

(* One arm of the CASE at each emission. *)
LEMMA LaidSteps ==
  ASSUME HomesInv(gen, emitted, env), NEW N \in Nat, DOMAIN emitted = 1 .. N, Len(emitted) = N, NEW h
  PROVE  Laid(h) <=> h = [n \in 0 .. N |-> IF n = 0 THEN AtStart ELSE After(h[n - 1], emitted[n])]
<1>1. ASSUME NEW n \in 0 .. N
      PROVE  (LET l == h[n - 1]
                  e == emitted[n]
                  a == gen.attributes[e.decl]
              IN  CASE n = 0 -> [tos |-> 0, tof |-> 8, oof |-> -4]
                    [] n # 0 /\ e.op = "BEGINFUNC" -> [l EXCEPT !.tof = 8, !.oof = -4]
                    [] n # 0 /\ e.op = "FORMAL" -> [l EXCEPT !.oof = @ - 4]
                    [] n # 0 /\ e.op = "VAR" /\ a.scope = "LOCAL" -> [l EXCEPT !.tof = @ + get_size(a)]
                    [] n # 0 /\ e.op = "VAR" /\ a.scope = "GLOBAL" -> [l EXCEPT !.tos = @ + get_size(a)])
             = IF n = 0 THEN AtStart ELSE After(h[n - 1], emitted[n])
  <2>1. PICK l, e, a : l = h[n - 1] /\ e = emitted[n] /\ a = gen.attributes[e.decl]
    OBVIOUS
  <2>2. n # 0 => n \in DOMAIN emitted
    OBVIOUS
  <2>3. n # 0 => e.op \in {"VAR", "FORMAL", "BEGINFUNC"}
    BY <2>1, <2>2 DEF HomesInv, HomesRight, IsEmission
  <2>4. n # 0 /\ e.op = "VAR" => a.scope \in {"GLOBAL", "LOCAL"}
    <3>1. n # 0 /\ e.op = "VAR" => n \in Events(emitted)
      BY <2>1, <2>2 DEF Events, Begins
    <3> QED BY <2>1, <3>1 DEF HomesInv, HomesRight, EventsRight
  <2>5. CASE n = 0
    BY <2>5 DEF AtStart
  <2>6. CASE n # 0 /\ e.op = "BEGINFUNC"
    BY <2>1, <2>6 DEF After
  <2>7. CASE n # 0 /\ e.op = "FORMAL"
    BY <2>1, <2>7 DEF After
  <2>8. CASE n # 0 /\ e.op = "VAR" /\ a.scope = "LOCAL"
    BY <2>1, <2>8 DEF After
  <2>9. CASE n # 0 /\ e.op = "VAR" /\ a.scope = "GLOBAL"
    BY <2>1, <2>9 DEF After
  <2> QED BY <2>3, <2>4, <2>5, <2>6, <2>7, <2>8, <2>9
<1> QED BY <1>1 DEF Laid

LEMMA CountersAre ==
  ASSUME HomesInv(gen, emitted, env), NEW N \in Nat, DOMAIN emitted = 1 .. N, Len(emitted) = N
  PROVE  /\ \A n \in 0 .. N : Counters[n] \in Standing
         /\ \A n \in 1 .. N : Moved(Counters[n - 1], emitted[n], Counters[n])
<1>1. PICK step : step = [n \in 1 .. N |-> [l \in Standing |-> After(l, emitted[n])]]
  OBVIOUS
<1>2. \A n \in 1 .. N : \A l \in Standing : /\ step[n][l] = After(l, emitted[n]) /\ step[n][l] \in Standing
                                           /\ Moved(l, emitted[n], step[n][l])
  BY <1>1, AfterIs
<1>3. AtStart \in Standing
  BY DEF AtStart, Standing
<1>4. PICK i : Chained(Standing, AtStart, step, N, i)
  BY <1>2, <1>3, ChainExists
<1>5. i \in [0 .. N -> Standing] /\ i[0] = AtStart /\ \A n \in 1 .. N : i[n] = step[n][i[n - 1]]
  BY <1>4 DEF Chained
<1>6. ASSUME NEW n \in 0 .. N
      PROVE  i[n] = IF n = 0 THEN AtStart ELSE After(i[n - 1], emitted[n])
  <2>1. CASE n = 0
    BY <1>5, <2>1
  <2>2. CASE n # 0
    <3>1. n \in 1 .. N /\ n - 1 \in 0 .. N
      BY <2>2
    <3>2. i[n - 1] \in Standing
      BY <1>5, <3>1
    <3> QED BY <1>2, <1>5, <2>2, <3>1, <3>2
  <2> QED BY <2>1, <2>2
<1>7. i = [n \in 0 .. N |-> IF n = 0 THEN AtStart ELSE After(i[n - 1], emitted[n])]
  BY <1>5, <1>6
<1>8. Laid(i)
  BY <1>7, LaidSteps
<1>9. PICK h : h = Counters
  OBVIOUS
<1>10. h = CHOOSE laid : Laid(laid)
  BY <1>9 DEF Counters, Laid
<1>11. Laid(h)
  BY <1>8, <1>10
<1>12. h = [n \in 0 .. N |-> IF n = 0 THEN AtStart ELSE After(h[n - 1], emitted[n])]
  BY <1>11, LaidSteps
<1>13. PICK G : G = {n \in 0 .. N : h[n] \in Standing}
  OBVIOUS
<1>14. \A n \in 0 .. N : n \in G
  <2>1. 0 \in G
    <3>1. 0 \in 0 .. N
      OBVIOUS
    <3>2. h[0] = AtStart
      BY <1>12, <3>1
    <3> QED BY <1>3, <1>13, <3>1, <3>2
  <2>2. ASSUME NEW n \in 1 .. N, n - 1 \in G
        PROVE  n \in G
    <3>1. n \in 0 .. N /\ n # 0 /\ h[n - 1] \in Standing
      BY <1>13, <2>2
    <3>2. h[n] = After(h[n - 1], emitted[n])
      BY <1>12, <3>1
    <3>3. h[n] \in Standing
      BY <3>1, <3>2, AfterIs
    <3> QED BY <1>13, <3>1, <3>3
  <2> QED BY <2>1, <2>2, Upwards
<1>15. \A n \in 0 .. N : h[n] \in Standing
  BY <1>13, <1>14
<1>16. ASSUME NEW n \in 1 .. N
       PROVE  Moved(h[n - 1], emitted[n], h[n])
  <2>1. n \in 0 .. N /\ n # 0 /\ n - 1 \in 0 .. N
    OBVIOUS
  <2>2. h[n] = After(h[n - 1], emitted[n]) /\ h[n - 1] \in Standing
    BY <1>12, <1>15, <2>1
  <2> QED BY <2>2, AfterIs
<1> QED BY <1>9, <1>15, <1>16

(* The counters go one way: the statics' up, and within a function the     *)
(* frame's up and the parameters' down.                                    *)
LEMMA CountersGo ==
  ASSUME HomesInv(gen, emitted, env), NEW N \in Nat, DOMAIN emitted = 1 .. N, Len(emitted) = N,
         NEW m \in 0 .. N, NEW n \in 0 .. N, m <= n
  PROVE  /\ Counters[m].tos <= Counters[n].tos
         /\ (\A b \in Begins(emitted) : b <= m \/ b > n) =>
              Counters[m].tof <= Counters[n].tof /\ Counters[n].oof <= Counters[m].oof
<1>1. PICK h : h = Counters
  OBVIOUS
<1>2. /\ \A k \in 0 .. N : h[k].tos \in Nat /\ h[k].tof \in Nat /\ h[k].oof \in Int
      /\ \A k \in 1 .. N : Moved(h[k - 1], emitted[k], h[k])
  <2>1. /\ \A k \in 0 .. N : h[k] \in Standing
        /\ \A k \in 1 .. N : Moved(h[k - 1], emitted[k], h[k])
    BY <1>1, CountersAre
  <2>2. \A l \in Standing : l.tos \in Nat /\ l.tof \in Nat /\ l.oof \in Int
    BY DEF Standing
  <2> QED BY <2>1, <2>2
<1>3. PICK G : G = {k \in 0 .. N : k >= m =>
                      /\ h[m].tos <= h[k].tos
                      /\ (\A b \in Begins(emitted) : b <= m \/ b > k) =>
                           h[m].tof <= h[k].tof /\ h[k].oof <= h[m].oof}
  OBVIOUS
<1>4. m \in G
  BY <1>2, <1>3
<1>5. 0 \in G
  <2>1. CASE m = 0
    BY <1>4, <2>1
  <2>2. CASE m # 0
    <3>1. ~(0 >= m) /\ 0 \in 0 .. N
      BY <2>2
    <3> QED BY <1>3, <3>1
  <2> QED BY <2>1, <2>2
<1>6. ASSUME NEW k \in 1 .. N, k - 1 \in G
      PROVE  k \in G
  <2>1. CASE k < m
    <3>1. ~(k >= m) /\ k \in 0 .. N
      BY <2>1
    <3> QED BY <1>3, <3>1
  <2>2. CASE k = m
    BY <1>4, <2>2
  <2>3. CASE k > m
    <3>1. k - 1 \in 0 .. N /\ k - 1 >= m /\ k \in 0 .. N
      BY <2>3
    <3>2. /\ h[m].tos <= h[k - 1].tos
          /\ (\A b \in Begins(emitted) : b <= m \/ b > k - 1) =>
               h[m].tof <= h[k - 1].tof /\ h[k - 1].oof <= h[m].oof
      BY <1>3, <1>6, <3>1
    <3>3. Moved(h[k - 1], emitted[k], h[k])
      BY <1>2
    <3>4. PICK p, q, r : p = h[m] /\ q = h[k - 1] /\ r = h[k]
      OBVIOUS
    <3>5. /\ p.tos \in Nat /\ p.tof \in Nat /\ p.oof \in Int
          /\ q.tos \in Nat /\ q.tof \in Nat /\ q.oof \in Int
          /\ r.tos \in Nat /\ r.tof \in Nat /\ r.oof \in Int
      BY <1>2, <3>1, <3>4
    <3>6. Moved(q, emitted[k], r)
      BY <3>3, <3>4
    <3>7. q.tos <= r.tos /\ (emitted[k].op # "BEGINFUNC" => q.tof <= r.tof /\ r.oof <= q.oof)
      BY ONLY <3>5, <3>6 DEF Moved
    <3>8. p.tos <= r.tos
      BY ONLY <3>2, <3>4, <3>5, <3>7
    <3>9. ASSUME \A b \in Begins(emitted) : b <= m \/ b > k
          PROVE  p.tof <= r.tof /\ r.oof <= p.oof
      <4>1. \A b \in Begins(emitted) : b \in Nat
        BY DEF Begins
      <4>2. k \notin Begins(emitted)
        BY <2>3, <3>9
      <4>3. emitted[k].op # "BEGINFUNC"
        BY <4>2 DEF Begins
      <4>4. \A b \in Begins(emitted) : b <= m \/ b > k - 1
        BY <3>9, <4>1
      <4>5. p.tof <= q.tof /\ q.oof <= p.oof
        BY <3>2, <3>4, <4>4
      <4> QED BY ONLY <3>5, <3>7, <4>3, <4>5
    <3> QED BY <1>3, <3>1, <3>4, <3>8, <3>9
  <2> QED BY <2>1, <2>2, <2>3
<1>7. \A k \in 0 .. N : k \in G
  BY <1>5, <1>6, Upwards
<1>8. n \in G /\ n >= m
  BY <1>7
<1> QED BY <1>1, <1>3, <1>8

(* Where each home is. *)
LEMMA HomesAre ==
  ASSUME HomesInv(gen, emitted, env), NEW homes, homes = Homes
  PROVE  /\ DOMAIN homes = Events(emitted)
         /\ \A n \in Events(emitted) :
              /\ homes[n].decl = emitted[n].decl
              /\ emitted[n].op = "FORMAL" => homes[n].region = "LOCAL" /\ homes[n].at = Counters[n - 1].oof
              /\ emitted[n].op = "VAR" /\ gen.attributes[emitted[n].decl].scope = "LOCAL" =>
                   homes[n].region = "LOCAL" /\ homes[n].at = Counters[n - 1].tof
              /\ emitted[n].op = "VAR" /\ gen.attributes[emitted[n].decl].scope = "GLOBAL" =>
                   homes[n].region = "GLOBAL" /\ homes[n].at = Counters[n - 1].tos
<1>1. PICK before : before = Counters
  OBVIOUS
<1>2. homes = [n \in {n \in DOMAIN emitted : emitted[n].op # "BEGINFUNC"} |->
                 LET l == before[n - 1]
                     e == emitted[n]
                 IN  CASE e.op = "FORMAL" -> [decl |-> e.decl, region |-> "LOCAL", at |-> l.oof]
                       [] e.op = "VAR" /\ gen.attributes[e.decl].scope = "LOCAL" ->
                            [decl |-> e.decl, region |-> "LOCAL", at |-> l.tof]
                       [] e.op = "VAR" /\ gen.attributes[e.decl].scope = "GLOBAL" ->
                            [decl |-> e.decl, region |-> "GLOBAL", at |-> l.tos]]
  BY <1>1 DEF Homes
<1>3. Events(emitted) = {n \in DOMAIN emitted : emitted[n].op # "BEGINFUNC"}
  BY DEF Events, Begins
<1>4. DOMAIN homes = Events(emitted)
  BY <1>2, <1>3
<1>5. ASSUME NEW n \in Events(emitted)
      PROVE  /\ homes[n].decl = emitted[n].decl
             /\ emitted[n].op = "FORMAL" => homes[n].region = "LOCAL" /\ homes[n].at = Counters[n - 1].oof
             /\ emitted[n].op = "VAR" /\ gen.attributes[emitted[n].decl].scope = "LOCAL" =>
                  homes[n].region = "LOCAL" /\ homes[n].at = Counters[n - 1].tof
             /\ emitted[n].op = "VAR" /\ gen.attributes[emitted[n].decl].scope = "GLOBAL" =>
                  homes[n].region = "GLOBAL" /\ homes[n].at = Counters[n - 1].tos
  <2>1. PICK l, e, a : l = before[n - 1] /\ e = emitted[n] /\ a = gen.attributes[e.decl]
    OBVIOUS
  <2>2. homes[n] = CASE e.op = "FORMAL" -> [decl |-> e.decl, region |-> "LOCAL", at |-> l.oof]
                     [] e.op = "VAR" /\ a.scope = "LOCAL" -> [decl |-> e.decl, region |-> "LOCAL", at |-> l.tof]
                     [] e.op = "VAR" /\ a.scope = "GLOBAL" -> [decl |-> e.decl, region |-> "GLOBAL", at |-> l.tos]
    BY <1>2, <1>3, <2>1
  <2>3. e.op \in {"VAR", "FORMAL"}
    BY <1>3, <2>1 DEF HomesInv, HomesRight, IsEmission
  <2>4. a.scope \in {"GLOBAL", "LOCAL"}
    BY <2>1 DEF HomesInv, HomesRight, EventsRight
  <2>5. CASE e.op = "FORMAL"
    BY <1>1, <2>1, <2>2, <2>5
  <2>6. CASE e.op = "VAR" /\ a.scope = "LOCAL"
    BY <1>1, <2>1, <2>2, <2>6
  <2>7. CASE e.op = "VAR" /\ a.scope = "GLOBAL"
    BY <1>1, <2>1, <2>2, <2>7
  <2> QED BY <2>3, <2>4, <2>5, <2>6, <2>7
<1> QED BY <1>4, <1>5

(* A variable in scope has one home, and that is its own kind of home. *)
LEMMA HomeIsOne ==
  ASSUME HomesInv(gen, emitted, env), NEW d \in Declared
  PROVE  /\ \E n \in Events(emitted) : emitted[n].decl = d.decl
         /\ \A n \in Events(emitted) : emitted[n].decl = d.decl => HomeAt(gen, emitted, Len(env) > 1, d, n)
         /\ \A k, n \in Events(emitted) : emitted[k].decl = d.decl /\ emitted[n].decl = d.decl => k = n
<1>0. PICK k \in DOMAIN env : d \in Range(env[k])
  BY DEF Declared
<1>1. PICK x \in DOMAIN env[k] : d = env[k][x]
  BY <1>0 DEF Range
<1>2. PICK n \in DOMAIN emitted : HomeAt(gen, emitted, Len(env) > 1, d, n)
  BY <1>1 DEF HomesInv, HomesRight, Homed
<1>3. n \in Events(emitted) /\ emitted[n].decl = d.decl
  BY <1>2 DEF HomeAt
<1>4. \A i, j \in Events(emitted) : emitted[i].decl = d.decl /\ emitted[j].decl = d.decl => i = j
  BY DEF HomesInv, HomesRight, EventsRight
<1> QED BY <1>2, <1>3, <1>4

(* Of two homes, the later one lies beyond the earlier. *)
LEMMA LaterBeyond ==
  ASSUME HomesInv(gen, emitted, env), NEW homes, homes = Homes,
         NEW c, NEW d, NEW m \in Events(emitted), NEW n \in Events(emitted), m < n,
         HomeAt(gen, emitted, Len(env) > 1, c, m), HomeAt(gen, emitted, Len(env) > 1, d, n)
  PROVE  \/ homes[m].region # homes[n].region
         \/ homes[m].at + SizeOf(c.type) <= homes[n].at
         \/ homes[n].at + SizeOf(d.type) <= homes[m].at
<1>1. PICK N : N = Len(emitted) /\ N \in Nat /\ DOMAIN emitted = 1 .. N
  BY EmissionShape DEF HomesInv, HomesRight
<1>2. /\ m \in 1 .. N /\ n \in 1 .. N /\ m \in 0 .. N /\ n - 1 \in 0 .. N /\ m - 1 \in 0 .. N /\ m <= n - 1
      /\ m \in Nat /\ n \in Nat
  BY <1>1 DEF Events
<1>3. PICK h : h = Counters
  OBVIOUS
<1>4. PICK p, q, r : p = h[m - 1] /\ q = h[m] /\ r = h[n - 1]
  OBVIOUS
<1>5. p \in Standing /\ q \in Standing /\ r \in Standing /\ Moved(p, emitted[m], q)
  BY <1>1, <1>2, <1>3, <1>4, CountersAre
<1>6. /\ p.tos \in Nat /\ p.tof \in Nat /\ p.tof >= 8 /\ p.oof \in Int /\ p.oof <= -4
      /\ q.tos \in Nat /\ q.tof \in Nat /\ q.oof \in Int
      /\ r.tos \in Nat /\ r.tof \in Nat /\ r.tof >= 8 /\ r.oof \in Int /\ r.oof <= -4
  BY <1>5 DEF Standing
<1>7. /\ q.tos <= r.tos
      /\ (\A b \in Begins(emitted) : b < m) => q.tof <= r.tof /\ r.oof <= q.oof
  <2>1. (\A b \in Begins(emitted) : b < m) => \A b \in Begins(emitted) : b <= m \/ b > n - 1
    <3>1. \A b \in Begins(emitted) : b \in Nat
      BY <1>1 DEF Begins
    <3> QED BY <1>2, <3>1
  <2> QED BY <1>1, <1>2, <1>3, <1>4, <2>1, CountersGo
<1>8. PICK a, b : a = gen.attributes[c.decl] /\ b = gen.attributes[d.decl]
  OBVIOUS
<1>9. /\ emitted[m].decl = c.decl /\ emitted[n].decl = d.decl
      /\ emitted[m].op \in {"VAR", "FORMAL"} /\ emitted[n].op \in {"VAR", "FORMAL"}
      /\ a.scope \in {"GLOBAL", "LOCAL"} /\ b.scope \in {"GLOBAL", "LOCAL"}
  <2>1. emitted[m].decl = c.decl /\ emitted[n].decl = d.decl
    BY DEF HomeAt
  <2>2. emitted[m].op \in {"VAR", "FORMAL"} /\ emitted[n].op \in {"VAR", "FORMAL"}
    BY DEF HomesInv, HomesRight, IsEmission, Events, Begins
  <2>3. a.scope \in {"GLOBAL", "LOCAL"} /\ b.scope \in {"GLOBAL", "LOCAL"}
    BY <1>8, <2>1 DEF HomesInv, HomesRight, EventsRight
  <2> QED BY <2>1, <2>2, <2>3
<1>10. \A e : \A k \in Events(emitted) :
         HomeAt(gen, emitted, Len(env) > 1, e, k) /\ emitted[k].op = "VAR" =>
           get_size(gen.attributes[e.decl]) = SizeOf(e.type) /\ SizeOf(e.type) \in Nat
  <2>1. TAKE e
  <2>2. TAKE k \in Events(emitted)
  <2>3. HAVE HomeAt(gen, emitted, Len(env) > 1, e, k) /\ emitted[k].op = "VAR"
  <2>4. e.type \in GlobalTypes \cup LocalTypes /\ DeclaredAs(gen.attributes[e.decl], e.type)
    BY <2>3 DEF HomeAt
  <2>5. IsType(e.type, Len(StructDefs)) /\ gen.struct_types = struct_types
    BY <2>4, FrontEndAssumption DEF HomesInv, NamesInv, TypeInv
  <2>6. PICK t, v : t = e.type /\ v = gen.attributes[e.decl]
    OBVIOUS
  <2>7. get_size(v) \in Nat /\ get_size(v) = SizeOf(t)
    BY <2>4, <2>5, <2>6, SizeKept
  <2> QED BY <2>6, <2>7
<1>11. \A e : \A k \in Events(emitted) :
         HomeAt(gen, emitted, Len(env) > 1, e, k) =>
           \/ emitted[k].op = "VAR" /\ gen.attributes[e.decl].scope = "GLOBAL"
           \/ \A i \in Begins(emitted) : i < k
  BY DEF HomeAt
<1>12. PICK x, y : x = SizeOf(c.type) /\ y = SizeOf(d.type)
  OBVIOUS
<1>13. emitted[m].op = "FORMAL" => x = 4
  BY <1>12 DEF HomeAt
<1>14. emitted[n].op = "FORMAL" => y = 4
  BY <1>12 DEF HomeAt
<1>15. emitted[m].op = "VAR" => get_size(a) = x /\ x \in Nat
  BY <1>8, <1>10, <1>12
<1>16. PICK at, beyond : at = homes[m].at /\ beyond = homes[n].at
  OBVIOUS
<1>17. /\ emitted[m].op = "FORMAL" => homes[m].region = "LOCAL" /\ at = p.oof
       /\ emitted[m].op = "VAR" /\ a.scope = "LOCAL" => homes[m].region = "LOCAL" /\ at = p.tof
       /\ emitted[m].op = "VAR" /\ a.scope = "GLOBAL" => homes[m].region = "GLOBAL" /\ at = p.tos
       /\ emitted[n].op = "FORMAL" => homes[n].region = "LOCAL" /\ beyond = r.oof
       /\ emitted[n].op = "VAR" /\ b.scope = "LOCAL" => homes[n].region = "LOCAL" /\ beyond = r.tof
       /\ emitted[n].op = "VAR" /\ b.scope = "GLOBAL" => homes[n].region = "GLOBAL" /\ beyond = r.tos
  BY <1>3, <1>4, <1>8, <1>9, <1>16, HomesAre
<1>18. SUFFICES ASSUME homes[m].region = homes[n].region
                PROVE  at + x <= beyond \/ beyond + y <= at
  BY <1>12, <1>16
<1>19. CASE emitted[m].op = "VAR" /\ a.scope = "GLOBAL"
  <2>1. at = p.tos /\ beyond = r.tos
    BY <1>9, <1>17, <1>18, <1>19
  <2>2. q.tos = p.tos + x /\ x \in Nat
    BY <1>5, <1>8, <1>9, <1>15, <1>19 DEF Moved
  <2> QED BY ONLY <1>6, <1>7, <2>1, <2>2
<1>20. CASE ~(emitted[m].op = "VAR" /\ a.scope = "GLOBAL")
  <2>1. homes[n].region = "LOCAL"
    BY <1>9, <1>17, <1>18, <1>20
  <2>2. q.tof <= r.tof /\ r.oof <= q.oof
    BY <1>7, <1>8, <1>11, <1>20
  <2>3. CASE emitted[m].op = "FORMAL"
    <3>1. at = p.oof /\ x = 4 /\ q.oof = p.oof - 4
      BY <1>5, <1>13, <1>17, <2>3 DEF Moved
    <3>2. CASE emitted[n].op = "FORMAL"
      <4>1. beyond = r.oof /\ y = 4
        BY <1>14, <1>17, <3>2
      <4> QED BY ONLY <1>6, <2>2, <3>1, <4>1
    <3>3. CASE emitted[n].op = "VAR"
      <4>1. beyond = r.tof
        BY <1>9, <1>17, <2>1, <3>3
      <4> QED BY ONLY <1>6, <3>1, <4>1
    <3> QED BY <1>9, <3>2, <3>3
  <2>4. CASE emitted[m].op = "VAR"
    <3>1. at = p.tof /\ q.tof = p.tof + x /\ x \in Nat
      BY <1>5, <1>8, <1>9, <1>15, <1>17, <1>20, <2>4 DEF Moved
    <3>2. CASE emitted[n].op = "FORMAL"
      <4>1. beyond = r.oof /\ y = 4
        BY <1>14, <1>17, <3>2
      <4> QED BY ONLY <1>6, <3>1, <4>1
    <3>3. CASE emitted[n].op = "VAR"
      <4>1. beyond = r.tof
        BY <1>9, <1>17, <2>1, <3>3
      <4> QED BY ONLY <1>6, <2>2, <3>1, <4>1
    <3> QED BY <1>9, <3>2, <3>3
  <2> QED BY <1>9, <2>3, <2>4
<1> QED BY <1>19, <1>20

LEMMA HomesInvImplies ==
  ASSUME HomesInv(gen, emitted, env)
  PROVE  HomesApart
<1>1. PICK homes : homes = Homes
  OBVIOUS
<1>2. DOMAIN homes = Events(emitted) /\ \A n \in Events(emitted) : homes[n].decl = emitted[n].decl
  BY <1>1, HomesAre
<1>3. PICK N : N \in Nat /\ DOMAIN emitted = 1 .. N
  BY EmissionShape DEF HomesInv, HomesRight
<1>4. \A n \in Events(emitted) : n \in Nat
  BY <1>3 DEF Events
<1>5. ASSUME NEW d \in Declared
      PROVE  Cardinality({n \in DOMAIN homes : homes[n].decl = d.decl}) = 1
  <2>1. PICK n \in Events(emitted) : emitted[n].decl = d.decl
    BY HomeIsOne
  <2>2. \A k \in Events(emitted) : emitted[k].decl = d.decl => k = n
    BY <2>1, HomeIsOne
  <2>3. {k \in DOMAIN homes : homes[k].decl = d.decl} = {n}
    BY <1>2, <2>1, <2>2
  <2>4. Cardinality({n}) = 1
    BY FS_Singleton
  <2> QED BY <2>3, <2>4
<1>6. ASSUME NEW c \in Declared, NEW d \in Declared, c # d,
             NEW m \in DOMAIN homes, NEW n \in DOMAIN homes, homes[m].decl = c.decl, homes[n].decl = d.decl
      PROVE  \/ homes[m].region # homes[n].region
             \/ homes[m].at + SizeOf(c.type) <= homes[n].at
             \/ homes[n].at + SizeOf(d.type) <= homes[m].at
  <2>1. c.decl # d.decl
    <3>1. PICK k, l \in DOMAIN env : c \in Range(env[k]) /\ d \in Range(env[l])
      BY DEF Declared
    <3>2. PICK x \in DOMAIN env[k] : c = env[k][x]
      BY <3>1 DEF Range
    <3>3. PICK y \in DOMAIN env[l] : d = env[l][y]
      BY <3>1 DEF Range
    <3> QED BY <1>6, <3>2, <3>3 DEF HomesInv, HomesRight, OneMeaning
  <2>2. m \in Events(emitted) /\ n \in Events(emitted) /\ emitted[m].decl = c.decl /\ emitted[n].decl = d.decl
    BY <1>2, <1>6
  <2>3. HomeAt(gen, emitted, Len(env) > 1, c, m) /\ HomeAt(gen, emitted, Len(env) > 1, d, n)
    BY <2>2, HomeIsOne
  <2>4. m # n
    BY <2>1, <2>2
  <2>5. m < n \/ n < m
    BY <1>4, <2>2, <2>4
  <2>6. CASE m < n
    BY <1>1, <2>2, <2>3, <2>6, LaterBeyond
  <2>7. CASE n < m
    BY <1>1, <2>2, <2>3, <2>7, LaterBeyond
  <2> QED BY <2>5, <2>6, <2>7
<1> QED BY <1>1, <1>5, <1>6 DEF HomesApart

(* Where no name is declared again: the compiler gives every variable one  *)
(* home, as long as the language says, and no two variables that are in    *)
(* scope together share a byte: whatever the structs and the dimensions,   *)
(* the sizes of calculate_size and get_size are those of the types, and    *)
(* the counters of VAR, FORMAL and BEGINFUNC never come back (asm_code,    *)
(* declare_var, declare_para, do_func).                                    *)
THEOREM HomesSeparate ==
  ASSUME "redeclared" \notin Admit, "literal" \notin Admit
  PROVE  Spec => []HomesApart
<1>1. Init => HomesInv(gen, emitted, env)
  <2>1. SUFFICES ASSUME Init
                 PROVE  HomesInv(gen, emitted, env)
    OBVIOUS
  <2>2. TypeInv(gen, env)
    BY <2>1, InitTyped
  <2>3. DOMAIN gen.sym_tab_global = {} /\ \A k \in DOMAIN env : DOMAIN env[k] = {}
    BY <2>1 DEF Init, Empty
  <2>4. HomesRight(gen, emitted, env)
    BY <2>1, InitHomes
  <2> QED BY <2>2, <2>3, <2>4 DEF HomesInv, NamesInv, Bound
<1>2. HomesInv(gen, emitted, env) /\ [Next]_vars => HomesInv(gen, emitted, env)'
  BY StepHomes
<1>3. HomesInv(gen, emitted, env) => HomesApart
  BY HomesInvImplies
<1> QED BY <1>1, <1>2, <1>3, PTL DEF Spec
-----------------------------------------------------------------------------
(* What is read. A variable's symbol, and what is remembered of an array   *)
(* by its name, are of the declaration the name stands for.                *)
CarriedBy(g, x, d) ==
  /\ d.decl \in DOMAIN g.attributes
  /\ RecordedAs(g.attributes[d.decl], d.type)
  /\ IsArray(d.type) => /\ Id(x) \in DOMAIN g.array_metadata_map
                        /\ g.array_metadata_map[Id(x)] = create_array_metadata(struct_types, d.type)

Carries(g, e) == \A k \in DOMAIN e : \A x \in DOMAIN e[k] : CarriedBy(g, x, e[k][x])

LEMMA IdIsName ==
  ASSUME NEW x, NEW y, Id(x) = Id(y)
  PROVE  x = y
<1>1. PICK p, q : p = Step("id", x, Zero) /\ q = Step("id", y, Zero)
  OBVIOUS
<1>2. p.name = x /\ q.name = y
  BY <1>1 DEF Step
<1>3. <<p>> = <<q>>
  BY <1>1 DEF Id
<1>4. p = q
  BY ONLY <1>3
<1> QED BY <1>2, <1>4

LEMMA DeclareVarCarries ==
  ASSUME NamesInv(gen, env), Carries(gen, env),
         NEW x \in Names, NEW t \in GlobalTypes \cup LocalTypes, DeclareVar(x, t),
         "redeclared" \notin Admit, "literal" \notin Admit
  PROVE  Carries(gen', env')
<1>1. PICK U : U = Unused
  OBVIOUS
<1>2. TypeInv(gen, env) /\ Bound(gen, env)
  BY DEF NamesInv
<1>3. DeclaredNew(x, t, U)
  BY <1>1, <1>2, DeclareVarNew
<1>4. PICK c : c = Meaning(t, U, Len(env))
  OBVIOUS
<1>5. c.decl = U /\ c.type = t /\ c.scope = Len(env)
  BY <1>4 DEF Meaning
<1>6. IsEnv(env) /\ Len(env) \in Nat /\ Len(env) # 0
  BY <1>2, EnvShape DEF TypeInv
<1>7. U \in Nat /\ U # 0 /\ U \notin DOMAIN gen.attributes
  <2>1. U \in Nat /\ U # 0 /\ \A d \in DOMAIN gen.attributes : d \in Nat /\ d < U
    BY <1>1, <1>2, UnusedIsNew DEF TypeInv, Numbered
  <2> QED BY <2>1
<1>8. Meant(c)
  <2>1. t \in Types
    BY DEF Types
  <2> QED BY <1>5, <1>6, <1>7, <2>1 DEF Meant
<1>9. /\ DOMAIN env' = DOMAIN env
      /\ \A k \in DOMAIN env : k # Len(env) => env'[k] = env[k]
      /\ env'[Len(env)] = Extended(env[Len(env)], x, c)
  BY <1>3, <1>4, <1>6, <1>8, EnvGrows DEF DeclaredNew
<1>10. \A k \in DOMAIN env : x \notin DOMAIN env[k]
  <2>1. x \notin DOMAIN gen.sym_tab_global /\ x \notin DOMAIN gen.sym_tab_local
    BY <1>2, FreshIsNew DEF DeclareVar
  <2> QED BY <1>2, <2>1 DEF Bound
<1>11. IsType(t, Len(StructDefs)) /\ Shape(gen) /\ gen.struct_types = struct_types
  BY <1>2, FrontEndAssumption DEF TypeInv
<1>12. PICK h : MadeFor(x, t, U, h)
  BY <1>3 DEF DeclaredNew
<1>13. RecordedAs(gen'.attributes[U], t)
  BY <1>11, <1>12, VarAttribute
<1>14. PICK m, map : m = create_array_metadata(struct_types, t) /\ map = gen.array_metadata_map
  OBVIOUS
<1>15. gen'.array_metadata_map = IF IsArray(t) THEN Extended(map, Id(x), m) ELSE map
  <2>1. PICK data : data = IF IsArray(t) THEN "INT" ELSE Data(t)
    OBVIOUS
  <2>2. h = mk_var(gen, x, data, U) /\ Shape(h) /\ MadeAndFilled(gen, x, t, U, h, gen')
    BY <1>12, <2>1 DEF MadeFor, MadeAndFilled
  <2>3. h.array_metadata_map = map
    BY <1>11, <1>14, <2>2, MkVarKnown, MkVarNew
  <2>4. FilledIn(gen, x, t, h, gen')
    BY <1>11, <2>2, VarDeclIs
  <2> QED BY <1>11, <1>14, <2>3, <2>4 DEF FilledIn
<1>16. /\ U \in DOMAIN gen'.attributes
       /\ \A d \in DOMAIN gen.attributes : d \in DOMAIN gen'.attributes /\ gen'.attributes[d] = gen.attributes[d]
  BY <1>3 DEF DeclaredNew
<1>17. CarriedBy(gen', x, c)
  <2>1. IsArray(t) => Id(x) \in DOMAIN gen'.array_metadata_map /\ gen'.array_metadata_map[Id(x)] = m
    BY <1>15 DEF Extended
  <2> QED BY <1>5, <1>13, <1>14, <1>16, <2>1 DEF CarriedBy
<1>18. ASSUME NEW k \in DOMAIN env, NEW y \in DOMAIN env[k]
       PROVE  CarriedBy(gen', y, env[k][y])
  <2>1. PICK d : d = env[k][y]
    OBVIOUS
  <2>2. CarriedBy(gen, y, d)
    BY <2>1 DEF Carries
  <2>3. Id(y) # Id(x)
    BY <1>10, IdIsName
  <2>4. Id(y) \in DOMAIN map =>
          Id(y) \in DOMAIN gen'.array_metadata_map /\ gen'.array_metadata_map[Id(y)] = map[Id(y)]
    BY <1>15, <2>3 DEF Extended
  <2>5. CarriedBy(gen', y, d)
    BY <1>14, <1>16, <2>2, <2>4 DEF CarriedBy
  <2> QED BY <2>1, <2>5
<1>19. ASSUME NEW k \in DOMAIN env', NEW y \in DOMAIN env'[k]
       PROVE  CarriedBy(gen', y, env'[k][y])
  <2>1. CASE k = Len(env) /\ y = x
    BY <1>9, <1>17, <2>1 DEF Extended
  <2>2. CASE ~(k = Len(env) /\ y = x)
    <3>1. k \in DOMAIN env /\ y \in DOMAIN env[k] /\ env'[k][y] = env[k][y]
      BY <1>9, <2>2 DEF Extended
    <3> QED BY <1>18, <3>1
  <2> QED BY <2>1, <2>2
<1> QED BY <1>19 DEF Carries

LEMMA BeginFuncCarries ==
  ASSUME NamesInv(gen, env), Carries(gen, env), NEW params \in ParamLists, BeginFunc(params),
         "redeclared" \notin Admit, "literal" \notin Admit
  PROVE  Carries(gen', env')
<1>1. TypeInv(gen, env)
  BY DEF NamesInv
<1>2. PICK n, fn, U, h, v : BegunNew(params, n, fn, U, h, v)
  BY <1>1, BeginFuncNew
<1>3. PICK first : first = Started(fn)
  OBVIOUS
<1>4. first.attributes = gen.attributes /\ first.array_metadata_map = gen.array_metadata_map
  BY <1>1, <1>3, StartedIs
<1>5. /\ n \in Nat /\ U \in Nat /\ gen' = h[n]
      /\ \A k \in 1 .. n : params[k].type \in ParamTypes
  BY <1>2 DEF BegunNew, Begun
<1>6. ParasRight(first, gen') /\ ParasBound(first, params, U, n, gen')
  <2>1. n \in 0 .. n
    BY <1>5
  <2> QED BY <1>2, <1>3, <1>5, <2>1 DEF BegunNew
<1>7. /\ gen'.array_metadata_map = gen.array_metadata_map
      /\ \A d \in DOMAIN gen.attributes : d \in DOMAIN gen'.attributes /\ gen'.attributes[d] = gen.attributes[d]
      /\ \A j \in 1 .. n : /\ U + j - 1 \in DOMAIN gen'.attributes
                           /\ Unfilled(gen'.attributes[U + j - 1], params[j].type)
  BY <1>4, <1>6 DEF ParasRight, ParasBound
<1>8. ScopeOfParas(params, n, U, v)
  BY <1>2 DEF BegunNew
<1>9. IsEnv(env) /\ Len(env) \in Nat /\ Len(env) # 0 /\ DOMAIN env = 1 .. Len(env) /\ 1 \in DOMAIN env
  BY <1>1, EnvShape DEF TypeInv
<1>10. ASSUME NEW k \in DOMAIN env, NEW y \in DOMAIN env[k]
       PROVE  CarriedBy(gen', y, env[k][y])
  BY <1>7 DEF Carries, CarriedBy
<1>11. ASSUME NEW j \in 1 .. n
       PROVE  CarriedBy(gen', params[j].name, v[params[j].name])
  <2>1. PICK t, u : t = params[j].type /\ u = Adjusted(t)
    OBVIOUS
  <2>2. PICK d : d = v[params[j].name]
    OBVIOUS
  <2>3. d.decl = U + j - 1 /\ d.type = u
    <3>1. d = Meaning(u, U + j - 1, 2)
      BY <1>8, <2>1, <2>2 DEF ScopeOfParas
    <3> QED BY <3>1 DEF Meaning
  <2>4. PICK a : a = gen'.attributes[U + j - 1]
    OBVIOUS
  <2>5. Unfilled(a, t)
    BY <1>7, <2>1, <2>4
  <2>6. IsType(t, Len(StructDefs)) /\ (IsStruct(t) => IsArray(t))
    BY <1>5, <2>1, FrontEndAssumption
  <2>7. ~IsArray(u) /\ ~IsStruct(u) /\ Data(u) = IF IsArray(t) THEN "INT" ELSE Data(t)
    <3>1. CASE IsArray(t)
      <4>1. u.base = "PTR" /\ u.dims = <<>>
        BY <2>1, <3>1 DEF Adjusted, PointerTo, Type
      <4>2. "PTR" \notin StructNames
        BY StructsAre DEF StructNames
      <4> QED BY <3>1, <4>1, <4>2 DEF IsArray, IsStruct, Data, IsPointer
    <3>2. CASE ~IsArray(t)
      BY <2>1, <2>6, <3>2 DEF Adjusted
    <3> QED BY <3>1, <3>2
  <2>8. RecordedAs(a, u)
    <3>1. IsPointer(u) => IsArray(t) \/ IsPointer(t)
      BY <2>1 DEF Adjusted
    <3>2. IsArray(t) => IsPointer(u)
      BY <2>1 DEF Adjusted, PointerTo, Type, IsPointer
    <3>3. IsPointer(t) => IsPointer(u)
      BY <2>1, <3>2 DEF Adjusted
    <3> QED BY <2>5, <2>7, <3>1, <3>2, <3>3 DEF RecordedAs, DeclaredAs, Unfilled
  <2>9. CarriedBy(gen', params[j].name, d)
    BY <1>7, <2>3, <2>4, <2>7, <2>8 DEF CarriedBy
  <2> QED BY <2>2, <2>9
<1>12. ASSUME NEW y \in DOMAIN v
       PROVE  CarriedBy(gen', y, v[y])
  <2>1. CASE \E j \in 1 .. n : y = params[j].name
    BY <1>11, <2>1
  <2>2. CASE \A j \in 1 .. n : y # params[j].name
    <3>1. y \in DOMAIN env[1] /\ v[y] = env[1][y]
      BY <1>8, <2>2 DEF ScopeOfParas
    <3> QED BY <1>9, <1>10, <3>1
  <2> QED BY <2>1, <2>2
<1>13. IsEnv(env') /\ DOMAIN env' = 1 .. (Len(env) + 1) /\ (\A k \in DOMAIN env : env'[k] = env[k]) /\ env'[Len(env) + 1] = v
  <2>1. DOMAIN v \subseteq Names
    <3>1. \A y \in DOMAIN env[1] : y \in Names
      BY <1>9 DEF IsEnv
    <3>2. \A j \in 1 .. n : params[j].name \in Names
      BY <1>2 DEF BegunNew, Begun
    <3> QED BY <1>8, <3>1, <3>2 DEF ScopeOfParas
  <2>2. \A y \in DOMAIN v : Meant(v[y])
    <3>1. ASSUME NEW j \in 1 .. n
          PROVE  Meant(v[params[j].name])
      <4>1. PICK d : d = v[params[j].name]
        OBVIOUS
      <4>2. d.decl = U + j - 1 /\ d.type = Adjusted(params[j].type) /\ d.scope = 2
        <5>1. d = Meaning(Adjusted(params[j].type), U + j - 1, 2)
          BY <1>8, <4>1 DEF ScopeOfParas
        <5> QED BY <5>1 DEF Meaning
      <4>3. U # 0
        BY <1>2 DEF BegunNew
      <4>4. U + j - 1 \in Nat /\ U + j - 1 # 0
        BY <1>5, <4>3
      <4>5. Adjusted(params[j].type) \in Types
        BY <1>5 DEF Types
      <4>6. Meant(d)
        BY <4>2, <4>4, <4>5 DEF Meant
      <4> QED BY <4>1, <4>6
    <3>2. \A y \in DOMAIN env[1] : Meant(env[1][y])
      BY <1>9 DEF IsEnv, Meant
    <3> QED BY <1>8, <3>1, <3>2 DEF ScopeOfParas
  <2> QED BY <1>8, <1>9, <2>1, <2>2, EnvOpens DEF ScopeOfParas
<1>14. ASSUME NEW k \in DOMAIN env', NEW y \in DOMAIN env'[k]
       PROVE  CarriedBy(gen', y, env'[k][y])
  <2>1. CASE k = Len(env) + 1
    BY <1>12, <1>13, <2>1
  <2>2. CASE k # Len(env) + 1
    <3>1. k \in DOMAIN env
      BY <1>9, <1>13, <2>2
    <3> QED BY <1>10, <1>13, <3>1
  <2> QED BY <2>1, <2>2
<1> QED BY <1>14 DEF Carries

LEMMA OpenBlockCarries ==
  ASSUME TypeInv(gen, env), Carries(gen, env), OpenBlock
  PROVE  Carries(gen', env')
<1>1. IsEnv(env) /\ Len(env) \in Nat /\ Len(env) # 0 /\ DOMAIN env = 1 .. Len(env) /\ Len(env) \in DOMAIN env
  BY EnvShape DEF TypeInv
<1>2. PICK v : v = env[Len(env)]
  OBVIOUS
<1>3. OpenedBy(env, v, env') /\ gen' = gen
  BY <1>2 DEF OpenBlock, Meanings, Here, OpenedBy
<1>4. DOMAIN v \subseteq Names /\ \A y \in DOMAIN v : Meant(v[y])
  BY <1>1, <1>2 DEF IsEnv, Meant
<1>5. /\ DOMAIN env' = 1 .. (Len(env) + 1)
      /\ \A k \in DOMAIN env : env'[k] = env[k]
      /\ env'[Len(env) + 1] = v
  BY <1>1, <1>3, <1>4, EnvOpens
<1>6. \A k \in DOMAIN env' : \E l \in DOMAIN env : env'[k] = env[l]
  <2>1. TAKE k \in DOMAIN env'
  <2>2. k = Len(env) + 1 \/ k \in DOMAIN env
    BY <1>1, <1>5
  <2> QED BY <1>1, <1>2, <1>5, <2>2
<1> QED BY <1>3, <1>6 DEF Carries

LEMMA CloseBlockCarries ==
  ASSUME TypeInv(gen, env), Carries(gen, env), CloseBlock
  PROVE  Carries(gen', env')
<1>1. IsEnv(env) /\ Len(env) \in Nat /\ DOMAIN env = 1 .. Len(env)
  BY EnvShape DEF TypeInv
<1>2. env' = SubSeq(env, 1, Len(env) - 1) /\ Len(env) > 2 /\ gen' = gen
  BY DEF CloseBlock, Front, Here
<1>3. PICK n : n = Len(env) - 1
  OBVIOUS
<1>4. n \in 1 .. Len(env) /\ ClosedTo(env, n, env')
  BY <1>1, <1>2, <1>3 DEF ClosedTo
<1>5. DOMAIN env' = 1 .. n /\ \A k \in 1 .. n : env'[k] = env[k]
  BY <1>1, <1>4, EnvCloses
<1>6. 1 .. n \subseteq DOMAIN env
  BY <1>1, <1>4
<1> QED BY <1>2, <1>5, <1>6 DEF Carries

LEMMA EndFuncCarries ==
  ASSUME TypeInv(gen, env), Carries(gen, env), EndFunc
  PROVE  Carries(gen', env')
<1>1. PICK kept : kept = ({0} \cup {env[1][x].decl : x \in DOMAIN env[1]}) \cap DOMAIN gen.attributes
  OBVIOUS
<1>2. /\ DOMAIN env' = 1 .. 1 /\ env'[1] = env[1]
      /\ gen'.array_metadata_map = gen.array_metadata_map
      /\ gen'.attributes = [d \in kept |-> gen.attributes[d]]
  BY <1>1, EndFuncIs
<1>3. 1 \in DOMAIN env
  BY EnvShape DEF TypeInv
<1>4. ASSUME NEW x \in DOMAIN env[1]
      PROVE  CarriedBy(gen', x, env[1][x])
  <2>1. PICK d : d = env[1][x]
    OBVIOUS
  <2>2. CarriedBy(gen, x, d)
    BY <1>3, <2>1 DEF Carries
  <2>3. d.decl \in kept
    BY <1>1, <2>1, <2>2 DEF CarriedBy
  <2>4. d.decl \in DOMAIN gen'.attributes /\ gen'.attributes[d.decl] = gen.attributes[d.decl]
    BY <1>2, <2>3
  <2>5. CarriedBy(gen', x, d)
    BY <1>2, <2>2, <2>4 DEF CarriedBy
  <2> QED BY <2>1, <2>5
<1>5. \A k \in DOMAIN env' : k = 1
  BY <1>2
<1> QED BY <1>2, <1>4, <1>5 DEF Carries

(* A use adds to what is remembered, and takes nothing away. *)
LEMMA UseCarries ==
  ASSUME TypeInv(gen, env), Carries(gen, env), NEW e, Use(e)
  PROVE  Carries(gen', env')
<1>1. PICK map : map = gen.array_metadata_map
  OBVIOUS
<1>2. PICK new : new = {b \in generate_expression(gen, e).arrays \ DOMAIN map :
                   Kind(b) # "id" /\ infer_array_metadata_from_access(gen, b).dimensions # <<>>}
  OBVIOUS
<1>3. PICK numbers : numbers = Known(generate_expression(gen, e).numbers)
  OBVIOUS
<1>4. PICK g : g = mk_consts(gen, numbers)
  OBVIOUS
<1>5. DOMAIN g = DOMAIN gen /\ g.attributes = gen.attributes /\ g.array_metadata_map = map
  BY <1>1, <1>4 DEF mk_consts, TypeInv, Shape
<1>6. gen' = [g EXCEPT !.array_metadata_map = [b \in DOMAIN @ \cup new |-> array_metadata(gen, b)]]
  BY <1>1, <1>2, <1>3, <1>4 DEF Use
<1>7. /\ gen'.attributes = gen.attributes
      /\ gen'.array_metadata_map = [b \in DOMAIN map \cup new |-> array_metadata(gen, b)]
  BY <1>5, <1>6 DEF TypeInv, Shape
<1>8. \A b \in DOMAIN map : b \in DOMAIN gen'.array_metadata_map /\ gen'.array_metadata_map[b] = map[b]
  BY <1>1, <1>7 DEF array_metadata
<1>9. env' = env
  BY DEF Use
<1> QED BY <1>1, <1>7, <1>8, <1>9 DEF Carries, CarriedBy

LEMMA UseLiteralCarries ==
  ASSUME TypeInv(gen, env), Carries(gen, env), NEW kind, NEW v, UseLiteral(kind, v)
  PROVE  Carries(gen', env')
<1>1. env' = env /\ gen' = mk_literal(gen, kind, v)
  BY DEF UseLiteral
<1>2. gen'.attributes = gen.attributes /\ gen'.array_metadata_map = gen.array_metadata_map
  BY <1>1 DEF mk_literal, TypeInv, Shape
<1> QED BY <1>1, <1>2 DEF Carries, CarriedBy

ReadInv(g, e) == NamesInv(g, e) /\ Carries(g, e)

LEMMA StepReads ==
  ASSUME ReadInv(gen, env), [Next]_vars,
         "redeclared" \notin Admit, "literal" \notin Admit
  PROVE  ReadInv(gen', env')
<1>1. NamesInv(gen', env')
  BY StepNames DEF ReadInv
<1>2. TypeInv(gen, env) /\ NamesInv(gen, env) /\ Carries(gen, env)
  BY DEF ReadInv, NamesInv
<1>3. CASE \E x \in Names, t \in GlobalTypes \cup LocalTypes : DeclareVar(x, t)
  BY <1>1, <1>2, <1>3, DeclareVarCarries DEF ReadInv
<1>4. CASE \E params \in ParamLists : BeginFunc(params)
  BY <1>1, <1>2, <1>4, BeginFuncCarries DEF ReadInv
<1>5. CASE OpenBlock
  BY <1>1, <1>2, <1>5, OpenBlockCarries DEF ReadInv
<1>6. CASE CloseBlock
  BY <1>1, <1>2, <1>6, CloseBlockCarries DEF ReadInv
<1>7. CASE EndFunc
  BY <1>1, <1>2, <1>7, EndFuncCarries DEF ReadInv
<1>8. CASE \E e \in Paths : Use(e)
  BY <1>1, <1>2, <1>8, UseCarries DEF ReadInv
<1>9. CASE \E l \in Literals : UseLiteral(l[1], l[2])
  BY <1>1, <1>2, <1>9, UseLiteralCarries DEF ReadInv
<1>10. CASE UNCHANGED vars
  BY <1>1, <1>2, <1>10 DEF ReadInv, vars
<1> QED BY <1>3, <1>4, <1>5, <1>6, <1>7, <1>8, <1>9, <1>10 DEF Next
-----------------------------------------------------------------------------
(* Expressions as sequences of steps, and their beginnings.                *)
IsPath(e) == e \in Seq(Range(e)) /\ e # <<>>

LEMMA PathShape ==
  ASSUME NEW e, IsPath(e)
  PROVE  Len(e) \in Nat /\ Len(e) >= 1 /\ DOMAIN e = 1 .. Len(e)
<1>1. Len(e) \in Nat \ {0} /\ DOMAIN e = 1 .. Len(e)
  BY EmptySeq, LenProperties DEF IsPath
<1> QED BY <1>1

(* The first n steps. *)
Beginning(e, n, p) == p = SubSeq(e, 1, n)

LEMMA BeginningIs ==
  ASSUME NEW e, IsPath(e), NEW n \in 1 .. Len(e), NEW p, Beginning(e, n, p)
  PROVE  /\ IsPath(p) /\ Len(p) = n /\ DOMAIN p = 1 .. n
         /\ \A k \in 1 .. n : p[k] = e[k]
         /\ Last(p) = e[n] /\ Kind(p) = e[n].kind
<1>1. Len(e) \in Nat /\ DOMAIN e = 1 .. Len(e) /\ e \in Seq(Range(e))
  BY PathShape DEF IsPath
<1>2. n \in Nat /\ n # 0 /\ n <= Len(e)
  BY <1>1
<1>3. \A i \in 1 .. n : e[i] \in Range(e)
  BY <1>1, <1>2 DEF Range
<1>4. /\ p \in Seq(Range(e))
      /\ Len(p) = n /\ \A i \in 1 .. n - 1 + 1 : p[i] = e[1 + i - 1]
  <2>1. 1 \in 1 .. (Len(e) + 1) /\ n \in 0 .. Len(e)
    BY <1>1, <1>2
  <2>2. /\ SubSeq(e, 1, n) \in Seq(Range(e))
        /\ Len(SubSeq(e, 1, n)) = IF 1 <= n THEN n - 1 + 1 ELSE 0
        /\ \A i \in 1 .. n - 1 + 1 : SubSeq(e, 1, n)[i] = e[1 + i - 1]
    BY <1>1, <2>1, SubSeqProperties
  <2> QED BY <1>2, <2>2 DEF Beginning
<1>5. DOMAIN p = 1 .. n /\ p # <<>> /\ p \in Seq(Range(p))
  <2>1. DOMAIN p = 1 .. n
    BY <1>4, LenProperties
  <2>2. p # <<>>
    BY <1>2, <1>4
  <2>3. p \in Seq(Range(p))
    BY <1>4, SeqOfRange
  <2> QED BY <2>1, <2>2, <2>3
<1>6. \A k \in 1 .. n : p[k] = e[k]
  <2>1. \A k \in 1 .. n : k \in 1 .. n - 1 + 1 /\ 1 + k - 1 = k
    BY <1>2
  <2> QED BY <1>4, <2>1
<1>7. n \in 1 .. n
  BY <1>2
<1>8. Last(p) = e[n]
  BY <1>4, <1>6, <1>7 DEF Last
<1> QED BY <1>4, <1>5, <1>6, <1>8 DEF IsPath, Kind

(* A path is what is equal to it step by step. *)
LEMMA PathsEqual ==
  ASSUME NEW p, IsPath(p), NEW q, IsPath(q), NEW n, Len(p) = n, Len(q) = n, \A k \in 1 .. n : p[k] = q[k]
  PROVE  p = q
<1>1. /\ p \in [1 .. n -> Range(p)]
      /\ q \in [1 .. n -> Range(q)]
  BY LenProperties DEF IsPath
<1> QED BY <1>1

LEMMA BeginningTwice ==
  ASSUME NEW e, IsPath(e), NEW n \in 1 .. Len(e), NEW k \in 1 .. n, NEW p, Beginning(e, n, p)
  PROVE  SubSeq(p, 1, k) = SubSeq(e, 1, k)
<1>1. /\ IsPath(p) /\ Len(p) = n /\ \A i \in 1 .. n : p[i] = e[i]
  BY BeginningIs
<1>2. Len(e) \in Nat
  BY PathShape
<1>3. k \in 1 .. Len(e) /\ k \in 1 .. Len(p) /\ 1 .. k \subseteq 1 .. n
  BY <1>1, <1>2
<1>4. PICK q, r : Beginning(p, k, q) /\ Beginning(e, k, r)
  BY DEF Beginning
<1>5. IsPath(q) /\ Len(q) = k /\ \A i \in 1 .. k : q[i] = p[i]
  BY <1>1, <1>3, <1>4, BeginningIs
<1>6. IsPath(r) /\ Len(r) = k /\ \A i \in 1 .. k : r[i] = e[i]
  BY <1>3, <1>4, BeginningIs
<1>7. \A i \in 1 .. k : q[i] = r[i]
  BY <1>1, <1>3, <1>5, <1>6
<1>8. q = r
  BY <1>5, <1>6, <1>7, PathsEqual
<1> QED BY <1>4, <1>8 DEF Beginning

LEMMA BeginningWhole ==
  ASSUME NEW e, IsPath(e)
  PROVE  SubSeq(e, 1, Len(e)) = e
<1>1. Len(e) \in Nat /\ Len(e) >= 1
  BY PathShape
<1>2. PICK p : Beginning(e, Len(e), p)
  BY DEF Beginning
<1>3. Len(e) \in 1 .. Len(e)
  BY <1>1
<1>4. IsPath(p) /\ Len(p) = Len(e) /\ \A i \in 1 .. Len(e) : p[i] = e[i]
  BY <1>2, <1>3, BeginningIs
<1>5. p = e
  BY <1>4, PathsEqual
<1> QED BY <1>2, <1>5 DEF Beginning

(* All but the last step. *)
LEMMA OfIs ==
  ASSUME NEW e, IsPath(e), NEW n \in 1 .. Len(e), n # 1, NEW p, Beginning(e, n, p)
  PROVE  n - 1 \in 1 .. Len(e) /\ Of(p) = SubSeq(e, 1, n - 1)
<1>1. Len(p) = n /\ Len(e) \in Nat
  BY BeginningIs, PathShape
<1>2. n - 1 \in 1 .. n /\ n - 1 \in 1 .. Len(e)
  BY <1>1
<1>3. Of(p) = SubSeq(p, 1, n - 1)
  BY <1>1 DEF Of, Front
<1> QED BY <1>2, <1>3, BeginningTwice

(* What is indexed: the last step before n that is no index, or n.         *)
BaseAt(e, n, b) ==
  /\ b \in 1 .. n /\ e[b].kind # "index"
  /\ \A k \in (b + 1) .. n : e[k].kind = "index"
  /\ \A p : Beginning(e, n, p) => Base(p) = SubSeq(e, 1, b) /\ Len(Base(p)) = b

LEMMA BaseIs ==
  ASSUME NEW e, IsPath(e), e[1].kind = "id", NEW n \in 1 .. Len(e)
  PROVE  \E b : BaseAt(e, n, b)
<1>1. PICK p : Beginning(e, n, p)
  BY DEF Beginning
<1>2. IsPath(p) /\ Len(p) = n /\ DOMAIN p = 1 .. n /\ \A k \in 1 .. n : p[k] = e[k]
  BY <1>1, BeginningIs
<1>3. Len(e) \in Nat /\ n \in Nat /\ n # 0 /\ 1 \in 1 .. n
  BY PathShape
<1>4. PICK T : T = {k \in DOMAIN p : p[k].kind # "index"}
  OBVIOUS
<1>5. T = {k \in 1 .. n : e[k].kind # "index"}
  BY <1>2, <1>4
<1>6. IsFiniteSet(T) /\ T \subseteq Nat /\ 1 \in T
  <2>1. IsFiniteSet(1 .. n)
    BY <1>3, FS_Interval
  <2>2. T \subseteq 1 .. n
    BY <1>5
  <2>3. IsFiniteSet(T)
    BY <2>1, <2>2, FS_Subset
  <2>4. T \subseteq Nat
    BY <1>3, <2>2
  <2> QED BY <1>3, <1>5, <2>3, <2>4
<1>7. PICK b : b = Max(T)
  OBVIOUS
<1>8. b \in T /\ \A t \in T : t <= b
  BY <1>6, <1>7, MaxIsLargest
<1>9. b \in 1 .. n /\ b \in Nat /\ b <= n /\ e[b].kind # "index"
  BY <1>3, <1>5, <1>8
<1>10. ASSUME NEW k \in (b + 1) .. n
       PROVE  e[k].kind = "index"
  <2>1. k \in 1 .. n /\ ~(k <= b)
    BY <1>3, <1>9
  <2> QED BY <1>5, <1>8, <2>1
<1>11. Base(p) = SubSeq(e, 1, b)
  <2>1. Base(p) = SubSeq(p, 1, b)
    BY <1>4, <1>7 DEF Base
  <2> QED BY <1>1, <1>9, <2>1, BeginningTwice
<1>12. Len(Base(p)) = b
  <2>1. b \in 1 .. Len(e)
    BY <1>3, <1>9
  <2>2. Beginning(e, b, Base(p))
    BY <1>11 DEF Beginning
  <2> QED BY <2>1, <2>2, BeginningIs
<1>13. \A q : Beginning(e, n, q) => q = p
  BY <1>1 DEF Beginning
<1>14. BaseAt(e, n, b)
  BY <1>9, <1>10, <1>11, <1>12, <1>13 DEF BaseAt
<1> QED BY <1>14
-----------------------------------------------------------------------------
(* The types along an expression.                                          *)

(* A member of a struct, by its name. *)
Member(struct, name, t) == \E j \in DOMAIN FieldsOf(struct) : FieldsOf(struct)[j].name = name /\ FieldsOf(struct)[j].type = t

(* A field is the same to the language and to the compiler. *)
LEMMA MemberIs ==
  ASSUME NEW struct \in StructNames, NEW name, NEW t, Member(struct, name, t)
  PROVE  /\ FieldOf(struct, name).type = t
         /\ get_field(struct_types, struct, name).type = t
         /\ IsType(t, Len(StructDefs))
<1>1. PICK k \in DOMAIN StructDefs : struct = StructDefs[k].name
  BY DEF StructNames
<1>2. PICK fields : fields = StructDefs[k].fields
  OBVIOUS
<1>3. FieldsOf(struct) = fields
  BY <1>1, <1>2, StructsAre DEF FieldsOf
<1>4. PICK j \in DOMAIN fields : fields[j].name = name /\ fields[j].type = t
  BY <1>3 DEF Member
<1>5. \A i \in DOMAIN fields : fields[i].name = name => i = j
  BY <1>2, <1>4, StructAssumption
<1>6. NumberIn(fields, name) = j
  <2>1. PICK i : i = CHOOSE l \in DOMAIN fields : fields[l].name = name
    OBVIOUS
  <2>2. i \in DOMAIN fields /\ fields[i].name = name
    BY <1>4, <2>1
  <2> QED BY <1>5, <2>1, <2>2 DEF NumberIn
<1>7. PICK made : made = struct_types[struct]
  OBVIOUS
<1>8. FieldsKnown(StructDefs[k], made)
  <2>1. k \in 1 .. Len(StructDefs)
    BY StructsAre
  <2> QED BY <1>1, <1>7, <2>1, StructTypesAre DEF StructsKnown
<1>9. /\ DOMAIN made.fields = DOMAIN fields
      /\ \A i \in DOMAIN fields : made.fields[i].name = fields[i].name /\ made.fields[i].type = fields[i].type
  BY <1>2, <1>8 DEF FieldsKnown
<1>10. NumberIn(made.fields, name) = j
  <2>1. PICK i : i = CHOOSE l \in DOMAIN made.fields : made.fields[l].name = name
    OBVIOUS
  <2>2. i \in DOMAIN made.fields /\ made.fields[i].name = name
    BY <1>4, <1>9, <2>1
  <2> QED BY <1>5, <1>9, <2>1, <2>2 DEF NumberIn
<1>11. FieldOf(struct, name).type = t
  BY <1>3, <1>4, <1>6 DEF FieldOf
<1>12. get_field(struct_types, struct, name).type = t
  BY <1>4, <1>7, <1>9, <1>10 DEF get_field
<1>13. IsType(t, Len(StructDefs))
  <2>1. IsType(t, k - 1)
    BY <1>2, <1>4, StructsAre
  <2>2. PICK l : l = Len(StructDefs)
    OBVIOUS
  <2>3. l \in Nat /\ k \in 1 .. l
    BY <2>2, StructsAre
  <2>4. 1 .. (k - 1) \subseteq 1 .. Len(StructDefs)
    BY <2>2, <2>3
  <2> QED BY <2>1, <2>4 DEF IsType
<1> QED BY <1>11, <1>12, <1>13

(* The rows of an array are of its element. *)
LEMMA RowIs ==
  ASSUME NEW t, IsType(t, Len(StructDefs)), IsArray(t)
  PROVE  IsType(Row(t), Len(StructDefs)) /\ Row(t).base = t.base /\ Row(t).dims = Tail(t.dims)
<1>1. PICK r : r = Row(t)
  OBVIOUS
<1>2. PICK d : d = t.dims
  OBVIOUS
<1>3. d \in Seq(Nat \ {0}) /\ d # <<>>
  BY <1>2 DEF IsType, IsArray
<1>4. Tail(d) \in Seq(Nat \ {0})
  BY <1>3
<1>5. r = Type(t.base, Tail(d), t.to)
  <2>1. t = [base |-> t.base, dims |-> d, to |-> t.to]
    BY <1>2 DEF IsType, Type
  <2>2. r = [t EXCEPT !.dims = Tail(@)]
    BY <1>1 DEF Row
  <2> QED BY <1>2, <2>1, <2>2 DEF Type
<1>6. r.base = t.base /\ r.dims = Tail(d) /\ r.to = t.to
  BY <1>5 DEF Type
<1>7. r = Type(r.base, r.dims, r.to)
  BY <1>5, <1>6
<1>8. ~IsPointer(t)
  BY DEF IsType
<1>9. ~IsPointer(r)
  BY <1>6, <1>8 DEF IsPointer
<1>10. IsType(r, Len(StructDefs))
  BY <1>4, <1>6, <1>7, <1>9 DEF IsType
<1> QED BY <1>1, <1>2, <1>6, <1>10

(* How step s goes on from the path e to a place of type t, to one of type *)
(* u.                                                                      *)
Goes(e, n, s, t, u) ==
  /\ e[n].kind # "star"
  /\ s.kind \in {"index", "dot", "arrow", "star"}
  /\ s.kind \in {"index", "star"} => s.by \in Indices \cup {Zero}
  /\ s.kind = "index" => \/ IsArray(t) /\ u = Row(t)
                         \/ n = 1 /\ ~IsArray(t) /\ IsPointer(t) /\ ~IsStruct(Pointee(t)) /\ u = Pointee(t)
  /\ s.kind = "dot" => ~IsArray(t) /\ IsStruct(t) /\ Member(t.base, s.name, u)
  /\ s.kind = "arrow" => /\ n = 1 /\ ~IsArray(t) /\ IsPointer(t) /\ IsStruct(Pointee(t))
                         /\ get_var(gen, e[1].name).struct # "" /\ Member(Pointee(t).base, s.name, u)
  /\ s.kind = "star" => ~IsArray(t) /\ IsPointer(t) /\ ~IsStruct(Pointee(t)) /\ ~IsArray(Pointee(t)) /\ u = Pointee(t)

(* types are those of the places an expression passes. *)
Passes(e, types) ==
  /\ IsPath(e)
  /\ \E x \in Visible : e[1] = Step("id", x, Zero) /\ types[1] = Meanings[x].type
  /\ \A n \in 1 .. Len(e) : n + 1 \in 1 .. Len(e) => Goes(e, n, e[n + 1], types[n], types[n + 1])

LEMMA PassesStart ==
  ASSUME NEW x \in Visible
  PROVE  \E types : Passes(Id(x), types) /\ types[Len(Id(x))] = Meanings[x].type
<1>1. PICK s, e : s = Step("id", x, Zero) /\ e = <<s>>
  OBVIOUS
<1>2. PICK types : types = [n \in 1 .. 1 |-> Meanings[x].type]
  OBVIOUS
<1>3. e \in Seq({s}) /\ e # <<>> /\ Len(e) = 1 /\ e[1] = s
  BY <1>1
<1>4. IsPath(e)
  BY <1>3, SeqOfRange DEF IsPath
<1>5. \A n \in 1 .. 1 : n + 1 \notin 1 .. 1
  OBVIOUS
<1>6. types[1] = Meanings[x].type
  BY <1>2
<1>7. Passes(e, types)
  BY <1>1, <1>3, <1>4, <1>5, <1>6 DEF Passes
<1>8. e = Id(x)
  BY <1>1 DEF Id
<1> QED BY <1>3, <1>6, <1>7, <1>8

(* A name is only at the start. *)
LEMMA KindsAre ==
  ASSUME NEW e, NEW types, Passes(e, types), NEW n \in 1 .. Len(e)
  PROVE  /\ e[1].kind = "id"
         /\ n # 1 => e[n].kind \in {"index", "dot", "arrow", "star"} /\ n - 1 \in 1 .. Len(e)
                     /\ Goes(e, n - 1, e[n], types[n - 1], types[n])
<1>1. Len(e) \in Nat /\ IsPath(e)
  BY PathShape DEF Passes
<1>2. e[1].kind = "id"
  BY DEF Passes, Step
<1>3. ASSUME n # 1
      PROVE  n - 1 \in 1 .. Len(e) /\ n - 1 + 1 = n
  BY <1>1, <1>3
<1>4. ASSUME n # 1
      PROVE  Goes(e, n - 1, e[n], types[n - 1], types[n])
  <2>1. \A k \in 1 .. Len(e) : k + 1 \in 1 .. Len(e) => Goes(e, k, e[k + 1], types[k], types[k + 1])
    BY DEF Passes
  <2> QED BY <1>3, <1>4, <2>1
<1> QED BY <1>2, <1>3, <1>4 DEF Goes

LEMMA OnwardIs ==
  ASSUME NEW e, NEW types, Passes(e, types), NEW q \in Onward(e, types[Len(e)])
  PROVE  \E s, u : q = <<Append(e, s), u>> /\ Goes(e, Len(e), s, types[Len(e)], u)
<1>1. PICK t, n : t = types[Len(e)] /\ n = Len(e)
  OBVIOUS
<1>2. PICK kind : kind = Kind(e)
  OBVIOUS
<1>3. kind = e[n].kind /\ n \in Nat /\ n >= 1
  BY <1>1, <1>2, PathShape DEF Passes, Kind, Last
<1>4. ASSUME kind = "id"
      PROVE  n = 1
  <2>1. n \in 1 .. n
    BY <1>3
  <2> QED BY <1>1, <1>3, <1>4, <2>1, KindsAre
<1>5. q \in Onward(e, t) /\ kind # "star"
  BY <1>1, <1>2 DEF Onward
<1>6. ~(IsStruct(t) /\ IsPointer(t))
  BY StructsAre DEF IsStruct, IsPointer, StructNames
<1>7. CASE IsArray(t)
  <2>1. q \in {<<Index(e, k), Row(t)>> : k \in Indices}
    BY <1>2, <1>5, <1>7 DEF Onward
  <2>2. PICK k \in Indices : q = <<Index(e, k), Row(t)>>
    BY <2>1
  <2>3. PICK s : s = Step("index", "", k)
    OBVIOUS
  <2>4. s.kind = "index" /\ s.by \in Indices /\ q = <<Append(e, s), Row(t)>>
    BY <2>2, <2>3 DEF Step, Index
  <2>5. Goes(e, n, s, t, Row(t))
    BY <1>3, <1>5, <1>7, <2>4 DEF Goes
  <2> QED BY <1>1, <2>4, <2>5
<1>8. CASE ~IsArray(t) /\ IsStruct(t)
  <2>1. q \in {<<Dot(e, f.name), f.type>> : f \in ToSet(FieldsOf(t.base))}
    BY <1>2, <1>5, <1>8, <1>6 DEF Onward
  <2>2. PICK j \in DOMAIN FieldsOf(t.base) : q = <<Dot(e, FieldsOf(t.base)[j].name), FieldsOf(t.base)[j].type>>
    BY <2>1 DEF ToSet
  <2>3. PICK s, u : s = Step("dot", FieldsOf(t.base)[j].name, Zero) /\ u = FieldsOf(t.base)[j].type
    OBVIOUS
  <2>4. s.kind = "dot" /\ q = <<Append(e, s), u>> /\ Member(t.base, s.name, u)
    BY <2>2, <2>3 DEF Step, Dot, Member
  <2>5. Goes(e, n, s, t, u)
    BY <1>3, <1>5, <1>8, <2>4 DEF Goes
  <2> QED BY <1>1, <2>4, <2>5
<1>9. CASE ~IsArray(t) /\ ~IsStruct(t) /\ IsPointer(t) /\ IsStruct(Pointee(t))
  <2>1. PICK struct : struct = Pointee(t).base
    OBVIOUS
  <2>2. /\ kind = "id" /\ get_var(gen, e[1].name).struct # ""
        /\ q \in {<<Arrow(e, f.name), f.type>> : f \in ToSet(FieldsOf(struct))}
    BY <1>2, <1>5, <1>9, <2>1 DEF Onward
  <2>3. PICK j \in DOMAIN FieldsOf(struct) : q = <<Arrow(e, FieldsOf(struct)[j].name), FieldsOf(struct)[j].type>>
    BY <2>2 DEF ToSet
  <2>4. PICK s, u : s = Step("arrow", FieldsOf(struct)[j].name, Zero) /\ u = FieldsOf(struct)[j].type
    OBVIOUS
  <2>5. s.kind = "arrow" /\ q = <<Append(e, s), u>> /\ Member(struct, s.name, u)
    BY <2>3, <2>4 DEF Step, Arrow, Member
  <2>6. Goes(e, n, s, t, u)
    BY <1>3, <1>4, <1>5, <1>9, <2>1, <2>2, <2>5 DEF Goes
  <2> QED BY <1>1, <2>5, <2>6
<1>10. CASE ~IsArray(t) /\ ~IsStruct(t) /\ IsPointer(t) /\ ~IsStruct(Pointee(t))
  <2>1. PICK to : to = Pointee(t)
    OBVIOUS
  <2>2. \/ kind = "id" /\ \E k \in Indices : q = <<Index(e, k), to>>
        \/ ~IsArray(to) /\ \E k \in Indices \cup {Zero} : q = <<Star(e, k), to>>
    BY <1>2, <1>5, <1>10, <2>1 DEF Onward
  <2>3. CASE kind = "id" /\ \E k \in Indices : q = <<Index(e, k), to>>
    <3>1. PICK k \in Indices : q = <<Index(e, k), to>>
      BY <2>3
    <3>2. PICK s : s = Step("index", "", k)
      OBVIOUS
    <3>3. s.kind = "index" /\ s.by \in Indices /\ q = <<Append(e, s), to>>
      BY <3>1, <3>2 DEF Step, Index
    <3>4. Goes(e, n, s, t, to)
      BY <1>3, <1>4, <1>5, <1>10, <2>1, <2>3, <3>3 DEF Goes
    <3> QED BY <1>1, <3>3, <3>4
  <2>4. CASE ~IsArray(to) /\ \E k \in Indices \cup {Zero} : q = <<Star(e, k), to>>
    <3>1. PICK k \in Indices \cup {Zero} : q = <<Star(e, k), to>>
      BY <2>4
    <3>2. PICK s : s = Step("star", "", k)
      OBVIOUS
    <3>3. s.kind = "star" /\ s.by \in Indices \cup {Zero} /\ q = <<Append(e, s), to>>
      BY <3>1, <3>2 DEF Step, Star
    <3>4. Goes(e, n, s, t, to)
      BY <1>3, <1>5, <1>10, <2>1, <2>4, <3>3 DEF Goes
    <3> QED BY <1>1, <3>3, <3>4
  <2> QED BY <2>2, <2>3, <2>4
<1>11. CASE ~IsArray(t) /\ ~IsStruct(t) /\ ~IsPointer(t)
  BY <1>2, <1>5, <1>11 DEF Onward
<1> QED BY <1>7, <1>8, <1>9, <1>10, <1>11

(* An expression one step longer passes one type more. *)
LEMMA PassesOn ==
  ASSUME NEW e, NEW types, Passes(e, types), NEW q \in Onward(e, types[Len(e)])
  PROVE  \E more : Passes(q[1], more) /\ more[Len(q[1])] = q[2]
<1>1. PICK n, t : n = Len(e) /\ t = types[Len(e)]
  OBVIOUS
<1>2. n \in Nat /\ n >= 1 /\ DOMAIN e = 1 .. n /\ e \in Seq(Range(e))
  BY <1>1, PathShape DEF Passes, IsPath
<1>3. PICK s, u : q = <<Append(e, s), u>> /\ Goes(e, n, s, t, u)
  BY <1>1, OnwardIs
<1>4. PICK f : f = Append(e, s)
  OBVIOUS
<1>5. q[1] = f /\ q[2] = u
  BY <1>3, <1>4
<1>6. PICK S : S = Range(e) \cup {s}
  OBVIOUS
<1>7. e \in Seq(S) /\ s \in S
  <2>1. Range(e) \subseteq S /\ s \in S
    BY <1>6
  <2> QED BY <1>2, <2>1, SeqMonotonic
<1>8. /\ f \in Seq(S) /\ Len(f) = n + 1
      /\ \A i \in 1 .. n : f[i] = e[i]
      /\ f[n + 1] = s
  BY <1>1, <1>4, <1>7, AppendProperties
<1>9. IsPath(f)
  <2>1. f # <<>>
    BY <1>2, <1>8
  <2> QED BY <1>8, <2>1, SeqOfRange DEF IsPath
<1>10. PICK more : more = [k \in 1 .. (n + 1) |-> IF k = n + 1 THEN u ELSE types[k]]
  OBVIOUS
<1>11. more[n + 1] = u /\ (\A k \in 1 .. n : more[k] = types[k]) /\ 1 \in 1 .. n /\ n \in 1 .. n
  BY <1>2, <1>10
<1>12. ASSUME NEW k \in 1 .. Len(f), k + 1 \in 1 .. Len(f)
       PROVE  Goes(f, k, f[k + 1], more[k], more[k + 1])
  <2>1. k \in 1 .. n /\ f[k] = e[k] /\ f[1] = e[1] /\ more[k] = types[k]
    BY <1>2, <1>8, <1>11, <1>12
  <2>2. CASE k = n
    <3>1. Goes(f, k, s, t, u)
      BY <1>3, <2>1, <2>2 DEF Goes
    <3> QED BY <1>1, <1>8, <1>11, <2>1, <2>2, <3>1
  <2>3. CASE k # n
    <3>1. k + 1 \in 1 .. n
      BY <1>2, <2>1, <2>3
    <3>2. Goes(e, k, e[k + 1], types[k], types[k + 1])
      BY <1>1, <2>1, <3>1 DEF Passes
    <3>3. f[k + 1] = e[k + 1] /\ more[k + 1] = types[k + 1]
      BY <1>8, <1>11, <3>1
    <3>4. Goes(f, k, e[k + 1], types[k], types[k + 1])
      BY <2>1, <3>2 DEF Goes
    <3> QED BY <2>1, <3>3, <3>4
  <2> QED BY <2>2, <2>3
<1>13. \E x \in Visible : f[1] = Step("id", x, Zero) /\ more[1] = Meanings[x].type
  <2>1. PICK x \in Visible : e[1] = Step("id", x, Zero) /\ types[1] = Meanings[x].type
    BY DEF Passes
  <2> QED BY <1>8, <1>11, <2>1
<1>14. Passes(f, more)
  BY <1>9, <1>12, <1>13 DEF Passes
<1> QED BY <1>5, <1>8, <1>11, <1>14

(* What is reached in n steps, as a chain of sets. *)
Nearest == {<<Id(x), Meanings[x].type>> : x \in Visible}
Farther(all) == all \cup UNION {Onward(p[1], p[2]) : p \in all}
ReachedTo(n, h) == h = [k \in 1 .. n |-> IF k = 1 THEN Nearest ELSE Farther(h[k - 1])]

LEMMA ReachedExist ==
  ASSUME NEW n \in Nat
  PROVE  \E h : ReachedTo(n, h)
<1>1. PICK G : G = {k \in 0 .. n : \E h : ReachedTo(k, h)}
  OBVIOUS
<1>2. 0 \in G
  <2>1. PICK h : h = [k \in 1 .. 0 |-> 0]
    OBVIOUS
  <2>2. \A k : k \notin 1 .. 0
    OBVIOUS
  <2>3. h = [k \in 1 .. 0 |-> IF k = 1 THEN Nearest ELSE Farther(h[k - 1])]
    BY <2>1, <2>2
  <2>4. ReachedTo(0, h)
    BY <2>3 DEF ReachedTo
  <2> QED BY <1>1, <2>4
<1>3. ASSUME NEW k \in 1 .. n, k - 1 \in G
      PROVE  k \in G
  <2>1. PICK f : ReachedTo(k - 1, f)
    BY <1>1, <1>3
  <2>2. \A j \in 1 .. (k - 1) : f[j] = IF j = 1 THEN Nearest ELSE Farther(f[j - 1])
    BY <2>1 DEF ReachedTo
  <2>3. PICK last : last = IF k = 1 THEN Nearest ELSE Farther(f[k - 1])
    OBVIOUS
  <2>4. PICK h : h = [j \in 1 .. k |-> IF j = k THEN last ELSE f[j]]
    OBVIOUS
  <2>5. ASSUME NEW j \in 1 .. k
        PROVE  h[j] = IF j = 1 THEN Nearest ELSE Farther(h[j - 1])
    <3>1. j # 1 => j - 1 \in 1 .. k /\ j - 1 # k
      OBVIOUS
    <3>2. j # 1 => h[j - 1] = f[j - 1]
      BY <2>4, <3>1
    <3>3. CASE j = k
      BY <2>3, <2>4, <3>2, <3>3
    <3>4. CASE j # k
      <4>1. j \in 1 .. (k - 1) /\ h[j] = f[j]
        BY <2>4, <3>4
      <4> QED BY <2>2, <3>2, <4>1
    <3> QED BY <3>3, <3>4
  <2>6. ReachedTo(k, h)
    BY <2>4, <2>5 DEF ReachedTo
  <2> QED BY <1>1, <2>6
<1>4. \A k \in 0 .. n : k \in G
  BY <1>2, <1>3, Upwards
<1> QED BY <1>1, <1>4

(* Every expression passes places of one type after the other. *)
PassesTo(e, t) == \E types : Passes(e, types) /\ types[Len(e)] = t

LEMMA PathsPass ==
  ASSUME NEW e \in Paths
  PROVE  \E types : Passes(e, types)
<1>1. PICK N : N = MaxReach
  OBVIOUS
<1>2. N \in Nat /\ N # 0
  BY <1>1, FrontEndAssumption
<1>3. PICK h : h = CHOOSE reached : ReachedTo(N, reached)
  OBVIOUS
<1>4. ReachedTo(N, h)
  BY <1>2, <1>3, ReachedExist
<1>5. \A k \in 1 .. N : h[k] = IF k = 1 THEN Nearest ELSE Farther(h[k - 1])
  BY <1>4 DEF ReachedTo
<1>6. e \in {p[1] : p \in h[N]}
  BY <1>1, <1>3 DEF Paths, ReachedTo, Nearest, Farther
<1>7. PICK G : G = {k \in 0 .. N : k # 0 => \A p \in h[k] : PassesTo(p[1], p[2])}
  OBVIOUS
<1>8. ASSUME NEW k \in 1 .. N, k - 1 \in G
      PROVE  k \in G
  <2>1. CASE k = 1
    <3>1. ASSUME NEW p \in Nearest
          PROVE  PassesTo(p[1], p[2])
      <4>1. PICK x \in Visible : p = <<Id(x), Meanings[x].type>>
        BY DEF Nearest
      <4>2. p[1] = Id(x) /\ p[2] = Meanings[x].type
        BY <4>1
      <4> QED BY <4>2, PassesStart DEF PassesTo
    <3> QED BY <1>5, <1>7, <2>1, <3>1
  <2>2. CASE k # 1
    <3>1. \A p \in h[k - 1] : PassesTo(p[1], p[2])
      BY <1>7, <1>8, <2>2
    <3>2. h[k] = Farther(h[k - 1])
      BY <1>5, <2>2
    <3>3. ASSUME NEW q \in Farther(h[k - 1])
          PROVE  PassesTo(q[1], q[2])
      <4>1. CASE q \in h[k - 1]
        BY <3>1, <4>1
      <4>2. CASE q \notin h[k - 1]
        <5>1. PICK p \in h[k - 1] : q \in Onward(p[1], p[2])
          BY <4>2 DEF Farther
        <5>2. PICK types : Passes(p[1], types) /\ types[Len(p[1])] = p[2]
          BY <3>1, <5>1 DEF PassesTo
        <5> QED BY <5>1, <5>2, PassesOn DEF PassesTo
      <4> QED BY <4>1, <4>2
    <3> QED BY <1>7, <3>2, <3>3
  <2> QED BY <2>1, <2>2
<1>9. \A k \in 0 .. N : k \in G
  <2>1. 0 \in G
    BY <1>2, <1>7
  <2> QED BY <1>2, <1>8, <2>1, Upwards
<1>10. \A p \in h[N] : PassesTo(p[1], p[2])
  BY <1>2, <1>7, <1>9
<1> QED BY <1>6, <1>10 DEF PassesTo

LEMMA BeginningPasses ==
  ASSUME NEW e, NEW types, Passes(e, types), NEW n \in 1 .. Len(e), NEW p, Beginning(e, n, p)
  PROVE  Passes(p, types)
<1>1. IsPath(e) /\ Len(e) \in Nat
  BY PathShape DEF Passes
<1>2. IsPath(p) /\ Len(p) = n /\ \A k \in 1 .. n : p[k] = e[k]
  BY <1>1, BeginningIs
<1>3. 1 \in 1 .. n
  BY <1>1
<1>4. ASSUME NEW k \in 1 .. n, k + 1 \in 1 .. n
      PROVE  Goes(p, k, p[k + 1], types[k], types[k + 1])
  <2>1. k \in 1 .. Len(e) /\ k + 1 \in 1 .. Len(e)
    BY <1>1, <1>4
  <2>2. Goes(e, k, e[k + 1], types[k], types[k + 1])
    BY <2>1 DEF Passes
  <2>3. p[k] = e[k] /\ p[k + 1] = e[k + 1] /\ p[1] = e[1]
    BY <1>2, <1>3, <1>4
  <2> QED BY <2>2, <2>3 DEF Goes
<1>5. \E x \in Visible : p[1] = Step("id", x, Zero) /\ types[1] = Meanings[x].type
  BY <1>2, <1>3 DEF Passes
<1> QED BY <1>2, <1>4, <1>5 DEF Passes
-----------------------------------------------------------------------------
(* The language's places have these types. *)
LEMMA BeyondName ==
  ASSUME NEW v, NEW b, NEW c, NEW s, s.kind = "id"
  PROVE  Beyond(v, b, s) = Beyond(v, c, s) /\ Beyond(v, b, s).type = v[s.name].type
<1>1. ASSUME NEW d
      PROVE  Beyond(v, d, s) =
               [at |-> HomeOf(v[s.name].decl), type |-> v[s.name].type, whole |-> TRUE]
  BY DEF Beyond
<1>2. PICK r : r = [at |-> HomeOf(v[s.name].decl), type |-> v[s.name].type, whole |-> TRUE]
  OBVIOUS
<1>3. r.type = v[s.name].type
  BY <1>2
<1>4. Beyond(v, b, s) = r /\ Beyond(v, c, s) = r
  BY <1>1, <1>2
<1> QED BY <1>3, <1>4

LEMMA BeyondType ==
  ASSUME NEW v, NEW e, NEW n, NEW s, NEW t, NEW u, Goes(e, n, s, t, u), NEW b, b.type = t
  PROVE  Beyond(v, b, s).type = u
<1>1. PICK f : f = Beyond(v, b, s)
  OBVIOUS
<1>2. s.kind \in {"index", "dot", "arrow", "star"}
  BY DEF Goes
<1>3. CASE s.kind = "index"
  <2>1. f.type = IF IsArray(t) THEN Row(t) ELSE Pointee(t)
    BY <1>1, <1>3 DEF Beyond
  <2> QED BY <1>1, <1>3, <2>1 DEF Goes
<1>4. CASE s.kind = "star"
  <2>1. f.type = Pointee(t)
    BY <1>1, <1>4 DEF Beyond
  <2> QED BY <1>1, <1>4, <2>1 DEF Goes
<1>5. CASE s.kind = "dot"
  <2>1. f.type = FieldOf(t.base, s.name).type
    BY <1>1, <1>5 DEF Beyond
  <2>2. t.base \in StructNames /\ Member(t.base, s.name, u)
    BY <1>5 DEF Goes, IsStruct
  <2> QED BY <1>1, <2>1, <2>2, MemberIs
<1>6. CASE s.kind = "arrow"
  <2>1. f.type = FieldOf(Pointee(t).base, s.name).type
    BY <1>1, <1>6 DEF Beyond
  <2>2. Pointee(t).base \in StructNames /\ Member(Pointee(t).base, s.name, u)
    BY <1>6 DEF Goes, IsStruct
  <2> QED BY <1>1, <2>1, <2>2, MemberIs
<1> QED BY <1>2, <1>3, <1>4, <1>5, <1>6

PlacesTo(v, e, n, h) == h = [k \in 1 .. n |-> Beyond(v, h[k - 1], e[k])]

LEMMA PlacesExist ==
  ASSUME NEW v, NEW e, e[1].kind = "id", NEW n \in Nat
  PROVE  \E h : PlacesTo(v, e, n, h)
<1>1. PICK G : G = {k \in 0 .. n : \E h : PlacesTo(v, e, k, h)}
  OBVIOUS
<1>2. 0 \in G
  <2>1. PICK h : h = [k \in 1 .. 0 |-> 0]
    OBVIOUS
  <2>2. \A k : k \notin 1 .. 0
    OBVIOUS
  <2>3. h = [k \in 1 .. 0 |-> Beyond(v, h[k - 1], e[k])]
    BY <2>1, <2>2
  <2>4. PlacesTo(v, e, 0, h)
    BY <2>3 DEF PlacesTo
  <2> QED BY <1>1, <2>4
<1>3. ASSUME NEW k \in 1 .. n, k - 1 \in G
      PROVE  k \in G
  <2>1. PICK f : PlacesTo(v, e, k - 1, f)
    BY <1>1, <1>3
  <2>2. \A j \in 1 .. (k - 1) : f[j] = Beyond(v, f[j - 1], e[j])
    BY <2>1 DEF PlacesTo
  <2>3. PICK last : last = Beyond(v, f[k - 1], e[k])
    OBVIOUS
  <2>4. PICK h : h = [j \in 1 .. k |-> IF j = k THEN last ELSE f[j]]
    OBVIOUS
  <2>5. ASSUME NEW j \in 1 .. k
        PROVE  h[j] = Beyond(v, h[j - 1], e[j])
    <3>1. j # 1 => j - 1 \in 1 .. k /\ j - 1 # k
      OBVIOUS
    <3>2. j # 1 => h[j - 1] = f[j - 1]
      BY <2>4, <3>1
    <3>3. Beyond(v, h[j - 1], e[j]) = Beyond(v, f[j - 1], e[j])
      <4>1. CASE j = 1
        BY <4>1, BeyondName
      <4>2. CASE j # 1
        BY <3>2, <4>2
      <4> QED BY <4>1, <4>2
    <3>4. CASE j = k
      BY <2>3, <2>4, <3>3, <3>4
    <3>5. CASE j # k
      <4>1. j \in 1 .. (k - 1) /\ h[j] = f[j]
        BY <2>4, <3>5
      <4> QED BY <2>2, <3>3, <4>1
    <3> QED BY <3>4, <3>5
  <2>6. PlacesTo(v, e, k, h)
    BY <2>4, <2>5 DEF PlacesTo
  <2> QED BY <1>1, <2>6
<1>4. \A k \in 0 .. n : k \in G
  BY <1>2, <1>3, Upwards
<1> QED BY <1>1, <1>4

LEMMA TypeAtIs ==
  ASSUME NEW e, NEW types, Passes(e, types)
  PROVE  TypeAt(e) = types[Len(e)]
<1>1. PICK n, v : n = Len(e) /\ v = Meanings
  OBVIOUS
<1>2. n \in Nat /\ n >= 1 /\ DOMAIN e = 1 .. n
  BY <1>1, PathShape DEF Passes
<1>3. PICK x \in Visible : e[1] = Step("id", x, Zero) /\ types[1] = v[x].type
  BY <1>1 DEF Passes
<1>4. e[1].kind = "id" /\ e[1].name = x
  BY <1>3 DEF Step
<1>5. PICK h : h = CHOOSE place : PlacesTo(v, e, n, place)
  OBVIOUS
<1>6. PlacesTo(v, e, n, h)
  BY <1>2, <1>4, <1>5, PlacesExist
<1>7. \A k \in 1 .. n : h[k] = Beyond(v, h[k - 1], e[k])
  BY <1>6 DEF PlacesTo
<1>8. PICK G : G = {k \in 0 .. n : k # 0 => h[k].type = types[k]}
  OBVIOUS
<1>9. ASSUME NEW k \in 1 .. n, k - 1 \in G
      PROVE  k \in G
  <2>1. CASE k = 1
    <3>1. h[1].type = v[x].type
      BY <1>4, <1>7, <2>1, BeyondName
    <3> QED BY <1>3, <1>8, <2>1, <3>1
  <2>2. CASE k # 1
    <3>1. Goes(e, k - 1, e[k], types[k - 1], types[k])
      BY <1>1, <2>2, KindsAre
    <3>2. h[k - 1].type = types[k - 1]
      BY <1>8, <1>9, <2>2
    <3>3. h[k].type = types[k]
      BY <1>7, <3>1, <3>2, BeyondType
    <3> QED BY <1>8, <3>3
  <2> QED BY <2>1, <2>2
<1>10. \A k \in 0 .. n : k \in G
  <2>1. 0 \in G
    BY <1>2, <1>8
  <2> QED BY <1>2, <1>9, <2>1, Upwards
<1>11. h[n].type = types[n]
  BY <1>2, <1>8, <1>10
<1>12. Place(v, e) = h[n]
  BY <1>1, <1>2, <1>5 DEF Place, PlacesTo
<1> QED BY <1>1, <1>11, <1>12 DEF TypeAt

(* A name that is visible has its symbol, as it was declared. *)
LEMMA RootIs ==
  ASSUME ReadInv(gen, env), "literal" \notin Admit, NEW x \in Visible
  PROVE  /\ lookup_sym(gen, x) = Symbol("VAR", Meanings[x].decl)
         /\ RecordedAs(get_var(gen, x), Meanings[x].type)
         /\ IsType(Meanings[x].type, Len(StructDefs))
         /\ IsArray(Meanings[x].type) =>
              /\ Id(x) \in DOMAIN gen.array_metadata_map
              /\ gen.array_metadata_map[Id(x)] = create_array_metadata(struct_types, Meanings[x].type)
<1>1. NamesInv(gen, env) /\ Carries(gen, env) /\ IsEnv(env) /\ Len(env) \in DOMAIN env
  BY EnvShape DEF ReadInv, NamesInv, TypeInv
<1>2. PICK d : d = Meanings[x]
  OBVIOUS
<1>3. x \in DOMAIN env[Len(env)] /\ d = env[Len(env)][x]
  BY <1>2 DEF Visible, Meanings, Here
<1>4. CarriedBy(gen, x, d)
  BY <1>1, <1>3 DEF Carries
<1>5. lookup_sym(gen, x) = Symbol("VAR", d.decl)
  BY <1>1, <1>2, NamesFound
<1>6. get_var(gen, x) = gen.attributes[d.decl]
  BY <1>5 DEF get_var, Symbol
<1>7. IsType(d.type, Len(StructDefs))
  <2>1. d.type \in Types
    BY <1>1, <1>3 DEF IsEnv
  <2>2. CASE d.type \in GlobalTypes \cup LocalTypes
    BY <2>2, FrontEndAssumption
  <2>3. CASE \E t \in ParamTypes : d.type = Adjusted(t)
    <3>1. PICK t \in ParamTypes : d.type = Adjusted(t)
      BY <2>3
    <3>2. IsType(t, Len(StructDefs))
      BY FrontEndAssumption
    <3>3. CASE ~IsArray(t)
      BY <3>1, <3>2, <3>3 DEF Adjusted
    <3>4. CASE IsArray(t)
      <4>1. PICK r, u : r = Row(t) /\ u = PointerTo(r)
        OBVIOUS
      <4>2. IsType(r, Len(StructDefs))
        BY <3>2, <3>4, <4>1, RowIs
      <4>3. u = Type("PTR", <<>>, <<r>>)
        BY <4>1 DEF PointerTo
      <4>4. u.base = "PTR" /\ u.dims = <<>> /\ u.to = <<r>> /\ u = Type(u.base, u.dims, u.to)
        BY <4>3 DEF Type
      <4>5. Pointee(u) = r
        BY <4>4 DEF Pointee
      <4>6. r.base \in {"INT", "CHAR", "PTR"} \cup StructNames
        <5>1. Len(StructDefs) \in 0 .. Len(StructDefs)
          <6>1. PICK l : l = Len(StructDefs)
            OBVIOUS
          <6>2. l \in Nat
            BY <6>1, StructsAre
          <6> QED BY <6>1, <6>2
        <5> QED BY <4>2, <5>1, TypeIs DEF IsStruct
      <4>7. <<>> \in Seq(Nat \ {0})
        OBVIOUS
      <4>8. IsType(u, Len(StructDefs))
        BY <4>4, <4>5, <4>6, <4>7 DEF IsType, IsArray
      <4>9. d.type = u
        BY <3>1, <3>4, <4>1 DEF Adjusted
      <4> QED BY <4>8, <4>9
    <3> QED BY <3>3, <3>4
  <2> QED BY <2>1, <2>2, <2>3 DEF Types
<1> QED BY <1>2, <1>4, <1>5, <1>6, <1>7 DEF CarriedBy
-----------------------------------------------------------------------------
(* Where no type is lost on the way: only arrays are indexed, and a star   *)
(* follows a name whose symbol says what it points to.                     *)
Typed(e, types) ==
  \A n \in 1 .. Len(e) : n # 1 =>
    /\ e[n].kind = "index" => IsArray(types[n - 1]) /\ types[n] = Row(types[n - 1])
    /\ e[n].kind = "star" => n = 2 /\ e[n].by = Zero /\ get_var(gen, e[1].name).base_type # "UNSET"

LEMMA StepsTyped ==
  ASSUME NEW e, NEW types, Passes(e, types), ~\E p \in Parts(e) : IsUntyped(p) \/ IsStale(p)
  PROVE  Typed(e, types)
<1>1. IsPath(e) /\ Len(e) \in Nat /\ DOMAIN e = 1 .. Len(e) /\ e[1].kind = "id"
  <2>1. IsPath(e) /\ Len(e) \in Nat /\ DOMAIN e = 1 .. Len(e) /\ Len(e) >= 1
    BY PathShape DEF Passes
  <2>2. 1 \in 1 .. Len(e)
    BY <2>1
  <2> QED BY <2>1, <2>2, KindsAre
<1>2. ASSUME NEW n \in 1 .. Len(e), n # 1
      PROVE  /\ e[n].kind = "index" => IsArray(types[n - 1]) /\ types[n] = Row(types[n - 1])
             /\ e[n].kind = "star" => n = 2 /\ e[n].by = Zero /\ get_var(gen, e[1].name).base_type # "UNSET"
  <2>1. PICK p : Beginning(e, n, p)
    BY DEF Beginning
  <2>2. IsPath(p) /\ Len(p) = n /\ (\A k \in 1 .. n : p[k] = e[k]) /\ Last(p) = e[n] /\ Kind(p) = e[n].kind
    BY <1>1, <2>1, BeginningIs
  <2>3. p \in Parts(e)
    BY <1>1, <2>1 DEF Parts, Beginning
  <2>4. ~IsUntyped(p) /\ ~IsStale(p)
    BY <2>3
  <2>5. Goes(e, n - 1, e[n], types[n - 1], types[n]) /\ n - 1 \in 1 .. Len(e)
    BY <1>2, KindsAre
  <2>6. ASSUME e[n].kind = "index"
        PROVE  IsArray(types[n - 1]) /\ types[n] = Row(types[n - 1])
    <3>1. SUFFICES ASSUME n - 1 = 1, IsPointer(types[1])
                   PROVE  FALSE
      BY <2>5, <2>6 DEF Goes
    <3>2. n = 2
      BY <1>1, <3>1
    <3>3. PICK b : BaseAt(e, n, b)
      BY <1>1, BaseIs
    <3>4. b \in 1 .. 2 /\ e[b].kind # "index" /\ Base(p) = SubSeq(e, 1, b)
      BY <2>1, <3>2, <3>3 DEF BaseAt
    <3>5. b = 1
      BY <2>6, <3>2, <3>4
    <3>6. PICK q : Beginning(e, 1, q)
      BY DEF Beginning
    <3>7. Base(p) = q
      BY <3>4, <3>5, <3>6 DEF Beginning
    <3>8. 1 \in 1 .. Len(e)
      BY <2>5, <3>1
    <3>9. Kind(q) = "id" /\ Len(q) = 1 /\ Passes(q, types)
      <4>1. Len(q) = 1 /\ Kind(q) = e[1].kind
        <5>1. PICK m : m = 1
          OBVIOUS
        <5>2. m \in 1 .. Len(e) /\ Beginning(e, m, q)
          BY <3>6, <3>8, <5>1
        <5>3. Len(q) = m /\ Kind(q) = e[m].kind
          BY <1>1, <5>2, BeginningIs
        <5> QED BY <5>1, <5>3
      <4>2. Passes(q, types)
        BY <3>6, <3>8, BeginningPasses
      <4> QED BY <1>1, <4>1, <4>2
    <3>10. TypeAt(q) = types[1]
      BY <3>9, TypeAtIs
    <3>11. ThroughPointer(p)
      BY <2>2, <2>6, <3>1, <3>7, <3>9, <3>10 DEF ThroughPointer
    <3> QED BY <2>4, <3>11 DEF IsUntyped
  <2>7. ASSUME e[n].kind = "star"
        PROVE  n = 2 /\ e[n].by = Zero /\ get_var(gen, e[1].name).base_type # "UNSET"
    <3>1. 1 \in 1 .. n
      BY <1>1
    <3>2. Kind(p) = "star" /\ Last(p) = e[n] /\ p[1] = e[1]
      BY <2>2, <2>7, <3>1
    <3>3. Kind(Of(p)) = "id" /\ Last(p).by = Zero /\ get_var(gen, p[1].name).base_type # "UNSET"
      BY <2>4, <3>2 DEF IsUntyped
    <3>4. PICK q : Beginning(e, n - 1, q)
      BY DEF Beginning
    <3>5. Of(p) = q
      BY <1>1, <1>2, <2>1, <3>4, OfIs DEF Beginning
    <3>6. Kind(q) = e[n - 1].kind
      BY <1>1, <2>5, <3>4, BeginningIs
    <3>7. n - 1 = 1
      BY <2>5, <3>3, <3>5, <3>6, KindsAre
    <3>8. n = 2
      BY <1>1, <3>7
    <3> QED BY <3>2, <3>3, <3>8
  <2> QED BY <2>6, <2>7
<1> QED BY <1>2 DEF Typed

LEMMA BeginningTyped ==
  ASSUME NEW e, NEW types, IsPath(e), Typed(e, types), NEW n \in 1 .. Len(e), NEW p, Beginning(e, n, p)
  PROVE  Typed(p, types)
<1>1. Len(p) = n /\ \A k \in 1 .. n : p[k] = e[k]
  BY BeginningIs
<1>2. Len(e) \in Nat /\ 1 .. n \subseteq 1 .. Len(e) /\ 1 \in 1 .. n
  BY PathShape
<1> QED BY <1>1, <1>2 DEF Typed

(* On the way are types of the language. *)
LEMMA TypesAre ==
  ASSUME ReadInv(gen, env), "literal" \notin Admit,
         NEW e, NEW types, Passes(e, types), Typed(e, types), NEW n \in 1 .. Len(e), e[n].kind # "star"
  PROVE  IsType(types[n], Len(StructDefs))
<1>1. PICK N : N = Len(e)
  OBVIOUS
<1>2. N \in Nat
  BY <1>1, PathShape DEF Passes
<1>3. PICK G : G = {k \in 0 .. N : k # 0 /\ e[k].kind # "star" => IsType(types[k], Len(StructDefs))}
  OBVIOUS
<1>4. ASSUME NEW k \in 1 .. N, k - 1 \in G
      PROVE  k \in G
  <2>1. CASE k = 1
    <3>1. PICK x \in Visible : types[1] = Meanings[x].type
      BY DEF Passes
    <3> QED BY <1>3, <2>1, <3>1, RootIs
  <2>2. CASE k # 1
    <3>1. SUFFICES ASSUME e[k].kind # "star"
                   PROVE  IsType(types[k], Len(StructDefs))
      BY <1>3
    <3>2. Goes(e, k - 1, e[k], types[k - 1], types[k]) /\ k - 1 \in 1 .. N
      BY <1>1, <2>2, KindsAre
    <3>3. PICK s, t, u : s = e[k] /\ t = types[k - 1] /\ u = types[k]
      OBVIOUS
    <3>4. IsType(t, Len(StructDefs))
      <4>1. k - 1 # 0 /\ e[k - 1].kind # "star"
        <5>1. k - 1 # 0
          BY <1>2, <2>2
        <5>2. e[k - 1].kind # "star"
          BY <3>2 DEF Goes
        <5> QED BY <5>1, <5>2
      <4>2. IsType(types[k - 1], Len(StructDefs))
        BY <1>3, <1>4, <4>1
      <4> QED BY <3>3, <4>2
    <3>5. CASE s.kind = "index"
      <4>1. IsArray(t) /\ u = Row(t)
        BY <1>1, <2>2, <3>3, <3>5 DEF Typed
      <4> QED BY <3>3, <3>4, <4>1, RowIs
    <3>6. CASE s.kind = "dot"
      <4>1. t.base \in StructNames /\ Member(t.base, s.name, u)
        BY <3>2, <3>3, <3>6 DEF Goes, IsStruct
      <4> QED BY <3>3, <4>1, MemberIs
    <3>7. CASE s.kind = "arrow"
      <4>1. Pointee(t).base \in StructNames /\ Member(Pointee(t).base, s.name, u)
        BY <3>2, <3>3, <3>7 DEF Goes, IsStruct
      <4> QED BY <3>3, <4>1, MemberIs
    <3> QED BY <3>1, <3>2, <3>3, <3>5, <3>6, <3>7 DEF Goes
  <2> QED BY <2>1, <2>2
<1>5. \A k \in 0 .. N : k \in G
  <2>1. 0 \in G
    BY <1>2, <1>3
  <2> QED BY <1>2, <1>4, <2>1, Upwards
<1> QED BY <1>1, <1>2, <1>3, <1>5

(* Indices keep what the array is of. *)
LEMMA RunIs ==
  ASSUME ReadInv(gen, env), "literal" \notin Admit,
         NEW e, NEW types, Passes(e, types), Typed(e, types),
         NEW n \in 1 .. Len(e), e[n].kind = "index", NEW b, BaseAt(e, n, b)
  PROVE  /\ b \in 1 .. (n - 1) /\ b \in 1 .. Len(e)
         /\ IsType(types[b], Len(StructDefs)) /\ IsArray(types[b]) /\ types[n].base = types[b].base
         /\ e[b].kind \in {"id", "dot", "arrow"} /\ (e[b].kind = "id" <=> b = 1)
<1>1. Len(e) \in Nat /\ n \in Nat /\ n # 0 /\ n <= Len(e)
  BY PathShape DEF Passes
<1>2. /\ b \in 1 .. n /\ e[b].kind # "index"
      /\ \A k \in (b + 1) .. n : e[k].kind = "index"
  BY DEF BaseAt
<1>3. b \in 1 .. (n - 1) /\ b \in 1 .. Len(e) /\ b + 1 \in (b + 1) .. n /\ b + 1 \in 1 .. Len(e) /\ b + 1 # 1
  <2>1. b # n
    BY <1>2
  <2> QED BY <1>1, <1>2, <2>1
<1>4. ASSUME NEW k \in (b + 1) .. n
      PROVE  /\ IsArray(types[k - 1]) /\ types[k] = Row(types[k - 1]) /\ IsType(types[k - 1], Len(StructDefs))
             /\ e[k - 1].kind # "star"
  <2>1. k \in 1 .. Len(e) /\ k # 1 /\ k - 1 \in 1 .. Len(e)
    BY <1>1, <1>3
  <2>2. e[k].kind = "index"
    BY <1>2
  <2>3. e[k - 1].kind # "star"
    BY <2>1, KindsAre DEF Goes
  <2>4. IsArray(types[k - 1]) /\ types[k] = Row(types[k - 1])
    BY <2>1, <2>2 DEF Typed
  <2> QED BY <2>1, <2>3, <2>4, TypesAre
<1>5. b + 1 - 1 = b
  BY <1>3
<1>6. IsType(types[b], Len(StructDefs)) /\ IsArray(types[b]) /\ e[b].kind # "star"
  BY <1>3, <1>4, <1>5
<1>7. e[b].kind \in {"id", "dot", "arrow"} /\ (e[b].kind = "id" <=> b = 1)
  BY <1>2, <1>3, <1>6, KindsAre
<1>8. PICK G : G = {k \in 0 .. n : b <= k => types[k].base = types[b].base}
  OBVIOUS
<1>9. ASSUME NEW k \in 1 .. n, k - 1 \in G
      PROVE  k \in G
  <2>1. CASE b <= k - 1
    <3>1. k \in (b + 1) .. n
      BY <1>1, <1>3, <2>1
    <3>2. types[k].base = types[k - 1].base
      BY <1>4, <3>1, RowIs
    <3> QED BY <1>8, <1>9, <2>1, <3>2
  <2>2. CASE ~(b <= k - 1)
    <3>1. b <= k => k = b
      BY <1>1, <1>3, <2>2
    <3> QED BY <1>8, <3>1
  <2> QED BY <2>1, <2>2
<1>10. \A k \in 0 .. n : k \in G
  <2>1. 0 \in G
    BY <1>1, <1>3, <1>8
  <2> QED BY <1>1, <1>9, <2>1, Upwards
<1>11. types[n].base = types[b].base
  BY <1>1, <1>3, <1>8, <1>10
<1> QED BY <1>3, <1>6, <1>7, <1>11
-----------------------------------------------------------------------------
(* The struct the generator takes an expression for: of the first step the *)
(* one its symbol has, later the one the place is of.                      *)
Named(e, types, n) ==
  IF n = 1 THEN get_var(gen, e[1].name).struct ELSE IF IsStruct(types[n]) THEN types[n].base ELSE ""

InferAt(e, s, n) ==
  LET root == get_var(gen, e[1].name)
      base == Len(Base(SubSeq(e, 1, n)))
      within == get_field(gen.struct_types, s[n - 1], e[n].name).type
  IN  CASE e[n].kind = "id" -> root.struct
        [] e[n].kind = "index" -> IF base = 1 THEN root.array_metadata.struct ELSE s[base]
        [] e[n].kind \notin {"id", "index"} -> IF IsStruct(within) THEN within.base ELSE ""

InferTo(e, s) == s = [n \in DOMAIN e |-> InferAt(e, s, n)]

(* What the metadata of an array says of its element. *)
LEMMA MetadataOf ==
  ASSUME NEW structs, NEW t, NEW m, m = create_array_metadata(structs, t)
  PROVE  m.base_type = Data(Element(t)) /\ m.struct = IF IsStruct(t) THEN t.base ELSE ""
<1>1. PICK d, size, base, struct :
        /\ d = Reverse(Nested(t)) /\ size = IF IsStruct(t) THEN structs[t.base].total_size ELSE 4
        /\ base = Data(Element(t)) /\ struct = IF IsStruct(t) THEN t.base ELSE ""
  OBVIOUS
<1>2. m = [dimensions |-> d, element_size |-> size, base_type |-> base, struct |-> struct]
  BY <1>1 DEF create_array_metadata
<1>3. m.base_type = base /\ m.struct = struct
  BY <1>2
<1> QED BY <1>1, <1>3

(* The symbol of the name an expression starts from. *)
LEMMA StartIs ==
  ASSUME ReadInv(gen, env), "literal" \notin Admit, NEW e, NEW types, Passes(e, types)
  PROVE  /\ RecordedAs(get_var(gen, e[1].name), types[1])
         /\ IsType(types[1], Len(StructDefs))
         /\ gen.struct_types = struct_types
         /\ e[1].kind = "id" /\ e[1].name \in Visible
<1>1. PICK x \in Visible : e[1] = Step("id", x, Zero) /\ types[1] = Meanings[x].type
  BY DEF Passes
<1>2. e[1].name = x /\ e[1].kind = "id"
  BY <1>1 DEF Step
<1>3. gen.struct_types = struct_types
  BY DEF ReadInv, NamesInv, TypeInv
<1> QED BY <1>1, <1>2, <1>3, RootIs

LEMMA InferStep ==
  ASSUME ReadInv(gen, env), "literal" \notin Admit,
         NEW e, NEW types, Passes(e, types), Typed(e, types),
         NEW k \in 1 .. Len(e), e[k].kind # "star",
         NEW s, \A j \in 1 .. (k - 1) : s[j] = Named(e, types, j)
  PROVE  InferAt(e, s, k) = Named(e, types, k)
<1>1. PICK root : root = get_var(gen, e[1].name)
  OBVIOUS
<1>2. /\ RecordedAs(root, types[1]) /\ gen.struct_types = struct_types
      /\ e[1].kind = "id"
  BY <1>1, StartIs
<1>3. IsPath(e) /\ Len(e) \in Nat /\ k \in Nat
  BY PathShape DEF Passes
<1>4. CASE k = 1
  BY <1>1, <1>2, <1>4 DEF InferAt, Named
<1>5. CASE k # 1 /\ e[k].kind = "index"
  <2>1. PICK b : BaseAt(e, k, b)
    BY <1>2, <1>3, BaseIs
  <2>2. Len(Base(SubSeq(e, 1, k))) = b
    BY <2>1 DEF BaseAt, Beginning
  <2>3. /\ b \in 1 .. (k - 1)
        /\ IsArray(types[b]) /\ types[k].base = types[b].base
    BY <1>5, <2>1, RunIs
  <2>4. InferAt(e, s, k) = IF b = 1 THEN root.array_metadata.struct ELSE s[b]
    BY <1>1, <1>5, <2>2 DEF InferAt
  <2>5. Named(e, types, k) = IF IsStruct(types[b]) THEN types[b].base ELSE ""
    BY <1>5, <2>3 DEF Named, IsStruct
  <2>6. CASE b = 1
    <3>1. root.array_metadata = create_array_metadata(struct_types, types[1])
      BY <1>2, <2>3, <2>6 DEF RecordedAs, DeclaredAs
    <3>2. root.array_metadata.struct = IF IsStruct(types[1]) THEN types[1].base ELSE ""
      <4>1. PICK t, m : t = types[1] /\ m = root.array_metadata
        OBVIOUS
      <4>2. m = create_array_metadata(struct_types, t)
        BY <3>1, <4>1
      <4>3. m.struct = IF IsStruct(t) THEN t.base ELSE ""
        BY <4>2, MetadataOf
      <4> QED BY <4>1, <4>3
    <3> QED BY <2>4, <2>5, <2>6, <3>2
  <2>7. CASE b # 1
    BY <2>3, <2>4, <2>5, <2>7 DEF Named
  <2> QED BY <2>6, <2>7
<1>6. CASE k # 1 /\ e[k].kind \in {"dot", "arrow"}
  <2>1. Goes(e, k - 1, e[k], types[k - 1], types[k])
    BY <1>6, KindsAre
  <2>2. PICK t, u, x, name : t = types[k - 1] /\ u = types[k] /\ x = s[k - 1] /\ name = e[k].name
    OBVIOUS
  <2>3. x = Named(e, types, k - 1)
    BY <1>3, <1>6, <2>2
  <2>4. x \in StructNames /\ Member(x, name, u)
    <3>1. CASE e[k].kind = "dot"
      <4>1. ~IsArray(t) /\ IsStruct(t) /\ Member(t.base, name, u)
        BY <2>1, <2>2, <3>1 DEF Goes
      <4>2. x = t.base
        <5>1. CASE k - 1 = 1
          <6>1. root.struct = t.base
            BY <1>2, <2>2, <4>1, <5>1 DEF RecordedAs, DeclaredAs
          <6> QED BY <1>1, <2>3, <5>1, <6>1 DEF Named
        <5>2. CASE k - 1 # 1
          BY <2>2, <2>3, <4>1, <5>2 DEF Named
        <5> QED BY <5>1, <5>2
      <4> QED BY <4>1, <4>2 DEF IsStruct
    <3>2. CASE e[k].kind = "arrow"
      <4>1. /\ k - 1 = 1 /\ IsPointer(t) /\ IsStruct(Pointee(t)) /\ Member(Pointee(t).base, name, u)
            /\ root.struct # ""
        BY <1>1, <2>1, <2>2, <3>2 DEF Goes
      <4>2. root.struct = Pointee(t).base
        BY <1>2, <2>2, <4>1 DEF RecordedAs
      <4>3. x = Pointee(t).base
        BY <1>1, <2>3, <4>1, <4>2 DEF Named
      <4> QED BY <4>1, <4>3 DEF IsStruct
    <3> QED BY <1>6, <3>1, <3>2
  <2>5. get_field(gen.struct_types, x, name).type = u
    BY <1>2, <2>4, MemberIs
  <2>6. InferAt(e, s, k) = IF IsStruct(u) THEN u.base ELSE ""
    <3>1. e[k].kind \notin {"id", "index"}
      BY <1>6
    <3> QED BY <2>2, <2>5, <3>1 DEF InferAt
  <2> QED BY <1>6, <2>2, <2>6 DEF Named
<1> QED BY <1>4, <1>5, <1>6, KindsAre

LEMMA InferIs ==
  ASSUME ReadInv(gen, env), "literal" \notin Admit,
         NEW e, NEW types, Passes(e, types), Typed(e, types),
         \A k \in 1 .. Len(e) : e[k].kind # "star"
  PROVE  infer_struct_type_from_expr(gen, e) = Named(e, types, Len(e))
<1>1. PICK n : n = Len(e)
  OBVIOUS
<1>2. n \in Nat /\ n >= 1 /\ DOMAIN e = 1 .. n
  BY <1>1, PathShape DEF Passes
<1>3. PICK w : w = [k \in 1 .. n |-> Named(e, types, k)]
  OBVIOUS
<1>4. InferTo(e, w)
  <2>1. ASSUME NEW k \in 1 .. n
        PROVE  w[k] = InferAt(e, w, k)
    <3>1. \A j \in 1 .. (k - 1) : j \in 1 .. n
      BY <1>2
    <3>2. \A j \in 1 .. (k - 1) : w[j] = Named(e, types, j)
      BY <1>3, <3>1
    <3> QED BY <1>1, <1>3, <3>2, InferStep
  <2> QED BY <1>2, <1>3, <2>1 DEF InferTo
<1>5. PICK s : s = CHOOSE struct : InferTo(e, struct)
  OBVIOUS
<1>6. InferTo(e, s)
  BY <1>4, <1>5
<1>7. \A k \in 1 .. n : s[k] = InferAt(e, s, k)
  BY <1>2, <1>6 DEF InferTo
<1>8. PICK G : G = {k \in 0 .. n : \A j \in 1 .. k : s[j] = Named(e, types, j)}
  OBVIOUS
<1>9. ASSUME NEW k \in 1 .. n, k - 1 \in G
      PROVE  k \in G
  <2>1. \A j \in 1 .. (k - 1) : s[j] = Named(e, types, j)
    BY <1>8, <1>9
  <2>2. s[k] = Named(e, types, k)
    BY <1>1, <1>7, <2>1, InferStep
  <2>3. \A j \in 1 .. k : j = k \/ j \in 1 .. (k - 1)
    BY <1>2
  <2>4. \A j \in 1 .. k : s[j] = Named(e, types, j)
    BY <2>1, <2>2, <2>3
  <2>5. k \in 0 .. n
    BY <1>2
  <2> QED BY <1>8, <2>4, <2>5
<1>10. \A k \in 0 .. n : k \in G
  <2>1. 0 \in G
    BY <1>2, <1>8
  <2> QED BY <1>2, <1>9, <2>1, Upwards
<1>11. s[n] = Named(e, types, n)
  BY <1>2, <1>8, <1>10
<1>12. infer_struct_type_from_expr(gen, e) = s[n]
  BY <1>1, <1>5 DEF infer_struct_type_from_expr, InferTo, InferAt
<1> QED BY <1>1, <1>11, <1>12

(* The member a step goes to is the one the generator finds. *)
LEMMA WithinIs ==
  ASSUME ReadInv(gen, env), "literal" \notin Admit,
         NEW e, NEW types, Passes(e, types), Typed(e, types),
         NEW n \in 1 .. Len(e), e[n].kind \in {"dot", "arrow"}, NEW p, Beginning(e, n, p)
  PROVE  get_field(gen.struct_types, infer_struct_type_from_expr(gen, Of(p)), Last(p).name).type = types[n]
<1>1. IsPath(e) /\ Len(e) \in Nat
  BY PathShape DEF Passes
<1>2. n # 1 /\ n - 1 \in 1 .. Len(e) /\ Goes(e, n - 1, e[n], types[n - 1], types[n])
  <2>1. n # 1
    BY KindsAre
  <2> QED BY <2>1, KindsAre
<1>3. PICK q : Beginning(e, n - 1, q)
  BY DEF Beginning
<1>4. Of(p) = q
  BY <1>1, <1>2, <1>3, OfIs DEF Beginning
<1>5. PICK l : l = n - 1
  OBVIOUS
<1>6. l \in 1 .. Len(e) /\ Beginning(e, l, q)
  BY <1>2, <1>3, <1>5
<1>7. Len(q) = l /\ \A k \in 1 .. l : q[k] = e[k]
  BY <1>1, <1>6, BeginningIs
<1>8. Passes(q, types) /\ Typed(q, types)
  BY <1>1, <1>6, BeginningPasses, BeginningTyped
<1>9. ASSUME NEW k \in 1 .. Len(q)
      PROVE  q[k].kind # "star"
  <2>1. k \in 1 .. l /\ k + 1 \in 1 .. Len(e) /\ k + 1 # 1 /\ k + 1 - 1 = k
    BY <1>1, <1>5, <1>6, <1>7
  <2>2. Goes(e, k, e[k + 1], types[k], types[k + 1])
    BY <2>1, KindsAre
  <2> QED BY <1>7, <2>1, <2>2 DEF Goes
<1>10. infer_struct_type_from_expr(gen, q) = Named(q, types, l)
  BY <1>7, <1>8, <1>9, InferIs
<1>11. PICK x, name, t, u : x = Named(q, types, l) /\ name = e[n].name /\ t = types[l] /\ u = types[n]
  OBVIOUS
<1>12. Last(p).name = name
  BY <1>1, <1>11, BeginningIs
<1>13. PICK root : root = get_var(gen, q[1].name)
  OBVIOUS
<1>14. RecordedAs(root, types[1]) /\ gen.struct_types = struct_types
  BY <1>8, <1>13, StartIs
<1>15. 1 \in 1 .. l /\ q[1] = e[1]
  BY <1>6, <1>7
<1>16. x \in StructNames /\ Member(x, name, u)
  <2>1. CASE e[n].kind = "dot"
    <3>1. ~IsArray(t) /\ IsStruct(t) /\ Member(t.base, name, u)
      BY <1>2, <1>5, <1>11, <2>1 DEF Goes
    <3>2. x = t.base
      <4>1. CASE l = 1
        <5>1. root.struct = t.base
          BY <1>11, <1>14, <3>1, <4>1 DEF RecordedAs, DeclaredAs
        <5> QED BY <1>11, <1>13, <4>1, <5>1 DEF Named
      <4>2. CASE l # 1
        BY <1>11, <3>1, <4>2 DEF Named
      <4> QED BY <4>1, <4>2
    <3> QED BY <3>1, <3>2 DEF IsStruct
  <2>2. CASE e[n].kind = "arrow"
    <3>1. /\ l = 1 /\ IsPointer(t) /\ IsStruct(Pointee(t)) /\ Member(Pointee(t).base, name, u)
          /\ get_var(gen, e[1].name).struct # ""
      BY <1>2, <1>5, <1>11, <2>2 DEF Goes
    <3>2. root.struct = Pointee(t).base
      BY <1>11, <1>13, <1>14, <1>15, <3>1 DEF RecordedAs
    <3>3. x = Pointee(t).base
      BY <1>11, <1>13, <3>1, <3>2 DEF Named
    <3> QED BY <3>1, <3>3 DEF IsStruct
  <2> QED BY <2>1, <2>2
<1>17. get_field(gen.struct_types, x, name).type = u
  BY <1>14, <1>16, MemberIs
<1> QED BY <1>4, <1>10, <1>11, <1>12, <1>17

(* What the generator has for an array is of its type. *)
LEMMA MetadataRead ==
  ASSUME ReadInv(gen, env), "literal" \notin Admit,
         NEW e, NEW types, Passes(e, types), Typed(e, types),
         NEW n \in 1 .. Len(e), e[n].kind \in {"id", "dot", "arrow"}, IsArray(types[n]),
         NEW p, Beginning(e, n, p), ~IsRemembered(p)
  PROVE  /\ array_metadata(gen, p) = create_array_metadata(struct_types, types[n])
         /\ array_metadata(gen, p) # NoArray
<1>1. PICK t, m : t = types[n] /\ m = create_array_metadata(struct_types, t)
  OBVIOUS
<1>2. IsPath(e) /\ gen.struct_types = struct_types
  BY StartIs DEF Passes
<1>3. IsPath(p) /\ Len(p) = n /\ Kind(p) = e[n].kind /\ \A k \in 1 .. n : p[k] = e[k]
  BY <1>2, BeginningIs
<1>4. array_metadata(gen, p) = m
  <2>1. CASE e[n].kind = "id"
    <3>1. n = 1
      BY <2>1, KindsAre
    <3>2. PICK x \in Visible : e[1] = Step("id", x, Zero) /\ types[1] = Meanings[x].type
      BY DEF Passes
    <3>3. p = Id(x)
      <4>1. PICK s, q : s = Step("id", x, Zero) /\ q = <<s>>
        OBVIOUS
      <4>2. q \in Seq({s}) /\ q # <<>> /\ Len(q) = 1 /\ q[1] = s
        BY <4>1
      <4>3. IsPath(q)
        BY <4>2, SeqOfRange DEF IsPath
      <4>4. \A k \in 1 .. 1 : k = 1
        OBVIOUS
      <4>5. Len(p) = 1 /\ \A k \in 1 .. 1 : p[k] = q[k]
        BY <1>3, <3>1, <3>2, <4>1, <4>2, <4>4
      <4>6. p = q
        BY <1>3, <4>2, <4>3, <4>5, PathsEqual
      <4> QED BY <4>1, <4>6 DEF Id
    <3>4. p \in DOMAIN gen.array_metadata_map /\ gen.array_metadata_map[p] = m
      BY <1>1, <3>1, <3>2, <3>3, RootIs
    <3> QED BY <3>4 DEF array_metadata
  <2>2. CASE e[n].kind \in {"dot", "arrow"}
    <3>1. get_field(gen.struct_types, infer_struct_type_from_expr(gen, Of(p)), Last(p).name).type = t
      BY <1>1, <2>2, WithinIs
    <3>2. infer_array_metadata_from_access(gen, p) = m
      BY <1>1, <1>2, <1>3, <2>2, <3>1 DEF infer_array_metadata_from_access
    <3>3. p \in DOMAIN gen.array_metadata_map => gen.array_metadata_map[p] = m
      BY <1>3, <2>2, <3>2 DEF IsRemembered
    <3> QED BY <3>2, <3>3 DEF array_metadata
  <2> QED BY <2>1, <2>2
<1>5. m # NoArray
  <2>1. IsType(t, Len(StructDefs))
    BY <1>1, TypesAre
  <2>2. m.dimensions = t.dims
    BY <1>1, <2>1, MetadataIs
  <2>3. NoArray.dimensions = <<>>
    BY DEF NoArray
  <2>4. t.dims # <<>>
    BY <1>1 DEF IsArray
  <2> QED BY <2>2, <2>3, <2>4
<1> QED BY <1>1, <1>4, <1>5

(* Fields of what a dereference gives. *)
LEMMA DereferenceIs ==
  ASSUME NEW exp
  PROVE  /\ DOMAIN do_dereference(exp) = {"value", "is_pointer", "base_type", "data_type", "numbers", "arrays"}
         /\ do_dereference(exp).data_type =
              IF exp.is_pointer /\ exp.base_type # "UNDEF" THEN exp.base_type ELSE "INT"
<1>1. PICK v, data : v = Loaded(exp.value) /\ data = IF exp.is_pointer /\ exp.base_type # "UNDEF" THEN exp.base_type ELSE "INT"
  OBVIOUS
<1>2. PICK f : f = Exp(v, FALSE, "UNSET", data)
  OBVIOUS
<1>3. f = [value |-> v, is_pointer |-> FALSE, base_type |-> "UNSET", data_type |-> data, numbers |-> {}, arrays |-> {}]
  BY <1>2 DEF Exp
<1>4. PICK d : d = do_dereference(exp)
  OBVIOUS
<1>5. d = [f EXCEPT !.numbers = exp.numbers \cup {}, !.arrays = exp.arrays]
  BY <1>1, <1>2, <1>4 DEF do_dereference, Using
<1>6. /\ DOMAIN d = {"value", "is_pointer", "base_type", "data_type", "numbers", "arrays"}
      /\ d.data_type = data
  BY <1>3, <1>5
<1> QED BY <1>1, <1>4, <1>6

(* The data type of a place depends on the base of its type. *)
LEMMA DataOf ==
  ASSUME NEW t, NEW u, t.base = u.base
  PROVE  Data(t) = Data(u)
BY DEF Data, IsPointer, IsStruct

LEMMA ElementData ==
  ASSUME NEW t, IsType(t, Len(StructDefs))
  PROVE  Data(Element(t)) = Data(t)
<1>1. PICK u : u = Element(t)
  OBVIOUS
<1>2. t = [base |-> t.base, dims |-> t.dims, to |-> t.to]
  BY DEF IsType, Type
<1>3. u.base = t.base
  BY <1>1, <1>2 DEF Element
<1> QED BY <1>1, <1>3, DataOf

(* The addresses of an expression's beginnings, as generate_address makes  *)
(* them.                                                                   *)
AddressAt(e, a, n) ==
  LET p == SubSeq(e, 1, n)
      pointer == ValueAt(gen, Of(p), a[n - 1])
  IN  CASE Kind(p) = "id" -> do_address_of(Exp(Anything, FALSE, "", ""), lookup_sym(gen, p[1].name).decl)
        [] Kind(p) = "index" -> generate_array_address(gen, p, a[Len(Base(p))], a[n - 1])
        [] Kind(p) \in {"dot", "arrow"} -> generate_member_address(gen, p, a[n - 1])
        [] Kind(p) = "star" -> IF e[n].by = Zero THEN pointer ELSE Added(pointer, e[n].by)

AddressTo(e, a) == a = [n \in DOMAIN e |-> AddressAt(e, a, n)]

(* A value that says it is a pointer, and to what. *)
Points(v, t) == v.is_pointer = TRUE /\ v.base_type = Data(Pointee(t))

(* The name of one whose symbol says so. *)
PointerName(q, t) ==
  /\ IsPath(q) /\ Len(q) = 1 /\ q[1].kind = "id"
  /\ RecordedAs(get_var(gen, q[1].name), t) /\ get_var(gen, q[1].name).base_type # "UNSET"
  /\ IsPointer(t) /\ ~IsArray(t)

ValueOf(q, a, v) == v = ValueAt(gen, q, a)

LEMMA PointerValue ==
  ASSUME NEW q, NEW t, PointerName(q, t), NEW a, NEW v, ValueOf(q, a, v)
  PROVE  Points(v, t)
<1>1. PICK root : root = get_var(gen, q[1].name)
  OBVIOUS
<1>2. root.array_metadata = NoArray /\ root.base_type = Data(Pointee(t)) /\ root.is_pointer = TRUE
  BY <1>1 DEF PointerName, RecordedAs, DeclaredAs
<1>3. Kind(q) = "id"
  BY DEF PointerName, Kind, Last
<1>4. PICK c, ptr, base, data : /\ c = Content(lookup_sym(gen, q[1].name).decl) /\ ptr = root.is_pointer
                                /\ base = root.base_type /\ data = root.data_type
  OBVIOUS
<1>5. ValueAt(gen, q, a) = Exp(c, ptr, base, data)
  BY <1>1, <1>2, <1>3, <1>4 DEF ValueAt
<1>6. v = Exp(c, ptr, base, data)
  BY <1>5 DEF ValueOf
<1>7. v = [value |-> c, is_pointer |-> ptr, base_type |-> base, data_type |-> data, numbers |-> {}, arrays |-> {}]
  BY <1>6 DEF Exp
<1>8. v.is_pointer = ptr /\ v.base_type = base
  BY <1>7
<1>9. v.is_pointer = TRUE /\ v.base_type = Data(Pointee(t))
  BY <1>2, <1>4, <1>8
<1> QED BY <1>9 DEF Points

(* The address a star reads at is the pointer's value. *)
LEMMA StarAddress ==
  ASSUME ReadInv(gen, env), "literal" \notin Admit,
         NEW e, NEW types, Passes(e, types), Typed(e, types), Len(e) = 2, e[2].kind = "star"
  PROVE  Points(generate_address(gen, e), types[1])
<1>1. IsPath(e) /\ DOMAIN e = 1 .. 2 /\ 1 \in 1 .. Len(e) /\ 2 \in 1 .. Len(e)
  <2>1. IsPath(e) /\ DOMAIN e = 1 .. Len(e)
    BY PathShape DEF Passes
  <2> QED BY <2>1
<1>2. PICK q, p, one, two : q = SubSeq(e, 1, 1) /\ p = SubSeq(e, 1, 2) /\ one = 1 /\ two = 2
  OBVIOUS
<1>3. one \in 1 .. Len(e) /\ Beginning(e, one, q) /\ two \in 1 .. Len(e) /\ Beginning(e, two, p)
  BY <1>1, <1>2 DEF Beginning
<1>4. /\ RecordedAs(get_var(gen, e[1].name), types[1])
      /\ e[1].kind = "id"
  BY StartIs
<1>5. IsPath(q) /\ Len(q) = one /\ Kind(q) = e[one].kind /\ \A k \in 1 .. one : q[k] = e[k]
  BY <1>1, <1>3, BeginningIs
<1>6. Kind(q) = "id" /\ Len(q) = 1 /\ q[1] = e[1]
  BY <1>2, <1>4, <1>5
<1>7. Kind(p) = e[two].kind
  <2>1. IsPath(e)
    BY <1>1
  <2>2. Len(p) = two /\ Kind(p) = e[two].kind
    BY <1>3, <2>1, BeginningIs
  <2> QED BY <2>2
<1>8. Kind(p) = "star"
  BY <1>2, <1>7
<1>9. Of(p) = q
  <2>1. two # 1 /\ two - 1 = 1
    BY <1>2
  <2>2. Of(p) = SubSeq(e, 1, two - 1)
    BY <1>1, <1>3, <2>1, OfIs
  <2> QED BY <1>2, <2>1, <2>2
<1>10. e[2].by = Zero /\ get_var(gen, e[1].name).base_type # "UNSET"
  BY <1>1 DEF Typed
<1>11. IsPointer(types[1]) /\ ~IsArray(types[1])
  <2>1. two # 1 /\ two - 1 = 1 /\ e[two].kind = "star"
    BY <1>2
  <2>2. Goes(e, two - 1, e[two], types[two - 1], types[two])
    BY <1>3, <2>1, KindsAre
  <2>3. IsPointer(types[two - 1]) /\ ~IsArray(types[two - 1])
    BY <2>1, <2>2 DEF Goes
  <2> QED BY <2>1, <2>3
<1>12. ASSUME NEW a
       PROVE  AddressAt(e, a, 2) = ValueAt(gen, q, a[1])
  <2>1. 2 - 1 = 1
    OBVIOUS
  <2> QED BY <1>2, <1>8, <1>9, <1>10, <2>1 DEF AddressAt
<1>13. PICK start : start = do_address_of(Exp(Anything, FALSE, "", ""), lookup_sym(gen, q[1].name).decl)
  OBVIOUS
<1>14. \A a : AddressAt(e, a, 1) = start
  BY <1>2, <1>6, <1>13 DEF AddressAt
<1>15. PICK w : w = [n \in 1 .. 2 |-> IF n = 1 THEN start ELSE ValueAt(gen, q, start)]
  OBVIOUS
<1>16. AddressTo(e, w)
  <2>1. w[1] = start /\ w[2] = ValueAt(gen, q, start)
    BY <1>15
  <2>2. AddressAt(e, w, 1) = w[1] /\ AddressAt(e, w, 2) = w[2]
    BY <1>12, <1>14, <2>1
  <2>3. \A n \in 1 .. 2 : n = 1 \/ n = 2
    OBVIOUS
  <2>4. \A n \in 1 .. 2 : w[n] = AddressAt(e, w, n)
    BY <2>2, <2>3
  <2> QED BY <1>1, <1>15, <2>4 DEF AddressTo
<1>17. PICK a : a = CHOOSE address : AddressTo(e, address)
  OBVIOUS
<1>18. AddressTo(e, a)
  BY <1>16, <1>17
<1>19. a[2] = AddressAt(e, a, 2)
  BY <1>1, <1>18 DEF AddressTo
<1>20. generate_address(gen, e) = a[Len(e)]
  BY <1>17 DEF generate_address, AddressTo, AddressAt
<1>21. generate_address(gen, e) = ValueAt(gen, q, a[1])
  BY <1>12, <1>19, <1>20
<1>22. q[1].kind = "id" /\ RecordedAs(get_var(gen, q[1].name), types[1]) /\ get_var(gen, q[1].name).base_type # "UNSET"
  BY <1>4, <1>6, <1>10
<1>23. PICK v, c, t : v = ValueAt(gen, q, c) /\ v = generate_address(gen, e) /\ t = types[1]
  BY <1>21
<1>24. PointerName(q, t)
  BY <1>5, <1>6, <1>11, <1>22, <1>23 DEF PointerName
<1>25. ValueOf(q, c, v)
  BY <1>23 DEF ValueOf
<1>26. Points(v, t)
  BY <1>24, <1>25, PointerValue
<1> QED BY <1>23, <1>26

(* What is read at the end of an expression. *)
LEMMA DataRead ==
  ASSUME ReadInv(gen, env), "literal" \notin Admit,
         NEW e, NEW types, Passes(e, types), Typed(e, types), \A p \in Parts(e) : ~IsRemembered(p),
         NEW n, n = Len(e), NEW t, t = types[n], ~IsArray(t), ~IsStruct(t)
  PROVE  generate_expression(gen, e).data_type = Data(t)
<1>1. IsPath(e) /\ n \in Nat /\ n >= 1 /\ DOMAIN e = 1 .. n /\ n \in 1 .. Len(e)
  <2>1. IsPath(e) /\ n \in Nat /\ n >= 1 /\ DOMAIN e = 1 .. n
    BY PathShape DEF Passes
  <2> QED BY <2>1
<1>2. Kind(e) = e[n].kind /\ Last(e) = e[n] /\ Beginning(e, n, e)
  BY <1>1, BeginningWhole DEF Kind, Last, Beginning
<1>3. PICK a, d : a = generate_address(gen, e) /\ d = do_dereference(a)
  OBVIOUS
<1>4. generate_expression(gen, e) = ValueAt(gen, e, a)
  BY <1>3 DEF generate_expression
<1>5. PICK root : root = get_var(gen, e[1].name)
  OBVIOUS
<1>6. RecordedAs(root, types[1]) /\ gen.struct_types = struct_types
  BY <1>5, StartIs
<1>7. /\ DOMAIN d = {"value", "is_pointer", "base_type", "data_type", "numbers", "arrays"}
      /\ d.data_type = IF a.is_pointer /\ a.base_type # "UNDEF" THEN a.base_type ELSE "INT"
  BY <1>3, DereferenceIs
<1>8. CASE e[n].kind = "id"
  <2>1. n = 1
    BY <1>1, <1>8, KindsAre
  <2>2. root.array_metadata = NoArray /\ root.data_type = Data(t)
    BY <1>6, <2>1 DEF RecordedAs, DeclaredAs
  <2>3. PICK c, ptr, base, data : /\ c = Content(lookup_sym(gen, e[1].name).decl) /\ ptr = root.is_pointer
                                  /\ base = root.base_type /\ data = root.data_type
    OBVIOUS
  <2>4. ValueAt(gen, e, a) = Exp(c, ptr, base, data)
    BY <1>2, <1>5, <1>8, <2>2, <2>3 DEF ValueAt
  <2>5. PICK v : v = Exp(c, ptr, base, data)
    OBVIOUS
  <2>6. v = [value |-> c, is_pointer |-> ptr, base_type |-> base, data_type |-> data, numbers |-> {}, arrays |-> {}]
    BY <2>5 DEF Exp
  <2>7. v.data_type = data
    BY <2>6
  <2> QED BY <1>4, <2>2, <2>3, <2>4, <2>5, <2>7
<1>9. CASE e[n].kind = "index"
  <2>1. PICK b : BaseAt(e, n, b)
    BY <1>1, BaseIs, KindsAre
  <2>2. /\ b \in 1 .. Len(e) /\ IsType(types[b], Len(StructDefs)) /\ IsArray(types[b]) /\ t.base = types[b].base
        /\ e[b].kind \in {"id", "dot", "arrow"}
    BY <1>1, <1>9, <2>1, RunIs
  <2>3. PICK p, u : p = Base(e) /\ u = types[b]
    OBVIOUS
  <2>4. Beginning(e, b, p)
    BY <1>2, <2>1, <2>3 DEF BaseAt, Beginning
  <2>5. p \in Parts(e)
    BY <1>1, <2>2, <2>4 DEF Parts, Beginning
  <2>6. ~IsRemembered(p)
    BY <2>5
  <2>7. array_metadata(gen, p) = create_array_metadata(struct_types, u) /\ array_metadata(gen, p) # NoArray
    BY <2>2, <2>3, <2>4, <2>6, MetadataRead
  <2>8. PICK m : m = array_metadata(gen, p)
    OBVIOUS
  <2>9. m.base_type = Data(Element(u))
    BY <2>7, <2>8, MetadataOf
  <2>10. m.base_type = Data(t)
    BY <2>2, <2>3, <2>9, ElementData, DataOf
  <2>11. ValueAt(gen, e, a) = [d EXCEPT !.data_type = m.base_type, !.arrays = @ \cup {p}]
    BY <1>2, <1>3, <1>9, <2>3, <2>7, <2>8 DEF ValueAt
  <2>12. PICK r, s : s = d.arrays \cup {p} /\ r = [d EXCEPT !.data_type = m.base_type, !.arrays = s]
    OBVIOUS
  <2>13. r.data_type = m.base_type
    BY <1>7, <2>12
  <2> QED BY <1>4, <2>10, <2>11, <2>12, <2>13
<1>10. CASE e[n].kind \in {"dot", "arrow"}
  <2>1. get_field(gen.struct_types, infer_struct_type_from_expr(gen, Of(e)), Last(e).name).type = t
    BY <1>1, <1>2, <1>10, WithinIs
  <2>2. PICK data : data = Data(t)
    OBVIOUS
  <2>3. ValueAt(gen, e, a) = [d EXCEPT !.data_type = data]
    BY <1>2, <1>3, <1>10, <2>1, <2>2 DEF ValueAt
  <2>4. PICK r : r = [d EXCEPT !.data_type = data]
    OBVIOUS
  <2>5. r.data_type = data
    BY <1>7, <2>4
  <2> QED BY <1>4, <2>2, <2>3, <2>4, <2>5
<1>11. CASE e[n].kind = "star"
  <2>1. n = 2
    BY <1>1, <1>11, KindsAre DEF Typed
  <2>2. Goes(e, n - 1, e[n], types[n - 1], types[n])
    <3>1. n # 1
      BY <2>1
    <3> QED BY <1>1, <3>1, KindsAre
  <2>3. PICK s : s = types[1]
    OBVIOUS
  <2>4. IsPointer(s) /\ ~IsArray(s) /\ t = Pointee(s)
    <3>1. n - 1 = 1
      BY <2>1
    <3> QED BY <1>11, <2>2, <2>3, <3>1 DEF Goes
  <2>5. IsType(s, Len(StructDefs))
    BY <2>3, StartIs
  <2>6. Data(t) # "UNDEF"
    <3>1. t.base \in {"INT", "CHAR", "PTR"}
      BY <2>4, <2>5 DEF IsType, IsStruct
    <3> QED BY <3>1 DEF Data, IsPointer, IsStruct
  <2>7. Points(a, s)
    BY <1>3, <1>11, <2>1, <2>3, StarAddress
  <2>8. a.is_pointer = TRUE /\ a.base_type = Data(t)
    BY <2>4, <2>7 DEF Points
  <2>9. d.data_type = Data(t)
    BY <1>7, <2>6, <2>8
  <2>10. ValueAt(gen, e, a) = d
    BY <1>2, <1>3, <1>11 DEF ValueAt
  <2> QED BY <1>4, <2>9, <2>10
<1> QED BY <1>1, <1>8, <1>9, <1>10, <1>11, KindsAre

LEMMA ReadInvImplies ==
  ASSUME ReadInv(gen, env), "literal" \notin Admit, "remembered" \notin Admit,
         "untyped" \notin Admit, "stale" \notin Admit
  PROVE  LoadedAsDeclared
<1>1. ASSUME NEW e \in Paths
      PROVE  \/ IsArray(TypeAt(e)) \/ IsStruct(TypeAt(e))
             \/ generate_expression(gen, e).data_type = Data(TypeAt(e))
             \/ \E p \in Parts(e) : IsUntyped(p) \/ IsStale(p)
             \/ ~Translated(e)
  <2>1. PICK types : Passes(e, types)
    BY PathsPass
  <2>2. PICK n, t : n = Len(e) /\ t = types[n]
    OBVIOUS
  <2>3. TypeAt(e) = t
    BY <2>1, <2>2, TypeAtIs
  <2>4. SUFFICES ASSUME ~IsArray(t), ~IsStruct(t), Translated(e),
                        ~\E p \in Parts(e) : IsUntyped(p) \/ IsStale(p)
                 PROVE  generate_expression(gen, e).data_type = Data(t)
    BY <2>3
  <2>5. Typed(e, types)
    BY <2>1, <2>4, StepsTyped
  <2>6. ASSUME NEW p \in Parts(e), IsRemembered(p)
        PROVE  FALSE
    <3>1. "remembered" \in Troubles(e)
      BY <2>6 DEF Troubles
    <3> QED BY <2>4, <3>1 DEF Translated
  <2>7. \A p \in Parts(e) : ~IsRemembered(p)
    BY <2>6
  <2> QED BY <2>1, <2>2, <2>4, <2>5, <2>7, DataRead
<1> QED BY <1>1 DEF LoadedAsDeclared

LEMMA InitReads ==
  ASSUME Init
  PROVE  ReadInv(gen, env)
<1>1. TypeInv(gen, env)
  BY InitTyped
<1>2. DOMAIN gen.sym_tab_global = {} /\ \A k \in DOMAIN env : DOMAIN env[k] = {}
  BY DEF Init, Empty
<1> QED BY <1>1, <1>2 DEF ReadInv, Carries, NamesInv, Bound

(* A value is read as the type it was declared with, one byte or four, at  *)
(* the end of any walk through arrays, structs and pointers, as long as    *)
(* the pointers on the way are variables whose symbols say what they point *)
(* to, and none of them is indexed: the element of an array by the         *)
(* metadata of the very array, whatever arrays of its name were declared   *)
(* before, a member by the field of the very struct, however many names,   *)
(* structs and steps there are (array_metadata_map, do_dereference,        *)
(* infer_struct_type_from_expr, create_array_metadata,                     *)
(* convert_type_to_data_type).                                             *)
THEOREM ReadAsDeclared ==
  ASSUME "redeclared" \notin Admit, "literal" \notin Admit, "remembered" \notin Admit,
         "untyped" \notin Admit, "stale" \notin Admit
  PROVE  Spec => []LoadedAsDeclared
<1>1. Init => ReadInv(gen, env)
  BY InitReads
<1>2. ReadInv(gen, env) /\ [Next]_vars => ReadInv(gen, env)'
  BY StepReads
<1>3. ReadInv(gen, env) => LoadedAsDeclared
  BY ReadInvImplies
<1> QED BY <1>1, <1>2, <1>3, PTL DEF Spec
-----------------------------------------------------------------------------
(* Where a place is. Sums of a number and of multiples of the variables.   *)
IsForm(f) == f = Form(f.one, f.i, f.j) /\ f.one \in Int /\ f.i \in Int /\ f.j \in Int

LEMMA FormIs ==
  ASSUME NEW a \in Int, NEW b \in Int, NEW c \in Int, NEW f, f = Form(a, b, c)
  PROVE  IsForm(f) /\ f.one = a /\ f.i = b /\ f.j = c
<1>1. f.one = a /\ f.i = b /\ f.j = c
  BY DEF Form
<1> QED BY <1>1 DEF IsForm

LEMMA ZeroIs ==
  IsForm(Zero) /\ Zero.one = 0 /\ Zero.i = 0 /\ Zero.j = 0 /\ Num(0) = Zero
<1>1. PICK z : z = Zero
  OBVIOUS
<1>2. z = Form(0, 0, 0)
  BY <1>1 DEF Zero
<1>3. IsForm(z) /\ z.one = 0 /\ z.i = 0 /\ z.j = 0
  BY <1>2, FormIs
<1> QED BY <1>1, <1>3 DEF Num, Zero

LEMMA NumIs ==
  ASSUME NEW n \in Int
  PROVE  IsForm(Num(n))
BY FormIs DEF Num

LEMMA PlusIs ==
  ASSUME NEW f, IsForm(f), NEW g, IsForm(g), NEW s, s = Plus(f, g)
  PROVE  /\ IsForm(s)
         /\ s.one = f.one + g.one /\ s.i = f.i + g.i /\ s.j = f.j + g.j
<1>1. f.one + g.one \in Int /\ f.i + g.i \in Int /\ f.j + g.j \in Int
  BY DEF IsForm
<1>2. PICK a \in Int, b \in Int, c \in Int : a = f.one + g.one /\ b = f.i + g.i /\ c = f.j + g.j
  BY <1>1
<1>3. s = Form(a, b, c)
  BY <1>2 DEF Plus
<1> QED BY <1>2, <1>3, FormIs

LEMMA TimesIs ==
  ASSUME NEW f, IsForm(f), NEW n \in Int, NEW s, s = Times(f, n)
  PROVE  IsForm(s) /\ s.one = f.one * n /\ s.i = f.i * n /\ s.j = f.j * n
<1>1. f.one * n \in Int /\ f.i * n \in Int /\ f.j * n \in Int
  BY DEF IsForm
<1>2. PICK a \in Int, b \in Int, c \in Int : a = f.one * n /\ b = f.i * n /\ c = f.j * n
  BY <1>1
<1>3. s = Form(a, b, c)
  BY <1>2 DEF Times
<1> QED BY <1>2, <1>3, FormIs

LEMMA FormsEqual ==
  ASSUME NEW f, IsForm(f), NEW g, IsForm(g), f.one = g.one, f.i = g.i, f.j = g.j
  PROVE  f = g
BY DEF IsForm

LEMMA PlusZero ==
  ASSUME NEW f, IsForm(f)
  PROVE  Plus(f, Zero) = f /\ Plus(Zero, f) = f
<1>1. PICK r, l : r = Plus(f, Zero) /\ l = Plus(Zero, f)
  OBVIOUS
<1>2. /\ IsForm(r) /\ r.one = f.one + Zero.one /\ r.i = f.i + Zero.i /\ r.j = f.j + Zero.j
      /\ IsForm(l) /\ l.one = Zero.one + f.one /\ l.i = Zero.i + f.i /\ l.j = Zero.j + f.j
  BY <1>1, PlusIs, ZeroIs
<1>3. r.one = f.one /\ r.i = f.i /\ r.j = f.j /\ l.one = f.one /\ l.i = f.i /\ l.j = f.j
  BY <1>2, ZeroIs DEF IsForm
<1>4. r = f /\ l = f
  BY <1>2, <1>3, FormsEqual
<1> QED BY <1>1, <1>4

LEMMA PlusAssociates ==
  ASSUME NEW f, IsForm(f), NEW g, IsForm(g), NEW h, IsForm(h)
  PROVE  Plus(Plus(f, g), h) = Plus(f, Plus(g, h))
<1>1. PICK p, q : p = Plus(f, g) /\ q = Plus(g, h)
  OBVIOUS
<1>2. /\ IsForm(p) /\ p.one = f.one + g.one /\ p.i = f.i + g.i /\ p.j = f.j + g.j
      /\ IsForm(q) /\ q.one = g.one + h.one /\ q.i = g.i + h.i /\ q.j = g.j + h.j
  BY <1>1, PlusIs
<1>3. PICK r, s : r = Plus(p, h) /\ s = Plus(f, q)
  OBVIOUS
<1>4. /\ IsForm(r) /\ r.one = p.one + h.one /\ r.i = p.i + h.i /\ r.j = p.j + h.j
      /\ IsForm(s) /\ s.one = f.one + q.one /\ s.i = f.i + q.i /\ s.j = f.j + q.j
  BY <1>2, <1>3, PlusIs
<1>5. r.one = s.one /\ r.i = s.i /\ r.j = s.j
  BY <1>2, <1>4 DEF IsForm
<1>6. r = s
  BY <1>4, <1>5, FormsEqual
<1> QED BY <1>1, <1>3, <1>6

LEMMA TimesZero ==
  ASSUME NEW n \in Int
  PROVE  Times(Zero, n) = Zero
<1>1. PICK s, z : s = Times(Zero, n) /\ z = Zero
  OBVIOUS
<1>2. IsForm(z) /\ z.one = 0 /\ z.i = 0 /\ z.j = 0
  BY <1>1, ZeroIs
<1>3. IsForm(s) /\ s.one = z.one * n /\ s.i = z.i * n /\ s.j = z.j * n
  BY <1>1, <1>2, TimesIs
<1>4. s.one = 0 /\ s.i = 0 /\ s.j = 0
  BY <1>2, <1>3
<1>5. s = z
  BY <1>2, <1>3, <1>4, FormsEqual
<1> QED BY <1>1, <1>5

(* Values of the language and of the generator.                            *)
IsValue(v) == v = Value(v.kind, v.decl, v.of, v.form) /\ IsForm(v.form)

LEMMA ValueIs ==
  ASSUME NEW kind, NEW decl, NEW of, NEW form, IsForm(form), NEW v, v = Value(kind, decl, of, form)
  PROVE  IsValue(v) /\ v.kind = kind /\ v.decl = decl /\ v.of = of /\ v.form = form
<1>1. v.kind = kind /\ v.decl = decl /\ v.of = of /\ v.form = form
  BY DEF Value
<1> QED BY <1>1 DEF IsValue

LEMMA ValuesAre ==
  ASSUME NEW d
  PROVE  /\ IsValue(HomeOf(d)) /\ IsValue(Content(d)) /\ IsValue(Loaded(d))
         /\ HomeOf(d).kind = "home" /\ HomeOf(d).form = Zero /\ HomeOf(d).decl = d
BY ValueIs, ZeroIs DEF HomeOf, Content, Loaded

LEMMA ShiftIs ==
  ASSUME NEW v, IsValue(v), NEW f, IsForm(f), NEW s, s = Shift(v, f)
  PROVE  s = Value(v.kind, v.decl, v.of, Plus(v.form, f)) /\ IsValue(s)
<1>1. PICK p : p = Plus(v.form, f)
  OBVIOUS
<1>2. IsForm(p)
  BY <1>1, PlusIs DEF IsValue
<1>3. v = [kind |-> v.kind, decl |-> v.decl, of |-> v.of, form |-> v.form]
  BY DEF IsValue, Value
<1>4. s = [v EXCEPT !.form = p]
  BY <1>1 DEF Shift
<1>5. s = Value(v.kind, v.decl, v.of, p)
  BY <1>3, <1>4 DEF Value
<1> QED BY <1>1, <1>2, <1>5, ValueIs

LEMMA ShiftZero ==
  ASSUME NEW v, IsValue(v)
  PROVE  Shift(v, Zero) = v
<1>1. PICK s : s = Shift(v, Zero)
  OBVIOUS
<1>2. s = Value(v.kind, v.decl, v.of, Plus(v.form, Zero))
  BY <1>1, ShiftIs, ZeroIs
<1>3. Plus(v.form, Zero) = v.form
  BY PlusZero DEF IsValue
<1> QED BY <1>1, <1>2, <1>3 DEF IsValue

LEMMA ShiftTwice ==
  ASSUME NEW v, IsValue(v), NEW f, IsForm(f), NEW g, IsForm(g)
  PROVE  Shift(Shift(v, f), g) = Shift(v, Plus(f, g))
<1>1. PICK p, q : p = Plus(v.form, f) /\ q = Plus(f, g)
  OBVIOUS
<1>2. IsForm(v.form) /\ IsForm(p) /\ IsForm(q)
  BY <1>1, PlusIs DEF IsValue
<1>3. PICK s, t, u : s = Shift(v, f) /\ t = Shift(s, g) /\ u = Shift(v, q)
  OBVIOUS
<1>4. s = Value(v.kind, v.decl, v.of, p) /\ IsValue(s)
  BY <1>1, <1>3, ShiftIs
<1>5. s.kind = v.kind /\ s.decl = v.decl /\ s.of = v.of /\ s.form = p
  BY <1>2, <1>4, ValueIs
<1>6. t = Value(v.kind, v.decl, v.of, Plus(p, g))
  BY <1>3, <1>4, <1>5, ShiftIs
<1>7. u = Value(v.kind, v.decl, v.of, Plus(v.form, q))
  BY <1>2, <1>3, ShiftIs
<1>8. Plus(p, g) = Plus(v.form, q)
  BY <1>1, <1>2, PlusAssociates
<1> QED BY <1>1, <1>3, <1>6, <1>7, <1>8
-----------------------------------------------------------------------------
(* What an index moves by, and where a field is: the generator's numbers   *)
(* are the language's.                                                     *)
LEMMA SizeNat ==
  ASSUME NEW t, IsType(t, Len(StructDefs))
  PROVE  SizeOf(t) \in Nat
<1>1. PICK n : n = Len(StructDefs)
  OBVIOUS
<1>2. n \in Nat /\ n \in 0 .. n /\ DOMAIN StructDefs = 1 .. n
  <2>1. n \in Nat /\ DOMAIN StructDefs = 1 .. n
    BY <1>1, StructsAre
  <2>2. n \in 0 .. n
    BY ONLY <2>1
  <2> QED BY <2>1, <2>2
<1>3. \A j \in 1 .. n : StructSizes[j] = StructSizes[j]
  OBVIOUS
<1> QED BY <1>1, <1>2, <1>3, BytesAgree, StructSizesAre DEF SizeOf

(* A step over the rest of an array's dimensions.                          *)
LEMMA StrideIs ==
  ASSUME NEW t, IsType(t, Len(StructDefs)), NEW m, m = create_array_metadata(struct_types, t),
         NEW k \in 1 .. Len(t.dims),
         NEW u, u.base = t.base, u.dims = SubSeq(t.dims, k + 1, Len(t.dims))
  PROVE  m.element_size * get_stride(m, k) = SizeOf(u) /\ SizeOf(u) \in Nat
<1>1. PICK size : size = IF IsStruct(t) THEN struct_types[t.base].total_size ELSE 4
  OBVIOUS
<1>2. m.dimensions = t.dims /\ m.element_size = size
  BY <1>1, MetadataIs
<1>3. PICK d, p : d = u.dims /\ p = Product(d)
  OBVIOUS
<1>4. t.dims \in Seq(Nat) /\ Len(t.dims) \in Nat
  <2>1. t.dims \in Seq(Nat \ {0}) /\ Nat \ {0} \subseteq Nat
    BY DEF IsType
  <2>2. t.dims \in Seq(Nat)
    BY <2>1, SeqMonotonic
  <2> QED BY <2>2, LenProperties
<1>5. d \in Seq(Nat)
  <2>1. PICK i, l, w : i = k + 1 /\ l = Len(t.dims) /\ w = t.dims
    OBVIOUS
  <2>2. i \in 1 .. (l + 1) /\ l \in 0 .. l /\ w \in Seq(Nat) /\ l = Len(w)
    BY <1>4, <2>1
  <2>3. SubSeq(w, i, l) \in Seq(Nat)
    BY <2>2, SubSeqProperties
  <2> QED BY <1>3, <2>1, <2>3
<1>6. p \in Nat
  BY <1>3, <1>5, ProductNat
<1>7. get_stride(m, k) = p
  <2>1. ~(k > Len(t.dims))
    BY <1>4
  <2> QED BY <1>2, <1>3, <2>1 DEF get_stride
<1>8. IsStruct(u) <=> IsStruct(t)
  BY DEF IsStruct
<1>9. size \in Nat /\ SizeOf(u) = p * size
  <2>1. CASE IsStruct(t)
    <3>1. PICK n : n = Len(StructDefs)
      OBVIOUS
    <3>2. n \in 0 .. n /\ n \in Nat
      <4>1. n \in Nat
        BY <3>1, StructsAre
      <4> QED BY <4>1
    <3>3. PICK j \in 1 .. n : j \in DOMAIN StructDefs /\ t.base = StructDefs[j].name /\ NumberOf(t.base) = j
      BY <2>1, <3>1, <3>2, TypeIs
    <3>4. struct_types[t.base].total_size = StructSizes[j]
      BY <3>1, <3>3, StructTypesAre DEF StructsKnown
    <3>5. StructSizes[j] \in Nat
      BY <3>3, StructSizesAre
    <3>6. SizeOf(u) = p * StructSizes[j]
      BY <1>3, <1>8, <2>1, <3>3 DEF SizeOf, Bytes
    <3> QED BY <1>1, <2>1, <3>4, <3>5, <3>6
  <2>2. CASE ~IsStruct(t)
    BY <1>1, <1>3, <1>8, <2>2 DEF SizeOf, Bytes
  <2> QED BY <2>1, <2>2
<1>10. size * p = p * size /\ p * size \in Nat
  BY <1>6, <1>9
<1> QED BY <1>2, <1>7, <1>9, <1>10

(* A field is as far into its struct as the language puts it.              *)
LEMMA OffsetIs ==
  ASSUME NEW struct \in StructNames, NEW name, NEW t, Member(struct, name, t)
  PROVE  /\ get_field(struct_types, struct, name).offset = OffsetIn(struct, name)
         /\ OffsetIn(struct, name) \in Nat
<1>1. PICK k \in DOMAIN StructDefs : struct = StructDefs[k].name
  BY DEF StructNames
<1>2. PICK fields : fields = StructDefs[k].fields
  OBVIOUS
<1>3. FieldsOf(struct) = fields
  BY <1>1, <1>2, StructsAre DEF FieldsOf
<1>4. PICK j \in DOMAIN fields : fields[j].name = name /\ fields[j].type = t
  BY <1>3 DEF Member
<1>5. \A i \in DOMAIN fields : fields[i].name = name => i = j
  BY <1>2, <1>4, StructAssumption
<1>6. NumberIn(fields, name) = j
  <2>1. PICK i : i = CHOOSE l \in DOMAIN fields : fields[l].name = name
    OBVIOUS
  <2>2. i \in DOMAIN fields /\ fields[i].name = name
    BY <1>4, <2>1
  <2> QED BY <1>5, <2>1, <2>2 DEF NumberIn
<1>7. PICK made : made = struct_types[struct]
  OBVIOUS
<1>8. FieldsKnown(StructDefs[k], made)
  <2>1. k \in 1 .. Len(StructDefs)
    BY StructsAre
  <2> QED BY <1>1, <1>7, <2>1, StructTypesAre DEF StructsKnown
<1>9. /\ DOMAIN made.fields = DOMAIN fields
      /\ \A i \in DOMAIN fields : /\ made.fields[i].name = fields[i].name
                                  /\ made.fields[i].offset = Spans(StructSizes, fields)[i - 1]
  BY <1>2, <1>8 DEF FieldsKnown
<1>10. NumberIn(made.fields, name) = j
  <2>1. PICK i : i = CHOOSE l \in DOMAIN made.fields : made.fields[l].name = name
    OBVIOUS
  <2>2. i \in DOMAIN made.fields /\ made.fields[i].name = name
    BY <1>4, <1>9, <2>1
  <2> QED BY <1>5, <1>9, <2>1, <2>2 DEF NumberIn
<1>11. OffsetIn(struct, name) = Spans(StructSizes, fields)[j - 1]
  BY <1>3, <1>6 DEF OffsetIn
<1>12. get_field(struct_types, struct, name).offset = Spans(StructSizes, fields)[j - 1]
  BY <1>4, <1>7, <1>9, <1>10 DEF get_field
<1>13. Spans(StructSizes, fields)[j - 1] \in Nat
  <2>1. /\ fields \in Seq(ToSet(fields)) /\ Len(fields) \in Nat /\ DOMAIN fields = 1 .. Len(fields)
        /\ \A i \in DOMAIN fields : IsType(fields[i].type, k - 1)
    BY <1>2, StructsAre, LenProperties
  <2>2. k - 1 \in 0 .. Len(StructDefs)
    <3>1. PICK n : n = Len(StructDefs)
      OBVIOUS
    <3>2. n \in Nat /\ k \in 1 .. n
      BY <3>1, StructsAre
    <3> QED BY <3>1, <3>2
  <2>3. PICK w : w = [i \in DOMAIN fields |-> Bytes(StructSizes, fields[i].type)]
    OBVIOUS
  <2>4. \A i \in DOMAIN fields : Bytes(StructSizes, fields[i].type) \in Nat
    <3>1. \A i \in 1 .. (k - 1) : StructSizes[i] = StructSizes[i]
      OBVIOUS
    <3> QED BY <2>1, <2>2, <3>1, BytesAgree, StructSizesAre
  <2>5. w \in Seq(Nat) /\ Len(w) = Len(fields)
    <3>1. w \in [1 .. Len(fields) -> Nat]
      BY <2>1, <2>3, <2>4
    <3>2. w \in Seq(Nat)
      BY <2>1, <3>1, SeqDef
    <3>3. DOMAIN w = 1 .. Len(w) /\ Len(w) \in Nat
      BY <3>2, LenProperties
    <3> QED BY <2>1, <3>1, <3>2, <3>3
  <2>6. Sums(w) \in [0 .. Len(w) -> Nat]
    BY <2>5, SumsAre
  <2>7. j - 1 \in 0 .. Len(w)
    BY <2>1, <2>5
  <2>8. Spans(StructSizes, fields) = Sums(w)
    BY <2>3 DEF Spans
  <2> QED BY <2>6, <2>7, <2>8
<1> QED BY <1>11, <1>12, <1>13
-----------------------------------------------------------------------------
(* An index by a number of four bytes through a pointer, if that is how an *)
(* expression goes on from its name.                                       *)
PointerMoved(e, types) == 2 \in 1 .. Len(e) /\ e[2].kind = "index" /\ ~IsArray(types[1])

LEMMA FirstBeginning ==
  ASSUME NEW e, NEW types, Passes(e, types), NEW one, one = 1, NEW q, Beginning(e, one, q)
  PROVE  /\ IsPath(q) /\ Len(q) = 1 /\ Kind(q) = "id" /\ q[1] = e[1]
         /\ Passes(q, types) /\ TypeAt(q) = types[1]
<1>1. IsPath(e) /\ Len(e) \in Nat /\ Len(e) >= 1
  BY PathShape DEF Passes
<1>2. PICK m : m = 1
  OBVIOUS
<1>3. m \in 1 .. Len(e) /\ Beginning(e, m, q)
  BY <1>1, <1>2
<1>4. IsPath(q) /\ Len(q) = m /\ Kind(q) = e[m].kind /\ \A k \in 1 .. m : q[k] = e[k]
  BY <1>1, <1>3, BeginningIs
<1>5. Passes(q, types)
  BY <1>3, BeginningPasses
<1>6. e[m].kind = "id"
  BY <1>2, <1>3, KindsAre
<1>7. TypeAt(q) = types[1]
  <2>1. TypeAt(q) = types[Len(q)]
    BY <1>5, TypeAtIs
  <2> QED BY <1>2, <1>4, <2>1
<1> QED BY <1>2, <1>4, <1>5, <1>6, <1>7

(* After such a move there is only a star left.                            *)
LEMMA MovedIs ==
  ASSUME NEW e, NEW types, Passes(e, types), \A p \in Parts(e) : ~IsStep(p), PointerMoved(e, types)
  PROVE  /\ IsPointer(types[1]) /\ types[2] = Pointee(types[1]) /\ SizeOf(Pointee(types[1])) = 4
         /\ \A p : Beginning(e, 2, p) => ThroughPointer(p)
         /\ \A n \in 1 .. Len(e) : n > 2 => e[n].kind = "star" /\ n = 3
<1>1. IsPath(e) /\ Len(e) \in Nat /\ DOMAIN e = 1 .. Len(e) /\ 2 \in 1 .. Len(e) /\ 1 \in 1 .. Len(e)
  <2>1. IsPath(e) /\ Len(e) \in Nat /\ DOMAIN e = 1 .. Len(e) /\ 2 \in 1 .. Len(e)
    BY PathShape DEF Passes, PointerMoved
  <2> QED BY <2>1
<1>2. e[2].kind = "index" /\ ~IsArray(types[1])
  BY DEF PointerMoved
<1>3. PICK two : two = 2
  OBVIOUS
<1>4. two \in 1 .. Len(e) /\ two # 1 /\ two - 1 = 1
  BY <1>1, <1>3
<1>5. Goes(e, two - 1, e[two], types[two - 1], types[two]) /\ e[1].kind = "id"
  BY <1>4, KindsAre
<1>6. Goes(e, 1, e[2], types[1], types[2])
  BY <1>3, <1>4, <1>5
<1>7. IsPointer(types[1]) /\ types[2] = Pointee(types[1]) /\ ~IsStruct(Pointee(types[1]))
  BY <1>2, <1>6 DEF Goes
<1>8. PICK one, q : one = 1 /\ q = SubSeq(e, 1, 1) /\ Beginning(e, one, q)
  BY DEF Beginning
<1>9. IsPath(q) /\ Len(q) = 1 /\ Kind(q) = "id" /\ TypeAt(q) = types[1]
  BY <1>8, FirstBeginning
<1>10. ASSUME NEW n \in 1 .. Len(e), n \in {2, 3}, e[n].kind = "index", NEW p, Beginning(e, n, p)
       PROVE  ThroughPointer(p)
  <2>1. Kind(p) = "index"
    BY <1>1, <1>10, BeginningIs
  <2>2. PICK b : BaseAt(e, n, b)
    BY <1>1, <1>5, BaseIs
  <2>3. b \in 1 .. n /\ e[b].kind # "index" /\ Base(p) = SubSeq(e, 1, b)
    BY <1>10, <2>2 DEF BaseAt
  <2>4. b = 1
    <3>1. b \in {1, 2, 3} /\ b <= n
      BY <1>10, <2>3
    <3> QED BY <1>2, <1>10, <2>3, <3>1
  <2>5. Base(p) = q
    BY <1>8, <2>3, <2>4
  <2> QED BY <1>7, <1>9, <2>1, <2>5 DEF ThroughPointer
<1>11. ASSUME NEW n \in 1 .. Len(e), NEW p, Beginning(e, n, p)
       PROVE  ~IsStep(p)
  <2>1. p \in Parts(e)
    BY <1>1, <1>11 DEF Parts, Beginning
  <2> QED BY <2>1
<1>12. SizeOf(Pointee(types[1])) = 4
  <2>1. PICK p : Beginning(e, two, p)
    BY DEF Beginning
  <2>2. ThroughPointer(p) /\ ~IsStep(p)
    BY <1>2, <1>3, <1>4, <1>10, <1>11, <2>1
  <2>3. Of(p) = SubSeq(e, 1, two - 1)
    BY <1>1, <1>4, <2>1, OfIs
  <2>4. Of(p) = q
    BY <1>4, <1>8, <2>3
  <2> QED BY <1>9, <2>2, <2>4 DEF IsStep
<1>13. \A p : Beginning(e, 2, p) => ThroughPointer(p)
  BY <1>1, <1>2, <1>10
<1>14. ASSUME NEW n \in 1 .. Len(e), n = 3
       PROVE  e[n].kind = "star"
  <2>1. n - 1 = 2 /\ n # 1
    BY <1>14
  <2>2. Goes(e, n - 1, e[n], types[n - 1], types[n])
    BY <2>1, KindsAre
  <2>3. Goes(e, 2, e[n], types[2], types[n])
    BY <2>1, <2>2
  <2>4. e[n].kind # "index"
    <3>1. SUFFICES ASSUME e[n].kind = "index"
                   PROVE  FALSE
      OBVIOUS
    <3>2. PICK p : Beginning(e, n, p)
      BY DEF Beginning
    <3>3. ThroughPointer(p) /\ ~IsStep(p)
      BY <1>10, <1>11, <1>14, <3>1, <3>2
    <3>4. Of(p) = SubSeq(e, 1, n - 1)
      BY <1>1, <2>1, <3>2, OfIs
    <3>5. Beginning(e, two, Of(p))
      BY <1>3, <2>1, <3>4 DEF Beginning
    <3>6. Kind(Of(p)) = e[two].kind
      BY <1>1, <1>4, <3>5, BeginningIs
    <3>7. Kind(Of(p)) = "index"
      BY <1>2, <1>3, <3>6
    <3> QED BY <3>3, <3>7 DEF IsStep
  <2> QED BY <1>7, <2>3, <2>4 DEF Goes
<1>15. ASSUME NEW n \in 1 .. Len(e), n > 2, n # 3
       PROVE  FALSE
  <2>1. PICK three, four : three = 3 /\ four = 4
    OBVIOUS
  <2>2. three \in 1 .. Len(e) /\ four \in 1 .. Len(e) /\ four # 1 /\ four - 1 = three
    BY <1>1, <1>15, <2>1
  <2>3. e[three].kind = "star"
    BY <1>14, <2>1, <2>2
  <2>4. Goes(e, four - 1, e[four], types[four - 1], types[four])
    BY <2>2, KindsAre
  <2> QED BY <2>2, <2>3, <2>4 DEF Goes
<1> QED BY <1>7, <1>12, <1>13, <1>14, <1>15

(* Up to a step that is no star, an expression is typed.                   *)
LEMMA TypedBefore ==
  ASSUME NEW e, NEW types, Passes(e, types), ~PointerMoved(e, types),
         NEW n \in 1 .. Len(e), e[n].kind # "star", NEW p, Beginning(e, n, p)
  PROVE  Passes(p, types) /\ Typed(p, types)
<1>1. IsPath(e) /\ Len(e) \in Nat
  BY PathShape DEF Passes
<1>2. Len(p) = n /\ \A k \in 1 .. n : p[k] = e[k]
  BY <1>1, BeginningIs
<1>3. ASSUME NEW k \in 1 .. n, k # 1
      PROVE  /\ e[k].kind = "index" => IsArray(types[k - 1]) /\ types[k] = Row(types[k - 1])
             /\ e[k].kind # "star"
  <2>1. k \in 1 .. Len(e)
    BY <1>1
  <2>2. Goes(e, k - 1, e[k], types[k - 1], types[k])
    BY <1>3, <2>1, KindsAre
  <2>3. e[k].kind # "star"
    <3>1. CASE k = n
      BY <3>1
    <3>2. CASE k # n
      <4>1. k + 1 \in 1 .. Len(e) /\ k + 1 # 1 /\ k + 1 - 1 = k
        BY <1>1, <3>2
      <4>2. Goes(e, k + 1 - 1, e[k + 1], types[k + 1 - 1], types[k + 1])
        BY <4>1, KindsAre
      <4> QED BY <4>1, <4>2 DEF Goes
    <3> QED BY <3>1, <3>2
  <2>4. ASSUME e[k].kind = "index", k - 1 = 1, ~IsArray(types[k - 1])
        PROVE  FALSE
    <3>1. k = 2
      BY <1>1, <2>4
    <3> QED BY <2>1, <2>4, <3>1 DEF PointerMoved
  <2> QED BY <2>2, <2>3, <2>4 DEF Goes
<1>4. Typed(p, types)
  BY <1>2, <1>3 DEF Typed
<1>5. Passes(p, types)
  BY BeginningPasses
<1> QED BY <1>4, <1>5

(* The offset a member's address takes is the language's.                  *)
LEMMA OffsetWithin ==
  ASSUME ReadInv(gen, env), "literal" \notin Admit,
         NEW e, NEW types, Passes(e, types), ~PointerMoved(e, types),
         NEW n \in 1 .. Len(e), e[n].kind \in {"dot", "arrow"}, NEW p, Beginning(e, n, p),
         NEW struct, struct = IF e[n].kind = "dot" THEN types[n - 1].base ELSE Pointee(types[n - 1]).base
  PROVE  /\ get_field(gen.struct_types, infer_struct_type_from_expr(gen, Of(p)), Last(p).name).offset
              = OffsetIn(struct, e[n].name)
         /\ OffsetIn(struct, e[n].name) \in Nat
<1>1. IsPath(e) /\ Len(e) \in Nat
  BY PathShape DEF Passes
<1>2. n # 1 /\ n - 1 \in 1 .. Len(e) /\ Goes(e, n - 1, e[n], types[n - 1], types[n])
  <2>1. n # 1
    BY KindsAre
  <2> QED BY <2>1, KindsAre
<1>3. PICK q : Beginning(e, n - 1, q)
  BY DEF Beginning
<1>4. Of(p) = q
  BY <1>1, <1>2, <1>3, OfIs DEF Beginning
<1>5. PICK l : l = n - 1
  OBVIOUS
<1>6. l \in 1 .. Len(e) /\ Beginning(e, l, q)
  BY <1>2, <1>3, <1>5
<1>7. Len(q) = l /\ \A k \in 1 .. l : q[k] = e[k]
  BY <1>1, <1>6, BeginningIs
<1>8. e[l].kind # "star"
  BY <1>2, <1>5 DEF Goes
<1>9. Passes(q, types) /\ Typed(q, types)
  BY <1>6, <1>8, TypedBefore
<1>10. ASSUME NEW k \in 1 .. Len(q)
       PROVE  q[k].kind # "star"
  <2>1. k \in 1 .. l /\ k + 1 \in 1 .. Len(e) /\ k + 1 # 1 /\ k + 1 - 1 = k
    BY <1>1, <1>5, <1>6, <1>7
  <2>2. Goes(e, k, e[k + 1], types[k], types[k + 1])
    BY <2>1, KindsAre
  <2> QED BY <1>7, <2>1, <2>2 DEF Goes
<1>11. infer_struct_type_from_expr(gen, q) = Named(q, types, l)
  BY <1>7, <1>9, <1>10, InferIs
<1>12. PICK x, name, t, u : x = Named(q, types, l) /\ name = e[n].name /\ t = types[l] /\ u = types[n]
  OBVIOUS
<1>13. Last(p).name = name
  BY <1>1, <1>12, BeginningIs
<1>14. PICK root : root = get_var(gen, q[1].name)
  OBVIOUS
<1>15. RecordedAs(root, types[1]) /\ gen.struct_types = struct_types
  BY <1>9, <1>14, StartIs
<1>16. 1 \in 1 .. l /\ q[1] = e[1]
  BY <1>6, <1>7
<1>17. x = struct /\ x \in StructNames /\ Member(x, name, u)
  <2>1. CASE e[n].kind = "dot"
    <3>1. ~IsArray(t) /\ IsStruct(t) /\ Member(t.base, name, u)
      BY <1>2, <1>5, <1>12, <2>1 DEF Goes
    <3>2. x = t.base
      <4>1. CASE l = 1
        <5>1. root.struct = t.base
          BY <1>12, <1>15, <3>1, <4>1 DEF RecordedAs, DeclaredAs
        <5> QED BY <1>12, <1>14, <4>1, <5>1 DEF Named
      <4>2. CASE l # 1
        BY <1>12, <3>1, <4>2 DEF Named
      <4> QED BY <4>1, <4>2
    <3>3. struct = t.base
      BY <1>5, <1>12, <2>1
    <3> QED BY <3>1, <3>2, <3>3 DEF IsStruct
  <2>2. CASE e[n].kind = "arrow"
    <3>1. /\ l = 1 /\ IsPointer(t) /\ IsStruct(Pointee(t)) /\ Member(Pointee(t).base, name, u)
          /\ get_var(gen, e[1].name).struct # ""
      BY <1>2, <1>5, <1>12, <2>2 DEF Goes
    <3>2. root.struct = Pointee(t).base
      BY <1>12, <1>14, <1>15, <1>16, <3>1 DEF RecordedAs
    <3>3. x = Pointee(t).base
      BY <1>12, <1>14, <3>1, <3>2 DEF Named
    <3>4. struct = Pointee(t).base
      BY <1>5, <1>12, <2>2
    <3> QED BY <3>1, <3>3, <3>4 DEF IsStruct
  <2> QED BY <2>1, <2>2
<1>18. get_field(gen.struct_types, x, name).offset = OffsetIn(x, name) /\ OffsetIn(x, name) \in Nat
  BY <1>15, <1>17, OffsetIs
<1> QED BY <1>4, <1>11, <1>12, <1>13, <1>17, <1>18
-----------------------------------------------------------------------------
(* Along the indices of an array, from its place at b up to the step n:    *)
(* the k-th of them leaves out the first k dimensions.                     *)
Along(types, b, k) ==
  /\ types[b + k].base = types[b].base
  /\ types[b + k].dims = SubSeq(types[b].dims, k + 1, Len(types[b].dims))

LEMMA RunOfArray ==
  ASSUME ReadInv(gen, env), "literal" \notin Admit,
         NEW e, NEW types, Passes(e, types), ~PointerMoved(e, types),
         NEW n \in 1 .. Len(e), e[n].kind = "index", NEW b, BaseAt(e, n, b)
  PROVE  /\ b \in 1 .. (n - 1) /\ b \in 1 .. Len(e)
         /\ IsType(types[b], Len(StructDefs)) /\ IsArray(types[b])
         /\ e[b].kind \in {"id", "dot", "arrow"} /\ (e[b].kind = "id" <=> b = 1)
         /\ \A j \in (b + 1) .. n : /\ e[j].kind = "index" /\ e[j].by \in Indices \cup {Zero}
                                    /\ IsArray(types[j - 1]) /\ types[j] = Row(types[j - 1])
         /\ \A k \in 1 .. (n - b) : k \in 1 .. Len(types[b].dims) /\ Along(types, b, k)
<1>1. IsPath(e) /\ Len(e) \in Nat /\ n \in Nat /\ n # 0 /\ n <= Len(e)
  BY PathShape DEF Passes
<1>2. /\ b \in 1 .. n /\ e[b].kind # "index"
      /\ \A k \in (b + 1) .. n : e[k].kind = "index"
  BY DEF BaseAt
<1>3. b \in 1 .. (n - 1) /\ b \in 1 .. Len(e) /\ b + 1 \in (b + 1) .. n
  <2>1. b # n
    BY <1>2
  <2> QED BY <1>1, <1>2, <2>1
<1>4. PICK p : Beginning(e, n, p)
  BY DEF Beginning
<1>5. Passes(p, types) /\ Typed(p, types) /\ Len(p) = n /\ \A k \in 1 .. n : p[k] = e[k]
  BY <1>1, <1>4, TypedBefore, BeginningIs
<1>6. ASSUME NEW k \in (b + 1) .. n
      PROVE  /\ e[k].kind = "index" /\ e[k].by \in Indices \cup {Zero}
             /\ IsArray(types[k - 1]) /\ types[k] = Row(types[k - 1]) /\ IsType(types[k - 1], Len(StructDefs))
             /\ e[k - 1].kind # "star"
  <2>1. k \in 1 .. Len(e) /\ k # 1 /\ k - 1 \in 1 .. n /\ k \in 1 .. n
    BY <1>1, <1>3
  <2>2. e[k].kind = "index"
    BY <1>2
  <2>3. Goes(e, k - 1, e[k], types[k - 1], types[k])
    BY <2>1, KindsAre
  <2>4. e[k].by \in Indices \cup {Zero} /\ e[k - 1].kind # "star"
    BY <2>2, <2>3 DEF Goes
  <2>5. IsArray(types[k - 1]) /\ types[k] = Row(types[k - 1])
    BY <1>5, <2>1, <2>2 DEF Typed
  <2>6. IsType(types[k - 1], Len(StructDefs))
    <3>1. k - 1 \in 1 .. Len(p) /\ p[k - 1].kind # "star"
      BY <1>5, <2>1, <2>4
    <3> QED BY <1>5, <3>1, TypesAre
  <2> QED BY <2>2, <2>4, <2>5, <2>6
<1>7. b + 1 - 1 = b
  BY <1>3
<1>8. IsType(types[b], Len(StructDefs)) /\ IsArray(types[b]) /\ e[b].kind # "star"
  <2>1. PICK c : c = b + 1
    OBVIOUS
  <2>2. c \in (b + 1) .. n /\ c - 1 = b
    BY <1>3, <1>7, <2>1
  <2>3. IsType(types[c - 1], Len(StructDefs)) /\ IsArray(types[c - 1]) /\ e[c - 1].kind # "star"
    BY <1>6, <2>2
  <2> QED BY <2>2, <2>3
<1>9. e[b].kind \in {"id", "dot", "arrow"} /\ (e[b].kind = "id" <=> b = 1)
  BY <1>2, <1>3, <1>8, KindsAre
<1>10. PICK d, l : d = types[b].dims /\ l = Len(d)
  OBVIOUS
<1>11. d \in Seq(Nat \ {0}) /\ l \in Nat
  <2>1. d \in Seq(Nat \ {0})
    BY <1>8, <1>10 DEF IsType
  <2> QED BY <1>10, <2>1, LenProperties
<1>12. PICK r : r = n - b
  OBVIOUS
<1>13. r \in Nat
  BY <1>1, <1>3, <1>12
<1>14. PICK G : G = {k \in 0 .. r : (k # 0 => k \in 1 .. l) /\ Along(types, b, k)}
  OBVIOUS
<1>15. 0 \in G
  <2>1. SubSeq(d, 1, l) = d
    BY <1>10, <1>11, SubSeqFull
  <2>2. b + 0 = b /\ 0 + 1 = 1
    BY <1>3
  <2>3. Along(types, b, 0)
    BY <1>10, <2>1, <2>2 DEF Along
  <2> QED BY <1>13, <1>14, <2>3
<1>16. ASSUME NEW k \in 1 .. r, k - 1 \in G
       PROVE  k \in G
  <2>1. PICK j : j = b + k
    OBVIOUS
  <2>2. j \in (b + 1) .. n /\ j - 1 = b + (k - 1)
    BY <1>1, <1>3, <1>12, <2>1
  <2>3. PICK t, u : t = types[j - 1] /\ u = types[j]
    OBVIOUS
  <2>4. IsArray(t) /\ u = Row(t) /\ IsType(t, Len(StructDefs))
    BY <1>6, <2>2, <2>3
  <2>5. u.base = t.base /\ u.dims = Tail(t.dims)
    BY <2>4, RowIs
  <2>6. Along(types, b, k - 1) /\ k - 1 + 1 = k
    BY <1>14, <1>16
  <2>7. t.base = types[b].base /\ t.dims = SubSeq(d, k, l)
    BY <1>10, <2>2, <2>3, <2>6 DEF Along
  <2>8. k \in 1 .. l
    <3>1. SUFFICES ASSUME l < k
                   PROVE  FALSE
      BY <1>11, <1>13
    <3>2. SubSeq(d, k, l) = <<>>
      BY <1>11, <1>13, <3>1, SubSeqEmpty
    <3> QED BY <2>4, <2>7, <3>2 DEF IsArray
  <2>9. Tail(SubSeq(d, k, l)) = SubSeq(d, k + 1, l)
    <3>1. k \in 1 .. Len(d) /\ l \in k .. Len(d)
      BY <1>10, <1>11, <2>8
    <3> QED BY <1>11, <3>1, HeadTailOfSubSeq
  <2>10. Along(types, b, k)
    BY <1>10, <2>1, <2>3, <2>5, <2>7, <2>9 DEF Along
  <2> QED BY <1>14, <2>8, <2>10
<1>17. \A k \in 0 .. r : k \in G
  BY <1>13, <1>15, <1>16, Upwards
<1>18. ASSUME NEW k \in 1 .. (n - b)
       PROVE  k \in 1 .. Len(types[b].dims) /\ Along(types, b, k)
  <2>1. k \in 0 .. r /\ k # 0
    BY <1>12, <1>13
  <2> QED BY <1>10, <1>14, <1>17, <2>1
<1> QED BY <1>3, <1>6, <1>8, <1>9, <1>18

(* What an index is.                                                       *)
LEMMA IndexForm ==
  ASSUME NEW k \in Indices \cup {Zero}
  PROVE  IsForm(k)
<1>1. CASE k \in Indices
  <2>1. k = Form(k.one, k.i, k.j) /\ {k.one, k.i, k.j} \subseteq Int
    BY <1>1, FrontEndAssumption
  <2> QED BY <2>1 DEF IsForm
<1>2. CASE k = Zero
  BY <1>2, ZeroIs
<1> QED BY <1>1, <1>2

(* What the first k of the terms make together. *)
TotalTo(w, s) == s = [k \in 0 .. Len(w) |-> IF k = 0 THEN Zero ELSE Plus(s[k - 1], w[k])]
TotalsTo(w, s) ==
  /\ s[0] = Zero /\ Total(w) = s[Len(w)]
  /\ \A k \in 1 .. Len(w) : s[k] = Plus(s[k - 1], w[k])
  /\ \A k \in 0 .. Len(w) : IsForm(s[k])

LEMMA TotalIs ==
  ASSUME NEW n \in Nat, NEW w, DOMAIN w = 1 .. n, Len(w) = n, \A k \in 1 .. n : IsForm(w[k])
  PROVE  \E s : TotalsTo(w, s)
<1>1. PICK G : G = {k \in 0 .. n : \E h : h = [j \in 0 .. k |-> IF j = 0 THEN Zero ELSE Plus(h[j - 1], w[j])]}
  OBVIOUS
<1>2. 0 \in G
  <2>1. PICK h : h = [j \in 0 .. 0 |-> Zero]
    OBVIOUS
  <2>2. h = [j \in 0 .. 0 |-> IF j = 0 THEN Zero ELSE Plus(h[j - 1], w[j])]
    BY <2>1
  <2> QED BY <1>1, <2>2
<1>3. ASSUME NEW k \in 1 .. n, k - 1 \in G
      PROVE  k \in G
  <2>1. PICK f : f = [j \in 0 .. (k - 1) |-> IF j = 0 THEN Zero ELSE Plus(f[j - 1], w[j])]
    BY <1>1, <1>3
  <2>2. PICK last : last = Plus(f[k - 1], w[k])
    OBVIOUS
  <2>3. PICK h : h = [j \in 0 .. k |-> IF j = k THEN last ELSE f[j]]
    OBVIOUS
  <2>4. ASSUME NEW j \in 0 .. k
        PROVE  h[j] = IF j = 0 THEN Zero ELSE Plus(h[j - 1], w[j])
    <3>1. j # 0 => h[j - 1] = f[j - 1]
      <4>1. j # 0 => j - 1 \in 0 .. k /\ j - 1 # k
        OBVIOUS
      <4> QED BY <2>3, <4>1
    <3>2. CASE j = k
      <4>1. h[j] = last /\ j # 0
        BY <2>3, <3>2
      <4> QED BY <2>2, <3>1, <3>2, <4>1
    <3>3. CASE j # k
      <4>1. j \in 0 .. (k - 1) /\ h[j] = f[j]
        BY <2>3, <3>3
      <4>2. f[j] = IF j = 0 THEN Zero ELSE Plus(f[j - 1], w[j])
        BY <2>1, <4>1
      <4> QED BY <3>1, <4>1, <4>2
    <3> QED BY <3>2, <3>3
  <2>5. h = [j \in 0 .. k |-> IF j = 0 THEN Zero ELSE Plus(h[j - 1], w[j])]
    BY <2>3, <2>4
  <2> QED BY <1>1, <2>5
<1>4. \A k \in 0 .. n : k \in G
  BY <1>2, <1>3, Upwards
<1>5. n \in G
  BY <1>4
<1>6. \E h : TotalTo(w, h)
  BY <1>1, <1>5 DEF TotalTo
<1>7. PICK s : s = CHOOSE total : TotalTo(w, total)
  OBVIOUS
<1>8. TotalTo(w, s)
  BY <1>6, <1>7
<1>9. Total(w) = s[Len(w)]
  BY <1>7 DEF Total, TotalTo
<1>10. \A k \in 0 .. n : s[k] = IF k = 0 THEN Zero ELSE Plus(s[k - 1], w[k])
  BY <1>8 DEF TotalTo
<1>11. s[0] = Zero
  BY <1>10
<1>12. ASSUME NEW k \in 1 .. n
       PROVE  s[k] = Plus(s[k - 1], w[k])
  <2>1. k \in 0 .. n /\ k # 0
    OBVIOUS
  <2> QED BY <1>10, <2>1
<1>13. PICK H : H = {k \in 0 .. n : IsForm(s[k])}
  OBVIOUS
<1>14. 0 \in H
  BY <1>11, <1>13, ZeroIs
<1>15. ASSUME NEW k \in 1 .. n, k - 1 \in H
       PROVE  k \in H
  <2>1. IsForm(s[k - 1]) /\ IsForm(w[k])
    BY <1>13, <1>15
  <2>2. IsForm(s[k])
    BY <1>12, <2>1, PlusIs
  <2> QED BY <1>13, <2>2
<1>16. \A k \in 0 .. n : k \in H
  BY <1>14, <1>15, Upwards
<1> QED BY <1>9, <1>11, <1>12, <1>13, <1>16 DEF TotalsTo
-----------------------------------------------------------------------------
(* Where the language puts the place a step leads to.                      *)
IsAt(c, v) == c.at = v /\ c.whole = FALSE

LEMMA BeyondAt ==
  ASSUME NEW v, NEW b, NEW s, NEW t, b.type = t, NEW c, c = Beyond(v, b, s)
  PROVE  /\ s.kind = "id" => c.at = HomeOf(v[s.name].decl) /\ c.whole = TRUE
         /\ s.kind = "index" /\ IsArray(t) => IsAt(c, Shift(b.at, Times(s.by, SizeOf(Row(t)))))
         /\ s.kind = "index" /\ ~IsArray(t) => IsAt(c, Shift(Held(b), Times(s.by, SizeOf(Pointee(t)))))
         /\ s.kind = "star" => IsAt(c, Shift(Held(b), Times(s.by, SizeOf(Pointee(t)))))
         /\ s.kind = "dot" => IsAt(c, Shift(b.at, Num(OffsetIn(t.base, s.name))))
         /\ s.kind = "arrow" => IsAt(c, Shift(Held(b), Num(OffsetIn(Pointee(t).base, s.name))))
<1>1. ASSUME s.kind = "id"
      PROVE  c.at = HomeOf(v[s.name].decl) /\ c.whole = TRUE
  <2>1. PICK a, u : a = HomeOf(v[s.name].decl) /\ u = v[s.name].type
    OBVIOUS
  <2>2. c = [at |-> a, type |-> u, whole |-> TRUE]
    BY <1>1, <2>1 DEF Beyond
  <2> QED BY <2>1, <2>2
<1>2. ASSUME s.kind = "index", IsArray(t)
      PROVE  IsAt(c, Shift(b.at, Times(s.by, SizeOf(Row(t)))))
  <2>1. PICK a, u : a = Shift(b.at, Times(s.by, SizeOf(Row(t)))) /\ u = Row(t)
    OBVIOUS
  <2>2. c = [at |-> a, type |-> u, whole |-> FALSE]
    BY <1>2, <2>1 DEF Beyond
  <2>3. c.at = a /\ c.whole = FALSE
    BY <2>2
  <2> QED BY <2>1, <2>3 DEF IsAt
<1>3. ASSUME s.kind = "index", ~IsArray(t)
      PROVE  IsAt(c, Shift(Held(b), Times(s.by, SizeOf(Pointee(t)))))
  <2>1. PICK a, u : a = Shift(Held(b), Times(s.by, SizeOf(Pointee(t)))) /\ u = Pointee(t)
    OBVIOUS
  <2>2. c = [at |-> a, type |-> u, whole |-> FALSE]
    BY <1>3, <2>1 DEF Beyond
  <2>3. c.at = a /\ c.whole = FALSE
    BY <2>2
  <2> QED BY <2>1, <2>3 DEF IsAt
<1>4. ASSUME s.kind = "star"
      PROVE  IsAt(c, Shift(Held(b), Times(s.by, SizeOf(Pointee(t)))))
  <2>1. PICK a, u : a = Shift(Held(b), Times(s.by, SizeOf(Pointee(t)))) /\ u = Pointee(t)
    OBVIOUS
  <2>2. c = [at |-> a, type |-> u, whole |-> FALSE]
    BY <1>4, <2>1 DEF Beyond
  <2>3. c.at = a /\ c.whole = FALSE
    BY <2>2
  <2> QED BY <2>1, <2>3 DEF IsAt
<1>5. ASSUME s.kind = "dot"
      PROVE  IsAt(c, Shift(b.at, Num(OffsetIn(t.base, s.name))))
  <2>1. PICK a, u : a = Shift(b.at, Num(OffsetIn(t.base, s.name))) /\ u = FieldOf(t.base, s.name).type
    OBVIOUS
  <2>2. c = [at |-> a, type |-> u, whole |-> FALSE]
    BY <1>5, <2>1 DEF Beyond
  <2>3. c.at = a /\ c.whole = FALSE
    BY <2>2
  <2> QED BY <2>1, <2>3 DEF IsAt
<1>6. ASSUME s.kind = "arrow"
      PROVE  IsAt(c, Shift(Held(b), Num(OffsetIn(Pointee(t).base, s.name))))
  <2>1. PICK a, u : /\ a = Shift(Held(b), Num(OffsetIn(Pointee(t).base, s.name)))
                    /\ u = FieldOf(Pointee(t).base, s.name).type
    OBVIOUS
  <2>2. c = [at |-> a, type |-> u, whole |-> FALSE]
    BY <1>6, <2>1 DEF Beyond
  <2>3. c.at = a /\ c.whole = FALSE
    BY <2>2
  <2> QED BY <2>1, <2>3 DEF IsAt
<1> QED BY <1>1, <1>2, <1>3, <1>4, <1>5, <1>6

LEMMA FunctionLength ==
  ASSUME NEW n \in Nat, NEW w, DOMAIN w = 1 .. n, w = [k \in 1 .. n |-> w[k]]
  PROVE  Len(w) = n
<1>1. PICK S : S = {w[k] : k \in 1 .. n}
  OBVIOUS
<1>2. w \in [1 .. n -> S]
  BY <1>1
<1>3. w \in Seq(S)
  BY <1>2, SeqDef
<1>4. DOMAIN w = 1 .. Len(w) /\ Len(w) \in Nat
  BY <1>3, LenProperties
<1> QED BY <1>4

(* The indices of an array, and what each of them adds: what the language  *)
(* moves by, as long as the numbers among them are read at their places.   *)
LEMMA ChainIs ==
  ASSUME NEW e, NEW types, Passes(e, types), NEW n \in 1 .. Len(e), NEW b, BaseAt(e, n, b), b # n,
         NEW p, Beginning(e, n, p), NEW c, c = Chain(p)
  PROVE  /\ DOMAIN c = 1 .. (n - b) /\ Len(c) = n - b /\ n - b \in Nat
         /\ \A k \in 1 .. (n - b) : c[k] = e[b + k].by
<1>1. IsPath(e) /\ Len(e) \in Nat
  BY PathShape DEF Passes
<1>2. Len(p) = n /\ \A k \in 1 .. n : p[k] = e[k]
  BY <1>1, BeginningIs
<1>3. b \in 1 .. n /\ Len(Base(p)) = b
  BY DEF BaseAt
<1>4. PICK r : r = n - b
  OBVIOUS
<1>5. r \in Nat /\ \A k \in 1 .. r : b + k \in 1 .. n
  BY <1>1, <1>3, <1>4
<1>6. c = [k \in 1 .. r |-> p[b + k].by]
  BY <1>2, <1>3, <1>4 DEF Chain
<1>7. DOMAIN c = 1 .. r /\ \A k \in 1 .. r : c[k] = e[b + k].by
  BY <1>2, <1>5, <1>6
<1>8. c = [k \in 1 .. r |-> c[k]]
  BY <1>6
<1>9. Len(c) = r
  BY <1>5, <1>7, <1>8, FunctionLength
<1> QED BY <1>4, <1>5, <1>7, <1>9

LEMMA TermsAre ==
  ASSUME ReadInv(gen, env), "literal" \notin Admit,
         NEW e, NEW types, Passes(e, types), ~PointerMoved(e, types),
         NEW n \in 1 .. Len(e), e[n].kind = "index", NEW b, BaseAt(e, n, b),
         NEW p, Beginning(e, n, p), ~IsMixed(p),
         NEW m, m = create_array_metadata(struct_types, types[b]), NEW w, w = Terms(m, Chain(p))
  PROVE  /\ DOMAIN w = 1 .. (n - b) /\ Len(w) = n - b /\ n - b \in Nat
         /\ \A k \in 1 .. (n - b) : w[k] = Times(e[b + k].by, SizeOf(types[b + k])) /\ IsForm(w[k])
<1>1. IsPath(e) /\ Len(e) \in Nat
  BY PathShape DEF Passes
<1>2. PICK t : t = types[b]
  OBVIOUS
<1>3. /\ b \in 1 .. (n - 1) /\ b \in 1 .. Len(e) /\ IsType(t, Len(StructDefs)) /\ IsArray(t)
      /\ (e[b].kind = "id" <=> b = 1)
      /\ \A j \in (b + 1) .. n : e[j].by \in Indices \cup {Zero}
      /\ \A k \in 1 .. (n - b) : k \in 1 .. Len(t.dims) /\ Along(types, b, k)
  BY <1>2, RunOfArray
<1>4. b # n
  BY <1>1, <1>3
<1>5. PICK c : c = Chain(p)
  OBVIOUS
<1>6. PICK r : r = n - b
  OBVIOUS
<1>7. DOMAIN c = 1 .. r /\ Len(c) = r /\ r \in Nat /\ \A k \in 1 .. r : c[k] = e[b + k].by
  BY <1>4, <1>5, <1>6, ChainIs
<1>8. ~ThroughPointer(p)
  <2>1. SUFFICES ASSUME ThroughPointer(p)
                 PROVE  FALSE
    OBVIOUS
  <2>2. PICK q : q = Base(p)
    OBVIOUS
  <2>3. Kind(q) = "id" /\ IsPointer(TypeAt(q))
    BY <2>1, <2>2 DEF ThroughPointer
  <2>4. Beginning(e, b, q)
    BY <2>2 DEF BaseAt, Beginning
  <2>5. Kind(q) = e[b].kind /\ Len(q) = b /\ Passes(q, types)
    BY <1>1, <1>3, <2>4, BeginningIs, BeginningPasses
  <2>6. TypeAt(q) = t
    BY <1>2, <2>5, TypeAtIs
  <2> QED BY <1>3, <2>3, <2>6 DEF IsType
<1>9. \A k \in Folded(c) : Constants(c)[k] = c[k]
  BY <1>5, <1>8 DEF IsMixed
<1>10. w = [k \in 1 .. r |-> Times(c[k], m.element_size * get_stride(m, k))]
  <2>1. w = [k \in 1 .. r |-> Times(IF k \in Folded(c) THEN Constants(c)[k] ELSE c[k],
                                    m.element_size * get_stride(m, k))]
    BY <1>5, <1>7 DEF Terms
  <2> QED BY <1>9, <2>1
<1>11. ASSUME NEW k \in 1 .. r
       PROVE  w[k] = Times(e[b + k].by, SizeOf(types[b + k])) /\ IsForm(w[k])
  <2>1. PICK u : u = types[b + k]
    OBVIOUS
  <2>2. k \in 1 .. Len(t.dims) /\ u.base = t.base /\ u.dims = SubSeq(t.dims, k + 1, Len(t.dims))
    BY <1>2, <1>3, <1>6, <2>1 DEF Along
  <2>3. m.element_size * get_stride(m, k) = SizeOf(u) /\ SizeOf(u) \in Nat
    BY <1>2, <1>3, <2>2, StrideIs
  <2>4. IsForm(c[k])
    <3>1. b + k \in (b + 1) .. n
      BY <1>1, <1>3, <1>6
    <3>2. e[b + k].by \in Indices \cup {Zero}
      BY <1>3, <3>1
    <3> QED BY <1>7, <3>2, IndexForm
  <2>5. w[k] = Times(c[k], SizeOf(u))
    BY <1>10, <2>3
  <2>6. IsForm(w[k])
    BY <2>3, <2>4, <2>5, TimesIs
  <2> QED BY <1>7, <2>1, <2>5, <2>6
<1>12. Len(w) = r
  <2>1. DOMAIN w = 1 .. r /\ w = [k \in 1 .. r |-> w[k]]
    BY <1>10
  <2> QED BY <1>7, <2>1, FunctionLength
<1> QED BY <1>6, <1>7, <1>10, <1>11, <1>12

(* The places a walk passes, one by the next.                              *)
Walks(e, types, h) == \A k \in 1 .. Len(e) : h[k].type = types[k] /\ (k # 1 => h[k] = Beyond(Meanings, h[k - 1], e[k]))

(* What the indices of p add, b being where its array is.                  *)
Adds(types, b, p, w) == w = Terms(create_array_metadata(struct_types, types[b]), Chain(p))

(* What an index reads at is where its array is, moved by a sum.           *)
Shifted(h, b, n, w) == h[n].at = Shift(h[b].at, Total(w)) /\ IsValue(h[n].at)

(* All the indices of an array together move as the language does.         *)
LEMMA SumShifts ==
  ASSUME ReadInv(gen, env), "literal" \notin Admit,
         NEW e, NEW types, Passes(e, types), ~PointerMoved(e, types),
         NEW n \in 1 .. Len(e), e[n].kind = "index", NEW b, BaseAt(e, n, b),
         NEW p, Beginning(e, n, p), ~IsMixed(p),
         NEW w, Adds(types, b, p, w),
         NEW h, Walks(e, types, h), IsValue(h[b].at)
  PROVE  Shifted(h, b, n, w)
<1>1. IsPath(e) /\ Len(e) \in Nat
  BY PathShape DEF Passes
<1>2. /\ b \in 1 .. (n - 1) /\ b \in 1 .. Len(e)
      /\ \A j \in (b + 1) .. n : e[j].kind = "index" /\ IsArray(types[j - 1]) /\ types[j] = Row(types[j - 1])
  BY RunOfArray
<1>3. PICK r : r = n - b
  OBVIOUS
<1>4. /\ DOMAIN w = 1 .. r /\ Len(w) = r /\ r \in Nat
      /\ \A k \in 1 .. r : w[k] = Times(e[b + k].by, SizeOf(types[b + k])) /\ IsForm(w[k])
  <2>1. PICK m : m = create_array_metadata(struct_types, types[b])
    OBVIOUS
  <2>2. w = Terms(m, Chain(p))
    BY <2>1 DEF Adds
  <2> QED BY <1>3, <2>1, <2>2, TermsAre
<1>5. PICK s : TotalsTo(w, s)
  BY <1>4, TotalIs
<1>6. /\ s[0] = Zero /\ Total(w) = s[r]
      /\ \A k \in 1 .. r : s[k] = Plus(s[k - 1], w[k])
      /\ \A k \in 0 .. r : IsForm(s[k])
  BY <1>4, <1>5 DEF TotalsTo
<1>7. PICK v : v = h[b].at
  OBVIOUS
<1>8. PICK G : G = {k \in 0 .. r : h[b + k].at = Shift(v, s[k])}
  OBVIOUS
<1>9. 0 \in G
  <2>1. b + 0 = b
    BY <1>2
  <2>2. Shift(v, Zero) = v
    BY <1>7, ShiftZero
  <2> QED BY <1>4, <1>6, <1>7, <1>8, <2>1, <2>2
<1>10. ASSUME NEW k \in 1 .. r, k - 1 \in G
       PROVE  k \in G
  <2>1. PICK j, i : j = b + k /\ i = b + (k - 1)
    OBVIOUS
  <2>2. j \in (b + 1) .. n /\ j - 1 = i /\ j \in 1 .. Len(e) /\ i \in 1 .. Len(e) /\ j # 1
    BY <1>1, <1>2, <1>3, <2>1
  <2>3. e[j].kind = "index" /\ IsArray(types[i]) /\ types[j] = Row(types[i])
    BY <1>2, <2>2
  <2>4. h[i].type = types[i] /\ h[j] = Beyond(Meanings, h[i], e[j])
    BY <2>2 DEF Walks
  <2>5. IsAt(h[j], Shift(h[i].at, Times(e[j].by, SizeOf(Row(types[i])))))
    BY <2>3, <2>4, BeyondAt
  <2>6. w[k] = Times(e[j].by, SizeOf(types[j]))
    BY <1>4, <2>1
  <2>7. h[j].at = Shift(h[i].at, w[k])
    BY <2>3, <2>5, <2>6 DEF IsAt
  <2>8. h[i].at = Shift(v, s[k - 1])
    BY <1>8, <1>10, <2>1
  <2>9. IsForm(s[k - 1]) /\ IsForm(w[k]) /\ IsValue(v)
    BY <1>4, <1>6, <1>7, <1>8, <1>10
  <2>10. h[j].at = Shift(v, Plus(s[k - 1], w[k]))
    BY <2>7, <2>8, <2>9, ShiftTwice
  <2>11. h[j].at = Shift(v, s[k])
    BY <1>6, <2>10
  <2> QED BY <1>8, <2>1, <2>11
<1>11. \A k \in 0 .. r : k \in G
  BY <1>4, <1>9, <1>10, Upwards
<1>12. r \in G /\ r # 0 /\ b + r = n
  BY <1>1, <1>2, <1>3, <1>4, <1>11
<1>13. h[n].at = Shift(v, s[r])
  BY <1>8, <1>12
<1>14. IsForm(s[r])
  BY <1>4, <1>6
<1>15. IsValue(h[n].at)
  BY <1>7, <1>13, <1>14, ShiftIs
<1> QED BY <1>6, <1>7, <1>13, <1>15 DEF Shifted
-----------------------------------------------------------------------------
(* The addresses the generator makes, one by the ones before.              *)
LEMMA AddressAgrees ==
  ASSUME NEW e, NEW types, Passes(e, types), NEW k \in 1 .. Len(e),
         NEW f, NEW h, \A j \in 1 .. (k - 1) : f[j] = h[j]
  PROVE  AddressAt(e, f, k) = AddressAt(e, h, k)
<1>1. IsPath(e) /\ Len(e) \in Nat /\ e[1].kind = "id"
  BY PathShape, KindsAre DEF Passes
<1>2. PICK p : Beginning(e, k, p)
  BY DEF Beginning
<1>3. p = SubSeq(e, 1, k) /\ Kind(p) = e[k].kind
  BY <1>1, <1>2, BeginningIs DEF Beginning
<1>4. CASE e[k].kind = "id"
  BY <1>3, <1>4 DEF AddressAt
<1>5. CASE e[k].kind = "index"
  <2>1. PICK b : BaseAt(e, k, b)
    BY <1>1, BaseIs
  <2>2. b \in 1 .. k /\ b # k /\ Len(Base(p)) = b
    BY <1>2, <1>5, <2>1 DEF BaseAt
  <2>3. b \in 1 .. (k - 1) /\ k - 1 \in 1 .. (k - 1)
    BY <1>1, <2>2
  <2>4. f[b] = h[b] /\ f[k - 1] = h[k - 1]
    BY <2>3
  <2> QED BY <1>3, <1>5, <2>2, <2>4 DEF AddressAt
<1>6. CASE e[k].kind \in {"dot", "arrow", "star"}
  <2>1. k # 1
    BY <1>1, <1>6
  <2>2. k - 1 \in 1 .. (k - 1)
    BY <1>1, <2>1
  <2>3. f[k - 1] = h[k - 1]
    BY <2>2
  <2> QED BY <1>3, <1>6, <2>3 DEF AddressAt
<1> QED BY <1>1, <1>4, <1>5, <1>6, KindsAre

LEMMA AddressesAre ==
  ASSUME NEW e, NEW types, Passes(e, types)
  PROVE  \E a : /\ \A n \in 1 .. Len(e) : a[n] = AddressAt(e, a, n)
                /\ generate_address(gen, e) = a[Len(e)]
<1>1. PICK n : n = Len(e)
  OBVIOUS
<1>2. n \in Nat /\ n >= 1 /\ DOMAIN e = 1 .. n
  BY <1>1, PathShape DEF Passes
<1>3. PICK G : G = {k \in 0 .. n : \E f : \A j \in 1 .. k : f[j] = AddressAt(e, f, j)}
  OBVIOUS
<1>4. 0 \in G
  BY <1>2, <1>3
<1>5. ASSUME NEW k \in 1 .. n, k - 1 \in G
      PROVE  k \in G
  <2>1. PICK f : \A j \in 1 .. (k - 1) : f[j] = AddressAt(e, f, j)
    BY <1>3, <1>5
  <2>2. PICK last : last = AddressAt(e, f, k)
    OBVIOUS
  <2>3. PICK h : h = [j \in 1 .. k |-> IF j = k THEN last ELSE f[j]]
    OBVIOUS
  <2>4. ASSUME NEW j \in 1 .. k
        PROVE  h[j] = AddressAt(e, h, j)
    <3>1. \A i \in 1 .. (j - 1) : i \in 1 .. k /\ i # k
      BY <1>2
    <3>2. \A i \in 1 .. (j - 1) : f[i] = h[i]
      BY <2>3, <3>1
    <3>3. AddressAt(e, f, j) = AddressAt(e, h, j)
      <4>1. j \in 1 .. Len(e)
        BY <1>1, <1>2
      <4> QED BY <3>2, <4>1, AddressAgrees
    <3>4. CASE j = k
      BY <2>2, <2>3, <3>3, <3>4
    <3>5. CASE j # k
      <4>1. j \in 1 .. (k - 1) /\ h[j] = f[j]
        BY <1>2, <2>3, <3>5
      <4> QED BY <2>1, <3>3, <4>1
    <3> QED BY <3>4, <3>5
  <2> QED BY <1>3, <2>4
<1>6. \A k \in 0 .. n : k \in G
  BY <1>2, <1>4, <1>5, Upwards
<1>7. n \in G
  BY <1>2, <1>6
<1>8. PICK f : \A j \in 1 .. n : f[j] = AddressAt(e, f, j)
  BY <1>3, <1>7
<1>9. PICK w : w = [j \in 1 .. n |-> f[j]]
  OBVIOUS
<1>10. AddressTo(e, w)
  <2>1. ASSUME NEW j \in 1 .. n
        PROVE  w[j] = AddressAt(e, w, j)
    <3>1. \A i \in 1 .. (j - 1) : i \in 1 .. n
      BY <1>2
    <3>2. \A i \in 1 .. (j - 1) : f[i] = w[i]
      BY <1>9, <3>1
    <3>3. AddressAt(e, f, j) = AddressAt(e, w, j)
      BY <1>1, <3>2, AddressAgrees
    <3> QED BY <1>8, <1>9, <3>3
  <2> QED BY <1>2, <1>9, <2>1 DEF AddressTo
<1>11. PICK a : a = CHOOSE address : AddressTo(e, address)
  OBVIOUS
<1>12. AddressTo(e, a)
  BY <1>10, <1>11
<1>13. \A k \in 1 .. n : a[k] = AddressAt(e, a, k)
  BY <1>2, <1>12 DEF AddressTo
<1>14. generate_address(gen, e) = a[n]
  BY <1>1, <1>11 DEF generate_address, AddressTo, AddressAt
<1> QED BY <1>1, <1>13, <1>14

(* The parts of what the generator has for an expression. *)
LEMMA ExpIs ==
  ASSUME NEW v, NEW ptr, NEW base, NEW data, NEW x, x = Exp(v, ptr, base, data)
  PROVE  /\ x.value = v /\ x.is_pointer = ptr /\ x.base_type = base /\ x.numbers = {}
         /\ DOMAIN x = {"value", "is_pointer", "base_type", "data_type", "numbers", "arrays"}
BY DEF Exp

LEMMA UsingIs ==
  ASSUME NEW v, NEW ptr, NEW base, NEW data, NEW from, NEW numbers,
         NEW x, x = Using(Exp(v, ptr, base, data), from, numbers)
  PROVE  /\ x.value = v /\ x.is_pointer = ptr /\ x.numbers = from.numbers \cup numbers
         /\ DOMAIN x = {"value", "is_pointer", "base_type", "data_type", "numbers", "arrays"}
<1>1. PICK y : y = Exp(v, ptr, base, data)
  OBVIOUS
<1>2. y.value = v /\ y.is_pointer = ptr
      /\ DOMAIN y = {"value", "is_pointer", "base_type", "data_type", "numbers", "arrays"}
  BY <1>1, ExpIs
<1>3. PICK all, arrays : all = from.numbers \cup numbers /\ arrays = from.arrays
  OBVIOUS
<1>4. x = [y EXCEPT !.numbers = all, !.arrays = arrays]
  BY <1>1, <1>3 DEF Using
<1> QED BY <1>2, <1>3, <1>4

LEMMA DereferenceTo ==
  ASSUME NEW exp, NEW x, x = do_dereference(exp)
  PROVE  /\ x.value = Loaded(exp.value) /\ x.numbers = exp.numbers
         /\ DOMAIN x = {"value", "is_pointer", "base_type", "data_type", "numbers", "arrays"}
<1>1. PICK data : x = Using(Exp(Loaded(exp.value), FALSE, "UNSET", data), exp, {})
  BY DEF do_dereference
<1>2. PICK ptr, base, v, none : ptr = FALSE /\ base = "UNSET" /\ v = Loaded(exp.value) /\ none = {}
  OBVIOUS
<1>3. x = Using(Exp(v, ptr, base, data), exp, none)
  BY <1>1, <1>2
<1>4. /\ x.value = v /\ x.numbers = exp.numbers \cup none
      /\ DOMAIN x = {"value", "is_pointer", "base_type", "data_type", "numbers", "arrays"}
  BY <1>3, UsingIs
<1> QED BY <1>2, <1>4

(* Beyond a name, a value is what memory holds at the address.             *)
LEMMA LaterValue ==
  ASSUME NEW q, Kind(q) \in {"index", "dot", "arrow", "star"}, NEW a, NEW x, ValueOf(q, a, x)
  PROVE  x.value = Loaded(a.value) /\ x.numbers = a.numbers
<1>1. PICK d : d = do_dereference(a)
  OBVIOUS
<1>2. /\ d.value = Loaded(a.value) /\ d.numbers = a.numbers
      /\ DOMAIN d = {"value", "is_pointer", "base_type", "data_type", "numbers", "arrays"}
  BY <1>1, DereferenceTo
<1>3. x = ValueAt(gen, q, a)
  BY DEF ValueOf
<1>4. CASE Kind(q) = "index"
  <2>1. PICK m : m = array_metadata(gen, Base(q))
    OBVIOUS
  <2>2. CASE m # NoArray
    <3>1. PICK data, arrays : data = m.base_type /\ arrays = d.arrays \cup {Base(q)}
      OBVIOUS
    <3>2. x = [d EXCEPT !.data_type = data, !.arrays = arrays]
      BY <1>1, <1>3, <1>4, <2>1, <2>2, <3>1 DEF ValueAt
    <3>3. x.value = d.value /\ x.numbers = d.numbers
      BY <1>2, <3>2
    <3> QED BY <1>2, <3>3
  <2>3. CASE m = NoArray
    <3>1. x = d
      BY <1>1, <1>3, <1>4, <2>1, <2>3 DEF ValueAt
    <3> QED BY <1>2, <3>1
  <2> QED BY <2>2, <2>3
<1>5. CASE Kind(q) \in {"dot", "arrow"}
  <2>1. PICK field : field = get_field(gen.struct_types, infer_struct_type_from_expr(gen, Of(q)), Last(q).name).type
    OBVIOUS
  <2>2. PICK data : data = IF IsArray(field) THEN "INT" ELSE Data(field)
    OBVIOUS
  <2>3. x = [d EXCEPT !.data_type = data]
    BY <1>1, <1>3, <1>5, <2>1, <2>2 DEF ValueAt
  <2>4. x.value = d.value /\ x.numbers = d.numbers
    BY <1>2, <2>3
  <2> QED BY <1>2, <2>4
<1>6. CASE Kind(q) = "star"
  <2>1. x = d
    BY <1>1, <1>3, <1>6 DEF ValueAt
  <2> QED BY <1>2, <2>1
<1> QED BY <1>4, <1>5, <1>6

(* A name's value is what the variable holds; an array's is its address.   *)
LEMMA NameValue ==
  ASSUME NEW q, Kind(q) = "id", NEW t, RecordedAs(get_var(gen, q[1].name), t), IsType(t, Len(StructDefs)),
         NEW a, NEW x, ValueOf(q, a, x)
  PROVE  /\ IsArray(t) => x = a
         /\ ~IsArray(t) => /\ x.value = Content(lookup_sym(gen, q[1].name).decl) /\ x.numbers = {}
                           /\ x.is_pointer = get_var(gen, q[1].name).is_pointer
<1>1. PICK root : root = get_var(gen, q[1].name)
  OBVIOUS
<1>2. x = ValueAt(gen, q, a)
  BY DEF ValueOf
<1>3. ASSUME IsArray(t)
      PROVE  x = a
  <2>1. PICK m : m = create_array_metadata(struct_types, t)
    OBVIOUS
  <2>2. root.array_metadata = m
    BY <1>1, <1>3, <2>1 DEF RecordedAs, DeclaredAs
  <2>3. m.dimensions = t.dims
    BY <2>1, MetadataIs
  <2>4. m # NoArray
    <3>1. NoArray.dimensions = <<>>
      BY DEF NoArray
    <3> QED BY <1>3, <2>3, <3>1 DEF IsArray
  <2> QED BY <1>1, <1>2, <2>2, <2>4 DEF ValueAt
<1>4. ASSUME ~IsArray(t)
      PROVE  /\ x.value = Content(lookup_sym(gen, q[1].name).decl) /\ x.numbers = {}
             /\ x.is_pointer = root.is_pointer
  <2>1. root.array_metadata = NoArray
    BY <1>1, <1>4 DEF RecordedAs, DeclaredAs
  <2>2. PICK c, ptr, base, data : /\ c = Content(lookup_sym(gen, q[1].name).decl) /\ ptr = root.is_pointer
                                  /\ base = root.base_type /\ data = root.data_type
    OBVIOUS
  <2>3. x = Exp(c, ptr, base, data)
    BY <1>1, <1>2, <2>1, <2>2 DEF ValueAt
  <2>4. x.value = c /\ x.numbers = {} /\ x.is_pointer = ptr
    BY <2>3, ExpIs
  <2> QED BY <2>2, <2>4
<1> QED BY <1>1, <1>3, <1>4
-----------------------------------------------------------------------------
(* The generator's address of a place and the place.                       *)
Right(x, c) == x.value = c.at /\ IsValue(c.at)

(* Where a walk starts, and that only there a place is a whole variable.   *)
Starts(e, h) == h[1].at = HomeOf(Meanings[e[1].name].decl) /\ h[1].whole = TRUE
Later(e, h) == \A k \in 1 .. Len(e) : k # 1 => h[k].whole = FALSE

LEMMA LaterIs ==
  ASSUME NEW e, NEW types, Passes(e, types), NEW h, Walks(e, types, h)
  PROVE  Later(e, h)
<1>1. ASSUME NEW k \in 1 .. Len(e), k # 1
      PROVE  h[k].whole = FALSE
  <2>1. PICK b, s, t, c : b = h[k - 1] /\ s = e[k] /\ t = types[k - 1] /\ c = h[k]
    OBVIOUS
  <2>2. k - 1 \in 1 .. Len(e) /\ Goes(e, k - 1, s, t, types[k])
    BY <1>1, <2>1, KindsAre
  <2>3. b.type = t /\ c = Beyond(Meanings, b, s)
    BY <1>1, <2>1, <2>2 DEF Walks
  <2>4. s.kind \in {"index", "dot", "arrow", "star"}
    BY <2>2 DEF Goes
  <2>5. c.whole = FALSE
    BY <2>3, <2>4, BeyondAt DEF IsAt
  <2> QED BY <2>1, <2>5
<1> QED BY <1>1 DEF Later

LEMMA PointersPlain ==
  ASSUME NEW t, IsPointer(t)
  PROVE  ~IsStruct(t)
BY StructsAre DEF IsStruct, IsPointer, StructNames

(* The value of a place that is neither array nor struct. *)
LEMMA HeldRead ==
  ASSUME ReadInv(gen, env), "literal" \notin Admit,
         NEW e, NEW types, Passes(e, types), NEW h, Walks(e, types, h), Starts(e, h),
         NEW k \in 1 .. Len(e), NEW t, t = types[k], ~IsArray(t), ~IsStruct(t),
         NEW c, c = h[k], NEW a, Right(a, c), NEW q, Beginning(e, k, q), NEW x, ValueOf(q, a, x)
  PROVE  /\ x.value = Held(c) /\ IsValue(Held(c)) /\ x.numbers \in {a.numbers, {}}
         /\ k = 1 => x.is_pointer = get_var(gen, e[1].name).is_pointer
<1>1. IsPath(e) /\ Len(e) \in Nat
  BY PathShape DEF Passes
<1>2. IsPath(q) /\ Len(q) = k /\ Kind(q) = e[k].kind /\ \A j \in 1 .. k : q[j] = e[j]
  BY <1>1, BeginningIs
<1>3. c.type = t /\ a.value = c.at /\ IsValue(c.at)
  BY DEF Walks, Right
<1>4. CASE k = 1
  <2>1. Kind(q) = "id" /\ q[1] = e[1]
    BY <1>2, <1>4, KindsAre
  <2>2. PICK name, root : name = e[1].name /\ root = get_var(gen, name)
    OBVIOUS
  <2>3. RecordedAs(root, t) /\ IsType(t, Len(StructDefs)) /\ name \in Visible
    BY <1>4, <2>2, StartIs
  <2>4. x.value = Content(lookup_sym(gen, name).decl) /\ x.numbers = {} /\ x.is_pointer = root.is_pointer
    <3>1. name = q[1].name
      BY <2>1, <2>2
    <3> QED BY <2>1, <2>2, <2>3, <3>1, NameValue
  <2>5. PICK d : d = Meanings[name].decl
    OBVIOUS
  <2>6. lookup_sym(gen, name).decl = d
    <3>1. lookup_sym(gen, name) = Symbol("VAR", d)
      BY <2>3, <2>5, RootIs
    <3> QED BY <3>1 DEF Symbol
  <2>7. c.at = HomeOf(d) /\ c.whole = TRUE
    BY <1>4, <2>2, <2>5 DEF Starts
  <2>8. c.at.kind = "home" /\ c.at.form = Zero /\ c.at.decl = d /\ IsValue(Content(d))
    BY <2>7, ValuesAre
  <2>9. Held(c) = Content(d)
    BY <1>3, <2>7, <2>8 DEF Held
  <2> QED BY <1>4, <2>2, <2>4, <2>6, <2>8, <2>9
<1>5. CASE k # 1
  <2>1. Kind(q) \in {"index", "dot", "arrow", "star"}
    BY <1>2, <1>5, KindsAre
  <2>2. x.value = Loaded(a.value) /\ x.numbers = a.numbers
    BY <2>1, LaterValue
  <2>3. c.whole = FALSE
    BY <1>5, LaterIs DEF Later
  <2>4. Held(c) = Loaded(c.at)
    BY <1>3, <2>3 DEF Held
  <2> QED BY <1>3, <1>5, <2>2, <2>4, ValuesAre
<1> QED BY <1>4, <1>5

(* What is added to a pointer: four bytes to the step.                     *)
LEMMA AddedIs ==
  ASSUME NEW exp, exp.is_pointer = TRUE, NEW k
  PROVE  Added(exp, k).value = Shift(exp.value, Times(k, 4))
<1>1. PICK numbers : numbers = {4} \cup (IF IsConst(k) THEN {k.one} ELSE {})
  OBVIOUS
<1>2. PICK v, ptr, base, data : v = Shift(exp.value, Times(k, 4)) /\ ptr = TRUE /\ base = "UNSET" /\ data = "INT"
  OBVIOUS
<1>3. PICK x : x = Added(exp, k)
  OBVIOUS
<1>4. x = Using(Exp(v, ptr, base, data), exp, numbers)
  BY <1>1, <1>2, <1>3 DEF Added
<1>5. x.value = v
  BY <1>4, UsingIs
<1> QED BY <1>2, <1>3, <1>5

LEMMA SizePlain ==
  ASSUME NEW u, ~IsArray(u), ~IsStruct(u)
  PROVE  SizeOf(u) = 4
<1>1. PICK d : d = u.dims
  OBVIOUS
<1>2. d = <<>> /\ d \in Seq(Nat)
  <2>1. d = <<>>
    BY <1>1 DEF IsArray
  <2>2. <<>> \in Seq(Nat)
    OBVIOUS
  <2> QED BY <2>1, <2>2
<1>3. Product(d) = 1
  BY <1>2, ProductNat
<1> QED BY <1>1, <1>3 DEF SizeOf, Bytes

(* The address of a name. *)
LEMMA NameRight ==
  ASSUME ReadInv(gen, env), "literal" \notin Admit,
         NEW e, NEW types, Passes(e, types), NEW h, Starts(e, h),
         NEW a, NEW one, one = 1, NEW x, x = AddressAt(e, a, one), NEW c, c = h[one]
  PROVE  Right(x, c)
<1>1. IsPath(e) /\ Len(e) \in Nat /\ one \in 1 .. Len(e) /\ e[one].kind = "id" /\ e[one].name \in Visible
  BY PathShape, StartIs DEF Passes
<1>2. PICK p : Beginning(e, one, p)
  BY DEF Beginning
<1>3. p = SubSeq(e, 1, one) /\ Kind(p) = "id" /\ p[1] = e[one]
  <2>1. p = SubSeq(e, 1, one) /\ one \in 1 .. one
    BY <1>2 DEF Beginning
  <2>2. Kind(p) = e[one].kind /\ \A k \in 1 .. one : p[k] = e[k]
    BY <1>1, <1>2, BeginningIs
  <2> QED BY <1>1, <2>1, <2>2
<1>4. PICK name, d : name = e[one].name /\ d = Meanings[name].decl
  OBVIOUS
<1>5. lookup_sym(gen, name).decl = d
  <2>1. lookup_sym(gen, name) = Symbol("VAR", d)
    BY <1>1, <1>4, RootIs
  <2> QED BY <2>1 DEF Symbol
<1>6. PICK from, none : from = Exp(Anything, FALSE, "", "") /\ none = {}
  OBVIOUS
<1>7. PICK v, ptr, base, data : v = HomeOf(d) /\ ptr = TRUE /\ base = "UNSET" /\ data = "INT"
  OBVIOUS
<1>8. x = do_address_of(from, d)
  BY <1>3, <1>4, <1>5, <1>6 DEF AddressAt
<1>9. x = Using(Exp(v, ptr, base, data), from, none)
  BY <1>6, <1>7, <1>8 DEF do_address_of
<1>10. x.value = v
  BY <1>9, UsingIs
<1>11. c.at = v
  BY <1>4, <1>7 DEF Starts
<1> QED BY <1>7, <1>10, <1>11, ValuesAre DEF Right

(* The address of a member: so many bytes from what it is a member of.     *)
LEMMA OffsetAdded ==
  ASSUME NEW exp, IsValue(exp.value), NEW offset \in Nat,
         NEW x, x = IF offset = 0 THEN exp
                    ELSE Using(Exp(Shift(exp.value, Num(offset)), TRUE, "UNSET", "INT"), exp, {offset})
  PROVE  x.value = Shift(exp.value, Num(offset))
<1>1. CASE offset = 0
  BY <1>1, ZeroIs, ShiftZero
<1>2. CASE offset # 0
  <2>1. PICK v, ptr, base, data, numbers : /\ v = Shift(exp.value, Num(offset)) /\ ptr = TRUE
                                           /\ base = "UNSET" /\ data = "INT" /\ numbers = {offset}
    OBVIOUS
  <2>2. PICK y : y = Using(Exp(v, ptr, base, data), exp, numbers)
    OBVIOUS
  <2>3. y.value = v
    BY <2>2, UsingIs
  <2>4. x = y
    BY <1>2, <2>1, <2>2
  <2> QED BY <2>1, <2>3, <2>4
<1> QED BY <1>1, <1>2

LEMMA MemberRight ==
  ASSUME ReadInv(gen, env), "literal" \notin Admit,
         NEW e, NEW types, Passes(e, types), ~PointerMoved(e, types), NEW h, Walks(e, types, h), Starts(e, h),
         NEW n \in 1 .. Len(e), e[n].kind \in {"dot", "arrow"},
         NEW a, Right(a[n - 1], h[n - 1]), NEW x, x = AddressAt(e, a, n), NEW c, c = h[n]
  PROVE  Right(x, c)
<1>1. IsPath(e) /\ Len(e) \in Nat
  BY PathShape DEF Passes
<1>2. n # 1 /\ n - 1 \in 1 .. Len(e) /\ Goes(e, n - 1, e[n], types[n - 1], types[n])
  <2>1. n # 1
    BY KindsAre
  <2> QED BY <2>1, KindsAre
<1>3. PICK l, b, t, s : l = n - 1 /\ b = h[n - 1] /\ t = types[n - 1] /\ s = e[n]
  OBVIOUS
<1>4. /\ b.type = t /\ c = Beyond(Meanings, b, s)
      /\ b = h[l] /\ t = types[l] /\ l \in 1 .. Len(e) /\ Goes(e, l, s, t, types[n])
      /\ a[l].value = b.at /\ IsValue(b.at)
  BY <1>2, <1>3 DEF Walks, Right
<1>5. PICK p : Beginning(e, n, p)
  BY DEF Beginning
<1>6. p = SubSeq(e, 1, n) /\ Kind(p) = s.kind /\ Last(p) = s
  BY <1>1, <1>3, <1>5, BeginningIs DEF Beginning
<1>7. PICK q : Beginning(e, l, q)
  BY DEF Beginning
<1>8. Of(p) = q
  BY <1>1, <1>2, <1>3, <1>5, <1>7, OfIs DEF Beginning
<1>9. Len(q) = l /\ Kind(q) = e[l].kind /\ \A k \in 1 .. l : q[k] = e[k]
  BY <1>1, <1>4, <1>7, BeginningIs
<1>10. PICK struct : struct = IF s.kind = "dot" THEN t.base ELSE Pointee(t).base
  OBVIOUS
<1>11. PICK offset : offset = OffsetIn(struct, s.name)
  OBVIOUS
<1>12. /\ get_field(gen.struct_types, infer_struct_type_from_expr(gen, Of(p)), Last(p).name).offset = offset
       /\ offset \in Nat
  BY <1>3, <1>5, <1>10, <1>11, OffsetWithin
<1>13. PICK exp : exp = IF Kind(q) = "id" /\ Kind(p) = "arrow" /\ get_var(gen, q[1].name).is_pointer
                        THEN Exp(Content(lookup_sym(gen, q[1].name).decl), TRUE, get_var(gen, q[1].name).base_type, "INT")
                        ELSE a[l]
  OBVIOUS
<1>14. x = generate_member_address(gen, p, a[l])
  BY <1>3, <1>6 DEF AddressAt
<1>15. x = IF offset = 0 THEN exp
           ELSE Using(Exp(Shift(exp.value, Num(offset)), TRUE, "UNSET", "INT"), exp, {offset})
  BY <1>8, <1>12, <1>13, <1>14 DEF generate_member_address
<1>16. ASSUME NEW v, exp.value = v, IsValue(v), IsAt(c, Shift(v, Num(offset)))
       PROVE  Right(x, c)
  <2>1. x.value = Shift(v, Num(offset))
    BY <1>12, <1>15, <1>16, OffsetAdded
  <2>2. IsForm(Num(offset))
    BY <1>12, NumIs
  <2>3. IsValue(Shift(v, Num(offset)))
    BY <1>16, <2>2, ShiftIs
  <2> QED BY <1>16, <2>1, <2>3 DEF Right, IsAt
<1>17. CASE s.kind = "dot"
  <2>1. exp = a[l]
    BY <1>6, <1>13, <1>17
  <2>2. IsAt(c, Shift(b.at, Num(offset)))
    <3>1. IsAt(c, Shift(b.at, Num(OffsetIn(t.base, s.name))))
      BY <1>4, <1>17, BeyondAt
    <3> QED BY <1>10, <1>11, <1>17, <3>1
  <2> QED BY <1>4, <1>16, <2>1, <2>2
<1>18. CASE s.kind = "arrow"
  <2>1. l = 1 /\ ~IsArray(t) /\ IsPointer(t)
    BY <1>4, <1>18 DEF Goes
  <2>2. Kind(q) = "id" /\ q[1] = e[1]
    BY <1>9, <2>1, KindsAre
  <2>3. PICK root : root = get_var(gen, q[1].name)
    OBVIOUS
  <2>4. root.is_pointer = TRUE
    <3>1. RecordedAs(root, t)
      BY <1>4, <2>1, <2>2, <2>3, StartIs
    <3> QED BY <2>1, <3>1 DEF RecordedAs
  <2>5. PICK v, ptr, base, data : /\ v = Content(lookup_sym(gen, q[1].name).decl) /\ ptr = TRUE
                                  /\ base = root.base_type /\ data = "INT"
    OBVIOUS
  <2>6. exp = Exp(v, ptr, base, data)
    BY <1>6, <1>13, <1>18, <2>2, <2>3, <2>4, <2>5
  <2>7. exp.value = v
    BY <2>6, ExpIs
  <2>8. PICK y : ValueOf(q, a[l], y)
    BY DEF ValueOf
  <2>9. ~IsStruct(t)
    BY <2>1, PointersPlain
  <2>10. Right(a[l], b)
    BY <1>4 DEF Right
  <2>11. y.value = Held(b) /\ IsValue(Held(b))
    BY <1>4, <1>7, <2>1, <2>8, <2>9, <2>10, HeldRead
  <2>12. y.value = v
    <3>1. RecordedAs(root, t) /\ IsType(t, Len(StructDefs))
      BY <1>4, <2>1, <2>2, <2>3, StartIs
    <3> QED BY <2>1, <2>2, <2>3, <2>5, <2>8, <3>1, NameValue
  <2>13. IsAt(c, Shift(v, Num(offset)))
    <3>1. IsAt(c, Shift(Held(b), Num(OffsetIn(Pointee(t).base, s.name))))
      BY <1>4, <1>18, BeyondAt
    <3> QED BY <1>10, <1>11, <1>18, <2>11, <2>12, <3>1
  <2> QED BY <1>16, <2>7, <2>11, <2>12, <2>13
<1> QED BY <1>3, <1>17, <1>18
-----------------------------------------------------------------------------
(* What an index of a pointer adds is a form.                              *)
LEMMA StepForm ==
  ASSUME NEW k, k \in Indices \cup {Zero}
  PROVE  IsForm(Times(k, 4))
<1>1. IsForm(k)
  BY IndexForm
<1>2. PICK f, four : f = Times(k, four) /\ four = 4
  OBVIOUS
<1>3. four \in Int
  BY <1>2
<1>4. f = Times(k, four)
  BY <1>2
<1>5. IsForm(f)
  BY <1>1, <1>3, <1>4, TimesIs
<1> QED BY <1>2, <1>5

(* The address of an element: the sum of what its indices add.             *)
LEMMA ArrayRight ==
  ASSUME ReadInv(gen, env), "literal" \notin Admit,
         NEW e, NEW types, Passes(e, types), ~PointerMoved(e, types), NEW h, Walks(e, types, h),
         \A p \in Parts(e) : ~IsMixed(p) /\ ~IsRemembered(p),
         NEW n \in 1 .. Len(e), e[n].kind = "index",
         NEW a, \A k \in 1 .. (n - 1) : Right(a[k], h[k]), NEW x, x = AddressAt(e, a, n), NEW c, c = h[n]
  PROVE  Right(x, c)
<1>1. IsPath(e) /\ Len(e) \in Nat /\ DOMAIN e = 1 .. Len(e) /\ e[1].kind = "id"
  BY PathShape, KindsAre DEF Passes
<1>2. PICK p : Beginning(e, n, p)
  BY DEF Beginning
<1>3. p = SubSeq(e, 1, n) /\ Kind(p) = "index" /\ p \in Parts(e)
  <2>1. Kind(p) = e[n].kind
    BY <1>1, <1>2, BeginningIs
  <2>2. p = SubSeq(e, 1, n)
    BY <1>2 DEF Beginning
  <2> QED BY <1>1, <2>1, <2>2 DEF Parts
<1>4. PICK b : BaseAt(e, n, b)
  BY <1>1, BaseIs
<1>5. PICK t, q : t = types[b] /\ q = Base(p)
  OBVIOUS
<1>6. /\ b \in 1 .. (n - 1) /\ b \in 1 .. Len(e) /\ IsType(t, Len(StructDefs)) /\ IsArray(t)
      /\ e[b].kind \in {"id", "dot", "arrow"} /\ (e[b].kind = "id" <=> b = 1)
  BY <1>4, <1>5, RunOfArray
<1>7. Beginning(e, b, q) /\ Len(q) = b /\ q \in Parts(e)
  <2>1. q = SubSeq(e, 1, b) /\ Len(q) = b
    BY <1>2, <1>4, <1>5 DEF BaseAt
  <2> QED BY <1>1, <1>6, <2>1 DEF Parts, Beginning
<1>8. IsPath(q) /\ Kind(q) = e[b].kind /\ \A k \in 1 .. b : q[k] = e[k]
  BY <1>1, <1>6, <1>7, BeginningIs
<1>9. PICK m : m = create_array_metadata(struct_types, t)
  OBVIOUS
<1>10. array_metadata(gen, q) = m
  <2>1. e[b].kind # "star"
    BY <1>6
  <2>2. Passes(q, types) /\ Typed(q, types)
    BY <1>6, <1>7, <2>1, TypedBefore
  <2>3. Beginning(q, b, q)
    BY <1>7, <1>8, BeginningWhole DEF Beginning
  <2>4. b \in 1 .. Len(q) /\ q[b].kind \in {"id", "dot", "arrow"}
    <3>1. b \in 1 .. b
      BY <1>6
    <3> QED BY <1>6, <1>7, <1>8, <3>1
  <2>5. ~IsRemembered(q)
    BY <1>7
  <2> QED BY <1>5, <1>6, <1>9, <2>2, <2>3, <2>4, <2>5, MetadataRead
<1>11. PICK w, sum : w = Terms(m, Chain(p)) /\ sum = Sum(m, Chain(p))
  OBVIOUS
<1>12. sum.form = Total(w)
  BY <1>11 DEF Sum
<1>13. a[b].value = h[b].at /\ IsValue(h[b].at)
  BY <1>6 DEF Right
<1>14. h[n].at = Shift(h[b].at, Total(w)) /\ IsValue(h[n].at)
  <2>1. ~IsMixed(p) /\ Adds(types, b, p, w)
    BY <1>3, <1>5, <1>9, <1>11 DEF Adds
  <2>2. Shifted(h, b, n, w)
    BY <1>2, <1>4, <1>13, <2>1, SumShifts
  <2> QED BY <2>2 DEF Shifted
<1>15. ~(Kind(q) = "id" /\ get_var(gen, q[1].name).is_pointer)
  <2>1. SUFFICES ASSUME Kind(q) = "id"
                 PROVE  ~get_var(gen, q[1].name).is_pointer
    OBVIOUS
  <2>2. b = 1 /\ q[1] = e[1]
    <3>1. b = 1
      BY <1>6, <1>8, <2>1
    <3> QED BY <1>8, <3>1
  <2>3. RecordedAs(get_var(gen, q[1].name), t)
    BY <1>5, <2>2, StartIs
  <2>4. ~IsPointer(t)
    BY <1>6 DEF IsType
  <2>5. get_var(gen, q[1].name).is_pointer = FALSE
    BY <2>3, <2>4 DEF RecordedAs
  <2> QED BY <2>5
<1>16. PICK base, numbers, form : base = a[b] /\ numbers = sum.numbers /\ form = sum.form
  OBVIOUS
<1>17. PICK y : y = Using(Exp(Shift(base.value, form), TRUE, "UNSET", "INT"), base, numbers)
  OBVIOUS
<1>18. x = generate_array_address(gen, p, base, a[n - 1])
  BY <1>3, <1>5, <1>7, <1>16 DEF AddressAt
<1>19. x = [y EXCEPT !.arrays = @ \cup {q}]
  BY <1>5, <1>10, <1>11, <1>15, <1>16, <1>17, <1>18 DEF generate_array_address
<1>20. x.value = Shift(base.value, form)
  <2>1. PICK v, ptr, un, data : v = Shift(base.value, form) /\ ptr = TRUE /\ un = "UNSET" /\ data = "INT"
    OBVIOUS
  <2>2. y = Using(Exp(v, ptr, un, data), base, numbers)
    BY <1>17, <2>1
  <2>3. y.value = v /\ DOMAIN y = {"value", "is_pointer", "base_type", "data_type", "numbers", "arrays"}
    BY <2>2, UsingIs
  <2>4. PICK arrays : arrays = y.arrays \cup {q}
    OBVIOUS
  <2>5. x = [y EXCEPT !.arrays = arrays]
    BY <1>19, <2>4
  <2>6. x.value = y.value
    BY <2>3, <2>5
  <2> QED BY <2>1, <2>3, <2>6
<1> QED BY <1>12, <1>13, <1>14, <1>16, <1>20 DEF Right

(* The address a pointer is moved to, by an index.                         *)
LEMMA MovedRight ==
  ASSUME ReadInv(gen, env), "literal" \notin Admit,
         NEW e, NEW types, Passes(e, types), PointerMoved(e, types), NEW h, Walks(e, types, h), Starts(e, h),
         \A p \in Parts(e) : ~IsStep(p),
         NEW n, n = 2, NEW a, Right(a[1], h[1]), NEW x, x = AddressAt(e, a, n), NEW c, c = h[n]
  PROVE  Right(x, c)
<1>1. /\ IsPath(e) /\ Len(e) \in Nat /\ e[1].kind = "id"
      /\ n \in 1 .. Len(e) /\ n # 1 /\ n - 1 = 1 /\ e[n].kind = "index" /\ ~IsArray(types[1])
  <2>1. IsPath(e) /\ Len(e) \in Nat /\ n \in 1 .. Len(e) /\ e[n].kind = "index" /\ ~IsArray(types[1])
    BY PathShape DEF Passes, PointerMoved
  <2> QED BY <2>1, KindsAre
<1>2. /\ IsPointer(types[1]) /\ types[2] = Pointee(types[1]) /\ SizeOf(Pointee(types[1])) = 4
      /\ \A p : Beginning(e, 2, p) => ThroughPointer(p)
  BY MovedIs
<1>3. PICK one, t, b, s : one = 1 /\ t = types[1] /\ b = h[1] /\ s = e[n]
  OBVIOUS
<1>4. b.type = t /\ c = Beyond(Meanings, b, s) /\ one \in 1 .. Len(e) /\ b = h[one] /\ t = types[one]
  <2>1. h[n] = Beyond(Meanings, h[n - 1], e[n])
    BY <1>1 DEF Walks
  <2>2. one \in 1 .. Len(e)
    BY <1>1, <1>3
  <2> QED BY <1>1, <1>3, <2>1, <2>2 DEF Walks
<1>5. PICK p : Beginning(e, n, p)
  BY DEF Beginning
<1>6. p = SubSeq(e, 1, n) /\ Kind(p) = "index" /\ Last(p) = s
  <2>1. Kind(p) = e[n].kind /\ Last(p) = e[n]
    BY <1>1, <1>5, BeginningIs
  <2>2. p = SubSeq(e, 1, n)
    BY <1>5 DEF Beginning
  <2> QED BY <1>1, <1>3, <2>1, <2>2
<1>7. PICK q : Beginning(e, one, q)
  BY DEF Beginning
<1>8. Of(p) = q
  <2>1. Of(p) = SubSeq(e, 1, n - 1)
    BY <1>1, <1>5, OfIs
  <2> QED BY <1>1, <1>3, <1>7, <2>1 DEF Beginning
<1>9. Kind(q) = "id" /\ q[1] = e[1]
  BY <1>3, <1>7, FirstBeginning
<1>10. Base(p) = q
  <2>1. PICK d : BaseAt(e, n, d)
    BY <1>1, BaseIs
  <2>2. d \in 1 .. n /\ e[d].kind # "index" /\ Base(p) = SubSeq(e, 1, d)
    BY <1>5, <2>1 DEF BaseAt
  <2>3. d = one
    BY <1>1, <1>3, <2>2
  <2> QED BY <1>7, <2>2, <2>3 DEF Beginning
<1>11. PICK root : root = get_var(gen, q[1].name)
  OBVIOUS
<1>12. root.is_pointer = TRUE
  <2>1. RecordedAs(root, t)
    BY <1>3, <1>9, <1>11, StartIs
  <2> QED BY <1>2, <1>3, <2>1 DEF RecordedAs
<1>13. PICK y : ValueOf(q, a[one], y)
  BY DEF ValueOf
<1>14. x = generate_array_address(gen, p, a[Len(Base(p))], a[one])
  BY <1>1, <1>3, <1>6 DEF AddressAt
<1>15. x = Added(y, s.by)
  <2>1. y = ValueAt(gen, q, a[one])
    BY <1>13 DEF ValueOf
  <2> QED BY <1>6, <1>8, <1>9, <1>10, <1>11, <1>12, <1>14, <2>1 DEF generate_array_address
<1>16. ~IsStruct(t) /\ ~IsArray(t) /\ Right(a[one], b)
  BY <1>1, <1>2, <1>3, PointersPlain
<1>17. y.value = Held(b) /\ IsValue(Held(b)) /\ y.is_pointer = get_var(gen, e[1].name).is_pointer
  BY <1>3, <1>4, <1>7, <1>13, <1>16, HeldRead
<1>18. y.is_pointer = TRUE
  BY <1>9, <1>11, <1>12, <1>17
<1>19. x.value = Shift(Held(b), Times(s.by, 4))
  BY <1>15, <1>17, <1>18, AddedIs
<1>20. IsAt(c, Shift(Held(b), Times(s.by, 4)))
  <2>1. IsAt(c, Shift(Held(b), Times(s.by, SizeOf(Pointee(t)))))
    BY <1>1, <1>3, <1>4, BeyondAt
  <2> QED BY <1>2, <1>3, <2>1
<1>21. IsForm(Times(s.by, 4))
  <2>1. Goes(e, n - 1, e[n], types[n - 1], types[n])
    BY <1>1, KindsAre
  <2>2. s.by \in Indices \cup {Zero}
    BY <1>1, <1>3, <2>1 DEF Goes
  <2> QED BY <2>2, StepForm
<1>22. IsValue(Shift(Held(b), Times(s.by, 4)))
  BY <1>17, <1>21, ShiftIs
<1> QED BY <1>19, <1>20, <1>22 DEF Right, IsAt

(* The address a star reads at: the pointer's value, moved if asked to.    *)
LEMMA StarRight ==
  ASSUME ReadInv(gen, env), "literal" \notin Admit,
         NEW e, NEW types, Passes(e, types), NEW h, Walks(e, types, h), Starts(e, h),
         \A p \in Parts(e) : ~IsStep(p),
         NEW n \in 1 .. Len(e), e[n].kind = "star",
         NEW a, Right(a[n - 1], h[n - 1]), NEW x, x = AddressAt(e, a, n), NEW c, c = h[n]
  PROVE  Right(x, c)
<1>1. IsPath(e) /\ Len(e) \in Nat /\ DOMAIN e = 1 .. Len(e)
  BY PathShape DEF Passes
<1>2. n # 1 /\ n - 1 \in 1 .. Len(e) /\ Goes(e, n - 1, e[n], types[n - 1], types[n])
  <2>1. n # 1
    BY KindsAre
  <2> QED BY <2>1, KindsAre
<1>3. PICK l, b, t, s : l = n - 1 /\ b = h[n - 1] /\ t = types[n - 1] /\ s = e[n]
  OBVIOUS
<1>4. /\ b.type = t /\ c = Beyond(Meanings, b, s)
      /\ b = h[l] /\ t = types[l] /\ l \in 1 .. Len(e) /\ Goes(e, l, s, t, types[n])
      /\ Right(a[l], b)
  BY <1>2, <1>3 DEF Walks
<1>5. /\ ~IsArray(t) /\ IsPointer(t) /\ ~IsStruct(t) /\ SizeOf(Pointee(t)) = 4
      /\ s.by \in Indices \cup {Zero} /\ s.kind = "star"
  <2>1. /\ ~IsArray(t) /\ IsPointer(t) /\ ~IsStruct(Pointee(t)) /\ ~IsArray(Pointee(t))
        /\ s.by \in Indices \cup {Zero} /\ s.kind = "star"
    BY <1>3, <1>4 DEF Goes
  <2> QED BY <2>1, SizePlain, PointersPlain
<1>6. PICK p : Beginning(e, n, p)
  BY DEF Beginning
<1>7. p = SubSeq(e, 1, n) /\ Kind(p) = "star" /\ Last(p) = s /\ p \in Parts(e)
  <2>1. p = SubSeq(e, 1, n) /\ Kind(p) = "star" /\ Last(p) = s
    BY <1>1, <1>3, <1>6, BeginningIs DEF Beginning
  <2> QED BY <1>1, <2>1 DEF Parts
<1>8. PICK q : Beginning(e, l, q)
  BY DEF Beginning
<1>9. Of(p) = q
  BY <1>1, <1>2, <1>3, <1>6, <1>8, OfIs DEF Beginning
<1>10. Kind(q) = e[l].kind
  BY <1>1, <1>4, <1>8, BeginningIs
<1>11. PICK y : ValueOf(q, a[l], y)
  BY DEF ValueOf
<1>12. x = IF s.by = Zero THEN y ELSE Added(y, s.by)
  <2>1. y = ValueAt(gen, q, a[l])
    BY <1>11 DEF ValueOf
  <2> QED BY <1>3, <1>7, <1>9, <2>1 DEF AddressAt
<1>13. /\ y.value = Held(b) /\ IsValue(Held(b))
       /\ l = 1 => y.is_pointer = get_var(gen, e[1].name).is_pointer
  BY <1>4, <1>5, <1>8, <1>11, HeldRead
<1>14. IsAt(c, Shift(Held(b), Times(s.by, 4)))
  <2>1. IsAt(c, Shift(Held(b), Times(s.by, SizeOf(Pointee(t)))))
    BY <1>4, <1>5, BeyondAt
  <2> QED BY <1>5, <2>1
<1>15. x.value = Shift(Held(b), Times(s.by, 4))
  <2>1. CASE s.by = Zero
    <3>1. PICK four : four = 4
      OBVIOUS
    <3>2. Times(Zero, four) = Zero
      BY <3>1, TimesZero
    <3>3. Shift(Held(b), Zero) = Held(b)
      BY <1>13, ShiftZero
    <3> QED BY <1>12, <1>13, <2>1, <3>1, <3>2, <3>3
  <2>2. CASE s.by # Zero
    <3>1. Kind(q) = "id"
      <4>1. ~IsStep(p)
        BY <1>7
      <4> QED BY <1>7, <1>9, <2>2, <4>1 DEF IsStep
    <3>2. l = 1
      BY <1>4, <1>10, <3>1, KindsAre
    <3>3. RecordedAs(get_var(gen, e[1].name), t)
      BY <1>4, <3>2, StartIs
    <3>4. y.is_pointer = TRUE
      BY <1>5, <1>13, <3>2, <3>3 DEF RecordedAs
    <3>5. Added(y, s.by).value = Shift(y.value, Times(s.by, 4))
      BY <3>4, AddedIs
    <3> QED BY <1>12, <1>13, <2>2, <3>5
  <2> QED BY <2>1, <2>2
<1>16. IsForm(Times(s.by, 4))
  BY <1>5, StepForm
<1>17. IsValue(Shift(Held(b), Times(s.by, 4)))
  BY <1>13, <1>16, ShiftIs
<1> QED BY <1>14, <1>15, <1>17 DEF Right, IsAt
-----------------------------------------------------------------------------
(* The places on the way to a place.                                       *)
LEMMA PlacesAre ==
  ASSUME NEW e, NEW types, Passes(e, types)
  PROVE  \E h : Walks(e, types, h) /\ Starts(e, h) /\ Place(Meanings, e) = h[Len(e)]
<1>1. PICK n, v : n = Len(e) /\ v = Meanings
  OBVIOUS
<1>2. n \in Nat /\ n >= 1 /\ DOMAIN e = 1 .. n
  BY <1>1, PathShape DEF Passes
<1>3. PICK x \in Visible : e[1] = Step("id", x, Zero) /\ types[1] = v[x].type
  BY <1>1 DEF Passes
<1>4. e[1].kind = "id" /\ e[1].name = x
  BY <1>3 DEF Step
<1>5. PICK h : h = CHOOSE place : PlacesTo(v, e, n, place)
  OBVIOUS
<1>6. PlacesTo(v, e, n, h)
  BY <1>2, <1>4, <1>5, PlacesExist
<1>7. \A k \in 1 .. n : h[k] = Beyond(v, h[k - 1], e[k])
  BY <1>6 DEF PlacesTo
<1>8. PICK G : G = {k \in 0 .. n : k # 0 => h[k].type = types[k]}
  OBVIOUS
<1>9. PICK one, first, before, start : one = 1 /\ first = e[one] /\ before = h[one - 1] /\ start = h[one]
  OBVIOUS
<1>10. start = Beyond(v, before, first) /\ first.kind = "id" /\ first.name = x
  BY <1>2, <1>4, <1>7, <1>9
<1>11. start.type = v[x].type
  BY <1>10, BeyondName
<1>12. start.at = HomeOf(v[x].decl) /\ start.whole = TRUE
  <2>1. PICK t : t = before.type
    OBVIOUS
  <2> QED BY <1>10, <2>1, BeyondAt
<1>13. ASSUME NEW k \in 1 .. n, k - 1 \in G
       PROVE  k \in G
  <2>1. CASE k = 1
    BY <1>3, <1>8, <1>9, <1>11, <2>1
  <2>2. CASE k # 1
    <3>1. Goes(e, k - 1, e[k], types[k - 1], types[k])
      BY <1>1, <2>2, KindsAre
    <3>2. h[k - 1].type = types[k - 1]
      BY <1>8, <1>13, <2>2
    <3>3. h[k].type = types[k]
      BY <1>7, <3>1, <3>2, BeyondType
    <3> QED BY <1>8, <3>3
  <2> QED BY <2>1, <2>2
<1>14. \A k \in 0 .. n : k \in G
  <2>1. 0 \in G
    BY <1>2, <1>8
  <2> QED BY <1>2, <1>13, <2>1, Upwards
<1>15. Walks(e, types, h)
  <2>1. \A k \in 1 .. n : h[k].type = types[k]
    BY <1>2, <1>8, <1>14
  <2> QED BY <1>1, <1>7, <2>1 DEF Walks
<1>16. Starts(e, h)
  BY <1>1, <1>4, <1>9, <1>12 DEF Starts
<1>17. Place(Meanings, e) = h[n]
  <2>1. PlacesTo(v, e, n, h) <=> h = [k \in DOMAIN e |-> Beyond(v, h[k - 1], e[k])]
    BY <1>2 DEF PlacesTo
  <2> QED BY <1>1, <1>2, <1>5 DEF Place, PlacesTo
<1> QED BY <1>1, <1>15, <1>16, <1>17

(* Every address the generator makes is the place of what it is for.       *)
LEMMA PlacesRight ==
  ASSUME ReadInv(gen, env), "literal" \notin Admit,
         NEW e, NEW types, Passes(e, types), NEW h, Walks(e, types, h), Starts(e, h),
         \A p \in Parts(e) : ~IsStep(p) /\ ~IsMixed(p) /\ ~IsRemembered(p),
         NEW a, \A n \in 1 .. Len(e) : a[n] = AddressAt(e, a, n)
  PROVE  \A n \in 1 .. Len(e) : Right(a[n], h[n])
<1>1. IsPath(e) /\ Len(e) \in Nat /\ Len(e) >= 1
  BY PathShape DEF Passes
<1>2. PICK G : G = {k \in 0 .. Len(e) : \A j \in 1 .. k : Right(a[j], h[j])}
  OBVIOUS
<1>3. 0 \in G
  BY <1>1, <1>2
<1>4. ASSUME NEW n \in 1 .. Len(e), \A k \in 1 .. (n - 1) : Right(a[k], h[k])
      PROVE  Right(a[n], h[n])
  <2>1. PICK x, c : x = a[n] /\ c = h[n]
    OBVIOUS
  <2>2. x = AddressAt(e, a, n)
    BY <2>1
  <2>3. CASE n = 1
    <3>1. PICK one : one = 1
      OBVIOUS
    <3>2. x = AddressAt(e, a, one) /\ c = h[one]
      BY <2>1, <2>2, <2>3, <3>1
    <3>3. Right(x, c)
      BY <3>1, <3>2, NameRight
    <3> QED BY <2>1, <3>3
  <2>4. CASE n # 1
    <3>1. n - 1 \in 1 .. (n - 1) /\ e[n].kind \in {"index", "dot", "arrow", "star"}
      BY <1>1, <2>4, KindsAre
    <3>2. Right(a[n - 1], h[n - 1])
      BY <1>4, <3>1
    <3>3. CASE e[n].kind = "star"
      <4>1. Right(x, c)
        BY <2>1, <2>2, <3>2, <3>3, StarRight
      <4> QED BY <2>1, <4>1
    <3>4. CASE e[n].kind # "star" /\ ~PointerMoved(e, types)
      <4>1. CASE e[n].kind = "index"
        <5>1. Right(x, c)
          BY <1>4, <2>1, <2>2, <3>4, <4>1, ArrayRight
        <5> QED BY <2>1, <5>1
      <4>2. CASE e[n].kind \in {"dot", "arrow"}
        <5>1. Right(x, c)
          BY <2>1, <2>2, <3>2, <3>4, <4>2, MemberRight
        <5> QED BY <2>1, <5>1
      <4> QED BY <3>1, <3>4, <4>1, <4>2
    <3>5. CASE e[n].kind # "star" /\ PointerMoved(e, types)
      <4>1. n = 2
        <5>1. n > 2 => e[n].kind = "star"
          BY <3>5, MovedIs
        <5> QED BY <1>1, <2>4, <3>5, <5>1
      <4>2. Right(a[1], h[1])
        <5>1. n - 1 = 1
          BY <4>1
        <5> QED BY <3>2, <5>1
      <4>3. Right(x, c)
        BY <2>1, <2>2, <3>5, <4>1, <4>2, MovedRight
      <4> QED BY <2>1, <4>3
    <3> QED BY <3>3, <3>4, <3>5
  <2> QED BY <2>3, <2>4
<1>5. ASSUME NEW n \in 1 .. Len(e), n - 1 \in G
      PROVE  n \in G
  <2>1. \A k \in 1 .. (n - 1) : Right(a[k], h[k])
    BY <1>2, <1>5
  <2>2. Right(a[n], h[n])
    BY <1>4, <2>1
  <2>3. \A j \in 1 .. n : j = n \/ j \in 1 .. (n - 1)
    BY <1>1
  <2> QED BY <1>1, <1>2, <2>1, <2>2, <2>3
<1>6. \A k \in 0 .. Len(e) : k \in G
  BY <1>1, <1>3, <1>5, Upwards
<1> QED BY <1>1, <1>2, <1>6
-----------------------------------------------------------------------------
(* The code of an address, and of the value there.                         *)
LEMMA CodeRight ==
  ASSUME ReadInv(gen, env), "literal" \notin Admit,
         NEW e, NEW types, Passes(e, types), NEW t, t = types[Len(e)],
         \A p \in Parts(e) : ~IsStep(p) /\ ~IsMixed(p) /\ ~IsRemembered(p),
         NEW place, place = Place(Meanings, e),
         NEW x, x = generate_address(gen, e), NEW y, y = generate_expression(gen, e)
  PROVE  /\ place.type = t /\ x.value = place.at
         /\ ~IsArray(t) /\ ~IsStruct(t) => y.value = Held(place) /\ y.numbers \in {x.numbers, {}}
         /\ IsArray(t) /\ Kind(e) = "id" => y = x /\ Held(place) = place.at
<1>1. PICK n : n = Len(e)
  OBVIOUS
<1>2. IsPath(e) /\ n \in 1 .. Len(e) /\ Kind(e) = e[n].kind /\ Beginning(e, n, e)
  <2>1. IsPath(e) /\ n \in 1 .. Len(e)
    BY <1>1, PathShape DEF Passes
  <2>2. Beginning(e, n, e)
    BY <1>1, <2>1, BeginningWhole DEF Beginning
  <2> QED BY <2>1, <2>2, BeginningIs
<1>3. PICK h : Walks(e, types, h) /\ Starts(e, h) /\ place = h[n]
  BY <1>1, PlacesAre
<1>4. PICK a : (\A k \in 1 .. Len(e) : a[k] = AddressAt(e, a, k)) /\ x = a[n]
  BY <1>1, AddressesAre
<1>5. Right(x, place)
  <2>1. \A k \in 1 .. Len(e) : Right(a[k], h[k])
    BY <1>3, <1>4, PlacesRight
  <2> QED BY <1>2, <1>3, <1>4, <2>1
<1>6. place.type = t
  BY <1>1, <1>2, <1>3 DEF Walks
<1>7. ValueOf(e, x, y)
  BY DEF generate_expression, ValueOf
<1>8. ASSUME ~IsArray(t), ~IsStruct(t)
      PROVE  y.value = Held(place) /\ y.numbers \in {x.numbers, {}}
  <2>1. t = types[n]
    BY <1>1
  <2> QED BY <1>2, <1>3, <1>5, <1>7, <1>8, <2>1, HeldRead
<1>9. ASSUME IsArray(t), Kind(e) = "id"
      PROVE  y = x /\ Held(place) = place.at
  <2>1. n = 1
    BY <1>2, <1>9, KindsAre
  <2>2. RecordedAs(get_var(gen, e[1].name), t) /\ IsType(t, Len(StructDefs))
    BY <1>1, <2>1, StartIs
  <2>3. y = x
    BY <1>7, <1>9, <2>2, NameValue
  <2>4. Held(place) = place.at
    BY <1>6, <1>9 DEF Held
  <2> QED BY <2>3, <2>4
<1> QED BY <1>5, <1>6, <1>8, <1>9 DEF Right

(* An initializer list fills an array of one dimension in turn.            *)
LEMMA FilledInTurn ==
  ASSUME ReadInv(gen, env), "literal" \notin Admit,
         NEW v \in Visible, NEW t, t = Meanings[v].type, IsArray(t), ~IsStruct(t), Len(t.dims) = 1,
         NEW k \in Int
  PROVE  InitializerOffset(get_var(gen, v).array_metadata, k) = k * SizeOf(Element(t))
<1>1. IsType(t, Len(StructDefs)) /\ RecordedAs(get_var(gen, v), t)
  BY RootIs
<1>2. PICK m : m = get_var(gen, v).array_metadata
  OBVIOUS
<1>3. m = create_array_metadata(struct_types, t)
  BY <1>1, <1>2 DEF RecordedAs, DeclaredAs
<1>4. m.dimensions = t.dims /\ m.element_size = 4
  BY <1>1, <1>3, MetadataIs
<1>5. get_stride(m, 1) = 1
  <2>1. PICK d, none : d = t.dims /\ none = SubSeq(d, 2, 1)
    OBVIOUS
  <2>2. none = <<>> /\ <<>> \in Seq(Nat)
    BY <2>1
  <2>3. Product(none) = 1
    BY <2>2, ProductNat
  <2>4. m.dimensions = d /\ Len(d) = 1
    BY <1>4, <2>1
  <2>5. PICK one, two, l : one = 1 /\ two = one + 1 /\ l = Len(d)
    OBVIOUS
  <2>6. two = 2 /\ l = 1 /\ ~(one > l)
    BY <2>4, <2>5
  <2>7. SubSeq(d, two, l) = none
    BY <2>1, <2>6
  <2>8. get_stride(m, one) = Product(SubSeq(d, two, l))
    BY <2>4, <2>5, <2>6 DEF get_stride
  <2> QED BY <2>3, <2>5, <2>7, <2>8
<1>6. SizeOf(Element(t)) = 4
  <2>1. PICK u : u = Element(t)
    OBVIOUS
  <2>2. u.dims = <<>> /\ u.base = t.base
    BY <1>1, <2>1 DEF Element, IsType
  <2>3. ~IsArray(u) /\ ~IsStruct(u)
    BY <2>2 DEF IsArray, IsStruct
  <2> QED BY <2>1, <2>3, SizePlain
<1>7. PICK s, g : s = m.element_size /\ g = get_stride(m, 1)
  OBVIOUS
<1>8. k * s * g = k * 4
  <2>1. s = 4 /\ g = 1
    BY <1>4, <1>5, <1>7
  <2> QED BY <2>1
<1> QED BY <1>2, <1>6, <1>7, <1>8 DEF InitializerOffset

(* A value is the language's where no number is a text.                    *)
LEMMA PlaceRight ==
  ASSUME ReadInv(gen, env), "literal" \notin Admit, "decay" \notin Admit,
         "mixed" \notin Admit, "step" \notin Admit, "remembered" \notin Admit,
         NEW e \in Paths, Translated(e)
  PROVE  RightPlace(e)
<1>1. PICK types : Passes(e, types)
  BY PathsPass
<1>2. Troubles(e) = {}
  BY DEF Translated, Troubles
<1>3. \A p \in Parts(e) : ~IsStep(p) /\ ~IsMixed(p) /\ ~IsRemembered(p)
  BY <1>2 DEF Troubles
<1>4. ~IsLiteral(e)
  BY <1>2 DEF Troubles
<1>5. PICK t, place, x, y : /\ t = types[Len(e)] /\ place = Place(Meanings, e)
                            /\ x = generate_address(gen, e) /\ y = generate_expression(gen, e)
  OBVIOUS
<1>6. /\ place.type = t /\ x.value = place.at
      /\ ~IsArray(t) /\ ~IsStruct(t) => y.value = Held(place) /\ y.numbers \in {x.numbers, {}}
      /\ IsArray(t) /\ Kind(e) = "id" => y = x /\ Held(place) = place.at
  BY <1>1, <1>3, <1>5, CodeRight
<1>7. Value_(x) = x.value
  BY <1>4, <1>5 DEF Value_, IsLiteral
<1>8. ASSUME ~IsArray(t), ~IsStruct(t)
      PROVE  Value_(y) = Held(place)
  <2>1. \A k \in y.numbers : Stands(gen, "CONST_INT", k)
    BY <1>4, <1>5, <1>6, <1>8 DEF IsLiteral
  <2> QED BY <1>6, <1>8, <2>1 DEF Value_
<1>9. ASSUME IsArray(t), Kind(e) = "id"
      PROVE  Value_(y) = Held(place)
  BY <1>6, <1>7, <1>9
<1> QED BY <1>5, <1>6, <1>7, <1>8, <1>9 DEF RightPlace

LEMMA ReadInvPlaces ==
  ASSUME ReadInv(gen, env), "literal" \notin Admit, "decay" \notin Admit, "rows" \notin Admit,
         "mixed" \notin Admit, "step" \notin Admit, "remembered" \notin Admit
  PROVE  ElementAddressed
<1>1. \A e \in Paths : RightPlace(e) \/ ~Translated(e)
  BY PlaceRight
<1>2. ASSUME NEW v \in Visible, NEW t, t = Meanings[v].type, IsArray(t), ~IsStruct(t), Len(t.dims) = 1,
             NEW k \in 0 .. Product(t.dims) - 1
      PROVE  InitializerOffset(get_var(gen, v).array_metadata, k) = k * SizeOf(Element(t))
  <2>1. k \in Int
    OBVIOUS
  <2> QED BY <1>2, <2>1, FilledInTurn
<1> QED BY <1>1, <1>2 DEF ElementAddressed

(* The code for a place computes the address the language gives it, and    *)
(* the code for its value reads what is there, through any nesting of      *)
(* arrays, structs and pointers that are variables, any numbers and        *)
(* variables as indices and any layout of structs: the strides are of the  *)
(* array indexed, the offsets of the struct it is in, and the base is the  *)
(* address of what is indexed, or the pointer that is moved                *)
(* (generate_array_address, generate_member_address, calculate_size,       *)
(* create_array_metadata, infer_struct_type_from_expr); and an initializer *)
(* list fills the elements of an array of one dimension in turn.           *)
THEOREM PlacesAddressed ==
  ASSUME "redeclared" \notin Admit, "literal" \notin Admit, "remembered" \notin Admit, "mixed" \notin Admit,
         "step" \notin Admit, "decay" \notin Admit, "rows" \notin Admit
  PROVE  Spec => []ElementAddressed
<1>1. Init => ReadInv(gen, env)
  BY InitReads
<1>2. ReadInv(gen, env) /\ [Next]_vars => ReadInv(gen, env)'
  BY StepReads
<1>3. ReadInv(gen, env) => ElementAddressed
  BY ReadInvPlaces
<1> QED BY <1>1, <1>2, <1>3, PTL DEF Spec
=============================================================================
