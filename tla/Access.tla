------------------------------- MODULE Access -------------------------------
(***************************************************************************)
(* The code for a place in memory: generate_array_address,                 *)
(* generate_member_address and what they call (ast_to_tac.cc, tac.cc),     *)
(* next to what the expression means.                                      *)
(*                                                                         *)
(* The code of an address is a line of additions and multiplications on    *)
(* temporaries of its own. It is kept as what it computes: a root plus a   *)
(* sum of a number and multiples of the variables i and j used as indices. *)
(* T is what the generator knows: scope, struct_types, the symbol tables,  *)
(* array_metadata_map, and attributes, the symbols of variables in the     *)
(* order of their declarations.                                            *)
(***************************************************************************)
EXTENDS Layout, TLC

Form(one, i, j) == [one |-> one, i |-> i, j |-> j]
Zero == Form(0, 0, 0)
Num(n) == Form(n, 0, 0)
IsConst(f) == f.i = 0 /\ f.j = 0
Plus(f, g) == Form(f.one + g.one, f.i + g.i, f.j + g.j)
Times(f, n) == Form(f.one * n, f.i * n, f.j * n)

(* Values: a number, the address of a variable's home, what the variable   *)
(* holds, what memory holds at an address; and anything, when a symbol was *)
(* not what the generator took it for.                                     *)
Value(kind, decl, of, form) == [kind |-> kind, decl |-> decl, of |-> of, form |-> form]
HomeOf(d) == Value("home", d, <<>>, Zero)
Content(d) == Value("content", d, <<>>, Zero)
Loaded(v) == Value("loaded", 0, <<v>>, Zero)
Anything == Value("anything", 0, <<>>, Zero)
Shift(v, f) == [v EXCEPT !.form = Plus(@, f)]

(* Expressions: x, e[k], e.f, e->f, *(e + k), as the steps from a name to *)
(* the place; the parts of an expression are its beginnings.               *)
Step(kind, name, by) == [kind |-> kind, name |-> name, by |-> by]
Id(x) == <<Step("id", x, Zero)>>
Index(e, k) == Append(e, Step("index", "", k))
Dot(e, f) == Append(e, Step("dot", f, Zero))
Arrow(e, f) == Append(e, Step("arrow", f, Zero))
Star(e, k) == Append(e, Step("star", "", k))

Kind(e) == Last(e).kind
Of(e) == Front(e)
Parts(e) == {SubSeq(e, 1, k) : k \in DOMAIN e}

(* What an expression indexes, and by what.                                *)
Base(e) == SubSeq(e, 1, Max({k \in DOMAIN e : e[k].kind # "index"}))
Chain(e) == [k \in 1 .. Len(e) - Len(Base(e)) |-> e[Len(Base(e)) + k].by]

-----------------------------------------------------------------------------
(* What an expression means where the names mean env: the address of a     *)
(* place and its type. An array used as a value is its address.            *)
Held(place) ==
  IF IsArray(place.type) THEN place.at
  ELSE IF place.at.kind = "home" /\ place.at.form = Zero /\ ~IsStruct(place.type) /\ place.whole
  THEN Content(place.at.decl) ELSE Loaded(place.at)

(* Where a step leads, from the place b. *)
Beyond(env, b, step) ==
  LET at(v, t) == [at |-> v, type |-> t, whole |-> FALSE]
      moved(k) == at(Shift(Held(b), Times(k, SizeOf(Pointee(b.type)))), Pointee(b.type))
      s == Pointee(b.type).base
  IN  CASE step.kind = "id" -> [at(HomeOf(env[step.name].decl), env[step.name].type) EXCEPT !.whole = TRUE]
        [] step.kind = "index" ->
             IF IsArray(b.type) THEN at(Shift(b.at, Times(step.by, SizeOf(Row(b.type)))), Row(b.type))
             ELSE moved(step.by)
        [] step.kind = "star" -> moved(step.by)
        [] step.kind = "dot" ->
             at(Shift(b.at, Num(OffsetIn(b.type.base, step.name))), FieldOf(b.type.base, step.name).type)
        [] step.kind = "arrow" -> at(Shift(Held(b), Num(OffsetIn(s, step.name))), FieldOf(s, step.name).type)

Place(env, e) ==
  LET place[n \in DOMAIN e] == Beyond(env, place[n - 1], e[n])
  IN  place[Len(e)]

-----------------------------------------------------------------------------
(* Tables. *)
Symbol(type, decl) == [type |-> type, decl |-> decl]
NoSymbol == Symbol("NONE", 0)

(* A wrong lookup_sym: the global table comes first. *)
GlobalFirst(T, name) ==
  IF name \in DOMAIN T.sym_tab_global THEN T.sym_tab_global[name]
  ELSE IF T.scope = "LOCAL" /\ name \in DOMAIN T.sym_tab_local THEN T.sym_tab_local[name]
  ELSE NoSymbol

lookup_sym(T, name) ==
  IF T.scope = "LOCAL" /\ name \in DOMAIN T.sym_tab_local THEN T.sym_tab_local[name]
  ELSE IF name \in DOMAIN T.sym_tab_global THEN T.sym_tab_global[name]
  ELSE NoSymbol

get_var(T, name) == T.attributes[lookup_sym(T, name).decl]

(* An expression's place: its value, whether it is marked a pointer and to *)
(* what (UNSET where the field base_type is never written); the numbers    *)
(* whose symbols its code uses, and the arrays whose metadata was asked.   *)
Exp(value, ptr, base, data) ==
  [value |-> value, is_pointer |-> ptr, base_type |-> base, data_type |-> data,
   numbers |-> {}, arrays |-> {}]

Using(exp, from, numbers) ==
  [exp EXCEPT !.numbers = from.numbers \cup numbers, !.arrays = from.arrays]

do_address_of(exp, decl) == Using(Exp(HomeOf(decl), TRUE, "UNSET", "INT"), exp, {})

do_dereference(exp) ==
  LET data == IF exp.is_pointer /\ exp.base_type # "UNDEF" THEN exp.base_type ELSE "INT"
  IN  Using(Exp(Loaded(exp.value), FALSE, "UNSET", data), exp, {})

(* do_bin for e + k, k a number or a variable: 4 bytes to the step. *)
Added(exp, k) ==
  IF exp.is_pointer
  THEN Using(Exp(Shift(exp.value, Times(k, 4)), TRUE, "UNSET", "INT"), exp,
             {4} \cup (IF IsConst(k) THEN {k.one} ELSE {}))
  ELSE Using(Exp(Shift(exp.value, k), FALSE, "UNSET", "INT"), exp, IF IsConst(k) THEN {k.one} ELSE {})

infer_struct_type_from_expr(T, e) ==
  LET root == get_var(T, e[1].name)
      struct[n \in DOMAIN e] ==
        LET base == Len(Base(SubSeq(e, 1, n)))
            within == get_field(T.struct_types, struct[n - 1], e[n].name).type
        IN  CASE e[n].kind = "id" -> root.struct
              [] e[n].kind = "index" -> IF base = 1 THEN root.array_metadata.struct ELSE struct[base]
              [] e[n].kind \notin {"id", "index"} -> IF IsStruct(within) THEN within.base ELSE ""
  IN  struct[Len(e)]

infer_array_metadata_from_access(T, b) ==
  IF Kind(b) = "id" THEN get_var(T, b[1].name).array_metadata
  ELSE LET t == get_field(T.struct_types, infer_struct_type_from_expr(T, Of(b)), Last(b).name).type
       IN  IF IsArray(t) THEN create_array_metadata(T.struct_types, t) ELSE NoArray

(* get_array_metadata, else inferred; either way it is remembered then.    *)
array_metadata(T, b) ==
  IF b \in DOMAIN T.array_metadata_map THEN T.array_metadata_map[b]
  ELSE infer_array_metadata_from_access(T, b)

-----------------------------------------------------------------------------
(* Where every index is a number, one addition; otherwise a sum of what is *)
(* known and what is not. constants holds the numbers among the indices,   *)
(* and is read at the place of the dimension.                              *)
Constants(chain) == SelectSeq(chain, IsConst)
Folded(chain) == {k \in DOMAIN chain \cap DOMAIN Constants(chain) : IsConst(chain[k])}

(* What every index adds, and all of them together. *)
Terms(m, chain) ==
  [k \in DOMAIN chain |->
     Times(IF k \in Folded(chain) THEN Constants(chain)[k] ELSE chain[k], m.element_size * get_stride(m, k))]

Total(terms) ==
  LET total[k \in 0 .. Len(terms)] == IF k = 0 THEN Zero ELSE Plus(total[k - 1], terms[k])
  IN  total[Len(terms)]

Sum(m, chain) ==
  LET terms == Terms(m, chain)
      folded == Folded(chain)
      rest == DOMAIN chain \ folded
      offset == Sums([k \in DOMAIN chain |-> IF k \in folded THEN terms[k].one ELSE 0])[Len(chain)]
  IN  [form |-> Total(terms),
       numbers |-> ({offset} \ {0}) \cup ({get_stride(m, k) : k \in rest} \ {1})
                   \cup {chain[k].one : k \in {k \in rest : IsConst(chain[k])}}
                   \cup {m.element_size : k \in rest}]

(* An array's name is its address; an element or a member is loaded, with  *)
(* the type the metadata gives: the value of e, address being e's.         *)
ValueAt(T, e, address) ==
  LET s == lookup_sym(T, e[1].name)
      v == get_var(T, e[1].name)
      loaded == do_dereference(address)
      m == array_metadata(T, Base(e))
      field == get_field(T.struct_types, infer_struct_type_from_expr(T, Of(e)), Last(e).name).type
  IN  CASE Kind(e) = "id" ->
             IF v.array_metadata # NoArray THEN address
             ELSE Exp(Content(s.decl), v.is_pointer, v.base_type, v.data_type)
        [] Kind(e) = "index" ->
             IF m # NoArray THEN [loaded EXCEPT !.data_type = m.base_type, !.arrays = @ \cup {Base(e)}]
             ELSE loaded
        [] Kind(e) \in {"dot", "arrow"} ->
             [loaded EXCEPT !.data_type = IF IsArray(field) THEN "INT" ELSE Data(field)]
        [] Kind(e) = "star" -> loaded

(* base is the address of what is indexed, before the address one index    *)
(* earlier: a pointer is moved.                                            *)
generate_array_address(T, e, base, before) ==
  LET b == Base(e)
      m == array_metadata(T, b)
      sum == Sum(m, Chain(e))
  IN  IF Kind(b) = "id" /\ get_var(T, b[1].name).is_pointer
      THEN Added(ValueAt(T, Of(e), before), Last(e).by)
      ELSE [Using(Exp(Shift(base.value, sum.form), TRUE, "UNSET", "INT"), base, sum.numbers)
              EXCEPT !.arrays = @ \cup {b}]

generate_member_address(T, e, within) ==
  LET o == Of(e)
      base == IF Kind(o) = "id" /\ Kind(e) = "arrow" /\ get_var(T, o[1].name).is_pointer
              THEN Exp(Content(lookup_sym(T, o[1].name).decl), TRUE, get_var(T, o[1].name).base_type, "INT")
              ELSE within
      offset == get_field(T.struct_types, infer_struct_type_from_expr(T, o), Last(e).name).offset
  IN  IF offset = 0 THEN base
      ELSE Using(Exp(Shift(base.value, Num(offset)), TRUE, "UNSET", "INT"), base, {offset})

(* The address an assignment stores through, or & asks for.                *)
generate_address(T, e) ==
  LET address[n \in DOMAIN e] ==
        LET p == SubSeq(e, 1, n)
            pointer == ValueAt(T, Of(p), address[n - 1])
        IN  CASE Kind(p) = "id" -> do_address_of(Exp(Anything, FALSE, "", ""), lookup_sym(T, p[1].name).decl)
              [] Kind(p) = "index" -> generate_array_address(T, p, address[Len(Base(p))], address[n - 1])
              [] Kind(p) \in {"dot", "arrow"} -> generate_member_address(T, p, address[n - 1])
              [] Kind(p) = "star" -> IF e[n].by = Zero THEN pointer ELSE Added(pointer, e[n].by)
  IN  address[Len(e)]

generate_expression(T, e) == ValueAt(T, e, generate_address(T, e))
=============================================================================
