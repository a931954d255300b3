------------------------------ MODULE FrontEnd ------------------------------
(***************************************************************************)
(* Declarations and uses, as ASTToTACGenerator walks over them: the symbol *)
(* tables of TACGenerator, the array metadata, the VAR and FORMAL TACs     *)
(* that give every variable its home, and the code of every place a        *)
(* program may use. An action is one declaration, one opening or closing   *)
(* of a scope, or one expression; their sequence is the program.           *)
(*                                                                         *)
(* env is what the same declarations mean: for every open scope, what the  *)
(* names that can be seen in it stand for, as in C.                        *)
(***************************************************************************)
EXTENDS Access

CONSTANTS
  Names,         \* names of variables
  Functions,     \* names of functions, in the order of their definitions
  GlobalTypes, ParamTypes, LocalTypes,
  Texts, Letters, Numbers,   \* literals: texts, characters, numbers
  Indices,       \* what is put between brackets
  MaxGlobals, MaxParams, MaxLocals, MaxBlocks, MaxEntered, MaxUse,   \* bounds on the program
  MaxReach,      \* bound on the steps from a name to a place
  Admit          \* which of the Cases may happen

(* Legal programs the generator does not translate as written.             *)
(*   "mixed"      x[i][1][0]: numbers that are not the leftmost indices    *)
(*   "decay"      an array that is not a plain name used as a value        *)
(*   "untyped"    a read through a pointer whose base_type is never set    *)
(*   "stale"      p[i] where an array called p was declared before         *)
(*   "step"       a pointer moved by other than four bytes, or one the     *)
(*                generator does not know as a pointer                     *)
(*   "remembered" a member's metadata remembered of a struct of before     *)
(*   "literal"    a literal spelled like something else in the table       *)
(*   "redeclared" a name that hides another, or was one in an inner block  *)
(*   "rows"       an initializer list for more than one dimension          *)
Cases == {"mixed", "decay", "untyped", "stale", "step", "remembered", "literal", "redeclared", "rows"}

ASSUME FrontEndAssumption ==
  /\ Admit \subseteq Cases
  /\ IsFiniteSet(Names)
  /\ MaxReach \in Nat \ {0}
  /\ \A k \in Indices : k = Form(k.one, k.i, k.j) /\ {k.one, k.i, k.j} \subseteq Int
  /\ Functions \in Seq(ToSet(Functions)) /\ IsInjective(Functions)
  /\ (Texts \cup Names) \cap ToSet(Functions) = {}
  /\ \A t \in GlobalTypes \cup ParamTypes \cup LocalTypes : IsType(t, Len(StructDefs))
  /\ \A t \in ParamTypes : IsStruct(t) => IsArray(t)   \* the AST builder refuses others

VARIABLES
  gen,       \* the generator: scope, struct_types, sym_tab_global, sym_tab_local,
             \* array_metadata_map, and attributes, the symbol a declaration made, by its number
  emitted,   \* VAR, FORMAL and BEGINFUNC, without the locals of finished functions
  env

vars == <<gen, emitted, env>>

Extended(f, x, v) == [y \in DOMAIN f \cup {x} |-> IF y = x THEN v ELSE f[y]]
Empty == [x \in {} |-> 0]

Here == Len(env)
Meanings == env[Here]
Visible == DOMAIN Meanings
Declared == UNION {Range(env[k]) : k \in DOMAIN env}
Unused == 1 + Max({0} \cup DOMAIN gen.attributes \cup {d.decl : d \in Declared})

-----------------------------------------------------------------------------
(* Symbols. mk_var hands out a symbol that is there already.               *)
Attributes(where, data) ==
  [scope |-> where, data_type |-> data, is_pointer |-> FALSE, base_type |-> "UNSET",
   struct |-> "", array_metadata |-> NoArray]

mk_var(g, x, data, decl) ==
  IF lookup_sym(g, x) # NoSymbol THEN g
  ELSE LET known == [g EXCEPT !.attributes = Extended(@, decl, Attributes(g.scope, data))]
       IN  IF g.scope = "LOCAL" THEN [known EXCEPT !.sym_tab_local = Extended(@, x, Symbol("VAR", decl))]
           ELSE [known EXCEPT !.sym_tab_global = Extended(@, x, Symbol("VAR", decl))]

(* A wrong create_array_metadata, which keeps what it finds under the name. *)
StoredOnce(map, x, m) == IF Id(x) \in DOMAIN map THEN map ELSE Extended(map, Id(x), m)

Stored(map, x, m) == Extended(map, Id(x), m)

(* declare_array, declare_struct_var, declare_var.                         *)
generate_var_decl(g, x, t, decl) ==
  LET h == mk_var(g, x, IF IsArray(t) THEN "INT" ELSE Data(t), decl)
      s == lookup_sym(h, x).decl
      m == create_array_metadata(g.struct_types, t)
  IN  CASE IsArray(t) -> [h EXCEPT !.attributes[s].array_metadata = m,
                                   !.array_metadata_map = Stored(@, x, m)]
        [] ~IsArray(t) /\ IsStruct(t) -> [h EXCEPT !.attributes[s].struct = t.base]
        [] IsPointer(t) -> [h EXCEPT !.attributes[s].is_pointer = TRUE,
                                     !.attributes[s].base_type = Data(Pointee(t)),
                                     !.attributes[s].struct = IF IsStruct(Pointee(t)) THEN Pointee(t).base ELSE ""]
        [] OTHER -> [h EXCEPT !.attributes[s].is_pointer = FALSE]

(* A parameter's symbol says nothing of what it points to.                 *)
declare_para(g, p, decl) ==
  LET h == mk_var(g, p.name, IF IsArray(p.type) THEN "INT" ELSE Data(p.type), decl)
  IN  [h EXCEPT !.attributes[lookup_sym(h, p.name).decl].is_pointer = IsArray(p.type) \/ IsPointer(p.type)]

(* Literals have their places in the global table, by how they are written. *)
Spelling(kind, v) ==
  CASE kind = "TEXT" -> v [] kind = "CONST_INT" -> ToString(v) [] kind = "CONST_CHAR" -> "'" \o v \o "'"

(* No identifier and no number is written between quotes (lexer.l).        *)
Quoted == {Spelling("CONST_CHAR", c) : c \in Letters}

ASSUME SpellingAssumption ==
  Quoted \cap (Names \cup ToSet(Functions) \cup {Spelling("CONST_INT", n) : n \in Numbers}) = {}

mk_literal(g, kind, v) ==
  IF Spelling(kind, v) \in DOMAIN g.sym_tab_global THEN g
  ELSE [g EXCEPT !.sym_tab_global = Extended(@, Spelling(kind, v), Symbol(kind, 0))]

mk_consts(g, numbers) ==
  LET known == DOMAIN g.sym_tab_global
  IN  [g EXCEPT !.sym_tab_global =
         [s \in known \cup {Spelling("CONST_INT", n) : n \in numbers} |->
            IF s \in known THEN @[s] ELSE Symbol("CONST_INT", 0)]]

Literals == {<<"TEXT", t>> : t \in Texts} \cup {<<"CONST_CHAR", c>> : c \in Letters}
            \cup {<<"CONST_INT", n>> : n \in Numbers}

(* The generator takes the literal for what it is.                         *)
Stands(g, kind, v) ==
  LET s == Spelling(kind, v)
  IN  s \in DOMAIN g.sym_tab_global => g.sym_tab_global[s].type = kind

-----------------------------------------------------------------------------
(* The expressions the generator has code for: what is reached from a name *)
(* by indices, fields and stars. It follows a pointer by -> and [] when it *)
(* is a variable, and by * otherwise; -> needs a pointer that is declared, *)
(* not a parameter, to a struct.                                           *)
Onward(e, t) ==
  LET plain == Kind(e) = "id"
      to == Pointee(t)
      fields(struct) == ToSet(FieldsOf(struct))
  IN  CASE Kind(e) = "star" -> {}
        [] Kind(e) # "star" /\ IsArray(t) -> {<<Index(e, k), Row(t)>> : k \in Indices}
        [] Kind(e) # "star" /\ ~IsArray(t) /\ IsStruct(t) -> {<<Dot(e, f.name), f.type>> : f \in fields(t.base)}
        [] Kind(e) # "star" /\ ~IsArray(t) /\ IsPointer(t) /\ IsStruct(to) ->
             IF plain /\ get_var(gen, e[1].name).struct # ""
             THEN {<<Arrow(e, f.name), f.type>> : f \in fields(to.base)} ELSE {}
        [] Kind(e) # "star" /\ ~IsArray(t) /\ IsPointer(t) /\ ~IsStruct(to) ->
             (IF plain THEN {<<Index(e, k), to>> : k \in Indices} ELSE {})
             \cup (IF IsArray(to) THEN {} ELSE {<<Star(e, k), to>> : k \in Indices \cup {Zero}})
        [] OTHER -> {}

Paths ==
  LET reached[n \in 1 .. MaxReach] ==
        IF n = 1 THEN {<<Id(x), Meanings[x].type>> : x \in Visible}
        ELSE reached[n - 1] \cup UNION {Onward(p[1], p[2]) : p \in reached[n - 1]}
  IN  IF Here = 1 THEN {} ELSE {p[1] : p \in reached[MaxReach]}

TypeAt(e) == Place(Meanings, e).type
ThroughPointer(e) == Kind(e) = "index" /\ Kind(Base(e)) = "id" /\ IsPointer(TypeAt(Base(e)))

(* Which of the Cases an expression is. *)
IsMixed(e) ==
  LET chain == Chain(e)
  IN  ~ThroughPointer(e) /\ \E k \in Folded(chain) : Constants(chain)[k] # chain[k]

IsStep(e) ==
  \/ ThroughPointer(e) /\ (Kind(Of(e)) = "index" \/ SizeOf(Pointee(TypeAt(Of(e)))) # 4)
  \/ Kind(e) = "star" /\ Last(e).by # Zero /\ Kind(Of(e)) # "id"

IsRemembered(e) ==
  /\ e \in DOMAIN gen.array_metadata_map /\ Kind(e) \in {"dot", "arrow"}
  /\ gen.array_metadata_map[e] # infer_array_metadata_from_access(gen, e)

(* A pointer has no entry of its own. One under its name is of an array    *)
(* that was declared before, of a finished function as a rule.             *)
IsStale(e) == ThroughPointer(e) /\ Base(e) \in DOMAIN gen.array_metadata_map

(* What is loaded from is a sum that do_bin has made, a member's value or  *)
(* a parameter: nothing has set its base_type.                             *)
IsUntyped(e) ==
  \/ ThroughPointer(e) /\ ~IsStale(e)
  \/ Kind(e) = "star" /\ (Kind(Of(e)) # "id" \/ Last(e).by # Zero \/ get_var(gen, e[1].name).base_type = "UNSET")

IsLiteral(e) == \E n \in generate_address(gen, e).numbers : ~Stands(gen, "CONST_INT", n)

Troubles(e) ==
  {c \in {"mixed", "step", "remembered", "literal"} :
     CASE c = "mixed" -> \E p \in Parts(e) : IsMixed(p)
       [] c = "step" -> \E p \in Parts(e) : IsStep(p)
       [] c = "remembered" -> \E p \in Parts(e) : IsRemembered(p)
       [] c = "literal" -> IsLiteral(e)}

Translated(e) == Troubles(e) \subseteq Admit

(* An expression may use anything in place of a number that is a text.     *)
Value_(exp) == IF \E n \in exp.numbers : ~Stands(gen, "CONST_INT", n) THEN Anything ELSE exp.value

-----------------------------------------------------------------------------
Init ==
  /\ gen = [scope |-> "GLOBAL", struct_types |-> struct_types,
            sym_tab_global |-> Empty, sym_tab_local |-> Empty,
            attributes |-> [d \in {0} |-> Attributes("GLOBAL", "UNDEF")], array_metadata_map |-> Empty]
  /\ emitted = <<>>
  /\ env = <<Empty>>

(* Whether the generator makes a symbol for x here, or it is a Case.       *)
Fresh(x) ==
  LET s == lookup_sym(gen, x)
  IN  /\ s.type = "VAR" => "redeclared" \in Admit
      /\ s.type \in {"TEXT", "CONST_INT", "CONST_CHAR"} => "literal" \in Admit

Meaning(t, decl, scope) == [type |-> t, decl |-> decl, scope |-> scope]
Emission(op, g, x) == [op |-> op, decl |-> lookup_sym(g, x).decl]

DeclareVar(x, t) ==
  /\ x \in Visible => Meanings[x].scope < Here
  /\ Fresh(x)
  /\ IF Here = 1 THEN t \in GlobalTypes /\ Cardinality(DOMAIN env[1]) < MaxGlobals
     ELSE t \in LocalTypes /\ Cardinality(Declared) < Cardinality(DOMAIN env[1]) + MaxLocals
  /\ gen' = generate_var_decl(gen, x, t, Unused)
  /\ emitted' = Append(emitted, Emission("VAR", gen', x))
  /\ env' = [env EXCEPT ![Here] = Extended(@, x, Meaning(t, Unused, Here))]

(* generate_func_decl down to the body: declare_func, enter_scope and the  *)
(* parameters. Functions come in their order.                              *)
Finished == Cardinality({f \in ToSet(Functions) : f \in DOMAIN gen.sym_tab_global})

Started(f) ==
  [gen EXCEPT !.sym_tab_global = Extended(@, f, Symbol("FUNC", 0)),
              !.scope = "LOCAL", !.sym_tab_local = Empty]

(* What a parameter is to the program: an array is a pointer to its rows.  *)
Adjusted(t) == IF IsArray(t) THEN PointerTo(Row(t)) ELSE t

BeginFunc(params) ==
  /\ Here = 1
  /\ Finished < Len(Functions)
  /\ \A p \in ToSet(params) : Fresh(p.name)
  /\ LET g[k \in 0 .. Len(params)] ==
           IF k = 0 THEN Started(Functions[Finished + 1])
           ELSE declare_para(g[k - 1], params[k], Unused + k - 1)
     IN  /\ gen' = g[Len(params)]
         /\ emitted' = Append(emitted, [op |-> "BEGINFUNC", decl |-> 0])
                       \o [k \in DOMAIN params |-> Emission("FORMAL", g[k], params[k].name)]
  /\ LET named(x) == {k \in DOMAIN params : params[k].name = x}
     IN  env' = Append(env, [x \in Visible \cup {params[k].name : k \in DOMAIN params} |->
                               IF named(x) = {} THEN Meanings[x]
                               ELSE LET k == CHOOSE k \in named(x) : TRUE
                                    IN  Meaning(Adjusted(params[k].type), Unused + k - 1, 2)])

(* A block has no table of its own.                                        *)
OpenBlock ==
  /\ Here > 1 /\ Here < 2 + MaxBlocks
  /\ env' = Append(env, Meanings)
  /\ UNCHANGED <<gen, emitted>>

CloseBlock ==
  /\ Here > 2
  /\ env' = Front(env)
  /\ UNCHANGED <<gen, emitted>>

(* A wrong leave_scope: the scope ends, its table stays. *)
LeaveScopeFull(g) == [g EXCEPT !.scope = "GLOBAL"]

leave_scope(g) == [g EXCEPT !.scope = "GLOBAL", !.sym_tab_local = Empty]

(* do_func and leave_scope. What only the function knew, all of it behind  *)
(* its BEGINFUNC, is left out of the state then.                           *)
EndFunc ==
  /\ Here = 2
  /\ LET globals == {0} \cup {env[1][x].decl : x \in DOMAIN env[1]}
     IN  gen' = [leave_scope(gen) EXCEPT !.attributes = Restrict(@, globals \cap DOMAIN @)]
  /\ emitted' = SubSeq(emitted, 1, Max({n \in DOMAIN emitted : emitted[n].op = "BEGINFUNC"}))
  /\ env' = <<env[1]>>

(* An expression: what its code looks up, it may have to enter first. Of   *)
(* the numbers, those matter that are Texts.                               *)
Known(numbers) == {n \in numbers : Spelling("CONST_INT", n) \in Texts}
Entered ==
  Cardinality({s \in DOMAIN gen.sym_tab_global : gen.sym_tab_global[s].type \notin {"VAR", "FUNC"}})
  + Cardinality({b \in DOMAIN gen.array_metadata_map : Kind(b) # "id"})

(* Metadata is stored where it is made of the type of a member.            *)
Use(e) ==
  /\ Len(e) <= MaxUse
  /\ Translated(e)
  /\ LET used == generate_expression(gen, e)
         new == {b \in used.arrays \ DOMAIN gen.array_metadata_map :
                   Kind(b) # "id" /\ infer_array_metadata_from_access(gen, b).dimensions # <<>>}
     IN  gen' = [mk_consts(gen, Known(used.numbers)) EXCEPT !.array_metadata_map =
                   [b \in DOMAIN @ \cup new |-> array_metadata(gen, b)]]
  /\ Entered' <= MaxEntered
  /\ UNCHANGED <<emitted, env>>

UseLiteral(kind, v) ==
  /\ Here > 1
  /\ ~Stands(gen, kind, v) => "literal" \in Admit
  /\ gen' = mk_literal(gen, kind, v)
  /\ Entered' <= MaxEntered
  /\ UNCHANGED <<emitted, env>>

ParamLists ==
  {p \in UNION {[1 .. n -> [name : Names, type : ParamTypes]] : n \in 0 .. MaxParams} :
     \A k, l \in DOMAIN p : p[k].name = p[l].name => k = l}

Next ==
  \/ \E x \in Names, t \in GlobalTypes \cup LocalTypes : DeclareVar(x, t)
  \/ \E params \in ParamLists : BeginFunc(params)
  \/ OpenBlock
  \/ CloseBlock
  \/ EndFunc
  \/ \E e \in Paths : Use(e)
  \/ \E l \in Literals : UseLiteral(l[1], l[2])

Spec == Init /\ [][Next]_vars

-----------------------------------------------------------------------------
(* Homes, as asm_code (obj.cc) hands them out when it comes to the VARs    *)
(* and FORMALs: globals one behind the other, locals from the frame's      *)
(* eighth byte up, parameters from its fourth down. Temporaries are four   *)
(* more bytes here and there.                                              *)

(* A wrong get_size: the rows of an array are forgotten. *)
SizeOfRow(a) ==
  CASE a.array_metadata # NoArray -> Head(a.array_metadata.dimensions) * a.array_metadata.element_size
    [] a.array_metadata = NoArray /\ a.data_type = "STRUCT" /\ a.struct # "" -> gen.struct_types[a.struct].total_size
    [] OTHER -> 4

get_size(a) ==
  CASE a.array_metadata # NoArray -> get_total_elements(a.array_metadata) * a.array_metadata.element_size
    [] a.array_metadata = NoArray /\ a.data_type = "STRUCT" /\ a.struct # "" -> gen.struct_types[a.struct].total_size
    [] OTHER -> 4

(* The counters after the first n of them.                                 *)
Counters ==
  LET laid[n \in 0 .. Len(emitted)] ==
        LET l == laid[n - 1]
            e == emitted[n]
            a == gen.attributes[e.decl]
        IN  CASE n = 0 -> [tos |-> 0, tof |-> 8, oof |-> -4]
              [] n # 0 /\ e.op = "BEGINFUNC" -> [l EXCEPT !.tof = 8, !.oof = -4]
              [] n # 0 /\ e.op = "FORMAL" -> [l EXCEPT !.oof = @ - 4]
              [] n # 0 /\ e.op = "VAR" /\ a.scope = "LOCAL" -> [l EXCEPT !.tof = @ + get_size(a)]
              [] n # 0 /\ e.op = "VAR" /\ a.scope = "GLOBAL" -> [l EXCEPT !.tos = @ + get_size(a)]
  IN  laid

Homes ==
  LET home(e, region, at) == [decl |-> e.decl, region |-> region, at |-> at]
      before == Counters
  IN  [n \in {n \in DOMAIN emitted : emitted[n].op # "BEGINFUNC"} |->
         LET l == before[n - 1]
             e == emitted[n]
         IN  CASE e.op = "FORMAL" -> home(e, "LOCAL", l.oof)
               [] e.op = "VAR" /\ gen.attributes[e.decl].scope = "LOCAL" -> home(e, "LOCAL", l.tof)
               [] e.op = "VAR" /\ gen.attributes[e.decl].scope = "GLOBAL" -> home(e, "GLOBAL", l.tos)]

-----------------------------------------------------------------------------
(* Type correctness of the tables: every entry of a variable has its       *)
(* symbol, and no local symbol outlives its function (leave_scope).        *)
TypeOK ==
  /\ gen.scope = IF Here = 1 THEN "GLOBAL" ELSE "LOCAL"
  /\ \A table \in {gen.sym_tab_global, gen.sym_tab_local} : \A s \in DOMAIN table :
       /\ table[s].type \in {"VAR", "FUNC", "TEXT", "CONST_INT", "CONST_CHAR"}
       /\ table[s].decl \in DOMAIN gen.attributes
       /\ table[s].type = "VAR" <=> table[s].decl # 0
  /\ Here = 1 => gen.sym_tab_local = Empty
  /\ \A b \in DOMAIN gen.array_metadata_map : gen.array_metadata_map[b].dimensions # <<>>

(* One table for a function and one for the rest, and literals among the   *)
(* globals, still tell what C's scopes tell: a name stands for the         *)
(* variable of its innermost declaration, a literal for itself (lookup_sym,*)
(* mk_var, mk_const, mk_const_char, mk_text).                              *)
NamesResolve ==
  /\ \A x \in Visible : lookup_sym(gen, x) = Symbol("VAR", Meanings[x].decl)
  /\ \A l \in Literals : l[1] = "CONST_CHAR" \/ "literal" \in Admit => Stands(gen, l[1], l[2])

(* Every variable in scope has one home, and the bytes the language gives  *)
(* it are its own: no array, struct, parameter or global lies in another   *)
(* (get_size, and VAR and FORMAL in asm_code).                             *)
HomesApart ==
  LET homes == Homes
      of(d) == {n \in DOMAIN homes : homes[n].decl = d.decl}
  IN  \A c, d \in Declared :
        /\ Cardinality(of(d)) = 1
        /\ c # d => \A m \in of(c), n \in of(d) :
             \/ homes[m].region # homes[n].region
             \/ homes[m].at + SizeOf(c.type) <= homes[n].at
             \/ homes[n].at + SizeOf(d.type) <= homes[m].at

(* Where an initializer list puts its k-th value. *)
InitializerOffset(m, k) == k * m.element_size * get_stride(m, 1)

(* The code of an expression's address and of its value are the language's. *)
RightPlace(e) ==
  LET place == Place(Meanings, e)
  IN  /\ Value_(generate_address(gen, e)) = place.at
      /\ \/ IsStruct(place.type) /\ ~IsArray(place.type)
         \/ IsArray(place.type) /\ Kind(e) # "id" /\ "decay" \notin Admit
         \/ Value_(generate_expression(gen, e)) = Held(place)

(* The code for a place computes the address the language gives it, and    *)
(* the code for its value reads it there: through any nesting of arrays,   *)
(* structs and pointers, any mix of numbers and variables as indices       *)
(* (generate_array_address, generate_member_address, create_array_metadata,*)
(* calculate_size); and an initializer list fills the elements in turn.    *)
ElementAddressed ==
  /\ \A e \in Paths : RightPlace(e) \/ ~Translated(e)
  /\ \A x \in Visible :
       LET t == Meanings[x].type
       IN  IsArray(t) /\ ~IsStruct(t) /\ (Len(t.dims) = 1 \/ "rows" \in Admit) =>
             \A k \in 0 .. Product(t.dims) - 1 :
               InitializerOffset(get_var(gen, x).array_metadata, k) = k * SizeOf(Element(t))

(* A value is read as what it was declared, one byte or four. What is      *)
(* remembered of an array under its name outlives its function, yet no     *)
(* other array is read by it: to declare one of the name overwrites it     *)
(* (array_metadata_map, do_dereference, convert_type_to_data_type). Left   *)
(* out is what does leak: to a pointer of the name, the case "stale", and  *)
(* to the member of another struct, the case "remembered".                 *)
LoadedAsDeclared ==
  \A e \in Paths :
    LET t == TypeAt(e)
    IN  \/ IsArray(t) \/ IsStruct(t)
        \/ generate_expression(gen, e).data_type = Data(t)
        \/ "untyped" \notin Admit /\ \E p \in Parts(e) : IsUntyped(p)
        \/ "stale" \notin Admit /\ \E p \in Parts(e) : IsStale(p)
        \/ ~Translated(e)
=============================================================================
