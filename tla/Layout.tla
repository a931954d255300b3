------------------------------- MODULE Layout -------------------------------
(***************************************************************************)
(* Types, what they occupy according to the language, and what the         *)
(* compiler records about them: struct_metadata.cc, array_metadata.hh and  *)
(* create_array_metadata.                                                  *)
(*                                                                         *)
(* A type is an element with the sizes of an array of it, as declared from *)
(* left to right; the base of an element is a basic type, a pointer or the *)
(* name of a struct.                                                       *)
(***************************************************************************)
EXTENDS Integers, SequencesExt, FiniteSetsExt

CONSTANT StructDefs    \* the program's structs in order: [name, fields]

Type(base, dims, to) == [base |-> base, dims |-> dims, to |-> to]
Integer(dims) == Type("INT", dims, <<>>)
Character(dims) == Type("CHAR", dims, <<>>)
Struct(name, dims) == Type(name, dims, <<>>)
PointerTo(t) == Type("PTR", <<>>, <<t>>)

StructNames == {StructDefs[k].name : k \in DOMAIN StructDefs}
IsArray(t) == t.dims # <<>>
IsStruct(t) == t.base \in StructNames
IsPointer(t) == t.base = "PTR"
Element(t) == [t EXCEPT !.dims = <<>>]
Row(t) == [t EXCEPT !.dims = Tail(@)]
Pointee(t) == t.to[1]

(* A type of the language, of the first n structs; an array is not of      *)
(* pointers here, and a pointer is to a type of any struct.                *)
IsType(t, n) ==
  /\ t = Type(t.base, t.dims, t.to)
  /\ t.dims \in Seq(Nat \ {0})
  /\ t.base \in {"INT", "CHAR", "PTR"} \cup {StructDefs[k].name : k \in 1 .. n}
  /\ IsPointer(t) => ~IsArray(t) /\ Pointee(t).base \in {"INT", "CHAR", "PTR"} \cup StructNames

(* A struct is declared once, and complete before it is used; so is a      *)
(* field in it.                                                            *)
ASSUME StructAssumption ==
  /\ StructDefs \in Seq(ToSet(StructDefs))
  /\ \A k, l \in DOMAIN StructDefs : StructDefs[k].name = StructDefs[l].name => k = l
  /\ \A k \in DOMAIN StructDefs :
       /\ StructDefs[k].name \notin {"INT", "CHAR", "PTR", ""}
       /\ StructDefs[k].fields \in Seq(ToSet(StructDefs[k].fields))
       /\ \A f \in ToSet(StructDefs[k].fields) : IsType(f.type, k - 1)
       /\ \A i, j \in DOMAIN StructDefs[k].fields :
            StructDefs[k].fields[i].name = StructDefs[k].fields[j].name => i = j

(* What the first k of these numbers make together, for every k.           *)
Sums(numbers) ==
  LET sum[k \in 0 .. Len(numbers)] == IF k = 0 THEN 0 ELSE sum[k - 1] + numbers[k]
  IN  sum

Product(dims) ==
  LET product[k \in 0 .. Len(dims)] == IF k = 0 THEN 1 ELSE product[k - 1] * dims[k]
  IN  product[Len(dims)]

-----------------------------------------------------------------------------
(* The language: scalars of four bytes, fields one behind the other, rows  *)
(* of an array one behind the other. A field is of a struct before.        *)
NumberOf(name) == CHOOSE k \in DOMAIN StructDefs : StructDefs[k].name = name
FieldsOf(name) == StructDefs[NumberOf(name)].fields

Bytes(sizes, t) == Product(t.dims) * (IF IsStruct(t) THEN sizes[NumberOf(t.base)] ELSE 4)

(* What the first k fields occupy. *)
Spans(sizes, fields) == Sums([k \in DOMAIN fields |-> Bytes(sizes, fields[k].type)])

StructSizes[k \in DOMAIN StructDefs] == Spans(StructSizes, StructDefs[k].fields)[Len(StructDefs[k].fields)]

SizeOf(t) == Bytes(StructSizes, t)

(* Which of the fields has the name. *)
NumberIn(fields, name) == CHOOSE k \in DOMAIN fields : fields[k].name = name

FieldOf(name, field) == FieldsOf(name)[NumberIn(FieldsOf(name), field)]

OffsetIn(name, field) == Spans(StructSizes, FieldsOf(name))[NumberIn(FieldsOf(name), field) - 1]

-----------------------------------------------------------------------------
(* The compiler's struct metadata: for a name, its fields with offsets and *)
(* the total size.                                                         *)

(* The parser nests the type of x[2][3] the other way round: outermost is  *)
(* the array of three.                                                     *)
Nested(t) == Reverse(t.dims)

calculate_type_size(structs, t) ==
  LET element == IF t.base \in DOMAIN structs THEN structs[t.base].total_size ELSE 4
  IN  IF IsPointer(t) THEN 4 ELSE element * Product(Nested(t))

calculate_size(structs, fields) ==
  LET total == Sums([k \in DOMAIN fields |-> calculate_type_size(structs, fields[k].type)])
  IN  [fields |-> [k \in DOMAIN fields |->
                     [name |-> fields[k].name, type |-> fields[k].type, offset |-> total[k - 1]]],
       total_size |-> total[Len(fields)]]

declare_struct_type(structs, def) ==
  IF def.name \in DOMAIN structs THEN structs
  ELSE [n \in DOMAIN structs \cup {def.name} |->
          IF n = def.name THEN calculate_size(structs, def.fields) ELSE structs[n]]

struct_types ==
  LET declared[k \in 0 .. Len(StructDefs)] ==
        IF k = 0 THEN [n \in {} |-> 0] ELSE declare_struct_type(declared[k - 1], StructDefs[k])
  IN  declared[Len(StructDefs)]

get_field(structs, name, field) == structs[name].fields[NumberIn(structs[name].fields, field)]

-----------------------------------------------------------------------------
(* The compiler's array metadata. *)
Data(t) == CASE IsPointer(t) -> "INT" [] IsStruct(t) -> "STRUCT" [] OTHER -> t.base

NoArray == [dimensions |-> <<>>, element_size |-> 0, base_type |-> "UNDEF", struct |-> ""]

(* A wrong create_array_metadata, with the sizes as the parser nests them. *)
MetadataAsNested(structs, t) ==
  [dimensions |-> Nested(t),
   element_size |-> IF IsStruct(t) THEN structs[t.base].total_size ELSE 4,
   base_type |-> Data(Element(t)), struct |-> IF IsStruct(t) THEN t.base ELSE ""]

create_array_metadata(structs, t) ==
  [dimensions |-> Reverse(Nested(t)),
   element_size |-> IF IsStruct(t) THEN structs[t.base].total_size ELSE 4,
   base_type |-> Data(Element(t)), struct |-> IF IsStruct(t) THEN t.base ELSE ""]

get_total_elements(m) == Product(m.dimensions)

get_stride(m, dim) ==
  IF dim > Len(m.dimensions) THEN 0 ELSE Product(SubSeq(m.dimensions, dim + 1, Len(m.dimensions)))
=============================================================================
