----------------------------- MODULE MCFrontEnd -----------------------------
(* Two structs, one within the other, and small programs over two names.   *)
EXTENDS FrontEnd

Field(name, type) == [name |-> name, type |-> type]

Structs ==
  <<[name |-> "S", fields |-> <<Field("a", Character(<<2>>)), Field("n", Integer(<<>>))>>],
    [name |-> "R", fields |-> <<Field("a", Integer(<<2, 3>>)), Field("s", Struct("S", <<2>>)),
                                Field("p", PointerTo(Integer(<<>>)))>>]>>

Globals == {Character(<<2, 3>>), Struct("S", <<2>>)}
Params == {Character(<<>>), Integer(<<2>>)}
Locals == {Integer(<<2, 2, 2>>), Struct("S", <<>>), PointerTo(Struct("R", <<>>)), PointerTo(Character(<<>>))}
FunctionNames == <<"f", "g">>
Brackets == {Num(1), Form(0, 1, 0)}
=============================================================================
