----------------------------- MODULE Assembler -----------------------------
(***************************************************************************)
(* The assembler, asm-machine/asm.y: it reads the text twice, entering the *)
(* labels it meets in a table the first time and printing the image with   *)
(* their addresses the second. What it has read is a line of CodeGen.      *)
(***************************************************************************)
EXTENDS CodeGen

CONSTANT LABNUM    \* the size of the label table

ASSUME TableAssumption == LABNUM \in Nat

(* What asm.l takes for something else than a LABEL. *)
Mnemonics == {"ADD", "SUB", "MUL", "DIV", "TST", "STO", "STC", "LOD", "LDC", "JMP", "JEZ", "JLZ",
              "JGZ", "DBN", "DBS", "ITC", "ITI", "OTC", "OTI", "OTS", "NOP", "END"}
Digits == {"0", "1", "2", "3", "4", "5", "6", "7", "8", "9"}

(* A register is R and any digits behind it, none and more than two also.  *)
IsRegister(name) ==
  /\ name # "" /\ SubSeq(name, 1, 1) = "R"
  /\ \A k \in 2 .. Len(name) : SubSeq(name, k, k) \in Digits

IsLabel(name) == name \notin Mnemonics /\ ~IsRegister(name)

(* None of the labels the generator makes up itself is read as a register. *)
ASSUME OwnLabelsAssumption == \A name \in {"EXIT", "STATIC", "STACK", "main"} : ~IsRegister(name)

(* Address 0 means "not defined yet". The image is in two parts: the       *)
(* instructions at their addresses, and the bytes of DBN and DBS.          *)
Begin == [table |-> <<>>, pass |-> 1, ip |-> 0, state |-> "reading",
          code |-> [i \in {} |-> 0], data |-> [i \in {} |-> 0]]

Refuse(a) == [a EXCEPT !.state = "refused"]

Entry(a, name) == {i \in DOMAIN a.table : a.table[i].name = name}
Known(a, name) == Entry(a, name) # {}
AddressOf(a, name) == IF Known(a, name) THEN a.table[CHOOSE i \in Entry(a, name) : TRUE].addr ELSE 0

(* A wrong number(), which lets one label more in. *)
FullLate(a, name) == name # "" /\ ~Known(a, name) /\ Len(a.table) > LABNUM

(* number() enters a name it does not find, and complains if the table is  *)
(* full. (Its search ends at a null name and so reads one entry behind a   *)
(* full table before it complains; that entry is taken to be null.)        *)
Full(a, name) == name # "" /\ ~Known(a, name) /\ Len(a.table) >= LABNUM

Enter(a, name) ==
  IF Known(a, name) THEN a
  ELSE [a EXCEPT !.table = Append(@, [name |-> name, addr |-> 0])]

Resolve(a, name, addr) == [a EXCEPT !.table[CHOOSE i \in Entry(a, name) : TRUE].addr = addr]

Extent(line) ==
  CASE line.op = "LABEL" -> 0
    [] line.op = "DBN" -> line.n
    [] line.op = "DBS" -> Len(line.bytes)
    [] OTHER -> 8

(* What byte1, byte2 and byte4 put at ip in the second pass. *)
Emitted(a, line) ==
  LET data(f) == [a EXCEPT !.data = [x \in DOMAIN @ \cup DOMAIN f |->
                                       IF x \in DOMAIN f THEN f[x] ELSE @[x]]]
      at == a.ip .. a.ip + Extent(line) - 1
  IN  CASE line.op = "DBN" -> data([x \in at |-> line.rx])
        [] line.op = "DBS" -> data([x \in at |-> line.bytes[x - a.ip + 1]])
        [] OTHER -> [a EXCEPT !.code = [x \in DOMAIN @ \cup {a.ip} |->
                       IF x = a.ip
                       THEN [line EXCEPT !.n = IF line.name = "" THEN @ ELSE AddressOf(a, line.name)]
                       ELSE @[x]]]

(* A wrong lab_stmt, which resolves to the end of the following line. *)
LabStmtLate(a, name) ==
  LET e == Enter(a, name)
  IN  IF a.pass = 2 THEN a
      ELSE IF AddressOf(e, name) = 0 THEN Resolve(e, name, a.ip + 8) ELSE Refuse(e)

(* A definition: only the first pass looks at it. *)
LabStmt(a, name) ==
  LET e == Enter(a, name)
  IN  IF a.pass = 2 THEN a
      ELSE IF AddressOf(e, name) = 0 THEN Resolve(e, name, a.ip) ELSE Refuse(e)

(* One statement of the grammar. *)
Read(a, line) ==
  LET named == IF line.name = "" THEN a ELSE Enter(a, line.name)
      put == IF a.pass = 2 THEN Emitted(named, line) ELSE named
  IN  IF line.op = Unreadable \/ ~IsLabel(line.name) \/ Full(a, line.name) THEN Refuse(a)
      ELSE IF line.op = "LABEL"
      THEN LabStmt(a, line.name)
      ELSE [put EXCEPT !.ip = @ + Extent(line)]

(* A wrong end of the text: the assembler rewinds after the second pass as well. *)
RewindAlways(a) == [a EXCEPT !.pass = 2, !.ip = 0]

(* The end of the text: the first pass rewinds. *)
Rewind(a) ==
  IF a.pass = 1 THEN [a EXCEPT !.pass = 2, !.ip = 0]
  ELSE [a EXCEPT !.state = "done"]
=============================================================================
