------------------------------- MODULE Words -------------------------------
(***************************************************************************)
(* The machine's words: two's complement, four bytes, least significant    *)
(* byte first. A byte takes ByteValues values, 256 in machine.c; a smaller *)
(* number keeps the arithmetic of a word within what TLC computes with and *)
(* its ends within reach of small programs.                                *)
(***************************************************************************)
EXTENDS Integers

CONSTANT ByteValues

ASSUME ByteAssumption == ByteValues \in Nat \ {0, 1} /\ ByteValues % 2 = 0

Size == 4
Modulus == ByteValues * ByteValues * ByteValues * ByteValues
Half == Modulus \div 2

Word == -Half .. Half - 1

(* What an int keeps of a result. *)
Wrap(n) == ((n + Half) % Modulus) - Half

(* Byte i, from 0, of a word, and the word four bytes make. *)
Scale == [i \in 0 .. 3 |-> CASE i = 0 -> 1
                             [] i = 1 -> ByteValues
                             [] i = 2 -> ByteValues * ByteValues
                             [] i = 3 -> ByteValues * ByteValues * ByteValues]

ByteOf(w, i) == ((w % Modulus) \div Scale[i]) % ByteValues

WordOf(bytes) ==
  Wrap(bytes[0] + bytes[1] * Scale[1] + bytes[2] * Scale[2] + bytes[3] * Scale[3])

(* C's division: toward zero. *)
Quotient(v, w) ==
  LET Abs(n) == IF n < 0 THEN -n ELSE n
      q == Abs(v) \div Abs(w)
  IN  IF (v < 0) = (w < 0) THEN q ELSE -q

Arithmetic == {"ADD", "SUB", "MUL", "DIV"}
Relations == {"EQ", "NE", "LT", "LE", "GT", "GE"}

Exact(op, v, w) ==
  CASE op = "ADD" -> v + w
    [] op = "SUB" -> v - w
    [] op = "MUL" -> v * w
    [] op = "DIV" -> Quotient(v, w)

Related(op, v, w) ==
  CASE op = "EQ" -> v = w
    [] op = "NE" -> v # w
    [] op = "LT" -> v < w
    [] op = "LE" -> v <= w
    [] op = "GT" -> v > w
    [] op = "GE" -> v >= w
=============================================================================
