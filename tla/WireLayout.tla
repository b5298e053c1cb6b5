----------------------------- MODULE WireLayout -----------------------------
(***************************************************************************)
(* Packed structures as sequences of cells: a cell <<name, width, value>>  *)
(* is one field of a struct.pack format, in bytes of network order.  Only  *)
(* types, lengths and counts have a value; of any other field the name is  *)
(* its content, which tells what it is read into.                          *)
(*                                                                         *)
(* A class of the library has three methods that must agree: pack() and    *)
(* unpack(), each with a format of its own, and __len__(), whose value     *)
(* goes into the length field.  A class is described by what each of the   *)
(* three has, and by what follows the fixed part.                          *)
(***************************************************************************)
EXTENDS Integers, Sequences, SequencesExt

U8(f) == <<f, 1, 0>>
U16(f) == <<f, 2, 0>>
U32(f) == <<f, 4, 0>>
U64(f) == <<f, 8, 0>>
Eth(f) == <<f, 6, 0>>
Bytes(f, n) == <<f, n, 0>>
Pad(n) == <<"pad", n, 0>>
Type8(t) == <<"type", 1, t>>
Type16(t) == <<"type", 2, t>>
Type32(t) == <<"type", 4, t>>

\* The field that a writer fills with a length of the whole.
Length16 == <<"length", 2, 0>>
Length8 == <<"length", 1, 0>>

RECURSIVE Width(_)
Width(cells) == IF cells = <<>> THEN 0 ELSE cells[1][2] + Width(Tail(cells))

\* The layout of a reader fits the cells when each read takes one field, and
\* the one it is meant for.
Fits(layout, cells) ==
  /\ Len(layout) <= Len(cells)
  /\ \A i \in DOMAIN layout :
       layout[i][1] = cells[i][1] /\ layout[i][2] = cells[i][2]

\* The number of cells in the n bytes behind the first i cells, these included,
\* or -1 if a field is cut.
RECURSIVE CellsFrom(_, _, _)
CellsFrom(cells, n, i) ==
  IF n = 0 THEN i
  ELSE IF n < 0 \/ i = Len(cells) THEN -1
  ELSE CellsFrom(cells, n - cells[i + 1][2], i + 1)
CellsIn(cells, n) == CellsFrom(cells, n, 0)

Value(cells, f) ==
  LET at == {i \in DOMAIN cells : cells[i][1] = f} IN
  IF at = {} THEN -1 ELSE cells[CHOOSE i \in at : \A j \in at : i <= j][3]

From(cells, i) == SubSeq(cells, i, Len(cells))

\* What pack() has, what unpack() has, the constant part of __len__(), the
\* bytes that unpack() takes from the length before the rest, and how it reads
\* the rest.
Class(pack, unpack, len, before, rest) ==
  [pack |-> pack, unpack |-> unpack, len |-> len, before |-> before, rest |-> rest]

\* A class without a variable part.
Fixed(pack, unpack, len) == Class(pack, unpack, len, len, "none")

Garbled == [class |-> "garbled", parts |-> <<>>]
=============================================================================
