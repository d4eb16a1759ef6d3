------------------------------ MODULE Reader ------------------------------
(***************************************************************************)
(* The reader of src/src/reader.c: a packet, a position in it, and calls   *)
(* that take the next value and move the position. A call that fails, and  *)
(* every call behind it, leaves the reader as it is: the parsers return at *)
(* the first error.                                                        *)
(*                                                                         *)
(* A byte is a digit of base Radix, so that widths, leaders and arithmetic *)
(* are the code's while the numbers stay small.                            *)
(***************************************************************************)
EXTENDS Integers, SequencesExt

CONSTANTS
  Bits,     \* of a byte, 8 in the code
  Huge      \* bound: a number this large or larger is read as Huge

ASSUME ReaderAssumption == Bits \in 4..8 /\ Huge \in Nat /\ Huge >= 2^(3 * Bits + 1)

Radix == 2^Bits
Byte == 0..(Radix - 1)

\* The bytes of a number, least significant first, and the number again.
Digits(n, width) ==
  LET rest[i \in 0..width] == IF i = 0 THEN n ELSE rest[i - 1] \div Radix
  IN [i \in 1..width |-> rest[i - 1] % Radix]
Number(bytes) ==
  LET last[k \in 0..Len(bytes)] ==   \* the number of the last k bytes
        IF k = 0 THEN 0
        ELSE IF last[k - 1] >= Huge \div Radix THEN Huge ELSE bytes[Len(bytes) + 1 - k] + Radix * last[k - 1]
  IN last[Len(bytes)]
Flag(n, bit) == (n \div 2^bit) % 2 = 1

\* Bytes that start a length-encoded number of more than one byte, 0xfb to 0xff.
NullLeader == Radix - 5
Leader16 == Radix - 4
Leader24 == Radix - 3
Leader64 == Radix - 2

----------------------------------------------------------------------------
\* A reader: val is what the last call took, out what has been stored under
\* the names of the packet's fields, over that a byte outside was touched.
Open(buff, defaults) ==
  [buff |-> buff, pos |-> 0, rc |-> "OK", val |-> 0, out |-> defaults, over |-> FALSE]

Fail(r, code) == [r EXCEPT !.rc = code]
Left(r) == Len(r.buff) - r.pos
Eof(r) == ~(r.pos < Len(r.buff))

\* CHECK, and what it would be with an off-by-one.
CheckOneMore(r, n) == n <= Left(r) + 1
Check(r, n) == n <= Left(r)

\* The next n bytes. What lies behind the packet is anything, here 0.
Peek(r, n) == [i \in 1..n |-> IF r.pos + i <= Len(r.buff) THEN r.buff[r.pos + i] ELSE 0]
Moved(r, n, value) ==
  [r EXCEPT !.pos = @ + n, !.val = value, !.over = @ \/ n > Left(r)]

\* trilogy_reader_get_uint8 to _uint64, _float and _double: width bytes.
GetInt(r, width) ==
  IF Check(r, width) THEN Moved(r, width, Number(Peek(r, width))) ELSE Fail(r, "TRUNCATED_PACKET")

\* trilogy_reader_get_buffer and trilogy_reader_copy_buffer
GetBuffer(r, n) ==
  IF Check(r, n) THEN Moved(r, n, Peek(r, n)) ELSE Fail(r, "TRUNCATED_PACKET")

\* trilogy_reader_get_lenenc behind its first byte, which s has read; with the
\* leaders of two and three bytes swapped.
AfterLeaderSwapped(s) ==
  IF s.rc # "OK" \/ s.val < NullLeader THEN s
  ELSE CASE s.val = NullLeader -> Fail(s, "NULL_VALUE")
         [] s.val = Leader16 -> GetInt(s, 3)
         [] s.val = Leader24 -> GetInt(s, 2)
         [] s.val = Leader64 -> GetInt(s, 8)
         [] OTHER -> Fail(s, "PROTOCOL_VIOLATION")
AfterLeader(s) ==
  IF s.rc # "OK" \/ s.val < NullLeader THEN s
  ELSE CASE s.val = NullLeader -> Fail(s, "NULL_VALUE")
         [] s.val = Leader16 -> GetInt(s, 2)
         [] s.val = Leader24 -> GetInt(s, 3)
         [] s.val = Leader64 -> GetInt(s, 8)
         [] OTHER -> Fail(s, "PROTOCOL_VIOLATION")
GetLenenc(r) == AfterLeader(GetInt(r, 1))

\* trilogy_reader_get_lenenc_buffer, behind its length and as a whole.
AfterLength(s) ==
  CASE s.rc # "OK" -> s
    [] s.rc = "OK" /\ s.val > Left(s) -> Fail(s, "TRUNCATED_PACKET")
    [] OTHER -> GetBuffer(s, s.val)
GetLenencBuffer(r) == AfterLength(GetLenenc(r))

\* trilogy_reader_get_string: up to a NUL, which is skipped.
GetString(r) ==
  LET nuls == {i \in 1..Left(r) : r.buff[r.pos + i] = 0}
      len == Min(nuls) - 1
  IN IF nuls = {} THEN Fail(r, "TRUNCATED_PACKET") ELSE Moved(r, len + 1, Peek(r, len))

\* trilogy_reader_get_eof_buffer
GetEofBuffer(r) == Moved(r, Left(r), Peek(r, Left(r)))

\* trilogy_reader_finish, and without its look at what is left.
FinishAnywhere(r) == r
Finish(r) == IF r.rc = "OK" /\ r.pos < Len(r.buff) THEN Fail(r, "EXTRA_DATA_IN_PACKET") ELSE r

----------------------------------------------------------------------------
(* A parser makes such calls one after the other. A call is written as the *)
(* kind of value, its width, and the field it goes to ("skip" for none).   *)

UInt(width, field) == [get |-> "int", width |-> width, field |-> field]
Buffer(n, field) == [get |-> "buffer", width |-> n, field |-> field]
Lenenc(field) == [get |-> "lenenc", width |-> 0, field |-> field]
LenencBuffer(field) == [get |-> "lenenc_buffer", width |-> 0, field |-> field]
String(field) == [get |-> "string", width |-> 0, field |-> field]
EofBuffer(field) == [get |-> "eof_buffer", width |-> 0, field |-> field]

Call(r, c) ==
  CASE c.get = "int" -> GetInt(r, c.width)
    [] c.get = "buffer" -> GetBuffer(r, c.width)
    [] c.get = "lenenc" -> GetLenenc(r)
    [] c.get = "lenenc_buffer" -> GetLenencBuffer(r)
    [] c.get = "string" -> GetString(r)
    [] c.get = "eof_buffer" -> GetEofBuffer(r)

Store(r, field, value) ==
  [r EXCEPT !.out = [f \in {field} \cup DOMAIN @ |-> IF f = field THEN value ELSE @[f]]]

\* One call of a parser, CHECKED.
Stored(r, field) == IF r.rc = "OK" /\ field # "skip" THEN Store(r, field, r.val) ELSE r
Read(r, c) == IF r.rc = "OK" THEN Stored(Call(r, c), c.field) ELSE r

\* The rest of a parser, and the refusal of what has been read so far.
Then(r, Rest(_)) == IF r.rc = "OK" THEN Rest(r) ELSE r
Refuse(r, code, Wrong(_)) == IF r.rc = "OK" /\ Wrong(r.out) THEN Fail(r, code) ELSE r

\* n rounds of a loop whose body is Body(reader, round); a failed round is the last.
Rounds(Body(_, _), r, n) ==
  LET after[i \in 0..n] ==
        IF i = 0 THEN r ELSE LET s == after[i - 1] IN IF s.rc = "OK" THEN Body(s, i) ELSE s
  IN after[n]

Fields(r, calls) == Rounds(LAMBDA s, i : Read(s, calls[i]), r, Len(calls))
============================================================================
