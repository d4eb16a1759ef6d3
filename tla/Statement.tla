----------------------------- MODULE Statement -----------------------------
(***************************************************************************)
(* The binary protocol of prepared statements and the commands of the      *)
(* client: rows as trilogy_parse_stmt_row_packet reads them, and packets   *)
(* as the trilogy_build_*_packet functions write them (src/src/protocol.c, *)
(* with the layouts of src/src/builder.c).                                 *)
(***************************************************************************)
EXTENDS Protocol

CONSTANTS Root, NativePlugin, Sha2Plugin   \* names, as strings of bytes

\* Types by their number. The string types, blobs, decimals and so on share
\* every branch; DECIMAL and VARCHAR stand for them.
Type ==
  [DECIMAL |-> 0, TINY |-> 1, SHORT |-> 2, LONG |-> 3, FLOAT |-> 4, DOUBLE |-> 5, NULL |-> 6, TIMESTAMP |-> 7,
   LONGLONG |-> 8, INT24 |-> 9, DATE |-> 10, TIME |-> 11, DATETIME |-> 12, YEAR |-> 13, VARCHAR |-> 15]

\* How many bytes a number takes; a float is its bit pattern.
Width ==
  [t \in {Type[name] : name \in {"TINY", "SHORT", "YEAR", "LONG", "INT24", "FLOAT", "LONGLONG", "DOUBLE"}} |->
     CASE t = Type.TINY -> 1
       [] t \in {Type.SHORT, Type.YEAR} -> 2
       [] t \in {Type.LONGLONG, Type.DOUBLE} -> 8
       [] OTHER -> 4]
StringTypes == {Type.DECIMAL, Type.VARCHAR}
DateTypes == {Type.DATE, Type.DATETIME, Type.TIMESTAMP}

\* A date is <<year, month, day, hour, minute, second, micro_seconds>>, a time
\* <<is_negative, days, hour, minute, second, micro_seconds>>: the widths of the
\* parts, and how many of them a value of a given length has.
DateWidths == <<2, 1, 1, 1, 1, 1, 4>>
DateParts == [n \in {0, 4, 7, 11} |-> CASE n = 0 -> 0 [] n = 4 -> 3 [] n = 7 -> 6 [] n = 11 -> 7]
TimeWidths == <<1, 4, 1, 1, 1, 4>>
TimeParts == [n \in {0, 8, 12} |-> CASE n = 0 -> 0 [] n = 8 -> 5 [] n = 12 -> 6]

----------------------------------------------------------------------------
(* Reading rows *)

\* A date or a time: its length, and as many parts as it has. The others are 0.
StoreTemporal(r, widths, parts) ==
  LET keep(t, i) == Store(t, "parts", [t.out.parts EXCEPT ![i] = t.val])
      part(t, i) == keep(GetInt(t, widths[i]), i)
  IN Then(Rounds(part, Store(r, "parts", [i \in 1..Len(widths) |-> 0]), parts[r.val]),
          LAMBDA t : [t EXCEPT !.val = t.out.parts])
Temporal(r, widths, parts) ==
  Then(GetInt(r, 1), LAMBDA s : IF s.val \in DOMAIN parts THEN StoreTemporal(s, widths, parts)
                                ELSE Fail(s, "PROTOCOL_VIOLATION"))

\* Whether a time is negative is whether its first part is 1.
Signed(parts) == [parts EXCEPT ![1] = IF @ = 1 THEN 1 ELSE 0]

\* The value of a column, left in val as a sequence.
BinaryValue(r, type) ==
  CASE type \in StringTypes -> GetLenencBuffer(r)
    [] type \in DOMAIN Width -> Then(GetInt(r, Width[type]), LAMBDA s : [s EXCEPT !.val = <<s.val>>])
    [] type \in DateTypes -> Temporal(r, DateWidths, DateParts)
    [] type = Type.TIME ->
         Then(Temporal(r, TimeWidths, TimeParts), LAMBDA s : [s EXCEPT !.val = Signed(s.val)])
    [] OTHER -> Fail(r, "UNKNOWN_TYPE")

\* The bitmap has a bit per column behind two that are not used.
BitmapLen(column_count) == (column_count + (Bits - 1) + 2) \div Bits

\* is_null, for column i counted from 0.
IsNull(bitmap, i) ==
  LET at == (i + 2) \div Bits IN
  IF i > Len(bitmap) * Bits - 1 THEN [rc |-> "PROTOCOL_VIOLATION", null |-> FALSE, over |-> FALSE]
  ELSE [rc |-> "OK", over |-> at >= Len(bitmap),
        null |-> at < Len(bitmap) /\ Flag(bitmap[at + 1], (i + 2) % Bits)]

\* One column of trilogy_parse_stmt_row_packet, the ith.
StmtColumn(r, type, i) ==
  LET n == IsNull(r.out.bitmap, i - 1)
  IN CASE n.rc # "OK" -> Fail(r, n.rc)
       [] n.rc = "OK" /\ n.null -> Add(r, Null)
       [] OTHER -> Then(BinaryValue([r EXCEPT !.over = @ \/ n.over], type), LAMBDA s : Add(s, Value(s.val)))

\* trilogy_parse_stmt_row_packet, for columns of the given types.
ParseStmtRow(buff, types) ==
  LET r == Fields(Open(buff, [values |-> <<>>]), <<UInt(1, "skip"), Buffer(BitmapLen(Len(types)), "bitmap")>>) IN
  Finish(Rounds(LAMBDA s, i : StmtColumn(s, types[i], i), r, Len(types)))

----------------------------------------------------------------------------
(* Writing commands *)

\* trilogy_builder_write_lenenc
WriteLenenc(n) ==
  CASE n < NullLeader -> <<n>>
    [] n >= NullLeader /\ n < Radix^2 -> <<Leader16>> \o Digits(n, 2)
    [] n >= Radix^2 /\ n < Radix^3 -> <<Leader24>> \o Digits(n, 3)
    [] OTHER -> <<Leader64>> \o Digits(n, 8)

\* trilogy_builder_write_lenenc_buffer, trilogy_builder_write_string
WriteLenencBuffer(data) == WriteLenenc(Len(data)) \o data
WriteString(data) == Append(data, 0)

\* The low digits of TRILOGY_CMD_*.
Opcode ==
  [quit |-> 1, change_db |-> 2, query |-> 3, stmt_prepare |-> 6, stmt_execute |-> 7, stmt_bind_data |-> 8,
   stmt_close |-> 9, stmt_reset |-> 10, set_option |-> 11, ping |-> 14]

\* How long a time or a date is written: the first of these that keeps all that
\* is not 0. A time of days alone counts as empty.
AnyOf(parts, from, to) == \E i \in from..to : parts[i] # 0
TimeLen(t) ==
  CASE t[6] # 0 -> 12
    [] t[6] = 0 /\ AnyOf(t, 3, 5) -> 8
    [] OTHER -> 0
DateLenNoTime(d) ==
  CASE d[7] # 0 -> 11
    [] d[7] = 0 /\ AnyOf(d, 4, 5) -> 7
    [] d[7] = 0 /\ ~AnyOf(d, 4, 5) /\ AnyOf(d, 1, 3) -> 4
    [] OTHER -> 0
DateLen(d) ==
  CASE d[7] # 0 -> 11
    [] d[7] = 0 /\ AnyOf(d, 4, 6) -> 7
    [] d[7] = 0 /\ ~AnyOf(d, 4, 6) /\ AnyOf(d, 1, 3) -> 4
    [] OTHER -> 0
WriteParts(len, value, widths, parts) ==
  <<len>> \o FlattenSeq([i \in 1..parts[len] |-> Digits(value[i], widths[i])])

\* A bound value. NULL as a type has none; NULL in the bitmap does not keep a
\* value of another type from being written.
WriteValue(bind) ==
  CASE bind.type \in DOMAIN Width -> Digits(bind.data[1], Width[bind.type])
    [] bind.type \in StringTypes -> WriteLenencBuffer(bind.data)
    [] bind.type \in DateTypes -> WriteParts(DateLen(bind.data), bind.data, DateWidths, DateParts)
    [] bind.type = Type.TIME -> WriteParts(TimeLen(bind.data), bind.data, TimeWidths, TimeParts)
    [] OTHER -> <<>>
WritableTypes == DOMAIN Width \cup StringTypes \cup DateTypes \cup {Type.TIME, Type.NULL}

\* The null bitmap of the binds, in which the first bit is the first bind's.
Bit(b, i) == IF i \in DOMAIN b /\ b[i].null THEN 2^((i - 1) % Bits) ELSE 0
WriteNulls(binds) ==
  [k \in 1..((Len(binds) + Bits - 1) \div Bits) |->
     FoldLeft(LAMBDA n, j : n + Bit(binds, (k - 1) * Bits + j), 0, [j \in 1..Bits |-> j])]

WriteType(bind) == <<bind.type, IF bind.unsigned THEN Radix \div 2 ELSE 0>>

\* trilogy_build_stmt_execute_packet
BuildExecute(stmt_id, flags, binds) ==
  LET head == <<Opcode.stmt_execute>> \o Digits(stmt_id, 4) \o <<flags>> \o Digits(1, 4)
      n == Len(binds)
  IN IF \E i \in 1..n : binds[i].type \notin WritableTypes THEN [rc |-> "UNKNOWN_TYPE", packet |-> <<>>]
     ELSE [rc |-> "OK",
           packet |-> head \o (IF n = 0 THEN <<>>
                       ELSE WriteNulls(binds) \o <<1>> \o FlattenSeq([i \in 1..n |-> WriteType(binds[i])])
                              \o FlattenSeq([i \in 1..n |-> WriteValue(binds[i])]))]

\* trilogy_build_ping_packet and _quit_; _query_, _change_db_ and _stmt_prepare_;
\* _set_option_; _stmt_reset_ and _stmt_close_; _stmt_bind_data_.
BuildPlain(op) == <<Opcode[op]>>
BuildText(op, data) == <<Opcode[op]>> \o data
BuildOption(option) == <<Opcode.set_option>> \o Digits(option, 2)
BuildStmt(op, stmt_id) == <<Opcode[op]>> \o Digits(stmt_id, 4)
BuildBindData(stmt_id, param_id, data) ==
  <<Opcode.stmt_bind_data>> \o Digits(stmt_id, 4) \o Digits(param_id, 2) \o data

\* Sets of capability bits as a number.
Mask(bits) == FoldLeft(LAMBDA n, b : n + (IF b \in bits THEN 2^b ELSE 0), 0, [b \in 1..(4 * Bits) |-> b])
              + (IF 0 \in bits THEN 1 ELSE 0)
ConnectWithDb == 2
Ssl == 3
ClientCapabilities == {Protocol41, SecureConnection, PluginAuth}

\* The fixed part of a login, and trilogy_build_ssl_request_packet.
LoginHead(flags, encoding) ==
  Digits(Mask(flags \cup ClientCapabilities), 4) \o Digits(MaxPacketLen, 4) \o <<encoding>>
    \o [i \in 1..Zeroes |-> 0]
BuildSslRequest(flags, encoding) == LoginHead(flags \cup {Ssl}, encoding)

\* trilogy_build_auth_packet, with the answer to the scramble given (Auth has
\* how it is made). user and database are <<>> for NULL or hold one name.
BuildAuth(flags, encoding, user, answer, database, plugin) ==
  LET caps == flags \cup (IF database = <<>> THEN {} ELSE {ConnectWithDb})
      named == IF answer # <<>> /\ plugin # Sha2Plugin THEN NativePlugin ELSE plugin
  IN LoginHead(caps, encoding) \o WriteString(IF user = <<>> THEN Root ELSE user[1])
       \o <<Len(answer)>> \o answer
       \o (IF database = <<>> THEN <<>> ELSE WriteString(database[1])) \o WriteString(named)

\* trilogy_build_auth_clear_password
BuildClearPassword(password) == WriteString(password)
============================================================================
