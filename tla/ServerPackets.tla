--------------------------- MODULE ServerPackets ---------------------------
(***************************************************************************)
(* What the other end does with the wire, external to the repository: the  *)
(* packets of a server as it writes them, and the commands of a client as  *)
(* it reads them. The layouts are those the tests under src/test/protocol  *)
(* feed to the parsers and expect of the builders.                         *)
(***************************************************************************)
EXTENDS Statement

\* A length-encoded number in its shortest form, and text with its length.
ServerLenenc(n) ==
  LET width == IF n < Radix^2 THEN 2 ELSE IF n < Radix^3 THEN 3 ELSE 8
      leader == [w \in {2, 3, 8} |-> CASE w = 2 -> Leader16 [] w = 3 -> Leader24 [] w = 8 -> Leader64]
  IN IF n < NullLeader THEN <<n>> ELSE <<leader[width]>> \o Digits(n, width)
ServerText(text) == ServerLenenc(Len(text)) \o text

\* A change of the session's state: a GTID, or another that the client skips.
ChangeInfo(c) == IF c.type = Gtids THEN <<0>> \o ServerText(c.data) ELSE c.data
ServerChange(c) == <<c.type>> \o ServerText(ChangeInfo(c))
ServerChanges(changes) == FlattenSeq([i \in DOMAIN changes |-> ServerChange(changes[i])])

\* An OK packet. What it says of the session is there only if it says anything.
ServerStatus(o) == o.status + (IF o.changes = <<>> THEN 0 ELSE 2^SessionStateChanged)
ServerOk(type, caps, o) ==
  <<type>> \o ServerLenenc(o.rows) \o ServerLenenc(o.id)
    \o (CASE "PROTOCOL_41" \in caps -> Digits(ServerStatus(o), 2) \o Digits(o.warnings, 2)
          [] caps \cap {"PROTOCOL_41", "TRANSACTIONS"} = {"TRANSACTIONS"} -> Digits(ServerStatus(o), 2)
          [] OTHER -> <<>>)
    \o (CASE "SESSION_TRACK" \notin caps -> o.info
          [] "SESSION_TRACK" \in caps /\ o.changes # <<>> -> ServerText(o.info) \o ServerText(ServerChanges(o.changes))
          [] OTHER -> IF o.info = <<>> THEN <<>> ELSE ServerText(o.info))
ServerEof(caps, o) ==
  <<PacketEof>> \o (IF "PROTOCOL_41" \in caps THEN Digits(o.warnings, 2) \o Digits(o.status, 2) ELSE <<>>)
ServerErr(caps, e) ==
  <<PacketErr>> \o Digits(e.code, 2) \o (IF "PROTOCOL_41" \in caps THEN <<e.marker>> \o e.state ELSE <<>>) \o e.message

\* The last GTID among the changes, empty if there is none.
LastGtid(changes) ==
  LET gtids == {i \in DOMAIN changes : changes[i].type = Gtids}
  IN IF gtids = {} THEN <<>> ELSE changes[Max(gtids)].data

ServerAuthSwitch(s) == <<PacketEof>> \o s.plugin \o <<0>> \o s.scramble

\* A handshake packet; the scramble is sent in two parts, the second only by a
\* server that has the capability for it.
ServerHandshake(h) ==
  LET caps == Digits(Mask(h.flags), 4) IN
  <<10>> \o h.version \o <<0>> \o Digits(h.id, 4) \o SubSeq(h.scramble, 1, HeadLen) \o <<0>> \o SubSeq(caps, 1, 2)
    \o <<h.charset>> \o Digits(h.status, 2) \o SubSeq(caps, 3, 4)
    \o <<IF PluginAuth \in h.flags THEN Len(h.scramble) ELSE 0>> \o [i \in 1..Reserved |-> 0]
    \o (IF SecureConnection \in h.flags THEN SubSeq(h.scramble, HeadLen + 1, Len(h.scramble)) ELSE <<>>)
    \o (IF PluginAuth \in h.flags THEN h.plugin \o <<0>> ELSE <<>>)

ServerStmtOk(s) ==
  <<0>> \o Digits(s.id, 4) \o Digits(s.column_count, 2) \o Digits(s.parameter_count, 2) \o <<0>>
    \o Digits(s.warning_count, 2)
ServerColumn(c, field_list) ==
  ServerText(c.catalog) \o ServerText(c.schema) \o ServerText(c.table) \o ServerText(c.original_table)
    \o ServerText(c.name) \o ServerText(c.original_name) \o ServerLenenc(12 % NullLeader) \o Digits(c.charset, 2)
    \o Digits(c.len, 4) \o <<c.type>> \o Digits(c.flags, 2) \o <<c.decimals>> \o <<0, 0>>
    \o (IF field_list THEN ServerText(c.default_value) ELSE <<>>)

\* Rows of the text and of the binary protocol.
ServerRow(values) ==
  FlattenSeq([i \in DOMAIN values |-> IF values[i].null THEN <<NullLeader>> ELSE ServerText(values[i].data)])

\* A date or a time is cut behind its last part that is not 0, at a length there is.
ServerTemporal(data, widths, parts) ==
  LET used == {i \in DOMAIN data : data[i] # 0}
      len == Min({l \in DOMAIN parts : \A i \in used : i <= parts[l]})
  IN <<len>> \o FlattenSeq([i \in 1..parts[len] |-> Digits(data[i], widths[i])])
ServerValue(type, data) ==
  CASE type \in DOMAIN Width -> Digits(data[1], Width[type])
    [] type \in DateTypes -> ServerTemporal(data, DateWidths, DateParts)
    [] type = Type.TIME -> ServerTemporal(data, TimeWidths, TimeParts)
    [] OTHER -> ServerText(data)
ServerStmtRow(types, values) ==
  LET n == Len(types)
      bit(k) == IF k - 2 \in 0..(n - 1) /\ values[k - 1].null THEN 2^(k % Bits) ELSE 0
      byte(b) == FoldLeft(LAMBDA sum, k : sum + bit(b * Bits + k), 0, [k \in 1..Bits |-> k - 1])
  IN <<0>> \o [b \in 1..((n + 1) \div Bits + 1) |-> byte(b - 1)]
       \o FlattenSeq([i \in 1..n |-> IF values[i].null THEN <<>> ELSE ServerValue(types[i], values[i].data)])

----------------------------------------------------------------------------
(* Commands, read *)

\* An execute command of a statement with n parameters.
ServerParam(r, i) ==
  IF Flag(r.out.nulls[(i - 1) \div Bits + 1], (i - 1) % Bits) THEN Add(r, Null)
  ELSE Then(BinaryValue(r, r.out.types[2 * i - 1]), LAMBDA s : Add(s, Value(s.val)))
ServerExecute(buff, n) ==
  LET r == Fields(Open(buff, [values |-> <<>>, types |-> <<>>]),
                  <<UInt(1, "op"), UInt(4, "id"), UInt(1, "flags"), UInt(4, "iterations")>>
                  \o (IF n = 0 THEN <<>>
                      ELSE <<Buffer((n + Bits - 1) \div Bits, "nulls"), UInt(1, "skip"), Buffer(2 * n, "types")>>))
  IN Finish(Rounds(ServerParam, r, n))

\* The other commands: the operation and its arguments.
CommandArgs ==
  [quit |-> <<>>, ping |-> <<>>, query |-> <<EofBuffer("text")>>, change_db |-> <<EofBuffer("text")>>,
   stmt_prepare |-> <<EofBuffer("text")>>, set_option |-> <<UInt(2, "option")>>, stmt_close |-> <<UInt(4, "id")>>,
   stmt_reset |-> <<UInt(4, "id")>>, stmt_bind_data |-> <<UInt(4, "id"), UInt(2, "param"), EofBuffer("text")>>]
ServerCommand(buff) ==
  Then(Read(Open(buff, <<>>), UInt(1, "op")),
       LAMBDA r : Finish(Fields(r, CommandArgs[CHOOSE op \in DOMAIN CommandArgs : Opcode[op] = r.out.op])))

\* A login, or a request for TLS, which is a login cut behind its fixed part.
LoginTail(r) ==
  Finish(Fields(r, <<Buffer(r.out.answer_len, "answer")>>
                   \o (IF Flag(r.out.caps, ConnectWithDb) THEN <<String("database")>> ELSE <<>>)
                   \o (IF Flag(r.out.caps, PluginAuth) THEN <<String("plugin")>> ELSE <<>>)))
ServerLogin(buff) ==
  Then(Fields(Open(buff, [database |-> <<>>, plugin |-> <<>>]),
              <<UInt(4, "caps"), UInt(4, "max"), UInt(1, "encoding"), Buffer(Zeroes, "zeroes")>>),
       LAMBDA r : IF Flag(r.out.caps, Ssl) THEN Finish(r)
                  ELSE Then(Fields(r, <<String("user"), UInt(1, "answer_len")>>), LoginTail))
============================================================================
