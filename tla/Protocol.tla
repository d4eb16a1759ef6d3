----------------------------- MODULE Protocol -----------------------------
(***************************************************************************)
(* The packets of src/src/protocol.c: what trilogy_parse_*_packet makes of *)
(* the server's packets, what trilogy_build_*_packet writes for it (the    *)
(* write_* functions of builder.c give the layout, Builder the framing),   *)
(* and what read_ok_packet and trilogy_read_row of client.c do with them.  *)
(*                                                                         *)
(* A parser is a reader (module Reader) run through the calls it makes;    *)
(* its rc is what the function returns and its out the fields it filled in.*)
(***************************************************************************)
EXTENDS Reader

CONSTANTS
  HeadLen,      \* bytes of the scramble's first part, 8 in the code
  ScrambleLen,  \* SCRAMBLE_LEN, 20
  Reserved,     \* bytes reserved in a handshake packet, 10
  Zeroes,       \* bytes of zero in a login or TLS request packet, 23
  StateLen,     \* bytes of an SQL state, 5
  PluginMax,    \* longest plugin name, sizeof(auth_plugin) - 1
  VersionMax,   \* longest server version, sizeof(server_version) - 1
  GtidMax,      \* TRILOGY_MAX_LAST_GTID_LEN
  MaxPacketLen  \* TRILOGY_MAX_PACKET_LEN

ASSUME ProtocolAssumption ==
  /\ {HeadLen, ScrambleLen, Reserved, Zeroes, StateLen, PluginMax, VersionMax, GtidMax}
       \subseteq {n \in Nat : n < Radix}
  /\ HeadLen < ScrambleLen + 1 /\ ScrambleLen + 1 < Radix /\ MaxPacketLen \in Nat

\* The flags the parsers look at, by bit. A word of two bytes has 2 * Bits.
Protocol41 == 0
SecureConnection == 1
PluginAuth == 2 * Bits
SessionStateChanged == 1   \* in status_flags
NoBackslashEscapes == 2    \* in status_flags

Gtids == 3                 \* TRILOGY_SESSION_TRACK_GTIDS
PacketOk == 0
PacketEof == Radix - 2
PacketErr == Radix - 1

Truncated(s, n) == SubSeq(s, 1, IF Len(s) < n THEN Len(s) ELSE n)

----------------------------------------------------------------------------
(* OK packets *)

\* One entry of the session state: the last GTID is the only one made use of.
KeepGtid(s, g) ==
  CASE g.rc # "OK" -> [s EXCEPT !.rc = g.rc, !.over = @ \/ g.over]
    [] g.rc = "OK" /\ Len(g.out.last_gtid) > GtidMax -> Fail(s, "PROTOCOL_VIOLATION")
    [] OTHER -> [Store(s, "last_gtid", g.out.last_gtid) EXCEPT !.over = @ \/ g.over]
StateChange(r) ==
  Then(Fields(r, <<UInt(1, "type"), LenencBuffer("state_info")>>),
       LAMBDA s : IF s.out.type # Gtids THEN s
                  ELSE KeepGtid(s, Fields(Open(s.out.state_info, <<>>), <<UInt(1, "skip"), LenencBuffer("last_gtid")>>)))

\* The loop over session_state_changes, with a reader of its own.
Joined(r, s) == [Store(r, "last_gtid", s.out.last_gtid) EXCEPT !.rc = s.rc, !.over = @ \/ s.over]
StateChanges(r) ==
  Joined(r, Rounds(LAMBDA t, i : IF Eof(t) THEN t ELSE StateChange(t),
                   Open(r.out.session_state_changes, [last_gtid |-> r.out.last_gtid]), Len(r.buff)))

\* The part behind the counters, when the session is tracked.
SessionState(r) ==
  Then(Read(r, LenencBuffer("session_status")),
       LAMBDA s : IF Flag(s.out.status_flags, SessionStateChanged)
                  THEN Then(Read(s, LenencBuffer("session_state_changes")), StateChanges) ELSE s)

OkDefaults ==
  [status_flags |-> 0, warning_count |-> 0, txn_status_flags |-> 0, session_status |-> <<>>,
   session_state_changes |-> <<>>, info |-> <<>>, last_gtid |-> <<>>]

\* trilogy_parse_ok_packet
ParseOk(buff, caps) ==
  LET counters == <<UInt(1, "skip"), Lenenc("affected_rows"), Lenenc("last_insert_id")>>
      status == CASE "PROTOCOL_41" \in caps -> <<UInt(2, "status_flags"), UInt(2, "warning_count")>>
                  [] caps \cap {"PROTOCOL_41", "TRANSACTIONS"} = {"TRANSACTIONS"} -> <<UInt(2, "txn_status_flags")>>
                  [] OTHER -> <<>>
  IN Then(Fields(Open(buff, OkDefaults), counters \o status),
          LAMBDA r : Finish(IF "SESSION_TRACK" \in caps /\ ~Eof(r) THEN SessionState(r) ELSE Read(r, EofBuffer("info"))))

\* trilogy_parse_eof_packet
ParseEof(buff, caps) ==
  Finish(Fields(Open(buff, [status_flags |-> 0, warning_count |-> 0]),
                <<UInt(1, "skip")>> \o (IF "PROTOCOL_41" \in caps
                                   THEN <<UInt(2, "warning_count"), UInt(2, "status_flags")>> ELSE <<>>)))

\* trilogy_parse_err_packet
ParseErr(buff, caps) ==
  Finish(Fields(Open(buff, [sql_state_marker |-> 0, sql_state |-> [i \in 1..StateLen |-> 0]]),
                <<UInt(1, "skip"), UInt(2, "error_code")>>
                  \o (IF "PROTOCOL_41" \in caps
                      THEN <<UInt(1, "sql_state_marker"), Buffer(StateLen, "sql_state")>> ELSE <<>>)
                  \o <<EofBuffer("error_message")>>))

\* read_ok_packet: what the connection keeps of an OK packet parsed as r.
ReadOk(conn, r, caps) ==
  LET gtid == r.out.last_gtid
  IN IF r.rc # "OK" THEN conn
     ELSE [status |-> IF "PROTOCOL_41" \in caps THEN r.out.status_flags ELSE conn.status,
           last_gtid |-> IF Len(gtid) > 0 /\ Len(gtid) < GtidMax THEN gtid ELSE conn.last_gtid]

----------------------------------------------------------------------------
(* Handshake and authentication *)

\* trilogy_parse_auth_switch_request_packet
ParseAuthSwitch(buff, caps) ==
  LET r == Refuse(Read(Open(buff, <<>>), UInt(1, "skip")), "PROTOCOL_VIOLATION", LAMBDA out : "PLUGIN_AUTH" \notin caps)
      s == Refuse(Read(r, String("auth_plugin")), "AUTH_PLUGIN_TOO_LONG", LAMBDA out : Len(out.auth_plugin) > PluginMax)
  IN Then(Read(s, EofBuffer("scramble")),
          LAMBDA t : Finish(Store(t, "scramble", Truncated(t.out.scramble, ScrambleLen + 1))))

\* The handshake packet up to its scramble, in the parts between which
\* trilogy_parse_handshake_packet looks at what it has read.
HandshakeVersion(r) ==
  Refuse(Read(r, UInt(1, "proto_version")), "PROTOCOL_VIOLATION", LAMBDA out : out.proto_version # 10)
HandshakeFiller(r) ==
  Refuse(Fields(r, <<String("server_version"), UInt(4, "conn_id"), Buffer(HeadLen, "head"), UInt(1, "filler")>>),
         "PROTOCOL_VIOLATION", LAMBDA out : out.filler # 0)
HandshakeCapabilities(r) ==
  Refuse(Read(r, UInt(2, "lower")), "PROTOCOL_VIOLATION", LAMBDA out : ~Flag(out.lower, Protocol41))

Capabilities(out) == out.lower + Radix^2 * out.upper
Secure(out) == Flag(Capabilities(out), SecureConnection)
Plugin(out) == Flag(Capabilities(out), PluginAuth)

HandshakeScramble(r) ==
  LET fixed == <<UInt(1, "server_charset"), UInt(2, "server_status"), UInt(2, "upper"), UInt(1, "auth_data_len")>>
      s == Refuse(Fields(r, fixed), "PROTOCOL_VIOLATION", LAMBDA out : ~Plugin(out) /\ out.auth_data_len # 0)
      t == Refuse(Read(s, Buffer(Reserved, "skip")), "PROTOCOL_VIOLATION",
                  LAMBDA out : ~Secure(out) \/ out.auth_data_len <= HeadLen \/ out.auth_data_len # ScrambleLen + 1)
  IN Then(t, LAMBDA u : Read(u, Buffer(u.out.auth_data_len - HeadLen, "tail")))

HandshakePlugin(r) ==
  IF Plugin(r.out)
  THEN Refuse(Read(r, String("auth_plugin")), "AUTH_PLUGIN_TOO_LONG", LAMBDA out : Len(out.auth_plugin) > PluginMax)
  ELSE r

\* trilogy_parse_handshake_packet. The server's version is cut to its field.
ParseHandshake(buff) ==
  LET r == HandshakeCapabilities(HandshakeFiller(HandshakeVersion(Open(buff, <<>>)))) IN
  Then(Then(Then(r, HandshakeScramble), HandshakePlugin),
       LAMBDA s : Finish(Store(s, "server_version", Truncated(s.out.server_version, VersionMax))))

----------------------------------------------------------------------------
(* Result sets *)

\* trilogy_parse_result_packet, trilogy_parse_stmt_ok_packet
ParseResult(buff) == Finish(Read(Open(buff, <<>>), Lenenc("column_count")))
ParseStmtOk(buff) ==
  LET fixed == <<UInt(1, "skip"), UInt(4, "id"), UInt(2, "column_count"), UInt(2, "parameter_count"), UInt(1, "filler")>>
      r == Refuse(Fields(Open(buff, <<>>), fixed), "PROTOCOL_VIOLATION", LAMBDA out : out.filler # 0)
  IN Finish(Read(r, UInt(2, "warning_count")))

\* trilogy_parse_column_packet
ParseColumn(buff, field_list) ==
  Finish(Fields(Open(buff, [default_value |-> <<>>]),
    <<LenencBuffer("catalog"), LenencBuffer("schema"), LenencBuffer("table"), LenencBuffer("original_table"),
      LenencBuffer("name"), LenencBuffer("original_name")>>
    \o <<Lenenc("skip"), UInt(2, "charset"), UInt(4, "len"), UInt(1, "type"), UInt(2, "flags"), UInt(1, "decimals"),
         UInt(2, "skip")>>
    \o (IF field_list THEN <<LenencBuffer("default_value")>> ELSE <<>>)))

Null == [null |-> TRUE, data |-> <<>>]
Value(data) == [null |-> FALSE, data |-> data]
Add(r, value) == Store(r, "values", Append(r.out.values, value))

\* A field of a text row: a length-encoded buffer, or NULL, which is no error.
TextField(s) ==
  CASE s.rc = "OK" -> Add(s, Value(s.val))
    [] s.rc = "NULL_VALUE" -> Add([s EXCEPT !.rc = "OK"], Null)
    [] OTHER -> s
TextValue(r) == TextField(GetLenencBuffer(r))

\* trilogy_parse_row_packet
ParseRow(buff, column_count) ==
  Finish(Rounds(LAMBDA r, i : TextValue(r), Open(buff, [values |-> <<>>]), column_count))

----------------------------------------------------------------------------
(* The end of the rows *)

\* current_packet_type: the first byte of packet_buffer, which an empty packet
\* leaves as the packet before it (first) has written it.
PacketType(first, buff) == IF buff = <<>> THEN first ELSE buff[1]

\* The test for the end of the rows, and one that knows the old EOF packet only.
EndsRowsOldEof(type, len) == type = PacketEof /\ len <= 5
EndsRows(type, len) == type = PacketEof /\ len < 9

\* read_eof_packet: an OK packet under another type, or the old EOF packet.
ReadEof(buff, caps) == IF "DEPRECATE_EOF" \in caps THEN ParseOk(buff, caps) ELSE ParseEof(buff, caps)

\* What the connection keeps of it, read as r.
KeepEof(conn, r, caps) ==
  CASE "DEPRECATE_EOF" \in caps -> ReadOk(conn, r, caps)
    [] "DEPRECATE_EOF" \notin caps /\ r.rc = "OK" /\ "PROTOCOL_41" \in caps -> [conn EXCEPT !.status = r.out.status_flags]
    [] OTHER -> conn

\* trilogy_read_row and trilogy_stmt_read_row behind read_packet, where row is
\* what their row parser makes of the packet.
RowOutcome(first, buff, caps, row) ==
  LET type == PacketType(first, buff)
      ended == EndsRows(type, Len(buff))
  IN CASE ended -> Then(ReadEof(buff, caps), LAMBDA r : [r EXCEPT !.rc = "EOF"])
       [] ~ended /\ type = PacketErr -> Then(ParseErr(buff, caps), LAMBDA r : [r EXCEPT !.rc = "ERR"])
       [] OTHER -> row
============================================================================
