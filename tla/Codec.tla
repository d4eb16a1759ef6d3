------------------------------- MODULE Codec -------------------------------
(***************************************************************************)
(* The codec at work: a server sends a packet and the client parses it, or *)
(* the client builds a command, a login or an escaped string and the       *)
(* server reads it. A packet from the server may be damaged on its way.    *)
(***************************************************************************)
EXTENDS ServerPackets, Escape

CONSTANTS
  Near      \* bound: damage is done to the first Near bytes or at the end

ASSUME CodecAssumption == Near \in Nat

VARIABLES
  phase,   \* "idle", "wire" with a packet under way, "read" when it has been read
  sent,    \* what the sender meant: its kind, the capabilities, an argument the
           \* receiver knows, what the reader ought to return and the fields
  packet,  \* the bytes under way
  damage,  \* what has happened to them: "none", "cut", "longer" or "changed"
  conn,    \* what the client keeps of earlier packets: [status, last_gtid]
  server,  \* the server's status, as far as it has told it
  got      \* what the receiver's functions returned

vars == <<phase, sent, packet, damage, conn, server, got>>

Modes == {0, 2^NoBackslashEscapes}
Earlier == <<9>>   \* a GTID of before
Nothing == [rc |-> "OK", out |-> <<>>, over |-> FALSE]

Init ==
  /\ phase = "idle" /\ packet = <<>> /\ damage = "none" /\ got = Nothing
  /\ sent = [kind |-> "none", caps |-> {}, arg |-> 0, rc |-> "OK", fields |-> <<>>]
  /\ server \in Modes
  /\ conn = [status |-> server, last_gtid |-> Earlier]

Idle == phase = "idle"
Send(kind, caps, arg, bytes, rc, fields) ==
  /\ phase' = "wire"
  /\ sent' = [kind |-> kind, caps |-> caps, arg |-> arg, rc |-> rc, fields |-> fields]
  /\ packet' = bytes
  /\ UNCHANGED <<damage, conn, got>>

----------------------------------------------------------------------------
(* Samples: at the limits of the encodings, or one of a kind. *)

Text(n) == [i \in 1..n |-> 1 + (i % 2)]
Numbers == {0, NullLeader - 1, NullLeader, Radix^2 - 1, Radix^2, Radix^3 - 1, Radix^3}
Texts == {Text(0), Text(1), Text(NullLeader)}

V41 == {"PROTOCOL_41"}
Tracked == {"PROTOCOL_41", "SESSION_TRACK"}
CapSets == {{}, {"TRANSACTIONS"}, V41, {"PROTOCOL_41", "TRANSACTIONS"}, Tracked}

Change == [type : {Gtids}, data : {Text(n) : n \in {1, GtidMax - 1, GtidMax, GtidMax + 1}}]
            \cup [type : {1}, data : {Text(0), Text(2)}]
Changes == {<<>>} \cup {<<c>> : c \in Change} \cup {<<c, d>> : c, d \in Change}

Ok(rows, id, status, warnings, changes, info) ==
  [rows |-> rows, id |-> id, status |-> status, warnings |-> warnings, changes |-> changes, info |-> info]

\* The fields an OK packet is to fill in, and those of one that ends rows.
OkFields(caps, o) ==
  LET track == "SESSION_TRACK" \in caps
  IN [affected_rows |-> o.rows, last_insert_id |-> o.id,
      status_flags |-> IF "PROTOCOL_41" \in caps THEN ServerStatus(o) ELSE 0,
      warning_count |-> IF "PROTOCOL_41" \in caps THEN o.warnings ELSE 0,
      txn_status_flags |-> IF caps \cap {"PROTOCOL_41", "TRANSACTIONS"} = {"TRANSACTIONS"} THEN ServerStatus(o) ELSE 0,
      session_status |-> IF track THEN o.info ELSE <<>>,
      info |-> IF track THEN <<>> ELSE o.info,
      last_gtid |-> IF track THEN LastGtid(o.changes) ELSE <<>>]
GtidTooLong(changes) == \E i \in DOMAIN changes : changes[i].type = Gtids /\ Len(changes[i].data) > GtidMax

\* Parts of dates and times: each 0 or not.
Dates == {[i \in 1..7 |-> IF i \in used THEN i ELSE 0] : used \in SUBSET (1..7)}
Times == {[i \in 1..6 |-> IF i \in used THEN IF i = 1 THEN 1 ELSE i ELSE 0] : used \in SUBSET (1..6)}
Datum(type) ==
  CASE type \in DOMAIN Width -> {<<0>>, <<Radix - 1>>, <<IF Width[type] = 8 THEN Huge \div 2 ELSE Radix^Width[type] \div 2>>}
    [] type \in DateTypes -> Dates
    [] type = Type.TIME -> Times
    [] OTHER -> Texts
Typed == {Type[t] : t \in DOMAIN Type} \ {Type.NULL}

----------------------------------------------------------------------------
(* The server sends *)

SendOk(caps, o) ==
  /\ Send("ok", caps, 0, ServerOk(PacketOk, caps, o),
          IF "SESSION_TRACK" \in caps /\ GtidTooLong(o.changes) THEN "PROTOCOL_VIOLATION" ELSE "OK", OkFields(caps, o))
  /\ server' = IF "PROTOCOL_41" \in caps THEN ServerStatus(o) ELSE server
SendCounters ==
  /\ Idle
  /\ \E caps \in CapSets, rows \in Numbers, id \in {0, NullLeader} : SendOk(caps, Ok(rows, id, server, 1, <<>>, <<>>))
SendStatus ==
  /\ Idle
  /\ \E caps \in CapSets, mode \in Modes, info \in {<<>>, Text(2)} :
       SendOk(caps, Ok(0, 0, IF "PROTOCOL_41" \in caps THEN mode ELSE server, 0, <<>>, info))
SendSession == Idle /\ \E changes \in Changes, mode \in Modes : SendOk(Tracked, Ok(0, 0, mode, 0, changes, <<>>))

SendErr ==
  /\ Idle
  /\ \E caps \in {{}, V41}, message \in Texts :
       LET e == [code |-> Radix + 1, marker |-> 3, state |-> Text(StateLen), message |-> message]
           state == IF caps = {} THEN [i \in 1..StateLen |-> 0] ELSE e.state
       IN Send("err", caps, 0, ServerErr(caps, e), "OK",
               [error_code |-> e.code, sql_state |-> state, error_message |-> message])
  /\ UNCHANGED server
SendAuthSwitch ==
  /\ Idle
  /\ \E caps \in {{}, {"PLUGIN_AUTH"}}, n \in {0, PluginMax, PluginMax + 1}, m \in ScrambleLen..(ScrambleLen + 2) :
       Send("auth_switch", caps, 0, ServerAuthSwitch([plugin |-> Text(n), scramble |-> Text(m)]),
            CASE caps = {} -> "PROTOCOL_VIOLATION" [] caps # {} /\ n > PluginMax -> "AUTH_PLUGIN_TOO_LONG" [] OTHER -> "OK",
            [auth_plugin |-> Text(n), scramble |-> Truncated(Text(m), ScrambleLen + 1)])
  /\ UNCHANGED server
SendHandshake ==
  /\ Idle
  /\ \E flags \in SUBSET ClientCapabilities, n \in {0, VersionMax + 1}, m \in {PluginMax, PluginMax + 1} :
       LET h == [flags |-> flags, version |-> Text(n), id |-> Radix + 2, scramble |-> Text(ScrambleLen) \o <<0>>,
                 charset |-> 4, status |-> 2, plugin |-> Text(m)]
       IN Send("handshake", {}, 0, ServerHandshake(h),
               CASE flags # ClientCapabilities -> "PROTOCOL_VIOLATION"
                 [] flags = ClientCapabilities /\ m > PluginMax -> "AUTH_PLUGIN_TOO_LONG"
                 [] OTHER -> "OK",
               [server_version |-> Truncated(Text(n), VersionMax), conn_id |-> h.id, server_charset |-> h.charset,
                server_status |-> h.status, head |-> SubSeq(h.scramble, 1, HeadLen),
                tail |-> SubSeq(h.scramble, HeadLen + 1, Len(h.scramble)), auth_plugin |-> h.plugin])
  /\ UNCHANGED server

SendResult ==
  /\ Idle
  /\ \E n \in Numbers : Send("result", {}, 0, ServerLenenc(n), "OK", [column_count |-> n])
  /\ UNCHANGED server
SendStmtOk ==
  /\ Idle
  /\ LET s == [id |-> Radix^2, column_count |-> 1, parameter_count |-> Radix, warning_count |-> 2] IN
     Send("stmt_ok", {}, 0, ServerStmtOk(s), "OK", s)
  /\ UNCHANGED server
SendColumn ==
  /\ Idle
  /\ \E field_list \in BOOLEAN, name \in Texts :
       LET c == [catalog |-> Text(3), schema |-> <<>>, table |-> Text(1), original_table |-> Text(2), name |-> name,
                 original_name |-> <<4>>, charset |-> 33, len |-> Radix^2, type |-> 3, flags |-> 32, decimals |-> 1,
                 default_value |-> IF field_list THEN name ELSE <<>>]
       IN Send("column", {}, field_list, ServerColumn(c, field_list), "OK", c)
  /\ UNCHANGED server

RowCaps == {V41, {"PROTOCOL_41", "DEPRECATE_EOF"}, {"PROTOCOL_41", "DEPRECATE_EOF", "SESSION_TRACK"}}
SendRow ==
  /\ Idle
  /\ LET texts == {Null} \cup {Value(t) : t \in Texts}
         long == {Null} \cup {Value(Text(n)) : n \in {Radix^2, Radix^3}}
     IN \E values \in {<<v>> : v \in texts} \cup {<<v, w>> : v, w \in texts} \cup {<<v, Null>> : v \in long} :
          Send("row", V41, Len(values), ServerRow(values), "OK", [values |-> values])
  /\ UNCHANGED server
Binary(types, values) ==
  Send("stmt_row", V41, types, ServerStmtRow(types, values), "OK", [values |-> values])
SendStmtRow ==
  /\ Idle
  /\ \/ \E type \in Typed : \E value \in {Null} \cup {Value(d) : d \in Datum(type)} : Binary(<<type>>, <<value>>)
     \/ \E value \in {Null, Value(<<3>>)} : Binary(<<Type.TINY, Type.NULL>>, <<value, Null>>)
     \/ \E values \in [1..3 -> {Null, Value(<<3>>)}] : Binary(<<Type.TINY, Type.VARCHAR, Type.SHORT>>, values)
  /\ UNCHANGED server

\* The end of rows, of either protocol.
SendEnd ==
  /\ Idle
  /\ \E caps \in RowCaps, kind \in {"row_end", "stmt_end"}, info \in {<<>>, Text(2)}, mode \in Modes,
        changes \in {<<>>, <<[type |-> 1, data |-> <<>>]>>, <<[type |-> Gtids, data |-> Text(1)]>>} :
       LET tracked(x) == IF "SESSION_TRACK" \in caps THEN x ELSE <<>>
           o == Ok(0, 0, mode, 1, tracked(changes), tracked(info))
           arg == IF kind = "row_end" THEN 2 ELSE <<Type.LONGLONG, Type.TINY>>
       IN /\ IF "DEPRECATE_EOF" \in caps
             THEN Send(kind, caps, arg, ServerOk(PacketEof, caps, o), "EOF", OkFields(caps, o))
             ELSE Send(kind, caps, arg, ServerEof(caps, o), "EOF", [status_flags |-> mode, warning_count |-> 1])
          /\ server' = ServerStatus(o)
SendRowErr ==
  /\ Idle
  /\ \E message \in Texts :
       LET e == [code |-> Radix + 1, marker |-> 3, state |-> Text(StateLen), message |-> message] IN
       Send("row_err", V41, 2, ServerErr(V41, e), "ERR", [error_code |-> e.code, error_message |-> message])
  /\ UNCHANGED server

FromServer ==
  {"ok", "err", "auth_switch", "handshake", "result", "stmt_ok", "column",
   "row", "row_end", "row_err", "stmt_row", "stmt_end"}

----------------------------------------------------------------------------
(* Damage *)

UnderWay == phase = "wire" /\ damage = "none" /\ sent.kind \in FromServer
Damage(what, bytes) ==
  /\ damage' = what /\ packet' = bytes
  /\ UNCHANGED <<phase, sent, conn, server, got>>
Cut ==
  /\ UnderWay
  /\ \E n \in 0..(Len(packet) - 1) : (n < Near \/ n = Len(packet) - 1) /\ Damage("cut", SubSeq(packet, 1, n))
Lengthen == UnderWay /\ \E b \in {0, 1} : Damage("longer", Append(packet, b))
Alter ==
  /\ UnderWay
  /\ \E i \in DOMAIN packet, b \in {0, 1, NullLeader, Leader16, Leader64, Radix - 1} :
       i <= Near /\ packet[i] # b /\ Damage("changed", [packet EXCEPT ![i] = b])

----------------------------------------------------------------------------
(* The client parses. The parser goes by what was sent, as the receiving    *)
(* functions, whose choice by the first byte is in Conn, come to call it;   *)
(* rows and what ends them are told apart here, by their first byte and     *)
(* length. What was in the buffer before shows if the packet is empty.      *)

Parse(first) ==
  CASE sent.kind = "ok" -> ParseOk(packet, sent.caps)
    [] sent.kind = "err" -> ParseErr(packet, sent.caps)
    [] sent.kind = "auth_switch" -> ParseAuthSwitch(packet, sent.caps)
    [] sent.kind = "handshake" -> ParseHandshake(packet)
    [] sent.kind = "result" -> ParseResult(packet)
    [] sent.kind = "stmt_ok" -> ParseStmtOk(packet)
    [] sent.kind = "column" -> ParseColumn(packet, sent.arg)
    [] sent.kind \in {"row", "row_end", "row_err"} -> RowOutcome(first, packet, sent.caps, ParseRow(packet, sent.arg))
    [] sent.kind \in {"stmt_row", "stmt_end"} -> RowOutcome(first, packet, sent.caps, ParseStmtRow(packet, sent.arg))

Outcome(r) == [rc |-> r.rc, out |-> r.out, over |-> r.over]

ClientParses ==
  /\ phase = "wire" /\ sent.kind \in FromServer
  /\ phase' = "read"
  /\ \E first \in IF packet = <<>> THEN {PacketOk, PacketEof, PacketErr} ELSE {PacketOk} : got' = Outcome(Parse(first))
  /\ conn' = CASE sent.kind = "ok" -> ReadOk(conn, got', sent.caps)
               [] got'.rc = "EOF" -> KeepEof(conn, ReadEof(packet, sent.caps), sent.caps)
               [] OTHER -> conn
  /\ UNCHANGED <<sent, packet, damage, server>>

----------------------------------------------------------------------------
(* The client writes and the server reads *)

Bind(null, type, unsigned, data) == [null |-> null, type |-> type, unsigned |-> unsigned, data |-> data]
NullBind == Bind(TRUE, Type.NULL, FALSE, <<>>)
TinyBind == Bind(FALSE, Type.TINY, TRUE, <<Radix - 1>>)

Execute(binds) ==
  LET built == BuildExecute(Radix^3, 1, binds) IN
  Send("execute", {}, Len(binds), built.packet, built.rc,
       [op |-> Opcode.stmt_execute, id |-> Radix^3, flags |-> 1, iterations |-> 1,
        types |-> FlattenSeq([i \in DOMAIN binds |-> WriteType(binds[i])]),
        values |-> [i \in DOMAIN binds |-> IF binds[i].null THEN Null ELSE Value(binds[i].data)]])
ClientExecutes ==
  /\ Idle
  /\ \/ \E n \in 0..(Bits + 2) : \E binds \in [1..n -> {NullBind, TinyBind}] : Execute(binds)
     \/ \E type \in Typed : \E data \in Datum(type) : Execute(<<NullBind, Bind(FALSE, type, FALSE, data)>>)
     \/ \E type \in Typed : \E data \in Datum(type) : Execute(<<TinyBind, Bind(TRUE, type, FALSE, data), TinyBind>>)
  /\ UNCHANGED server

Command(op, bytes, fields) == Send("command", {}, 0, bytes, "OK", [op |-> Opcode[op]] @@ fields)
ClientCommands ==
  /\ Idle
  /\ \/ \E op \in {"ping", "quit"} : Command(op, BuildPlain(op), <<>>)
     \/ \E op \in {"query", "change_db", "stmt_prepare"}, text \in Texts : Command(op, BuildText(op, text), [text |-> text])
     \/ Command("set_option", BuildOption(1), [option |-> 1])
     \/ \E op \in {"stmt_reset", "stmt_close"} : Command(op, BuildStmt(op, Radix^3), [id |-> Radix^3])
     \/ \E text \in Texts :
          Command("stmt_bind_data", BuildBindData(Radix, 2, text), [id |-> Radix, param |-> 2, text |-> text])
  /\ UNCHANGED server

ClientLogsIn ==
  /\ Idle
  /\ \E user, database \in {<<>>, <<Text(2)>>}, answer \in {<<>>, Text(3)}, plugin \in {NativePlugin, Sha2Plugin, <<5>>} :
       LET flags == ClientCapabilities \cup (IF database = <<>> THEN {} ELSE {ConnectWithDb}) IN
       Send("login", {}, 0, BuildAuth({}, 7, user, answer, database, plugin), "OK",
            [caps |-> Mask(flags), max |-> MaxPacketLen, encoding |-> 7,
             user |-> IF user = <<>> THEN Root ELSE user[1], answer |-> answer,
             database |-> IF database = <<>> THEN <<>> ELSE database[1],
             plugin |-> IF answer # <<>> /\ plugin = <<5>> THEN NativePlugin ELSE plugin])
  /\ UNCHANGED server
ClientAsksForTls ==
  /\ Idle
  /\ Send("login", {}, 0, BuildSslRequest({}, 7), "OK",
          [caps |-> Mask(ClientCapabilities \cup {Ssl}), max |-> MaxPacketLen, encoding |-> 7])
  /\ UNCHANGED server

\* A string is escaped with the status the client has, after a packet or two.
Strings ==
  {<<>>} \cup {<<c>> : c \in Chars} \cup {<<c, d>> : c, d \in Chars}
    \cup {<<c, d, e>> : c, d, e \in {"quote", "backslash", "a"}}
ClientEscapes ==
  /\ \/ phase = "idle"
     \/ phase = "read" /\ damage = "none" /\ got.rc \in {"OK", "EOF"} /\ sent.kind \in {"ok", "row_end"}
  /\ \E str \in Strings :
       /\ sent' = [kind |-> "escape", caps |-> {}, arg |-> 0, rc |-> "OK", fields |-> [str |-> str]]
       /\ packet' = Escaped(str, Flag(conn.status, NoBackslashEscapes))
  /\ phase' = "wire" /\ got' = Nothing
  /\ UNCHANGED <<damage, conn, server>>

ServerReads ==
  /\ phase = "wire" /\ sent.kind \notin FromServer
  /\ phase' = "read"
  /\ got' = CASE sent.kind = "execute" /\ sent.rc = "OK" -> Outcome(ServerExecute(packet, sent.arg))
              [] sent.kind = "command" -> Outcome(ServerCommand(packet))
              [] sent.kind = "login" -> Outcome(ServerLogin(packet))
              [] OTHER -> Nothing
  /\ UNCHANGED <<sent, packet, damage, conn, server>>

Next ==
  \/ SendCounters \/ SendStatus \/ SendSession \/ SendErr \/ SendAuthSwitch \/ SendHandshake \/ SendResult
  \/ SendStmtOk \/ SendColumn \/ SendRow \/ SendStmtRow \/ SendEnd \/ SendRowErr
  \/ Cut \/ Lengthen \/ Alter \/ ClientParses
  \/ ClientExecutes \/ ClientCommands \/ ClientLogsIn \/ ClientAsksForTls \/ ClientEscapes \/ ServerReads

Spec == Init /\ [][Next]_vars

----------------------------------------------------------------------------
(* Properties *)

Agree(fields) == \A f \in fields : got.out[f] = sent.fields[f]
Fates == [row_end |-> "EOF", stmt_end |-> "EOF", row_err |-> "ERR"]
Accepted == got.rc = IF sent.kind \in DOMAIN Fates THEN Fates[sent.kind] ELSE "OK"
Ended == sent.kind \in {"row_end", "stmt_end"}

(* No parser of protocol.c touches a byte outside the packet it was given,  *)
(* whatever is in it: the CHECK of reader.c comes before every access, the  *)
(* null bitmap is as long as its last column asks for.                      *)
ReadsInside == ~got.over

(* What the server sends arrives: each parser returns what it ought to and  *)
(* fills in the fields the server wrote, lengths of every form and fields   *)
(* at their limits included. The connection keeps the latest GTID; one of   *)
(* exactly TRILOGY_MAX_LAST_GTID_LEN bytes passes the parser but is not     *)
(* kept by read_ok_packet, and the one before stays.                        *)
RoundTrip ==
  phase = "read" /\ damage = "none" /\ sent.kind \in FromServer /\ ~Ended =>
    /\ got.rc = sent.rc
    /\ Accepted => Agree(DOMAIN sent.fields)
    /\ sent.kind = "ok" /\ Accepted =>
         conn.last_gtid = IF Len(sent.fields.last_gtid) \in {0, GtidMax} THEN Earlier ELSE sent.fields.last_gtid

(* A packet that lost or gained bytes is refused, with these exceptions. A  *)
(* field that takes the rest of its packet (info, error_message, scramble)  *)
(* is shorter or longer. An OK packet cut in front of its session fields is *)
(* one without them, and one without may gain an empty one. A row whose     *)
(* first length takes eight bytes may be cut to the end of the rows. An end *)
(* of nine bytes or more may be read as a row of a statement. An empty      *)
(* packet is refused whatever packet was in the buffer before it, though    *)
(* its type is taken from there.                                            *)
RestFields == {"info", "error_message", "scramble"}
SessionFields == {"session_status", "last_gtid"}
OpenEnded ==
  IF "SESSION_TRACK" \in sent.caps THEN \A f \in SessionFields : sent.fields[f] = <<>>
  ELSE RestFields \cap DOMAIN sent.fields # {}
DamageNoticed ==
  phase = "read" /\ damage \in {"cut", "longer"} =>
    \/ got.rc \notin {"OK", "EOF", "ERR"}
    \/ packet # <<>> /\ Accepted /\ (damage = "longer" => OpenEnded) /\
         /\ Agree(DOMAIN sent.fields \ (RestFields \cup SessionFields))
         /\ \A f \in RestFields \cap DOMAIN sent.fields :
              IsPrefix(got.out[f], sent.fields[f]) \/ IsPrefix(sent.fields[f], got.out[f])
         /\ LET session == SessionFields \cap DOMAIN sent.fields IN
            Agree(session) \/ \A f \in session : got.out[f] = <<>>
    \/ sent.kind = "row" /\ damage = "cut" /\ packet # <<>> /\ packet[1] = Leader64
    \/ sent.kind = "stmt_end" /\ Len(packet) >= 9

(* Rows end exactly where the server ends them: a row is never taken for    *)
(* the end, not even one that starts with the byte 0xfe, and an end of less *)
(* than nine bytes never for a row. An end that carries session fields is   *)
(* longer: reading a text row then fails, where a row of a statement may be *)
(* made up from it (trilogy_stmt_read_row).                                 *)
RowsEnd ==
  phase = "read" /\ damage = "none" /\ sent.kind \in {"row", "row_end", "stmt_row", "stmt_end"} =>
    /\ got.rc = "EOF" <=> Ended /\ Len(packet) < 9
    /\ got.rc = "EOF" => Agree(DOMAIN sent.fields) /\ conn.status = sent.fields.status_flags
    /\ sent.kind = "row_end" => got.rc # "OK"

(* The server reads from a command or a login what the client put in: each  *)
(* bound value and each NULL, across the bytes of the bitmap, in the form   *)
(* that keeps all its parts. There are two exceptions. A TIME of days alone *)
(* is written as the empty time. The value of a bind that is NULL but has   *)
(* another type than NULL is written all the same (protocol.c:813), and a   *)
(* server does not look for it: what it reads behind is not what was bound. *)
DaysOnly(type, data) == type = Type.TIME /\ ~AnyOf(data, 3, 6)
BoundType(i) == sent.fields.types[2 * i - 1]
AsWritten ==
  [i \in DOMAIN sent.fields.values |->
     LET v == sent.fields.values[i] IN
     IF ~v.null /\ DaysOnly(BoundType(i), v.data) THEN Value([j \in 1..6 |-> 0]) ELSE v]
WrittenNulls == {i \in DOMAIN sent.fields.values : sent.fields.values[i].null /\ BoundType(i) # Type.NULL}
CommandsReadBack ==
  phase = "read" /\ sent.kind \in {"execute", "command", "login"} =>
    /\ sent.rc = "OK"
    /\ Agree(DOMAIN sent.fields \ {"values"})
    /\ (sent.kind = "execute" => WrittenNulls = {}) => got.rc = "OK"
    /\ sent.kind = "execute" =>
         IF WrittenNulls = {} THEN got.out.values = AsWritten
         ELSE IsPrefix(SubSeq(AsWritten, 1, Min(WrittenNulls)), got.out.values)

(* What the header says of a bind, that its value is NULL if it is flagged  *)
(* so (protocol.h:634), whatever its type: the server then reads what was   *)
(* bound. The code writes the value into the packet all the same, and the   *)
(* server takes it for the value of a later bind or for too long a packet.  *)
NullBindsReadBack ==
  phase = "read" /\ sent.kind = "execute" => got.rc = "OK" /\ got.out.values = AsWritten

(* Between single quotes the server reads an escaped string as it was       *)
(* before, in the mode it is in by then: the client has followed every      *)
(* status the server sent. Between double quotes so too, if the backslash   *)
(* is an escape.                                                            *)
EscapeReadsBack ==
  phase = "wire" /\ sent.kind = "escape" =>
    LET plain == Flag(server, NoBackslashEscapes) IN
    \A q \in {"quote"} \cup (IF plain THEN {} ELSE {"dquote"}) :
      Lexed(q, plain, packet) = [text |-> sent.fields.str, whole |-> TRUE]
============================================================================
