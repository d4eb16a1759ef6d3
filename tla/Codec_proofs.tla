---------------------------- MODULE Codec_proofs ----------------------------
(***************************************************************************)
(* Proofs about the codec.                                                 *)
(*                                                                         *)
(* Whatever a packet holds, no parser of it looks at a byte that is not in *)
(* it.  A reader that has not yet done so and stands inside its packet is  *)
(* called safe.  Each call of reader.c leaves a safe reader safe, and a    *)
(* parser makes nothing but such calls, one after the other or in a loop.  *)
(*                                                                         *)
(* An escaped string is one literal and reads back.  The loop of           *)
(* trilogy_escape is followed round by round: what it has written reads as *)
(* what it has gone through.  For this to be so in any state, the client   *)
(* must know the status the server is in: an OK packet and either end of   *)
(* rows read back whatever they carry (a reader that is ready stands in    *)
(* front of the bytes to come), and StatusFollows is inductive.            *)
(*                                                                         *)
(* Rows end where the server ends them: no row, of either protocol, has    *)
(* the first byte and the length of an end, and RowsFollow is inductive.   *)
(*                                                                         *)
(* Packets arrive: PacketsFollow says that the parser of the packet under  *)
(* way would return what was meant, and is inductive.                      *)
(***************************************************************************)
EXTENDS Codec, Packet_proofs

-----------------------------------------------------------------------------
(* The parsers of protocol.c, one lemma each: whatever the bytes are, the    *)
(* reader they end with is safe.                                             *)

LEMMA EofPacketGood ==
  ASSUME NEW buff \in Seq(Nat), NEW caps
  PROVE  Good(ParseEof(buff, caps), <<>>)
<1> DEFINE names == {"skip", "warning_count", "status_flags"}
           C == Calls(names)
           status == <<UInt(2, "warning_count"), UInt(2, "status_flags")>>
           calls == <<UInt(1, "skip")>> \o (IF "PROTOCOL_41" \in caps THEN status ELSE <<>>)
           r == Open(buff, [status_flags |-> 0, warning_count |-> 0])
<1>1. <<UInt(1, "skip")>> \in Seq(C) /\ status \in Seq(C)
  BY UIntCall
<1>2. calls \in Seq(C)
  <2> HIDE DEF status, names
  <2>1. QED BY <1>1, CallsFacts
<1>3. Good(r, <<>>)
  BY OpenGood
<1>4. ParseEof(buff, caps) = Finish(Fields(r, calls))
  BY DEF ParseEof
<1> HIDE DEF r, calls
<1>5. QED BY <1>2, <1>3, <1>4, FieldsGood, FinishGood

LEMMA ResultPacketGood ==
  ASSUME NEW buff \in Seq(Nat)
  PROVE  Good(ParseResult(buff), <<>>)
<1>1. Good(Read(Open(buff, <<>>), Lenenc("column_count")), <<>>)
  BY OpenGood, OtherGood
<1>2. QED BY <1>1, FinishGood DEF ParseResult

LEMMA StmtOkPacketGood ==
  ASSUME NEW buff \in Seq(Nat)
  PROVE  Good(ParseStmtOk(buff), <<>>)
<1> DEFINE names == {"skip", "id", "column_count", "parameter_count", "filler"}
           C == Calls(names)
           calls == <<UInt(1, "skip"), UInt(4, "id"), UInt(2, "column_count"), UInt(2, "parameter_count"), UInt(1, "filler")>>
           r == Fields(Open(buff, <<>>), calls)
           s == Refuse(r, "PROTOCOL_VIOLATION", LAMBDA out : out.filler # 0)
<1>1. calls \in Seq(C)
  <2>1. "skip" \in names /\ "id" \in names /\ "column_count" \in names /\ "parameter_count" \in names /\ "filler" \in names
    OBVIOUS
  <2> HIDE DEF names
  <2>2. UInt(1, "skip") \in C /\ UInt(4, "id") \in C
    BY <2>1, UIntCall
  <2>3. UInt(2, "column_count") \in C /\ UInt(2, "parameter_count") \in C /\ UInt(1, "filler") \in C
    BY <2>1, UIntCall
  <2> HIDE DEF C
  <2>4. QED BY <2>2, <2>3
<1>2. Good(r, <<>>)
  <2> HIDE DEF calls, names
  <2>1. QED BY <1>1, OpenGood, FieldsGood
<1>3. s = r \/ s = Fail(r, "PROTOCOL_VIOLATION")
  <2> HIDE DEF r
  <2>1. QED BY DEF Refuse
<1>4. ParseStmtOk(buff) = Finish(Read(s, UInt(2, "warning_count")))
  BY DEF ParseStmtOk
<1> HIDE DEF r, s
<1>5. Good(Read(s, UInt(2, "warning_count")), <<>>)
  BY <1>2, <1>3, FailGood, UIntGood
<1>6. QED BY <1>4, <1>5, FinishGood

LEMMA ColumnPacketGood ==
  ASSUME NEW buff \in Seq(Nat), NEW field_list
  PROVE  Good(ParseColumn(buff, field_list), <<>>)
<1> DEFINE names == {"catalog", "schema", "table", "original_table", "name", "original_name", "skip", "charset", "len",
                     "type", "flags", "decimals", "default_value"}
           C == Calls(names)
           texts == <<LenencBuffer("catalog"), LenencBuffer("schema"), LenencBuffer("table"),
                      LenencBuffer("original_table"), LenencBuffer("name"), LenencBuffer("original_name")>>
           fixed == <<Lenenc("skip"), UInt(2, "charset"), UInt(4, "len"), UInt(1, "type"), UInt(2, "flags"),
                      UInt(1, "decimals"), UInt(2, "skip")>>
           default == <<LenencBuffer("default_value")>>
           calls == texts \o fixed \o (IF field_list THEN default ELSE <<>>)
           r == Open(buff, [default_value |-> <<>>])
<1>1. texts \in Seq(C) /\ default \in Seq(C)
  <2>1. /\ "catalog" \in names /\ "schema" \in names /\ "table" \in names /\ "original_table" \in names
        /\ "name" \in names /\ "original_name" \in names /\ "default_value" \in names
    OBVIOUS
  <2> HIDE DEF names
  <2>2. LenencBuffer("catalog") \in C /\ LenencBuffer("schema") \in C /\ LenencBuffer("table") \in C
    BY <2>1, LenencBufferCall
  <2>3. LenencBuffer("original_table") \in C /\ LenencBuffer("name") \in C /\ LenencBuffer("original_name") \in C
    BY <2>1, LenencBufferCall
  <2>4. LenencBuffer("default_value") \in C
    BY <2>1, LenencBufferCall
  <2> HIDE DEF C
  <2>5. texts \in Seq(C)
    BY <2>2, <2>3
  <2>6. QED BY <2>4, <2>5
<1>2. fixed \in Seq(C)
  <2>1. /\ "skip" \in names /\ "charset" \in names /\ "len" \in names
        /\ "type" \in names /\ "flags" \in names /\ "decimals" \in names
    OBVIOUS
  <2> HIDE DEF names
  <2>2. Lenenc("skip") \in C /\ UInt(2, "charset") \in C /\ UInt(4, "len") \in C
    BY <2>1, UIntCall, LenencCall
  <2>3. UInt(1, "type") \in C /\ UInt(2, "flags") \in C /\ UInt(1, "decimals") \in C /\ UInt(2, "skip") \in C
    BY <2>1, UIntCall
  <2> HIDE DEF C
  <2>4. QED BY <2>2, <2>3
<1>3. calls \in Seq(C)
  <2> HIDE DEF texts, fixed, default, names
  <2>1. QED BY <1>1, <1>2, CallsFacts
<1>4. Good(r, <<>>)
  BY OpenGood
<1>5. ParseColumn(buff, field_list) = Finish(Fields(r, calls))
  BY DEF ParseColumn
<1> HIDE DEF r, calls
<1>6. QED BY <1>3, <1>4, <1>5, FieldsGood, FinishGood

LEMMA AuthSwitchPacketGood ==
  ASSUME NEW buff \in Seq(Nat), NEW caps
  PROVE  Good(ParseAuthSwitch(buff, caps), <<>>)
<1> DEFINE q == Read(Open(buff, <<>>), UInt(1, "skip"))
           r == Refuse(q, "PROTOCOL_VIOLATION", LAMBDA out : "PLUGIN_AUTH" \notin caps)
           named == Read(r, String("auth_plugin"))
           s == Refuse(named, "AUTH_PLUGIN_TOO_LONG", LAMBDA out : Len(out.auth_plugin) > PluginMax)
           t == Read(s, EofBuffer("scramble"))
           u == Store(t, "scramble", Truncated(t.out.scramble, ScrambleLen + 1))
<1>1. Good(q, <<>>)
  BY OpenGood, UIntGood
<1>2. r = q \/ r = Fail(q, "PROTOCOL_VIOLATION")
  <2> HIDE DEF q
  <2>1. QED BY DEF Refuse
<1>3. s = named \/ s = Fail(named, "AUTH_PLUGIN_TOO_LONG")
  <2> HIDE DEF named
  <2>1. QED BY DEF Refuse
<1>4. ParseAuthSwitch(buff, caps) = Then(t, LAMBDA v : Finish(Store(v, "scramble", Truncated(v.out.scramble, ScrambleLen + 1))))
  BY DEF ParseAuthSwitch
<1> HIDE DEF q, r, s
<1>5. Good(named, <<>>)
  BY <1>1, <1>2, FailGood, OtherGood
<1> HIDE DEF named
<1>6. Good(t, <<>>)
  BY <1>3, <1>5, FailGood, OtherGood
<1> HIDE DEF t
<1>7. Good(u, <<>>)
  BY <1>6, StoreGood
<1>8. ParseAuthSwitch(buff, caps) = t \/ ParseAuthSwitch(buff, caps) = Finish(u)
  BY <1>4 DEF Then
<1>9. QED BY <1>6, <1>7, <1>8, FinishGood

\* The parts of a handshake packet.
LEMMA HandshakeHeadGood ==
  ASSUME NEW r, Good(r, <<>>)
  PROVE  Good(HandshakeCapabilities(HandshakeFiller(HandshakeVersion(r))), <<>>)
<1> DEFINE names == {"server_version", "conn_id", "head", "filler"}
           calls == <<String("server_version"), UInt(4, "conn_id"), Buffer(HeadLen, "head"), UInt(1, "filler")>>
           v == HandshakeVersion(r)
           f == HandshakeFiller(v)
<1>1. Good(v, <<>>)
  <2> DEFINE q == Read(r, UInt(1, "proto_version"))
  <2>1. Good(q, <<>>)
    BY UIntGood
  <2> HIDE DEF q
  <2>2. v = q \/ v = Fail(q, "PROTOCOL_VIOLATION")
    BY DEF q, HandshakeVersion, Refuse
  <2> HIDE DEF v
  <2>3. QED BY <2>1, <2>2, FailGood
<1> HIDE DEF v
<1>2. Good(f, <<>>)
  <2> DEFINE q == Fields(v, calls)
  <2>1. HeadLen \in Nat
    BY ProtocolAssumption
  <2>2. calls \in Seq(Calls(names))
    <3> DEFINE C == Calls(names)
    <3>1. "server_version" \in names /\ "conn_id" \in names /\ "head" \in names /\ "filler" \in names
      OBVIOUS
    <3> HIDE DEF names
    <3>2. String("server_version") \in C /\ UInt(4, "conn_id") \in C
      BY <3>1, UIntCall, StringCall
    <3>3. Buffer(HeadLen, "head") \in C /\ UInt(1, "filler") \in C
      BY <2>1, <3>1, UIntCall, BufferCall
    <3> HIDE DEF C
    <3>4. calls \in Seq(C)
      BY <3>2, <3>3
    <3>5. QED BY <3>4 DEF C
  <2>3. f = q \/ f = Fail(q, "PROTOCOL_VIOLATION")
    BY DEF HandshakeFiller, Refuse
  <2> HIDE DEF calls, names
  <2>4. Good(q, <<>>)
    BY <1>1, <2>2, FieldsGood
  <2> HIDE DEF q, f
  <2>5. QED BY <2>3, <2>4, FailGood
<1> HIDE DEF f
<1>3. Good(HandshakeCapabilities(f), <<>>)
  <2> DEFINE q == Read(f, UInt(2, "lower"))
             c == HandshakeCapabilities(f)
  <2>1. Good(q, <<>>)
    BY <1>2, UIntGood
  <2>2. c = q \/ c = Fail(q, "PROTOCOL_VIOLATION")
    BY DEF HandshakeCapabilities, Refuse
  <2> HIDE DEF q, c
  <2>3. Good(c, <<>>)
    BY <2>1, <2>2, FailGood
  <2>4. QED BY <2>3 DEF c
<1>4. QED BY <1>3 DEF f, v

\* The second part of the scramble is as long as was checked.
LEMMA HandshakeScrambleGood ==
  ASSUME NEW r, Good(r, <<>>)
  PROVE  Good(HandshakeScramble(r), <<>>)
<1> DEFINE names == {"server_charset", "server_status", "upper", "auth_data_len"}
           fixed == <<UInt(1, "server_charset"), UInt(2, "server_status"), UInt(2, "upper"), UInt(1, "auth_data_len")>>
           q == Fields(r, fixed)
           s == Refuse(q, "PROTOCOL_VIOLATION", LAMBDA out : ~Plugin(out) /\ out.auth_data_len # 0)
           w == Read(s, Buffer(Reserved, "skip"))
           t == Refuse(w, "PROTOCOL_VIOLATION",
                       LAMBDA out : ~Secure(out) \/ out.auth_data_len <= HeadLen \/ out.auth_data_len # ScrambleLen + 1)
<1>1. HandshakeScramble(r) = Then(t, LAMBDA u : Read(u, Buffer(u.out.auth_data_len - HeadLen, "tail")))
  BY DEF HandshakeScramble
<1>2. t = w \/ (t = Fail(w, "PROTOCOL_VIOLATION") /\ w.rc = "OK")
  <2> HIDE DEF w
  <2>1. QED BY DEF Refuse
<1>3. t = w /\ w.rc = "OK" => w.out.auth_data_len = ScrambleLen + 1 \/ w = Fail(w, "PROTOCOL_VIOLATION")
  <2> HIDE DEF w
  <2>1. QED BY DEF Refuse
<1>4. s = q \/ s = Fail(q, "PROTOCOL_VIOLATION")
  <2> HIDE DEF q
  <2>1. QED BY DEF Refuse
<1>5. fixed \in Seq(Calls(names))
  <2> DEFINE C == Calls(names)
  <2>1. "server_charset" \in names /\ "server_status" \in names /\ "upper" \in names /\ "auth_data_len" \in names
    OBVIOUS
  <2> HIDE DEF names
  <2>2. UInt(1, "server_charset") \in C /\ UInt(2, "server_status") \in C
    BY <2>1, UIntCall
  <2>3. UInt(2, "upper") \in C /\ UInt(1, "auth_data_len") \in C
    BY <2>1, UIntCall
  <2> HIDE DEF C
  <2>4. fixed \in Seq(C)
    BY <2>2, <2>3
  <2>5. QED BY <2>4 DEF C
<1> HIDE DEF fixed, names
<1>6. Good(q, <<>>)
  BY <1>5, FieldsGood
<1> HIDE DEF q
<1>7. Good(s, <<>>)
  BY <1>4, <1>6, FailGood
<1> HIDE DEF s
<1>8. Reserved \in Nat /\ ScrambleLen + 1 - HeadLen \in Nat
  BY ProtocolAssumption
<1>9. Good(w, <<>>)
  BY <1>7, <1>8, BufferCall, ReadGood
<1> HIDE DEF w
<1>10. Good(t, <<>>)
  BY <1>2, <1>9, FailGood
<1>11. t.rc = "OK" => t.out.auth_data_len = ScrambleLen + 1
  <2>1. Fail(w, "PROTOCOL_VIOLATION").rc = "PROTOCOL_VIOLATION"
    BY <1>9, FailGood
  <2> HIDE DEF t
  <2>2. QED BY <1>2, <1>3, <2>1
<1> HIDE DEF t
<1>12. CASE t.rc = "OK"
  <2>1. HandshakeScramble(r) = Read(t, Buffer(t.out.auth_data_len - HeadLen, "tail"))
    BY <1>1, <1>12 DEF Then
  <2>2. PICK n \in Nat : n = t.out.auth_data_len - HeadLen
    <3> DEFINE a == t.out.auth_data_len
    <3>1. a = ScrambleLen + 1
      BY <1>11, <1>12
    <3> HIDE DEF a
    <3>2. a - HeadLen \in Nat
      BY <3>1, ProtocolAssumption
    <3>3. QED BY <3>2 DEF a
  <2>3. Good(Read(t, Buffer(n, "tail")), <<>>)
    BY <1>10, BufferCall, ReadGood
  <2>4. QED BY <2>1, <2>2, <2>3
<1>13. CASE t.rc # "OK"
  BY <1>1, <1>10, <1>13 DEF Then
<1>14. QED BY <1>12, <1>13

LEMMA HandshakePluginGood ==
  ASSUME NEW r, Good(r, <<>>)
  PROVE  Good(HandshakePlugin(r), <<>>)
<1> DEFINE q == Read(r, String("auth_plugin"))
<1>1. Good(q, <<>>)
  BY OtherGood
<1>2. HandshakePlugin(r) \in {r, q, Fail(q, "AUTH_PLUGIN_TOO_LONG")}
  <2> DEFINE s == Refuse(q, "AUTH_PLUGIN_TOO_LONG", LAMBDA out : Len(out.auth_plugin) > PluginMax)
  <2>1. HandshakePlugin(r) = r \/ HandshakePlugin(r) = s
    BY DEF HandshakePlugin
  <2> HIDE DEF q
  <2>2. s = q \/ s = Fail(q, "AUTH_PLUGIN_TOO_LONG")
    BY DEF Refuse
  <2> HIDE DEF s
  <2>3. QED BY <2>1, <2>2
<1> HIDE DEF q
<1>3. QED BY <1>1, <1>2, FailGood

LEMMA HandshakePacketGood ==
  ASSUME NEW buff \in Seq(Nat)
  PROVE  Good(ParseHandshake(buff), <<>>)
<1> DEFINE r == HandshakeCapabilities(HandshakeFiller(HandshakeVersion(Open(buff, <<>>))))
           s == Then(r, HandshakeScramble)
           t == Then(s, HandshakePlugin)
           u == Store(t, "server_version", Truncated(t.out.server_version, VersionMax))
<1>1. Good(r, <<>>)
  BY OpenGood, HandshakeHeadGood
<1>2. ParseHandshake(buff) =
        Then(t, LAMBDA v : Finish(Store(v, "server_version", Truncated(v.out.server_version, VersionMax))))
  BY DEF ParseHandshake
<1> HIDE DEF r
<1>3. Good(s, <<>>)
  BY <1>1, HandshakeScrambleGood DEF Then
<1> HIDE DEF s
<1>4. Good(t, <<>>)
  BY <1>3, HandshakePluginGood DEF Then
<1> HIDE DEF t
<1>5. Good(u, <<>>)
  BY <1>4, StoreGood
<1>6. ParseHandshake(buff) = t \/ ParseHandshake(buff) = Finish(u)
  BY <1>2 DEF Then
<1>7. QED BY <1>4, <1>5, <1>6, FinishGood

\* The session's state: entries with a reader each, in a packet of their own.
LEMMA KeepGtidGood ==
  ASSUME NEW s, NEW g, Good(s, <<>>), Good(g, <<>>)
  PROVE  Good(KeepGtid(s, g), <<>>)
<1>1. g.over = FALSE
  BY SafeFacts
<1>2. CASE g.rc # "OK"
  <2>1. KeepGtid(s, g) = [s EXCEPT !.rc = g.rc, !.over = @ \/ g.over]
    BY <1>2 DEF KeepGtid
  <2>2. PICK code, over : code = g.rc /\ over = g.over /\ code # "EOF"
    <3>1. g.rc # "EOF"
      BY SafeFacts
    <3>2. QED BY <3>1
  <2>3. Good([s EXCEPT !.rc = code, !.over = @ \/ over], <<>>)
    BY <1>1, <2>2, OverFailGood
  <2>4. QED BY <2>1, <2>2, <2>3
<1>3. CASE g.rc = "OK" /\ Len(g.out.last_gtid) > GtidMax
  <2>1. KeepGtid(s, g) = Fail(s, "PROTOCOL_VIOLATION")
    BY <1>3 DEF KeepGtid
  <2>2. QED BY <2>1, FailGood
<1>4. CASE g.rc = "OK" /\ ~(Len(g.out.last_gtid) > GtidMax)
  <2> DEFINE t == Store(s, "last_gtid", g.out.last_gtid)
  <2>1. KeepGtid(s, g) = [t EXCEPT !.over = @ \/ g.over]
    BY <1>4 DEF KeepGtid
  <2>2. Good(t, <<>>)
    BY StoreGood
  <2> HIDE DEF t
  <2>3. PICK over : over = g.over
    OBVIOUS
  <2>4. Good([t EXCEPT !.over = @ \/ over], <<>>)
    BY <1>1, <2>2, <2>3, OverGood
  <2>5. QED BY <2>1, <2>3, <2>4
<1>5. QED BY <1>2, <1>3, <1>4

LEMMA StateChangeGood ==
  ASSUME NEW r, Good(r, <<>>)
  PROVE  Good(StateChange(r), <<>>)
<1> DEFINE names == {"type", "state_info"}
           calls == <<UInt(1, "type"), LenencBuffer("state_info")>>
           gnames == {"skip", "last_gtid"}
           gcalls == <<UInt(1, "skip"), LenencBuffer("last_gtid")>>
           s == Fields(r, calls)
           g == Fields(Open(s.out.state_info, <<>>), gcalls)
<1>1. calls \in Seq(Calls(names)) /\ gcalls \in Seq(Calls(gnames))
  BY UIntCall, LenencBufferCall
<1>2. calls # <<>> /\ calls[Len(calls)] = LenencBuffer("state_info")
  OBVIOUS
<1>3. StateChange(r) = Then(s, LAMBDA t : IF t.out.type # Gtids THEN t ELSE KeepGtid(t, Fields(Open(t.out.state_info, <<>>), gcalls)))
  BY DEF StateChange
<1> HIDE DEF calls, gcalls, names, gnames
<1>4. Good(s, <<>>)
  BY <1>1, FieldsGood
<1>5. PICK q : Good(q, <<>>) /\ s = Read(q, LenencBuffer("state_info"))
  BY <1>1, <1>2, FieldsGood
<1> HIDE DEF s
<1>6. s.rc = "OK" => s.out["state_info"] \in Seq(Nat)
  BY <1>5, ReadLenencBuffer
<1>7. CASE s.rc = "OK"
  <2>1. Good(Open(s.out["state_info"], <<>>), <<>>)
    BY <1>6, <1>7, OpenGood
  <2>2. Good(g, <<>>)
    BY <1>1, <2>1, FieldsGood
  <2>3. StateChange(r) = s \/ StateChange(r) = KeepGtid(s, g)
    BY <1>3, <1>7 DEF Then
  <2> HIDE DEF g
  <2>4. QED BY <1>4, <2>2, <2>3, KeepGtidGood
<1>8. CASE s.rc # "OK"
  BY <1>3, <1>4, <1>8 DEF Then
<1>9. QED BY <1>7, <1>8

LEMMA StateChangesGood ==
  ASSUME NEW r, Good(r, <<>>), r.out.session_state_changes \in Seq(Nat)
  PROVE  Good(StateChanges(r), <<>>)
<1> DEFINE n == Len(r.buff)
           start == Open(r.out.session_state_changes, [last_gtid |-> r.out.last_gtid])
           f == CHOOSE g : ChangeRuns(g, start, n)
           s == f[n]
           j == Store(r, "last_gtid", s.out.last_gtid)
<1>1. n \in Nat
  BY SafeFacts
<1>2. Good(start, <<>>)
  BY OpenGood
<1>3. StateChanges(r) = Joined(r, f[n])
  BY DEF StateChanges, Rounds, ChangeRuns
<1> HIDE DEF start, n
<1>4. \E g : ChangeRuns(g, start, n)
  <2>1. PICK g : Runs(g, "changes", <<>>, start, n)
    BY <1>1, RunsExists
  <2>2. ChangeRuns(g, start, n)
    BY <2>1 DEF Runs, Round, Body, ChangeRuns
  <2>3. QED BY <2>2
<1>5. ChangeRuns(f, start, n)
  BY <1>4
<1> HIDE DEF f
<1>6. Runs(f, "changes", <<>>, start, n)
  BY <1>5 DEF Runs, Round, Body, ChangeRuns
<1>7. ASSUME NEW t, NEW i \in 1..n, Good(t, <<>>), t.rc = "OK"
      PROVE  Good(Body("changes", <<>>, t, i), <<>>)
  BY <1>7, StateChangeGood DEF Body
<1>8. \A i \in 0..n : Good(f[i], <<>>)
  BY <1>1, <1>2, <1>6, <1>7, RunsGood
<1>9. Good(s, <<>>)
  <2>1. n \in 0..n
    BY <1>1
  <2>2. QED BY <1>8, <2>1
<1>10. s.over = FALSE
  BY <1>9, SafeFacts
<1>11. Good(j, <<>>)
  BY StoreGood
<1>12. StateChanges(r) = [j EXCEPT !.rc = s.rc, !.over = @ \/ s.over]
  BY <1>3 DEF Joined
<1> HIDE DEF s, j
<1>13. PICK code, over : code = s.rc /\ over = s.over /\ code # "EOF"
  <2>1. s.rc # "EOF"
    BY <1>9, SafeFacts
  <2> HIDE DEF s
  <2>2. QED BY <2>1
<1>14. Good([j EXCEPT !.rc = code, !.over = @ \/ over], <<>>)
  BY <1>10, <1>11, <1>13, OverFailGood
<1>15. QED BY <1>12, <1>13, <1>14

LEMMA SessionStateGood ==
  ASSUME NEW r, Good(r, <<>>)
  PROVE  Good(SessionState(r), <<>>)
<1> DEFINE s == Read(r, LenencBuffer("session_status"))
           t == Read(s, LenencBuffer("session_state_changes"))
<1>1. Good(s, <<>>)
  BY OtherGood
<1>2. SessionState(r) \in {s, Then(t, StateChanges)}
  BY DEF SessionState, Then
<1> HIDE DEF s
<1>3. Good(t, <<>>)
  BY <1>1, OtherGood
<1>4. t.rc = "OK" => t.out["session_state_changes"] \in Seq(Nat)
  BY <1>1, ReadLenencBuffer
<1> HIDE DEF t
<1>5. Good(Then(t, StateChanges), <<>>)
  BY <1>3, <1>4, StateChangesGood DEF Then
<1>6. QED BY <1>1, <1>2, <1>5

LEMMA OkPacketGood ==
  ASSUME NEW buff \in Seq(Nat), NEW caps
  PROVE  Good(ParseOk(buff, caps), <<>>)
<1> DEFINE names == {"skip", "affected_rows", "last_insert_id", "status_flags", "warning_count", "txn_status_flags"}
           counters == <<UInt(1, "skip"), Lenenc("affected_rows"), Lenenc("last_insert_id")>>
           new == <<UInt(2, "status_flags"), UInt(2, "warning_count")>>
           old == <<UInt(2, "txn_status_flags")>>
           status == CASE "PROTOCOL_41" \in caps -> new
                       [] caps \cap {"PROTOCOL_41", "TRANSACTIONS"} = {"TRANSACTIONS"} -> old
                       [] OTHER -> <<>>
           r == Fields(Open(buff, OkDefaults), counters \o status)
           s == Finish(SessionState(r))
           t == Finish(Read(r, EofBuffer("info")))
<1>1. counters \in Seq(Calls(names)) /\ new \in Seq(Calls(names)) /\ old \in Seq(Calls(names))
  <2> DEFINE C == Calls(names)
  <2>1. /\ "skip" \in names /\ "affected_rows" \in names /\ "last_insert_id" \in names
        /\ "status_flags" \in names /\ "warning_count" \in names /\ "txn_status_flags" \in names
    OBVIOUS
  <2> HIDE DEF names
  <2>2. UInt(1, "skip") \in C /\ Lenenc("affected_rows") \in C /\ Lenenc("last_insert_id") \in C
    BY <2>1, UIntCall, LenencCall
  <2>3. UInt(2, "status_flags") \in C /\ UInt(2, "warning_count") \in C /\ UInt(2, "txn_status_flags") \in C
    BY <2>1, UIntCall
  <2> HIDE DEF C
  <2>4. counters \in Seq(C) /\ new \in Seq(C) /\ old \in Seq(C)
    BY <2>2, <2>3
  <2>5. QED BY <2>4 DEF C
<1>2. ParseOk(buff, caps) =
        Then(r, LAMBDA q : Finish(IF "SESSION_TRACK" \in caps /\ ~Eof(q) THEN SessionState(q) ELSE Read(q, EofBuffer("info"))))
  BY DEF ParseOk
<1>3. counters \o status \in Seq(Calls(names))
  <2> HIDE DEF counters, new, old, names
  <2>1. status \in {new, old, <<>>}
    BY DEF status
  <2> HIDE DEF status
  <2>2. QED BY <1>1, <2>1, CallsFacts
<1> HIDE DEF counters, status, names
<1>4. Good(r, <<>>)
  BY <1>3, OpenGood, FieldsGood
<1>5. ParseOk(buff, caps) \in {r, s, t}
  BY <1>2 DEF Then
<1> HIDE DEF r
<1>6. Good(s, <<>>) /\ Good(t, <<>>)
  BY <1>4, SessionStateGood, OtherGood, FinishGood
<1>7. QED BY <1>4, <1>5, <1>6

LEMMA AddGood ==
  ASSUME NEW r, NEW b, NEW value, Good(r, b)
  PROVE  Good(Add(r, value), b)
  BY StoreGood DEF Add

\* A row of the text protocol.
LEMMA TextValueGood ==
  ASSUME NEW r, Good(r, <<>>)
  PROVE  Good(TextValue(r), <<>>)
<1> DEFINE s == GetLenencBuffer(r)
           t == Fail(s, "OK")
<1>1. Good(s, <<>>)
  BY LenencBufferGood
<1>2. TextValue(r) \in {Add(s, Value(s.val)), Add(t, Null), s}
  <2> HIDE DEF s
  <2>1. TextValue(r) = TextField(s)
    BY DEF TextValue, s
  <2>2. QED BY <2>1 DEF TextField, Fail
<1> HIDE DEF s
<1>3. Good(t, <<>>)
  BY <1>1, FailGood
<1> HIDE DEF t
<1>4. QED BY <1>1, <1>2, <1>3, AddGood

LEMMA RowPacketGood ==
  ASSUME NEW buff \in Seq(Nat), NEW column_count \in Nat
  PROVE  Good(ParseRow(buff, column_count), <<>>)
<1> DEFINE n == column_count
           start == Open(buff, [values |-> <<>>])
           f == CHOOSE g : RowRuns(g, start, n)
<1>1. Good(start, <<>>)
  BY OpenGood
<1>2. ParseRow(buff, column_count) = Finish(f[n])
  BY DEF ParseRow, Rounds, RowRuns
<1> HIDE DEF start
<1>3. \E g : RowRuns(g, start, n)
  <2>1. PICK g : Runs(g, "row", <<>>, start, n)
    BY RunsExists
  <2>2. RowRuns(g, start, n)
    BY <2>1 DEF Runs, Round, Body, RowRuns
  <2>3. QED BY <2>2
<1>4. RowRuns(f, start, n)
  BY <1>3
<1> HIDE DEF f
<1>5. Runs(f, "row", <<>>, start, n)
  BY <1>4 DEF Runs, Round, Body, RowRuns
<1>6. ASSUME NEW t, NEW i \in 1..n, Good(t, <<>>), t.rc = "OK"
      PROVE  Good(Body("row", <<>>, t, i), <<>>)
  BY <1>6, TextValueGood DEF Body
<1>7. \A i \in 0..n : Good(f[i], <<>>)
  BY <1>1, <1>5, <1>6, RunsGood
<1>8. Good(f[n], <<>>)
  BY <1>7
<1>9. QED BY <1>2, <1>8, FinishGood

-----------------------------------------------------------------------------
(* Rows of the binary protocol.                                              *)

\* A date or a time.
PartRuns(f, widths, r, n) ==
  f = [i \in 0..n |->
        IF i = 0 THEN r
        ELSE LET s == f[i - 1]
             IN IF s.rc = "OK"
                THEN Store(GetInt(s, widths[i]), "parts", [GetInt(s, widths[i]).out.parts EXCEPT ![i] = GetInt(s, widths[i]).val])
                ELSE s]

LEMMA StoreTemporalGood ==
  ASSUME NEW r, NEW b, NEW widths, NEW parts, Good(r, b), parts[r.val] \in Nat,
         \A i \in 1..parts[r.val] : widths[i] \in Nat
  PROVE  Good(StoreTemporal(r, widths, parts), b)
<1> DEFINE n == parts[r.val]
           start == Store(r, "parts", [i \in 1..Len(widths) |-> 0])
           f == CHOOSE g : PartRuns(g, widths, start, n)
           s == f[n]
<1>1. n \in Nat /\ \A i \in 1..n : widths[i] \in Nat
  OBVIOUS
<1>2. Good(start, b)
  BY StoreGood
<1>3. StoreTemporal(r, widths, parts) = Then(s, LAMBDA t : [t EXCEPT !.val = t.out.parts])
  BY DEF StoreTemporal, Rounds, PartRuns
<1> HIDE DEF start, n
<1>4. \E g : PartRuns(g, widths, start, n)
  <2>1. PICK g : Runs(g, "parts", widths, start, n)
    BY <1>1, RunsExists
  <2>2. PartRuns(g, widths, start, n)
    BY <2>1 DEF Runs, Round, Body, PartRuns
  <2>3. QED BY <2>2
<1>5. PartRuns(f, widths, start, n)
  BY <1>4
<1> HIDE DEF f
<1>6. Runs(f, "parts", widths, start, n)
  BY <1>5 DEF Runs, Round, Body, PartRuns
<1>7. ASSUME NEW t, NEW i \in 1..n, Good(t, b), t.rc = "OK"
      PROVE  Good(Body("parts", widths, t, i), b)
  <2> DEFINE u == GetInt(t, widths[i])
  <2>1. Good(u, b)
    BY <1>1, <1>7, IntGood
  <2>2. Body("parts", widths, t, i) = Store(u, "parts", [u.out.parts EXCEPT ![i] = u.val])
    BY DEF Body
  <2> HIDE DEF u
  <2>3. QED BY <2>1, <2>2, StoreGood
<1>8. \A i \in 0..n : Good(f[i], b)
  BY <1>1, <1>2, <1>6, <1>7, RunsGood
<1>9. Good(s, b)
  <2>1. n \in 0..n
    BY <1>1
  <2>2. QED BY <1>8, <2>1
<1> HIDE DEF s
<1>10. Good([s EXCEPT !.val = s.out.parts], b)
  BY <1>9, ValGood
<1>11. StoreTemporal(r, widths, parts) = s \/ StoreTemporal(r, widths, parts) = [s EXCEPT !.val = s.out.parts]
  BY <1>3 DEF Then
<1>12. QED BY <1>9, <1>10, <1>11

\* There is a width for each part a length stands for.
Measured(widths, parts) ==
  \A v \in DOMAIN parts : parts[v] \in Nat /\ \A i \in 1..parts[v] : widths[i] \in Nat

LEMMA TemporalGood ==
  ASSUME NEW r, NEW b, NEW widths, NEW parts, Good(r, b), Measured(widths, parts)
  PROVE  Good(Temporal(r, widths, parts), b)
<1> DEFINE s == GetInt(r, 1)
<1>1. Good(s, b)
  BY IntGood
<1>2. /\ Temporal(r, widths, parts) \in {s, StoreTemporal(s, widths, parts), Fail(s, "PROTOCOL_VIOLATION")}
      /\ Temporal(r, widths, parts) = StoreTemporal(s, widths, parts) =>
           \/ s.val \in DOMAIN parts
           \/ Temporal(r, widths, parts) = s
           \/ Temporal(r, widths, parts) = Fail(s, "PROTOCOL_VIOLATION")
  BY DEF Temporal, Then
<1> HIDE DEF s
<1>3. CASE s.val \in DOMAIN parts
  <2>1. Good(StoreTemporal(s, widths, parts), b)
    BY <1>1, <1>3, StoreTemporalGood DEF Measured
  <2>2. QED BY <1>1, <1>2, <2>1, FailGood
<1>4. CASE s.val \notin DOMAIN parts
  BY <1>1, <1>2, <1>4, FailGood
<1>5. QED BY <1>3, <1>4

LEMMA MeasuredFacts == Measured(DateWidths, DateParts) /\ Measured(TimeWidths, TimeParts)
<1>1. Measured(DateWidths, DateParts)
  <2>1. DOMAIN DateParts = {0, 4, 7, 11}
    BY DEF DateParts
  <2>2. DateParts[0] = 0 /\ DateParts[4] = 3 /\ DateParts[7] = 6 /\ DateParts[11] = 7
    BY DEF DateParts
  <2>3. \A i \in 1..7 : DateWidths[i] \in Nat
    BY DEF DateWidths
  <2>4. QED BY <2>1, <2>2, <2>3 DEF Measured
<1>2. Measured(TimeWidths, TimeParts)
  <2>1. DOMAIN TimeParts = {0, 8, 12}
    BY DEF TimeParts
  <2>2. TimeParts[0] = 0 /\ TimeParts[8] = 5 /\ TimeParts[12] = 6
    BY DEF TimeParts
  <2>3. \A i \in 1..6 : TimeWidths[i] \in Nat
    BY DEF TimeWidths
  <2>4. QED BY <2>1, <2>2, <2>3 DEF Measured
<1>3. QED BY <1>1, <1>2

LEMMA BinaryValueGood ==
  ASSUME NEW r, NEW b, NEW type, Good(r, b)
  PROVE  Good(BinaryValue(r, type), b)
<1>1. CASE type \in StringTypes
  <2>1. BinaryValue(r, type) = GetLenencBuffer(r)
    BY <1>1, TypeFacts DEF BinaryValue
  <2>2. QED BY <2>1, LenencBufferGood
<1>2. CASE type \in DOMAIN Width
  <2> DEFINE s == GetInt(r, Width[type])
  <2>1. BinaryValue(r, type) = Then(s, LAMBDA t : [t EXCEPT !.val = <<t.val>>])
    BY <1>2, TypeFacts DEF BinaryValue
  <2>2. Good(s, b)
    BY <1>2, WidthFacts, IntGood
  <2> HIDE DEF s
  <2>3. Good([s EXCEPT !.val = <<s.val>>], b)
    BY <2>2, ValGood
  <2>4. QED BY <2>1, <2>2, <2>3 DEF Then
<1>3. CASE type \in DateTypes
  <2>1. BinaryValue(r, type) = Temporal(r, DateWidths, DateParts)
    BY <1>3, TypeFacts DEF BinaryValue
  <2>2. QED BY <2>1, MeasuredFacts, TemporalGood
<1>4. CASE type = Type.TIME
  <2> DEFINE s == Temporal(r, TimeWidths, TimeParts)
             value == Signed(s.val)
  <2>1. BinaryValue(r, type) = Then(s, LAMBDA t : [t EXCEPT !.val = Signed(t.val)])
    BY <1>4, TypeFacts DEF BinaryValue
  <2>2. Good(s, b)
    BY MeasuredFacts, TemporalGood
  <2> HIDE DEF s
  <2>3. BinaryValue(r, type) = s \/ BinaryValue(r, type) = [s EXCEPT !.val = value]
    BY <2>1 DEF Then
  <2>4. QED BY <2>2, <2>3, ValGood
<1>5. CASE type \notin StringTypes \cup DOMAIN Width \cup DateTypes \cup {Type.TIME}
  <2>1. BinaryValue(r, type) = Fail(r, "UNKNOWN_TYPE")
    BY <1>5 DEF BinaryValue
  <2>2. QED BY <2>1, FailGood
<1>6. QED BY <1>1, <1>2, <1>3, <1>4, <1>5

\* The bitmap has a byte for the bit of every column.
LEMMA BitmapFacts ==
  ASSUME NEW columns \in Nat
  PROVE  /\ BitmapLen(columns) \in Nat /\ BitmapLen(columns) > 0
         /\ \A i \in 1..columns : (i + 1) \div Bits < BitmapLen(columns)
<1>1. CASE Bits = 4 BY <1>1 DEF BitmapLen
<1>2. CASE Bits = 5 BY <1>2 DEF BitmapLen
<1>3. CASE Bits = 6 BY <1>3 DEF BitmapLen
<1>4. CASE Bits = 7 BY <1>4 DEF BitmapLen
<1>5. CASE Bits = 8 BY <1>5 DEF BitmapLen
<1>6. QED BY ReaderAssumption, <1>1, <1>2, <1>3, <1>4, <1>5

LEMMA IsNullInside ==
  ASSUME NEW columns \in Nat, NEW i \in 1..columns, NEW b \in Seq(Nat), Len(b) = BitmapLen(columns)
  PROVE  IsNull(b, i - 1).over = FALSE /\ IsNull(b, i - 1).rc # "EOF"
<1>1. (i + 1) \div Bits < Len(b)
  BY BitmapFacts
<1>2. PICK j : j = i - 1 /\ j + 2 = i + 1
  OBVIOUS
<1>3. PICK at : at = (j + 2) \div Bits /\ (at >= Len(b)) = FALSE
  <2>1. (i + 1) \div Bits \in Int /\ Len(b) \in Int
    BY ReaderAssumption
  <2>2. QED BY <1>1, <1>2, <2>1
<1>4. CASE j > Len(b) * Bits - 1
  BY <1>2, <1>4 DEF IsNull
<1>5. CASE ~(j > Len(b) * Bits - 1)
  <2>1. IsNull(b, j).over = ((j + 2) \div Bits >= Len(b)) /\ IsNull(b, j).rc = "OK"
    BY <1>5 DEF IsNull
  <2>2. QED BY <1>2, <1>3, <2>1
<1>6. QED BY <1>4, <1>5

\* One column: what its bit says is inside the bitmap.
LEMMA StmtColumnGood ==
  ASSUME NEW columns \in Nat, NEW i \in 1..columns, NEW b \in Seq(Nat), Len(b) = BitmapLen(columns),
         NEW r, NEW type, Good(r, b)
  PROVE  Good(StmtColumn(r, type, i), b)
<1>1. b # <<>>
  BY BitmapFacts
<1>2. r.out.bitmap = b
  BY <1>1 DEF Good, Keeps
<1> DEFINE n == IsNull(b, i - 1)
           q == [r EXCEPT !.over = @ \/ n.over]
           s == BinaryValue(q, type)
<1>3. n.over = FALSE /\ n.rc # "EOF"
  BY IsNullInside
<1>4. /\ n.rc # "OK" => StmtColumn(r, type, i) = Fail(r, n.rc)
      /\ n.rc = "OK" /\ n.null => StmtColumn(r, type, i) = Add(r, Null)
      /\ n.rc = "OK" /\ ~n.null => StmtColumn(r, type, i) = Then(s, LAMBDA t : Add(t, Value(t.val)))
  BY <1>2 DEF StmtColumn
<1> HIDE DEF n
<1>5. Good(q, b)
  <2>1. PICK over : over = n.over
    OBVIOUS
  <2>2. Good([r EXCEPT !.over = @ \/ over], b)
    BY <1>3, <2>1, OverGood
  <2>3. QED BY <2>1, <2>2
<1> HIDE DEF q
<1>6. Good(s, b)
  BY <1>5, BinaryValueGood
<1> HIDE DEF s
<1>7. Good(Then(s, LAMBDA t : Add(t, Value(t.val))), b)
  BY <1>6, AddGood DEF Then
<1>8. Good(Fail(r, n.rc), b) /\ Good(Add(r, Null), b)
  <2>1. PICK code : code = n.rc /\ code # "EOF"
    BY <1>3
  <2>2. QED BY <2>1, FailGood, AddGood
<1>9. QED BY <1>4, <1>7, <1>8

StmtRuns(f, types, r, n) ==
  f = [i \in 0..n |-> IF i = 0 THEN r ELSE LET s == f[i - 1] IN IF s.rc = "OK" THEN StmtColumn(s, types[i], i) ELSE s]

LEMMA StmtRowPacketGood ==
  ASSUME NEW buff \in Seq(Nat), NEW S, NEW types \in Seq(S)
  PROVE  Good(ParseStmtRow(buff, types), <<>>)
<1> DEFINE n == Len(types)
           len == BitmapLen(n)
           names == {"skip", "bitmap"}
           calls == <<UInt(1, "skip"), Buffer(len, "bitmap")>>
           r == Fields(Open(buff, [values |-> <<>>]), calls)
           f == CHOOSE g : StmtRuns(g, types, r, n)
<1>1. n \in Nat
  OBVIOUS
<1>2. ParseStmtRow(buff, types) = Finish(f[n])
  BY DEF ParseStmtRow, Rounds, StmtRuns
<1> HIDE DEF n
<1>3. len \in Nat
  BY <1>1, BitmapFacts
<1> HIDE DEF len
<1>4. calls \in Seq(Calls(names))
  BY <1>3, UIntCall, BufferCall
<1>5. calls # <<>> /\ calls[Len(calls)] = Buffer(len, "bitmap")
  OBVIOUS
<1> HIDE DEF calls, names
<1>6. Good(Open(buff, [values |-> <<>>]), <<>>)
  BY OpenGood
<1>7. Good(r, <<>>)
  BY <1>4, <1>6, FieldsGood
<1>8. PICK q : Good(q, <<>>) /\ r = Read(q, Buffer(len, "bitmap"))
  BY <1>4, <1>5, <1>6, FieldsGood
<1> HIDE DEF r
<1>9. \E g : StmtRuns(g, types, r, n)
  <2>1. PICK g : Runs(g, "stmt_row", types, r, n)
    BY <1>1, RunsExists
  <2>2. StmtRuns(g, types, r, n)
    BY <2>1 DEF Runs, Round, Body, StmtRuns
  <2>3. QED BY <2>2
<1>10. StmtRuns(f, types, r, n)
  BY <1>9
<1> HIDE DEF f
<1>11. Runs(f, "stmt_row", types, r, n)
  BY <1>10 DEF Runs, Round, Body, StmtRuns
<1>12. CASE r.rc = "OK"
  <2>1. /\ "bitmap" \in DOMAIN r.out /\ r.out["bitmap"] \in Seq(Nat)
        /\ Len(r.out["bitmap"]) = len
    BY <1>3, <1>8, <1>12, ReadBuffer
  <2>2. PICK b \in Seq(Nat) : b = r.out["bitmap"] /\ Len(b) = len
    BY <2>1
  <2>3. Good(r, b)
    BY <1>7, <2>1, <2>2 DEF Good, Keeps
  <2>4. ASSUME NEW t, NEW i \in 1..n, Good(t, b), t.rc = "OK"
        PROVE  Good(Body("stmt_row", types, t, i), b)
    BY <1>1, <2>2, <2>4, StmtColumnGood DEF Body, len
  <2>5. \A i \in 0..n : Good(f[i], b)
    BY <1>1, <1>11, <2>3, <2>4, RunsGood
  <2>6. n \in 0..n
    BY <1>1
  <2>7. Good(Finish(f[n]), b)
    BY <2>5, <2>6, FinishGood
  <2>8. QED BY <1>2, <2>7 DEF Good, Keeps
<1>13. CASE r.rc # "OK"
  <2>1. f[n] = r
    BY <1>1, <1>11, <1>13, RunsFailed
  <2>2. QED BY <1>2, <1>7, <2>1, FinishGood
<1>14. QED BY <1>12, <1>13

-----------------------------------------------------------------------------
(* What the client makes of a packet.                                        *)

LEMMA ReadEofGood ==
  ASSUME NEW buff \in Seq(Nat), NEW caps
  PROVE  Good(ReadEof(buff, caps), <<>>)
  BY OkPacketGood, EofPacketGood DEF ReadEof

LEMMA RowOutcomeGood ==
  ASSUME NEW first, NEW buff \in Seq(Nat), NEW caps, NEW row, Good(row, <<>>)
  PROVE  LET s == RowOutcome(first, buff, caps, row)
         IN s.over = FALSE /\ (s.rc = "EOF" => EndsRows(PacketType(first, buff), Len(buff)))
<1> DEFINE type == PacketType(first, buff)
           ended == EndsRows(type, Len(buff))
           eof == ReadEof(buff, caps)
           err == ParseErr(buff, caps)
           s == RowOutcome(first, buff, caps, row)
<1>1. Good(eof, <<>>) /\ Good(err, <<>>)
  BY ReadEofGood, ErrPacketGood
<1>2. /\ ended => s = Then(eof, LAMBDA r : [r EXCEPT !.rc = "EOF"])
      /\ ~ended /\ type = PacketErr => s = Then(err, LAMBDA r : [r EXCEPT !.rc = "ERR"])
      /\ ~ended /\ type # PacketErr => s = row
  BY DEF RowOutcome
<1> HIDE DEF ended, type, eof, err, s
<1>3. CASE ended
  <2>1. s = eof \/ s = [eof EXCEPT !.rc = "EOF"]
    BY <1>2, <1>3 DEF Then
  <2>2. eof.over = FALSE /\ [eof EXCEPT !.rc = "EOF"].over = FALSE
    BY <1>1 DEF Good, Safe, Parts
  <2>3. QED BY <1>3, <2>1, <2>2 DEF s, ended, type
<1>4. CASE ~ended /\ type = PacketErr
  <2>1. s = err \/ s = Fail(err, "ERR")
    BY <1>2, <1>4 DEF Then, Fail
  <2>2. PICK code : code = "ERR" /\ code # "EOF"
    OBVIOUS
  <2>3. Good(err, <<>>) /\ Good(Fail(err, code), <<>>)
    BY <1>1, <2>2, FailGood
  <2>4. s.over = FALSE /\ s.rc # "EOF"
    BY <2>1, <2>2, <2>3, SafeFacts
  <2>5. QED BY <2>4 DEF s
<1>5. CASE ~ended /\ type # PacketErr
  <2>1. s.over = FALSE /\ s.rc # "EOF"
    BY <1>2, <1>5, SafeFacts
  <2>2. QED BY <2>1 DEF s
<1>6. QED BY <1>3, <1>4, <1>5

(* No parser of protocol.c looks outside the packet it is given: not for any *)
(* bytes in it, any capabilities of the connection, any number of columns or *)
(* any types of them. Each access in reader.c comes behind its CHECK, a      *)
(* length-encoded length is compared with what is left before it is added to *)
(* the position, the rest of the scramble is as long as was checked, entries *)
(* of the session's state stay inside the state, and the null bitmap has a   *)
(* byte for the bit of each column.                                          *)
THEOREM ParsersReadInside ==
  ASSUME NEW buff \in Seq(Nat), NEW caps, NEW field_list, NEW column_count \in Nat, NEW S, NEW types \in Seq(S)
  PROVE  /\ ~ParseOk(buff, caps).over /\ ~ParseEof(buff, caps).over /\ ~ParseErr(buff, caps).over
         /\ ~ParseAuthSwitch(buff, caps).over /\ ~ParseHandshake(buff).over
         /\ ~ParseResult(buff).over /\ ~ParseStmtOk(buff).over /\ ~ParseColumn(buff, field_list).over
         /\ ~ParseRow(buff, column_count).over /\ ~ParseStmtRow(buff, types).over
<1>1. /\ ParseOk(buff, caps).over = FALSE /\ ParseEof(buff, caps).over = FALSE /\ ParseErr(buff, caps).over = FALSE
      /\ ParseAuthSwitch(buff, caps).over = FALSE /\ ParseHandshake(buff).over = FALSE
  BY OkPacketGood, EofPacketGood, ErrPacketGood, AuthSwitchPacketGood, HandshakePacketGood, SafeFacts
<1>2. ParseResult(buff).over = FALSE /\ ParseStmtOk(buff).over = FALSE /\ ParseColumn(buff, field_list).over = FALSE
  BY ResultPacketGood, StmtOkPacketGood, ColumnPacketGood, SafeFacts
<1>3. ParseRow(buff, column_count).over = FALSE /\ ParseStmtRow(buff, types).over = FALSE
  BY RowPacketGood, StmtRowPacketGood, SafeFacts
<1>4. QED BY <1>1, <1>2, <1>3

\* What the client has been told before it reads rows: how many columns there
\* are, or the types of a statement's columns.
Told ==
  /\ sent.kind \in {"row", "row_end", "row_err"} => sent.arg \in Nat
  /\ sent.kind \in {"stmt_row", "stmt_end"} => \E S : sent.arg \in Seq(S)

(* ReadsInside holds after the client has read a packet of the server,       *)
(* whatever bytes have come over the wire and whatever packet was in its     *)
(* buffer before.                                                            *)
THEOREM ClientReadsInside ==
  ASSUME packet \in Seq(Nat), Told, ClientParses
  PROVE  ReadsInside'
<1>1. PICK first : got' = Outcome(Parse(first))
  BY DEF ClientParses
<1>2. sent.kind \in FromServer
  BY DEF ClientParses
<1>3. Parse(first).over = FALSE
  <2>1. CASE sent.kind = "ok"
    <3>1. Parse(first) = ParseOk(packet, sent.caps) BY <2>1 DEF Parse
    <3>2. QED BY <3>1, OkPacketGood, SafeFacts
  <2>2. CASE sent.kind = "err"
    <3>1. Parse(first) = ParseErr(packet, sent.caps) BY <2>2 DEF Parse
    <3>2. QED BY <3>1, ErrPacketGood, SafeFacts
  <2>3. CASE sent.kind = "auth_switch"
    <3>1. Parse(first) = ParseAuthSwitch(packet, sent.caps) BY <2>3 DEF Parse
    <3>2. QED BY <3>1, AuthSwitchPacketGood, SafeFacts
  <2>4. CASE sent.kind = "handshake"
    <3>1. Parse(first) = ParseHandshake(packet) BY <2>4 DEF Parse
    <3>2. QED BY <3>1, HandshakePacketGood, SafeFacts
  <2>5. CASE sent.kind = "result"
    <3>1. Parse(first) = ParseResult(packet) BY <2>5 DEF Parse
    <3>2. QED BY <3>1, ResultPacketGood, SafeFacts
  <2>6. CASE sent.kind = "stmt_ok"
    <3>1. Parse(first) = ParseStmtOk(packet) BY <2>6 DEF Parse
    <3>2. QED BY <3>1, StmtOkPacketGood, SafeFacts
  <2>7. CASE sent.kind = "column"
    <3>1. Parse(first) = ParseColumn(packet, sent.arg) BY <2>7 DEF Parse
    <3>2. QED BY <3>1, ColumnPacketGood, SafeFacts
  <2>8. CASE sent.kind \in {"row", "row_end", "row_err"}
    <3>1. Parse(first) = RowOutcome(first, packet, sent.caps, ParseRow(packet, sent.arg)) BY <2>8 DEF Parse
    <3>2. Good(ParseRow(packet, sent.arg), <<>>) BY <2>8, RowPacketGood DEF Told
    <3>3. QED BY <3>1, <3>2, RowOutcomeGood
  <2>9. CASE sent.kind \in {"stmt_row", "stmt_end"}
    <3>1. Parse(first) = RowOutcome(first, packet, sent.caps, ParseStmtRow(packet, sent.arg)) BY <2>9 DEF Parse
    <3>2. PICK S : sent.arg \in Seq(S) BY <2>9 DEF Told
    <3>3. Good(ParseStmtRow(packet, sent.arg), <<>>) BY <3>2, StmtRowPacketGood
    <3>4. QED BY <3>1, <3>3, RowOutcomeGood
  <2>10. QED BY <1>2, <2>1, <2>2, <2>3, <2>4, <2>5, <2>6, <2>7, <2>8, <2>9 DEF FromServer
<1>4. got'.over = FALSE
  BY <1>1, <1>3 DEF Outcome
<1>5. QED BY <1>4 DEF ReadsInside

-----------------------------------------------------------------------------
(* Between quotes.                                                           *)

\* f has the states in which the server is behind each character of b.
Lexing(f, q, plain, b) ==
  /\ f[0] = [text |-> <<>>, after |-> "none", ended |-> FALSE, broken |-> FALSE]
  /\ \A k \in 0..(Len(b) - 1) : f[k + 1] = LexChar(q, plain, f[k], b[k + 1])

\* Behind b it has read the text t, and is between two characters of it.
Reading(t) == [text |-> t, after |-> "none", ended |-> FALSE, broken |-> FALSE]

ReadsAs(q, plain, b, t) == \A f : Lexing(f, q, plain, b) => f[Len(b)] = Reading(t)

\* Which characters are written for themselves, and between which quotes.
Special(plain) == IF plain THEN {"quote"} ELSE DOMAIN Lookup

Quotes(plain) == {"quote"} \cup (IF plain THEN {} ELSE {"dquote"})

LEMMA LookupFacts ==
  /\ DOMAIN Lookup = {"quote", "dquote", "NUL", "LF", "CR", "SUB", "backslash"}
  /\ \A c \in DOMAIN Lookup : Lookup[c] \in Chars /\ Meaning(Lookup[c]) = c
<1>1. DOMAIN Lookup = {"quote", "dquote", "NUL", "LF", "CR", "SUB", "backslash"}
  BY DEF Lookup, LookupNoBackslash
<1>2. /\ Lookup["quote"] = "quote" /\ Lookup["dquote"] = "dquote" /\ Lookup["NUL"] = "0" /\ Lookup["LF"] = "n"
      /\ Lookup["CR"] = "r" /\ Lookup["SUB"] = "Z" /\ Lookup["backslash"] = "backslash"
  BY DEF Lookup, LookupNoBackslash
<1>3. /\ Meaning("quote") = "quote" /\ Meaning("dquote") = "dquote" /\ Meaning("0") = "NUL" /\ Meaning("n") = "LF"
      /\ Meaning("r") = "CR" /\ Meaning("Z") = "SUB" /\ Meaning("backslash") = "backslash"
  BY DEF Meaning
<1>4. QED BY <1>1, <1>2, <1>3 DEF Chars

\* What has been read of the beginning of a string.
LEMMA LexingPrefix ==
  ASSUME NEW f, NEW q, NEW plain, NEW b \in Seq(Chars), NEW d \in Seq(Chars), Lexing(f, q, plain, b \o d)
  PROVE  /\ Lexing(f, q, plain, b)
         /\ \A k \in 0..(Len(d) - 1) : f[Len(b) + k + 1] = LexChar(q, plain, f[Len(b) + k], d[k + 1])
<1>1. Len(b) \in Nat /\ Len(d) \in Nat /\ Len(b \o d) = Len(b) + Len(d)
  OBVIOUS
<1>2. /\ \A j \in 1..Len(b) : (b \o d)[j] = b[j]
      /\ \A j \in 1..Len(d) : (b \o d)[Len(b) + j] = d[j]
  BY Concat DEF Spliced
<1>3. ASSUME NEW k \in 0..(Len(b) - 1) PROVE f[k + 1] = LexChar(q, plain, f[k], b[k + 1])
  <2>1. k \in 0..(Len(b \o d) - 1) /\ k + 1 \in 1..Len(b)
    BY <1>1
  <2>2. QED BY <1>2, <2>1 DEF Lexing
<1>4. ASSUME NEW k \in 0..(Len(d) - 1)
      PROVE  f[Len(b) + k + 1] = LexChar(q, plain, f[Len(b) + k], d[k + 1])
  <2>1. Len(b) + k \in 0..(Len(b \o d) - 1) /\ k + 1 \in 1..Len(d)
    BY <1>1
  <2>2. (b \o d)[Len(b) + k + 1] = d[k + 1]
    <3>1. Len(b) + k + 1 = Len(b) + (k + 1)
      BY <1>1
    <3>2. QED BY <1>2, <2>1, <3>1
  <2>3. QED BY <2>1, <2>2 DEF Lexing
<1>5. QED BY <1>3, <1>4 DEF Lexing

\* A character written for itself.
LEMMA ReadsPlain ==
  ASSUME NEW plain, NEW q \in Quotes(plain), NEW b \in Seq(Chars), NEW t \in Seq(Chars), ReadsAs(q, plain, b, t),
         NEW c \in Chars \ Special(plain)
  PROVE  ReadsAs(q, plain, Append(b, c), Append(t, c))
<1> SUFFICES ASSUME NEW f, Lexing(f, q, plain, Append(b, c))
             PROVE  f[Len(Append(b, c))] = Reading(Append(t, c))
  BY DEF ReadsAs
<1>1. Append(b, c) = b \o <<c>> /\ <<c>> \in Seq(Chars) /\ Len(Append(b, c)) = Len(b) + 1 /\ Len(b) \in Nat
  OBVIOUS
<1>2. Lexing(f, q, plain, b) /\ f[Len(b) + 0 + 1] = LexChar(q, plain, f[Len(b) + 0], c)
  <2>1. PICK d \in Seq(Chars) : d = <<c>>
    BY <1>1
  <2>2. Len(d) = 1 /\ d[0 + 1] = c /\ 0 \in 0..(1 - 1)
    BY <2>1
  <2>3. Lexing(f, q, plain, b \o d)
    BY <1>1, <2>1
  <2>4. /\ Lexing(f, q, plain, b)
        /\ \A k \in 0..(Len(d) - 1) : f[Len(b) + k + 1] = LexChar(q, plain, f[Len(b) + k], d[k + 1])
    BY <2>3, LexingPrefix
  <2>5. QED BY <2>2, <2>4
<1>3. f[Len(b) + 1] = LexChar(q, plain, Reading(t), c)
  BY <1>1, <1>2 DEF ReadsAs
<1>4. c # q /\ (plain \/ c # "backslash")
  BY LookupFacts DEF Special, Quotes
<1>5. LexChar(q, plain, Reading(t), c) = Reading(Append(t, c))
  BY <1>4 DEF LexChar, Reading
<1>6. QED BY <1>1, <1>3, <1>5

\* A character written as two.
Sub(plain, c) == IF plain THEN <<"quote", "quote">> ELSE <<"backslash", Lookup[c]>>

LEMMA ReadsPair ==
  ASSUME NEW plain, NEW q \in Quotes(plain), NEW b \in Seq(Chars), NEW t \in Seq(Chars), ReadsAs(q, plain, b, t),
         NEW c \in Special(plain)
  PROVE  ReadsAs(q, plain, b \o Sub(plain, c), Append(t, c)) /\ Sub(plain, c) \in Seq(Chars) /\ c \in Chars
<1> DEFINE d == Sub(plain, c)
<1>1. c \in Chars
  BY DEF Special, Chars, Lookup, LookupNoBackslash
<1>2. PICK u, v \in Chars : d = <<u, v>> /\ (IF plain THEN u = "quote" /\ v = "quote" /\ c = "quote"
                                                     ELSE u = "backslash" /\ v = Lookup[c] /\ Meaning(v) = c)
  BY LookupFacts DEF Sub, Special, Chars
<1> HIDE DEF d
<1>3. d \in Seq(Chars) /\ Len(d) = 2 /\ d[1] = u /\ d[2] = v /\ Len(b) \in Nat /\ Len(b \o d) = Len(b) + 2
  BY <1>2
<1>4. ASSUME NEW f, Lexing(f, q, plain, b \o d) PROVE f[Len(b \o d)] = Reading(Append(t, c))
  <2>1. /\ Lexing(f, q, plain, b)
        /\ \A k \in 0..(Len(d) - 1) : f[Len(b) + k + 1] = LexChar(q, plain, f[Len(b) + k], d[k + 1])
    <3>1. d \in Seq(Chars)
      BY <1>3
    <3>2. QED BY <1>4, <3>1, LexingPrefix
  <2>2. f[Len(b)] = Reading(t)
    BY <2>1 DEF ReadsAs
  <2>3. f[Len(b) + 0 + 1] = LexChar(q, plain, f[Len(b) + 0], d[0 + 1])
        /\ f[Len(b) + 1 + 1] = LexChar(q, plain, f[Len(b) + 1], d[1 + 1])
    <3>1. 0 \in 0..(Len(d) - 1) /\ 1 \in 0..(Len(d) - 1)
      BY <1>3
    <3>2. QED BY <2>1, <3>1
  <2>4. f[Len(b) + 1] = LexChar(q, plain, Reading(t), u) /\ f[Len(b) + 2] = LexChar(q, plain, f[Len(b) + 1], v)
    BY <1>3, <2>2, <2>3
  <2>5. LexChar(q, plain, LexChar(q, plain, Reading(t), u), v) = Reading(Append(t, c))
    <3>1. CASE plain
      <4>1. u = q /\ v = q /\ c = q /\ q = "quote"
        BY <1>2, <3>1 DEF Quotes
      <4>2. LexChar(q, plain, Reading(t), q) = [Reading(t) EXCEPT !.after = "q"]
        BY <4>1 DEF LexChar, Reading
      <4>3. LexChar(q, plain, [Reading(t) EXCEPT !.after = "q"], q) = Reading(Append(t, q))
        BY DEF LexChar, Reading
      <4>4. QED BY <4>1, <4>2, <4>3
    <3>2. CASE ~plain
      <4>1. u = "backslash" /\ q # "backslash" /\ Meaning(v) = c
        BY <1>2, <3>2 DEF Quotes
      <4>2. LexChar(q, plain, Reading(t), u) = [Reading(t) EXCEPT !.after = "backslash"]
        BY <3>2, <4>1 DEF LexChar, Reading
      <4>3. LexChar(q, plain, [Reading(t) EXCEPT !.after = "backslash"], v) = Reading(Append(t, Meaning(v)))
        BY DEF LexChar, Reading
      <4>4. QED BY <4>1, <4>2, <4>3
    <3>3. QED BY <3>1, <3>2
  <2>6. QED BY <1>3, <2>4, <2>5
<1>5. QED BY <1>1, <1>3, <1>4 DEF d, ReadsAs

\* What is appended to the second is appended to both.
LEMMA AppendBehind ==
  ASSUME NEW u \in Seq(Chars), NEW v \in Seq(Chars), NEW c \in Chars
  PROVE  Append(u \o v, c) = u \o Append(v, c)
<1>1. <<c>> \in Seq(Chars) /\ u \o v \in Seq(Chars)
  OBVIOUS
<1>2. Append(u \o v, c) = (u \o v) \o <<c>> /\ Append(v, c) = v \o <<c>>
  BY <1>1, AppendIsConcat
<1>3. PICK w \in Seq(Chars) : w = <<c>>
  BY <1>1
<1>4. (u \o v) \o w = u \o (v \o w)
  BY ConcatAssociative
<1>5. QED BY <1>2, <1>3, <1>4

\* A run of characters written for themselves.
LEMMA ReadsRun ==
  ASSUME NEW plain, NEW q \in Quotes(plain), NEW b \in Seq(Chars), NEW t \in Seq(Chars), ReadsAs(q, plain, b, t),
         NEW d \in Seq(Chars), \A i \in 1..Len(d) : d[i] \notin Special(plain)
  PROVE  ReadsAs(q, plain, b \o d, t \o d)
<1> DEFINE front(m) == SubSeq(d, 1, m)
           P == {m \in Nat : m <= Len(d) => ReadsAs(q, plain, b \o front(m), t \o front(m))}
<1>1. Len(d) \in Nat
  OBVIOUS
<1>6. \A u, v \in Seq(Chars), c \in Chars : Append(u \o v, c) = u \o Append(v, c)
  BY AppendBehind
<1>2. 0 \in P
  <2>1. front(0) = <<>>
    OBVIOUS
  <2>2. b \o <<>> = b /\ t \o <<>> = t
    OBVIOUS
  <2> HIDE DEF front
  <2>3. QED BY <2>1, <2>2
<1>3. ASSUME NEW m \in Nat, m \in P PROVE m + 1 \in P
  <2> SUFFICES ASSUME m + 1 <= Len(d) PROVE ReadsAs(q, plain, b \o front(m + 1), t \o front(m + 1))
    OBVIOUS
  <2>1. ReadsAs(q, plain, b \o front(m), t \o front(m))
    BY <1>1, <1>3
  <2>2. front(m) \in Seq(Chars) /\ front(m + 1) = Append(front(m), d[m + 1]) /\ d[m + 1] \in Chars /\ m + 1 \in 1..Len(d)
    BY <1>1
  <2> HIDE DEF front
  <2>3. b \o front(m) \in Seq(Chars) /\ t \o front(m) \in Seq(Chars) /\ d[m + 1] \in Chars \ Special(plain)
    BY <2>2
  <2>4. ReadsAs(q, plain, Append(b \o front(m), d[m + 1]), Append(t \o front(m), d[m + 1]))
    BY <2>1, <2>3, ReadsPlain
  <2>5. /\ Append(b \o front(m), d[m + 1]) = b \o Append(front(m), d[m + 1])
        /\ Append(t \o front(m), d[m + 1]) = t \o Append(front(m), d[m + 1])
    BY <1>6, <2>2
  <2>6. QED BY <2>2, <2>4, <2>5
<1>4. Nat \subseteq P
  <2> HIDE DEF P
  <2>1. QED BY <1>2, <1>3, SetInduction
<1>5. front(Len(d)) = d
  OBVIOUS
<1> HIDE DEF front
<1>7. QED BY <1>1, <1>4, <1>5

\* After a round of trilogy_escape: the server reads what has been written as what has been gone through.
Written(plain, str, s) ==
  /\ s = [cursor |-> s.cursor, b |-> s.b] /\ s.cursor \in Nat \ {0} /\ s.b \in Seq(Chars)
  /\ \A q \in Quotes(plain) :
       ReadsAs(q, plain, s.b, SubSeq(str, 1, IF s.cursor <= Len(str) THEN s.cursor - 1 ELSE Len(str)))

LEMMA RoundWritten ==
  ASSUME NEW plain \in BOOLEAN, NEW str \in Seq(Chars), NEW s, NEW t, Written(plain, str, s),
         s.cursor <= Len(str),
         t = EscapeRound(s, str, Special(plain), LAMBDA c : Sub(plain, c))
  PROVE  Written(plain, str, t) /\ t.cursor > s.cursor
<1> DEFINE n == Len(str)
           found == {i \in s.cursor..n : str[i] \in Special(plain)}
           to == IF found = {} THEN n + 1 ELSE Min(found)
           run == SubSeq(str, s.cursor, to - 1)
           front == SubSeq(str, 1, s.cursor - 1)
           b == s.b \o run \o (IF found = {} THEN <<>> ELSE Sub(plain, str[to]))
<1>1. n \in Nat /\ s.cursor \in 1..n /\ s.b \in Seq(Chars)
  BY DEF Written
<1>2. t = [cursor |-> to + 1, b |-> b]
  <2>1. ~(s.cursor > n)
    BY <1>1
  <2>2. QED BY <2>1 DEF EscapeRound
<1>3. /\ to \in s.cursor..(n + 1) /\ (found = {} => to = n + 1)
      /\ found # {} => to \in 1..n /\ str[to] \in Special(plain)
      /\ \A i \in s.cursor..(to - 1) : str[i] \notin Special(plain)
  <2>1. CASE found = {}
    BY <1>1, <2>1
  <2>2. CASE found # {}
    <3>1. found \subseteq Nat
      BY <1>1
    <3>2. PICK x \in found : \A y \in found : x <= y
      <4> HIDE DEF found
      <4>1. QED BY <2>2, <3>1, Least
    <3>3. to \in found /\ \A y \in found : to <= y
      <4> HIDE DEF found
      <4>1. QED BY <2>2, <3>2 DEF Min
    <3> HIDE DEF to
    <3>4. to \in s.cursor..n /\ str[to] \in Special(plain)
      BY <3>3
    <3>5. ASSUME NEW i \in s.cursor..(to - 1), str[i] \in Special(plain) PROVE FALSE
      <4>1. i \in s.cursor..n /\ i < to /\ i \in Nat /\ to \in Nat
        BY <1>1, <3>4
      <4>2. i \in found
        BY <3>5, <4>1
      <4>3. QED BY <3>3, <4>1, <4>2
    <3>6. QED BY <1>1, <2>2, <3>4, <3>5
  <2>3. QED BY <2>1, <2>2
<1> HIDE DEF found, to
<1>4. front \in Seq(Chars) /\ run \in Seq(Chars) /\ \A i \in 1..Len(run) : run[i] \notin Special(plain)
  <2>1. /\ s.cursor \in Int /\ to - 1 \in Int /\ s.cursor - 1 \in Int
        /\ \A i \in s.cursor..(to - 1) : str[i] \in Chars
        /\ \A i \in 1..(s.cursor - 1) : str[i] \in Chars
    BY <1>1, <1>3
  <2>2. /\ run \in Seq(Chars)
        /\ Len(run) = IF s.cursor <= to - 1 THEN (to - 1) - s.cursor + 1 ELSE 0
        /\ \A i \in 1..((to - 1) - s.cursor + 1) : run[i] = str[s.cursor + i - 1]
    BY <2>1, SubSeqProperties
  <2>3. front \in Seq(Chars)
    BY <2>1, SubSeqProperties
  <2> HIDE DEF run, front
  <2>4. ASSUME NEW i \in 1..Len(run) PROVE run[i] \notin Special(plain)
    <3>1. i \in 1..((to - 1) - s.cursor + 1) /\ s.cursor + i - 1 \in s.cursor..(to - 1)
      BY SMTT(30), <1>1, <1>3, <2>2
    <3>2. QED BY <1>3, <2>2, <3>1
  <2>5. QED BY <2>2, <2>3, <2>4
<1>5. front \o run = SubSeq(str, 1, to - 1) /\ SubSeq(str, 1, to - 1) \in Seq(Chars)
  <2>1. /\ 1 \in 1..(n + 1) /\ s.cursor - 1 \in 0..n /\ to - 1 \in (s.cursor - 1)..n /\ (s.cursor - 1) + 1 = s.cursor
        /\ \A i \in 1..(to - 1) : str[i] \in Chars
    BY <1>1, <1>3
  <2>2. front \o run = SubSeq(str, 1, to - 1)
    <3>1. PICK k, z \in Nat : k = s.cursor - 1 /\ z = to - 1 /\ k + 1 = s.cursor
      BY <1>1, <1>3
    <3>2. k \in (1 - 1)..n /\ z \in k..n
      BY <1>1, <1>3, <3>1
    <3>3. SubSeq(str, 1, k) \o SubSeq(str, k + 1, z) = SubSeq(str, 1, z)
      BY <2>1, <3>2, ConcatAdjacentSubSeq
    <3>4. QED BY <3>1, <3>3
  <2>3. SubSeq(str, 1, to - 1) \in Seq(Chars)
    <3>1. to - 1 \in Int
      BY <2>1
    <3>2. QED BY <2>1, <3>1, SubSeqProperties
  <2>4. QED BY <2>2, <2>3
<1>6. ASSUME NEW q \in Quotes(plain) PROVE ReadsAs(q, plain, s.b \o run, SubSeq(str, 1, to - 1))
  <2>1. ReadsAs(q, plain, s.b, front)
    BY <1>1 DEF Written
  <2> HIDE DEF run, front
  <2>2. QED BY <1>1, <1>4, <1>5, <2>1, ReadsRun
<1> DEFINE read == SubSeq(str, 1, IF to + 1 <= n THEN to ELSE n)
<1>7. b \in Seq(Chars) /\ \A q \in Quotes(plain) : ReadsAs(q, plain, b, read)
  <2>1. CASE found = {}
    <3>1. read = SubSeq(str, 1, to - 1) /\ s.b \o run \o <<>> = s.b \o run /\ s.b \o run \in Seq(Chars)
      BY <1>1, <1>3, <1>4, <2>1
    <3> HIDE DEF run, read
    <3>2. QED BY <1>6, <2>1, <3>1
  <2>2. CASE found # {}
    <3>1. read = Append(SubSeq(str, 1, to - 1), str[to])
      BY <1>1, <1>3, <2>2
    <3> DEFINE x == s.b \o run
    <3>2. x \in Seq(Chars)
      BY <1>1, <1>4
    <3> HIDE DEF run, read
    <3>3. str[to] \in Special(plain) /\ b = x \o Sub(plain, str[to])
      BY <1>3, <2>2
    <3> HIDE DEF x
    <3>4. ASSUME NEW q \in Quotes(plain)
          PROVE  /\ ReadsAs(q, plain, x \o Sub(plain, str[to]), Append(SubSeq(str, 1, to - 1), str[to]))
                 /\ Sub(plain, str[to]) \in Seq(Chars)
      <4>1. ReadsAs(q, plain, x, SubSeq(str, 1, to - 1))
        BY <1>6 DEF x
      <4>2. QED BY <1>5, <3>2, <3>3, <4>1, ReadsPair
    <3>5. "quote" \in Quotes(plain)
      BY DEF Quotes
    <3> HIDE DEF b
    <3>6. QED BY <3>1, <3>2, <3>3, <3>4, <3>5
  <2>3. QED BY <2>1, <2>2
<1> HIDE DEF b
<1>8. t.cursor = to + 1 /\ t.b = b /\ t.cursor - 1 = to /\ t.cursor \in Nat \ {0} /\ t.cursor > s.cursor
  BY <1>1, <1>2, <1>3
<1>9. QED BY <1>2, <1>7, <1>8 DEF Written

\* All rounds: what trilogy_escape returns is read as what it was given.
LEMMA EscapedReads ==
  ASSUME NEW str \in Seq(Chars), NEW plain \in BOOLEAN
  PROVE  /\ Escaped(str, plain) \in Seq(Chars)
         /\ \A q \in Quotes(plain) : ReadsAs(q, plain, Escaped(str, plain), str)
<1> DEFINE n == Len(str)
           x == [plain |-> plain, str |-> str]
           start == [cursor |-> 1, b |-> <<>>]
<1>1. PICK g : Folding(g, "escape", x, start, n) /\ Escaped(str, plain) = g[1..n].b
  BY EscapedFold
<1>2. n \in Nat
  OBVIOUS
<1>3. g[1..0] = start /\ \A k \in 0..(n - 1) : g[1..(k + 1)] = Step("escape", x, g[1..k], k + 1)
  <2> HIDE DEF x, start, n
  <2>1. QED BY <1>1, <1>2, FoldSteps
<1> DEFINE P == {m \in Nat : m <= n => Written(plain, str, g[1..m]) /\ (g[1..m].cursor > m \/ g[1..m].cursor > n)}
<1>4. 0 \in P
  <2>1. Written(plain, str, start)
    <3>1. PICK e \in Seq(Chars) : e = <<>> /\ Len(e) = 0
      BY EmptySeq
    <3>2. (IF 1 <= Len(str) THEN 1 - 1 ELSE Len(str)) = 0 /\ SubSeq(str, 1, 0) = e
      BY <1>2, <3>1
    <3>3. ASSUME NEW q, NEW f, Lexing(f, q, plain, e) PROVE f[Len(e)] = Reading(e)
      <4>1. f[0] = Reading(e)
        BY <3>1, <3>3 DEF Lexing, Reading
      <4>2. QED BY <3>1, <4>1
    <3>4. \A q : ReadsAs(q, plain, e, e)
      BY <3>3 DEF ReadsAs
    <3>5. start = [cursor |-> 1, b |-> e] /\ start.cursor = 1 /\ start.b = e
      BY <3>1
    <3> HIDE DEF start
    <3>6. SubSeq(str, 1, IF start.cursor <= Len(str) THEN start.cursor - 1 ELSE Len(str)) = e
      BY <3>2, <3>5
    <3>7. start = [cursor |-> start.cursor, b |-> start.b] /\ start.cursor \in Nat \ {0} /\ start.b \in Seq(Chars)
      BY <3>5
    <3>8. QED BY <3>4, <3>5, <3>6, <3>7 DEF Written
  <2>2. start.cursor > 0
    OBVIOUS
  <2>3. QED BY <1>3, <2>1, <2>2
<1>5. ASSUME NEW m \in Nat, m \in P PROVE m + 1 \in P
  <2> SUFFICES ASSUME m + 1 <= n
               PROVE  Written(plain, str, g[1..(m + 1)]) /\ (g[1..(m + 1)].cursor > m + 1 \/ g[1..(m + 1)].cursor > n)
    OBVIOUS
  <2> DEFINE s == g[1..m]
             t == g[1..(m + 1)]
  <2>1. Written(plain, str, s) /\ (s.cursor > m \/ s.cursor > n) /\ s.cursor \in Nat
    BY <1>2, <1>5 DEF Written
  <2>2. t = EscapeRound(s, str, Special(plain), LAMBDA c : Sub(plain, c))
    <3>1. t = Step("escape", x, s, m + 1)
      BY <1>2, <1>3
    <3>2. x.plain = plain /\ x.str = str
      OBVIOUS
    <3> HIDE DEF s, t, x
    <3>3. QED BY <3>1, <3>2 DEF Step, EscapeRound, Special, Sub
  <2> HIDE DEF s, t
  <2>3. CASE s.cursor <= n
    <3>1. Written(plain, str, t) /\ t.cursor > s.cursor
      BY <2>1, <2>2, <2>3, RoundWritten
    <3>2. t.cursor \in Nat
      BY <3>1 DEF Written
    <3>3. t.cursor > m + 1 \/ t.cursor > n
      BY <1>2, <2>1, <2>3, <3>1, <3>2
    <3>4. QED BY <3>1, <3>3 DEF t
  <2>4. CASE s.cursor > n
    <3>1. t = s
      BY <2>2, <2>4 DEF EscapeRound
    <3>2. QED BY <2>1, <2>4, <3>1 DEF t
  <2>5. QED BY <1>2, <2>1, <2>3, <2>4
<1>6. Nat \subseteq P
  <2> HIDE DEF P
  <2>1. QED BY <1>4, <1>5, SetInduction
<1> DEFINE s == g[1..n]
<1>7. Written(plain, str, s) /\ s.cursor > n /\ s.cursor \in Nat
  BY <1>2, <1>6 DEF Written
<1>8. SubSeq(str, 1, IF s.cursor <= Len(str) THEN s.cursor - 1 ELSE Len(str)) = str
  <2>1. ~(s.cursor <= Len(str)) /\ SubSeq(str, 1, Len(str)) = str
    BY <1>2, <1>7
  <2>2. QED BY <2>1
<1> HIDE DEF s
<1>9. s.b \in Seq(Chars) /\ \A q \in Quotes(plain) : ReadsAs(q, plain, s.b, str)
  BY <1>7, <1>8 DEF Written
<1>10. QED BY <1>1, <1>9 DEF s

(* A string escaped by trilogy_escape and put between quotes is one literal, *)
(* and the server reads from it the string as it was, provided both take the *)
(* backslash alike; in the mode without backslash escapes between single     *)
(* quotes only.                                                              *)
THEOREM EscapedIsOneLiteral ==
  \A str \in Seq(Chars), plain \in BOOLEAN : \A q \in Quotes(plain) :
    Lexed(q, plain, Escaped(str, plain)) = [text |-> str, whole |-> TRUE]
<1> SUFFICES ASSUME NEW str \in Seq(Chars), NEW plain \in BOOLEAN, NEW q \in Quotes(plain)
             PROVE  Lexed(q, plain, Escaped(str, plain)) = [text |-> str, whole |-> TRUE]
  OBVIOUS
<1>1. PICK b \in Seq(Chars) : b = Escaped(str, plain) /\ ReadsAs(q, plain, b, str)
  BY EscapedReads
<1> DEFINE n == Len(b)
           x == [q |-> q, plain |-> plain, str |-> b]
           start == [text |-> <<>>, after |-> "none", ended |-> FALSE, broken |-> FALSE]
<1>2. n \in Nat /\ DOMAIN b = 1..n
  OBVIOUS
<1>3. PICK g : /\ Folding(g, "lex", x, start, n)
               /\ Lexed(q, plain, b) = [text |-> g[1..n].text, whole |-> ~g[1..n].broken /\ g[1..n].after = "none"]
  BY <1>2, LexedFold
<1>4. g[1..0] = start /\ \A k \in 0..(n - 1) : g[1..(k + 1)] = Step("lex", x, g[1..k], k + 1)
  <2> HIDE DEF x, start, n
  <2>1. QED BY <1>2, <1>3, FoldSteps
<1> DEFINE f == [k \in 0..n |-> g[1..k]]
<1>5. Lexing(f, q, plain, b)
  <2>1. f[0] = start
    BY <1>2, <1>4
  <2>2. ASSUME NEW k \in 0..(n - 1) PROVE f[k + 1] = LexChar(q, plain, f[k], b[k + 1])
    <3>1. k \in 0..n /\ k + 1 \in 0..n
      BY <1>2
    <3>2. Step("lex", x, f[k], k + 1) = LexChar(q, plain, f[k], b[k + 1])
      BY DEF Step
    <3>3. QED BY <1>4, <3>1, <3>2
  <2> HIDE DEF f, n
  <2>3. QED BY <2>1, <2>2 DEF Lexing, n
<1>6. f[n] = Reading(str)
  <2> HIDE DEF f
  <2>1. QED BY <1>1, <1>5 DEF ReadsAs
<1>7. g[1..n] = Reading(str)
  BY <1>2, <1>6
<1>8. Lexed(q, plain, b) = [text |-> str, whole |-> TRUE]
  <2> DEFINE s == g[1..n]
  <2>1. s.text = str /\ s.broken = FALSE /\ s.after = "none"
    BY <1>7 DEF Reading
  <2> HIDE DEF s
  <2>2. ~s.broken /\ s.after = "none"
    BY <2>1
  <2>3. (~s.broken /\ s.after = "none") = TRUE
    BY <2>2
  <2>4. Lexed(q, plain, b) = [text |-> s.text, whole |-> ~s.broken /\ s.after = "none"]
    BY <1>3 DEF s
  <2>5. QED BY <2>1, <2>3, <2>4
<1>9. QED BY <1>1, <1>8

-----------------------------------------------------------------------------
(* Packets that follow what the server and the client know.                  *)

LEMMA OkFieldsFacts ==
  ASSUME NEW caps, NEW o, NEW out, OkFront(out, caps, o), Session(out, caps, o)
  PROVE  \A f \in DOMAIN OkFields(caps, o) : out[f] = OkFields(caps, o)[f]
<1> DEFINE fields == OkFields(caps, o)
           track == "SESSION_TRACK" \in caps
<1>1. /\ fields.affected_rows = o.rows /\ fields.last_insert_id = o.id
      /\ fields.status_flags = (IF "PROTOCOL_41" \in caps THEN ServerStatus(o) ELSE 0)
      /\ fields.warning_count = (IF "PROTOCOL_41" \in caps THEN o.warnings ELSE 0)
      /\ fields.txn_status_flags = (IF OnlyTransactions(caps) THEN ServerStatus(o) ELSE 0)
      /\ fields.session_status = (IF track THEN o.info ELSE <<>>)
      /\ fields.info = (IF track THEN <<>> ELSE o.info)
      /\ fields.last_gtid = (IF track THEN LastGtid(o.changes) ELSE <<>>)
  BY DEF OkFields, OnlyTransactions
<1>2. DOMAIN fields = {"affected_rows", "last_insert_id", "status_flags", "warning_count", "txn_status_flags",
                       "session_status", "info", "last_gtid"}
  BY DEF OkFields
<1> HIDE DEF fields
<1>3. \A f \in DOMAIN fields : out[f] = fields[f]
  BY <1>1, <1>2 DEF OkFront, Session, Has
<1>4. QED BY <1>3 DEF fields

LEMMA LastGtidOf ==
  ASSUME NEW changes, NEW n \in Nat \ {0}, DOMAIN changes = 1..n
  PROVE  LastGtid(changes) = LastOf(changes, n) /\ (GtidTooLong(changes) <=> \E i \in 1..n : TooLong(changes[i]))
BY DEF LastGtid, LastOf, GtidTooLong, TooLong

(* The client reads an OK packet as the server meant it, for any counters,   *)
(* status, session changes and info that fit their length-encoded lengths:   *)
(* trilogy_parse_ok_packet fills in every field, and refuses the packet only *)
(* for a GTID longer than TRILOGY_MAX_LAST_GTID_LEN.                         *)
THEOREM OkReadsBack ==
  ASSUME NEW caps, NEW o, OkMeant(caps, o), NEW type \in Nat
  PROVE  LET buff == ServerOk(type, caps, o)
             r == ParseOk(buff, caps)
         IN /\ buff \in Seq(Nat)
            /\ r.rc = IF "SESSION_TRACK" \in caps /\ GtidTooLong(o.changes) THEN "PROTOCOL_VIOLATION" ELSE "OK"
            /\ r.rc = "OK" => \A f \in DOMAIN OkFields(caps, o) : r.out[f] = OkFields(caps, o)[f]
<1> DEFINE buff == ServerOk(type, caps, o)
           r == ParseOk(buff, caps)
           track == "SESSION_TRACK" \in caps
<1>1. PICK info \in Seq(Nat) : info = o.info /\ Len(info) \in Sizes
  BY DEF OkMeant
<1>2. PICK text \in Seq(Nat) : text = ServerText(info) /\ (Len(text) > 0)
  <2>1. ServerText(info) \in Seq(Nat) /\ ServerText(info) = ServerLenenc(Len(info)) \o info
    BY TextFacts
  <2>2. PICK k \in Nat : k = Len(info)
    OBVIOUS
  <2>3. PICK a \in Seq(Nat) : a = ServerLenenc(k) /\ Len(a) \in 1..9
    BY LenencFacts
  <2>4. Len(a \o info) = Len(a) + Len(info) /\ Len(info) \in Nat
    OBVIOUS
  <2>5. Len(a \o info) > 0
    <3>1. PICK x, y, z \in Nat : x = Len(a) /\ y = Len(info) /\ z = Len(a \o info) /\ z = x + y /\ x > 0
      <4>1. Len(a) + Len(info) \in Nat /\ Len(a) \in Nat /\ Len(a) > 0
        <5>1. Len(a) \in Nat /\ Len(info) \in Nat
          OBVIOUS
        <5>2. \A x \in 1..9 : x > 0
          OBVIOUS
        <5>3. Len(a) > 0
          BY <2>3, <5>2
        <5>4. QED BY <5>1, <5>3
      <4>2. QED BY <2>4, <4>1
    <3>2. z > 0
      BY <3>1
    <3>3. QED BY <3>1, <3>2
  <2>6. QED BY <2>1, <2>2, <2>3, <2>5
<1>3. PICK none \in Seq(Nat) : none = <<>> /\ Len(none) = 0
  BY EmptySeq
<1>4. ASSUME o.changes # <<>>
      PROVE  /\ \E n \in Nat \ {0} : DOMAIN o.changes = 1..n /\ \A i \in 1..n : Tellable(o.changes[i])
             /\ ServerText(ServerChanges(o.changes)) \in Seq(Nat)
             /\ Len(ServerChanges(o.changes)) \in Sizes
             /\ Flag(ServerStatus(o), SessionStateChanged)
  <2>1. PICK n \in Nat \ {0} : DOMAIN o.changes = 1..n /\ \A i \in 1..n : Tellable(o.changes[i])
    BY <1>4 DEF OkMeant
  <2>2. PICK changes : changes = o.changes
    OBVIOUS
  <2>3. DOMAIN changes = 1..n /\ \A i \in 1..n : Tellable(changes[i])
    BY <2>1, <2>2
  <2>4. ServerChanges(changes) \in Seq(Nat)
    BY <2>3, ChangesBytes
  <2>5. ServerText(ServerChanges(changes)) \in Seq(Nat)
    BY <2>4, TextFacts
  <2>6. QED BY <1>4, <2>1, <2>2, <2>5 DEF OkMeant
<1>5. PICK tail \in Seq(Nat) : tail = OkTail(caps, o)
  <2>1. CASE o.changes # <<>>
    <3>1. PICK b \in Seq(Nat) : b = ServerText(ServerChanges(o.changes))
      BY <1>4, <2>1
    <3>2. text \o b \in Seq(Nat)
      OBVIOUS
    <3>3. OkTail(caps, o) \in {info, text \o b, none, text}
      BY <1>1, <1>2, <1>3, <2>1, <3>1 DEF OkTail
    <3>4. QED BY <3>2, <3>3
  <2>2. CASE o.changes = <<>>
    <3>1. OkTail(caps, o) \in {info, none, text}
      BY <1>1, <1>2, <1>3, <2>2 DEF OkTail
    <3>2. QED BY <3>1
  <2>3. QED BY <2>1, <2>2
<1>6. buff = (((<<type>> \o ServerLenenc(o.rows)) \o ServerLenenc(o.id)) \o OkMiddle(caps, o)) \o tail
  BY <1>5 DEF ServerOk, OkMiddle, OkTail
<1>7. buff \in Seq(Nat)
  <2>1. PICK rows, id \in Nat, m, w \in Word : rows = o.rows /\ id = o.id /\ m = ServerStatus(o) /\ w = o.warnings
    BY DEF OkMeant, Sizes
  <2>2. PICK a, b, c \in Seq(Nat) : a = <<type>> /\ b = ServerLenenc(rows) /\ c = ServerLenenc(id)
    <3>1. ServerLenenc(rows) \in Seq(Nat)
      BY LenencFacts
    <3>2. ServerLenenc(id) \in Seq(Nat)
      BY LenencFacts
    <3>3. <<type>> \in Seq(Nat)
      OBVIOUS
    <3>4. QED BY <3>1, <3>2, <3>3
  <2>3. PICK d, e \in Seq(Nat) : d = Digits(m, 2) /\ e = Digits(w, 2)
    BY WordFacts
  <2>4. d \o e \in Seq(Nat) /\ <<>> \in Seq(Nat)
    OBVIOUS
  <2>5. OkMiddle(caps, o) \in {d \o e, d, <<>>}
    BY <2>1, <2>3 DEF OkMiddle
  <2>6. PICK mid \in Seq(Nat) : mid = OkMiddle(caps, o)
    BY <2>4, <2>5
  <2>7. PICK front \in Seq(Nat) : front = (a \o b) \o c
    <3>1. (a \o b) \o c \in Seq(Nat)
      OBVIOUS
    <3>2. QED BY <3>1
  <2>8. (front \o mid) \o tail \in Seq(Nat)
    OBVIOUS
  <2>9. QED BY <1>6, <2>1, <2>2, <2>6, <2>7, <2>8
<1> DEFINE s == Fields(Open(buff, OkDefaults), OkCounters \o OkWords(caps))
<1>8. Ready(s, tail) /\ OkFront(s.out, caps, o) /\ Behind(s.out)
  <2>1. PICK packet1 \in Seq(Nat) : packet1 = buff
    BY <1>7
  <2>2. packet1 = (((<<type>> \o ServerLenenc(o.rows)) \o ServerLenenc(o.id)) \o OkMiddle(caps, o)) \o tail
    BY <1>6, <2>1
  <2> DEFINE s1 == Fields(Open(packet1, OkDefaults), OkCounters \o OkWords(caps))
  <2>3. Ready(s1, tail) /\ OkFront(s1.out, caps, o) /\ Behind(s1.out)
    BY <2>2, OkFronted
  <2>4. s1 = s
    BY <2>1
  <2> HIDE DEF s, s1
  <2>5. QED BY <2>3, <2>4
<1>9. r = IF s.rc = "OK" THEN Finish(IF track /\ ~Eof(s) THEN SessionState(s) ELSE Read(s, EofBuffer("info"))) ELSE s
  BY DEF ParseOk, Then, OkCounters, OkWords
<1> HIDE DEF r, s, buff
<1>10. s.rc = "OK" /\ Len(s.buff) = s.pos + Len(tail) /\ s.pos \in Nat /\ Len(tail) \in Nat
  <2>1. s.rc = "OK" /\ Len(s.buff) = s.pos + Len(tail) /\ Good(s, <<>>)
    BY <1>8 DEF Ready, Ahead
  <2>2. s.pos \in Nat
    BY <2>1, SafeFacts
  <2>3. Len(tail) \in Nat
    OBVIOUS
  <2>4. QED BY <2>1, <2>2, <2>3
<1>11. Eof(s) <=> Len(tail) = 0
  BY <1>10 DEF Eof
<1> DEFINE Right == \A f \in DOMAIN OkFields(caps, o) : r.out[f] = OkFields(caps, o)[f]
<1>12. CASE ~track
  <2>1. tail = info
    BY <1>1, <1>5, <1>12 DEF OkTail
  <2>2. Ready(s, info)
    BY <1>8, <2>1
  <2>3. Finish(Read(s, EofBuffer("info"))).rc = "OK" /\ Finish(Read(s, EofBuffer("info"))).out = Put(s.out, "info", info)
    BY <1>8, <2>2, OkPlainTail
  <2>4. r.rc = "OK" /\ r.out = Put(s.out, "info", info)
    BY <1>9, <1>10, <1>12, <2>3
  <2>5. OkFront(r.out, caps, o) /\ Has(r.out, "session_status", <<>>) /\ Has(r.out, "info", info) /\ Has(r.out, "last_gtid", <<>>)
    BY <1>8, <2>4, PutHas DEF OkFront, Behind
  <2>6. Right
    <3>1. Session(r.out, caps, o) /\ OkFront(r.out, caps, o)
      BY <1>1, <1>12, <2>5 DEF Session
    <3>2. QED BY <3>1, OkFieldsFacts
  <2>7. QED BY <1>7, <1>12, <2>4, <2>6 DEF r, buff
<1>13. CASE track /\ o.changes = <<>> /\ o.info = <<>>
  <2>1. tail = none /\ info = none
    BY <1>1, <1>3, <1>5, <1>13 DEF OkTail
  <2>2. Ready(s, info) /\ Eof(s)
    BY <1>3, <1>8, <1>11, <2>1
  <2>3. Finish(Read(s, EofBuffer("info"))).rc = "OK" /\ Finish(Read(s, EofBuffer("info"))).out = Put(s.out, "info", info)
    BY <1>8, <2>2, OkPlainTail
  <2>4. r.rc = "OK" /\ r.out = Put(s.out, "info", info)
    BY <1>9, <1>10, <2>2, <2>3
  <2>5. OkFront(r.out, caps, o) /\ Has(r.out, "session_status", <<>>) /\ Has(r.out, "info", info) /\ Has(r.out, "last_gtid", <<>>)
    BY <1>8, <2>4, PutHas DEF OkFront, Behind
  <2>6. LastGtid(o.changes) = <<>> /\ ~GtidTooLong(o.changes)
    <3>1. DOMAIN <<>> = {}
      OBVIOUS
    <3>2. QED BY <1>13, <3>1 DEF LastGtid, GtidTooLong
  <2>7. Right
    <3>1. Session(r.out, caps, o) /\ OkFront(r.out, caps, o)
      BY <1>1, <1>3, <1>13, <2>1, <2>5, <2>6 DEF Session
    <3>2. QED BY <3>1, OkFieldsFacts
  <2>8. QED BY <1>7, <2>4, <2>6, <2>7 DEF r, buff
<1>14. CASE track /\ o.changes = <<>> /\ o.info # <<>>
  <2>1. tail = text
    BY <1>1, <1>2, <1>5, <1>14 DEF OkTail
  <2>2. Ready(s, ServerText(info)) /\ ~Eof(s)
    BY <1>2, <1>8, <1>11, <2>1
  <2>3. PICK status : status = ServerStatus(o) /\ Has(s.out, "status_flags", status) /\ ~Flag(status, SessionStateChanged)
    BY <1>8, <1>14 DEF OkMeant, OkFront
  <2>4. Finish(SessionState(s)).rc = "OK" /\ Finish(SessionState(s)).out = Put(s.out, "session_status", info)
    BY <1>1, <2>2, <2>3, OkStatusTail
  <2>5. r.rc = "OK" /\ r.out = Put(s.out, "session_status", info)
    BY <1>9, <1>10, <1>14, <2>2, <2>4
  <2>6. OkFront(r.out, caps, o) /\ Has(r.out, "session_status", info) /\ Has(r.out, "info", <<>>) /\ Has(r.out, "last_gtid", <<>>)
    BY <1>8, <2>5, PutHas DEF OkFront, Behind
  <2>7. LastGtid(o.changes) = <<>> /\ ~GtidTooLong(o.changes)
    <3>1. DOMAIN <<>> = {}
      OBVIOUS
    <3>2. QED BY <1>14, <3>1 DEF LastGtid, GtidTooLong
  <2>8. Right
    <3>1. Session(r.out, caps, o) /\ OkFront(r.out, caps, o)
      BY <1>1, <1>14, <2>6, <2>7 DEF Session
    <3>2. QED BY <3>1, OkFieldsFacts
  <2>9. QED BY <1>7, <2>5, <2>7, <2>8 DEF r, buff
<1>15. CASE track /\ o.changes # <<>>
  <2>1. PICK n \in Nat \ {0} : DOMAIN o.changes = 1..n /\ \A i \in 1..n : Tellable(o.changes[i])
    BY <1>4, <1>15
  <2>2. PICK changes : changes = o.changes
    OBVIOUS
  <2>3. PICK b \in Seq(Nat) : b = ServerText(ServerChanges(changes))
    BY <1>4, <1>15, <2>2
  <2>4. tail = text \o b
    BY <1>1, <1>2, <1>5, <1>15, <2>2, <2>3 DEF OkTail
  <2>5. ~Eof(s)
    <3>1. Len(text \o b) = Len(text) + Len(b) /\ Len(text) \in Nat /\ Len(b) \in Nat
      OBVIOUS
    <3>2. QED BY <1>2, <1>11, <2>4, <3>1
  <2>6. /\ DOMAIN changes = 1..n /\ (\A i \in 1..n : Tellable(changes[i])) /\ Len(ServerChanges(changes)) \in Sizes
        /\ Ready(s, ServerText(info) \o ServerText(ServerChanges(changes)))
        /\ Has(s.out, "last_gtid", <<>>)
    BY <1>2, <1>4, <1>8, <1>15, <2>1, <2>2, <2>3, <2>4 DEF Behind
  <2>7. PICK status : status = ServerStatus(o) /\ Has(s.out, "status_flags", status) /\ Flag(status, SessionStateChanged)
    BY <1>4, <1>8, <1>15 DEF OkMeant, OkFront
  <2> DEFINE v == Finish(SessionState(s))
  <2>8. /\ (\E i \in 1..n : TooLong(changes[i])) => v.rc = "PROTOCOL_VIOLATION"
        /\ ~(\E i \in 1..n : TooLong(changes[i])) =>
             /\ v.rc = "OK"
             /\ v.out = Put(Put(Put(s.out, "session_status", info), "session_state_changes", ServerChanges(changes)),
                            "last_gtid", LastOf(changes, n))
    BY <1>1, <2>6, <2>7, OkChangesTail
  <2>9. r = v
    BY <1>9, <1>10, <1>15, <2>5
  <2> HIDE DEF v
  <2>10. LastGtid(changes) = LastOf(changes, n) /\ (GtidTooLong(changes) <=> \E i \in 1..n : TooLong(changes[i]))
    BY <2>6, LastGtidOf
  <2>11. CASE GtidTooLong(o.changes)
    <3>1. r.rc = "PROTOCOL_VIOLATION"
      BY <2>2, <2>8, <2>9, <2>10, <2>11
    <3>2. QED BY <1>7, <1>15, <2>11, <3>1 DEF r, buff
  <2>12. CASE ~GtidTooLong(o.changes)
    <3> DEFINE p == Put(s.out, "session_status", info)
               q == Put(p, "session_state_changes", ServerChanges(changes))
    <3>1. r.rc = "OK" /\ r.out = Put(q, "last_gtid", LastGtid(o.changes))
      BY <2>2, <2>8, <2>9, <2>10, <2>12
    <3>2. OkFront(p, caps, o) /\ Has(p, "session_status", info) /\ Has(p, "info", <<>>)
      BY <1>8, PutHas DEF OkFront, Behind
    <3> HIDE DEF p
    <3>3. OkFront(q, caps, o) /\ Has(q, "session_status", info) /\ Has(q, "info", <<>>)
      BY <3>2, PutHas DEF OkFront
    <3> HIDE DEF q
    <3>4. /\ OkFront(r.out, caps, o) /\ Has(r.out, "session_status", info) /\ Has(r.out, "info", <<>>)
          /\ Has(r.out, "last_gtid", LastGtid(o.changes))
      BY <3>1, <3>3, PutHas DEF OkFront
    <3>5. Right
      <4>1. Session(r.out, caps, o) /\ OkFront(r.out, caps, o)
        BY <1>1, <1>15, <3>4 DEF Session
      <4>2. QED BY <4>1, OkFieldsFacts
    <3>6. QED BY <1>7, <2>12, <3>1, <3>5 DEF r, buff
  <2>13. QED BY <2>11, <2>12
<1>16. QED BY <1>12, <1>13, <1>14, <1>15

LEMMA TextsFacts ==
  ASSUME NEW n \in Int
  PROVE  Text(n) \in Seq(Nat) /\ Len(Text(n)) = (IF n < 0 THEN 0 ELSE n)
<1>1. \A i \in 1..n : 1 + (i % 2) \in Nat
  OBVIOUS
<1>2. CASE n >= 0
  <2>1. n \in Nat
    BY <1>2
  <2>2. QED BY <1>1, <1>2, <2>1 DEF Text
<1>3. CASE n < 0
  <2>1. 1..n = 1..0
    BY <1>3
  <2>2. Text(n) = [i \in 1..0 |-> 1 + (i % 2)]
    BY <2>1 DEF Text
  <2>3. QED BY <1>3, <2>2
<1>4. QED BY <1>2, <1>3

LEMMA ModesFacts ==
  ASSUME NEW mode \in Modes, NEW told \in {0, 2^SessionStateChanged}
  PROVE  /\ mode + told \in Word /\ mode \in Word /\ mode + 0 = mode
         /\ Flag(mode + told, SessionStateChanged) <=> told # 0
         /\ Flag(mode + told, NoBackslashEscapes) <=> Flag(mode, NoBackslashEscapes)
<1>1. 2^SessionStateChanged = 2 /\ 2^NoBackslashEscapes = 4
  BY DEF SessionStateChanged, NoBackslashEscapes
<1>2. PICK x \in Nat : x = Radix^2 /\ x >= 256
  <2>1. Radix * Radix >= 16 * Radix
    BY RadixFacts
  <2>2. PICK x \in Nat : x = Radix^2 /\ x >= 16 * Radix
    BY <2>1, Places
  <2>3. QED BY <2>2, RadixFacts
<1>3. mode \in {0, 4} /\ told \in {0, 2}
  BY <1>1 DEF Modes
<1>4. QED BY <1>1, <1>2, <1>3 DEF Word, Flag

\* What such an OK packet says of the server.
LEMMA OkSent ==
  ASSUME NEW caps, "SESSION_TRACK" \in caps => "PROTOCOL_41" \in caps, NEW rows \in Sizes, NEW id \in Sizes,
         NEW mode \in Modes, NEW warnings \in {0, 1}, NEW changes, Few(changes), NEW info \in Seq(Nat), Len(info) \in Sizes
  PROVE  /\ OkMeant(caps, Ok(rows, id, mode, warnings, changes, info))
         /\ ServerStatus(Ok(rows, id, mode, warnings, changes, info)) = mode + Tracking(changes)
<1>0. PICK o : o = Ok(rows, id, mode, warnings, changes, info)
  OBVIOUS
<1>1. /\ o.rows = rows /\ o.id = id /\ o.status = mode /\ o.warnings = warnings /\ o.changes = changes /\ o.info = info
  BY <1>0 DEF Ok
<1> DEFINE told == Tracking(changes)
<1>2. ServerStatus(o) = mode + told
  BY <1>1 DEF ServerStatus, Tracking
<1>3. told \in {0, 2^SessionStateChanged} /\ (told # 0 <=> changes # <<>>)
  <2>1. 2^SessionStateChanged = 2
    BY DEF SessionStateChanged
  <2>2. QED BY <2>1 DEF Tracking
<1> HIDE DEF told
<1>4. mode + told \in Word /\ (Flag(mode + told, SessionStateChanged) <=> told # 0)
  BY <1>3, ModesFacts
<1>5. warnings \in Word
  <2>1. PICK x \in Nat : x = Radix^2 /\ x > 1
    <3>1. Radix * Radix >= Radix
      BY RadixFacts
    <3>2. QED BY <3>1, RadixFacts, Places
  <2>2. QED BY <2>1 DEF Word
<1>6. OkMeant(caps, o)
  BY <1>1, <1>2, <1>3, <1>4, <1>5, FewFacts DEF OkMeant
<1>7. QED BY <1>0, <1>2, <1>6 DEF told

LEMMA TextNat == \A n \in Nat : Text(n) \in Seq(Nat) /\ Len(Text(n)) = n
<1> SUFFICES ASSUME NEW n \in Nat PROVE Text(n) \in Seq(Nat) /\ Len(Text(n)) = n
  OBVIOUS
<1>1. n \in Int /\ ~(n < 0)
  OBVIOUS
<1>2. Text(n) \in Seq(Nat) /\ Len(Text(n)) = IF n < 0 THEN 0 ELSE n
  BY <1>1, TextsFacts
<1>3. QED BY <1>1, <1>2

\* An end of rows as the server may mean it.
EndMeant(caps, mode, info, changes, o) ==
  /\ caps \in RowCaps /\ mode \in Modes /\ info \in {<<>>, Text(2)}
  /\ changes \in {<<>>, <<[type |-> 1, data |-> <<>>]>>, <<[type |-> Gtids, data |-> Text(1)]>>}
  /\ o = Ok(0, 0, mode, 1, IF "SESSION_TRACK" \in caps THEN changes ELSE <<>>, IF "SESSION_TRACK" \in caps THEN info ELSE <<>>)

LEMMA EndChanges ==
  ASSUME NEW changes,
         changes \in {<<>>, <<[type |-> 1, data |-> <<>>]>>, <<[type |-> Gtids, data |-> Text(1)]>>}
  PROVE  /\ Few(changes)
         /\ changes # <<>> => ServerChanges(changes) \in Seq(Nat) /\ Len(ServerChanges(changes)) <= 21
<1>2. Text(1) \in Seq(Nat) /\ Len(Text(1)) = 1
  BY TextNat
<1>3. PICK none \in Seq(Nat) : none = <<>> /\ Len(none) = 0
  BY EmptySeq
<1>4. PICK text \in Seq(Nat) : text = Text(1) /\ Len(text) = 1
  BY <1>2
<1>5. CASE changes = <<>>
  BY <1>5 DEF Few
<1>6. CASE changes # <<>>
  <2>1. PICK c : changes = <<c>> /\ c \in {[type |-> 1, data |-> none], [type |-> Gtids, data |-> text]}
    BY <1>3, <1>4, <1>6
  <2>2. PICK type, n \in Nat, data \in Seq(Nat) : type = c.type /\ data = c.data /\ n = Len(data) /\ n <= 1
    <3>1. CASE c = [type |-> 1, data |-> none]
      <4>1. c.type = 1 /\ c.data = none
        BY <3>1
      <4>2. 0 \in Nat /\ 1 \in Nat /\ 0 <= 1
        OBVIOUS
      <4>3. QED BY <1>3, <4>1, <4>2
    <3>2. CASE c = [type |-> Gtids, data |-> text]
      <4>1. c.type = 3 /\ c.data = text
        BY <3>2 DEF Gtids
      <4>2. 3 \in Nat /\ 1 \in Nat /\ 1 <= 1
        OBVIOUS
      <4>3. QED BY <1>4, <4>1, <4>2
    <3>3. QED BY <2>1, <3>1, <3>2
  <2>3. Brief(c)
    <3>1. n <= Radix
      BY <2>2, RadixFacts
    <3>2. QED BY <2>2, <3>1 DEF Brief
  <2>4. DOMAIN changes = 1..1 /\ changes[1] = c
    BY <2>1
  <2>5. Few(changes)
    <3>1. \A i \in 1..1 : Brief(changes[i])
      BY <2>3, <2>4
    <3>2. QED BY <1>6, <2>4, <3>1 DEF Few
  <2>6. ServerChanges(changes) \in Seq(Nat) /\ Len(ServerChanges(changes)) = Len(ServerChange(c))
    BY <1>6, <2>4, <2>5, FewFacts
  <2>7. Len(ServerChange(c)) \in 1..(Len(c.data) + 20)
    BY <2>3, BriefFacts
  <2>8. Len(ServerChange(c)) \in 1..(n + 20)
    BY <2>2, <2>7
  <2>9. Len(ServerChange(c)) <= 21
    BY <2>2, <2>8
  <2>10. QED BY <2>5, <2>6, <2>9
<1>7. QED BY <1>5, <1>6

LEMMA EndOk ==
  ASSUME NEW caps, NEW mode, NEW info, NEW changes, NEW o, EndMeant(caps, mode, info, changes, o)
  PROVE  /\ OkMeant(caps, o) /\ "PROTOCOL_41" \in caps
         /\ o.rows = 0 /\ o.id = 0 /\ o.warnings = 1 /\ o.status = mode /\ mode \in Word
         /\ "DEPRECATE_EOF" \notin caps => "SESSION_TRACK" \notin caps
         /\ "SESSION_TRACK" \notin caps => o.changes = <<>> /\ ServerStatus(o) = mode
         /\ OkTail(caps, o) \in Seq(Nat) /\ Len(OkTail(caps, o)) \in 0..60
         /\ Len(OkTail(caps, o)) < 2 => o.changes = <<>>
         /\ ServerStatus(o) = mode + Tracking(o.changes)
<1>1. PICK none \in Seq(Nat) : none = <<>> /\ Len(none) = 0
  BY EmptySeq
<1>3. PICK text \in Seq(Nat) : text = Text(2) /\ Len(text) = 2
  <2>1. Text(2) \in Seq(Nat) /\ Len(Text(2)) = 2
    BY TextNat
  <2>2. QED BY <2>1
<1>4. "PROTOCOL_41" \in caps /\ ("DEPRECATE_EOF" \notin caps => "SESSION_TRACK" \notin caps)
  BY DEF EndMeant, RowCaps, V41
<1> DEFINE track == "SESSION_TRACK" \in caps
           cs == IF track THEN changes ELSE <<>>
           x == IF track THEN info ELSE <<>>
<1>5. x \in Seq(Nat) /\ Len(x) \in 0..2
  <2>1. x \in {none, text}
    <3>1. info \in {none, text}
      BY <1>1, <1>3 DEF EndMeant
    <3>2. QED BY <1>1, <3>1
  <2>2. Len(none) \in 0..2 /\ Len(text) \in 0..2
    BY <1>1, <1>3
  <2>3. QED BY <2>1, <2>2
<1>6. Few(cs) /\ (cs # <<>> => ServerChanges(cs) \in Seq(Nat) /\ Len(ServerChanges(cs)) <= 21)
  <2>1. Few(<<>>)
    BY DEF Few
  <2>2. Few(changes) /\ (changes # <<>> => ServerChanges(changes) \in Seq(Nat) /\ Len(ServerChanges(changes)) <= 21)
    BY EndChanges DEF EndMeant
  <2>3. CASE track
    BY <2>2, <2>3
  <2>4. CASE ~track
    BY <2>1, <2>4
  <2>5. QED BY <2>3, <2>4
<1>7. o = Ok(0, 0, mode, 1, cs, x) /\ mode \in Modes
  BY DEF EndMeant
<1>8. (~track => cs = <<>>) /\ (track <=> "SESSION_TRACK" \in caps)
  OBVIOUS
<1> HIDE DEF cs, x, track
<1>9. PICK zero, one \in Nat : zero = 0 /\ one = 1
  OBVIOUS
<1>10. zero \in Sizes /\ Len(x) \in Sizes
  <2>1. zero <= Radix^3 /\ \A n \in 0..2 : n \in Nat /\ n <= Radix^3
    <3>1. Radix^3 = Radix * Radix^2 /\ Radix^2 = Radix * Radix /\ Radix^2 \in Nat /\ Radix \in Nat /\ Radix >= 16
      BY RadixFacts, Places
    <3>2. PICK s \in Nat : s = Radix^2 /\ s >= Radix
      <4>1. Radix * Radix >= Radix
        BY <3>1
      <4>2. QED BY <3>1, <4>1
    <3>3. Radix * s >= s
      BY <3>1
    <3>4. Radix^3 \in Nat /\ Radix^3 >= 16
      <4>1. PICK y \in Nat : y = Radix^3 /\ y = Radix * s
        BY <3>1, <3>2, Places
      <4>2. QED BY <3>1, <3>2, <3>3, <4>1
    <3>5. QED BY <1>9, <3>4
  <2>2. QED BY <1>5, <1>9, <2>1, InSizes
<1>11. o = Ok(zero, zero, mode, one, cs, x) /\ one \in {0, 1}
  BY <1>7, <1>9
<1>12. /\ OkMeant(caps, o)
       /\ ServerStatus(o) = mode + Tracking(cs)
  <2>1. "SESSION_TRACK" \in caps => "PROTOCOL_41" \in caps
    BY <1>4
  <2>2. mode \in Modes /\ Few(cs) /\ x \in Seq(Nat)
    BY <1>5, <1>6, <1>7
  <2> DEFINE ok == Ok(zero, zero, mode, one, cs, x)
  <2>3. OkMeant(caps, ok) /\ ServerStatus(ok) = mode + Tracking(cs)
    <3>1. mode \in Modes /\ Few(cs) /\ x \in Seq(Nat) /\ Len(x) \in Sizes /\ zero \in Sizes /\ one \in {0, 1}
      BY <1>10, <1>11, <2>2
    <3> HIDE DEF ok
    <3>2. PICK a, b, w, c, d, e : a = zero /\ b = zero /\ w = one /\ c = cs /\ d = x /\ e = mode
      OBVIOUS
    <3>3. a \in Sizes /\ b \in Sizes /\ w \in {0, 1} /\ Few(c) /\ d \in Seq(Nat) /\ Len(d) \in Sizes /\ e \in Modes
      BY <3>1, <3>2
    <3>4. OkMeant(caps, Ok(a, b, e, w, c, d))
      BY <2>1, <3>3, OkSent
    <3>5. ServerStatus(Ok(a, b, e, w, c, d)) = e + Tracking(c)
      BY <2>1, <3>3, OkSent
    <3>6. QED BY <3>2, <3>4, <3>5 DEF ok
  <2>4. QED BY <1>11, <2>3
<1>13. o.rows = 0 /\ o.id = 0 /\ o.warnings = 1 /\ o.status = mode /\ o.changes = cs /\ o.info = x
  BY <1>7 DEF Ok
<1>14. mode \in Word /\ mode + 0 = mode
  <2>1. PICK told : told = 0 /\ told \in {0, 2^SessionStateChanged}
    OBVIOUS
  <2>2. mode \in Word /\ mode + 0 = mode
    BY <1>7, <2>1, ModesFacts
  <2>3. QED BY <2>2
<1>15. PICK t \in Seq(Nat) : t = ServerText(x) /\ Len(t) \in 1..11
  <2>1. ServerText(x) \in Seq(Nat) /\ Len(ServerText(x)) \in (1 + Len(x))..(9 + Len(x))
    BY <1>5, TextLen
  <2>2. PICK l \in 0..2 : l = Len(x)
    BY <1>5
  <2>3. PICK k \in (1 + l)..(9 + l) : k = Len(ServerText(x))
    BY <2>1, <2>2
  <2>4. k \in 1..11
    OBVIOUS
  <2>5. QED BY <2>1, <2>3, <2>4
<1>16. CASE cs = <<>>
  <2>0. Tracking(cs) = 0
    BY <1>16 DEF Tracking
  <2>1. OkTail(caps, o) \in {x, none, t}
    BY <1>1, <1>13, <1>15, <1>16 DEF OkTail
  <2>2. OkTail(caps, o) \in Seq(Nat)
    BY <1>1, <1>5, <1>15, <2>1
  <2>3. Len(OkTail(caps, o)) \in 0..60
    BY <1>1, <1>5, <1>15, <2>1
  <2>4. QED BY <1>4, <1>12, <1>13, <1>14, <1>16, <2>0, <2>2, <2>3
<1>17. CASE cs # <<>>
  <2>1. PICK b \in Seq(Nat) : b = ServerText(ServerChanges(cs)) /\ Len(b) \in 1..30
    <3>1. PICK q \in Seq(Nat) : q = ServerChanges(cs) /\ Len(q) <= 21
      BY <1>6, <1>17
    <3>2. ServerText(q) \in Seq(Nat) /\ Len(ServerText(q)) \in (1 + Len(q))..(9 + Len(q))
      BY TextLen
    <3>3. PICK l \in 0..21 : l = Len(q)
      <4>1. Len(q) \in Nat
        OBVIOUS
      <4>2. Len(q) <= 21
        BY <3>1
      <4>3. \A n \in Nat : n <= 21 => n \in 0..21
        OBVIOUS
      <4>4. QED BY <4>1, <4>2, <4>3
    <3>4. PICK k \in (1 + l)..(9 + l) : k = Len(ServerText(q))
      BY <3>2, <3>3
    <3>5. k \in 1..30
      OBVIOUS
    <3>6. QED BY <3>1, <3>2, <3>4, <3>5
  <2>2. OkTail(caps, o) = t \o b
    BY <1>8, <1>13, <1>15, <1>17, <2>1 DEF OkTail
  <2>3. t \o b \in Seq(Nat) /\ Len(t \o b) = Len(t) + Len(b)
    BY JoinAt
  <2>4. PICK l \in 1..11, m \in 1..30 : l = Len(t) /\ m = Len(b)
    BY <1>15, <2>1
  <2>5. Len(t \o b) \in 0..60 /\ ~(Len(t \o b) < 2)
    <3>1. Len(t \o b) = l + m
      BY <2>3, <2>4
    <3>2. l + m \in 0..60 /\ ~(l + m < 2)
      OBVIOUS
    <3>3. QED BY <3>1, <3>2
  <2>6. track
    BY <1>8, <1>17
  <2>7. QED BY <1>4, <1>8, <1>12, <1>13, <1>14, <1>17, <2>2, <2>3, <2>5, <2>6
<1>18. QED BY <1>16, <1>17

EndFields(caps, o) ==
  IF "DEPRECATE_EOF" \in caps THEN OkFields(caps, o) ELSE [status_flags |-> o.status, warning_count |-> 1]

\* The packet that ends rows, as either row parser and as read_eof_packet see it.
LEMMA EndReads ==
  ASSUME NEW caps, NEW mode, NEW info, NEW changes, NEW o, EndMeant(caps, mode, info, changes, o)
  PROVE  LET buff == EndPacket(caps, o)
             r == ReadEof(buff, caps)
         IN /\ buff \in Seq(Nat) /\ buff # <<>> /\ buff[1] = PacketEof
            /\ r.rc = "OK" => \A f \in DOMAIN EndFields(caps, o) : r.out[f] = EndFields(caps, o)[f]
            /\ Len(buff) < 9 => r.rc = "OK"
            /\ ~(Len(buff) < 9) => ParseRow(buff, 2).rc = "TRUNCATED_PACKET"
<1> DEFINE buff == EndPacket(caps, o)
           r == ReadEof(buff, caps)
<1>1. /\ OkMeant(caps, o) /\ "PROTOCOL_41" \in caps
      /\ o.rows = 0 /\ o.id = 0 /\ o.warnings = 1 /\ o.status = mode /\ mode \in Word
      /\ Len(OkTail(caps, o)) < 2 => o.changes = <<>>
  BY EndOk
<1>2. CASE "DEPRECATE_EOF" \in caps
  <2>1. PICK tail \in Seq(Nat) : tail = OkTail(caps, o) /\ Len(tail) \in 0..60
    BY EndOk
  <2>2. buff = ServerOk(PacketEof, caps, o) /\ r = ParseOk(buff, caps) /\ EndFields(caps, o) = OkFields(caps, o)
    BY <1>2 DEF EndPacket, ReadEof, EndFields
  <2>3. PICK e \in Nat : e = PacketEof
    BY RadixFacts DEF PacketEof
  <2>4. /\ ServerOk(e, caps, o) \in Seq(Nat)
        /\ ParseOk(ServerOk(e, caps, o), caps).rc
             = IF "SESSION_TRACK" \in caps /\ GtidTooLong(o.changes) THEN "PROTOCOL_VIOLATION" ELSE "OK"
        /\ ParseOk(ServerOk(e, caps, o), caps).rc = "OK" =>
             \A f \in DOMAIN OkFields(caps, o) : ParseOk(ServerOk(e, caps, o), caps).out[f] = OkFields(caps, o)[f]
    BY <1>1, OkReadsBack
  <2> HIDE DEF buff, r
  <2>5. /\ buff \in Seq(Nat)
        /\ r.rc = IF "SESSION_TRACK" \in caps /\ GtidTooLong(o.changes) THEN "PROTOCOL_VIOLATION" ELSE "OK"
        /\ r.rc = "OK" => \A f \in DOMAIN OkFields(caps, o) : r.out[f] = OkFields(caps, o)[f]
    BY <2>2, <2>3, <2>4
  <2>6. buff[1] = PacketEof /\ buff[6] = 1 /\ Len(buff) = 7 + Len(tail)
    BY <1>1, <2>1, <2>2, EndBytes
  <2>7. PICK l \in 0..60 : l = Len(tail) /\ Len(buff) = 7 + l
    BY <2>1, <2>6
  <2>8. buff # <<>>
    <3>1. 7 + l # 0
      OBVIOUS
    <3>2. Len(<<>>) = 0
      OBVIOUS
    <3>3. QED BY <2>7, <3>1, <3>2
  <2>9. Len(buff) < 9 => r.rc = "OK"
    <3> SUFFICES ASSUME Len(buff) < 9 PROVE r.rc = "OK"
      OBVIOUS
    <3>1. 7 + l < 9
      BY <2>7
    <3>2. l < 2
      BY <3>1
    <3>3. o.changes = <<>>
      BY <1>1, <2>1, <2>7, <3>2
    <3>4. DOMAIN <<>> = {}
      OBVIOUS
    <3>5. ~GtidTooLong(o.changes)
      BY <3>3, <3>4 DEF GtidTooLong
    <3>6. QED BY <2>5, <3>5
  <2>10. ~(Len(buff) < 9) => ParseRow(buff, 2).rc = "TRUNCATED_PACKET"
    <3> SUFFICES ASSUME ~(Len(buff) < 9) PROVE ParseRow(buff, 2).rc = "TRUNCATED_PACKET"
      OBVIOUS
    <3>1. Len(buff) >= 9
      <4>1. ~(7 + l < 9)
        BY <2>7
      <4>2. 7 + l >= 9
        BY <4>1
      <4>3. QED BY <2>7, <4>2
    <3>2. Len(buff) < Radix^2
      <4>1. PICK x \in Nat : x = Radix^2 /\ x >= 256
        <5>1. Radix * Radix >= 16 * Radix
          BY RadixFacts
        <5>2. PICK x \in Nat : x = Radix^2 /\ x >= 16 * Radix
          BY <5>1, Places
        <5>3. QED BY <5>2, RadixFacts
      <4>2. 7 + l < x
        BY <4>1
      <4>3. QED BY <2>7, <4>1, <4>2
    <3>3. buff[6] >= 1
      BY <2>6
    <3>4. QED BY <2>5, <2>6, <3>1, <3>2, <3>3, FarRow
  <2>11. QED BY <2>2, <2>5, <2>6, <2>8, <2>9, <2>10 DEF buff, r
<1>3. CASE "DEPRECATE_EOF" \notin caps
  <2>1. buff = ServerEof(caps, o) /\ r = ParseEof(buff, caps)
        /\ EndFields(caps, o) = [status_flags |-> o.status, warning_count |-> 1]
    BY <1>3 DEF EndPacket, ReadEof, EndFields
  <2>2. o.status \in Word /\ o.warnings \in Word
    BY <1>1 DEF OkMeant
  <2>3. /\ buff \in Seq(Nat) /\ Len(buff) = 5 /\ buff[1] = PacketEof
        /\ r.rc = "OK" /\ r.out.status_flags = o.status /\ r.out.warning_count = o.warnings
    BY <1>1, <2>1, <2>2, EofReadsBack
  <2> HIDE DEF buff, r
  <2> DEFINE fields == [status_flags |-> o.status, warning_count |-> 1]
  <2>4. DOMAIN fields = {"status_flags", "warning_count"} /\ fields.status_flags = o.status /\ fields.warning_count = 1
    OBVIOUS
  <2> HIDE DEF fields
  <2>5. \A f \in DOMAIN fields : r.out[f] = fields[f]
    BY <1>1, <2>3, <2>4
  <2>6. buff # <<>> /\ Len(buff) < 9
    <3>1. Len(<<>>) = 0 /\ 5 < 9 /\ 5 # 0
      OBVIOUS
    <3>2. QED BY <2>3, <3>1
  <2>7. QED BY <2>1, <2>3, <2>5, <2>6 DEF buff, r, fields
<1>4. QED BY <1>2, <1>3

\* What the client makes of it in front of a row.
LEMMA EndOutcome ==
  ASSUME NEW caps, NEW mode, NEW info, NEW changes, NEW o, EndMeant(caps, mode, info, changes, o), NEW row, NEW first
  PROVE  LET buff == EndPacket(caps, o)
             s == RowOutcome(first, buff, caps, row)
             r == ReadEof(buff, caps)
         IN /\ Len(buff) < 9 => s.rc = "EOF" /\ r.rc = "OK" /\ s.out = r.out
            /\ ~(Len(buff) < 9) => s = row
<1> DEFINE buff == EndPacket(caps, o)
           s == RowOutcome(first, buff, caps, row)
           r == ReadEof(buff, caps)
<1>1. buff \in Seq(Nat) /\ buff # <<>> /\ buff[1] = PacketEof /\ (Len(buff) < 9 => r.rc = "OK")
  BY EndReads
<1>2. Good(r, <<>>)
  BY <1>1, ReadEofGood
<1> HIDE DEF buff
<1>3. PacketType(first, buff) = PacketEof /\ PacketEof # PacketErr
  BY <1>1, RadixFacts DEF PacketType, PacketEof, PacketErr
<1>4. EndsRows(PacketType(first, buff), Len(buff)) <=> Len(buff) < 9
  BY <1>3 DEF EndsRows
<1>5. CASE Len(buff) < 9
  <2>1. s = Then(r, LAMBDA t : [t EXCEPT !.rc = "EOF"])
    BY <1>4, <1>5 DEF RowOutcome
  <2> HIDE DEF s, r
  <2>2. s = [r EXCEPT !.rc = "EOF"]
    BY <1>1, <1>5, <2>1 DEF Then, r
  <2>3. s.rc = "EOF" /\ s.out = r.out
    BY <1>2, <2>2 DEF Good, Safe, Parts
  <2>4. QED BY <1>1, <1>5, <2>3 DEF s, r, buff
<1>6. CASE ~(Len(buff) < 9)
  <2>1. s = row
    BY <1>3, <1>4, <1>6 DEF RowOutcome
  <2>2. QED BY <1>6, <2>1 DEF buff
<1>7. QED BY <1>5, <1>6

\* What the client returns for an OK packet.
OkReturn(caps, o) == IF "SESSION_TRACK" \in caps /\ GtidTooLong(o.changes) THEN "PROTOCOL_VIOLATION" ELSE "OK"

\* An OK packet under way, the end of rows under way, and what the client has
\* made of the server's status from either.
OkUnderWay ==
  \E o : /\ OkMeant(sent.caps, o) /\ packet = ServerOk(PacketOk, sent.caps, o) /\ sent.fields = OkFields(sent.caps, o)
         /\ sent.rc = OkReturn(sent.caps, o)
         /\ server = IF "PROTOCOL_41" \in sent.caps THEN ServerStatus(o) ELSE conn.status

EndUnderWay ==
  \E mode, info, changes, o :
    EndMeant(sent.caps, mode, info, changes, o) /\ packet = EndPacket(sent.caps, o) /\ server = ServerStatus(o)

LiteralUnderWay ==
  \E str \in Seq(Chars) : sent.fields.str = str /\ packet = Escaped(str, Flag(server, NoBackslashEscapes))

StatusFollows ==
  /\ phase = "idle" => server \in Modes /\ conn.status = server
  /\ phase = "wire" /\ damage = "none" /\ sent.kind = "ok" => OkUnderWay
  /\ phase = "wire" /\ damage = "none" /\ sent.kind = "row_end" => EndUnderWay /\ sent.arg = 2
  /\ phase = "read" /\ damage = "none" /\ sent.kind \in {"ok", "row_end"} /\ got.rc \in {"OK", "EOF"} => conn.status = server
  /\ phase = "wire" /\ sent.kind = "escape" => LiteralUnderWay

LEMMA SendFacts ==
  ASSUME NEW kind, NEW caps, NEW arg, NEW bytes, NEW rc, NEW fields, Send(kind, caps, arg, bytes, rc, fields)
  PROVE  phase' = "wire" /\ sent'.kind = kind /\ sent'.caps = caps /\ sent'.arg = arg /\ sent'.rc = rc /\ sent'.fields = fields
         /\ packet' = bytes /\ damage' = damage /\ conn' = conn /\ got' = got
BY DEF Send

\* A packet of another kind.
LEMMA OtherSent ==
  ASSUME NEW kind, kind \notin {"ok", "row_end", "escape"}, NEW caps, NEW arg, NEW bytes, NEW rc, NEW fields,
         Send(kind, caps, arg, bytes, rc, fields)
  PROVE  StatusFollows'
<1>1. phase' = "wire" /\ sent'.kind = kind
  BY SendFacts
<1>2. QED BY <1>1 DEF StatusFollows

\* Any of the OK packets.
LEMMA OkSentFollows ==
  ASSUME Idle, StatusFollows, NEW caps \in CapSets, NEW rows \in Sizes, NEW id \in Sizes, NEW mode \in Modes,
         "PROTOCOL_41" \notin caps => mode = server,
         NEW warnings \in {0, 1}, NEW changes, Few(changes), NEW info \in {<<>>, Text(2)},
         SendOk(caps, Ok(rows, id, mode, warnings, changes, info))
  PROVE  StatusFollows'
<1> DEFINE o == Ok(rows, id, mode, warnings, changes, info)
<1>1. "SESSION_TRACK" \in caps => "PROTOCOL_41" \in caps
  BY DEF CapSets, Tracked, V41
<1>2. PICK x \in Seq(Nat) : x = info /\ Len(x) \in Sizes
  <2>1. <<>> \in Seq(Nat) /\ Len(<<>>) = 0 /\ 0 \in Nat /\ 2 \in Nat
    OBVIOUS
  <2>2. Text(2) \in Seq(Nat) /\ Len(Text(2)) = 2
    BY TextNat
  <2>3. 0 <= Radix + 5 /\ 2 <= Radix + 5
    BY RadixFacts
  <2>4. 0 \in Sizes /\ 2 \in Sizes
    BY <2>1, <2>3, SmallSizes
  <2>5. QED BY <2>1, <2>2, <2>4
<1>3. OkMeant(caps, Ok(rows, id, mode, warnings, changes, x))
  BY <1>1, <1>2, OkSent
<1>4. PICK k : k = o /\ OkMeant(caps, k)
  BY <1>2, <1>3
<1>5. Send("ok", caps, 0, ServerOk(PacketOk, caps, k), OkReturn(caps, k), OkFields(caps, k))
  BY <1>4 DEF SendOk, OkReturn
<1>6. server' = IF "PROTOCOL_41" \in caps THEN ServerStatus(k) ELSE server
  BY <1>4 DEF SendOk
<1> HIDE DEF o
<1>7. /\ phase' = "wire" /\ sent'.kind = "ok" /\ sent'.caps = caps /\ packet' = ServerOk(PacketOk, caps, k) /\ conn' = conn
      /\ sent'.fields = OkFields(caps, k) /\ sent'.rc = OkReturn(caps, k)
  BY <1>5, SendFacts
<1>8. conn.status = server
  BY DEF StatusFollows, Idle
<1>9. OkUnderWay'
  BY <1>4, <1>6, <1>7, <1>8 DEF OkUnderWay
<1>10. QED BY <1>7, <1>9 DEF StatusFollows

LEMMA InitFollows == Init => StatusFollows
BY DEF Init, StatusFollows

LEMMA CountersFollow ==
  ASSUME StatusFollows, SendCounters
  PROVE  StatusFollows'
<1>1. PICK caps \in CapSets, rows \in Numbers, id \in {0, NullLeader} : SendOk(caps, Ok(rows, id, server, 1, <<>>, <<>>))
  BY DEF SendCounters
<1>2. Idle /\ server \in Modes
  BY DEF SendCounters, Idle, StatusFollows
<1>3. rows \in Sizes /\ id \in Sizes
  <2>1. /\ Radix^3 = Radix * Radix^2 /\ Radix^2 = Radix * Radix /\ Radix^2 \in Nat /\ Radix \in Nat /\ Radix >= 16
        /\ NullLeader \in Nat /\ NullLeader < Radix /\ NullLeader >= 1
    BY RadixFacts, Places DEF NullLeader
  <2>2. PICK k, s \in Nat : k = Radix /\ s = Radix^2 /\ s >= k /\ k >= 16
    <3>1. Radix * Radix >= Radix
      BY <2>1
    <3>2. QED BY <2>1, <3>1
  <2>3. k * s >= s
    BY <2>2
  <2>4. PICK y, n \in Nat : y = Radix^3 /\ y = k * s /\ y >= s /\ n = NullLeader /\ n < k /\ n >= 1
    BY <2>1, <2>2, <2>3, Places
  <2>5. rows \in {0, n - 1, n, s - 1, s, y - 1, y}
    BY <2>2, <2>4 DEF Numbers
  <2>6. \A m \in {0, n - 1, n, s - 1, s, y - 1, y} : m \in Nat /\ m <= y
    BY <2>2, <2>4
  <2>7. QED BY <2>4, <2>5, <2>6, InSizes
<1>4. PICK mode, warnings, changes, info : mode = server /\ warnings = 1 /\ changes = <<>> /\ info = <<>>
  OBVIOUS
<1>5. mode \in Modes /\ warnings \in {0, 1} /\ Few(changes) /\ info \in {<<>>, Text(2)}
      /\ ("PROTOCOL_41" \notin caps => mode = server)
  BY <1>2, <1>4 DEF Few
<1>6. SendOk(caps, Ok(rows, id, mode, warnings, changes, info))
  BY <1>1, <1>4
<1>7. QED BY <1>2, <1>3, <1>5, <1>6, OkSentFollows

LEMMA StatusSendFollows ==
  ASSUME StatusFollows, SendStatus
  PROVE  StatusFollows'
<1>1. PICK caps \in CapSets, told \in Modes, info \in {<<>>, Text(2)} :
        SendOk(caps, Ok(0, 0, IF "PROTOCOL_41" \in caps THEN told ELSE server, 0, <<>>, info))
  BY DEF SendStatus
<1>2. Idle /\ server \in Modes
  BY DEF SendStatus, Idle, StatusFollows
<1>3. PICK mode, warnings, changes, rows :
        mode = (IF "PROTOCOL_41" \in caps THEN told ELSE server) /\ warnings = 0 /\ changes = <<>> /\ rows = 0
  OBVIOUS
<1>4. rows \in Sizes
  <2>1. \A n : n = 0 => n \in Nat /\ n <= Radix + 5
    BY RadixFacts
  <2>2. QED BY <1>3, <2>1, SmallSizes
<1>5. mode \in Modes /\ warnings \in {0, 1} /\ Few(changes) /\ ("PROTOCOL_41" \notin caps => mode = server)
  BY <1>2, <1>3 DEF Few
<1>6. SendOk(caps, Ok(rows, rows, mode, warnings, changes, info))
  BY <1>1, <1>3
<1>7. QED BY <1>2, <1>4, <1>5, <1>6, OkSentFollows

LEMMA ChangesFew ==
  ASSUME NEW changes \in Changes
  PROVE  Few(changes)
<1>1. PICK g, k \in Nat : g = GtidMax /\ k = Radix /\ g < k /\ k >= 16
  BY RadixFacts, ProtocolAssumption
<1>2. \A n \in Int : n <= k => Text(n) \in Seq(Nat) /\ Len(Text(n)) <= k
  BY <1>1, TextsFacts
<1>3. ASSUME NEW c \in Change PROVE Brief(c)
  <2>1. CASE c \in [type : {Gtids}, data : {Text(n) : n \in {1, GtidMax - 1, GtidMax, GtidMax + 1}}]
    <3>1. c.type = 3 /\ c.data \in {Text(n) : n \in {1, g - 1, g, g + 1}}
      BY <1>1, <2>1 DEF Gtids
    <3>2. PICK n \in {1, g - 1, g, g + 1} : c.data = Text(n)
      BY <3>1
    <3>3. n \in Int /\ n <= k
      BY <1>1
    <3>4. 3 \in Nat
      OBVIOUS
    <3>5. QED BY <1>1, <1>2, <3>1, <3>2, <3>3, <3>4 DEF Brief
  <2>2. CASE c \in [type : {1}, data : {Text(0), Text(2)}]
    <3>1. c.type = 1 /\ c.data \in {Text(0), Text(2)}
      BY <2>2
    <3>2. PICK n \in {0, 2} : c.data = Text(n)
      BY <3>1
    <3>3. n \in Int /\ n <= k /\ 1 \in Nat
      BY <1>1
    <3>4. QED BY <1>1, <1>2, <3>1, <3>2, <3>3 DEF Brief
  <2>3. QED BY <2>1, <2>2 DEF Change
<1>4. CASE changes = <<>>
  BY <1>4 DEF Few
<1>5. CASE \E c \in Change : changes = <<c>>
  <2>1. PICK c \in Change : changes = <<c>>
    BY <1>5
  <2>2. changes # <<>> /\ DOMAIN changes = 1..1 /\ changes[1] = c
    BY <2>1
  <2>3. \A i \in 1..1 : Brief(changes[i])
    BY <1>3, <2>2
  <2>4. QED BY <2>2, <2>3 DEF Few
<1>6. CASE \E c, d \in Change : changes = <<c, d>>
  <2>1. PICK c, d \in Change : changes = <<c, d>>
    BY <1>6
  <2>2. changes # <<>> /\ DOMAIN changes = 1..2 /\ changes[1] = c /\ changes[2] = d
    BY <2>1
  <2>3. \A i \in 1..2 : Brief(changes[i])
    BY <1>3, <2>2
  <2>4. QED BY <2>2, <2>3 DEF Few
<1>7. QED BY <1>4, <1>5, <1>6 DEF Changes

LEMMA SessionFollows ==
  ASSUME StatusFollows, SendSession
  PROVE  StatusFollows'
<1>1. PICK changes \in Changes, mode \in Modes : SendOk(Tracked, Ok(0, 0, mode, 0, changes, <<>>))
  BY DEF SendSession
<1>2. Idle
  BY DEF SendSession
<1>3. PICK caps, warnings, info, rows : caps = Tracked /\ warnings = 0 /\ info = <<>> /\ rows = 0
  OBVIOUS
<1>4. rows \in Sizes
  <2>1. \A n : n = 0 => n \in Nat /\ n <= Radix + 5
    BY RadixFacts
  <2>2. QED BY <1>3, <2>1, SmallSizes
<1>5. caps \in CapSets /\ "PROTOCOL_41" \in caps /\ warnings \in {0, 1} /\ Few(changes) /\ info \in {<<>>, Text(2)}
  BY <1>3, ChangesFew DEF CapSets, Tracked
<1>6. SendOk(caps, Ok(rows, rows, mode, warnings, changes, info))
  BY <1>1, <1>3
<1>7. QED BY <1>2, <1>4, <1>5, <1>6, OkSentFollows

\* What ends the rows as it is sent.
EndSent(caps, kind, info, mode, changes, o, arg) ==
  /\ EndMeant(caps, mode, info, changes, o)
  /\ kind \in {"row_end", "stmt_end"} /\ arg = IF kind = "row_end" THEN 2 ELSE <<Type.LONGLONG, Type.TINY>>
  /\ server' = ServerStatus(o)
  /\ Send(kind, caps, arg, EndPacket(caps, o), "EOF", EndFields(caps, o))

LEMMA EndIsSent ==
  ASSUME SendEnd
  PROVE  \E caps, kind, info, mode, changes, o, arg : EndSent(caps, kind, info, mode, changes, o, arg)
<1>1. PICK caps \in RowCaps, kind \in {"row_end", "stmt_end"}, info \in {<<>>, Text(2)}, mode \in Modes,
          changes \in {<<>>, <<[type |-> 1, data |-> <<>>]>>, <<[type |-> Gtids, data |-> Text(1)]>>} :
        LET o == Ok(0, 0, mode, 1, IF "SESSION_TRACK" \in caps THEN changes ELSE <<>>,
                    IF "SESSION_TRACK" \in caps THEN info ELSE <<>>)
            arg == IF kind = "row_end" THEN 2 ELSE <<Type.LONGLONG, Type.TINY>>
        IN /\ IF "DEPRECATE_EOF" \in caps
              THEN Send(kind, caps, arg, ServerOk(PacketEof, caps, o), "EOF", OkFields(caps, o))
              ELSE Send(kind, caps, arg, ServerEof(caps, o), "EOF", [status_flags |-> mode, warning_count |-> 1])
           /\ server' = ServerStatus(o)
  BY Zenon DEF SendEnd
<1>2. PICK o, arg :
        /\ o = Ok(0, 0, mode, 1, IF "SESSION_TRACK" \in caps THEN changes ELSE <<>>,
                  IF "SESSION_TRACK" \in caps THEN info ELSE <<>>)
        /\ arg = IF kind = "row_end" THEN 2 ELSE <<Type.LONGLONG, Type.TINY>>
        /\ IF "DEPRECATE_EOF" \in caps
           THEN Send(kind, caps, arg, ServerOk(PacketEof, caps, o), "EOF", OkFields(caps, o))
           ELSE Send(kind, caps, arg, ServerEof(caps, o), "EOF", [status_flags |-> mode, warning_count |-> 1])
        /\ server' = ServerStatus(o)
  BY <1>1, Zenon
<1>3. EndMeant(caps, mode, info, changes, o)
  BY <1>2, Zenon DEF EndMeant
<1>4. o.status = mode
  BY <1>3, EndOk
<1>5. Send(kind, caps, arg, EndPacket(caps, o), "EOF", EndFields(caps, o))
  <2>1. CASE "DEPRECATE_EOF" \in caps
    BY <1>2, <2>1, Zenon DEF EndPacket, EndFields
  <2>2. CASE "DEPRECATE_EOF" \notin caps
    BY <1>2, <1>4, <2>2, Zenon DEF EndPacket, EndFields
  <2>3. QED BY <2>1, <2>2
<1>6. EndSent(caps, kind, info, mode, changes, o, arg)
  BY <1>2, <1>3, <1>5, Zenon DEF EndSent
<1>7. QED BY <1>6, Zenon

LEMMA EndFollows ==
  ASSUME StatusFollows, SendEnd
  PROVE  StatusFollows'
<1>1. PICK caps, kind, info, mode, changes, o, arg : EndSent(caps, kind, info, mode, changes, o, arg)
  BY EndIsSent
<1>2. EndMeant(caps, mode, info, changes, o) /\ server' = ServerStatus(o)
  BY <1>1 DEF EndSent
<1>3. kind \in {"row_end", "stmt_end"} /\ arg = IF kind = "row_end" THEN 2 ELSE <<Type.LONGLONG, Type.TINY>>
  BY <1>1 DEF EndSent
<1>4. PICK fields : Send(kind, caps, arg, EndPacket(caps, o), "EOF", fields)
  BY <1>1 DEF EndSent
<1>5. CASE kind = "row_end"
  <2>1. arg = 2
    BY <1>3, <1>5
  <2>2. phase' = "wire" /\ sent'.kind = "row_end" /\ sent'.caps = caps /\ packet' = EndPacket(caps, o) /\ sent'.arg = 2
    BY <1>4, <1>5, <2>1, SendFacts
  <2>3. EndUnderWay'
    BY <1>2, <2>2 DEF EndUnderWay
  <2>4. QED BY <2>2, <2>3 DEF StatusFollows
<1>6. CASE kind # "row_end"
  <2>1. kind \notin {"ok", "row_end", "escape"}
    BY <1>3, <1>6
  <2>2. QED BY <1>4, <2>1, OtherSent
<1>7. QED BY <1>5, <1>6

LEMMA DamageFollows ==
  ASSUME StatusFollows, UnderWay, NEW what \in {"cut", "longer", "changed"}, NEW bytes, Damage(what, bytes)
  PROVE  StatusFollows'
<1>1. damage' # "none" /\ phase' = "wire" /\ sent'.kind \in FromServer
  BY DEF Damage, UnderWay
<1>2. sent'.kind # "escape"
  BY <1>1 DEF FromServer
<1>3. QED BY <1>1, <1>2 DEF StatusFollows

\* The status is in the connection's record.
Kept == "status" \in DOMAIN conn

\* Any packet but an OK, an end of rows and an escaped string.
LEMMA OtherSends ==
  ASSUME \/ SendErr \/ SendAuthSwitch \/ SendHandshake \/ SendResult \/ SendStmtOk \/ SendColumn
         \/ SendRowErr \/ ClientExecutes \/ ClientCommands \/ ClientLogsIn \/ ClientAsksForTls
  PROVE  \E kind, caps, arg, bytes, rc, fields :
           /\ kind \in {"err", "auth_switch", "handshake", "result", "stmt_ok", "column", "row_err", "execute",
                        "command", "login"}
           /\ Send(kind, caps, arg, bytes, rc, fields)
<1>1. CASE SendErr
  BY <1>1 DEF SendErr
<1>2. CASE SendAuthSwitch
  BY <1>2 DEF SendAuthSwitch
<1>3. CASE SendHandshake
  BY <1>3 DEF SendHandshake
<1>4. CASE SendResult
  BY <1>4 DEF SendResult
<1>5. CASE SendStmtOk
  BY <1>5 DEF SendStmtOk
<1>6. CASE SendColumn
  BY <1>6 DEF SendColumn
<1>9. CASE SendRowErr
  BY <1>9 DEF SendRowErr
<1>10. CASE ClientExecutes
  <2>1. \E binds : Execute(binds)
    BY <1>10, Zenon DEF ClientExecutes
  <2>2. QED BY <2>1 DEF Execute
<1>11. CASE ClientCommands
  <2>1. \E op, bytes, fields : Command(op, bytes, fields)
    BY <1>11, Zenon DEF ClientCommands
  <2>2. \A op, bytes, fields : Command(op, bytes, fields) => \E all : Send("command", {}, 0, bytes, "OK", all)
    BY Zenon DEF Command
  <2>3. QED BY <2>1, <2>2
<1>12. CASE ClientLogsIn
  BY <1>12 DEF ClientLogsIn
<1>13. CASE ClientAsksForTls
  BY <1>13 DEF ClientAsksForTls
<1>14. QED BY <1>1, <1>2, <1>3, <1>4, <1>5, <1>6, <1>9, <1>10, <1>11, <1>12, <1>13

LEMMA RowSends ==
  ASSUME SendRow \/ SendStmtRow
  PROVE  \E kind, caps, arg, bytes, rc, fields : kind \in {"row", "stmt_row"} /\ Send(kind, caps, arg, bytes, rc, fields)
<1>1. CASE SendRow
  BY <1>1 DEF SendRow
<1>2. CASE SendStmtRow
  <2>1. \E types, values : Binary(types, values)
    BY <1>2, Zenon DEF SendStmtRow
  <2>2. QED BY <2>1 DEF Binary
<1>3. QED BY <1>1, <1>2

LEMMA OtherFollows ==
  ASSUME \/ SendErr \/ SendAuthSwitch \/ SendHandshake \/ SendResult \/ SendStmtOk \/ SendColumn \/ SendRow
         \/ SendStmtRow \/ SendRowErr \/ ClientExecutes \/ ClientCommands \/ ClientLogsIn \/ ClientAsksForTls
  PROVE  StatusFollows'
<1>1. PICK kind, caps, arg, bytes, rc, fields : kind \notin {"ok", "row_end", "escape"} /\ Send(kind, caps, arg, bytes, rc, fields)
  BY OtherSends, RowSends
<1>2. QED BY <1>1, OtherSent

LEMMA NextKeeps ==
  ASSUME Kept, [Next]_vars
  PROVE  Kept'
<1>1. CASE SendCounters \/ SendStatus \/ SendSession
  <2>1. \E caps, o : SendOk(caps, o)
    BY <1>1 DEF SendCounters, SendStatus, SendSession
  <2>2. \E bytes, rc, fields, caps : Send("ok", caps, 0, bytes, rc, fields)
    BY <2>1 DEF SendOk
  <2>3. QED BY <2>2 DEF Send, Kept
<1>2. CASE SendEnd
  <2>1. \E kind, caps, arg, bytes, rc, fields : Send(kind, caps, arg, bytes, rc, fields)
    BY <1>2 DEF SendEnd
  <2>2. QED BY <2>1 DEF Send, Kept
<1>3. CASE \/ SendErr \/ SendAuthSwitch \/ SendHandshake \/ SendResult \/ SendStmtOk \/ SendColumn \/ SendRow
           \/ SendStmtRow \/ SendRowErr \/ ClientExecutes \/ ClientCommands \/ ClientLogsIn \/ ClientAsksForTls
  <2>1. \E kind, caps, arg, bytes, rc, fields : Send(kind, caps, arg, bytes, rc, fields)
    BY <1>3, OtherSends, RowSends
  <2>2. QED BY <2>1 DEF Send, Kept
<1>4. CASE Cut \/ Lengthen \/ Alter \/ ClientEscapes \/ ServerReads \/ UNCHANGED vars
  BY <1>4 DEF Cut, Lengthen, Alter, Damage, ClientEscapes, ServerReads, vars, Kept
<1>5. CASE ClientParses
  <2>1. PICK r, s : conn' = conn \/ conn' = ReadOk(conn, r, sent.caps) \/ conn' = KeepEof(conn, s, sent.caps)
    BY <1>5 DEF ClientParses
  <2>2. \A t : "status" \in DOMAIN ReadOk(conn, t, sent.caps)
    BY DEF ReadOk, Kept
  <2>3. "status" \in DOMAIN KeepEof(conn, s, sent.caps)
    <3>1. PICK t : t = [conn EXCEPT !.status = s.out.status_flags] /\ "status" \in DOMAIN t
      BY DEF Kept
    <3>2. KeepEof(conn, s, sent.caps) \in {conn, t, ReadOk(conn, s, sent.caps)}
      BY <3>1 DEF KeepEof
    <3>3. QED BY <2>2, <3>1, <3>2 DEF Kept
  <2>4. QED BY <2>1, <2>2, <2>3 DEF Kept
<1>6. QED BY <1>1, <1>2, <1>3, <1>4, <1>5 DEF Next

LEMMA StringsFacts == Strings \subseteq Seq(Chars)
<1>1. /\ <<>> \in Seq(Chars) /\ \A c \in Chars : <<c>> \in Seq(Chars)
      /\ \A c, d \in Chars : <<c, d>> \in Seq(Chars)
      /\ \A c, d, e \in Chars : <<c, d, e>> \in Seq(Chars)
  OBVIOUS
<1>2. {"quote", "backslash", "a"} \subseteq Chars
  <2>1. DOMAIN Lookup = {"quote", "dquote", "NUL", "LF", "CR", "SUB", "backslash"}
    BY DEF Lookup
  <2>2. {"quote", "backslash"} \subseteq DOMAIN Lookup
    BY <2>1
  <2>3. QED BY <2>2 DEF Chars
<1>3. SUFFICES ASSUME NEW str \in Strings PROVE str \in Seq(Chars)
  OBVIOUS
<1>4. CASE \E c \in Chars : str = <<c>>
  <2>1. PICK c \in Chars : str = <<c>>
    BY <1>4
  <2>2. QED BY <1>1, <2>1
<1>5. CASE \E c, d \in Chars : str = <<c, d>>
  <2>1. PICK c, d \in Chars : str = <<c, d>>
    BY <1>5
  <2>2. QED BY <1>1, <2>1
<1>6. CASE \E c, d, e \in {"quote", "backslash", "a"} : str = <<c, d, e>>
  <2>1. PICK c, d, e \in {"quote", "backslash", "a"} : str = <<c, d, e>>
    BY <1>6
  <2>2. c \in Chars /\ d \in Chars /\ e \in Chars
    BY <1>2
  <2>3. QED BY <1>1, <2>1, <2>2
<1>7. CASE str = <<>>
  BY <1>1, <1>7
<1>8. QED BY <1>4, <1>5, <1>6, <1>7 DEF Strings

LEMMA EscapesFollow ==
  ASSUME StatusFollows, ClientEscapes
  PROVE  StatusFollows'
<1>1. conn.status = server
  BY DEF ClientEscapes, StatusFollows
<1>2. PICK str \in Seq(Chars) :
        /\ sent' = [kind |-> "escape", caps |-> {}, arg |-> 0, rc |-> "OK", fields |-> [str |-> str]]
        /\ packet' = Escaped(str, Flag(conn.status, NoBackslashEscapes))
  BY StringsFacts DEF ClientEscapes
<1>3. phase' = "wire" /\ server' = server
  BY DEF ClientEscapes
<1>4. sent'.kind = "escape" /\ sent'.fields.str = str
  BY <1>2
<1>5. LiteralUnderWay'
  BY <1>1, <1>2, <1>3, <1>4 DEF LiteralUnderWay
<1>6. QED BY <1>3, <1>4, <1>5 DEF StatusFollows

LEMMA ReadsFollow ==
  ASSUME StatusFollows, ServerReads
  PROVE  StatusFollows'
<1>1. phase' = "read" /\ sent' = sent /\ sent.kind \notin FromServer
  BY DEF ServerReads
<1>2. sent.kind \notin {"ok", "row_end"}
  BY <1>1 DEF FromServer
<1>3. QED BY <1>1, <1>2 DEF StatusFollows

\* An OK packet is read.
LEMMA OkReceived ==
  ASSUME OkUnderWay, sent.kind = "ok", ClientParses, got'.rc \in {"OK", "EOF"}
  PROVE  conn'.status = server
<1>1. PICK o : /\ OkMeant(sent.caps, o) /\ packet = ServerOk(PacketOk, sent.caps, o)
               /\ server = IF "PROTOCOL_41" \in sent.caps THEN ServerStatus(o) ELSE conn.status
  BY DEF OkUnderWay
<1>2. PICK type \in Nat : type = PacketOk
  BY DEF PacketOk
<1>3. PICK caps, buff : caps = sent.caps /\ buff = ServerOk(type, caps, o) /\ buff = packet
  BY <1>1, <1>2
<1>4. PICK r : r = ParseOk(buff, caps)
  OBVIOUS
<1>5. /\ r.rc \in {"PROTOCOL_VIOLATION", "OK"}
      /\ r.rc = "OK" => \A f \in DOMAIN OkFields(caps, o) : r.out[f] = OkFields(caps, o)[f]
  <2>1. OkMeant(caps, o)
    BY <1>1, <1>3
  <2>2. /\ ParseOk(ServerOk(type, caps, o), caps).rc
             = IF "SESSION_TRACK" \in caps /\ GtidTooLong(o.changes) THEN "PROTOCOL_VIOLATION" ELSE "OK"
        /\ ParseOk(ServerOk(type, caps, o), caps).rc = "OK" =>
             \A f \in DOMAIN OkFields(caps, o) : ParseOk(ServerOk(type, caps, o), caps).out[f] = OkFields(caps, o)[f]
    BY <2>1, OkReadsBack
  <2>3. QED BY <1>3, <1>4, <2>2
<1>6. PICK first : got' = Outcome(Parse(first))
  BY DEF ClientParses
<1>7. Parse(first) = r
  BY <1>3, <1>4 DEF Parse
<1>8. got'.rc = r.rc /\ got'.out = r.out
  BY <1>6, <1>7 DEF Outcome
<1>9. r.rc = "OK"
  BY <1>5, <1>8
<1>10. conn' = ReadOk(conn, got', sent.caps)
  BY <1>8, <1>9 DEF ClientParses
<1>11. r.out.status_flags = IF "PROTOCOL_41" \in caps THEN ServerStatus(o) ELSE 0
  BY <1>5, <1>9 DEF OkFields
<1>12. conn'.status = IF "PROTOCOL_41" \in caps THEN r.out.status_flags ELSE conn.status
  BY <1>3, <1>8, <1>9, <1>10 DEF ReadOk
<1>13. QED BY <1>1, <1>3, <1>11, <1>12

\* So is an end of rows.
LEMMA EndReceived ==
  ASSUME EndUnderWay, Kept, sent.kind = "row_end", sent.arg = 2, ClientParses, got'.rc \in {"OK", "EOF"}
  PROVE  conn'.status = server
<1>1. PICK mode, info, changes, o :
        EndMeant(sent.caps, mode, info, changes, o) /\ packet = EndPacket(sent.caps, o) /\ server = ServerStatus(o)
  BY DEF EndUnderWay
<1>2. PICK caps, buff : caps = sent.caps /\ buff = EndPacket(caps, o) /\ buff = packet
  BY <1>1
<1>3. PICK r, row : r = ReadEof(buff, caps) /\ row = ParseRow(buff, 2)
  OBVIOUS
<1>4. EndMeant(caps, mode, info, changes, o)
  BY <1>1, <1>2
<1>5. /\ r.rc = "OK" => \A f \in DOMAIN EndFields(caps, o) : r.out[f] = EndFields(caps, o)[f]
      /\ ~(Len(buff) < 9) => row.rc = "TRUNCATED_PACKET"
  <2>1. /\ ReadEof(EndPacket(caps, o), caps).rc = "OK" =>
             \A f \in DOMAIN EndFields(caps, o) : ReadEof(EndPacket(caps, o), caps).out[f] = EndFields(caps, o)[f]
        /\ ~(Len(EndPacket(caps, o)) < 9) => ParseRow(EndPacket(caps, o), 2).rc = "TRUNCATED_PACKET"
    BY <1>4, EndReads
  <2>2. QED BY <1>2, <1>3, <2>1
<1>6. PICK first : got' = Outcome(Parse(first))
  BY DEF ClientParses
<1>7. PICK s : s = RowOutcome(first, buff, caps, row)
  OBVIOUS
<1>8. Parse(first) = s
  BY <1>2, <1>3, <1>7 DEF Parse
<1>9. (Len(buff) < 9 => s.rc = "EOF" /\ r.rc = "OK") /\ (~(Len(buff) < 9) => s = row)
  <2>1. LET e == EndPacket(caps, o)
            t == RowOutcome(first, e, caps, row)
        IN (Len(e) < 9 => t.rc = "EOF" /\ ReadEof(e, caps).rc = "OK") /\ (~(Len(e) < 9) => t = row)
    BY <1>4, EndOutcome
  <2>2. QED BY <1>2, <1>3, <1>7, <2>1
<1>10. got'.rc = s.rc
  BY <1>6, <1>8 DEF Outcome
<1>11. Len(buff) < 9 /\ r.rc = "OK" /\ got'.rc = "EOF"
  BY <1>5, <1>9, <1>10
<1>12. conn' = KeepEof(conn, r, caps)
  BY <1>2, <1>3, <1>11 DEF ClientParses
<1>13. "PROTOCOL_41" \in caps /\ o.status = mode
       /\ ("DEPRECATE_EOF" \notin caps => "SESSION_TRACK" \notin caps)
       /\ ("SESSION_TRACK" \notin caps => ServerStatus(o) = mode)
  BY <1>4, EndOk
<1>14. CASE "DEPRECATE_EOF" \in caps
  <2>1. conn'.status = r.out.status_flags
    BY <1>11, <1>12, <1>13, <1>14 DEF KeepEof, ReadOk
  <2>2. r.out.status_flags = ServerStatus(o)
    BY <1>5, <1>11, <1>13, <1>14 DEF EndFields, OkFields
  <2>3. QED BY <1>1, <2>1, <2>2
<1>15. CASE "DEPRECATE_EOF" \notin caps
  <2>1. conn'.status = r.out.status_flags
    BY <1>11, <1>12, <1>13, <1>15 DEF KeepEof, Kept
  <2>2. r.out.status_flags = mode
    BY <1>5, <1>11, <1>13, <1>15 DEF EndFields
  <2>3. QED BY <1>1, <1>13, <1>15, <2>1, <2>2
<1>16. QED BY <1>14, <1>15

LEMMA ParsesFollow ==
  ASSUME StatusFollows, Kept, ClientParses
  PROVE  StatusFollows'
<1>1. phase' = "read" /\ phase = "wire" /\ sent' = sent /\ damage' = damage /\ server' = server
  BY DEF ClientParses
<1>2. ASSUME damage = "none", sent.kind \in {"ok", "row_end"}, got'.rc \in {"OK", "EOF"}
      PROVE  conn'.status = server
  <2>1. CASE sent.kind = "ok"
    <3>1. OkUnderWay
      BY <1>1, <1>2, <2>1 DEF StatusFollows
    <3>2. QED BY <1>2, <2>1, <3>1, OkReceived
  <2>2. CASE sent.kind = "row_end"
    <3>1. EndUnderWay /\ sent.arg = 2
      BY <1>1, <1>2, <2>2 DEF StatusFollows
    <3>2. QED BY <1>2, <2>2, <3>1, EndReceived
  <2>3. QED BY <1>2, <2>1, <2>2
<1>3. QED BY <1>1, <1>2 DEF StatusFollows

LEMMA NextFollows == Kept /\ StatusFollows /\ [Next]_vars => Kept' /\ StatusFollows'
<1> SUFFICES ASSUME Kept, StatusFollows, [Next]_vars PROVE StatusFollows'
  BY NextKeeps
<1>1. CASE SendCounters
  BY <1>1, CountersFollow
<1>2. CASE SendStatus
  BY <1>2, StatusSendFollows
<1>3. CASE SendSession
  BY <1>3, SessionFollows
<1>4. CASE SendEnd
  BY <1>4, EndFollows
<1>5. CASE \/ SendErr \/ SendAuthSwitch \/ SendHandshake \/ SendResult \/ SendStmtOk \/ SendColumn \/ SendRow
           \/ SendStmtRow \/ SendRowErr \/ ClientExecutes \/ ClientCommands \/ ClientLogsIn \/ ClientAsksForTls
  BY <1>5, OtherFollows
<1>6. CASE Cut \/ Lengthen \/ Alter
  <2>1. UnderWay /\ \E what \in {"cut", "longer", "changed"} : \E bytes : Damage(what, bytes)
    BY <1>6 DEF Cut, Lengthen, Alter
  <2>2. QED BY <2>1, DamageFollows
<1>7. CASE ClientParses
  BY <1>7, ParsesFollow
<1>8. CASE ClientEscapes
  BY <1>8, EscapesFollow
<1>9. CASE ServerReads
  BY <1>9, ReadsFollow
<1>10. CASE UNCHANGED vars
  BY <1>10 DEF vars, StatusFollows, OkUnderWay, EndUnderWay, LiteralUnderWay
<1>11. QED BY <1>1, <1>2, <1>3, <1>4, <1>5, <1>6, <1>7, <1>8, <1>9, <1>10 DEF Next

(* EscapeReadsBack: trilogy_escape under the NO_BACKSLASH_ESCAPES bit of      *)
(* conn->server_status, which read_ok_packet and read_eof_packet keep, writes *)
(* what the server reads back in the mode it is in.                           *)
THEOREM EscapingReadsBack == Spec => []EscapeReadsBack
<1>1. StatusFollows => EscapeReadsBack
  <2> SUFFICES ASSUME StatusFollows, phase = "wire", sent.kind = "escape",
                      NEW q \in {"quote"} \cup (IF Flag(server, NoBackslashEscapes) THEN {} ELSE {"dquote"})
               PROVE  Lexed(q, Flag(server, NoBackslashEscapes), packet) = [text |-> sent.fields.str, whole |-> TRUE]
    BY DEF EscapeReadsBack
  <2>1. PICK str \in Seq(Chars) : sent.fields.str = str /\ packet = Escaped(str, Flag(server, NoBackslashEscapes))
    BY DEF StatusFollows, LiteralUnderWay
  <2>2. PICK plain \in BOOLEAN : plain = Flag(server, NoBackslashEscapes)
    BY DEF Flag
  <2>3. q \in Quotes(plain)
    BY <2>2 DEF Quotes
  <2>4. QED BY <2>1, <2>2, <2>3, EscapedIsOneLiteral
<1>2. Init => Kept
  BY DEF Init, Kept
<1>3. QED BY <1>1, <1>2, InitFollows, NextFollows, PTL DEF Spec

LEMMA TypedFacts ==
  /\ \A type \in Typed : type \in DOMAIN Width \cup DateTypes \cup {Type.TIME} \cup StringTypes
  /\ Typed \subseteq Nat /\ \A type \in DOMAIN Width : Width[type] \in {1, 2, 4, 8}
  /\ Type.NULL = 6 /\ Type.TINY = 1 /\ Type.SHORT = 2 /\ Type.VARCHAR = 15 /\ Type.LONGLONG = 8
<1>1. Typed \subseteq {0, 1, 2, 3, 4, 5, 7, 8, 9, 10, 11, 12, 13, 15}
  <2> SUFFICES ASSUME NEW t \in DOMAIN Type, Type[t] # Type.NULL
               PROVE  Type[t] \in {0, 1, 2, 3, 4, 5, 7, 8, 9, 10, 11, 12, 13, 15}
    BY DEF Typed
  <2>1. DOMAIN Type = {"DECIMAL", "TINY", "SHORT", "LONG", "FLOAT", "DOUBLE", "NULL", "TIMESTAMP", "LONGLONG", "INT24", "DATE",
                       "TIME", "DATETIME", "YEAR", "VARCHAR"}
    BY DEF Type
  <2>2. /\ Type["DECIMAL"] = 0 /\ Type["TINY"] = 1 /\ Type["SHORT"] = 2 /\ Type["LONG"] = 3 /\ Type["FLOAT"] = 4
        /\ Type["DOUBLE"] = 5 /\ Type["TIMESTAMP"] = 7 /\ Type["LONGLONG"] = 8 /\ Type["INT24"] = 9 /\ Type["DATE"] = 10
        /\ Type["TIME"] = 11 /\ Type["DATETIME"] = 12 /\ Type["YEAR"] = 13 /\ Type["VARCHAR"] = 15
    BY DEF Type
  <2>3. t # "NULL"
    OBVIOUS
  <2>4. QED BY <2>1, <2>2, <2>3
<1>2. \A type \in DOMAIN Width : Width[type] \in {1, 2, 4, 8}
  BY DEF Width
<1>3. Type.NULL = 6 /\ Type.TINY = 1 /\ Type.SHORT = 2 /\ Type.VARCHAR = 15 /\ Type.LONGLONG = 8
  BY DEF Type
<1>4. QED BY <1>1, <1>2, <1>3, TypeFacts

LEMMA DatumStorable ==
  ASSUME NEW type \in Typed, NEW data \in Datum(type)
  PROVE  Storable(type, data)
<1>0. /\ StringTypes = {0, 15} /\ DateTypes = {7, 10, 12} /\ Type.TIME = 11 /\ DOMAIN Width = {1, 2, 3, 4, 5, 8, 9, 13}
      /\ type \in DOMAIN Width \cup DateTypes \cup {Type.TIME} \cup StringTypes
  BY TypeFacts, TypedFacts
<1>1. CASE type \in DOMAIN Width
  <2>1. PICK half : half = (IF Width[type] = 8 THEN Huge \div 2 ELSE Radix^Width[type] \div 2)
    OBVIOUS
  <2>2. Datum(type) = {<<0>>, <<Radix - 1>>, <<half>>}
    <3>1. type \notin DateTypes /\ type # Type.TIME
      BY <1>0, <1>1
    <3>2. Datum(type) = {<<0>>, <<Radix - 1>>, <<IF Width[type] = 8 THEN Huge \div 2 ELSE Radix^Width[type] \div 2>>}
      BY <1>1, <3>1, Zenon DEF Datum
    <3>3. QED BY <2>1, <3>2, Zenon
  <2>3. half \in Nat
    <3>1. CASE Width[type] = 1
      <4>1. half = Radix^1 \div 2
        BY <2>1, <3>1
      <4>2. QED BY <4>1, FourthPlace
    <3>2. CASE Width[type] = 2
      <4>1. half = Radix^2 \div 2
        BY <2>1, <3>2
      <4>2. QED BY <4>1, FourthPlace
    <3>3. CASE Width[type] = 4
      <4>1. half = Radix^4 \div 2
        BY <2>1, <3>3
      <4>2. QED BY <4>1, FourthPlace
    <3>4. CASE Width[type] = 8
      <4>1. half = Huge \div 2
        BY <2>1, <3>4
      <4>2. QED BY <4>1, ReaderAssumption
    <3>5. QED BY <1>1, <3>1, <3>2, <3>3, <3>4, TypedFacts
  <2>4. PICK k \in Nat : k = Radix - 1
    BY RadixFacts
  <2>5. data \in {<<0>>, <<k>>, <<half>>}
    BY <2>2, <2>4
  <2>6. data[1] \in Nat
    BY <2>3, <2>5
  <2>7. type \notin DateTypes /\ type # Type.TIME /\ type \notin StringTypes
    BY <1>0, <1>1
  <2>8. QED BY <2>6, <2>7 DEF Storable
<1>2. CASE type \in DateTypes
  <2>1. Datum(type) = Dates
    BY <1>0, <1>2 DEF Datum
  <2>2. PICK used \in SUBSET (1..7) : data = [i \in 1..7 |-> IF i \in used THEN i ELSE 0]
    BY <2>1 DEF Dates
  <2>3. DOMAIN data = 1..7 /\ PartsNat(data, 7)
    BY <2>2 DEF PartsNat
  <2>4. QED BY <1>0, <1>2, <2>3 DEF Storable
<1>3. CASE type = Type.TIME
  <2>1. Datum(type) = Times
    BY <1>0, <1>3 DEF Datum
  <2>2. PICK used \in SUBSET (1..6) : data = [i \in 1..6 |-> IF i \in used THEN IF i = 1 THEN 1 ELSE i ELSE 0]
    BY <2>1 DEF Times
  <2>3. DOMAIN data = 1..6 /\ PartsNat(data, 6)
    BY <2>2 DEF PartsNat
  <2>4. QED BY <1>0, <1>3, <2>3 DEF Storable
<1>4. CASE type \in StringTypes
  <2>1. Datum(type) = Texts
    BY <1>0, <1>4 DEF Datum
  <2>2. PICK n \in Nat : data = Text(n)
    BY <2>1, RadixFacts DEF Texts, NullLeader
  <2>3. data \in Seq(Nat)
    BY <2>2, TextNat
  <2>4. QED BY <1>0, <1>4, <2>3 DEF Storable
<1>5. QED BY <1>0, <1>1, <1>2, <1>3, <1>4

\* A row under way is bytes that do not end the rows, whatever was received before it.
RowUnderWay ==
  /\ packet \in Seq(Nat) /\ \A first : ~EndsRows(PacketType(first, packet), Len(packet))
  /\ sent.kind = "row" => sent.arg \in Nat
  /\ sent.kind = "stmt_row" => \E S : sent.arg \in Seq(S)

\* The end of rows carries the fields it is to fill in.
EndToRead ==
  /\ \E mode, info, changes, o :
       EndMeant(sent.caps, mode, info, changes, o) /\ packet = EndPacket(sent.caps, o) /\ sent.fields = EndFields(sent.caps, o)
  /\ sent.kind = "row_end" => sent.arg = 2
  /\ sent.kind = "stmt_end" => \E S : sent.arg \in Seq(S)

RowsFollow ==
  /\ phase = "wire" /\ damage = "none" /\ sent.kind \in {"row", "stmt_row"} => RowUnderWay
  /\ phase = "wire" /\ damage = "none" /\ sent.kind \in {"row_end", "stmt_end"} => EndToRead
  /\ RowsEnd

LEMMA InitRows == Init => RowsFollow
BY DEF Init, RowsFollow, RowsEnd

LEMMA OtherRows ==
  ASSUME NEW kind, kind \notin {"row", "row_end", "stmt_row", "stmt_end"}, phase' = "wire", sent'.kind = kind
  PROVE  RowsFollow'
BY DEF RowsFollow, RowsEnd

LEMMA RowSent ==
  ASSUME NEW values, NEW n \in Nat \ {0}, DOMAIN values = 1..n, \A i \in 1..n : Held(values[i]),
         NEW rc, NEW fields, Send("row", V41, n, ServerRow(values), rc, fields)
  PROVE  RowsFollow'
<1>1. ServerRow(values) \in Seq(Nat)
  BY RowBytes
<1>2. \A first : ~EndsRows(PacketType(first, ServerRow(values)), Len(ServerRow(values)))
  BY RowBytes
<1>3. phase' = "wire" /\ sent'.kind = "row" /\ sent'.arg = n /\ packet' = ServerRow(values)
  BY SendFacts
<1>4. RowUnderWay'
  BY <1>1, <1>2, <1>3 DEF RowUnderWay
<1>5. QED BY <1>3, <1>4 DEF RowsFollow, RowsEnd

LEMMA RowRows ==
  ASSUME SendRow
  PROVE  RowsFollow'
<1> DEFINE texts == {Null} \cup {Value(t) : t \in Texts}
           long == {Null} \cup {Value(Text(n)) : n \in {Radix^2, Radix^3}}
<1>1. PICK values, rc, fields :
        /\ values \in {<<v>> : v \in texts} \cup {<<v, w>> : v, w \in texts} \cup {<<v, Null>> : v \in long}
        /\ Send("row", V41, Len(values), ServerRow(values), rc, fields)
  BY DEF SendRow
<1>2. \A v \in texts \cup long : Held(v)
  <2>1. \A t \in Texts : t \in Seq(Nat)
    <3>1. NullLeader \in Nat /\ 0 \in Nat /\ 1 \in Nat
      BY RadixFacts DEF NullLeader
    <3>2. QED BY <3>1, TextNat DEF Texts
  <2>2. \A n \in {Radix^2, Radix^3} : Text(n) \in Seq(Nat)
    <3>1. PICK s, y \in Nat : s = Radix^2 /\ y = Radix^3
      BY Places
    <3>2. \A n \in {s, y} : Text(n) \in Seq(Nat)
      BY TextNat
    <3>3. QED BY <3>1, <3>2
  <2>3. QED BY <2>1, <2>2, HeldFacts
<1> HIDE DEF texts, long
<1>3. Held(Null)
  BY HeldFacts
<1>4. PICK n \in Nat : n = Len(values) /\ n # 0 /\ DOMAIN values = 1..n /\ \A i \in 1..n : Held(values[i])
  <2>1. CASE \E v \in texts : values = <<v>>
    <3>1. PICK v \in texts : values = <<v>>
      BY <2>1
    <3>2. Len(values) = 1 /\ DOMAIN values = 1..1 /\ \A i \in 1..1 : values[i] = v
      BY <3>1
    <3>3. QED BY <1>2, <3>2
  <2>2. CASE \E v, w \in texts : values = <<v, w>>
    <3>1. PICK v \in texts, w \in texts : values = <<v, w>>
      BY <2>2
    <3>2. Len(values) = 2 /\ DOMAIN values = 1..2 /\ \A i \in 1..2 : values[i] \in {v, w}
      BY <3>1
    <3>3. QED BY <1>2, <3>2
  <2>3. CASE \E v \in long : values = <<v, Null>>
    <3>1. PICK v \in long : values = <<v, Null>>
      BY <2>3
    <3>2. Len(values) = 2 /\ DOMAIN values = 1..2 /\ \A i \in 1..2 : values[i] \in {v, Null}
      BY <3>1
    <3>3. QED BY <1>2, <1>3, <3>2
  <2>4. \/ \E v \in texts : values = <<v>>
        \/ \E v, w \in texts : values = <<v, w>>
        \/ \E v \in long : values = <<v, Null>>
    BY <1>1
  <2>5. QED BY <2>1, <2>2, <2>3, <2>4
<1>5. n \in Nat \ {0} /\ Send("row", V41, n, ServerRow(values), rc, fields)
  BY <1>1, <1>4
<1>6. QED BY <1>4, <1>5, RowSent

\* A row of a statement with n columns.
LEMMA BinaryRows ==
  ASSUME NEW types, NEW values, NEW n \in Nat, types \in Seq(Nat), n = Len(types),
         \A i \in 1..n : \/ values[i] = Null
                         \/ types[i] \in Typed /\ \E data : values[i] = Value(data) /\ Storable(types[i], data),
         Binary(types, values)
  PROVE  RowsFollow'
<1>1. \A i \in 1..n : \/ values[i].null = TRUE
                      \/ /\ values[i].null = FALSE /\ Storable(types[i], values[i].data)
                         /\ types[i] \in DOMAIN Width \cup DateTypes \cup {Type.TIME} \cup StringTypes
  <2> SUFFICES ASSUME NEW i \in 1..n
               PROVE  \/ values[i].null = TRUE
                      \/ /\ values[i].null = FALSE /\ Storable(types[i], values[i].data)
                         /\ types[i] \in DOMAIN Width \cup DateTypes \cup {Type.TIME} \cup StringTypes
    OBVIOUS
  <2>1. CASE values[i] = Null
    BY <2>1 DEF Null
  <2>2. CASE types[i] \in Typed /\ \E data : values[i] = Value(data) /\ Storable(types[i], data)
    <3>1. PICK data : values[i] = Value(data) /\ Storable(types[i], data)
      BY <2>2
    <3>2. values[i].null = FALSE /\ values[i].data = data
      BY <3>1 DEF Value
    <3>3. types[i] \in DOMAIN Width \cup DateTypes \cup {Type.TIME} \cup StringTypes
      BY <2>2, TypedFacts
    <3>4. QED BY <3>1, <3>2, <3>3
  <2>3. QED BY <2>1, <2>2
<1>2. /\ ServerStmtRow(types, values) \in Seq(Nat) /\ ServerStmtRow(types, values) # <<>>
      /\ ServerStmtRow(types, values)[1] = 0
  BY <1>1, StmtRowBytes
<1>3. phase' = "wire" /\ sent'.kind = "stmt_row" /\ sent'.arg = types /\ packet' = ServerStmtRow(types, values)
  BY SendFacts DEF Binary
<1>4. PICK buff \in Seq(Nat) : buff = packet' /\ buff # <<>> /\ buff[1] = 0
  BY <1>2, <1>3
<1>5. ASSUME NEW first PROVE ~EndsRows(PacketType(first, buff), Len(buff))
  <2>1. PacketType(first, buff) = 0
    BY <1>4 DEF PacketType
  <2>2. PacketEof # 0
    BY RadixFacts DEF PacketEof
  <2>3. QED BY <2>1, <2>2 DEF EndsRows
<1>6. RowUnderWay'
  BY <1>3, <1>4, <1>5 DEF RowUnderWay
<1>7. QED BY <1>3, <1>6 DEF RowsFollow, RowsEnd

LEMMA StmtRowRows ==
  ASSUME SendStmtRow
  PROVE  RowsFollow'
<1>1. \A x : x \in Nat => <<x>> \in Seq(Nat)
  OBVIOUS
<1>2. ASSUME NEW type \in Typed, NEW value, value = Null \/ \E d \in Datum(type) : value = Value(d), Binary(<<type>>, <<value>>)
      PROVE  RowsFollow'
  <2>2. PICK types, values : types = <<type>> /\ values = <<value>>
    OBVIOUS
  <2>3. type \in Nat
    BY TypedFacts
  <2>4. types \in Seq(Nat) /\ Len(types) = 1 /\ types[1] = type /\ values[1] = value
    BY <2>2, <2>3
  <2>5. \/ value = Null
        \/ type \in Typed /\ \E data : value = Value(data) /\ Storable(type, data)
    BY <1>2, DatumStorable
  <2>6. \A i \in 1..1 : \/ values[i] = Null
                        \/ types[i] \in Typed /\ \E data : values[i] = Value(data) /\ Storable(types[i], data)
    BY <2>4, <2>5
  <2>7. PICK n \in Nat : n = 1
    OBVIOUS
  <2>8. QED BY <1>2, <2>2, <2>4, <2>6, <2>7, BinaryRows
<1>3. 3 \in Nat /\ <<3>>[1] = 3 /\ <<3>> \in Seq(Nat)
  OBVIOUS
<1>4. /\ Type.TINY \in Typed /\ Storable(Type.TINY, <<3>>) /\ Type.SHORT \in Typed /\ Storable(Type.SHORT, <<3>>)
      /\ Type.VARCHAR \in Typed /\ Storable(Type.VARCHAR, <<3>>)
  <2>1. "TINY" \in DOMAIN Type /\ "SHORT" \in DOMAIN Type /\ "VARCHAR" \in DOMAIN Type
    BY DEF Type
  <2>2. Type.TINY = 1 /\ Type.SHORT = 2 /\ Type.VARCHAR = 15 /\ Type.NULL = 6
    BY TypedFacts
  <2>3. Type.TINY \in Typed /\ Type.SHORT \in Typed /\ Type.VARCHAR \in Typed
    BY <2>1, <2>2 DEF Typed
  <2>4. PICK d \in Seq(Nat) : d = <<3>> /\ d[1] \in Nat
    BY <1>3
  <2>5. \A t \in {1, 2, 15} : Storable(t, d)
    BY <2>4, TypeFacts DEF Storable
  <2>6. QED BY <2>2, <2>3, <2>4, <2>5
<1>5. CASE \E value \in {Null, Value(<<3>>)} : Binary(<<Type.TINY, Type.NULL>>, <<value, Null>>)
  <2>1. PICK value \in {Null, Value(<<3>>)} : Binary(<<Type.TINY, Type.NULL>>, <<value, Null>>)
    BY <1>5
  <2>2. PICK types, values, n : types = <<Type.TINY, Type.NULL>> /\ values = <<value, Null>> /\ n = 2
    OBVIOUS
  <2>7. n \in Nat
    BY <2>2
  <2>3. Type.TINY \in Nat /\ Type.NULL \in Nat
    BY TypedFacts
  <2>4. types \in Seq(Nat) /\ n = Len(types) /\ types[1] = Type.TINY /\ values[1] = value /\ values[2] = Null
    BY <2>2, <2>3
  <2>5. \A i \in 1..n : \/ values[i] = Null
                        \/ types[i] \in Typed /\ \E data : values[i] = Value(data) /\ Storable(types[i], data)
    BY <1>4, <2>2, <2>4
  <2>6. QED BY <2>1, <2>2, <2>4, <2>5, <2>7, BinaryRows
<1>6. CASE \E values \in [1..3 -> {Null, Value(<<3>>)}] : Binary(<<Type.TINY, Type.VARCHAR, Type.SHORT>>, values)
  <2>1. PICK values \in [1..3 -> {Null, Value(<<3>>)}] : Binary(<<Type.TINY, Type.VARCHAR, Type.SHORT>>, values)
    BY <1>6
  <2>2. PICK types, n : types = <<Type.TINY, Type.VARCHAR, Type.SHORT>> /\ n = 3
    OBVIOUS
  <2>7. n \in Nat
    BY <2>2
  <2>3. Type.TINY \in Nat /\ Type.VARCHAR \in Nat /\ Type.SHORT \in Nat
    BY TypedFacts
  <2>4. types \in Seq(Nat) /\ n = Len(types) /\ types[1] = Type.TINY /\ types[2] = Type.VARCHAR /\ types[3] = Type.SHORT
    BY <2>2, <2>3
  <2>5. \A i \in 1..n : \/ values[i] = Null
                        \/ types[i] \in Typed /\ \E data : values[i] = Value(data) /\ Storable(types[i], data)
    BY <1>4, <2>1, <2>2, <2>4
  <2>6. QED BY <2>1, <2>2, <2>4, <2>5, <2>7, BinaryRows
<1>7. QED BY <1>2, <1>5, <1>6, Zenon DEF SendStmtRow

LEMMA EndRows ==
  ASSUME SendEnd
  PROVE  RowsFollow'
<1>1. PICK caps, kind, info, mode, changes, o, arg : EndSent(caps, kind, info, mode, changes, o, arg)
  BY EndIsSent
<1>2. EndMeant(caps, mode, info, changes, o)
  BY <1>1 DEF EndSent
<1>3. kind \in {"row_end", "stmt_end"} /\ arg = IF kind = "row_end" THEN 2 ELSE <<Type.LONGLONG, Type.TINY>>
  BY <1>1 DEF EndSent
<1>4. Send(kind, caps, arg, EndPacket(caps, o), "EOF", EndFields(caps, o))
  BY <1>1 DEF EndSent
<1>5. phase' = "wire" /\ sent'.kind = kind /\ sent'.caps = caps /\ sent'.arg = arg /\ sent'.fields = EndFields(caps, o)
      /\ packet' = EndPacket(caps, o)
  BY <1>4, SendFacts
<1>6. kind = "stmt_end" => \E S : arg \in Seq(S)
  <2>1. Type.LONGLONG \in Nat /\ Type.TINY \in Nat
    BY TypedFacts
  <2>2. <<Type.LONGLONG, Type.TINY>> \in Seq(Nat)
    BY <2>1
  <2>3. QED BY <1>3, <2>2
<1>7. EndToRead'
  BY <1>2, <1>3, <1>5, <1>6 DEF EndToRead
<1>8. kind \notin {"row", "stmt_row"}
  BY <1>3
<1>9. QED BY <1>5, <1>7, <1>8 DEF RowsFollow, RowsEnd

\* A row is read: not as an end.
LEMMA RowReceived ==
  ASSUME RowUnderWay, sent.kind \in {"row", "stmt_row"}, ClientParses
  PROVE  got'.rc # "EOF"
<1>1. PICK first : got' = Outcome(Parse(first))
  BY DEF ClientParses
<1>2. PICK buff \in Seq(Nat) : buff = packet /\ ~EndsRows(PacketType(first, buff), Len(buff))
  BY DEF RowUnderWay
<1>3. PICK row : Parse(first) = RowOutcome(first, buff, sent.caps, row) /\ Good(row, <<>>)
  <2>1. CASE sent.kind = "row"
    <3>1. PICK n \in Nat : n = sent.arg
      BY <2>1 DEF RowUnderWay
    <3>2. Good(ParseRow(buff, n), <<>>)
      BY RowPacketGood
    <3>3. Parse(first) = RowOutcome(first, buff, sent.caps, ParseRow(buff, n))
      BY <1>2, <2>1, <3>1 DEF Parse
    <3>4. QED BY <3>2, <3>3
  <2>2. CASE sent.kind = "stmt_row"
    <3>1. PICK S : sent.arg \in Seq(S)
      BY <2>2 DEF RowUnderWay
    <3>2. PICK types \in Seq(S) : types = sent.arg
      BY <3>1
    <3>3. Good(ParseStmtRow(buff, types), <<>>)
      BY StmtRowPacketGood
    <3>4. Parse(first) = RowOutcome(first, buff, sent.caps, ParseStmtRow(buff, types))
      BY <1>2, <2>2, <3>2 DEF Parse
    <3>5. QED BY <3>3, <3>4
  <2>3. QED BY <2>1, <2>2
<1>4. PICK caps, s : caps = sent.caps /\ s = RowOutcome(first, buff, caps, row)
  OBVIOUS
<1>5. s.rc # "EOF"
  BY <1>2, <1>3, <1>4, RowOutcomeGood
<1>6. got'.rc = s.rc
  BY <1>1, <1>3, <1>4 DEF Outcome
<1>7. QED BY <1>5, <1>6

LEMMA EndRead ==
  ASSUME EndToRead, Kept, sent.kind \in {"row_end", "stmt_end"}, ClientParses
  PROVE  /\ got'.rc = "EOF" <=> Len(packet) < 9
         /\ got'.rc = "EOF" => \A f \in DOMAIN sent.fields : got'.out[f] = sent.fields[f]
         /\ got'.rc = "EOF" => conn'.status = sent.fields.status_flags
         /\ sent.kind = "row_end" => got'.rc # "OK"
<1>1. PICK mode, info, changes, o :
        EndMeant(sent.caps, mode, info, changes, o) /\ packet = EndPacket(sent.caps, o) /\ sent.fields = EndFields(sent.caps, o)
  BY DEF EndToRead
<1>2. PICK caps, buff : caps = sent.caps /\ buff = EndPacket(caps, o) /\ buff = packet
  BY <1>1
<1>3. EndMeant(caps, mode, info, changes, o)
  BY <1>1, <1>2
<1>4. buff \in Seq(Nat)
  <2>1. EndPacket(caps, o) \in Seq(Nat)
    BY <1>3, EndReads
  <2>2. QED BY <1>2, <2>1
<1>5. PICK first : got' = Outcome(Parse(first))
  BY DEF ClientParses
<1>6. PICK row : /\ Parse(first) = RowOutcome(first, buff, caps, row) /\ row.rc # "EOF"
                 /\ sent.kind = "row_end" => row = ParseRow(buff, 2)
  <2>1. CASE sent.kind = "row_end"
    <3>1. PICK n : n = 2 /\ n = sent.arg
      BY <2>1 DEF EndToRead
    <3>2. n \in Nat
      BY <3>1
    <3>3. Good(ParseRow(buff, n), <<>>)
      BY <1>4, <3>2, RowPacketGood
    <3>4. ParseRow(buff, n).rc # "EOF"
      BY <3>3 DEF Good, Safe
    <3>5. Parse(first) = RowOutcome(first, buff, caps, ParseRow(buff, n))
      BY <1>2, <2>1, <3>1 DEF Parse
    <3>6. QED BY <3>1, <3>4, <3>5
  <2>2. CASE sent.kind = "stmt_end"
    <3>1. PICK S : sent.arg \in Seq(S)
      BY <2>2 DEF EndToRead
    <3>2. PICK types \in Seq(S) : types = sent.arg
      BY <3>1
    <3>3. Good(ParseStmtRow(buff, types), <<>>)
      BY <1>4, StmtRowPacketGood
    <3>4. ParseStmtRow(buff, types).rc # "EOF"
      BY <3>3 DEF Good, Safe
    <3>5. Parse(first) = RowOutcome(first, buff, caps, ParseStmtRow(buff, types))
      BY <1>2, <2>2, <3>2 DEF Parse
    <3>6. QED BY <2>2, <3>4, <3>5
  <2>3. QED BY <2>1, <2>2
<1>7. PICK r, s : r = ReadEof(buff, caps) /\ s = RowOutcome(first, buff, caps, row)
  OBVIOUS
<1>8. (Len(buff) < 9 => s.rc = "EOF" /\ r.rc = "OK" /\ s.out = r.out) /\ (~(Len(buff) < 9) => s = row)
  <2>1. LET e == EndPacket(caps, o)
            t == RowOutcome(first, e, caps, row)
        IN (Len(e) < 9 => t.rc = "EOF" /\ ReadEof(e, caps).rc = "OK" /\ t.out = ReadEof(e, caps).out)
             /\ (~(Len(e) < 9) => t = row)
    BY <1>3, EndOutcome
  <2>2. QED BY <1>2, <1>7, <2>1
<1>9. /\ r.rc = "OK" => \A f \in DOMAIN EndFields(caps, o) : r.out[f] = EndFields(caps, o)[f]
      /\ ~(Len(buff) < 9) => ParseRow(buff, 2).rc = "TRUNCATED_PACKET"
  <2>1. /\ ReadEof(EndPacket(caps, o), caps).rc = "OK" =>
             \A f \in DOMAIN EndFields(caps, o) : ReadEof(EndPacket(caps, o), caps).out[f] = EndFields(caps, o)[f]
        /\ ~(Len(EndPacket(caps, o)) < 9) => ParseRow(EndPacket(caps, o), 2).rc = "TRUNCATED_PACKET"
    BY <1>3, EndReads
  <2>2. QED BY <1>2, <1>7, <2>1
<1>10. got'.rc = s.rc /\ got'.out = s.out
  BY <1>5, <1>6, <1>7 DEF Outcome
<1>11. got'.rc = "EOF" <=> Len(buff) < 9
  BY <1>6, <1>8, <1>10
<1>12. got'.rc = "EOF" => \A f \in DOMAIN sent.fields : got'.out[f] = sent.fields[f]
  BY <1>1, <1>2, <1>8, <1>9, <1>10, <1>11
<1>13. sent.kind = "row_end" => got'.rc # "OK"
  BY <1>6, <1>8, <1>9, <1>10
<1>14. ASSUME got'.rc = "EOF" PROVE conn'.status = sent.fields.status_flags
  <2>1. r.rc = "OK"
    BY <1>8, <1>11, <1>14
  <2>2. conn' = KeepEof(conn, r, caps)
    BY <1>2, <1>7, <1>14 DEF ClientParses
  <2>3. "PROTOCOL_41" \in caps
    BY <1>3, EndOk
  <2>4. "status_flags" \in DOMAIN EndFields(caps, o)
    BY DEF EndFields, OkFields
  <2>5. r.out.status_flags = EndFields(caps, o).status_flags
    BY <1>9, <2>1, <2>4
  <2>6. CASE "DEPRECATE_EOF" \in caps
    <3>1. conn'.status = r.out.status_flags
      BY <2>1, <2>2, <2>3, <2>6 DEF KeepEof, ReadOk
    <3>2. QED BY <1>1, <1>2, <2>5, <3>1
  <2>7. CASE "DEPRECATE_EOF" \notin caps
    <3>1. conn'.status = r.out.status_flags
      BY <2>1, <2>2, <2>3, <2>7 DEF KeepEof, Kept
    <3>2. QED BY <1>1, <1>2, <2>5, <3>1
  <2>8. QED BY <2>6, <2>7
<1>15. QED BY <1>2, <1>11, <1>12, <1>13, <1>14

LEMMA ParsesRows ==
  ASSUME RowsFollow, Kept, ClientParses
  PROVE  RowsFollow'
<1>1. phase' = "read" /\ phase = "wire" /\ sent' = sent /\ damage' = damage /\ packet' = packet
  BY DEF ClientParses
<1>2. CASE damage = "none" /\ sent.kind \in {"row", "stmt_row"}
  <2>1. got'.rc # "EOF"
    BY <1>1, <1>2, RowReceived DEF RowsFollow
  <2>2. RowsEnd'
    BY <1>1, <1>2, <2>1 DEF RowsEnd, Ended
  <2>3. QED BY <1>1, <2>2 DEF RowsFollow
<1>3. CASE damage = "none" /\ sent.kind \in {"row_end", "stmt_end"}
  <2>1. EndToRead
    BY <1>1, <1>3 DEF RowsFollow
  <2>2. /\ got'.rc = "EOF" <=> Len(packet) < 9
        /\ got'.rc = "EOF" => \A f \in DOMAIN sent.fields : got'.out[f] = sent.fields[f]
        /\ got'.rc = "EOF" => conn'.status = sent.fields.status_flags
        /\ sent.kind = "row_end" => got'.rc # "OK"
    BY <1>3, <2>1, EndRead
  <2>3. RowsEnd'
    BY <1>1, <1>3, <2>2 DEF RowsEnd, Ended, Agree
  <2>4. QED BY <1>1, <2>3 DEF RowsFollow
<1>4. CASE ~(damage = "none" /\ sent.kind \in {"row", "stmt_row", "row_end", "stmt_end"})
  <2>1. RowsEnd'
    BY <1>1, <1>4 DEF RowsEnd
  <2>2. QED BY <1>1, <2>1 DEF RowsFollow
<1>5. QED BY <1>2, <1>3, <1>4

LEMMA NextRows == Kept /\ RowsFollow /\ [Next]_vars => Kept' /\ RowsFollow'
<1> SUFFICES ASSUME Kept, RowsFollow, [Next]_vars PROVE RowsFollow'
  BY NextKeeps
<1>1. CASE SendCounters \/ SendStatus \/ SendSession
  <2>1. \E caps, o : SendOk(caps, o)
    BY <1>1 DEF SendCounters, SendStatus, SendSession
  <2>2. \E bytes, rc, fields, caps : Send("ok", caps, 0, bytes, rc, fields)
    BY <2>1 DEF SendOk
  <2>3. phase' = "wire" /\ sent'.kind = "ok"
    BY <2>2, SendFacts
  <2>4. QED BY <2>3, OtherRows
<1>2. CASE SendEnd
  BY <1>2, EndRows
<1>3. CASE \/ SendErr \/ SendAuthSwitch \/ SendHandshake \/ SendResult \/ SendStmtOk \/ SendColumn
           \/ SendRowErr \/ ClientExecutes \/ ClientCommands \/ ClientLogsIn \/ ClientAsksForTls
  <2>1. PICK kind, caps, arg, bytes, rc, fields :
          kind \notin {"row", "row_end", "stmt_row", "stmt_end"} /\ Send(kind, caps, arg, bytes, rc, fields)
    BY <1>3, OtherSends
  <2>2. QED BY <2>1, SendFacts, OtherRows
<1>4. CASE SendRow
  BY <1>4, RowRows
<1>5. CASE SendStmtRow
  BY <1>5, StmtRowRows
<1>6. CASE Cut \/ Lengthen \/ Alter
  <2>1. UnderWay /\ \E what \in {"cut", "longer", "changed"} : \E bytes : Damage(what, bytes)
    BY <1>6 DEF Cut, Lengthen, Alter
  <2>2. damage' # "none" /\ phase' = "wire"
    BY <2>1 DEF Damage, UnderWay
  <2>3. QED BY <2>2 DEF RowsFollow, RowsEnd
<1>7. CASE ClientParses
  BY <1>7, ParsesRows
<1>8. CASE ClientEscapes
  <2>1. phase' = "wire" /\ sent'.kind = "escape"
    BY <1>8 DEF ClientEscapes
  <2>2. QED BY <2>1, OtherRows
<1>9. CASE ServerReads
  <2>1. phase' = "read" /\ sent' = sent /\ sent.kind \notin FromServer
    BY <1>9 DEF ServerReads
  <2>2. sent.kind \notin {"row", "row_end", "stmt_row", "stmt_end"}
    BY <2>1 DEF FromServer
  <2>3. QED BY <2>1, <2>2 DEF RowsFollow, RowsEnd
<1>10. CASE UNCHANGED vars
  BY <1>10 DEF vars, RowsFollow, RowUnderWay, EndToRead, RowsEnd, Ended, Agree
<1>11. QED BY <1>1, <1>2, <1>3, <1>4, <1>5, <1>6, <1>7, <1>8, <1>9, <1>10 DEF Next

(* RowsEnd: trilogy_read_row and trilogy_stmt_read_row take a packet for the *)
(* end of the rows if it starts with 0xfe and is shorter than nine bytes. No *)
(* row is: one that starts with 0xfe has a length of eight bytes in front.   *)
(* Every end shorter than nine bytes is, with the fields it carries, and the *)
(* client keeps its status; a longer one is never a row of the text protocol.*)
THEOREM RowsEndWhereSent == Spec => []RowsEnd
<1>1. Init => Kept /\ RowsFollow
  BY InitRows DEF Init, Kept
<1>2. RowsFollow => RowsEnd
  BY DEF RowsFollow
<1>3. QED BY <1>1, <1>2, NextRows, PTL DEF Spec

-----------------------------------------------------------------------------
(* Packets that arrive.                                                      *)

\* What the parser of the packet under way returns and fills in is what was meant.
AsMeant(r, rc, fate, fields) == r.rc = rc /\ (r.rc = fate => \A f \in DOMAIN fields : r.out[f] = fields[f])

Plain == {"err", "auth_switch", "handshake", "result", "stmt_ok", "column", "row", "row_err"}

Arrives ==
  \A first : AsMeant(Parse(first), sent.rc, IF sent.kind = "row_err" THEN "ERR" ELSE "OK", sent.fields)

PacketsFollow ==
  /\ phase = "idle" => conn.last_gtid = Earlier
  /\ phase = "wire" /\ damage = "none" /\ sent.kind \in Plain => Arrives
  /\ phase = "wire" /\ damage = "none" /\ sent.kind = "ok" => conn.last_gtid = Earlier
  /\ sent.kind \in Plain \cup {"ok"} => RoundTrip

LEMMA InitPackets == Init => PacketsFollow
BY DEF Init, PacketsFollow, RoundTrip, Plain

\* A packet that is not one of these.
LEMMA OtherPackets ==
  ASSUME NEW kind, kind \notin Plain \cup {"ok"}, phase' = "wire", sent'.kind = kind
  PROVE  PacketsFollow'
BY DEF PacketsFollow

LEMMA PlainSent ==
  ASSUME NEW kind \in Plain, NEW caps, NEW arg, NEW bytes, NEW rc, NEW fields, Send(kind, caps, arg, bytes, rc, fields),
         \A first : AsMeant(Parse(first)', rc, IF kind = "row_err" THEN "ERR" ELSE "OK", fields)
  PROVE  PacketsFollow'
<1>1. phase' = "wire" /\ sent'.kind = kind /\ sent'.rc = rc /\ sent'.fields = fields
  BY SendFacts
<1>2. Arrives'
  BY <1>1 DEF Arrives
<1>3. kind # "ok"
  BY DEF Plain
<1>4. QED BY <1>1, <1>2, <1>3 DEF PacketsFollow, RoundTrip

LEMMA GtidFits ==
  ASSUME NEW caps, NEW o, OkMeant(caps, o), OkReturn(caps, o) = "OK"
  PROVE  OkFields(caps, o).last_gtid \in Seq(Nat) /\ Len(OkFields(caps, o).last_gtid) <= GtidMax
<1>0. GtidMax \in Nat /\ <<>> \in Seq(Nat) /\ Len(<<>>) = 0
  BY ProtocolAssumption
<1>1. OkFields(caps, o).last_gtid = IF "SESSION_TRACK" \in caps THEN LastGtid(o.changes) ELSE <<>>
  BY DEF OkFields
<1>2. CASE "SESSION_TRACK" \notin caps
  BY <1>0, <1>1, <1>2
<1>3. CASE "SESSION_TRACK" \in caps /\ o.changes = <<>>
  <2>1. DOMAIN <<>> = {}
    OBVIOUS
  <2>2. LastGtid(o.changes) = <<>>
    BY <1>3, <2>1 DEF LastGtid
  <2>3. OkFields(caps, o).last_gtid = <<>>
    BY <1>1, <1>3, <2>2
  <2>4. QED BY <1>0, <2>3
<1>4. CASE "SESSION_TRACK" \in caps /\ o.changes # <<>>
  <2>1. PICK n \in Nat \ {0} : DOMAIN o.changes = 1..n /\ \A i \in 1..n : Tellable(o.changes[i])
    BY <1>4 DEF OkMeant
  <2>2. PICK changes : changes = o.changes
    OBVIOUS
  <2>3. LastGtid(changes) = LastOf(changes, n) /\ (GtidTooLong(changes) <=> \E i \in 1..n : TooLong(changes[i]))
    BY <2>1, <2>2, LastGtidOf
  <2>4. ~GtidTooLong(changes)
    BY <1>4, <2>2 DEF OkReturn
  <2>5. \A i \in 1..n : Tellable(changes[i]) /\ ~TooLong(changes[i])
    BY <2>1, <2>2, <2>3, <2>4
  <2>6. LastOf(changes, n) \in Seq(Nat) /\ Len(LastOf(changes, n)) <= GtidMax
    BY <2>5, LastShort
  <2>7. QED BY <1>1, <1>4, <2>2, <2>3, <2>6
<1>5. QED BY <1>2, <1>3, <1>4

\* The client reads one of these packets.
LEMMA PlainReceived ==
  ASSUME Arrives, sent.kind \in Plain, ClientParses
  PROVE  RoundTrip'
<1>1. PICK first : got' = Outcome(Parse(first))
  BY DEF ClientParses
<1>2. PICK r : r = Parse(first) /\ got'.rc = r.rc /\ got'.out = r.out
  BY <1>1 DEF Outcome
<1>3. sent' = sent
  BY DEF ClientParses
<1>4. AsMeant(r, sent.rc, IF sent.kind = "row_err" THEN "ERR" ELSE "OK", sent.fields)
  BY <1>2 DEF Arrives
<1>5. sent.kind # "ok"
  BY DEF Plain
<1>6. Accepted' <=> r.rc = IF sent.kind = "row_err" THEN "ERR" ELSE "OK"
  <2>1. Accepted' <=> got'.rc = IF sent.kind \in DOMAIN Fates THEN Fates[sent.kind] ELSE "OK"
    BY <1>3 DEF Accepted
  <2>2. (IF sent.kind \in DOMAIN Fates THEN Fates[sent.kind] ELSE "OK") = IF sent.kind = "row_err" THEN "ERR" ELSE "OK"
    BY DEF Fates, Plain
  <2>3. QED BY <1>2, <2>1, <2>2
<1>7. QED BY <1>2, <1>3, <1>4, <1>5, <1>6 DEF RoundTrip, Agree, AsMeant

LEMMA OkArrives ==
  ASSUME OkUnderWay, sent.kind = "ok", conn.last_gtid = Earlier, ClientParses
  PROVE  RoundTrip'
<1>1. PICK o : OkMeant(sent.caps, o) /\ packet = ServerOk(PacketOk, sent.caps, o) /\ sent.fields = OkFields(sent.caps, o)
               /\ sent.rc = OkReturn(sent.caps, o)
  BY DEF OkUnderWay
<1>2. PICK caps, type : caps = sent.caps /\ type = PacketOk
  OBVIOUS
<1>3. type \in Nat
  BY <1>2 DEF PacketOk
<1>4. PICK first : got' = Outcome(Parse(first))
  BY DEF ClientParses
<1>5. PICK r : r = ParseOk(ServerOk(type, caps, o), caps) /\ got'.rc = r.rc /\ got'.out = r.out
  BY <1>1, <1>2, <1>4 DEF Parse, Outcome
<1>6. r.rc = OkReturn(caps, o) /\ (r.rc = "OK" => \A f \in DOMAIN OkFields(caps, o) : r.out[f] = OkFields(caps, o)[f])
  BY <1>1, <1>2, <1>3, <1>5, OkReadsBack DEF OkReturn
<1>7. sent' = sent /\ (Accepted' <=> r.rc = "OK")
  <2>1. sent' = sent
    BY DEF ClientParses
  <2>2. "ok" \notin DOMAIN Fates
    BY DEF Fates
  <2>3. QED BY <1>5, <2>1, <2>2 DEF Accepted
<1>8. ASSUME r.rc = "OK"
      PROVE  conn'.last_gtid = IF Len(sent.fields.last_gtid) \in {0, GtidMax} THEN Earlier ELSE sent.fields.last_gtid
  <2>1. PICK gtid \in Seq(Nat) : gtid = OkFields(caps, o).last_gtid /\ Len(gtid) <= GtidMax
    BY <1>1, <1>2, <1>6, <1>8, GtidFits
  <2>2. "last_gtid" \in DOMAIN OkFields(caps, o)
    BY DEF OkFields
  <2>3. got'.out.last_gtid = gtid /\ got'.rc = "OK"
    BY <1>5, <1>6, <1>8, <2>1, <2>2
  <2>4. conn' = ReadOk(conn, got', caps)
    BY <1>2, <2>3 DEF ClientParses
  <2>5. conn'.last_gtid = IF Len(gtid) > 0 /\ Len(gtid) < GtidMax THEN gtid ELSE Earlier
    BY <2>3, <2>4 DEF ReadOk
  <2>6. PICK k, m \in Nat : k = Len(gtid) /\ m = GtidMax /\ k <= m
    BY <2>1, ProtocolAssumption
  <2>7. (k > 0 /\ k < m) <=> k \notin {0, m}
    BY <2>6
  <2>8. sent.fields.last_gtid = gtid
    BY <1>1, <1>2, <2>1
  <2>9. QED BY <2>5, <2>6, <2>7, <2>8
<1>9. QED BY <1>1, <1>2, <1>5, <1>6, <1>7, <1>8 DEF RoundTrip, Agree

\* The samples.
LEMMA TextAt ==
  ASSUME NEW n \in Nat
  PROVE  Text(n) \in Seq(Nat \ {0}) /\ Text(n) \in Seq(Nat) /\ Len(Text(n)) = n
<1>1. \A i \in 1..n : 1 + (i % 2) \in Nat \ {0}
  OBVIOUS
<1>2. Text(n) \in Seq(Nat \ {0})
  BY <1>1 DEF Text
<1>3. QED BY <1>2, TextNat

LEMMA SampleSizes ==
  /\ \A n \in Numbers : n \in Sizes
  /\ \A t \in Texts : Texted(t)
  /\ \A n \in {0, 1, 2, 3, NullLeader, Radix^2, Radix^3} : n \in Sizes
  /\ Radix^2 \in Nat /\ Fits(Radix^2, 4) /\ Small(Radix^2)
  /\ \A n \in Nat : n <= 40 \/ n <= Radix + 1 => n \in Word
<1>1. /\ Radix^3 = Radix * Radix^2 /\ Radix^2 = Radix * Radix /\ Radix^2 \in Nat /\ Radix \in Nat /\ Radix >= 16
      /\ NullLeader = Radix - 5
  BY RadixFacts, Places DEF NullLeader
<1>2. PICK k, s \in Nat : k = Radix /\ s = Radix^2 /\ s >= 16 * k /\ k >= 16
  <2>1. Radix * Radix >= 16 * Radix
    BY <1>1
  <2>2. QED BY <1>1, <2>1
<1>3. k * s >= s
  BY <1>2
<1>4. PICK y, n \in Nat : y = Radix^3 /\ y = k * s /\ y >= s /\ n = NullLeader /\ n < k /\ n >= 11
  BY <1>1, <1>2, <1>3, Places
<1>5. \A m \in Nat : m <= y => m \in Sizes
  BY <1>4, InSizes
<1>6. \A m \in {0, 1, 2, 3, n - 1, n, s - 1, s, y - 1, y} : m \in Nat /\ m <= y
  BY <1>2, <1>4
<1>7. \A m \in {0, 1, 2, 3, n - 1, n, s - 1, s, y - 1, y} : m \in Sizes
  BY <1>5, <1>6
<1>8. \A m \in Numbers : m \in {0, n - 1, n, s - 1, s, y - 1, y}
  BY <1>2, <1>4 DEF Numbers
<1>9. \A t \in Texts : Texted(t)
  <2>1. ASSUME NEW m \in {0, 1, n} PROVE Texted(Text(m))
    <3>1. m \in Nat
      OBVIOUS
    <3>2. Text(m) \in Seq(Nat) /\ Len(Text(m)) = m
      BY <3>1, TextAt
    <3>3. m \in Sizes
      BY <1>7
    <3>4. QED BY <3>2, <3>3 DEF Texted
  <2>2. Texts = {Text(0), Text(1), Text(n)}
    BY <1>4 DEF Texts
  <2>3. QED BY <2>1, <2>2
<1>10. Fits(s, 4) /\ Small(s)
  BY <1>4, FitsIn, SmallNumbers
<1>11. \A m \in Nat : m <= 40 \/ m <= k + 1 => m < s
  BY <1>2
<1>12. QED BY <1>2, <1>4, <1>7, <1>8, <1>9, <1>10, <1>11 DEF Word

LEMMA SampleErr ==
  ASSUME NEW message \in Texts, NEW e, e = [code |-> Radix + 1, marker |-> 3, state |-> Text(StateLen), message |-> message]
  PROVE  ErrMeant(e) /\ e.code = Radix + 1 /\ e.state = Text(StateLen) /\ e.message = message
<1>1. e.code = Radix + 1 /\ e.marker = 3 /\ e.state = Text(StateLen) /\ e.message = message
  OBVIOUS
<1>2. Radix + 1 \in Nat /\ StateLen \in Nat /\ 3 \in Nat
  BY RadixFacts, ProtocolAssumption
<1>3. Radix + 1 \in Word
  BY <1>2, SampleSizes
<1>4. Text(StateLen) \in Seq(Nat) /\ Len(Text(StateLen)) = StateLen
  BY <1>2, TextAt
<1>5. message \in Seq(Nat)
  BY SampleSizes DEF Texted
<1>6. QED BY <1>1, <1>2, <1>3, <1>4, <1>5 DEF ErrMeant

LEMMA ErrPackets ==
  ASSUME SendErr
  PROVE  PacketsFollow'
<1>1. PICK caps \in {{}, V41}, message \in Texts :
        LET e == [code |-> Radix + 1, marker |-> 3, state |-> Text(StateLen), message |-> message]
            state == IF caps = {} THEN [i \in 1..StateLen |-> 0] ELSE e.state
        IN Send("err", caps, 0, ServerErr(caps, e), "OK",
                [error_code |-> e.code, sql_state |-> state, error_message |-> message])
  BY Zenon DEF SendErr
<1>2. PICK e : e = [code |-> Radix + 1, marker |-> 3, state |-> Text(StateLen), message |-> message]
  OBVIOUS
<1>3. PICK state : state = IF caps = {} THEN [i \in 1..StateLen |-> 0] ELSE e.state
  OBVIOUS
<1>4. PICK fields : fields = [error_code |-> e.code, sql_state |-> state, error_message |-> message]
  OBVIOUS
<1>5. Send("err", caps, 0, ServerErr(caps, e), "OK", fields)
  BY <1>1, <1>2, <1>3, <1>4
<1>6. ErrMeant(e) /\ e.message = message
  BY <1>2, SampleErr
<1>7. "PROTOCOL_41" \in caps <=> caps # {}
  BY DEF V41
<1>8. PICK r : /\ r = ParseErr(ServerErr(caps, e), caps) /\ r.rc = "OK"
               /\ r.out.error_code = e.code /\ r.out.error_message = message /\ r.out.sql_state = state
  BY <1>3, <1>6, <1>7, ErrReadsBack
<1>9. DOMAIN fields = {"error_code", "sql_state", "error_message"} /\ fields.error_code = e.code
      /\ fields.sql_state = state /\ fields.error_message = message
  BY <1>4
<1>10. AsMeant(r, "OK", "OK", fields)
  BY <1>8, <1>9 DEF AsMeant
<1>11. \A first : Parse(first)' = r
  BY <1>5, <1>8, SendFacts DEF Parse
<1>12. PICK kind : kind = "err" /\ kind \in Plain /\ kind # "row_err"
  BY DEF Plain
<1>13. Send(kind, caps, 0, ServerErr(caps, e), "OK", fields)
  BY <1>5, <1>12
<1>14. \A first : AsMeant(Parse(first)', "OK", IF kind = "row_err" THEN "ERR" ELSE "OK", fields)
  BY <1>10, <1>11, <1>12
<1>15. QED BY <1>12, <1>13, <1>14, PlainSent

LEMMA RowErrPackets ==
  ASSUME SendRowErr
  PROVE  PacketsFollow'
<1>1. PICK message \in Texts :
        LET e == [code |-> Radix + 1, marker |-> 3, state |-> Text(StateLen), message |-> message] IN
        Send("row_err", V41, 2, ServerErr(V41, e), "ERR", [error_code |-> e.code, error_message |-> message])
  BY Zenon DEF SendRowErr
<1>2. PICK e : e = [code |-> Radix + 1, marker |-> 3, state |-> Text(StateLen), message |-> message]
  OBVIOUS
<1>4. PICK fields : fields = [error_code |-> e.code, error_message |-> message]
  OBVIOUS
<1>5. Send("row_err", V41, 2, ServerErr(V41, e), "ERR", fields)
  BY <1>1, <1>2, <1>4
<1>6. ErrMeant(e) /\ e.message = message
  BY <1>2, SampleErr
<1>9. DOMAIN fields = {"error_code", "error_message"} /\ fields.error_code = e.code /\ fields.error_message = message
  BY <1>4
<1>10. ASSUME NEW first PROVE AsMeant(Parse(first)', "ERR", "ERR", fields)
  <2>1. PICK caps, buff, row : caps = V41 /\ buff = ServerErr(caps, e) /\ row = ParseRow(buff, 2)
    OBVIOUS
  <2>2. Parse(first)' = RowOutcome(first, buff, caps, row)
    BY <1>5, <2>1, SendFacts DEF Parse
  <2>3. PICK r : r = RowOutcome(first, ServerErr(caps, e), caps, row) /\ r.rc = "ERR" /\ r.out.error_code = e.code
                 /\ r.out.error_message = e.message
    BY <1>6, ErrForRow
  <2>4. AsMeant(r, "ERR", "ERR", fields)
    BY <1>6, <1>9, <2>3 DEF AsMeant
  <2>5. QED BY <2>1, <2>2, <2>3, <2>4
<1>12. PICK kind : kind = "row_err" /\ kind \in Plain
  BY DEF Plain
<1>13. Send(kind, V41, 2, ServerErr(V41, e), "ERR", fields)
  BY <1>5, <1>12
<1>14. \A first : AsMeant(Parse(first)', "ERR", IF kind = "row_err" THEN "ERR" ELSE "OK", fields)
  BY <1>10, <1>12
<1>15. QED BY <1>12, <1>13, <1>14, PlainSent

LEMMA AuthSwitchPackets ==
  ASSUME SendAuthSwitch
  PROVE  PacketsFollow'
<1>1. PICK caps \in {{}, {"PLUGIN_AUTH"}}, n \in {0, PluginMax, PluginMax + 1}, m \in ScrambleLen..(ScrambleLen + 2) :
        Send("auth_switch", caps, 0, ServerAuthSwitch([plugin |-> Text(n), scramble |-> Text(m)]),
             CASE caps = {} -> "PROTOCOL_VIOLATION" [] caps # {} /\ n > PluginMax -> "AUTH_PLUGIN_TOO_LONG" [] OTHER -> "OK",
             [auth_plugin |-> Text(n), scramble |-> Truncated(Text(m), ScrambleLen + 1)])
  BY Zenon DEF SendAuthSwitch
<1>2. PICK s : s = [plugin |-> Text(n), scramble |-> Text(m)]
  OBVIOUS
<1>3. PICK fields : fields = [auth_plugin |-> Text(n), scramble |-> Truncated(Text(m), ScrambleLen + 1)]
  OBVIOUS
<1>4. PICK rc : rc = IF "PLUGIN_AUTH" \notin caps THEN "PROTOCOL_VIOLATION"
                     ELSE IF n > PluginMax THEN "AUTH_PLUGIN_TOO_LONG" ELSE "OK"
  OBVIOUS
<1>5. rc = CASE caps = {} -> "PROTOCOL_VIOLATION" [] caps # {} /\ n > PluginMax -> "AUTH_PLUGIN_TOO_LONG" [] OTHER -> "OK"
  <2>1. "PLUGIN_AUTH" \in caps <=> caps # {}
    OBVIOUS
  <2>2. CASE caps = {}
    BY <1>4, <2>1, <2>2
  <2>3. CASE caps # {} /\ n > PluginMax
    BY <1>4, <2>1, <2>3
  <2>4. CASE caps # {} /\ ~(n > PluginMax)
    BY <1>4, <2>1, <2>4
  <2>5. QED BY <2>2, <2>3, <2>4
<1>6. Send("auth_switch", caps, 0, ServerAuthSwitch(s), rc, fields)
  BY <1>1, <1>2, <1>3, <1>5
<1>7. n \in Nat /\ m \in Nat
  BY ProtocolAssumption
<1>8. /\ s.plugin = Text(n) /\ s.scramble = Text(m) /\ s.plugin \in Seq(Nat \ {0}) /\ s.scramble \in Seq(Nat)
      /\ Len(s.plugin) = n
  BY <1>2, <1>7, TextAt
<1>9. PICK r : /\ r = ParseAuthSwitch(ServerAuthSwitch(s), caps) /\ r.rc = rc
               /\ r.rc = "OK" => r.out.auth_plugin = s.plugin /\ r.out.scramble = Truncated(s.scramble, ScrambleLen + 1)
  BY <1>4, <1>8, AuthSwitchReadsBack
<1>10. DOMAIN fields = {"auth_plugin", "scramble"} /\ fields.auth_plugin = s.plugin
       /\ fields.scramble = Truncated(s.scramble, ScrambleLen + 1)
  BY <1>3, <1>8
<1>11. AsMeant(r, rc, "OK", fields)
  BY <1>9, <1>10 DEF AsMeant
<1>12. \A first : Parse(first)' = r
  BY <1>6, <1>9, SendFacts DEF Parse
<1>13. PICK kind : kind = "auth_switch" /\ kind \in Plain /\ kind # "row_err"
  BY DEF Plain
<1>14. Send(kind, caps, 0, ServerAuthSwitch(s), rc, fields)
  BY <1>6, <1>13
<1>15. \A first : AsMeant(Parse(first)', rc, IF kind = "row_err" THEN "ERR" ELSE "OK", fields)
  BY <1>11, <1>12, <1>13
<1>16. QED BY <1>13, <1>14, <1>15, PlainSent

LEMMA HandshakePackets ==
  ASSUME SendHandshake
  PROVE  PacketsFollow'
<1>1. PICK flags \in SUBSET ClientCapabilities, n \in {0, VersionMax + 1}, m \in {PluginMax, PluginMax + 1} :
        LET h == [flags |-> flags, version |-> Text(n), id |-> Radix + 2, scramble |-> Text(ScrambleLen) \o <<0>>,
                  charset |-> 4, status |-> 2, plugin |-> Text(m)]
        IN Send("handshake", {}, 0, ServerHandshake(h),
                CASE flags # ClientCapabilities -> "PROTOCOL_VIOLATION"
                  [] flags = ClientCapabilities /\ m > PluginMax -> "AUTH_PLUGIN_TOO_LONG"
                  [] OTHER -> "OK",
                [server_version |-> Truncated(Text(n), VersionMax), conn_id |-> h.id, server_charset |-> h.charset,
                 server_status |-> h.status, head |-> SubSeq(h.scramble, 1, HeadLen),
                 tail |-> SubSeq(h.scramble, HeadLen + 1, Len(h.scramble)), auth_plugin |-> h.plugin])
  BY Zenon DEF SendHandshake
<1>2. PICK scramble : scramble = Text(ScrambleLen) \o <<0>>
  OBVIOUS
<1>3. PICK id : id = Radix + 2
  OBVIOUS
<1>4. PICK h : h = [flags |-> flags, version |-> Text(n), id |-> id, scramble |-> scramble, charset |-> 4,
                    status |-> 2, plugin |-> Text(m)]
  OBVIOUS
<1>5. PICK fields : fields = [server_version |-> Truncated(Text(n), VersionMax), conn_id |-> h.id,
                              server_charset |-> h.charset, server_status |-> h.status,
                              head |-> SubSeq(h.scramble, 1, HeadLen),
                              tail |-> SubSeq(h.scramble, HeadLen + 1, Len(h.scramble)), auth_plugin |-> h.plugin]
  OBVIOUS
<1>6. PICK rc : rc = IF flags # ClientCapabilities THEN "PROTOCOL_VIOLATION"
                     ELSE IF m > PluginMax THEN "AUTH_PLUGIN_TOO_LONG" ELSE "OK"
  OBVIOUS
<1>7. rc = CASE flags # ClientCapabilities -> "PROTOCOL_VIOLATION"
             [] flags = ClientCapabilities /\ m > PluginMax -> "AUTH_PLUGIN_TOO_LONG" [] OTHER -> "OK"
  <2>1. CASE flags # ClientCapabilities
    BY <1>6, <2>1
  <2>2. CASE flags = ClientCapabilities /\ m > PluginMax
    BY <1>6, <2>2
  <2>3. CASE flags = ClientCapabilities /\ ~(m > PluginMax)
    BY <1>6, <2>3
  <2>4. QED BY <2>1, <2>2, <2>3
<1>8. PICK none : none = {}
  OBVIOUS
<1>9. Send("handshake", none, 0, ServerHandshake(h), rc, fields)
  BY <1>1, <1>2, <1>3, <1>4, <1>5, <1>7, <1>8
<1>10. n \in Nat /\ m \in Nat /\ ScrambleLen \in Nat
  BY ProtocolAssumption
<1>11. /\ h.flags = flags /\ h.version = Text(n) /\ h.id = id /\ h.scramble = scramble /\ h.charset = 4 /\ h.status = 2
       /\ h.plugin = Text(m)
  BY <1>4
<1>12. id \in Nat /\ Small(id) /\ Fits(id, 4)
  <2>1. Radix \in Nat /\ Radix >= 16 /\ Radix^3 = Radix * Radix^2 /\ Radix^2 = Radix * Radix
    BY RadixFacts, Places
  <2>2. PICK k \in Nat : k = Radix /\ k >= 16
    BY <2>1
  <2>3. k * k >= 16 * k /\ k * k \in Nat
    BY <2>2
  <2>4. PICK s \in Nat : s = k * k /\ s >= 16 * k
    BY <2>3
  <2>5. k * s >= s
    BY <2>2, <2>4
  <2>6. k + 2 <= k * s /\ k + 2 \in Nat
    BY <2>2, <2>4, <2>5
  <2>7. Radix^3 = k * s
    BY <2>1, <2>2, <2>4
  <2>8. id \in Nat /\ id <= Radix^3
    BY <1>3, <2>2, <2>6, <2>7
  <2>9. QED BY <2>8, FitsIn, SmallNumbers
<1>13. scramble \in Seq(Nat) /\ Len(scramble) = ScrambleLen + 1
  <2>1. PICK text \in Seq(Nat) : text = Text(ScrambleLen) /\ Len(text) = ScrambleLen
    BY <1>10, TextAt
  <2>2. PICK last \in Seq(Nat) : last = <<0>> /\ Len(last) = 1
    <3>1. <<0>> \in Seq(Nat) /\ Len(<<0>>) = 1
      OBVIOUS
    <3>2. QED BY <3>1, Zenon
  <2>3. text \o last \in Seq(Nat) /\ Len(text \o last) = ScrambleLen + 1
    BY <2>1, <2>2
  <2>4. QED BY <1>2, <2>1, <2>2, <2>3
<1>14. 2 \in Word /\ 4 \in Nat
  BY SampleSizes
<1>15. HandshakeMeant(h)
  BY <1>10, <1>11, <1>12, <1>13, <1>14, TextAt DEF HandshakeMeant
<1>16. Len(h.plugin) = m
  BY <1>10, <1>11, TextAt
<1>17. PICK r : /\ r = ParseHandshake(ServerHandshake(h)) /\ r.rc = rc
                /\ r.rc = "OK" =>
                     /\ r.out.server_version = Truncated(h.version, VersionMax) /\ r.out.conn_id = h.id
                     /\ r.out.server_charset = h.charset /\ r.out.server_status = h.status
                     /\ r.out.head = SubSeq(h.scramble, 1, HeadLen)
                     /\ r.out.tail = SubSeq(h.scramble, HeadLen + 1, Len(h.scramble))
                     /\ r.out.auth_plugin = h.plugin
  BY <1>6, <1>11, <1>15, <1>16, HandshakeReadsBack
<1>18. /\ DOMAIN fields = {"server_version", "conn_id", "server_charset", "server_status", "head", "tail", "auth_plugin"}
       /\ fields.server_version = Truncated(h.version, VersionMax) /\ fields.conn_id = h.id
       /\ fields.server_charset = h.charset /\ fields.server_status = h.status
       /\ fields.head = SubSeq(h.scramble, 1, HeadLen)
       /\ fields.tail = SubSeq(h.scramble, HeadLen + 1, Len(h.scramble)) /\ fields.auth_plugin = h.plugin
  BY <1>5, <1>11
<1>19. AsMeant(r, rc, "OK", fields)
  BY <1>17, <1>18 DEF AsMeant
<1>20. \A first : Parse(first)' = r
  BY <1>9, <1>17, SendFacts DEF Parse
<1>21. PICK kind : kind = "handshake" /\ kind \in Plain /\ kind # "row_err"
  BY DEF Plain
<1>22. Send(kind, none, 0, ServerHandshake(h), rc, fields)
  BY <1>9, <1>21
<1>23. \A first : AsMeant(Parse(first)', rc, IF kind = "row_err" THEN "ERR" ELSE "OK", fields)
  BY <1>19, <1>20, <1>21
<1>24. QED BY <1>21, <1>22, <1>23, PlainSent

LEMMA ResultPackets ==
  ASSUME SendResult
  PROVE  PacketsFollow'
<1>1. PICK n \in Numbers : Send("result", {}, 0, ServerLenenc(n), "OK", [column_count |-> n])
  BY DEF SendResult
<1>2. PICK fields : fields = [column_count |-> n]
  OBVIOUS
<1>3. PICK none : none = {}
  OBVIOUS
<1>4. Send("result", none, 0, ServerLenenc(n), "OK", fields)
  BY <1>1, <1>2, <1>3
<1>5. PICK r : r = ParseResult(ServerLenenc(n)) /\ r.rc = "OK" /\ r.out.column_count = n
  BY SampleSizes, ResultReadsBack
<1>6. DOMAIN fields = {"column_count"} /\ fields.column_count = n
  BY <1>2
<1>7. AsMeant(r, "OK", "OK", fields)
  BY <1>5, <1>6 DEF AsMeant
<1>8. \A first : Parse(first)' = r
  BY <1>4, <1>5, SendFacts DEF Parse
<1>9. PICK kind : kind = "result" /\ kind \in Plain /\ kind # "row_err"
  BY DEF Plain
<1>10. Send(kind, none, 0, ServerLenenc(n), "OK", fields)
  BY <1>4, <1>9
<1>11. \A first : AsMeant(Parse(first)', "OK", IF kind = "row_err" THEN "ERR" ELSE "OK", fields)
  BY <1>7, <1>8, <1>9
<1>12. QED BY <1>9, <1>10, <1>11, PlainSent

LEMMA StmtOkPackets ==
  ASSUME SendStmtOk
  PROVE  PacketsFollow'
<1>1. PICK s : s = [id |-> Radix^2, column_count |-> 1, parameter_count |-> Radix, warning_count |-> 2]
  OBVIOUS
<1>2. PICK none : none = {}
  OBVIOUS
<1>3. Send("stmt_ok", none, 0, ServerStmtOk(s), "OK", s)
  BY <1>1, <1>2 DEF SendStmtOk
<1>4. DOMAIN s = {"id", "column_count", "parameter_count", "warning_count"}
      /\ s.id = Radix^2 /\ s.column_count = 1 /\ s.parameter_count = Radix /\ s.warning_count = 2
  BY <1>1
<1>5. Radix \in Nat /\ Radix <= Radix + 1 /\ 1 \in Nat /\ 2 \in Nat /\ 1 <= 40 /\ 2 <= 40
  BY RadixFacts
<1>6. 1 \in Word /\ 2 \in Word /\ Radix \in Word
  BY <1>5, SampleSizes
<1>7. StmtMeant(s)
  BY <1>4, <1>6, SampleSizes DEF StmtMeant
<1>8. PICK r : /\ r = ParseStmtOk(ServerStmtOk(s)) /\ r.rc = "OK"
               /\ \A f \in {"id", "column_count", "parameter_count", "warning_count"} : r.out[f] = s[f]
  BY <1>7, StmtOkReadsBack
<1>9. AsMeant(r, "OK", "OK", s)
  BY <1>4, <1>8 DEF AsMeant
<1>10. \A first : Parse(first)' = r
  BY <1>3, <1>8, SendFacts DEF Parse
<1>11. PICK kind : kind = "stmt_ok" /\ kind \in Plain /\ kind # "row_err"
  BY DEF Plain
<1>12. Send(kind, none, 0, ServerStmtOk(s), "OK", s)
  BY <1>3, <1>11
<1>13. \A first : AsMeant(Parse(first)', "OK", IF kind = "row_err" THEN "ERR" ELSE "OK", s)
  BY <1>9, <1>10, <1>11
<1>14. QED BY <1>11, <1>12, <1>13, PlainSent

LEMMA ColumnPackets ==
  ASSUME SendColumn
  PROVE  PacketsFollow'
<1>1. PICK field_list \in BOOLEAN, name \in Texts :
        LET c == [catalog |-> Text(3), schema |-> <<>>, table |-> Text(1), original_table |-> Text(2), name |-> name,
                  original_name |-> <<4>>, charset |-> 33, len |-> Radix^2, type |-> 3, flags |-> 32, decimals |-> 1,
                  default_value |-> IF field_list THEN name ELSE <<>>]
        IN Send("column", {}, field_list, ServerColumn(c, field_list), "OK", c)
  BY Zenon DEF SendColumn
<1>2. PICK default : default = IF field_list THEN name ELSE <<>>
  OBVIOUS
<1>3. PICK c : c = [catalog |-> Text(3), schema |-> <<>>, table |-> Text(1), original_table |-> Text(2), name |-> name,
                    original_name |-> <<4>>, charset |-> 33, len |-> Radix^2, type |-> 3, flags |-> 32, decimals |-> 1,
                    default_value |-> default]
  OBVIOUS
<1>4. PICK none : none = {}
  OBVIOUS
<1>5. Send("column", none, field_list, ServerColumn(c, field_list), "OK", c)
  BY <1>1, <1>2, <1>3, <1>4
<1>6. DOMAIN c = {"catalog", "schema", "table", "original_table", "name", "original_name", "charset", "len", "type",
                  "flags", "decimals", "default_value"}
  BY <1>3
<1>7. /\ c.catalog = Text(3) /\ c.schema = <<>> /\ c.table = Text(1) /\ c.original_table = Text(2) /\ c.name = name
      /\ c.original_name = <<4>> /\ c.charset = 33 /\ c.len = Radix^2 /\ c.type = 3 /\ c.flags = 32 /\ c.decimals = 1
      /\ c.default_value = default
  BY <1>3
<1>8. \A n \in {1, 2, 3} : Texted(Text(n))
  <2>1. ASSUME NEW n \in {1, 2, 3} PROVE Texted(Text(n))
    <3>1. n \in Nat /\ n \in Sizes
      BY SampleSizes
    <3>2. QED BY <3>1, TextAt DEF Texted
  <2>2. QED BY <2>1
<1>9. Texted(<<>>)
  <2>1. <<>> \in Seq(Nat) /\ Len(<<>>) = 0
    OBVIOUS
  <2>2. QED BY <2>1, SampleSizes DEF Texted
<1>10. Texted(c.original_name)
  <2>1. <<4>> \in Seq(Nat) /\ Len(<<4>>) = 1
    OBVIOUS
  <2>2. QED BY <1>7, <2>1, SampleSizes DEF Texted
<1>11. Texted(name)
  BY SampleSizes
<1>12. Texted(c.catalog) /\ Texted(c.schema) /\ Texted(c.table) /\ Texted(c.original_table) /\ Texted(c.name)
  BY <1>7, <1>8, <1>9, <1>11
<1>13. c.charset \in Word /\ c.flags \in Word
  <2>1. 33 \in Nat /\ 32 \in Nat /\ 33 <= 40 /\ 32 <= 40
    OBVIOUS
  <2>2. QED BY <1>7, <2>1, SampleSizes
<1>14. c.len \in Nat /\ Fits(c.len, 4) /\ Small(c.len) /\ c.type \in Nat /\ c.decimals \in Nat
  BY <1>7, SampleSizes
<1>15. IF field_list THEN Texted(c.default_value) ELSE c.default_value = <<>>
  BY <1>2, <1>7, <1>11
<1>16. ColumnMeant(c, field_list)
  BY <1>10, <1>12, <1>13, <1>14, <1>15 DEF ColumnMeant
<1>17. PICK r : /\ r = ParseColumn(ServerColumn(c, field_list), field_list) /\ r.rc = "OK"
                /\ \A f \in {"catalog", "schema", "table", "original_table", "name", "original_name", "charset", "len", "type",
                             "flags", "decimals", "default_value"} : r.out[f] = c[f]
  BY <1>16, ColumnReadsBack
<1>18. AsMeant(r, "OK", "OK", c)
  BY <1>6, <1>17 DEF AsMeant
<1>19. \A first : Parse(first)' = r
  BY <1>5, <1>17, SendFacts DEF Parse
<1>20. PICK kind : kind = "column" /\ kind \in Plain /\ kind # "row_err"
  BY DEF Plain
<1>21. Send(kind, none, field_list, ServerColumn(c, field_list), "OK", c)
  BY <1>5, <1>20
<1>22. \A first : AsMeant(Parse(first)', "OK", IF kind = "row_err" THEN "ERR" ELSE "OK", c)
  BY <1>18, <1>19, <1>20
<1>23. QED BY <1>20, <1>21, <1>22, PlainSent

LEMMA SampleValues ==
  /\ Null \in RowValues
  /\ \A t \in Texts : Value(t) \in RowValues
  /\ \A n \in {Radix^2, Radix^3} : Value(Text(n)) \in RowValues
<1>1. ASSUME NEW t, Texted(t) PROVE Value(t) \in RowValues
  BY <1>1 DEF RowValues, RowValue, Texted
<1>2. \A n \in {Radix^2, Radix^3} : Texted(Text(n))
  <2>1. PICK s, y \in Nat : s = Radix^2 /\ y = Radix^3
    BY Places
  <2>2. \A n \in {s, y} : Text(n) \in Seq(Nat) /\ Len(Text(n)) = n
    BY TextNat
  <2>3. \A n \in {s, y} : n \in Sizes
    BY <2>1, SampleSizes
  <2>4. QED BY <2>1, <2>2, <2>3 DEF Texted
<1>3. QED BY <1>1, <1>2, SampleSizes DEF RowValues, RowValue

LEMMA RowPackets ==
  ASSUME SendRow
  PROVE  PacketsFollow'
<1> DEFINE texts == {Null} \cup {Value(t) : t \in Texts}
           long == {Null} \cup {Value(Text(n)) : n \in {Radix^2, Radix^3}}
<1>1. PICK values :
        /\ values \in {<<v>> : v \in texts} \cup {<<v, w>> : v, w \in texts} \cup {<<v, Null>> : v \in long}
        /\ Send("row", V41, Len(values), ServerRow(values), "OK", [values |-> values])
  BY DEF SendRow
<1>2. \A v \in texts \cup long : v \in RowValues
  BY SampleValues
<1> HIDE DEF texts, long
<1>3. values \in Seq(RowValues) /\ Len(values) \in Nat \ {0}
  <2>1. Null \in RowValues
    BY SampleValues
  <2>2. PICK v, w \in RowValues : values = <<v>> \/ values = <<v, w>>
    <3>1. CASE \E v \in texts : values = <<v>>
      BY <1>2, <3>1
    <3>2. CASE \E v, w \in texts : values = <<v, w>>
      BY <1>2, <3>2
    <3>3. CASE \E v \in long : values = <<v, Null>>
      BY <1>2, <2>1, <3>3
    <3>4. \/ \E v \in texts : values = <<v>>
          \/ \E v, w \in texts : values = <<v, w>>
          \/ \E v \in long : values = <<v, Null>>
      BY <1>1
    <3>5. QED BY <3>1, <3>2, <3>3, <3>4
  <2>3. QED BY <2>2, PairOfValues
<1>4. PICK n \in Nat \ {0} : n = Len(values)
  BY <1>3
<1>5. PICK row, caps, buff : row = ParseRow(ServerRow(values), n) /\ caps = V41 /\ buff = ServerRow(values)
  OBVIOUS
<1>15. PICK fields : fields = [values |-> values]
  OBVIOUS
<1>6. row.rc = "OK" /\ row.out.values = values
  BY <1>3, <1>4, <1>5, RowReadsBack
<1>7. Send("row", caps, n, buff, "OK", fields)
  BY <1>1, <1>4, <1>5, <1>15
<1>8. DOMAIN fields = {"values"} /\ fields.values = values
  BY <1>15
<1>9. AsMeant(row, "OK", "OK", fields)
  BY <1>6, <1>8 DEF AsMeant
<1>10. ASSUME NEW first PROVE Parse(first)' = row
  <2>1. RowOutcome(first, buff, caps, row) = row
    BY <1>3, <1>4, <1>5, RowIsRow
  <2>2. Parse(first)' = RowOutcome(first, buff, caps, ParseRow(buff, n))
    BY <1>7, SendFacts DEF Parse
  <2>3. QED BY <1>5, <2>1, <2>2
<1>11. PICK kind : kind = "row" /\ kind \in Plain /\ kind # "row_err"
  BY DEF Plain
<1>12. Send(kind, caps, n, buff, "OK", fields)
  BY <1>7, <1>11
<1>13. \A first : AsMeant(Parse(first)', "OK", IF kind = "row_err" THEN "ERR" ELSE "OK", fields)
  BY <1>9, <1>10, <1>11
<1>14. QED BY <1>11, <1>12, <1>13, PlainSent

LEMMA OkPackets ==
  ASSUME PacketsFollow, SendCounters \/ SendStatus \/ SendSession
  PROVE  PacketsFollow'
<1>1. Idle /\ \E caps, o : SendOk(caps, o)
  BY DEF SendCounters, SendStatus, SendSession
<1>2. \E bytes, rc, fields, caps : Send("ok", caps, 0, bytes, rc, fields)
  BY <1>1 DEF SendOk
<1>3. phase' = "wire" /\ sent'.kind = "ok" /\ conn' = conn
  BY <1>2, SendFacts
<1>4. conn.last_gtid = Earlier
  BY <1>1 DEF PacketsFollow, Idle
<1>5. "ok" \notin Plain
  BY DEF Plain
<1>6. QED BY <1>3, <1>4, <1>5 DEF PacketsFollow, RoundTrip

LEMMA ParsesPackets ==
  ASSUME StatusFollows, PacketsFollow, ClientParses
  PROVE  PacketsFollow'
<1>1. phase = "wire" /\ phase' = "read" /\ sent' = sent /\ damage' = damage
  BY DEF ClientParses
<1>2. CASE damage # "none"
  BY <1>1, <1>2 DEF PacketsFollow, RoundTrip
<1>3. CASE damage = "none" /\ sent.kind \in Plain
  <2>1. Arrives
    BY <1>1, <1>3 DEF PacketsFollow
  <2>2. RoundTrip'
    BY <1>3, <2>1, PlainReceived
  <2>3. QED BY <1>1, <2>2 DEF PacketsFollow
<1>4. CASE damage = "none" /\ sent.kind = "ok"
  <2>1. OkUnderWay /\ conn.last_gtid = Earlier
    BY <1>1, <1>4 DEF PacketsFollow, StatusFollows
  <2>2. RoundTrip'
    BY <1>4, <2>1, OkArrives
  <2>3. QED BY <1>1, <2>2 DEF PacketsFollow
<1>5. CASE sent.kind \notin Plain \cup {"ok"}
  BY <1>1, <1>5 DEF PacketsFollow
<1>6. QED BY <1>2, <1>3, <1>4, <1>5

LEMMA NextPackets ==
  Kept /\ StatusFollows /\ PacketsFollow /\ [Next]_vars => Kept' /\ StatusFollows' /\ PacketsFollow'
<1> SUFFICES ASSUME Kept, StatusFollows, PacketsFollow, [Next]_vars PROVE PacketsFollow'
  BY NextFollows
<1>1. CASE SendCounters \/ SendStatus \/ SendSession
  BY <1>1, OkPackets
<1>2. CASE SendErr
  BY <1>2, ErrPackets
<1>3. CASE SendAuthSwitch
  BY <1>3, AuthSwitchPackets
<1>4. CASE SendResult
  BY <1>4, ResultPackets
<1>5. CASE SendStmtOk
  BY <1>5, StmtOkPackets
<1>6. CASE SendColumn
  BY <1>6, ColumnPackets
<1>7. CASE SendRow
  BY <1>7, RowPackets
<1>8. CASE SendRowErr
  BY <1>8, RowErrPackets
<1>9. CASE SendStmtRow \/ SendEnd \/ ClientExecutes \/ ClientCommands \/ ClientLogsIn \/ ClientAsksForTls
  <2>1. \E kind, caps, arg, bytes, rc, fields :
          /\ kind \in {"stmt_row", "row_end", "stmt_end", "execute", "command", "login"}
          /\ Send(kind, caps, arg, bytes, rc, fields)
    <3>1. CASE SendStmtRow
      <4>1. \E types, values : Binary(types, values)
        BY <3>1, Zenon DEF SendStmtRow
      <4>2. QED BY <4>1 DEF Binary
    <3>2. CASE SendEnd
      BY <3>2 DEF SendEnd
    <3>3. CASE ClientExecutes \/ ClientCommands \/ ClientLogsIn \/ ClientAsksForTls
      <4>1. CASE ClientExecutes
        <5>1. \E binds : Execute(binds)
          BY <4>1, Zenon DEF ClientExecutes
        <5>2. QED BY <5>1 DEF Execute
      <4>2. CASE ClientCommands
        <5>1. \E op, bytes, fields : Command(op, bytes, fields)
          BY <4>2, Zenon DEF ClientCommands
        <5>2. \A op, bytes, fields : Command(op, bytes, fields) => \E all : Send("command", {}, 0, bytes, "OK", all)
          BY Zenon DEF Command
        <5>3. QED BY <5>1, <5>2
      <4>3. CASE ClientLogsIn
        BY <4>3 DEF ClientLogsIn
      <4>4. CASE ClientAsksForTls
        BY <4>4 DEF ClientAsksForTls
      <4>5. QED BY <3>3, <4>1, <4>2, <4>3, <4>4
    <3>4. QED BY <1>9, <3>1, <3>2, <3>3
  <2>2. PICK kind : kind \notin Plain \cup {"ok"} /\ phase' = "wire" /\ sent'.kind = kind
    BY <2>1, SendFacts DEF Plain
  <2>3. QED BY <2>2, OtherPackets
<1>10. CASE Cut \/ Lengthen \/ Alter
  <2>1. UnderWay /\ \E what \in {"cut", "longer", "changed"} : \E bytes : Damage(what, bytes)
    BY <1>10 DEF Cut, Lengthen, Alter
  <2>2. damage' # "none" /\ phase' = "wire"
    BY <2>1 DEF Damage, UnderWay
  <2>3. QED BY <2>2 DEF PacketsFollow, RoundTrip
<1>11. CASE ClientParses
  BY <1>11, ParsesPackets
<1>12. CASE ClientEscapes
  <2>1. phase' = "wire" /\ sent'.kind = "escape" /\ "escape" \notin Plain \cup {"ok"}
    BY <1>12 DEF ClientEscapes, Plain
  <2>2. QED BY <2>1, OtherPackets
<1>13. CASE ServerReads
  <2>1. phase' = "read" /\ sent' = sent /\ sent.kind \notin FromServer
    BY <1>13 DEF ServerReads
  <2>2. sent.kind \notin Plain \cup {"ok"}
    BY <2>1 DEF FromServer, Plain
  <2>3. QED BY <2>1, <2>2 DEF PacketsFollow
<1>14. CASE UNCHANGED vars
  <2>1. /\ phase' = phase /\ sent' = sent /\ packet' = packet /\ damage' = damage /\ conn' = conn /\ got' = got
    BY <1>14 DEF vars
  <2>2. Arrives' <=> Arrives
    BY <2>1 DEF Arrives, AsMeant, Parse
  <2>3. RoundTrip' <=> RoundTrip
    BY <2>1 DEF RoundTrip, Ended, Accepted, Agree
  <2>4. QED BY <2>1, <2>2, <2>3 DEF PacketsFollow
<1>15. CASE SendHandshake
  BY <1>15, HandshakePackets
<1>16. QED
  <2>1. Next \/ UNCHANGED vars
    OBVIOUS
  <2>2. QED BY <2>1, <1>1, <1>2, <1>3, <1>4, <1>5, <1>6, <1>7, <1>8, <1>9, <1>10, <1>11, <1>12, <1>13, <1>14, <1>15 DEF Next

(* RoundTrip, of every packet but a row of a statement: the client's parser  *)
(* of a packet that arrived whole returns what it ought to and fills in the  *)
(* fields the server wrote, whatever the limits of the protocol are, and the *)
(* connection keeps the GTID of an OK packet unless it is empty or as long   *)
(* as TRILOGY_MAX_LAST_GTID_LEN.                                             *)
THEOREM PacketsArrive == Spec => [](sent.kind # "stmt_row" => RoundTrip)
<1>1. Init => Kept /\ StatusFollows /\ PacketsFollow
  BY InitPackets, InitFollows DEF Init, Kept
<1>2. PacketsFollow => (sent.kind # "stmt_row" => RoundTrip)
  BY DEF PacketsFollow, RoundTrip, FromServer, Plain, Ended
<1>3. QED BY <1>1, <1>2, NextPackets, PTL DEF Spec

=============================================================================
