------------------------------- MODULE Conn -------------------------------
(***************************************************************************)
(* The command phase of a connection (src/src/client.c, src/src/blocking.c)*)
(* packet by packet: commands and their replies, result sets, prepared     *)
(* statements, several results to one query, draining and closing.         *)
(*                                                                         *)
(* The caller follows client.h, and treats errors as the Ruby binding does *)
(* (handle_trilogy_error in src/contrib/ruby/ext/trilogy-ruby/cext.c): an  *)
(* error that is not recoverable shuts the socket down. A receiving call   *)
(* that finds no whole packet returns TRILOGY_AGAIN and changes nothing    *)
(* here (ReadRowAgain apart); that the packets themselves arrive whole is  *)
(* the business of Framing.                                                *)
(* The server is external: a conforming one, with or without DEPRECATE_EOF.*)
(*                                                                         *)
(* Not every path of the code bears all that caller and server may do.     *)
(* What it does not bear has a name, and astray notes when it happens:     *)
(*   abandon   a command is sent though the caller was told of results     *)
(*             that it has not read, which client.h:459 forbids            *)
(*   large     another command than a query or an execute takes several    *)
(*             fragments, and is answered                                  *)
(*   legacy    prepared statements, or set_option, without DEPRECATE_EOF   *)
(*   drain     drain_results with it                                       *)
(*   poll      next_result after a command or a result that failed         *)
(*   long_end  with session tracking the OK packet that ends the rows has  *)
(*             nine bytes or more                                          *)
(***************************************************************************)
EXTENDS Integers, SequencesExt

CONSTANTS
  Ops,          \* the commands the caller uses
  SeqCount,     \* values of the sequence byte, 256 in the code
  Servers,      \* has the server DEPRECATE_EOF: the values it may have
  Habits,       \* what caller and server do of what not every path bears
  Faults,       \* what may go wrong outside
  MaxCommands,  \* bound: commands sent
  MaxFrags,     \* bound: fragments of a command
  MaxCols,      \* bound: columns of a result
  MaxRows,      \* bound: rows of a result
  MaxResults    \* bound: results to one query

ResultOps == {"query", "execute"}
SilentNone == {}                               \* Silent if every command awaited a reply
Silent == {"bind_data", "stmt_close"}          \* the server does not reply
Generic == {"ping", "change_db", "stmt_reset", "set_option"}
Sizable == {"query", "execute", "prepare", "change_db", "bind_data"}
AllOps == ResultOps \cup Generic \cup {"prepare", "bind_data", "stmt_close", "quit"}
HabitKinds == {"abandon", "large", "legacy", "drain", "poll", "long_end"}
FaultKinds == {"timeout", "close", "nomem"}

ASSUME ConnAssumption ==
  /\ Ops \subseteq AllOps /\ Servers \subseteq BOOLEAN
  /\ Habits \subseteq HabitKinds /\ Faults \subseteq FaultKinds
  /\ SeqCount \in Nat \ {0, 1}
  /\ MaxFrags \in 1..(SeqCount - 1)
  /\ MaxCommands \in Nat /\ MaxCols \in Nat /\ MaxRows \in Nat /\ MaxResults \in Nat

VARIABLES
  pc,               \* what the caller is at, one of PCs
  op, cmd,          \* the current command, and its number among all commands
  rc,               \* what the last call of a send or recv function returned
  frags, unsent,    \* fragments of the command, and how many are still to be flushed
  sequence_number,  \* packet_parser.sequence_number
  more,             \* server_status & TRILOGY_SERVER_STATUS_MORE_RESULTS_EXISTS
  started_reading_rows,
  columns,          \* column packets the caller has still to read
  rows,             \* history: rows handed out of the current result
  astray,           \* history: something has happened that the code does not bear
  deprecate_eof,    \* capabilities & TRILOGY_CAPABILITIES_DEPRECATE_EOF
  c2s, s2c,         \* commands and packets on their way
  srv,              \* the server: the reply it is sending
  peer_closed

clientVars == <<pc, op, cmd, rc, frags, unsent, sequence_number, more, started_reading_rows,
                columns, rows, astray>>
wireVars == <<c2s, s2c, srv, peer_closed, deprecate_eof>>
vars == <<clientVars, wireVars>>

\* "flush": flush_writes is due; "recv", "columns", "rows", "drain": the recv
\* function, read_column, read_row and drain_results, are called until they
\* have what they want; "ready": the caller may send a command.
Reading == {"recv", "columns", "rows", "drain"}
PCs == Reading \cup {"ready", "flush", "closed"}

Kinds == {"ok", "err", "head", "col", "coleof", "row", "bigrow", "eof", "longeof", "stmt_ok"}
Refusals == {"INVALID_SEQUENCE_ID", "UNEXPECTED_PACKET", "TRUNCATED_PACKET", "PROTOCOL_VIOLATION"}
Errors == Refusals \cup {"ERR", "MAX_PACKET_EXCEEDED", "SYSERR", "TIMEOUT", "CLOSED_CONNECTION"}

NextSeqUnwrapped(s) == s + 1
NextSeq(s) == (s + 1) % SeqCount

----------------------------------------------------------------------------
(* The server *)

\* A packet's content: n is the count it announces, or for the packet that ends
\* the rows, the number of rows before it.
P(kind, m, n) == <<[kind |-> kind, more |-> m, n |-> n]>>
Several(k, p) == FlattenSeq([i \in 1..k |-> p])

\* A result set up to its rows. Without DEPRECATE_EOF an EOF follows the columns.
\* A text row whose first field is huge starts with the byte of an EOF packet.
Rows(o, m, c, r, kind) ==
  P("head", FALSE, c) \o Several(c, P("col", FALSE, 0))
    \o (IF deprecate_eof THEN <<>> ELSE P("coleof", m, 0))
    \o Several(r, P(IF o = "query" THEN kind ELSE "row", FALSE, 0))

Shapes == [c : 1..MaxCols, r : 0..MaxRows, kind : {"row", "bigrow"}]

\* What ends the rows: an EOF, or the OK packet that replaces it, which is as
\* short unless it tells of the session.
Ends == {"eof"} \cup (IF deprecate_eof /\ "long_end" \in Habits THEN {"longeof"} ELSE {})

\* One complete result; m tells that another one follows.
Result(o, m) ==
  {P("ok", m, 0)} \cup {Rows(o, m, s.c, s.r, s.kind) \o P(end, m, s.r) : s \in Shapes, end \in Ends}

\* An error ends the reply, before or between the rows.
LastResult(o) ==
  Result(o, FALSE) \cup {P("err", FALSE, 0)}
    \cup {Rows(o, FALSE, s.c, s.r, s.kind) \o P("err", FALSE, 0) : s \in Shapes}

Definitions(k) ==
  Several(k, P("col", FALSE, 0)) \o (IF deprecate_eof \/ k = 0 THEN <<>> ELSE P("coleof", FALSE, 0))

ResultReplies(o) ==
  UNION {{FlattenSeq(Append(x[1], x[2])) : x \in [1..(n - 1) -> Result(o, TRUE)] \X LastResult(o)} :
          n \in 1..MaxResults}

PrepareReplies ==
  {P("err", FALSE, 0)} \cup
    {P("stmt_ok", FALSE, x[1] + x[2]) \o Definitions(x[1]) \o Definitions(x[2]) : x \in (0..MaxCols) \X (0..MaxCols)}

Replies(o) ==
  CASE o \in ResultOps -> ResultReplies(o)
    [] o = "prepare" -> PrepareReplies
    [] o = "set_option" -> {P("eof", FALSE, 0), P("ok", FALSE, 0), P("err", FALSE, 0)}
    [] o \in Generic \ {"set_option"} -> {P("ok", FALSE, 0), P("err", FALSE, 0)}
    [] OTHER -> {<<>>}

\* The server takes a command once it has answered the one before. Its first
\* packet carries the number after the command's last fragment.
ServerTakes ==
  /\ c2s # <<>> /\ srv.todo = <<>> /\ ~peer_closed
  /\ LET c == Head(c2s) IN
       /\ \E reply \in Replies(c.op) :
            srv' = [cmd |-> c.cmd, seq |-> c.frags % SeqCount, todo |-> reply]
       /\ peer_closed' = (c.op = "quit")
  /\ c2s' = Tail(c2s)
  /\ UNCHANGED <<clientVars, s2c, deprecate_eof>>

ServerSends ==
  /\ srv.todo # <<>> /\ ~peer_closed
  /\ LET p == Head(srv.todo) IN
       s2c' = Append(s2c, [kind |-> p.kind, more |-> p.more, n |-> p.n, seq |-> srv.seq, cmd |-> srv.cmd])
  /\ srv' = [srv EXCEPT !.seq = NextSeq(@), !.todo = Tail(@)]
  /\ UNCHANGED <<clientVars, c2s, peer_closed, deprecate_eof>>

ServerCloses ==
  /\ "close" \in Faults /\ ~peer_closed
  /\ peer_closed' = TRUE /\ c2s' = <<>> /\ srv' = [srv EXCEPT !.todo = <<>>]
  /\ UNCHANGED <<clientVars, s2c, deprecate_eof>>

\* The server has packets of a reply on the way or still to send.
Pending == s2c # <<>> \/ srv.todo # <<>>

----------------------------------------------------------------------------
(* Errors *)

\* trilogy_error_recoverable_p
RecoverableOnTimeout(code) == code \in {"ERR", "MAX_PACKET_EXCEEDED", "TIMEOUT"}
Recoverable(code) == code \in {"ERR", "MAX_PACKET_EXCEEDED"}

\* handle_trilogy_error: the socket survives a recoverable error only.
HandleError(code) ==
  /\ rc' = code
  /\ pc' = IF Recoverable(code) THEN "ready" ELSE "closed"

\* The command, or one result of it, is complete.
Finish(code) == rc' = code /\ pc' = "ready"

----------------------------------------------------------------------------
(* Sending *)

\* The socket has taken all but left of the command's f fragments. The server
\* acts on a command when it has all of it.
HandOver(o, number, left, f) ==
  /\ unsent' = left
  /\ IF left > 0 THEN pc' = "flush" /\ UNCHANGED c2s
     ELSE /\ pc' = IF o \in Silent THEN "ready" ELSE "recv"
          /\ c2s' = IF peer_closed THEN c2s ELSE Append(c2s, [op |-> o, cmd |-> number, frags |-> f])

\* The number the reply has to start with: begin_command_phase sets it to 1,
\* and query_send and stmt_execute_send set it again from the builder.
ReplySeqOne(o, f) == 1
ReplySeq(o, f) == IF o \in ResultOps THEN f % SeqCount ELSE 1

\* Which habits it takes to send it.
Beyond(o, f) ==
  {h \in {"abandon", "large", "legacy"} :
     \/ h = "abandon" /\ more /\ Pending
     \/ h = "large" /\ f > 1 /\ o \notin ResultOps \cup Silent
     \/ h = "legacy" /\ ~deprecate_eof /\ o \in {"prepare", "execute", "set_option"}}

\* The *_send functions, from begin_command_phase to the first flush_writes in
\* begin_write, for a command of f fragments.
Send(o, f) ==
  /\ pc = "ready" /\ cmd < MaxCommands
  /\ f > 1 => o \in Sizable
  /\ Beyond(o, f) \subseteq Habits /\ astray' = (astray \/ Beyond(o, f) # {})
  /\ op' = o /\ cmd' = cmd + 1 /\ rc' = "OK" /\ frags' = f
  /\ sequence_number' = ReplySeq(o, f)
  /\ \E left \in 0..f : HandOver(o, cmd', left, f)
  /\ UNCHANGED <<more, started_reading_rows, columns, rows, s2c, srv, peer_closed, deprecate_eof>>

\* Building the packet fails: it passes max_allowed_packet, or memory is out.
\* Nothing of it has been written.
SendFailsLate(o, code) ==        \* if fragments had been flushed as they were built
  /\ pc = "ready" /\ code = "MAX_PACKET_EXCEEDED"
  /\ op' = o /\ sequence_number' = 1
  /\ HandleError(code)
  /\ c2s' = Append(c2s, [op |-> o, cmd |-> cmd, frags |-> 1])
  /\ UNCHANGED <<cmd, frags, unsent, more, started_reading_rows, columns, rows, astray,
                 s2c, srv, peer_closed, deprecate_eof>>
SendFails(o, code) ==
  /\ pc = "ready"
  /\ code = "SYSERR" => "nomem" \in Faults
  /\ op' = o /\ sequence_number' = 1
  /\ HandleError(code)
  /\ UNCHANGED <<cmd, frags, unsent, more, started_reading_rows, columns, rows, astray, wireVars>>

\* flush_full and flush_writes, one write at a time.
FlushWrites ==
  /\ pc = "flush" /\ rc' = "OK"
  /\ \E left \in 0..(unsent - 1) : HandOver(op, cmd, left, frags)
  /\ UNCHANGED <<op, cmd, frags, sequence_number, more, started_reading_rows, columns, rows, astray,
                 s2c, srv, peer_closed, deprecate_eof>>

\* The write fails on a socket the peer has closed.
FlushFails ==
  /\ pc = "flush" /\ peer_closed
  /\ HandleError("SYSERR")
  /\ UNCHANGED <<op, cmd, frags, unsent, sequence_number, more, started_reading_rows, columns, rows,
                 astray, wireVars>>

----------------------------------------------------------------------------
(* Receiving *)

\* current_packet_type, as far as the receivers tell types apart.
PacketType(p) ==
  CASE p.kind \in {"ok", "stmt_ok"} -> "OK"
    [] p.kind = "err" -> "ERR"
    [] p.kind \in {"eof", "longeof", "coleof", "bigrow"} -> "EOF"
    [] OTHER -> "OTHER"

\* The test for the end of the rows: type EOF and shorter than nine bytes.
IsEofAnyLength(p) == PacketType(p) = "EOF"
IsEof(p) == PacketType(p) = "EOF" /\ p.kind \notin {"bigrow", "longeof"}

\* read_packet succeeds: the next packet has the number the parser expects.
Accept ==
  /\ s2c # <<>> /\ Head(s2c).seq = sequence_number
  /\ s2c' = Tail(s2c) /\ sequence_number' = NextSeq(sequence_number)
  /\ astray' = (astray \/ Head(s2c).kind = "longeof")
  /\ UNCHANGED <<op, cmd, frags, unsent, c2s, srv, peer_closed, deprecate_eof>>

\* read_packet fails on the number. The packet stays where it is.
Refuse ==
  /\ pc \in Reading /\ op # "quit" /\ s2c # <<>> /\ Head(s2c).seq # sequence_number
  /\ HandleError("INVALID_SEQUENCE_ID")
  /\ UNCHANGED <<op, cmd, frags, unsent, sequence_number, more, started_reading_rows, columns, rows,
                 astray, wireVars>>

\* read_ok_packet and read_deprecated_eof_packet store the server's status;
\* read_err_packet does not.
ServerStatusSticky(p) == more \/ p.more
ServerStatus(p) == p.more
ReadErr == HandleError("ERR") /\ UNCHANGED more
Malformed(code) == HandleError(code) /\ UNCHANGED more

\* What trilogy_query_recv and trilogy_stmt_execute_recv do with the packet that
\* starts a result.
StartResult(p) ==
  CASE p.kind = "ok" -> Finish("OK") /\ more' = ServerStatus(p) /\ UNCHANGED <<columns, rows>>
    [] p.kind = "err" -> ReadErr /\ UNCHANGED <<columns, rows>>
    [] p.kind = "head" -> pc' = "columns" /\ columns' = p.n /\ rows' = 0 /\ UNCHANGED <<rc, more>>
    [] OTHER -> Malformed("PROTOCOL_VIOLATION") /\ UNCHANGED <<columns, rows>>

\* trilogy_query_recv
QueryRecv ==
  /\ pc = "recv" /\ op = "query"
  /\ Accept
  /\ StartResult(Head(s2c))
  /\ started_reading_rows' = (started_reading_rows /\ Head(s2c).kind # "head")

\* trilogy_stmt_execute_recv. It leaves started_reading_rows as it is.
StmtExecuteRecv ==
  /\ pc = "recv" /\ op = "execute"
  /\ Accept
  /\ StartResult(Head(s2c))
  /\ UNCHANGED started_reading_rows

\* trilogy_stmt_prepare_recv. The caller reads the definitions of parameters
\* and columns before anything else. server_status is left as it is.
PrepareRecv ==
  /\ pc = "recv" /\ op = "prepare"
  /\ Accept
  /\ LET p == Head(s2c) IN
       CASE PacketType(p) = "OK" -> /\ columns' = p.n /\ rc' = "OK" /\ UNCHANGED more
                                    /\ pc' = IF p.n = 0 THEN "ready" ELSE "columns"
         [] PacketType(p) = "ERR" -> ReadErr /\ UNCHANGED columns
         [] OTHER -> Malformed("UNEXPECTED_PACKET") /\ UNCHANGED columns
  /\ UNCHANGED <<rows, started_reading_rows>>

\* read_generic_response, for set_option with its own EOF case. An EOF packet
\* of a server without DEPRECATE_EOF is too short to be read as an OK packet.
GenericRecv ==
  /\ pc = "recv" /\ op \in Generic
  /\ Accept
  /\ LET p == Head(s2c) IN
       CASE PacketType(p) = "OK" -> Finish("OK") /\ more' = ServerStatus(p)
         [] PacketType(p) = "ERR" -> ReadErr
         [] PacketType(p) = "EOF" /\ op = "set_option" ->
              IF deprecate_eof THEN Finish("OK") /\ more' = ServerStatus(p) ELSE Malformed("TRUNCATED_PACKET")
         [] OTHER -> Malformed("UNEXPECTED_PACKET")
  /\ UNCHANGED <<columns, rows, started_reading_rows>>

\* trilogy_read_column
ReadColumn ==
  /\ pc = "columns"
  /\ Accept
  /\ LET p == Head(s2c) IN
       IF p.kind = "col"
       THEN /\ columns' = columns - 1 /\ rc' = "OK" /\ UNCHANGED more
            /\ pc' = CASE columns > 1 -> "columns"
                       [] columns = 1 /\ op = "prepare" -> "ready"
                       [] OTHER -> "rows"
       ELSE Malformed("PROTOCOL_VIOLATION") /\ UNCHANGED columns
  /\ UNCHANGED <<rows, started_reading_rows>>

\* The EOF between columns and rows that read_row has to skip first.
EofDueNever == FALSE
EofDue == op = "query" /\ ~started_reading_rows /\ ~deprecate_eof

\* read_eof, from trilogy_read_row
SkipEof ==
  /\ pc = "rows" /\ EofDue
  /\ Accept
  /\ LET p == Head(s2c) IN
       IF IsEof(p) THEN more' = ServerStatus(p) /\ started_reading_rows' = TRUE /\ UNCHANGED <<pc, rc>>
       ELSE Malformed("PROTOCOL_VIOLATION") /\ UNCHANGED started_reading_rows
  /\ UNCHANGED <<columns, rows>>

\* What trilogy_read_row and trilogy_stmt_read_row do with a packet of the rows. A
\* long end is parsed as a row: no text row can be made of it, and of a row of a
\* statement it depends on the columns.
ARow == rc' = "OK" /\ rows' = rows + 1 /\ UNCHANGED <<pc, more>>
NoRow == Malformed("TRUNCATED_PACKET") /\ UNCHANGED rows
RowPacket(p) ==
  CASE IsEof(p) -> Finish("EOF") /\ more' = ServerStatus(p) /\ UNCHANGED rows
    [] PacketType(p) = "ERR" -> ReadErr /\ UNCHANGED rows
    [] p.kind = "longeof" -> NoRow \/ (op = "execute" /\ ARow)
    [] OTHER -> ARow

\* trilogy_read_row past that EOF
ReadRow ==
  /\ pc = "rows" /\ op = "query" /\ ~EofDue
  /\ Accept
  /\ RowPacket(Head(s2c))
  /\ started_reading_rows' = TRUE
  /\ UNCHANGED columns

\* trilogy_stmt_read_row, which has no such EOF to skip.
StmtReadRow ==
  /\ pc = "rows" /\ op = "execute"
  /\ Accept
  /\ RowPacket(Head(s2c))
  /\ UNCHANGED <<columns, started_reading_rows>>

\* With DEPRECATE_EOF a read_row that returns TRILOGY_AGAIN has still noted that
\* it was called.
ReadRowAgain ==
  /\ pc = "rows" /\ op = "query" /\ deprecate_eof /\ s2c = <<>>
  /\ ~started_reading_rows /\ started_reading_rows' = TRUE
  /\ UNCHANGED <<pc, op, cmd, rc, frags, unsent, sequence_number, more, columns, rows, astray, wireVars>>

\* The caller is not interested in the rows that are left.
StartDrain ==
  /\ pc = "rows" /\ op = "query" /\ pc' = "drain"
  /\ deprecate_eof => "drain" \in Habits
  /\ astray' = (astray \/ deprecate_eof)
  /\ UNCHANGED <<op, cmd, rc, frags, unsent, sequence_number, more, started_reading_rows, columns, rows,
                 wireVars>>

\* trilogy_drain_results, one packet at a time: read_eof before the first row,
\* whatever the server's capabilities, then everything up to an EOF, whose
\* status is not looked at. A row that read_eof gets is read as if it were an
\* OK packet, with whatever status its bytes make up, or not at all.
DrainPacket ==
  /\ pc = "drain"
  /\ Accept
  /\ LET p == Head(s2c) IN
       CASE started_reading_rows /\ IsEof(p) -> Finish("OK") /\ UNCHANGED <<more, started_reading_rows>>
         [] started_reading_rows /\ ~IsEof(p) -> UNCHANGED <<pc, rc, more, started_reading_rows>>
         [] ~started_reading_rows /\ p.kind \in {"eof", "longeof", "coleof"} ->
              started_reading_rows' = TRUE /\ more' = ServerStatus(p) /\ UNCHANGED <<pc, rc>>
         [] OTHER -> \/ started_reading_rows' = TRUE /\ more' \in BOOLEAN /\ UNCHANGED <<pc, rc>>
                     \/ Malformed("PROTOCOL_VIOLATION") /\ UNCHANGED started_reading_rows
  /\ UNCHANGED <<columns, rows>>

\* more_results_exist? and next_result: the caller asks for the next result of
\* the query it has just read one of.
NextResult ==
  /\ pc = "ready" /\ more /\ op \in ResultOps /\ pc' = "recv"
  /\ LET failed == rc \notin {"OK", "EOF"} IN
       (failed => "poll" \in Habits) /\ astray' = (astray \/ failed)
  /\ UNCHANGED <<op, cmd, rc, frags, unsent, sequence_number, more, started_reading_rows, columns, rows,
                 wireVars>>

----------------------------------------------------------------------------
(* Waiting and closing *)

\* trilogy_sock_wait_read or _write runs into its timeout.
Timeout ==
  /\ "timeout" \in Faults
  /\ pc = "flush" \/ (pc \in Reading /\ s2c = <<>>)
  /\ HandleError("TIMEOUT")
  /\ UNCHANGED <<op, cmd, frags, unsent, sequence_number, more, started_reading_rows, columns, rows,
                 astray, wireVars>>

\* The read finds the end of the stream.
PeerGone ==
  /\ pc \in Reading /\ op # "quit" /\ s2c = <<>> /\ peer_closed
  /\ HandleError("CLOSED_CONNECTION")
  /\ UNCHANGED <<op, cmd, frags, unsent, sequence_number, more, started_reading_rows, columns, rows,
                 astray, wireVars>>

\* trilogy_close_recv: the socket is shut down first, so the read ends at once;
\* a packet that was still unread is a violation of the protocol.
CloseRecv ==
  /\ pc = "recv" /\ op = "quit" /\ pc' = "closed"
  /\ rc' = CASE s2c = <<>> -> "OK"
             [] s2c # <<>> /\ Head(s2c).seq = sequence_number -> "PROTOCOL_VIOLATION"
             [] OTHER -> "INVALID_SEQUENCE_ID"
  /\ UNCHANGED <<op, cmd, frags, unsent, sequence_number, more, started_reading_rows, columns, rows,
                 astray, wireVars>>

\* trilogy_discard: shut down and free, at any time between two calls.
Discard ==
  /\ pc # "closed" /\ pc' = "closed" /\ rc' = "OK"
  /\ UNCHANGED <<op, cmd, frags, unsent, sequence_number, more, started_reading_rows, columns, rows,
                 astray, wireVars>>

----------------------------------------------------------------------------
Init ==
  /\ pc = "ready" /\ op = "ping" /\ cmd = 0 /\ rc = "OK" /\ frags = 0 /\ unsent = 0
  /\ sequence_number = 0 /\ more = FALSE /\ started_reading_rows = FALSE
  /\ columns = 0 /\ rows = 0 /\ astray = FALSE
  /\ deprecate_eof \in Servers
  /\ c2s = <<>> /\ s2c = <<>> /\ srv = [cmd |-> 0, seq |-> 0, todo |-> <<>>] /\ peer_closed = FALSE

\* The calls a caller waits in: the loops of read_query_response in cext.c, of
\* trilogy_read_full_row and its like in blocking.c.
Receive ==
  \/ QueryRecv \/ StmtExecuteRecv \/ PrepareRecv \/ GenericRecv
  \/ ReadColumn \/ SkipEof \/ ReadRow \/ StmtReadRow
Server == ServerTakes \/ ServerSends

Next ==
  \/ \E o \in Ops, f \in 1..MaxFrags : Send(o, f)
  \/ \E o \in Ops, code \in {"MAX_PACKET_EXCEEDED", "SYSERR"} : SendFails(o, code)
  \/ FlushWrites \/ FlushFails
  \/ Receive \/ Refuse \/ ReadRowAgain \/ StartDrain \/ DrainPacket \/ NextResult
  \/ Timeout \/ PeerGone \/ CloseRecv \/ Discard
  \/ Server \/ ServerCloses

\* The caller pumps the call it is in until it is through (the loops of
\* blocking.c and cext.c), and the server answers what it has taken.
Spec ==
  /\ Init /\ [][Next]_vars
  /\ WF_vars(FlushWrites) /\ WF_vars(Receive) /\ WF_vars(DrainPacket) /\ WF_vars(Refuse)
  /\ WF_vars(PeerGone) /\ WF_vars(CloseRecv) /\ WF_vars(Server)

----------------------------------------------------------------------------
(* Properties *)

TypeOK ==
  /\ pc \in PCs /\ op \in AllOps /\ cmd \in 0..MaxCommands
  /\ rc \in Errors \cup {"OK", "EOF"}
  /\ frags \in 0..MaxFrags /\ unsent \in 0..frags /\ sequence_number \in 0..(SeqCount - 1)
  /\ more \in BOOLEAN /\ started_reading_rows \in BOOLEAN /\ astray \in BOOLEAN
  /\ columns \in 0..(2 * MaxCols) /\ rows \in Nat /\ (rows <= MaxRows \/ astray)
  /\ deprecate_eof \in BOOLEAN /\ peer_closed \in BOOLEAN
  /\ \A i \in 1..Len(s2c) : s2c[i].kind \in Kinds /\ s2c[i].seq \in 0..(SeqCount - 1)

\* A packet is only ever read as part of the reply to the command it answers,
\* though the replies of commands that timed out, or of a command that failed to
\* be built between two results, may be on the way (client.c:67, 613; cext.c:279).
OwnReplies ==
  [][~astray /\ s2c # <<>> /\ s2c' = Tail(s2c) => Head(s2c).cmd = cmd]_vars

\* A conforming server is never refused: no packet has a number, a type or a
\* shape the receiving call does not expect (client.c:77, 613, 694, 908; the
\* descriptions of the recv functions in client.h).
RepliesAccepted == rc \notin Refusals

\* So it is for as long as nothing has happened that the code does not bear.
NeverRefused == RepliesAccepted \/ astray

\* When the caller may send a command, and was not told of more results, all
\* packets of the reply have been read (client.h:459: all responses must be read
\* off the network before any other command), even when the reply was an error.
\* If the last command was too large to be sent, that goes for the ones before it.
ReadyMeansQuiet ==
  pc = "ready" /\ ~astray =>
    ~Pending \/ (more /\ (op \in ResultOps \/ rc = "MAX_PACKET_EXCEEDED"))

\* When it is told of more results they are there, and next_result has
\* something to wait for. After an error it may be told of results that do not
\* come (EveryCallReturns).
MoreIsTrue ==
  pc = "ready" /\ ~astray /\ more /\ op \in ResultOps /\ rc \in {"OK", "EOF"} /\ ~peer_closed => Pending

\* TRILOGY_EOF comes at the end of the result set and nowhere else (client.h:736),
\* when every row of it has been handed out, rows that look like an EOF included,
\* for as long as nothing has happened that the code does not bear.
AllRowsRead ==
  pc = "rows" /\ pc' = "ready" /\ rc' = "EOF" => Head(s2c).kind = "eof" /\ Head(s2c).n = rows
EofEndsResult == [][AllRowsRead \/ astray]_vars

\* Every command comes to an end: the reply is read, or the connection closed.
\* A drain may wait for ever (DrainEnds).
Busy == pc \in {"flush", "recv", "columns", "rows"}
Through == pc \in {"ready", "closed", "drain"}
EveryCallReturns == Busy ~> Through

\* So it is for as long as nothing has happened that the code does not bear.
CommandEnds == Busy ~> Through \/ astray

\* trilogy_drain_results ends: "The rest of the result was drained and the
\* connection is ready for another command" (client.h:470).
DrainEnds == pc = "drain" ~> pc # "drain"

\* The connection as an exchange of commands: the caller waits for its last
\* command while it is in a recv function.
Commands == INSTANCE Exchange WITH
  issued <- cmd, served <- srv.cmd, open <- pc # "closed",
  waiting <- IF pc \in Reading THEN cmd ELSE 0

\* Through partial writes, several results, silent commands, errors that keep
\* the connection, timeouts and a server that goes away, no call returns with the
\* connection still usable before the server has taken up its command and all
\* commands before it, and a broken connection never issues another one. It is so
\* until something happens that the code does not bear.
ImplementsExchange ==
  Commands!Init /\ [][Commands!Next \/ astray']_(Commands!vars)
============================================================================
