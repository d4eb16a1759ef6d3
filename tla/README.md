# Trilogy in TLA+

Trilogy is a client library for MySQL-compatible servers: a small C core
(`src/src`, `src/inc/trilogy`) without its own event loop, a blocking layer on
top of it, and a Ruby binding (`src/contrib/ruby`). This directory holds TLA+
models of the core, the TLC runs that check them on small instances and TLAPS
proofs. `PROJECT.json` maps every definition to its lines of source and lists the
runs, the mutants that show each property can fail, the hazards and the findings.

## The system

| part | state it keeps | operations | talks to |
| --- | --- | --- | --- |
| growable buffer, `buffer.c` | `len`, `cap`, memory | init, expand (doubling), putc, write, free | malloc |
| packet builder, `builder.c` | header offset, sequence number, lengths, limit | init, write_*, continuation headers, finalize | buffer |
| packet parser, `packet_parser.c` | state, fragment flag, bytes remaining, expected number, deferred callback | init, execute | callbacks in `client.c` |
| framing in `client.c` | `recv_buff`, `packet_buffer`, `packet_buffer_written` | read_packet, begin_write, flush_writes | parser, builder, socket |
| command phase, `client.c` and `blocking.c` | server status, `started_reading_rows`, `column_count`, the parser's expected number | a `_send` and a `_recv` per command, read_column, read_row, drain_results, close, discard | framing, server |
| handshake and authentication, `client.c`, `blocking.c` | capabilities, scramble, plugin | connect, ssl_request, auth_send, auth_switch, auth_recv | framing, TLS |
| wire codec, `reader.c`, `protocol.c` | a read position | parse_* and build_* | builder, buffers |
| socket and TLS, `socket.c` | descriptor, addresses, SSL handle, vtable | resolve, connect, read, write, wait, upgrade, shutdown, close | kernel, OpenSSL |
| escaping, `client.c` | `packet_buffer` | escape | buffer |
| Ruby binding, `cext.c`, `cast.c` | a connection per object, a pool of buffers per Ractor | connect, query, next_result, ping, escape, close, discard | all of the above, the Ruby VM (threads, exceptions, collector), fork |
| tables, `charset.c`, `error.c` | none | lookups | |

Hard to get right, and hard to test:

* the socket takes and gives any number of bytes, so each header, payload and
  packet can be interrupted anywhere, on the way out and on the way in;
* a packet of 16 MB or more is cut into fragments, with an empty one at the end
  when its length is a multiple of the maximum; the sequence number, a byte,
  wraps; no test sends packets of that size with the stream cut everywhere;
* replies have no identity but that number: what an abandoned, failed or
  timed-out command left on the wire must not be read as another one's reply;
* the end of a result is recognised by a packet type that depends on the
  server's capabilities and on the packet's length;
* an allocation may fail in the middle of a packet, on either side;
* a call that waits for a packet that nobody will send waits for ever;
* a length inside a packet is the server's word, of up to eight bytes, and most
  parsers go by it before they know what is left of the packet;
* an exception may end any wait of a Ruby thread, past all cleanup; what the call
  held must be found again, and closed once;
* after fork two processes have one connection, and one of them lets go of it.

What makes each part correct: the *buffer* is never written outside its memory;
the *builder* loses no byte and cuts and numbers as the protocol demands; the
*parser* returns the packets that were sent, whole, in order, all of them; the
two together are a channel of packets; in the *command phase* each packet is read
as part of the reply to its command, a result ends where it ends, a conforming
server is never refused and no command waits for ever; in the *connection phase*
the password is sent in the clear only where it may be and wiped after its last
use, and the right one connects; the *codec* reads what was written, never
outside the packet, and notices what is cut; a *buffer*, *socket* or *descriptor*
of the binding has one owner, is not used after it was given up, and is not lost.

## Modules

**`Builder`** models `buffer.c` and `builder.c` as `begin_command_phase` uses
them. `frags` is the content of the buffer as a list of fragments with their
header fields. `BeginPacket` is `trilogy_builder_init` with the limit;
`WriteUint8` and `WriteBuffer`/`CopyChunk` are the two writes all others are made
of; `ContinuationHeader` and `Finalize` have the names of their functions.
`Expand` gives the outcomes of `trilogy_buffer_expand`: nothing to do, a NULL
buffer, an overflow of `SIZE_MAX`, success, or a failing `realloc`. A loop takes
one step per iteration. `first` and `written` are history variables.

**`PacketParser`** models `trilogy_packet_parser_execute`, an action per state,
with the callbacks and `read_packet`. A length byte is a digit of base `Radix`,
so the three length bytes and their arithmetic are the code's. The peer (external)
writes packets, skips a number, or goes away with part of its bytes delivered.
`RetryOn` names the errors after which the caller reads on all the same.

**`PacketChannel`** is the abstract specification: packets sent are delivered,
unchanged, in order, once. **`Framing`** composes `Builder` (as an instance), the
partial writes of `trilogy_flush_writes` and `PacketParser`, and is shown to
implement it. The packets are numbered on from one another as in the
authentication exchange, which is the harder case for the counters.

**`Conn`** models the command phase, packet by packet, of `client.c`,
`blocking.c` and the error handling of `cext.c`. `Send` stands for all `_send`
functions, `QueryRecv`, `StmtExecuteRecv`, `PrepareRecv`, `GenericRecv`,
`ReadColumn`, `SkipEof`, `ReadRow`, `StmtReadRow` and `DrainPacket` for the receiving ones, each taking one packet.
The server is external and conforming: it answers each command with one of
`Replies`, numbered from the command's last fragment. There are six things that
caller or server may do and that the code does not bear on every path. A constant,
`Habits`, says which of them may happen, `astray` notes that one has, and most
properties are about the time before it. They are

* `"abandon"`: a command is sent though the caller was told of results it has not
  read. What comes back is told apart by its number only (`client.c:613`), which may
  coincide; `client.h:458-461` makes it the caller's duty to read everything first;
* `"large"`: another command than query and execute, which awaits a reply, has more
  than one fragment. The reply carries the number after the last one, and the parser is
  told to expect 1 (`client.c:67`, `862`);
* `"legacy"`: prepared statements and set_option without `DEPRECATE_EOF`. The EOFs behind
  columns and definitions are not skipped (`client.c:962`), and the EOF that answers
  COM_SET_OPTION is too short for `read_ok_packet` (`client.c:568`);
* `"drain"`: drain_results with `DEPRECATE_EOF`, where it skips an EOF that is not sent
  (`client.c:714`; run `drain`). A packet that it takes for that EOF gives any status;
* `"poll"`: next_result after a command or a result that failed, of which the caller
  is told by a status from before (`client.c:220`; run `poll`), or for which the expected
  number was set to that of a command too large to be sent (`client.c:67`);
* `"long_end"`: the server, which the client asks for `DEPRECATE_EOF` and
  `SESSION_TRACK` (`protocol.h:188-190`), ends the rows with an OK packet that carries
  session state and has nine bytes or more (`client.c:694`; run `long_end`). A row of a
  text result cannot be made of it, a row of a statement can, depending on the columns.

`NeverRefused` therefore says that a conforming server is refused only after one of these
six: that there is no seventh. `RepliesAccepted` and `EveryCallReturns` say it without the
exception, and are what the runs `long_end` and `poll` refute. `RepliesAccepted` fails
just so with `"large"`, `"legacy"`, `"abandon"` or `"poll"` as the only habit.

**`Auth`** models the connection phase, packet by packet, as `try_connect`,
`authenticate` and `auth_switch` of the Ruby binding run it: `Connect`,
`ConnectRecv`, `SslRequestSend`, `UpgradeSsl`, `AuthSend`, `AuthRecv`,
`SwitchSend`, and, within `trilogy_auth_recv`, `SecretSend` and `MoreRecv`.
`opts` and `server` are what the connection was opened with and what the other
side is; a hash is kept as the plugin, scramble and password it is made of.
`auth_plugin`, which `trilogy_parse_handshake_packet` does not set without
`PLUGIN_AUTH`, is any plugin then. The verifying TLS modes are one, `"required"`.
A server that is not `"conforming"` answers in its turn with anything. `used`
is a history variable: in which form and over which channel the password left.

**`Exchange`** is the abstract specification of a connection: commands are begun
one at a time and served in order, a call that returns and leaves the connection
open has had its command and all before it served, and a broken connection begins
nothing more. `Conn` implements it (`ImplementsExchange`): `issued` is `cmd`,
`served` the server's, `waiting` the current command while `pc` is in a recv function.

**`Reader`** is `reader.c`: a reader is a record with a position and what it has
returned so far, a `trilogy_reader_get_*` an operator on it, and a parser a list of
calls. A byte has `Bits` bits, so that the four forms of a length-encoded integer,
which begin at the top of a byte, stay small. `over` notes a read outside the packet.
**`Protocol`** has the `trilogy_parse_*_packet` functions and what `client.c` does
with them (`ReadOk`, `RowOutcome`); **`Statement`** the rows of prepared statements
and the `trilogy_build_*_packet` functions; **`Escape`** has `trilogy_escape` in its
two modes. **`ServerPackets`** is the other side (external): packets as a server
writes them, and commands as it reads them, from the same description of the
protocol but with none of the operators under test for the direction tested.
**`Codec`** sends one packet per behaviour: whole, cut anywhere, lengthened or with
a byte changed; the client parses it, or the server reads the client's. Which parser
a receiving function calls is a matter of the packet's first byte (`client.c:14`); `Codec`
has that for rows and what ends them, `Conn` for all receiving functions, of packets that are not empty.

**`BufferPool`** is the pool of packet buffers of `cext.c` (`buffer_checkout`,
`buffer_checkin`, acquire and release), **`Socket`** the life of a
`trilogy_sock_t`: memory, descriptor, TLS session, and the vtable as the one of
three sets of callbacks it holds (`ops`). Both are operators on the state of one
connection. **`Binding`** composes them over several Trilogy objects. A call holds
the interpreter lock except while it waits, so `pc` names the waits and a step is
everything between two of them: `Connect`, `Resolved`, `Connected`, `Hello`,
`Flushed`, `Tls` and `Authenticated` are `rb_trilogy_connect` with `try_connect`,
`authenticate` and `auth_switch`; `Start`, `FlushedCommand` and `Reply` are query,
ping, change_db and set_server_option; `NextResult`, `Escape`, `Check`, `Close` and
`Discard` have the names of their methods; `Collect` is `free_trilogy` and
`Interrupted` an exception in `_cb_ruby_wait`. An object is assumed to be
used by one thread at a time. `ForeignOpen` and `ForeignClose` are the rest of the
process, which gets the descriptors the binding gave up. After `Fork` the model is
the child: other threads are gone, so their calls never return. `faults` holds what
the last step of an object used after it was gone, `wire` and `used` are histories
of what the child did to an inherited connection.

`MCBuilder`, `MCPacketParser`, `MCFraming`, `MCCodec` and `MCBinding` define the
constants of the runs; `Conn` and `Auth` need none. `Builder_proofs`,
`PacketParser_proofs`, `Framing_proofs`, `Conn_proofs`, `Auth_proofs`, `Binding_proofs`
and `Codec_proofs` hold the theorems about the modules they are named after,
`Packet_proofs` those about packets as values (`Reader`, `Protocol`, `Statement`,
`ServerPackets`), on which `Codec_proofs` rests. Three of them begin with the same few
lemmas about induction and sequences.
Definitions that no other definition uses and whose comment says "if" (or whose
name says what is wrong, as in `NextSeqUnwrapped`) are mutants: what the code would
be with a plausible bug. Each property of a passing run has one that breaks it.

## Runs

| run | shows |
| --- | --- |
| `builder` | cutting, numbering, bounds, limit and payload of packets, with allocation failure |
| `parser` | complete packets in order, nothing swallowed, no reading past a wrong number, every packet arrives |
| `framing` | both ends agree on numbers and boundaries and implement `PacketChannel` with its liveness |
| `conn` | with every habit but `"abandon"`: until one shows, replies belong to their commands, results end correctly, a conforming server is not refused, every command ends, the connection implements `Exchange` |
| `auth` | the password goes only where it may and is wiped after its last use, the right one connects, the numbers agree, connecting ends |
| `codec` | no parser reads outside its packet, packets and commands arrive as they were sent, damage is noticed, rows end where they end, escaped strings are one literal |
| `binding` | buffers have one owner and the pool its limit, nothing is used after it was given up or lost, next_result has its buffer, discard! leaves the parent's connection alone |
| `parser_retry` | *violation*: a truncated packet is returned as complete after memory ran out on its last bytes |
| `drain` | *violation*: `trilogy_drain_results` waits for ever with `DEPRECATE_EOF` |
| `long_end` | *violation*: a result whose end carries session state is refused |
| `poll` | *violation*: after an ERR in a later result, `next_result` waits for ever |
| `null_bind` | *violation*: a bind that is NULL and has another type leaves bytes that the server takes for a later value |

**Bounds.** `builder`: a fragment holds 3 bytes and the buffer starts with 5 and
may grow to 20 of 23, so packets of up to 7 bytes and more meet a full fragment,
an exactly full last fragment, two continuations in one write, a doubling, the
overflow and every limit around a boundary; the number starts at 0 and at 3 of 4
and wraps. `parser`: a fragment holds 7 bytes (length bytes are bits, so all three
are used); packets are empty, short, exactly one fragment and one byte more; two
packets are enough for one to be cut short while the next is in the same read; the
counter wraps at 2. `framing`: two packets with a counter of 3; the buffer grows
twice or fails to. `conn`: two commands are enough for one to leave something on
the wire and the other to meet it; two results, one column and one row each are
enough for every transition of the receivers, and one fragment more than one for
the numbering; 12 is above the longest reply, so that a number read in the wrong
place is not right by accident, and still wraps. All ten commands, all faults and
five of the six habits are in this run; with `"abandon"` it would take longer than its
worth, as no property is about what follows. `auth`: all TLS modes,
transports, plugins and cleartext settings; no password, the right one and a wrong
one; the exchange has at most nine packets, so nothing needs a bound. `codec`: a
byte has four bits, enough for the leading bytes 251 to 255 of lengths and packet
types to be five different ones with room below; numbers and lengths are taken at
and around each change of form, GTIDs at and around their limit, values of every
type, dates and times with every set of parts zero, bitmaps of up to `Bits + 2`
columns so that the two bits in front of them cross a byte. `Near` is how far into
a long packet cuts and changes reach; the tail beyond it is fillers. `binding`: two
objects, each with one life; a pool of one and three buffers, so that a release
meets a full pool; two descriptors that two objects and the rest of the process
compete for, so that socket() fails and a freed number is taken at once; two
addresses, so that one can fail and the next work. Objects are symmetric. `MaxWire`, `MaxSent`,
`MaxCommands` and the other `Max` constants are named bounds of the models, and
not of the code.

**Fairness.** Trilogy never waits inside the core: a call returns `TRILOGY_AGAIN`
and the caller waits for the socket and calls again (`blocking.c` and `cext.c` do
so in loops). The models therefore assume weak fairness of the calls a caller is
in the middle of, and of the server's answers once it has taken a command.
Nothing obliges a caller to send another command or a peer to send another
packet, and neither timeouts nor closing are assumed to happen: `CommandEnds`
holds without them. `ConnectEnds` is claimed for conforming servers only: any
other may stop talking, and then only a timeout, which is optional, ends the call.

**Deadlock** is checked in `builder` and `framing`, where work can always go on
(`framing`'s reader polls). In `parser` and `conn` a connection that is closed or
that reached the bound of commands really stops, in `auth` and `codec` the exchange
ends, and in `binding` all objects may have been collected.

**What the properties except.** These are things the code does, named in the
properties so that everything else is checked:

* `NoStaleUse`: a unix socket path that does not fit makes `trilogy_sock_resolve`
  free the socket (`socket.c:381`), and `try_connect` then closes it again
  (`cext.c:485`). The text of a server's error is copied out of `packet_buffer`
  after the buffer was released (`cext.c:277`, `cext.c:293`); if the pool is full
  it has been freed.
* `NothingLeaks`: an exception while a name is resolved or a connection is made
  loses the `trilogy_sock_t`, which `conn.socket` does not yet point to; one during
  the TLS handshake loses the SSL handle, because `shutdown_cb` and `close_cb` are
  still the raw ones. The descriptor is closed in each case. Only fork loses one.
* `BufferForNextResult`: escape, ping and other calls between two results give the
  buffer back; `next_result` then fails with `TRILOGY_MEM_ERROR` and the connection is shut down.
* `RowsEnd`: with `DEPRECATE_EOF` and `SESSION_TRACK` the packet that ends the rows
  may have nine bytes or more. `trilogy_read_row` refuses it; `trilogy_stmt_read_row`
  may read it as a row (`client.c:694`, `client.c:971`).
* the properties of `Conn`: what follows one of the six things above. A command that
  was too large to be sent, a timeout, a server that goes away and memory that runs out
  are not among them.
* `RoundTrip`: a GTID of exactly `TRILOGY_MAX_LAST_GTID_LEN` bytes passes the parser
  (`protocol.c:96`) and is not kept (`client.c:201`).
* `CommandsReadBack`: a TIME of days only is written as the empty value
  (`protocol.c:849`). The value of a bind that is NULL but not of type NULL is written
  all the same (`protocol.c:813`): only the values up to that bind are claimed, and run
  `null_bind` shows what becomes of the others.
* `EscapeReadsBack` follows the statuses the client reads; one that
  `trilogy_drain_results` passes over (`client.c:729`) is not among them.

## Proofs

TLC checks small instances; the theorems hold for every value of the constants
that satisfies the named assumptions. Each module of proofs has an inductive
invariant `IInv`, a lemma per action that the action keeps it, and one theorem for
each property of the runs that follows from it.

**`Builder_proofs`** covers every fragment size, counter width, `SIZE_MAX`, initial
capacity, limit and input that satisfy `BuilderAssumption` (positive sizes, a
default capacity within `SIZE_MAX`, inputs that are sequences of bytes). `IInv` is
the conjunction of `TypeOK`, `InBounds`, `FragmentsCut`, `Numbered`,
`PayloadIntact`, `UnderLimit` and `Shape`. They need each other: `InBounds` is kept
by an append only because `Expand` was asked for the right amount, which needs
`len` to be what the fragments say; `PayloadIntact` needs to know where the open
fragment starts, which is `Shape`'s equation of `packet_length` with the fragments
before it plus `fragment_length`; that in turn needs full fragments to be exactly
full (`FragmentsCut`); and `Shape` ties the program counter to `todo`, without which
`CopyChunk` could finish early. Each of the properties of the `builder` run is a theorem.

**`PacketParser_proofs`** covers every set of packets, every cutting of the stream,
every fragment size and every width of the counter. `CompletePackets` relates what
is handed out to what was sent, and says nothing about the middle of a packet. The
invariant does: all bytes there ever were, `t`, are the wire forms of `sent` one
behind the other, from the number the peer gave each; what is left in `recv` and
`stream` is an end of `t` (`Delivered`); and `In` and `Parsing` say, for the position
where that end begins, in which packet, fragment and header byte it lies, and with
that what the state, the fragment flag, the remaining count and the expected number
have to be. `ParserInvariant`, `ParserTypes`, `PacketsAreComplete` and
`NothingIsSwallowed` assume `GivesUp`: a caller that goes on after `TRILOGY_SYSERR`
runs in a process where memory does not run out. Without it `CompletePackets` is
false, which is what run `parser_retry` shows (`packet_parser.c:107`).
`StopsForGood` needs no such assumption.

**`Framing_proofs`** puts these two together, by instances of both modules of
proofs. Two things connect them. A finalized buffer is `Sealed`, which follows from
the builder's invariant, and then holds the very bytes `PacketBytes` says and leaves
`seq` behind the last fragment's number (`SealedBytes`). And the parser's invariant is
taken with `Coming` for its stream: the bytes on the way and, behind them, those of
the buffer that are still to be written. To the parser, finalizing is then the peer
writing a packet, a partial write of any size is no step at all (`FlushKeeps`), and
a read takes the first bytes of `Coming` because it takes those of the stream
(`FrontFacts`). With `Outgoing`, which says that what is under construction is to
become one of the packets and has the running number, this is inductive.
`BothEndsAgree` proves `NumbersAgree`, and `FramingIsAChannel` that each step is a
step of `PacketChannel` or none, the safety part of `ImplementsChannel`. A builder
that fails for lack of memory is covered, and so, under `GivesUp`, is a reader.

**`Conn_proofs`** covers any number of commands, fragments of a command, columns,
rows and results, and any width of the sequence byte. The replies of a server are
given in `Conn` as sets of sequences; the proof describes them as the runs of a
small automaton, and the invariant says that the packets on the way, followed by
those the server has still to send, are a run of it that starts where the receiving
call stands, with consecutive numbers from the one the parser expects. `OwnReplies`,
`EofEndsResult`, `MoreIsTrue` and the refinement `ImplementsExchange` all follow from
that. The invariant is claimed of the states in which `astray` is false, and is kept by
each step that leaves it so; a step that does one of the six things needs no more than
that the types hold of what is the caller's own. No theorem has a hypothesis on `Habits`
or on the server: where a property stops, it says so itself. That abandoned results had to
be among the six was found by the proof: sequence numbers are the only identity of a reply
and they wrap, so after enough unread packets a stale one carries the right number.

**`Auth_proofs`** covers all options and servers, the dishonest ones included. The
invariant for `PasswordProtected` and `WipedAfterUse` says per value of `pc` what
may have been done with the password so far; `RightPasswordConnects` and
`BothCountAlike` rest on an agreement between both ends about plugin, scramble and
number at each point of the exchange with a conforming server.

**`Binding_proofs`** covers any number of objects, descriptors, addresses and pooled
buffers. `BindingAssumption` has finitely many objects, and at least as many buffers
as objects: `Buffers` only names memory, and with fewer the model, not the code, would
run out. The invariant says per object what it holds at each of its waits, that
no two hold the same buffer or descriptor, and which of an inherited connection's
parts a child may still touch. All six invariants of the run are theorems.

**`Codec_proofs`** covers every byte width, every limit and every packet. A reader is
safe when it stands inside its packet and has touched nothing outside (`Good`, which
also remembers the null bitmap of a row). One lemma per call of `reader.c` shows that
the call keeps a reader safe, then one per parser, the loops over columns, session
entries and parts of dates included. The loops, and the number made of bytes, are
recursive functions; `Runs` describes them all, `RunsExists` shows by induction over a
set of numbers that such a function exists and `RunsGood` that each round keeps what one
round keeps. `ParsersReadInside` is the result for the parsers, over any capabilities,
number of columns and types; `ClientReadsInside` draws from it that `ReadsInside` holds
after the step in which the client parses a server's packet. Its hypotheses are
that the packet is made of bytes and that the column count or types the caller has
from earlier packets are a number or a sequence (`Told`). What a server does with a
client's command is external and stays with TLC.

`EscapingReadsBack`, `RowsEndWhereSent` and `PacketsArrive` are theorems of `Spec`. They
rest on three results about values.

* `EscapedIsOneLiteral` holds for strings of any length. It follows the loop of
  `trilogy_escape` and the server's scan of the literal round by round: `ReadsAs` says
  that what is written so far leaves the scan inside the literal with what has been gone through.
* A field reads back when the reader stands in front of it. `Ready` says that a reader
  has met no error and that what lies before it is a field's bytes and some rest; each
  lemma on a call of `reader.c` takes a ready reader to one that is ready for the rest and
  has the value that was written. Length-encoded integers are taken apart form by form,
  numbers digit by digit. From these comes `OkReadsBack`, which runs through the
  whole of `trilogy_parse_ok_packet`, the loop over any number of session changes
  included, and the same for either kind of EOF packet. `ErrReadsBack`,
  `AuthSwitchReadsBack`, `ResultReadsBack`, `StmtOkReadsBack` and `ColumnReadsBack` do the
  same for these packets, `RowReadsBack` for a row of the text protocol with any number
  of columns, whose values it gathers round by round. All but `OkReadsBack` are in
  `Packet_proofs`, with the lemmas on the calls of the reader.
* `HandshakeReadsBack` must follow bits as well: the server sends a set of capabilities
  as two words of its mask, the client tests single bits of what it read. `MaskOf` is the
  sum of a set's powers of two and `MaskDigits` its two words; `RestOfDivision` and
  `RestOfSquare` take the tested bit out of each.
* A row starts with 0xfe only if its first length takes eight bytes, which makes the
  row longer than an EOF packet; a row of a statement starts with 0.

For `EscapeReadsBack` the client must know the mode the server is in, which the property
does not say of the states before. `StatusFollows` does: an idle client has the server's
status, an OK packet or an end of rows on the way is one that carries the new status, and
after it was read without error the status is the server's again. With `Kept`
(`conn` has a status) it is inductive. `RowsFollow` likewise says of a row under way that
it is no end whatever packet was in the buffer before, and of an end under way that it is
what `ServerOk` or `ServerEof` makes of the fields it announces. Both speak of some OK
packet among infinitely many, so TLC cannot evaluate them; it checks on run `codec` the
properties they give.

`PacketsFollow` is the invariant behind `PacketsArrive`. It says of a packet under way that
its parser, run on it now, would return what was meant (`Arrives`), and of an OK packet
that the connection still has the GTID of before. What the parser does with an OK packet
follows from `StatusFollows`, so the two are inductive together, with `Kept`. The theorem
is `RoundTrip` for every kind of packet but a row of a statement.

The assumptions are those of `Reader`, `Protocol` and `Codec`: a byte has four to eight
bits; `Huge`, as which every larger number is read, is above the numbers of three
bytes; and the fixed lengths and limits of fields are below
`Radix`, as in the code, where the largest is `TRILOGY_MAX_LAST_GTID_LEN`.

**Only model-checked.** Liveness (`EveryPacketArrives`, `CommandEnds`, `EveryCallReturns`, `ConnectEnds`,
`DrainEnds` and the fair part of `ImplementsChannel`) stays with TLC for good, as
fairness and `ENABLED` are out of the prover's reach. Three invariants of `Codec` do too:

* `RoundTrip`, of rows of a statement, which `PacketsArrive` leaves out. They need the same
  for the bits of the null bitmap, and for dates and times.
* `CommandsReadBack`, whose reader is the server's, a model of code outside this repository.
* `DamageNoticed`, which quantifies over every cut and every changed byte of every kind
  of packet: each is a case of its own, by the field it falls in.

The library's induction theorems, which take an operator as a parameter, cannot be used;
`SetInduction`, drawn from the well-founded order of the numbers, takes their place.

## Not modelled, and the plan

What is left to prove is `RoundTrip` for rows of statements, along
the lemmas `PacketsArrive` uses, and that a server's packets are always made of bytes, with which
`ClientReadsInside` would become a theorem of `Spec`.

Partly modelled: of the socket layer the options of sockets and the set-up of
`SSL_CTX` are arguments to the kernel and OpenSSL; of the binding the casting of
values and the building of result objects are Ruby values, and the accessors of
timeouts, flags and counters read or write one field. An object used by two threads
at once is not modelled: the model assumes one thread at a time. The C API's `trilogy_connect_send`, which leaves a
socket behind when it fails to resolve or connect (`client.c:306`), is not part of
`Binding`, which uses `trilogy_connect_send_socket`.

Left out for good: charset and error tables, the Ruby library's classes and the
casting of values (no state that changes), the example program, and what happens
inside the kernel and OpenSSL.
