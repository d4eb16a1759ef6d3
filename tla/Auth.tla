-------------------------------- MODULE Auth --------------------------------
(***************************************************************************)
(* The connection phase (src/src/client.c, src/src/blocking.c) as the Ruby *)
(* binding drives it (rb_trilogy_connect, authenticate and auth_switch in  *)
(* src/contrib/ruby/ext/trilogy-ruby/cext.c): handshake, request for TLS,  *)
(* login, a switch of the authentication plugin, and the second round of   *)
(* caching_sha2_password.                                                  *)
(*                                                                         *)
(* One step handles one packet; that a packet is written and read whole is *)
(* the business of Framing. The server is external. A conforming one       *)
(* follows the protocol; an arbitrary one answers in its turn, but with    *)
(* anything. A hash is kept as what it was computed from.                  *)
(***************************************************************************)
EXTENDS Integers, Sequences

CONSTANTS
  Unix,       \* is opts.path set: the values it may have
  SslModes,   \* values of opts.ssl_mode
  Cleartext,  \* values of opts.enable_cleartext_plugin
  Passwords,  \* values of opts.password; "" has length 0
  Accounts,   \* the plugins an account may be set up for
  Defaults,   \* the plugins a handshake may name; "none": no PLUGIN_AUTH
  Peers,      \* the kinds of server
  Faults      \* what may go wrong outside

AllModes == {"disabled", "preferred", "required"}
Plugins == {"native", "sha2", "clear", "other"}
FaultKinds == {"timeout", "close", "connect", "tls"}

ASSUME AuthAssumption ==
  /\ Unix \subseteq BOOLEAN /\ SslModes \subseteq AllModes /\ Cleartext \subseteq BOOLEAN
  /\ Passwords \subseteq STRING /\ "wiped" \notin Passwords
  /\ Accounts \subseteq Plugins /\ Defaults \subseteq Plugins \cup {"none"}
  /\ Peers \subseteq {"conforming", "any"} /\ Faults \subseteq FaultKinds

VARIABLES
  opts,             \* [unix, ssl_mode, cleartext, password] the connection was opened with
  server,           \* [peer, ssl, default, plugin, password] of the server and the account
  pc, rc,           \* where the connecting call is; what it failed with
  sequence_number,  \* packet_parser.sequence_number
  use_ssl,          \* opts.flags & TRILOGY_CAPABILITIES_SSL
  tls,              \* the socket has been upgraded
  password,         \* opts.password as it is now
  plugin, scramble, \* handshake->auth_plugin, handshake->scramble
  c2s, s2c,         \* packets on their way
  srv,              \* the server: [seq, scramble, todo, closed]
  used              \* history: the forms and channels the password has been sent in

clientVars == <<pc, rc, sequence_number, use_ssl, tls, password, plugin, scramble, used>>
fixed == <<opts, server>>
vars == <<fixed, clientVars, c2s, s2c, srv>>

Waiting == {"handshake", "auth_recv", "switch_recv", "more_recv"}
Sending == {"ssl_request", "auth_send", "switch_send", "more_send"}
Outcomes == {"connected", "failed"}

Fail(code) == pc' = "failed" /\ rc' = code

----------------------------------------------------------------------------
(* Packets *)

\* What proves the password pw to the given plugin. Nothing does if it is empty.
Answer(plug, scr, pw) == IF pw = "" THEN <<>> ELSE IF plug = "clear" THEN <<"clear", pw>> ELSE <<plug, scr, pw>>

FromServer(kind, plug, scr) == [kind |-> kind, plugin |-> plug, scramble |-> scr]
Ok == FromServer("ok", "none", 0)
Err == FromServer("err", "none", 0)
More(kind) == FromServer(kind, "none", 0)

\* begin_command_phase: the packet takes the connection's running number and the
\* parser expects the next one. The packets of this phase are single fragments.
BeginPhaseAnew(kind, plug, answer) ==
  /\ c2s' = Append(c2s, [kind |-> kind, plugin |-> plug, answer |-> answer, seq |-> 0])
  /\ sequence_number' = 1
BeginPhase(kind, plug, answer) ==
  /\ c2s' = Append(c2s, [kind |-> kind, plugin |-> plug, answer |-> answer, seq |-> sequence_number])
  /\ sequence_number' = sequence_number + 1

\* The password leaves in the given answer.
Use(answer) ==
  used' = IF answer = <<>> THEN used ELSE used \cup {[clear |-> answer[1] = "clear", tls |-> tls, of |-> answer[Len(answer)]]}

----------------------------------------------------------------------------
(* The client *)

\* try_connect up to trilogy_connect_send_socket
Connect ==
  /\ pc = "start"
  /\ \/ pc' = "handshake" /\ sequence_number' = 0 /\ UNCHANGED rc
     \/ "connect" \in Faults /\ Fail("SYSERR") /\ UNCHANGED sequence_number
  /\ UNCHANGED <<fixed, use_ssl, tls, password, plugin, scramble, used, c2s, s2c, srv>>

\* read_packet succeeds.
Accept ==
  /\ s2c # <<>> /\ Head(s2c).seq = sequence_number
  /\ s2c' = Tail(s2c) /\ sequence_number' = sequence_number + 1
  /\ UNCHANGED <<fixed, c2s, srv, used, tls, use_ssl>>

\* What authenticate does first, by opts.ssl_mode and the server's capabilities.
Authenticate ==
  CASE opts.ssl_mode = "disabled" -> pc' = "auth_send" /\ UNCHANGED rc
    [] opts.ssl_mode # "disabled" /\ server.ssl -> pc' = "ssl_request" /\ UNCHANGED rc
    [] opts.ssl_mode = "preferred" /\ ~server.ssl -> pc' = "auth_send" /\ UNCHANGED rc
    [] OTHER -> Fail("SSL_REQUIRED")

\* trilogy_connect_recv. auth_plugin is not set when the server has no
\* PLUGIN_AUTH, and holds whatever the stack held.
ConnectRecv ==
  /\ pc = "handshake"
  /\ Accept
  /\ LET p == Head(s2c) IN
       CASE p.kind = "handshake" ->
              /\ plugin' \in IF p.plugin = "none" THEN Plugins ELSE {p.plugin}
              /\ scramble' = p.scramble
              /\ Authenticate
         [] p.kind = "err" -> Fail("ERR") /\ UNCHANGED <<plugin, scramble>>
         [] OTHER -> Fail("PROTOCOL_VIOLATION") /\ UNCHANGED <<plugin, scramble>>
  /\ UNCHANGED password

\* trilogy_ssl_request_send. The flag is set before there is any TLS.
SslRequestSend ==
  /\ pc = "ssl_request" /\ pc' = "upgrade"
  /\ BeginPhase("ssl_request", "none", <<>>)
  /\ use_ssl' = TRUE
  /\ UNCHANGED <<fixed, rc, tls, password, plugin, scramble, used, s2c, srv>>

\* trilogy_sock_upgrade_ssl, once the server has read the request.
UpgradeSsl ==
  /\ pc = "upgrade"
  /\ \/ c2s = <<>> /\ tls' = TRUE /\ pc' = "auth_send" /\ UNCHANGED rc
     \/ ("tls" \in Faults \/ srv.closed) /\ Fail("OPENSSL_ERR") /\ UNCHANGED tls
  /\ UNCHANGED <<fixed, sequence_number, use_ssl, password, plugin, scramble, used, c2s, s2c, srv>>

\* The plugin named in the login: native unless sha2 was asked for, and with no
\* password the one that was asked for.
LoginPlugin == IF password = "" \/ plugin = "sha2" THEN plugin ELSE "native"

\* trilogy_auth_send
AuthSend ==
  /\ pc = "auth_send" /\ pc' = "auth_recv"
  /\ LET a == Answer(LoginPlugin, scramble, password)
     IN  BeginPhase("login", LoginPlugin, a) /\ Use(a)
  /\ UNCHANGED <<fixed, rc, use_ssl, tls, password, plugin, scramble, s2c, srv>>

\* trilogy_auth_clear_password. The length stays.
ClearPasswordNot == UNCHANGED password
ClearPassword == password' = IF password = "" THEN "" ELSE "wiped"

\* handle_generic_response
GenericResponse(p) ==
  CASE p.kind = "ok" -> pc' = "connected" /\ rc' = "OK"
    [] p.kind = "err" -> Fail("ERR")
    [] OTHER -> Fail("UNEXPECTED_PACKET")

\* The channel may carry the password as it is.
SecureEnoughAlways == TRUE
SecureEnough == use_ssl \/ opts.unix

\* trilogy_auth_recv on AUTH_MORE_DATA, up to what it does next.
AuthMoreGoesOn(p) ==
  CASE ~SecureEnough -> Fail("UNSUPPORTED")
    [] SecureEnough /\ p.kind \in {"fast_auth_ok", "fast_auth_fail"} -> pc' = "more_recv" /\ UNCHANGED rc
    [] OTHER -> Fail("UNEXPECTED_PACKET")
AuthMore(p) ==
  CASE ~SecureEnough -> Fail("UNSUPPORTED")
    [] SecureEnough /\ p.kind = "fast_auth_ok" -> pc' = "more_recv" /\ UNCHANGED rc
    [] SecureEnough /\ p.kind = "fast_auth_fail" -> pc' = "more_send" /\ UNCHANGED rc
    [] OTHER -> Fail("UNEXPECTED_PACKET")

\* The plugins a switch may ask for.
SupportedAll == Plugins
Supported == {"native", "sha2", "clear"}

\* read_auth_switch_packet. The caller follows the first switch and gives up on
\* a second one.
AuthSwitchKeepsScramble(p) ==
  IF p.plugin \in Supported
  THEN /\ plugin' = p.plugin /\ UNCHANGED scramble
       /\ IF pc = "auth_recv" THEN pc' = "switch_send" /\ UNCHANGED rc ELSE Fail("AUTH_SWITCH")
  ELSE Fail("PROTOCOL_VIOLATION") /\ UNCHANGED <<plugin, scramble>>
AuthSwitch(p) ==
  IF p.plugin \in Supported
  THEN /\ plugin' = p.plugin /\ scramble' = p.scramble
       /\ IF pc = "auth_recv" THEN pc' = "switch_send" /\ UNCHANGED rc ELSE Fail("AUTH_SWITCH")
  ELSE Fail("PROTOCOL_VIOLATION") /\ UNCHANGED <<plugin, scramble>>

\* trilogy_auth_recv
AuthRecv ==
  /\ pc \in {"auth_recv", "switch_recv"}
  /\ Accept
  /\ LET p == Head(s2c) IN
       CASE p.kind \in {"fast_auth_ok", "fast_auth_fail", "auth_more"} ->
              AuthMore(p) /\ UNCHANGED <<password, plugin, scramble>>
         [] p.kind = "switch" -> AuthSwitch(p) /\ UNCHANGED password
         [] OTHER -> ClearPassword /\ GenericResponse(p) /\ UNCHANGED <<plugin, scramble>>

\* trilogy_auth_switch_send
SwitchSend ==
  /\ pc = "switch_send"
  /\ IF plugin = "clear" /\ password # "" /\ ~opts.cleartext
     THEN Fail("AUTH_PLUGIN_ERROR") /\ sequence_number' = sequence_number + 1 /\ UNCHANGED <<c2s, used>>
     ELSE LET a == Answer(plugin, scramble, password)
          IN  BeginPhase("answer", "none", a) /\ Use(a) /\ pc' = "switch_recv" /\ UNCHANGED rc
  /\ UNCHANGED <<fixed, use_ssl, tls, password, plugin, scramble, s2c, srv>>

\* FAST_AUTH_FAIL: the password itself, within trilogy_auth_recv.
SecretSend ==
  /\ pc = "more_send" /\ pc' = "more_recv"
  /\ LET a == Answer("clear", 0, password) IN BeginPhase("secret", "none", a) /\ Use(a)
  /\ UNCHANGED <<fixed, rc, use_ssl, tls, password, plugin, scramble, s2c, srv>>

\* The last packet of trilogy_auth_recv's inner loop.
MoreRecv ==
  /\ pc = "more_recv"
  /\ Accept
  /\ ClearPassword /\ GenericResponse(Head(s2c))
  /\ UNCHANGED <<plugin, scramble>>

\* read_packet finds a wrong number, or the end of the stream; or a write fails.
Broken ==
  /\ \/ pc \in Waiting /\ s2c # <<>> /\ Head(s2c).seq # sequence_number /\ Fail("INVALID_SEQUENCE_ID")
     \/ pc \in Waiting /\ s2c = <<>> /\ srv.closed /\ Fail("CLOSED_CONNECTION")
     \/ pc \in Sending /\ srv.closed /\ Fail("SYSERR")
  /\ UNCHANGED <<fixed, sequence_number, use_ssl, tls, password, plugin, scramble, used, c2s, s2c, srv>>

\* trilogy_sock_wait runs into its timeout.
Timeout ==
  /\ "timeout" \in Faults /\ (pc \in Sending \/ (pc \in Waiting /\ s2c = <<>>))
  /\ Fail("TIMEOUT")
  /\ UNCHANGED <<fixed, sequence_number, use_ssl, tls, password, plugin, scramble, used, c2s, s2c, srv>>

----------------------------------------------------------------------------
(* The server *)

\* The verdict on a proof of the account's password.
Verdict(a, plug, scr) == IF a = Answer(plug, scr, server.password) THEN <<Ok>> ELSE <<Err>>

\* The replies to an answer for the account's plugin. caching_sha2_password lets
\* a cached user pass, and asks anyone else for the password.
Judge(a, plug, scr) ==
  IF plug = "sha2" /\ a # <<>>
  THEN {<<More("fast_auth_fail")>>} \cup (IF Verdict(a, plug, scr) = <<Ok>> THEN {<<More("fast_auth_ok"), Ok>>} ELSE {})
  ELSE {Verdict(a, plug, scr)}

\* A conforming server switches when the login names another plugin.
Replies(p) ==
  CASE p.kind = "ssl_request" -> {<<>>}
    [] p.kind = "login" /\ server.default = "none" -> {Verdict(p.answer, "native", 1)}
    [] p.kind = "login" /\ server.default # "none" /\ p.plugin # server.plugin ->
         {<<FromServer("switch", server.plugin, 2)>>}
    [] p.kind = "login" /\ server.default # "none" /\ p.plugin = server.plugin ->
         Judge(p.answer, server.plugin, srv.scramble)
    [] p.kind = "answer" -> Judge(p.answer, server.plugin, srv.scramble)
    [] OTHER -> {Verdict(p.answer, "clear", 0)}

\* What an arbitrary server may say, always in its turn.
Anything ==
  {Ok, Err} \cup {More(k) : k \in {"fast_auth_ok", "fast_auth_fail", "auth_more", "junk"}}
    \cup {FromServer("switch", plug, 2) : plug \in Plugins}
AnyReplies(p) ==
  IF p.kind = "ssl_request" THEN {<<>>}
  ELSE {<<q>> : q \in Anything} \cup {<<More("fast_auth_ok"), q>> : q \in {Ok, Err, More("auth_more")}}

ServerGreets ==
  /\ pc = "handshake" /\ srv.seq = 0 /\ srv.todo = <<>> /\ ~srv.closed
  /\ \E p \in {FromServer("handshake", server.default, 1)} \cup (IF server.peer = "any" THEN Anything ELSE {}) :
       srv' = [srv EXCEPT !.todo = <<p>>, !.scramble = 1]
  /\ UNCHANGED <<fixed, clientVars, c2s, s2c>>

ServerReads ==
  /\ c2s # <<>> /\ srv.todo = <<>> /\ ~srv.closed
  /\ LET p == Head(c2s) IN
       \E r \in IF server.peer = "any" THEN AnyReplies(p) ELSE Replies(p) :
         srv' = [srv EXCEPT !.seq = p.seq + 1, !.todo = r,
                            !.scramble = IF r # <<>> /\ r[1].kind = "switch" THEN 2 ELSE @]
  /\ c2s' = Tail(c2s)
  /\ UNCHANGED <<fixed, clientVars, s2c>>

ServerSends ==
  /\ srv.todo # <<>> /\ ~srv.closed
  /\ LET p == Head(srv.todo) IN
       s2c' = Append(s2c, [kind |-> p.kind, plugin |-> p.plugin, scramble |-> p.scramble, seq |-> srv.seq])
  /\ srv' = [srv EXCEPT !.seq = @ + 1, !.todo = Tail(@)]
  /\ UNCHANGED <<fixed, clientVars, c2s>>

ServerCloses ==
  /\ "close" \in Faults /\ pc # "start" /\ ~srv.closed
  /\ srv' = [srv EXCEPT !.closed = TRUE, !.todo = <<>>]
  /\ UNCHANGED <<fixed, clientVars, c2s, s2c>>

----------------------------------------------------------------------------
Init ==
  /\ opts \in [unix : Unix, ssl_mode : SslModes, cleartext : Cleartext, password : Passwords]
  /\ server \in [peer : Peers, ssl : BOOLEAN, default : Defaults, plugin : Accounts, password : Passwords]
  /\ server.default = "none" => server.plugin = "native"
  /\ server.peer = "any" => server.plugin = "native" /\ server.password = opts.password  \* it has no account
  /\ pc = "start" /\ rc = "OK" /\ sequence_number = 0 /\ use_ssl = FALSE /\ tls = FALSE
  /\ password = opts.password /\ plugin = "other" /\ scramble = 0
  /\ c2s = <<>> /\ s2c = <<>> /\ used = {}
  /\ srv = [seq |-> 0, scramble |-> 0, todo |-> <<>>, closed |-> FALSE]

Client ==
  \/ Connect \/ ConnectRecv \/ SslRequestSend \/ UpgradeSsl \/ AuthSend \/ AuthRecv
  \/ SwitchSend \/ SecretSend \/ MoreRecv \/ Broken
Server == ServerGreets \/ ServerReads \/ ServerSends

Next == Client \/ Timeout \/ Server \/ ServerCloses

\* The binding pumps the calls until they are through, and the server answers.
\* No timeout has to happen.
Spec == Init /\ [][Next]_vars /\ WF_vars(Client) /\ WF_vars(Server)

----------------------------------------------------------------------------
(* Properties *)

TypeOK ==
  /\ pc \in Waiting \cup Sending \cup Outcomes \cup {"start", "upgrade"}
  /\ sequence_number \in 0..8 /\ use_ssl \in BOOLEAN /\ tls \in BOOLEAN
  /\ plugin \in Plugins /\ (pc \in {"switch_send", "switch_recv"} => plugin \in {"native", "sha2", "clear"})
  /\ scramble \in 0..2 /\ password \in Passwords \cup {"wiped"}
  /\ Len(c2s) <= 1

\* The password itself only travels over TLS or a unix socket, unless the caller
\* enabled the cleartext plugin, and with ssl_mode required nothing made of it
\* travels without TLS, whatever the server answers (client.c:446, protocol.c:620,
\* cext.c:551). opts.flags says TLS before there is any (client.c:392).
PasswordProtected ==
  \A u \in used :
    /\ u.clear => u.tls \/ opts.unix \/ opts.cleartext
    /\ opts.ssl_mode = "required" => u.tls

\* The password is wiped from memory once the server has let the client in, by
\* every route through the exchange, and never before its last use: no answer is
\* made of the wiped bytes (client.c:508: "We still need the password for the
\* switch, it will be cleared in a follow up call to this function").
WipedAfterUse ==
  /\ pc = "connected" => password \in {"", "wiped"}
  /\ \A u \in used : u.of # "wiped"

\* A failure that has nothing to do with the network has one of these reasons.
Excused ==
  \/ server.default = "none"
  \/ rc = "SSL_REQUIRED" /\ opts.ssl_mode = "required" /\ ~server.ssl
  \/ rc = "UNSUPPORTED" /\ server.plugin = "sha2" /\ ~opts.unix /\ ~tls
  \/ rc = "AUTH_PLUGIN_ERROR" /\ server.plugin = "clear" /\ ~opts.cleartext
  \/ rc = "PROTOCOL_VIOLATION" /\ server.plugin = "other"
  \/ rc \in {"SYSERR", "TIMEOUT", "CLOSED_CONNECTION", "OPENSSL_ERR"}

\* With the right password a conforming server is never taken for a broken one
\* and never says no: the answer is for the plugin and the scramble the server
\* last named, and the numbers agree through TLS request, switch and second round.
RightPasswordConnects ==
  pc = "failed" /\ server.peer = "conforming" /\ opts.password = server.password => Excused

\* Both ends count alike over the whole exchange (client.c:66-67 on the client's side).
BothCountAlike == c2s # <<>> => Head(c2s).seq = srv.seq

\* With a conforming server connecting comes to an end, one way or the other,
\* without the help of a timeout: whichever packet trilogy_auth_recv acts on, the
\* two sides never wait for each other (client.c:453-497).
ConnectEnds == server.peer = "conforming" ~> pc \in Outcomes
=============================================================================
