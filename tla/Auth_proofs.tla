---------------------------- MODULE Auth_proofs ----------------------------
(***************************************************************************)
(* Proofs about Auth, for every set of options, accounts, passwords, kinds *)
(* of server and faults.                                                   *)
(***************************************************************************)
EXTENDS Auth, SequenceTheorems, TLAPS

ReplyKinds == {"handshake", "ok", "err", "fast_auth_ok", "fast_auth_fail", "auth_more", "junk", "switch"}
CommandKinds == {"ssl_request", "login", "answer", "secret"}

\* Packets on their way, and the answers they carry.
Answers == {<<>>} \cup {Answer(plug, scr, pw) : plug \in Plugins, scr \in 0..2, pw \in Passwords \cup {"wiped"}}
Command == [kind : CommandKinds, plugin : Plugins \cup {"none"}, answer : Answers, seq : Nat]
Reply == [kind : ReplyKinds, plugin : Plugins \cup {"none"}, scramble : 0..2]
Packet == [kind : ReplyKinds, plugin : Plugins \cup {"none"}, scramble : 0..2, seq : Nat]
SrvType == [seq : Nat, scramble : 0..2, todo : Seq(Reply), closed : BOOLEAN]

Types ==
  /\ opts \in [unix : Unix, ssl_mode : SslModes, cleartext : Cleartext, password : Passwords]
  /\ server \in [peer : Peers, ssl : BOOLEAN, default : Defaults, plugin : Accounts, password : Passwords]
  /\ c2s \in Seq(Command) /\ s2c \in Seq(Packet)
  /\ srv \in SrvType

\* Whose turn it is: while a command is on its way nothing comes back, and what
\* comes back is one packet, or two of which the first is fast_auth_ok.
First == IF s2c # <<>> THEN s2c[1] ELSE srv.todo[1]
Second == IF Len(s2c) = 2 THEN s2c[2] ELSE srv.todo[2 - Len(s2c)]
Coming == Len(s2c) + Len(srv.todo)

Turns ==
  /\ c2s # <<>> => Coming = 0
  /\ pc \in Sending \cup {"start", "handshake"} => c2s = <<>>
  /\ pc \in Sending \cup {"start", "upgrade"} => Coming = 0
  /\ pc = "upgrade" /\ c2s # <<>> => c2s[1].kind = "ssl_request"
  /\ Coming <= 2
  /\ pc = "handshake" => Coming <= 1
  /\ pc \in {"auth_recv", "switch_recv"} /\ Coming = 2 => First.kind = "fast_auth_ok"

\* Both ends count alike, also what is on its way to the client.
Counts ==
  /\ c2s # <<>> => c2s[1].seq = srv.seq
  /\ pc \notin Outcomes =>
       /\ sequence_number = srv.seq - Len(s2c) + Len(c2s)
       /\ \A i \in 1..Len(s2c) : s2c[i].seq = sequence_number + i - 1

\* How far the number can have come: it is raised once for every packet.
Steps ==
  /\ pc \in {"start", "handshake"} => sequence_number = 0
  /\ pc = "ssl_request" => sequence_number <= 1
  /\ pc \in {"upgrade", "auth_send"} => sequence_number <= 2
  /\ pc = "auth_recv" => sequence_number <= 3
  /\ pc = "switch_send" => sequence_number <= 4
  /\ pc = "switch_recv" => sequence_number <= 5
  /\ pc = "more_send" => sequence_number <= 6
  /\ pc = "more_recv" => sequence_number <= 7

\* The password is there as long as it is needed, and TLS when it is promised.
Secrets ==
  /\ password \in {opts.password, "wiped"}
  /\ pc \notin Outcomes => password = opts.password
  /\ tls => use_ssl
  /\ use_ssl => tls \/ pc \in {"upgrade", "failed"}
  /\ pc = "upgrade" => use_ssl
  /\ opts.ssl_mode = "required" => tls \/ pc \in {"start", "handshake", "ssl_request", "upgrade", "failed"}
  /\ pc = "more_send" => use_ssl \/ opts.unix

\* A conforming server that has the plugin negotiated and knows the password:
\* what may be on its way at which point.
RightServer ==
  server.peer = "conforming" /\ server.default # "none" /\ opts.password = server.password

Fits(p) ==
  /\ pc = "handshake" => p.kind = "handshake" /\ p.scramble = srv.scramble
  /\ pc = "auth_recv" =>
       \/ p.kind = "ok"
       \/ p.kind = "switch" /\ p.plugin = server.plugin /\ p.scramble = srv.scramble
       \/ p.kind \in {"fast_auth_ok", "fast_auth_fail"} /\ server.plugin = "sha2"
  /\ pc = "switch_recv" =>
       \/ p.kind = "ok"
       \/ p.kind \in {"fast_auth_ok", "fast_auth_fail"} /\ server.plugin = "sha2"
  /\ pc = "more_recv" => p.kind = "ok"

Awaits(c) ==
  /\ pc = "upgrade" => c.kind = "ssl_request"
  /\ pc = "auth_recv" => c.kind = "login" /\ c.answer = Answer(c.plugin, scramble, password)
  /\ pc = "switch_recv" => c.kind = "answer" /\ c.answer = Answer(server.plugin, scramble, password)
  /\ pc = "more_recv" => c.kind = "secret" /\ c.answer = Answer("clear", 0, password)

Agreement ==
  /\ \A i \in 1..Len(s2c) : Fits(s2c[i])
  /\ \A i \in 1..Len(srv.todo) : Fits(srv.todo[i])
  /\ pc \in {"auth_recv", "switch_recv"} /\ Coming = 2 => Second.kind = "ok"
  /\ c2s # <<>> => Awaits(c2s[1])
  /\ pc \in {"ssl_request", "upgrade", "auth_send", "switch_send"} => scramble = srv.scramble
  /\ pc \in {"auth_recv", "switch_recv"} /\ c2s # <<>> => scramble = srv.scramble
  /\ pc \in {"switch_send", "switch_recv"} => plugin = server.plugin

\* The inductive invariant: what holds with any server, and what holds besides
\* with one that has the right password.
Safe == TypeOK /\ Types /\ Turns /\ Counts /\ Steps /\ Secrets /\ PasswordProtected /\ WipedAfterUse
Right == (RightServer => Agreement) /\ RightPasswordConnects

IInv == Safe /\ Right

-----------------------------------------------------------------------------
(* Facts about the operators *)

\* What a queue holds when a packet is put at its end.
LEMMA Appended ==
  ASSUME NEW S, NEW s \in Seq(S), NEW e \in S
  PROVE  /\ Append(s, e) \in Seq(S) /\ Append(s, e) # <<>>
         /\ Len(s) \in Nat /\ Len(Append(s, e)) = Len(s) + 1
         /\ Append(s, e)[Len(s) + 1] = e
         /\ \A i \in 1..Len(s) : Append(s, e)[i] = s[i]
  OBVIOUS

\* What it holds when one is taken from its front.
LEMMA Taken ==
  ASSUME NEW S, NEW s \in Seq(S), s # <<>>
  PROVE  /\ Head(s) = s[1] /\ s[1] \in S
         /\ Tail(s) \in Seq(S) /\ Len(s) \in Nat /\ Len(s) >= 1 /\ Len(Tail(s)) = Len(s) - 1
         /\ \A i \in 1..Len(Tail(s)) : Tail(s)[i] = s[i + 1]
  OBVIOUS

\* Only the empty queue has length 0.
LEMMA Empty ==
  ASSUME NEW S, NEW s \in Seq(S)
  PROVE  /\ Len(s) \in Nat /\ (s = <<>> <=> Len(s) = 0)
         /\ \A i \in 1..Len(s) : s[i] \in S
  OBVIOUS

\* An answer is made of the password it ends with, and only the cleartext
\* plugin's begins with "clear" (protocol.c:600-660).
MadeOf(a, pw, plug) ==
  /\ a # <<>> /\ a[Len(a)] = pw
  /\ a[1] = "clear" <=> plug = "clear"

\* The cleartext plugin's answer (protocol.c:600).
LEMMA ClearAnswer == ASSUME NEW pw PROVE MadeOf(<<"clear", pw>>, pw, "clear")
  BY DEF MadeOf

\* The other plugins' answer (protocol.c:435).
LEMMA HashAnswer ==
  ASSUME NEW pw, NEW scr, NEW plug, plug # "clear" PROVE MadeOf(<<plug, scr, pw>>, pw, plug)
  BY DEF MadeOf

\* Whichever plugin makes it, a non-empty password is what it is made of.
LEMMA AnswerFacts ==
  ASSUME NEW plug \in Plugins, NEW scr \in 0..2, NEW pw, pw # ""
  PROVE  MadeOf(Answer(plug, scr, pw), pw, plug)
  BY ClearAnswer, HashAnswer DEF Answer

\* An answer in the connection phase is one of Answers.
LEMMA AnswerType ==
  ASSUME NEW plug \in Plugins, NEW scr \in 0..2, NEW pw \in Passwords \cup {"wiped"}
  PROVE  Answer(plug, scr, pw) \in Answers
  BY DEF Answers

\* Everything the server says is a reply, at most two at a time, and the first
\* of two is fast_auth_ok.
GoodReplies(r) ==
  /\ r \in Seq(Reply) /\ Len(r) <= 2
  /\ Len(r) = 2 => r[1].kind = "fast_auth_ok"

\* A single reply is well-formed.
LEMMA OneReply == ASSUME NEW p \in Reply PROVE GoodReplies(<<p>>)
  BY DEF GoodReplies

\* So are two of which the first is fast_auth_ok.
LEMMA TwoReplies == ASSUME NEW p \in Reply, NEW q \in Reply, p.kind = "fast_auth_ok" PROVE GoodReplies(<<p, q>>)
  <1>1. <<p, q>> \in Seq(Reply) /\ Len(<<p, q>>) = 2 /\ <<p, q>>[1] = p
    OBVIOUS
  <1>2. QED
    BY <1>1 DEF GoodReplies

\* What the server's words are.
LEMMA Speech ==
  /\ Ok \in Reply /\ Err \in Reply
  /\ \A k \in {"fast_auth_ok", "fast_auth_fail", "auth_more", "junk"} : More(k) \in Reply /\ More(k).kind = k
  /\ \A plug \in Plugins \cup {"none"} : \A scr \in 0..2 : \A k \in {"switch", "handshake"} :
        FromServer(k, plug, scr) \in Reply
  BY DEF Ok, Err, More, FromServer, Reply, ReplyKinds

\* An arbitrary server says nothing that is not a packet of the protocol.
LEMMA AnythingType == Anything \subseteq Reply
  BY Speech DEF Anything

\* Silence is well-formed, the answer to a request for TLS.
LEMMA NoReplies == GoodReplies(<<>>)
  BY DEF GoodReplies

\* An arbitrary server speaks in its turn only: at most two replies, as trilogy_auth_recv's
\* inner loop reads them (client.c:442-504).
LEMMA AnyRepliesType == ASSUME NEW p, NEW r \in AnyReplies(p) PROVE GoodReplies(r)
  <1>1. CASE r = <<>>
    BY <1>1, NoReplies
  <1>2. CASE \E q \in Anything : r = <<q>>
    BY <1>2, AnythingType, OneReply
  <1>3. CASE \E q \in {Ok, Err, More("auth_more")} : r = <<More("fast_auth_ok"), q>>
    BY <1>3, Speech, TwoReplies
  <1>4. QED
    BY <1>1, <1>2, <1>3 DEF AnyReplies

\* A verdict is one reply, or fast_auth_ok and another.
LEMMA JudgeType == ASSUME NEW a, NEW plug, NEW scr, NEW r \in Judge(a, plug, scr) PROVE GoodReplies(r)
  <1>1. r \in {<<Ok>>, <<Err>>, <<More("fast_auth_fail")>>, <<More("fast_auth_ok"), Ok>>}
    BY DEF Judge, Verdict
  <1>2. QED
    BY <1>1, Speech, OneReply, TwoReplies

\* The same of a conforming server.
LEMMA RepliesType == ASSUME Types, NEW p, NEW r \in Replies(p) PROVE GoodReplies(r)
  <1>1. \/ r \in {<<>>, <<Ok>>, <<Err>>, <<FromServer("switch", server.plugin, 2)>>}
        \/ r \in Judge(p.answer, server.plugin, srv.scramble)
    BY DEF Replies, Verdict
  <1>2. server.plugin \in Plugins
    BY AuthAssumption DEF Types
  <1>3. FromServer("switch", server.plugin, 2) \in Reply
    BY <1>2, Speech
  <1>4. QED
    BY <1>1, <1>3, Speech, OneReply, NoReplies, JudgeType

\* A queue that holds at most one packet, and something.
LEMMA Single == ASSUME NEW S, NEW s \in Seq(S), Len(s) <= 1, s # <<>> PROVE Len(s) = 1
  <1> DEFINE n == Len(s)
  <1>1. n \in Nat /\ n # 0 /\ n <= 1
    OBVIOUS
  <1> HIDE DEF n
  <1>2. n = 1
    BY <1>1
  <1>3. QED
    BY <1>2 DEF n

\* What the server's state is after a step of its own.
LEMMA SrvStep ==
  ASSUME srv \in SrvType, NEW n \in Nat, NEW c \in 0..2, NEW t \in Seq(Reply),
         srv' = [srv EXCEPT !.seq = n, !.todo = t, !.scramble = c]
  PROVE  srv'.seq = n /\ srv'.todo = t /\ srv'.scramble = c /\ srv' \in SrvType
  <1>1. srv'.seq = n
    BY DEF SrvType
  <1>2. srv'.todo = t
    BY DEF SrvType
  <1>3. srv'.scramble = c
    BY DEF SrvType
  <1>4. srv' \in SrvType
    BY DEF SrvType
  <1>5. QED
    BY <1>1, <1>2, <1>3, <1>4

-----------------------------------------------------------------------------
(* The steps *)

\* The call ends without sending anything, having read at most one packet.
Stops ==
  /\ pc' \in Outcomes /\ UNCHANGED <<fixed, use_ssl, tls, used, c2s, srv>>
  /\ sequence_number' \in 0..8 /\ plugin' \in Plugins /\ scramble' \in 0..2
  /\ s2c' \in {s2c, Tail(s2c)} /\ (s2c' # s2c => s2c # <<>>)
  /\ password' = password \/ password' = (IF password = "" THEN "" ELSE "wiped")
  /\ pc' = "connected" => /\ password' = (IF password = "" THEN "" ELSE "wiped")
                          /\ pc \in {"auth_recv", "switch_recv", "more_recv"}

\* Such a step keeps the invariant: with the call over, what is left is the password.
LEMMA StopsSafe == ASSUME Safe, Stops PROVE Safe'
  <1> USE DEF Safe
  <1>1. TypeOK'
    BY DEF TypeOK, Stops, Waiting, Sending, Outcomes
  <1>2. Len(s2c') <= Len(s2c) /\ s2c' \in Seq(Packet) /\ Len(s2c') \in Nat /\ Len(s2c) \in Nat
    <2>1. Len(s2c) \in Nat
      BY Empty DEF Types
    <2>2. CASE s2c' = s2c
      BY <2>1, <2>2 DEF Types
    <2>3. CASE s2c' = Tail(s2c) /\ s2c # <<>>
      BY <2>1, <2>3, Taken DEF Types
    <2>4. QED
      BY <2>2, <2>3 DEF Stops
  <1>3. Types'
    BY <1>2 DEF Types, Stops, fixed
  <1>4. Len(srv.todo) \in Nat
    BY Empty DEF Types
  <1>5. Turns'
    <2>1. Coming' <= Coming /\ Coming' \in Nat /\ Coming \in Nat
      <3>1. srv' = srv
        BY DEF Stops
      <3>2. QED
        BY <1>2, <1>4, <3>1 DEF Coming
    <2>2. c2s' = c2s /\ pc' \in Outcomes
      BY DEF Stops
    <2>3. QED
      BY <2>1, <2>2 DEF Turns, Outcomes, Sending
  <1>6. Counts' /\ Steps'
    BY DEF Counts, Steps, Stops, Outcomes
  <1>7. Secrets'
    BY DEF Secrets, Stops, Outcomes, fixed
  <1>8. PasswordProtected' /\ WipedAfterUse'
    BY DEF PasswordProtected, WipedAfterUse, Stops, fixed
  <1>9. QED
    BY <1>1, <1>3, <1>5, <1>6, <1>7, <1>8

\* read_packet takes the packet whose turn it is, and the numbers move together.
LEMMA AcceptFacts ==
  ASSUME Safe, Accept, pc \in Waiting
  PROVE  /\ s2c # <<>> /\ Head(s2c) = s2c[1] /\ s2c[1] \in Packet /\ s2c \in Seq(Packet)
         /\ s2c' = Tail(s2c) /\ s2c' \in Seq(Packet)
         /\ Len(s2c) \in 1..2 /\ Len(s2c') = Len(s2c) - 1
         /\ \A i \in 1..Len(s2c') : s2c'[i] = s2c[i + 1]
         /\ Coming \in 1..2 /\ Coming' = Coming - 1 /\ Len(srv.todo) \in Nat
         /\ c2s = <<>> /\ UNCHANGED <<opts, server, c2s, srv, used, tls, use_ssl>>
         /\ sequence_number' = sequence_number + 1
         /\ Types' /\ Counts'
  <1>1. /\ s2c # <<>> /\ s2c' = Tail(s2c) /\ sequence_number' = sequence_number + 1
        /\ Head(s2c).seq = sequence_number
        /\ opts' = opts /\ server' = server /\ c2s' = c2s /\ srv' = srv
        /\ used' = used /\ tls' = tls /\ use_ssl' = use_ssl
    BY DEF Accept, fixed
  <1>2. /\ s2c \in Seq(Packet) /\ c2s \in Seq(Command) /\ Len(srv.todo) \in Nat
        /\ srv.seq \in Nat /\ sequence_number \in 0..8
    BY Empty DEF Safe, Types, TypeOK, SrvType
  <1>3. /\ Head(s2c) = s2c[1] /\ s2c[1] \in Packet
        /\ Tail(s2c) \in Seq(Packet) /\ Len(s2c) \in Nat /\ Len(s2c) >= 1 /\ Len(Tail(s2c)) = Len(s2c) - 1
        /\ \A i \in 1..Len(Tail(s2c)) : Tail(s2c)[i] = s2c[i + 1]
    BY <1>1, <1>2, Taken
  <1>4. /\ Len(s2c') = Len(s2c) - 1 /\ s2c' \in Seq(Packet)
        /\ \A i \in 1..Len(s2c') : s2c'[i] = s2c[i + 1]
    BY <1>1, <1>3
  <1>5. Coming = Len(s2c) + Len(srv.todo) /\ Coming' = Len(s2c') + Len(srv.todo)
    BY <1>1 DEF Coming
  <1>6. Coming <= 2 /\ (c2s # <<>> => Coming = 0)
    BY DEF Safe, Turns
  <1>7. c2s = <<>>
    BY <1>2, <1>3, <1>5, <1>6
  <1>8. Types'
    BY <1>1, <1>4 DEF Safe, Types
  <1>9. Counts'
    <2>1. /\ sequence_number = srv.seq - Len(s2c) + Len(c2s)
          /\ \A i \in 1..Len(s2c) : s2c[i].seq = sequence_number + i - 1
      BY DEF Safe, Counts, Waiting, Outcomes
    <2>2. Len(c2s) = 0
      BY <1>7
    <2>3. sequence_number' = srv'.seq - Len(s2c') + Len(c2s')
      BY <1>1, <1>2, <1>3, <1>4, <2>1, <2>2
    <2>4. ASSUME NEW i \in 1..Len(s2c') PROVE s2c'[i].seq = sequence_number' + i - 1
      <3>1. i + 1 \in 1..Len(s2c) /\ s2c'[i] = s2c[i + 1]
        BY <1>3, <1>4
      <3>2. s2c[i + 1].seq = sequence_number + (i + 1) - 1
        BY <2>1, <3>1
      <3>3. QED
        BY <1>1, <1>2, <3>1, <3>2
    <2>5. QED
      BY <1>1, <1>7, <2>3, <2>4 DEF Counts
  <1>10. QED
    BY <1>1, <1>2, <1>3, <1>4, <1>5, <1>6, <1>7, <1>8, <1>9

\* begin_command_phase: the packet carries the number the server expects.
LEMMA SendFacts ==
  ASSUME Safe, pc \in Sending, pc' \notin {"start", "handshake"} \cup Sending,
         NEW kind \in CommandKinds, NEW plug \in Plugins \cup {"none"}, NEW a \in Answers,
         pc' = "upgrade" => kind = "ssl_request",
         BeginPhase(kind, plug, a), UNCHANGED <<opts, server, s2c, srv>>
  PROVE  /\ c2s' \in Seq(Command) /\ c2s' # <<>> /\ Len(c2s') = 1
         /\ c2s'[1] = [kind |-> kind, plugin |-> plug, answer |-> a, seq |-> sequence_number]
         /\ sequence_number' = sequence_number + 1 /\ sequence_number \in 0..8
         /\ s2c = <<>> /\ srv.todo = <<>> /\ Len(s2c) = 0 /\ Len(srv.todo) = 0
         /\ Types' /\ Turns' /\ Counts'
  <1> DEFINE e == [kind |-> kind, plugin |-> plug, answer |-> a, seq |-> sequence_number]
  <1>1. /\ c2s' = Append(c2s, e) /\ sequence_number' = sequence_number + 1
        /\ opts' = opts /\ server' = server /\ s2c' = s2c /\ srv' = srv
    BY DEF BeginPhase
  <1>2. sequence_number \in 0..8 /\ c2s \in Seq(Command) /\ s2c \in Seq(Packet) /\ srv.todo \in Seq(Reply)
    BY DEF Safe, TypeOK, Types, SrvType
  <1>3. c2s = <<>> /\ Coming = 0
    BY DEF Safe, Turns, Sending
  <1>4. s2c = <<>> /\ srv.todo = <<>> /\ Len(s2c) = 0 /\ Len(srv.todo) = 0
    BY <1>2, <1>3, Empty DEF Coming
  <1>5. e \in Command
    BY <1>2 DEF Command
  <1> HIDE DEF e
  <1>6. /\ c2s' \in Seq(Command) /\ c2s' # <<>> /\ Len(c2s') = Len(c2s) + 1 /\ c2s'[Len(c2s) + 1] = e
    BY <1>1, <1>2, <1>5, Appended
  <1>7. Len(c2s) = 0
    BY <1>3
  <1>8. Len(c2s') = 1 /\ c2s'[1] = e
    BY <1>6, <1>7
  <1>9. Types'
    BY <1>1, <1>6 DEF Safe, Types
  <1>10. Coming' = 0
    BY <1>1, <1>4 DEF Coming
  <1>11. Turns'
    BY <1>8, <1>10 DEF Turns, e
  <1>12. Counts'
    <2>1. sequence_number = srv.seq
      BY <1>4, <1>7, <1>2 DEF Safe, Counts, Sending, Outcomes, Types, SrvType
    <2>2. e.seq = sequence_number
      BY DEF e
    <2>3. QED
      BY <1>1, <1>2, <1>4, <1>8, <2>1, <2>2 DEF Counts
  <1>13. QED
    BY <1>1, <1>2, <1>4, <1>6, <1>8, <1>9, <1>11, <1>12 DEF e

\* The password leaves in an answer of the given plugin.
LEMMA UseFacts ==
  ASSUME Safe, NEW plug \in Plugins, NEW scr \in 0..2, pc \notin Outcomes,
         Use(Answer(plug, scr, password)),
         plug = "clear" /\ password # "" => tls \/ opts.unix \/ opts.cleartext,
         opts.ssl_mode = "required" => tls,
         opts' = opts, password' = password, pc' # "connected"
  PROVE  PasswordProtected' /\ WipedAfterUse'
  <1> DEFINE a == Answer(plug, scr, password)
  <1>1. password # "wiped"
    BY AuthAssumption DEF Safe, Secrets, Types
  <1>2. CASE password = ""
    <2>1. a = <<>>
      BY <1>2 DEF Answer
    <2>2. used' = used
      BY <2>1 DEF Use
    <2>3. QED
      BY <2>2 DEF Safe, PasswordProtected, WipedAfterUse
  <1>3. CASE password # ""
    <2> DEFINE u == [clear |-> a[1] = "clear", tls |-> tls, of |-> a[Len(a)]]
    <2>1. MadeOf(a, password, plug)
      BY <1>3, AnswerFacts
    <2>2. a # <<>>
      BY <2>1 DEF MadeOf
    <2>3. used' = used \cup {u}
      BY <2>2 DEF Use
    <2>4. u.clear = (a[1] = "clear") /\ u.tls = tls /\ u.of = a[Len(a)]
      OBVIOUS
    <2> HIDE DEF u, a
    <2>5. (u.clear <=> plug = "clear") /\ u.of = password
      BY <2>1, <2>4 DEF MadeOf
    <2>6. PasswordProtected'
      BY <1>3, <2>3, <2>4, <2>5 DEF Safe, PasswordProtected
    <2>7. WipedAfterUse'
      BY <1>1, <2>3, <2>5 DEF Safe, WipedAfterUse
    <2>8. QED
      BY <2>6, <2>7
  <1>4. QED
    BY <1>2, <1>3

\* Safe after a step that sends: what is left to show.
LEMMA SafeParts ==
  ASSUME TypeOK', Types', Turns', Counts', Steps', Secrets', PasswordProtected', WipedAfterUse'
  PROVE  Safe'
  BY DEF Safe

\* try_connect (cext.c:470).
LEMMA ConnectSafe == ASSUME Safe, Connect PROVE Safe'
  <1>1. CASE pc' = "failed"
    BY <1>1, StopsSafe DEF Connect, Stops, Outcomes, Safe, TypeOK, fixed, Fail
  <1>2. CASE pc' = "handshake"
    <2>1. /\ sequence_number' = 0 /\ pc = "start" /\ opts' = opts /\ server' = server
          /\ UNCHANGED <<use_ssl, tls, password, plugin, scramble, used, c2s, s2c, srv>>
      BY <1>2 DEF Connect, Fail, fixed
    <2>2. TypeOK' /\ Types' /\ Steps'
      BY <1>2, <2>1 DEF Safe, TypeOK, Types, Steps, Waiting
    <2>3. Coming = 0 /\ Coming' = Coming /\ c2s = <<>>
      BY <2>1 DEF Safe, Turns, Coming
    <2>4. Turns'
      BY <1>2, <2>1, <2>3 DEF Turns
    <2>5. sequence_number = 0
      BY <2>1 DEF Safe, Steps
    <2>6. Counts'
      BY <1>2, <2>1, <2>5 DEF Safe, Counts, Outcomes
    <2>7. Secrets' /\ PasswordProtected' /\ WipedAfterUse'
      BY <1>2, <2>1 DEF Safe, Secrets, PasswordProtected, WipedAfterUse, Outcomes
    <2>8. QED
      BY <2>2, <2>4, <2>6, <2>7, SafeParts
  <1>3. QED
    BY <1>1, <1>2 DEF Connect, Fail

\* trilogy_connect_recv and the choice of TLS (client.c:333, cext.c:547).
LEMMA ConnectRecvSafe == ASSUME Safe, ConnectRecv PROVE Safe'
  <1>1. Accept /\ pc = "handshake" /\ pc \in Waiting /\ password' = password
    BY DEF ConnectRecv, Waiting
  <1>2. /\ Head(s2c) = s2c[1] /\ s2c[1] \in Packet
        /\ s2c # <<>> /\ s2c' = Tail(s2c) /\ c2s = <<>>
        /\ Coming \in 1..2 /\ Coming' = Coming - 1
        /\ UNCHANGED <<opts, server, c2s, srv, used, tls, use_ssl>>
        /\ sequence_number' = sequence_number + 1
        /\ Types' /\ Counts'
    BY <1>1, AcceptFacts
  <1>3. plugin' \in Plugins /\ scramble' \in 0..2
    BY <1>2 DEF ConnectRecv, Packet, Safe, TypeOK
  <1>4. sequence_number = 0
    BY <1>1 DEF Safe, Steps
  <1>5. pc' \in {"failed", "auth_send", "ssl_request"}
    BY DEF ConnectRecv, Authenticate, Fail
  <1>6. CASE pc' = "failed"
    BY <1>1, <1>2, <1>3, <1>4, <1>6, StopsSafe DEF Stops, Outcomes, fixed
  <1>7. CASE pc' \in {"auth_send", "ssl_request"}
    <2>1. opts.ssl_mode = "required" => pc' = "ssl_request"
      BY <1>7 DEF ConnectRecv, Authenticate, Fail
    <2>2. TypeOK' /\ Steps'
      BY <1>1, <1>2, <1>3, <1>4, <1>7 DEF Safe, TypeOK, Steps, Sending
    <2>3. Coming' = 0
      BY <1>1, <1>2 DEF Safe, Turns
    <2>4. Turns'
      BY <1>2, <1>7, <2>3 DEF Turns
    <2>5. Secrets' /\ PasswordProtected' /\ WipedAfterUse'
      BY <1>1, <1>2, <1>7, <2>1 DEF Safe, Secrets, PasswordProtected, WipedAfterUse, Outcomes
    <2>6. QED
      BY <1>2, <2>2, <2>4, <2>5, SafeParts
  <1>8. QED
    BY <1>5, <1>6, <1>7

\* trilogy_ssl_request_send (client.c:382).
LEMMA SslRequestSendSafe == ASSUME Safe, SslRequestSend PROVE Safe'
  <1>1. /\ pc = "ssl_request" /\ pc' = "upgrade" /\ BeginPhase("ssl_request", "none", <<>>)
        /\ use_ssl' = TRUE /\ UNCHANGED <<opts, server, tls, password, plugin, scramble, used, s2c, srv>>
    BY DEF SslRequestSend, fixed
  <1>2. /\ Types' /\ Turns' /\ Counts' /\ Len(c2s') = 1 /\ sequence_number' = sequence_number + 1
    <2>1. <<>> \in Answers /\ "ssl_request" \in CommandKinds /\ "none" \in Plugins \cup {"none"}
      BY DEF Answers, CommandKinds
    <2>2. QED
      BY <1>1, <2>1, SendFacts DEF Sending
  <1>3. TypeOK' /\ Steps'
    BY <1>1, <1>2 DEF Safe, TypeOK, Steps
  <1>4. Secrets' /\ PasswordProtected' /\ WipedAfterUse'
    BY <1>1 DEF Safe, Secrets, PasswordProtected, WipedAfterUse, Outcomes
  <1>5. QED
    BY <1>2, <1>3, <1>4, SafeParts

\* trilogy_sock_upgrade_ssl (socket.c:632).
LEMMA UpgradeSslSafe == ASSUME Safe, UpgradeSsl PROVE Safe'
  <1>1. /\ pc = "upgrade" /\ opts' = opts /\ server' = server
        /\ UNCHANGED <<sequence_number, use_ssl, password, plugin, scramble, used, c2s, s2c, srv>>
    BY DEF UpgradeSsl, fixed
  <1>2. CASE pc' = "failed" /\ tls' = tls
    BY <1>1, <1>2, StopsSafe DEF Stops, Outcomes, Safe, TypeOK, fixed
  <1>3. CASE c2s = <<>> /\ tls' = TRUE /\ pc' = "auth_send"
    <2>1. TypeOK' /\ Types' /\ Steps' /\ Turns' /\ Counts'
      <3>1. Coming' = Coming
        BY <1>1 DEF Coming
      <3>2. Coming = 0
        BY <1>1 DEF Safe, Turns
      <3>3. Turns'
        BY <1>1, <1>3, <3>1, <3>2 DEF Turns
      <3>4. TypeOK' /\ Types' /\ Steps'
        BY <1>1, <1>3 DEF Safe, TypeOK, Types, Steps, Sending
      <3>5. Counts'
        BY <1>1, <1>3 DEF Safe, Counts, Outcomes
      <3>6. QED
        BY <3>3, <3>4, <3>5
    <2>2. use_ssl = TRUE
      BY <1>1 DEF Safe, Secrets
    <2>3. Secrets' /\ PasswordProtected' /\ WipedAfterUse'
      BY <1>1, <1>3, <2>2 DEF Safe, Secrets, PasswordProtected, WipedAfterUse, Outcomes
    <2>4. QED
      BY <2>1, <2>3, SafeParts
  <1>4. QED
    BY <1>2, <1>3 DEF UpgradeSsl, Fail

\* trilogy_auth_send (client.c:360): a login never carries the password itself.
LEMMA AuthSendSafe == ASSUME Safe, AuthSend PROVE Safe'
  <1> DEFINE a == Answer(LoginPlugin, scramble, password)
  <1>1. /\ pc = "auth_send" /\ pc' = "auth_recv" /\ BeginPhase("login", LoginPlugin, a) /\ Use(a)
        /\ UNCHANGED <<opts, server, use_ssl, tls, password, plugin, scramble, s2c, srv>>
    BY DEF AuthSend, fixed
  <1>2. /\ LoginPlugin \in Plugins /\ scramble \in 0..2 /\ password \in Passwords \cup {"wiped"}
        /\ (password # "" => LoginPlugin # "clear")
    <2>1. plugin \in Plugins /\ scramble \in 0..2 /\ password \in Passwords \cup {"wiped"}
      BY DEF Safe, TypeOK
    <2>2. CASE password = "" \/ plugin = "sha2"
      BY <2>1, <2>2 DEF LoginPlugin
    <2>3. CASE ~(password = "" \/ plugin = "sha2")
      BY <2>1, <2>3 DEF LoginPlugin, Plugins
    <2>4. QED
      BY <2>2, <2>3
  <1>3. a \in Answers
    BY <1>2, AnswerType
  <1>4. Types' /\ Turns' /\ Counts' /\ Len(c2s') = 1 /\ sequence_number' = sequence_number + 1
    <2>1. "login" \in CommandKinds
      BY DEF CommandKinds
    <2> HIDE DEF a
    <2>2. QED
      BY <1>1, <1>2, <1>3, <2>1, SendFacts DEF Sending
  <1>5. TypeOK' /\ Steps'
    BY <1>1, <1>4 DEF Safe, TypeOK, Steps, Waiting
  <1>6. opts.ssl_mode = "required" => tls
    BY <1>1 DEF Safe, Secrets
  <1>7. PasswordProtected' /\ WipedAfterUse'
    BY <1>1, <1>2, <1>6, UseFacts DEF Outcomes
  <1>8. Secrets'
    BY <1>1 DEF Safe, Secrets, Outcomes
  <1>9. QED
    BY <1>4, <1>5, <1>7, <1>8, SafeParts

\* trilogy_auth_switch_send (protocol.c:611): the password itself only if that is enabled.
LEMMA SwitchSendSafe == ASSUME Safe, SwitchSend PROVE Safe'
  <1> DEFINE a == Answer(plugin, scramble, password)
  <1>1. /\ pc = "switch_send"
        /\ UNCHANGED <<opts, server, use_ssl, tls, password, plugin, scramble, s2c, srv>>
    BY DEF SwitchSend, fixed
  <1>2. /\ plugin \in Plugins /\ scramble \in 0..2 /\ password \in Passwords \cup {"wiped"}
        /\ sequence_number \in 0..4
    BY <1>1 DEF Safe, TypeOK, Plugins, Steps
  <1>3. CASE plugin = "clear" /\ password # "" /\ ~opts.cleartext
    <2>1. pc' = "failed" /\ sequence_number' = sequence_number + 1 /\ UNCHANGED <<c2s, used>>
      BY <1>3 DEF SwitchSend, Fail
    <2>2. QED
      BY <1>1, <1>2, <2>1, StopsSafe DEF Stops, Outcomes, fixed
  <1>4. CASE ~(plugin = "clear" /\ password # "" /\ ~opts.cleartext)
    <2>1. BeginPhase("answer", "none", a) /\ Use(a) /\ pc' = "switch_recv"
      BY <1>4 DEF SwitchSend
    <2>2. a \in Answers
      BY <1>2, AnswerType
    <2>3. Types' /\ Turns' /\ Counts' /\ Len(c2s') = 1 /\ sequence_number' = sequence_number + 1
      <3>1. "answer" \in CommandKinds /\ "none" \in Plugins \cup {"none"}
        BY DEF CommandKinds
      <3> HIDE DEF a
      <3>2. QED
        BY <1>1, <2>1, <2>2, <3>1, SendFacts DEF Sending
    <2>4. TypeOK' /\ Steps'
      BY <1>1, <1>2, <2>1, <2>3 DEF Safe, TypeOK, Steps, Waiting
    <2>5. opts.ssl_mode = "required" => tls
      BY <1>1 DEF Safe, Secrets
    <2>6. opts.cleartext \in BOOLEAN
      BY AuthAssumption DEF Safe, Types
    <2>7. PasswordProtected' /\ WipedAfterUse'
      BY <1>1, <1>2, <1>4, <2>1, <2>5, <2>6, UseFacts DEF Outcomes
    <2>8. Secrets'
      BY <1>1, <2>1 DEF Safe, Secrets, Outcomes
    <2>9. QED
      BY <2>3, <2>4, <2>7, <2>8, SafeParts
  <1>5. QED
    BY <1>3, <1>4

\* FAST_AUTH_FAIL (client.c:468): the password itself, over TLS or a unix socket.
LEMMA SecretSendSafe == ASSUME Safe, SecretSend PROVE Safe'
  <1> DEFINE a == Answer("clear", 0, password)
  <1>1. /\ pc = "more_send" /\ pc' = "more_recv" /\ BeginPhase("secret", "none", a) /\ Use(a)
        /\ UNCHANGED <<opts, server, use_ssl, tls, password, plugin, scramble, s2c, srv>>
    BY DEF SecretSend, fixed
  <1>2. password \in Passwords \cup {"wiped"} /\ "clear" \in Plugins /\ 0 \in 0..2
    BY DEF Safe, TypeOK, Plugins
  <1>3. a \in Answers
    BY <1>2, AnswerType
  <1>4. Types' /\ Turns' /\ Counts' /\ Len(c2s') = 1 /\ sequence_number' = sequence_number + 1
    <2>1. "secret" \in CommandKinds /\ "none" \in Plugins \cup {"none"}
      BY DEF CommandKinds
    <2> HIDE DEF a
    <2>2. QED
      BY <1>1, <1>3, <2>1, SendFacts DEF Sending
  <1>5. TypeOK' /\ Steps'
    BY <1>1, <1>4 DEF Safe, TypeOK, Steps, Waiting
  <1>6. (opts.ssl_mode = "required" => tls) /\ (tls \/ opts.unix)
    BY <1>1 DEF Safe, Secrets
  <1>7. PasswordProtected' /\ WipedAfterUse'
    BY <1>1, <1>2, <1>6, UseFacts DEF Outcomes
  <1>8. Secrets'
    BY <1>1 DEF Safe, Secrets, Outcomes
  <1>9. QED
    BY <1>4, <1>5, <1>7, <1>8, SafeParts

\* The call goes on after a packet: to another packet or to an answer.
LEMMA GoesOnSafe ==
  ASSUME Safe, Accept, pc \in {"auth_recv", "switch_recv"},
         pc' \in {"more_recv", "more_send", "switch_send"},
         pc' = "switch_send" => pc = "auth_recv" /\ plugin' \in Supported,
         pc' \in {"more_send", "switch_send"} => s2c[1].kind # "fast_auth_ok",
         pc' \in {"more_recv", "more_send"} => SecureEnough,
         password' = password, plugin' \in Plugins, scramble' \in 0..2
  PROVE  Safe'
  <1>1. /\ Len(s2c) \in 1..2 /\ Coming \in 1..2 /\ Coming' = Coming - 1 /\ c2s = <<>>
        /\ UNCHANGED <<opts, server, c2s, srv, used, tls, use_ssl>>
        /\ sequence_number' = sequence_number + 1 /\ s2c # <<>>
        /\ Types' /\ Counts'
    BY AcceptFacts DEF Waiting
  <1>2. TypeOK' /\ Steps'
    BY <1>1 DEF Safe, TypeOK, Steps, Waiting, Sending, Supported
  <1>3. pc' \in {"more_send", "switch_send"} => Coming' = 0
    BY <1>1 DEF Safe, Turns, First
  <1>4. Turns'
    BY <1>1, <1>3 DEF Turns, Sending
  <1>5. Secrets' /\ PasswordProtected' /\ WipedAfterUse'
    BY <1>1 DEF Safe, Secrets, PasswordProtected, WipedAfterUse, Outcomes, SecureEnough
  <1>6. QED
    BY <1>1, <1>2, <1>4, <1>5, SafeParts

\* trilogy_auth_recv up to the end of its first packet (client.c:433).
LEMMA AuthRecvSafe == ASSUME Safe, AuthRecv PROVE Safe'
  <1> DEFINE p == s2c[1]
  <1>1. Accept /\ pc \in {"auth_recv", "switch_recv"} /\ pc \in Waiting
    BY DEF AuthRecv, Waiting
  <1>2. /\ Head(s2c) = p /\ p \in Packet /\ s2c # <<>> /\ s2c' = Tail(s2c)
        /\ UNCHANGED <<opts, server, c2s, srv, used, tls, use_ssl>>
        /\ sequence_number' = sequence_number + 1
    BY <1>1, AcceptFacts
  <1>3. sequence_number \in 0..5 /\ plugin \in Plugins /\ scramble \in 0..2
    BY <1>1 DEF Safe, TypeOK, Steps
  <1>4. p.scramble \in 0..2
    BY <1>2 DEF Packet
  <1> HIDE DEF p
  <1>5. CASE p.kind \in {"fast_auth_ok", "fast_auth_fail", "auth_more"}
    <2>1. AuthMore(p) /\ UNCHANGED <<password, plugin, scramble>>
      BY <1>2, <1>5 DEF AuthRecv
    <2>2. CASE pc' = "failed"
      BY <1>1, <1>2, <1>3, <2>1, <2>2, StopsSafe DEF Stops, Outcomes, fixed
    <2>3. CASE pc' # "failed"
      <3>1. /\ SecureEnough /\ pc' \in {"more_recv", "more_send"}
            /\ pc' = "more_send" => p.kind = "fast_auth_fail"
        BY <2>1, <2>3 DEF AuthMore, Fail
      <3>2. QED
        BY <1>1, <1>3, <2>1, <3>1, GoesOnSafe DEF p
    <2>4. QED
      BY <2>2, <2>3
  <1>6. CASE p.kind = "switch"
    <2>1. AuthSwitch(p) /\ UNCHANGED password
      BY <1>2, <1>6 DEF AuthRecv
    <2>2. plugin' \in Plugins /\ scramble' \in 0..2
      BY <1>3, <1>4, <2>1 DEF AuthSwitch, Supported, Plugins
    <2>3. CASE pc' = "failed"
      BY <1>1, <1>2, <1>3, <2>1, <2>2, <2>3, StopsSafe DEF Stops, Outcomes, fixed
    <2>4. CASE pc' # "failed"
      <3>1. pc' = "switch_send" /\ pc = "auth_recv" /\ plugin' \in Supported
        BY <2>1, <2>4 DEF AuthSwitch, Fail
      <3>2. QED
        BY <1>1, <1>6, <2>1, <2>2, <3>1, GoesOnSafe DEF p
    <2>5. QED
      BY <2>3, <2>4
  <1>7. CASE p.kind \notin {"fast_auth_ok", "fast_auth_fail", "auth_more", "switch"}
    <2>1. ClearPassword /\ GenericResponse(p) /\ UNCHANGED <<plugin, scramble>>
      BY <1>2, <1>7 DEF AuthRecv
    <2>2. pc' \in Outcomes
      BY <2>1 DEF GenericResponse, Fail, Outcomes
    <2>3. sequence_number' \in 0..8 /\ plugin' \in Plugins /\ scramble' \in 0..2
      BY <1>2, <1>3, <2>1
    <2>4. Stops
      BY <1>1, <1>2, <2>1, <2>2, <2>3 DEF Stops, ClearPassword, fixed
    <2>5. QED
      BY <2>4, StopsSafe
  <1>8. QED
    BY <1>5, <1>6, <1>7

\* trilogy_auth_recv's last packet (client.c:488).
LEMMA MoreRecvSafe == ASSUME Safe, MoreRecv PROVE Safe'
  <1>1. Accept /\ pc = "more_recv" /\ pc \in Waiting
    BY DEF MoreRecv, Waiting
  <1>2. /\ s2c # <<>> /\ s2c' = Tail(s2c)
        /\ UNCHANGED <<opts, server, c2s, srv, used, tls, use_ssl>>
        /\ sequence_number' = sequence_number + 1
    BY <1>1, AcceptFacts
  <1>3. sequence_number \in 0..7 /\ plugin \in Plugins /\ scramble \in 0..2
    BY <1>1 DEF Safe, TypeOK, Steps
  <1>4. ClearPassword /\ GenericResponse(Head(s2c)) /\ UNCHANGED <<plugin, scramble>>
    BY DEF MoreRecv
  <1>5. pc' \in Outcomes
    BY <1>4 DEF GenericResponse, Fail, Outcomes
  <1>6. sequence_number' \in 0..8 /\ plugin' \in Plugins /\ scramble' \in 0..2
    BY <1>2, <1>3, <1>4
  <1>7. Stops
    BY <1>1, <1>2, <1>4, <1>5, <1>6 DEF Stops, ClearPassword, fixed
  <1>8. QED
    BY <1>7, StopsSafe

\* A failed read or write, or a timeout (client.c:72, cext.c:395).
LEMMA EndsSafe == ASSUME Safe, Broken \/ Timeout PROVE Safe'
  <1>1. /\ pc' = "failed"
        /\ UNCHANGED <<fixed, sequence_number, use_ssl, tls, password, plugin, scramble, used, c2s, s2c, srv>>
    BY DEF Broken, Timeout, Fail
  <1>2. sequence_number \in 0..8 /\ plugin \in Plugins /\ scramble \in 0..2
    BY DEF Safe, TypeOK
  <1>3. Stops
    BY <1>1, <1>2 DEF Stops, Outcomes
  <1>4. QED
    BY <1>3, StopsSafe

\* Steps of the server leave the client alone.
LEMMA ServerSafe ==
  ASSUME Safe, UNCHANGED <<fixed, clientVars>>, Types', Turns', Counts', Len(c2s') <= 1
  PROVE  Safe'
  <1>1. /\ opts' = opts /\ server' = server /\ pc' = pc /\ sequence_number' = sequence_number
        /\ use_ssl' = use_ssl /\ tls' = tls /\ password' = password /\ plugin' = plugin
        /\ scramble' = scramble /\ used' = used
    BY DEF fixed, clientVars
  <1>2. TypeOK' /\ Steps' /\ Secrets'
    BY <1>1 DEF Safe, TypeOK, Steps, Secrets
  <1>3. PasswordProtected' /\ WipedAfterUse'
    BY <1>1 DEF Safe, PasswordProtected, WipedAfterUse
  <1>4. QED
    BY <1>2, <1>3, SafeParts

\* What the server says first.
Greetings == {FromServer("handshake", server.default, 1)} \cup (IF server.peer = "any" THEN Anything ELSE {})

\* The handshake is on its way.
LEMMA GreetsFacts ==
  ASSUME Safe, ServerGreets
  PROVE  \E p \in Greetings : /\ srv'.seq = srv.seq /\ srv'.scramble = 1 /\ srv' \in SrvType
                              /\ srv'.todo = <<p>> /\ Len(srv'.todo) = 1
  <1>1. PICK p \in Greetings : srv' = [srv EXCEPT !.todo = <<p>>, !.scramble = 1]
    BY DEF ServerGreets, Greetings
  <1>2. p \in Reply
    <2>1. server.default \in Plugins \cup {"none"}
      BY AuthAssumption DEF Safe, Types
    <2>2. FromServer("handshake", server.default, 1) \in Reply
      BY <2>1, Speech
    <2>3. QED
      BY <2>2, AnythingType DEF Greetings
  <1> DEFINE t == <<p>>
  <1>3. t \in Seq(Reply) /\ Len(t) = 1
    BY <1>2
  <1>4. srv' = [srv EXCEPT !.seq = srv.seq, !.todo = t, !.scramble = 1] /\ srv.seq \in Nat /\ srv \in SrvType
    BY <1>1 DEF Safe, Types, SrvType
  <1> HIDE DEF t
  <1>5. 1 \in 0..2
    OBVIOUS
  <1>6. srv'.seq = srv.seq /\ srv'.todo = t /\ srv'.scramble = 1 /\ srv' \in SrvType
    BY <1>3, <1>4, <1>5, SrvStep
  <1>7. QED
    BY <1>3, <1>6 DEF t

\* The server greets.
LEMMA ServerGreetsSafe == ASSUME Safe, ServerGreets PROVE Safe'
  <1>1. /\ pc = "handshake" /\ srv.seq = 0 /\ srv.todo = <<>>
        /\ UNCHANGED <<fixed, clientVars, c2s, s2c>>
    BY DEF ServerGreets
  <1>3. srv'.seq = srv.seq /\ Len(srv'.todo) = 1 /\ srv' \in SrvType
    BY GreetsFacts
  <1>4. pc' = pc /\ c2s' = c2s /\ s2c' = s2c /\ opts' = opts /\ server' = server /\ sequence_number' = sequence_number
    BY <1>1 DEF fixed, clientVars
  <1>5. Types'
    BY <1>3, <1>4 DEF Safe, Types
  <1>6. c2s = <<>>
    BY <1>1 DEF Safe, Turns
  <1>7. Len(s2c) = 0
    <2>1. sequence_number = 0
      BY <1>1 DEF Safe, Steps
    <2>2. sequence_number = srv.seq - Len(s2c) + Len(c2s)
      BY <1>1 DEF Safe, Counts, Outcomes
    <2>3. Len(c2s) = 0 /\ Len(s2c) \in Nat
      BY <1>6, Empty DEF Safe, Types
    <2>4. QED
      BY <1>1, <2>1, <2>2, <2>3
  <1>8. Coming' = 1
    BY <1>3, <1>4, <1>7 DEF Coming
  <1>9. Turns'
    BY <1>1, <1>4, <1>6, <1>8 DEF Turns, Sending
  <1>10. Counts'
    BY <1>3, <1>4 DEF Safe, Counts
  <1>11. Len(c2s') <= 1
    BY <1>4 DEF Safe, TypeOK
  <1>12. QED
    BY <1>1, <1>5, <1>9, <1>10, <1>11, ServerSafe

\* What the server says to a command.
Responses(c) == IF server.peer = "any" THEN AnyReplies(c) ELSE Replies(c)

\* The command is read and its replies are on their way.
LEMMA ReadsFacts ==
  ASSUME Safe, ServerReads
  PROVE  /\ c2s # <<>> /\ c2s[1] \in Command /\ c2s' \in Seq(Command) /\ c2s' = <<>>
         /\ \E r \in Responses(c2s[1]) :
              /\ GoodReplies(r)
              /\ srv'.seq = c2s[1].seq + 1 /\ srv'.todo = r /\ srv' \in SrvType
              /\ srv'.scramble = IF r # <<>> /\ r[1].kind = "switch" THEN 2 ELSE srv.scramble
  <1> DEFINE c == c2s[1]
  <1>1. /\ Head(c2s) = c /\ c \in Command /\ c2s' \in Seq(Command) /\ c2s' = <<>> /\ c2s # <<>>
    <2>1. c2s \in Seq(Command) /\ Len(c2s) <= 1 /\ c2s # <<>> /\ c2s' = Tail(c2s)
      BY DEF Safe, Types, TypeOK, ServerReads
    <2>2. /\ Head(c2s) = c2s[1] /\ c2s[1] \in Command
          /\ Tail(c2s) \in Seq(Command) /\ Len(c2s) \in Nat /\ Len(c2s) >= 1 /\ Len(Tail(c2s)) = Len(c2s) - 1
      BY <2>1, Taken
    <2>3. Tail(c2s) = <<>>
      BY <2>1, <2>2, Empty
    <2>4. QED
      BY <2>1, <2>2, <2>3
  <1>2. PICK r \in Responses(c) :
          srv' = [srv EXCEPT !.seq = c.seq + 1, !.todo = r,
                             !.scramble = IF r # <<>> /\ r[1].kind = "switch" THEN 2 ELSE @]
    BY <1>1 DEF ServerReads, Responses
  <1>3. GoodReplies(r)
    <2>1. r \in AnyReplies(c) \/ r \in Replies(c)
      BY <1>2 DEF Responses
    <2>2. QED
      BY <2>1, AnyRepliesType, RepliesType DEF Safe
  <1>4. c.seq + 1 \in Nat
    BY <1>1 DEF Command
  <1> HIDE DEF c
  <1> DEFINE n == IF r # <<>> /\ r[1].kind = "switch" THEN 2 ELSE srv.scramble
  <1>5. srv \in SrvType /\ srv.scramble \in 0..2 /\ r \in Seq(Reply)
    BY <1>3 DEF Safe, Types, SrvType, GoodReplies
  <1>6. n \in 0..2 /\ srv' = [srv EXCEPT !.seq = c.seq + 1, !.todo = r, !.scramble = n]
    BY <1>2, <1>5
  <1> HIDE DEF n
  <1>7. srv'.seq = c.seq + 1 /\ srv'.todo = r /\ srv'.scramble = n /\ srv' \in SrvType
    BY <1>4, <1>5, <1>6, SrvStep
  <1>8. QED
    BY <1>1, <1>2, <1>3, <1>7 DEF c, n

\* The server reads a command, whose number it expects.
LEMMA ServerReadsSafe == ASSUME Safe, ServerReads PROVE Safe'
  <1> DEFINE c == c2s[1]
  <1>1. /\ c2s # <<>> /\ srv.todo = <<>> /\ UNCHANGED <<fixed, clientVars, s2c>>
    BY DEF ServerReads
  <1>2. c \in Command /\ c2s' \in Seq(Command) /\ c2s' = <<>>
    BY ReadsFacts
  <1>3. PICK r \in Responses(c) :
          GoodReplies(r) /\ srv'.seq = c.seq + 1 /\ srv'.todo = r /\ srv' \in SrvType
    BY ReadsFacts
  <1>4. c.seq \in Nat
    BY <1>2 DEF Command
  <1>5. c.kind = "ssl_request" => r = <<>>
    BY <1>3 DEF Responses, AnyReplies, Replies
  <1> HIDE DEF c
  <1>8. pc' = pc /\ s2c' = s2c /\ opts' = opts /\ server' = server /\ sequence_number' = sequence_number
    BY <1>1 DEF fixed, clientVars
  <1>9. Types'
    BY <1>2, <1>3, <1>8 DEF Safe, Types
  <1>10. s2c = <<>> /\ Len(s2c) = 0 /\ Len(srv.todo) = 0
    <2>1. Coming = 0 /\ Len(s2c) \in Nat /\ Len(srv.todo) \in Nat
      BY <1>1, Empty DEF Safe, Turns, Types, SrvType
    <2>2. Len(s2c) = 0 /\ Len(srv.todo) = 0
      BY <2>1 DEF Coming
    <2>3. QED
      BY <2>2, Empty DEF Safe, Types
  <1>11. Len(r) \in Nat /\ Len(r) <= 2 /\ (Len(r) = 2 => r[1].kind = "fast_auth_ok") /\ (r = <<>> => Len(r) = 0)
    BY <1>3, Empty DEF GoodReplies
  <1>12. Coming' = Len(r) /\ First' = r[1]
    BY <1>3, <1>8, <1>10, <1>11 DEF Coming, First
  <1>13. Turns'
    <2>1. /\ pc \notin Sending \cup {"start", "handshake"}
          /\ pc = "upgrade" => c.kind = "ssl_request"
      BY <1>1 DEF Safe, Turns, c
    <2>2. QED
      BY <1>2, <1>5, <1>8, <1>11, <1>12, <2>1 DEF Turns
  <1>14. Counts'
    <2>1. Len(c2s) = 1
      BY <1>1, Single DEF Safe, Types, TypeOK
    <2>2. pc \notin Outcomes => sequence_number = srv.seq + Len(c2s)
      <3>1. pc \notin Outcomes => sequence_number = srv.seq - Len(s2c) + Len(c2s)
        BY DEF Safe, Counts
      <3>2. srv.seq \in Nat
        BY DEF Safe, Types, SrvType
      <3>3. QED
        BY <1>10, <2>1, <3>1, <3>2
    <2>3. c.seq = srv.seq
      BY <1>1 DEF Safe, Counts, c
    <2>4. Len(c2s') = 0
      BY <1>2
    <2>5. sequence_number \in Nat
      BY DEF Safe, TypeOK
    <2>6. QED
      BY <1>2, <1>3, <1>4, <1>8, <1>10, <2>1, <2>2, <2>3, <2>4, <2>5 DEF Counts
  <1>15. Len(c2s') <= 1
    BY <1>2
  <1>16. QED
    BY <1>1, <1>9, <1>13, <1>14, <1>15, ServerSafe

\* One reply moves from the server's todo to the socket.
LEMMA SendsFacts ==
  ASSUME Safe, ServerSends
  PROVE  /\ s2c' \in Seq(Packet) /\ s2c' # <<>> /\ Len(s2c) \in Nat /\ Len(s2c') = Len(s2c) + 1
         /\ \A i \in 1..Len(s2c) : s2c'[i] = s2c[i]
         /\ s2c'[Len(s2c) + 1].kind = srv.todo[1].kind
         /\ s2c'[Len(s2c) + 1].plugin = srv.todo[1].plugin
         /\ s2c'[Len(s2c) + 1].scramble = srv.todo[1].scramble
         /\ s2c'[Len(s2c) + 1].seq = srv.seq
         /\ Len(srv.todo) \in Nat /\ Len(srv.todo) >= 1 /\ Len(srv'.todo) = Len(srv.todo) - 1
         /\ \A i \in 1..Len(srv'.todo) : srv'.todo[i] = srv.todo[i + 1]
         /\ srv'.seq = srv.seq + 1 /\ srv.seq \in Nat /\ srv'.scramble = srv.scramble /\ srv' \in SrvType
  <1> DEFINE p == srv.todo[1]
             q == [kind |-> p.kind, plugin |-> p.plugin, scramble |-> p.scramble, seq |-> srv.seq]
  <1>1. /\ srv.todo # <<>> /\ s2c' = Append(s2c, q)
        /\ srv' = [srv EXCEPT !.seq = @ + 1, !.todo = Tail(@)]
        /\ UNCHANGED <<fixed, clientVars, c2s>>
    <2>1. Head(srv.todo) = srv.todo[1]
      BY Taken DEF Safe, Types, SrvType, ServerSends
    <2>2. QED
      BY <2>1 DEF ServerSends
  <1>2. /\ srv \in SrvType /\ srv.todo \in Seq(Reply) /\ srv.seq \in Nat
        /\ s2c \in Seq(Packet) /\ Len(s2c) \in Nat
    BY Empty DEF Safe, Types, SrvType
  <1>3. /\ p \in Reply /\ Tail(srv.todo) \in Seq(Reply)
        /\ Len(srv.todo) \in Nat /\ Len(srv.todo) >= 1 /\ Len(Tail(srv.todo)) = Len(srv.todo) - 1
        /\ \A i \in 1..Len(Tail(srv.todo)) : Tail(srv.todo)[i] = srv.todo[i + 1]
    BY <1>1, <1>2, Taken
  <1>4. q \in Packet /\ q.kind = p.kind /\ q.plugin = p.plugin /\ q.scramble = p.scramble /\ q.seq = srv.seq
    BY <1>2, <1>3 DEF Packet, Reply
  <1> HIDE DEF p, q
  <1>5. /\ s2c' \in Seq(Packet) /\ s2c' # <<>> /\ Len(s2c') = Len(s2c) + 1
        /\ s2c'[Len(s2c) + 1] = q /\ \A i \in 1..Len(s2c) : s2c'[i] = s2c[i]
    BY <1>1, <1>2, <1>4, Appended
  <1>6. srv'.seq = srv.seq + 1 /\ srv'.todo = Tail(srv.todo) /\ srv'.scramble = srv.scramble /\ srv' \in SrvType
    <2>1. srv' = [srv EXCEPT !.seq = srv.seq + 1, !.todo = Tail(srv.todo), !.scramble = srv.scramble]
      BY <1>1, <1>2 DEF SrvType
    <2>2. srv.seq + 1 \in Nat /\ srv.scramble \in 0..2
      BY <1>2 DEF SrvType
    <2>3. QED
      BY <1>2, <1>3, <2>1, <2>2, SrvStep
  <1>7. Len(srv'.todo) = Len(srv.todo) - 1 /\ \A i \in 1..Len(srv'.todo) : srv'.todo[i] = srv.todo[i + 1]
    BY <1>3, <1>6
  <1>8. QED
    BY <1>2, <1>3, <1>4, <1>5, <1>6, <1>7 DEF p

\* The server sends a reply, numbered as the client expects it.
LEMMA ServerSendsSafe == ASSUME Safe, ServerSends PROVE Safe'
  <1>1. UNCHANGED <<fixed, clientVars, c2s>>
    BY DEF ServerSends
  <1>2. Len(srv.todo) \in Nat /\ Len(srv.todo) >= 1 /\ Len(srv'.todo) = Len(srv.todo) - 1
    BY SendsFacts
  <1>5. /\ s2c' \in Seq(Packet) /\ s2c' # <<>> /\ Len(s2c) \in Nat /\ Len(s2c') = Len(s2c) + 1
        /\ \A i \in 1..Len(s2c) : s2c'[i] = s2c[i]
        /\ s2c'[Len(s2c) + 1].kind = srv.todo[1].kind /\ s2c'[Len(s2c) + 1].seq = srv.seq
    BY SendsFacts
  <1>6. srv'.seq = srv.seq + 1 /\ srv.seq \in Nat /\ srv' \in SrvType
    BY SendsFacts
  <1>7. pc' = pc /\ c2s' = c2s /\ opts' = opts /\ server' = server /\ sequence_number' = sequence_number
    BY <1>1 DEF fixed, clientVars
  <1>8. Types'
    BY <1>5, <1>6, <1>7 DEF Safe, Types
  <1>9. Coming' = Coming
    <2>1. Coming' = Len(s2c') + Len(srv'.todo) /\ Coming = Len(s2c) + Len(srv.todo)
      BY DEF Coming
    <2>2. Len(s2c') + Len(srv'.todo) = Len(s2c) + Len(srv.todo)
      <3> DEFINE a == Len(srv.todo)
                 b == Len(srv'.todo)
                 m == Len(s2c)
                 n == Len(s2c')
      <3>1. b = a - 1 /\ n = m + 1 /\ m \in Nat /\ a \in Nat
        BY <1>2, <1>5
      <3> HIDE DEF a, b, m, n
      <3>2. n + b = m + a
        BY <3>1
      <3>3. QED
        BY <3>2 DEF a, b, m, n
    <2>3. QED
      BY <2>1, <2>2
  <1>10. c2s = <<>>
    BY <1>2, <1>5 DEF Safe, Turns, Coming
  <1>11. First'.kind = First.kind
    <2>1. First' = s2c'[1]
      BY <1>5 DEF First
    <2>2. CASE s2c = <<>>
      <3>1. First = srv.todo[1] /\ Len(s2c) = 0
        BY <2>2 DEF First
      <3>2. QED
        BY <1>5, <2>1, <3>1
    <2>3. CASE s2c # <<>>
      <3>1. 1 \in 1..Len(s2c)
        BY <2>3, Empty DEF Safe, Types
      <3>2. QED
        BY <1>5, <2>1, <2>3, <3>1 DEF First
    <2>4. QED
      BY <2>2, <2>3
  <1>12. Turns'
    BY <1>7, <1>9, <1>10, <1>11 DEF Safe, Turns
  <1>13. Counts'
    <2>1. ASSUME pc \notin Outcomes
          PROVE  /\ sequence_number = srv'.seq - Len(s2c') + Len(c2s')
                 /\ \A i \in 1..Len(s2c') : s2c'[i].seq = sequence_number + i - 1
      <3>1. /\ sequence_number = srv.seq - Len(s2c) + Len(c2s)
            /\ \A i \in 1..Len(s2c) : s2c[i].seq = sequence_number + i - 1
        BY <2>1 DEF Safe, Counts
      <3>2. Len(c2s) = 0 /\ sequence_number \in Nat
        BY <1>10 DEF Safe, TypeOK
      <3>3. s2c'[Len(s2c) + 1].seq = srv.seq
        BY <1>5
      <3>4. ASSUME NEW i \in 1..Len(s2c') PROVE s2c'[i].seq = sequence_number + i - 1
        <4>1. CASE i = Len(s2c) + 1
          BY <1>5, <1>6, <3>1, <3>2, <3>3, <4>1
        <4>2. CASE i # Len(s2c) + 1
          <5>1. i \in 1..Len(s2c)
            BY <1>5, <4>2
          <5>2. QED
            BY <1>5, <3>1, <5>1
        <4>3. QED
          BY <4>1, <4>2
      <3>5. QED
        BY <1>5, <1>6, <1>7, <3>1, <3>2, <3>4
    <2>2. QED
      BY <1>7, <1>10, <2>1 DEF Counts
  <1>14. Len(c2s') <= 1
    BY <1>7 DEF Safe, TypeOK
  <1>15. QED
    BY <1>1, <1>8, <1>12, <1>13, <1>14, ServerSafe

\* The server goes away; what it has sent can still be read.
LEMMA ServerClosesSafe == ASSUME Safe, ServerCloses PROVE Safe'
  <1>1. /\ pc # "start" /\ srv' = [srv EXCEPT !.closed = TRUE, !.todo = <<>>]
        /\ UNCHANGED <<fixed, clientVars, c2s, s2c>>
    BY DEF ServerCloses
  <1>2. /\ srv \in SrvType /\ Len(srv.todo) \in Nat /\ Len(s2c) \in Nat
        /\ (s2c = <<>> <=> Len(s2c) = 0)
    BY Empty DEF Safe, Types, SrvType
  <1>3. srv'.seq = srv.seq /\ srv'.todo = <<>> /\ srv' \in SrvType /\ Len(srv'.todo) = 0
    <2> DEFINE t == <<>>
    <2>1. t \in Seq(Reply) /\ Len(t) = 0 /\ srv' = [srv EXCEPT !.closed = TRUE, !.todo = t]
      BY <1>1
    <2> HIDE DEF t
    <2>2. srv'.seq = srv.seq /\ srv'.todo = t /\ srv' \in SrvType
      BY <1>2, <2>1 DEF SrvType
    <2>3. QED
      BY <2>1, <2>2 DEF t
  <1>4. /\ pc' = pc /\ c2s' = c2s /\ s2c' = s2c /\ opts' = opts /\ server' = server
        /\ sequence_number' = sequence_number
    BY <1>1 DEF fixed, clientVars
  <1>5. Types'
    BY <1>3, <1>4 DEF Safe, Types
  <1>6. Coming' = Len(s2c) /\ Coming = Len(s2c) + Len(srv.todo)
    BY <1>2, <1>3, <1>4 DEF Coming
  <1>7. Len(s2c) = 2 => First' = First /\ Coming = 2
    BY <1>2, <1>4, <1>6 DEF First, Safe, Turns
  <1>8. Turns'
    BY <1>2, <1>4, <1>6, <1>7 DEF Safe, Turns
  <1>9. Counts'
    BY <1>3, <1>4 DEF Safe, Counts
  <1>10. Len(c2s') <= 1
    BY <1>4 DEF Safe, TypeOK
  <1>11. QED
    BY <1>1, <1>5, <1>8, <1>9, <1>10, ServerSafe

-----------------------------------------------------------------------------
(* The right password *)

\* Options and account stay as they are, so it stays the right server.
LEMMA RightStays ==
  ASSUME UNCHANGED <<opts, server>> PROVE RightServer' <=> RightServer
  BY DEF RightServer

\* A call that ends has ended well, or with an excuse.
LEMMA EndsRight ==
  ASSUME UNCHANGED <<opts, server>>, pc' \in Outcomes, RightServer /\ pc' = "failed" => Excused'
  PROVE  Right'
  <1>1. Agreement'
    BY DEF Agreement, Fits, Awaits, Outcomes
  <1>2. RightPasswordConnects'
    BY DEF RightPasswordConnects, RightServer, Excused
  <1>3. QED
    BY <1>1, <1>2 DEF Right

\* A call that goes on only has to keep to the agreement.
LEMMA GoesOnRight ==
  ASSUME UNCHANGED <<opts, server>>, pc' # "failed", RightServer => Agreement'
  PROVE  Right'
  BY RightStays DEF Right, RightPasswordConnects

\* Nothing is on its way back.
LEMMA Quiet ==
  ASSUME Safe, Coming = 0
  PROVE  s2c = <<>> /\ srv.todo = <<>> /\ Len(s2c) = 0 /\ Len(srv.todo) = 0
  <1>1. Len(s2c) \in Nat /\ Len(srv.todo) \in Nat /\ (s2c = <<>> <=> Len(s2c) = 0) /\ (srv.todo = <<>> <=> Len(srv.todo) = 0)
    BY Empty DEF Safe, Types, SrvType
  <1>2. Len(s2c) = 0 /\ Len(srv.todo) = 0
    BY <1>1 DEF Coming
  <1>3. QED
    BY <1>1, <1>2

\* With nothing on its way back the agreement is about the command sent.
LEMMA QuietAgreement ==
  ASSUME Safe', Coming' = 0,
         c2s' # <<>> => Awaits(c2s[1])',
         pc' \in {"ssl_request", "upgrade", "auth_send", "switch_send"} => scramble' = srv'.scramble,
         pc' \in {"auth_recv", "switch_recv"} /\ c2s' # <<>> => scramble' = srv'.scramble,
         pc' \in {"switch_send", "switch_recv"} => plugin' = server'.plugin
  PROVE  Agreement'
  <1>1. Len(s2c') = 0 /\ Len(srv'.todo) = 0
    <2>1. Len(s2c') \in Nat /\ Len(srv'.todo) \in Nat
      BY Empty DEF Safe, Types, SrvType
    <2>2. QED
      BY <2>1 DEF Coming
  <1>2. QED
    BY <1>1 DEF Agreement

\* try_connect: no server answers, or there is a handshake to wait for.
LEMMA ConnectRight == ASSUME Safe, Safe', Right, Connect PROVE Right'
  <1>1. pc = "start" /\ UNCHANGED <<opts, server, c2s, s2c, srv>>
    BY DEF Connect, fixed
  <1>2. CASE pc' = "failed"
    <2>1. rc' = "SYSERR"
      BY <1>2 DEF Connect, Fail
    <2>2. QED
      BY <1>1, <1>2, <2>1, EndsRight DEF Excused, Outcomes
  <1>3. CASE pc' = "handshake"
    <2>1. Coming' = 0 /\ c2s' = <<>>
      BY <1>1 DEF Safe, Turns, Coming
    <2>2. Agreement'
      BY <1>3, <2>1, QuietAgreement
    <2>3. QED
      BY <1>1, <1>3, <2>2, GoesOnRight
  <1>4. QED
    BY <1>2, <1>3 DEF Connect, Fail

\* A conforming server greets; only the want of TLS ends the call (cext.c:558).
LEMMA ConnectRecvRight == ASSUME Safe, Safe', Right, ConnectRecv PROVE Right'
  <1> DEFINE p == s2c[1]
  <1>1. pc = "handshake" /\ pc \in Waiting /\ Accept
    BY DEF ConnectRecv, Waiting
  <1>2. /\ Head(s2c) = p /\ Len(s2c) \in 1..2 /\ Coming' = Coming - 1 /\ Coming \in 1..2
        /\ c2s = <<>> /\ UNCHANGED <<opts, server, c2s, srv>>
    BY <1>1, AcceptFacts
  <1>3. Coming' = 0
    BY <1>1, <1>2 DEF Safe, Turns
  <1>4. pc' \in {"failed", "auth_send", "ssl_request"}
    BY DEF ConnectRecv, Authenticate, Fail
  <1>5. CASE ~RightServer
    <2>1. CASE pc' = "failed"
      BY <1>2, <1>5, <2>1, EndsRight DEF Outcomes
    <2>2. CASE pc' # "failed"
      BY <1>2, <1>5, <2>2, GoesOnRight
    <2>3. QED
      BY <2>1, <2>2
  <1>6. CASE RightServer
    <2>1. p.kind = "handshake" /\ p.scramble = srv.scramble
      <3>1. 1 \in 1..Len(s2c)
        BY <1>2
      <3>2. QED
        BY <1>1, <1>6, <3>1 DEF Right, Agreement, Fits
    <2> HIDE DEF p
    <2>2. scramble' = p.scramble /\ Authenticate
      BY <1>2, <2>1 DEF ConnectRecv
    <2>3. CASE pc' = "failed"
      <3>1. opts.ssl_mode \in AllModes /\ server.ssl \in BOOLEAN
        BY AuthAssumption DEF Safe, Types
      <3>2. rc' = "SSL_REQUIRED" /\ opts.ssl_mode = "required" /\ ~server.ssl
        BY <2>2, <2>3, <3>1 DEF Authenticate, Fail, AllModes
      <3>3. QED
        BY <1>2, <2>3, <3>2, EndsRight DEF Excused, Outcomes
    <2>4. CASE pc' # "failed"
      <3>1. Agreement'
        BY <1>2, <1>3, <1>4, <2>1, <2>2, <2>4, QuietAgreement
      <3>2. QED
        BY <1>2, <2>4, <3>1, GoesOnRight
    <2>5. QED
      BY <2>3, <2>4
  <1>7. QED
    BY <1>5, <1>6

\* The only packet on its way is the one just sent.
LEMMA Sent ==
  ASSUME Safe, pc \in Sending, UNCHANGED <<s2c, srv>>,
         NEW kind, NEW plug, NEW a, BeginPhase(kind, plug, a)
  PROVE  /\ Coming' = 0 /\ srv' = srv
         /\ c2s'[1].kind = kind /\ c2s'[1].plugin = plug /\ c2s'[1].answer = a
  <1> DEFINE e == [kind |-> kind, plugin |-> plug, answer |-> a, seq |-> sequence_number]
  <1>1. c2s = <<>> /\ Coming = 0
    BY DEF Safe, Turns, Sending
  <1>2. Coming' = 0
    BY <1>1 DEF Coming
  <1>3. c2s' = Append(<<>>, e)
    BY <1>1 DEF BeginPhase
  <1>4. e.kind = kind /\ e.plugin = plug /\ e.answer = a
    OBVIOUS
  <1> HIDE DEF e
  <1>5. Append(<<>>, e)[1] = e
    OBVIOUS
  <1>6. QED
    BY <1>2, <1>3, <1>4, <1>5

\* The request for TLS is what the server then waits for.
LEMMA SslRequestSendRight == ASSUME Safe, Safe', Right, SslRequestSend PROVE Right'
  <1>1. /\ pc = "ssl_request" /\ pc' = "upgrade" /\ BeginPhase("ssl_request", "none", <<>>)
        /\ UNCHANGED <<opts, server, scramble, s2c, srv>>
    BY DEF SslRequestSend, fixed
  <1>2. Coming' = 0 /\ c2s'[1].kind = "ssl_request"
    BY <1>1, Sent DEF Sending
  <1>3. ASSUME RightServer PROVE Agreement'
    <2>1. Awaits(c2s[1])'
      BY <1>1, <1>2 DEF Awaits
    <2>2. scramble = srv.scramble
      BY <1>1, <1>3 DEF Right, Agreement
    <2>3. QED
      BY <1>1, <1>2, <2>1, <2>2, QuietAgreement
  <1>4. QED
    BY <1>1, <1>3, GoesOnRight

\* The scramble outlives the upgrade.
LEMMA UpgradeSslRight == ASSUME Safe, Safe', Right, UpgradeSsl PROVE Right'
  <1>1. pc = "upgrade" /\ UNCHANGED <<opts, server, scramble, c2s, s2c, srv>>
    BY DEF UpgradeSsl, fixed
  <1>2. CASE pc' = "failed"
    <2>1. rc' = "OPENSSL_ERR"
      BY <1>2 DEF UpgradeSsl, Fail
    <2>2. QED
      BY <1>1, <1>2, <2>1, EndsRight DEF Excused, Outcomes
  <1>3. CASE pc' = "auth_send"
    <2>1. c2s' = <<>> /\ Coming' = 0
      BY <1>1, <1>3 DEF UpgradeSsl, Fail, Safe, Turns, Coming
    <2>2. ASSUME RightServer PROVE Agreement'
      <3>1. scramble' = srv'.scramble
        BY <1>1, <2>2 DEF Right, Agreement
      <3>2. QED
        BY <1>3, <2>1, <3>1, QuietAgreement
    <2>3. QED
      BY <1>1, <1>3, <2>2, GoesOnRight
  <1>4. QED
    BY <1>2, <1>3 DEF UpgradeSsl, Fail

\* The login proves the password to the plugin it names.
LEMMA AuthSendRight == ASSUME Safe, Safe', Right, AuthSend PROVE Right'
  <1>1. /\ pc = "auth_send" /\ pc' = "auth_recv"
        /\ BeginPhase("login", LoginPlugin, Answer(LoginPlugin, scramble, password))
        /\ UNCHANGED <<opts, server, password, scramble, s2c, srv>>
    BY DEF AuthSend, fixed
  <1>2. /\ Coming' = 0 /\ c2s'[1].kind = "login" /\ c2s'[1].plugin = LoginPlugin
        /\ c2s'[1].answer = Answer(LoginPlugin, scramble, password)
    BY <1>1, Sent DEF Sending
  <1>3. ASSUME RightServer PROVE Agreement'
    <2>1. Awaits(c2s[1])'
      BY <1>1, <1>2 DEF Awaits
    <2>2. scramble = srv.scramble
      BY <1>1, <1>3 DEF Right, Agreement
    <2>3. QED
      BY <1>1, <1>2, <2>1, <2>2, QuietAgreement
  <1>4. QED
    BY <1>1, <1>3, GoesOnRight

\* The second answer is for the plugin and the scramble of the switch.
LEMMA SwitchSendRight == ASSUME Safe, Safe', Right, SwitchSend PROVE Right'
  <1>1. /\ pc = "switch_send"
        /\ UNCHANGED <<opts, server, password, plugin, scramble, s2c, srv>>
    BY DEF SwitchSend, fixed
  <1>2. RightServer => plugin = server.plugin /\ scramble = srv.scramble
    BY <1>1 DEF Right, Agreement
  <1>3. CASE plugin = "clear" /\ password # "" /\ ~opts.cleartext
    <2>1. pc' = "failed" /\ rc' = "AUTH_PLUGIN_ERROR"
      BY <1>3 DEF SwitchSend, Fail
    <2>2. RightServer => Excused'
      BY <1>1, <1>2, <1>3, <2>1 DEF Excused
    <2>3. QED
      BY <1>1, <2>1, <2>2, EndsRight DEF Outcomes
  <1>4. CASE ~(plugin = "clear" /\ password # "" /\ ~opts.cleartext)
    <2>1. BeginPhase("answer", "none", Answer(plugin, scramble, password)) /\ pc' = "switch_recv"
      BY <1>4 DEF SwitchSend
    <2>2. Coming' = 0 /\ c2s'[1].kind = "answer" /\ c2s'[1].answer = Answer(plugin, scramble, password)
      BY <1>1, <2>1, Sent DEF Sending
    <2>3. ASSUME RightServer PROVE Agreement'
      <3>1. Awaits(c2s[1])'
        BY <1>1, <1>2, <2>1, <2>2, <2>3 DEF Awaits
      <3>2. QED
        BY <1>1, <1>2, <2>1, <2>2, <2>3, <3>1, QuietAgreement
    <2>4. QED
      BY <1>1, <2>1, <2>3, GoesOnRight
  <1>5. QED
    BY <1>3, <1>4

\* The password itself is what caching_sha2_password asked for.
LEMMA SecretSendRight == ASSUME Safe, Safe', Right, SecretSend PROVE Right'
  <1>1. /\ pc = "more_send" /\ pc' = "more_recv" /\ BeginPhase("secret", "none", Answer("clear", 0, password))
        /\ UNCHANGED <<opts, server, password, s2c, srv>>
    BY DEF SecretSend, fixed
  <1>2. Coming' = 0 /\ c2s'[1].kind = "secret" /\ c2s'[1].answer = Answer("clear", 0, password)
    BY <1>1, Sent DEF Sending
  <1>3. Awaits(c2s[1])'
    BY <1>1, <1>2 DEF Awaits
  <1>4. Agreement'
    BY <1>1, <1>2, <1>3, QuietAgreement
  <1>5. QED
    BY <1>1, <1>4, GoesOnRight

\* A packet that the parser takes is the next one, and after the first of two
\* there is the second.
LEMMA AcceptRight ==
  ASSUME Safe, Accept, pc \in Waiting, RightServer, Agreement
  PROVE  /\ Fits(s2c[1])
         /\ Coming = 1 => Coming' = 0
         /\ pc \in {"auth_recv", "switch_recv"} =>
              /\ \A i \in 1..Len(s2c') : s2c'[i].kind = "ok"
              /\ \A i \in 1..Len(srv.todo) : srv.todo[i].kind = "ok"
  <1>1. /\ Len(s2c) \in 1..2 /\ Len(s2c') = Len(s2c) - 1 /\ Len(srv.todo) \in Nat
        /\ \A i \in 1..Len(s2c') : s2c'[i] = s2c[i + 1]
        /\ Coming \in 1..2 /\ Coming' = Coming - 1
    BY AcceptFacts
  <1>2. Fits(s2c[1])
    <2>1. 1 \in 1..Len(s2c)
      BY <1>1
    <2>2. QED
      BY <2>1 DEF Agreement
  <1>3. Coming = 1 => Coming' = 0
    BY <1>1
  <1>4. Coming = Len(s2c) + Len(srv.todo)
    BY DEF Coming
  <1>5. ASSUME pc \in {"auth_recv", "switch_recv"}, NEW i \in 1..Len(s2c')
        PROVE  s2c'[i].kind = "ok"
    <2>1. Len(s2c) = 2 /\ i = 1 /\ Coming = 2
      BY <1>1, <1>4
    <2>2. Second = s2c[2]
      BY <2>1 DEF Second
    <2>3. Second.kind = "ok"
      BY <1>5, <2>1 DEF Agreement
    <2>4. s2c'[1] = s2c[2]
      BY <1>1, <2>1
    <2>5. QED
      BY <2>1, <2>2, <2>3, <2>4
  <1>6. ASSUME pc \in {"auth_recv", "switch_recv"}, NEW i \in 1..Len(srv.todo)
        PROVE  srv.todo[i].kind = "ok"
    <2>1. Len(s2c) = 1 /\ i = 1 /\ Coming = 2
      BY <1>1, <1>4
    <2>2. Second = srv.todo[1]
      BY <2>1 DEF Second
    <2>3. Second.kind = "ok"
      BY <1>6, <2>1 DEF Agreement
    <2>4. QED
      BY <2>1, <2>2, <2>3
  <1>7. QED
    BY <1>2, <1>3, <1>5, <1>6

\* Whatever a conforming server replies to the right password leads on, or out
\* with an excuse (client.c:433-520).
LEMMA AuthRecvRight == ASSUME Safe, Safe', Right, AuthRecv PROVE Right'
  <1> DEFINE p == s2c[1]
  <1>1. Accept /\ pc \in {"auth_recv", "switch_recv"} /\ pc \in Waiting
    BY DEF AuthRecv, Waiting
  <1>2. /\ Head(s2c) = p /\ Coming \in 1..2 /\ c2s = <<>>
        /\ UNCHANGED <<opts, server, c2s, srv, use_ssl, tls>>
    BY <1>1, AcceptFacts
  <1>3. CASE ~RightServer
    <2>1. CASE pc' = "failed"
      BY <1>2, <1>3, <2>1, EndsRight DEF Outcomes
    <2>2. CASE pc' # "failed"
      BY <1>2, <1>3, <2>2, GoesOnRight
    <2>3. QED
      BY <2>1, <2>2
  <1>4. CASE RightServer
    <2>1. Agreement
      BY <1>4 DEF Right
    <2>2. /\ Fits(p) /\ (Coming = 1 => Coming' = 0)
          /\ \A i \in 1..Len(s2c') : s2c'[i].kind = "ok"
          /\ \A i \in 1..Len(srv.todo) : srv.todo[i].kind = "ok"
      BY <1>1, <1>4, <2>1, AcceptRight
    <2>3. Coming = 2 => p.kind = "fast_auth_ok"
      <3>1. First = s2c[1]
        BY <1>1 DEF First, Accept
      <3>2. QED
        BY <1>1, <3>1 DEF Safe, Turns
    <2> HIDE DEF p
    <2>4. CASE p.kind \in {"fast_auth_ok", "fast_auth_fail"}
      <3>1. AuthMore(p) /\ server.plugin = "sha2"
        BY <1>1, <1>2, <2>2, <2>4 DEF AuthRecv, Fits
      <3>2. CASE ~SecureEnough
        <4>1. pc' = "failed" /\ rc' = "UNSUPPORTED"
          BY <3>1, <3>2 DEF AuthMore, Fail
        <4>2. ~opts.unix /\ ~tls
          BY <3>2 DEF SecureEnough, Safe, Secrets
        <4>3. QED
          BY <1>2, <3>1, <4>1, <4>2, EndsRight DEF Excused, Outcomes
      <3>3. CASE SecureEnough /\ p.kind = "fast_auth_ok"
        <4>1. pc' = "more_recv"
          BY <3>1, <3>3 DEF AuthMore
        <4>2. /\ \A i \in 1..Len(s2c') : Fits(s2c[i])'
              /\ \A i \in 1..Len(srv'.todo) : Fits(srv.todo[i])'
          BY <1>2, <2>2, <4>1 DEF Fits
        <4>3. Agreement'
          BY <1>2, <4>1, <4>2 DEF Agreement
        <4>4. QED
          BY <1>2, <4>1, <4>3, GoesOnRight
      <3>4. CASE SecureEnough /\ p.kind = "fast_auth_fail"
        <4>1. pc' = "more_send"
          BY <3>1, <3>4 DEF AuthMore
        <4>2. Coming' = 0
          BY <1>2, <2>2, <2>3, <3>4
        <4>3. Agreement'
          BY <1>2, <4>1, <4>2, QuietAgreement
        <4>4. QED
          BY <1>2, <4>1, <4>3, GoesOnRight
      <3>5. QED
        BY <2>4, <3>2, <3>3, <3>4
    <2>5. CASE p.kind = "switch"
      <3>1. AuthSwitch(p) /\ pc = "auth_recv" /\ p.plugin = server.plugin /\ p.scramble = srv.scramble
        BY <1>1, <1>2, <2>2, <2>5 DEF AuthRecv, Fits
      <3>2. CASE p.plugin \in Supported
        <4>1. pc' = "switch_send" /\ plugin' = server.plugin /\ scramble' = srv.scramble
          BY <3>1, <3>2 DEF AuthSwitch
        <4>2. Coming' = 0
          BY <1>2, <2>2, <2>3, <2>5
        <4>3. Agreement'
          BY <1>2, <4>1, <4>2, QuietAgreement
        <4>4. QED
          BY <1>2, <4>1, <4>3, GoesOnRight
      <3>3. CASE p.plugin \notin Supported
        <4>1. pc' = "failed" /\ rc' = "PROTOCOL_VIOLATION"
          BY <3>1, <3>3 DEF AuthSwitch, Fail
        <4>2. server.plugin \in Plugins
          BY AuthAssumption DEF Safe, Types
        <4>3. server.plugin = "other"
          BY <3>1, <3>3, <4>2 DEF Plugins, Supported
        <4>4. QED
          BY <1>2, <4>1, <4>3, EndsRight DEF Excused, Outcomes
      <3>4. QED
        BY <3>2, <3>3
    <2>6. CASE p.kind = "ok"
      <3>1. pc' = "connected"
        BY <1>2, <2>6 DEF AuthRecv, GenericResponse
      <3>2. QED
        BY <1>2, <3>1, EndsRight DEF Outcomes
    <2>7. QED
      BY <1>1, <2>2, <2>4, <2>5, <2>6 DEF Fits
  <1>5. QED
    BY <1>3, <1>4

\* The last packet of the second round is an OK.
LEMMA MoreRecvRight == ASSUME Safe, Safe', Right, MoreRecv PROVE Right'
  <1>1. Accept /\ pc = "more_recv" /\ pc \in Waiting /\ GenericResponse(Head(s2c))
    BY DEF MoreRecv, Waiting
  <1>2. Head(s2c) = s2c[1] /\ UNCHANGED <<opts, server>>
    BY <1>1, AcceptFacts
  <1>3. pc' \in Outcomes
    BY <1>1 DEF GenericResponse, Fail, Outcomes
  <1>4. ASSUME RightServer PROVE pc' = "connected"
    <2>1. Fits(s2c[1])
      BY <1>1, <1>4, AcceptRight DEF Right
    <2>2. QED
      BY <1>1, <1>2, <2>1 DEF Fits, GenericResponse
  <1>5. QED
    BY <1>2, <1>3, <1>4, EndsRight

\* read_packet finds no wrong number (client.c:87): the network is to blame.
LEMMA EndsRightly == ASSUME Safe, Safe', Right, Broken \/ Timeout PROVE Right'
  <1>1. pc' = "failed" /\ UNCHANGED <<opts, server>>
    BY DEF Broken, Timeout, Fail, fixed
  <1>2. rc' \in {"INVALID_SEQUENCE_ID", "CLOSED_CONNECTION", "SYSERR", "TIMEOUT"}
    BY DEF Broken, Timeout, Fail
  <1>3. rc' = "INVALID_SEQUENCE_ID" => pc \in Waiting /\ s2c # <<>> /\ Head(s2c).seq # sequence_number
    BY DEF Broken, Timeout, Fail
  <1>4. rc' # "INVALID_SEQUENCE_ID"
    <2>1. SUFFICES ASSUME pc \in Waiting, s2c # <<>>, Head(s2c).seq # sequence_number PROVE FALSE
      BY <1>3
    <2>2. Head(s2c) = s2c[1] /\ 1 \in 1..Len(s2c)
      BY <2>1, Taken DEF Safe, Types
    <2>3. s2c[1].seq = sequence_number + 1 - 1
      BY <2>1, <2>2 DEF Safe, Counts, Waiting, Outcomes
    <2>4. sequence_number \in Nat
      BY DEF Safe, TypeOK
    <2>5. QED
      BY <2>1, <2>2, <2>3, <2>4
  <1>5. Excused'
    BY <1>2, <1>4 DEF Excused
  <1>6. QED
    BY <1>1, <1>5, EndsRight DEF Outcomes

\* A step of the server's: the call stays where it is.
LEMMA ServerRight ==
  ASSUME Safe, Right, UNCHANGED <<fixed, clientVars>>, RightServer /\ Agreement => Agreement'
  PROVE  Right'
  <1>1. /\ opts' = opts /\ server' = server /\ pc' = pc /\ rc' = rc /\ tls' = tls
    BY DEF fixed, clientVars
  <1>2. RightPasswordConnects'
    BY <1>1 DEF Right, RightPasswordConnects, Excused
  <1>3. QED
    BY <1>1, <1>2, RightStays DEF Right

\* The handshake carries the scramble the server remembers.
LEMMA ServerGreetsRight == ASSUME Safe, Safe', Right, ServerGreets PROVE Right'
  <1>1. pc = "handshake" /\ UNCHANGED <<fixed, clientVars, c2s, s2c>>
    BY DEF ServerGreets
  <1>2. /\ pc' = pc /\ server' = server /\ s2c' = s2c /\ c2s' = <<>>
    BY <1>1 DEF fixed, clientVars, Safe, Turns, Sending
  <1>3. PICK p \in Greetings : srv'.scramble = 1 /\ srv'.todo = <<p>> /\ Len(srv'.todo) = 1
    BY GreetsFacts
  <1>4. ASSUME RightServer, Agreement PROVE Agreement'
    <2>1. p = FromServer("handshake", server.default, 1)
      BY <1>3, <1>4 DEF Greetings, RightServer
    <2>2. srv'.todo[1] = p
      BY <1>3
    <2>3. Len(s2c') = 0
      <3>1. Len(s2c') \in Nat /\ Coming' <= 1 /\ Coming' = Len(s2c') + Len(srv'.todo)
        BY <1>1, <1>2, Empty DEF Safe, Turns, Types, Coming
      <3>2. QED
        BY <1>3, <3>1
    <2>4. Fits(srv.todo[1])'
      BY <1>1, <1>2, <1>3, <2>1, <2>2 DEF Fits, FromServer
    <2>5. \A i \in 1..Len(srv'.todo) : Fits(srv.todo[i])'
      <3>1. ASSUME NEW i \in 1..Len(srv'.todo) PROVE i = 1
        BY <1>3
      <3>2. QED
        BY <2>4, <3>1
    <2>6. QED
      BY <1>1, <1>2, <2>3, <2>5 DEF Agreement
  <1>5. QED
    BY <1>1, <1>4, ServerRight

\* A proof of the right password is accepted, or the password asked for.
LEMMA JudgeRight ==
  ASSUME NEW plug, NEW scr, NEW a, a = Answer(plug, scr, server.password), NEW r \in Judge(a, plug, scr)
  PROVE  \/ r = <<Ok>>
         \/ plug = "sha2" /\ r \in {<<More("fast_auth_fail")>>, <<More("fast_auth_ok"), Ok>>}
  <1>1. Verdict(a, plug, scr) = <<Ok>>
    BY DEF Verdict
  <1>2. QED
    BY <1>1 DEF Judge

\* What a conforming server answers to the right password.
LEMMA RepliesRight ==
  ASSUME Safe, RightServer, Agreement, c2s # <<>>, NEW r \in Replies(c2s[1])
  PROVE  /\ pc = "upgrade" => r = <<>>
         /\ pc \in {"auth_recv", "switch_recv"} =>
              \/ r = <<Ok>>
              \/ pc = "auth_recv" /\ r = <<FromServer("switch", server.plugin, 2)>>
              \/ /\ server.plugin = "sha2"
                 /\ r \in {<<More("fast_auth_fail")>>, <<More("fast_auth_ok"), Ok>>}
         /\ pc = "more_recv" => r = <<Ok>>
  <1> DEFINE c == c2s[1]
  <1>1. Awaits(c)
    BY DEF Agreement
  <1>2. pc \notin Outcomes => password = server.password
    BY DEF Safe, Secrets, RightServer
  <1>3. pc \in {"auth_recv", "switch_recv"} => scramble = srv.scramble
    BY DEF Agreement
  <1>4. r \in Replies(c) /\ server.default # "none"
    BY DEF RightServer
  <1> HIDE DEF c
  <1>5. CASE pc = "upgrade"
    BY <1>1, <1>4, <1>5 DEF Awaits, Replies
  <1>6. CASE pc = "auth_recv"
    <2>1. c.kind = "login" /\ c.answer = Answer(c.plugin, srv.scramble, server.password)
      BY <1>1, <1>2, <1>3, <1>6 DEF Awaits, Outcomes
    <2>2. CASE c.plugin # server.plugin
      BY <1>4, <1>6, <2>1, <2>2 DEF Replies
    <2>3. CASE c.plugin = server.plugin
      <3>1. r \in Judge(c.answer, server.plugin, srv.scramble)
        BY <1>4, <2>1, <2>3 DEF Replies
      <3>2. QED
        BY <1>6, <2>1, <2>3, <3>1, JudgeRight
    <2>4. QED
      BY <2>2, <2>3
  <1>7. CASE pc = "switch_recv"
    <2>1. c.kind = "answer" /\ c.answer = Answer(server.plugin, srv.scramble, server.password)
      BY <1>1, <1>2, <1>3, <1>7 DEF Awaits, Outcomes
    <2>2. r \in Judge(c.answer, server.plugin, srv.scramble)
      BY <1>4, <2>1 DEF Replies
    <2>3. QED
      BY <1>7, <2>1, <2>2, JudgeRight
  <1>8. CASE pc = "more_recv"
    <2>1. c.kind = "secret" /\ c.answer = Answer("clear", 0, server.password)
      BY <1>1, <1>2, <1>8 DEF Awaits, Outcomes
    <2>2. r = Verdict(c.answer, "clear", 0)
      BY <1>4, <2>1 DEF Replies
    <2>3. QED
      BY <1>8, <2>1, <2>2 DEF Verdict
  <1>9. CASE pc \notin {"upgrade", "auth_recv", "switch_recv", "more_recv"}
    BY <1>9
  <1>10. QED
    BY <1>5, <1>6, <1>7, <1>8, <1>9

\* The server finds the answer it computed itself.
LEMMA ServerReadsRight == ASSUME Safe, Safe', Right, ServerReads PROVE Right'
  <1>1. UNCHANGED <<fixed, clientVars, s2c>>
    BY DEF ServerReads
  <1>2. pc' = pc /\ server' = server /\ s2c' = s2c /\ scramble' = scramble /\ plugin' = plugin
    BY <1>1 DEF fixed, clientVars
  <1>3. c2s # <<>> /\ c2s' = <<>>
    BY ReadsFacts
  <1>4. PICK r \in Responses(c2s[1]) :
          /\ srv'.todo = r
          /\ srv'.scramble = IF r # <<>> /\ r[1].kind = "switch" THEN 2 ELSE srv.scramble
    BY ReadsFacts
  <1>5. s2c' = <<>> /\ Len(s2c') = 0
    <2>1. Coming = 0
      BY <1>3 DEF Safe, Turns
    <2>2. QED
      BY <1>2, <2>1, Quiet
  <1>6. ASSUME RightServer, Agreement PROVE Agreement'
    <2>1. r \in Replies(c2s[1])
      BY <1>4, <1>6 DEF Responses, RightServer
    <2>2. /\ pc = "upgrade" => r = <<>>
          /\ pc \in {"auth_recv", "switch_recv"} =>
              \/ r = <<Ok>>
              \/ pc = "auth_recv" /\ r = <<FromServer("switch", server.plugin, 2)>>
              \/ /\ server.plugin = "sha2"
                 /\ r \in {<<More("fast_auth_fail")>>, <<More("fast_auth_ok"), Ok>>}
          /\ pc = "more_recv" => r = <<Ok>>
      BY <1>3, <1>6, <2>1, RepliesRight
    <2>3. pc \notin Sending \cup {"start", "handshake"}
      BY <1>3 DEF Safe, Turns
    <2>4. pc \in {"upgrade", "auth_recv", "switch_recv", "more_recv"} \cup Outcomes
      BY <2>3 DEF Safe, TypeOK, Waiting
    <2>5. Ok.kind = "ok" /\ More("fast_auth_fail").kind = "fast_auth_fail" /\ More("fast_auth_ok").kind = "fast_auth_ok"
      BY DEF Ok, More, FromServer
    <2>6. /\ \A i \in 1..Len(r) : Fits(r[i])'
          /\ pc \in {"auth_recv", "switch_recv"} /\ Len(r) = 2 => r[2].kind = "ok"
      <3>1. CASE pc \in Outcomes
        BY <1>2, <3>1 DEF Fits, Outcomes
      <3>2. CASE pc = "upgrade"
        BY <2>2, <3>2
      <3>3. CASE r = <<Ok>> /\ pc \in {"auth_recv", "switch_recv", "more_recv"}
        <4>1. Len(r) = 1 /\ r[1] = Ok
          BY <3>3
        <4>2. Fits(r[1])'
          BY <1>2, <2>5, <3>3, <4>1 DEF Fits
        <4>3. ASSUME NEW i \in 1..Len(r) PROVE i = 1
          BY <4>1
        <4>4. QED
          BY <4>1, <4>2, <4>3
      <3>4. CASE pc = "auth_recv" /\ r = <<FromServer("switch", server.plugin, 2)>>
        <4> DEFINE q == FromServer("switch", server.plugin, 2)
        <4>1. Len(r) = 1 /\ r[1] = q /\ r # <<>>
          BY <3>4
        <4>2. q.kind = "switch" /\ q.plugin = server.plugin /\ q.scramble = 2
          BY DEF FromServer
        <4> HIDE DEF q
        <4>3. srv'.scramble = 2
          BY <1>4, <4>1, <4>2
        <4>4. Fits(r[1])'
          BY <1>2, <3>4, <4>1, <4>2, <4>3 DEF Fits
        <4>5. ASSUME NEW i \in 1..Len(r) PROVE i = 1
          BY <4>1
        <4>6. QED
          BY <4>1, <4>4, <4>5
      <3>5. CASE pc \in {"auth_recv", "switch_recv"} /\ server.plugin = "sha2" /\ r = <<More("fast_auth_fail")>>
        <4>1. Len(r) = 1 /\ r[1] = More("fast_auth_fail")
          BY <3>5
        <4>2. Fits(r[1])'
          BY <1>2, <2>5, <3>5, <4>1 DEF Fits
        <4>3. ASSUME NEW i \in 1..Len(r) PROVE i = 1
          BY <4>1
        <4>4. QED
          BY <4>1, <4>2, <4>3
      <3>6. CASE pc \in {"auth_recv", "switch_recv"} /\ server.plugin = "sha2" /\ r = <<More("fast_auth_ok"), Ok>>
        <4>1. Len(r) = 2 /\ r[1] = More("fast_auth_ok") /\ r[2] = Ok
          BY <3>6
        <4>2. Fits(r[1])' /\ Fits(r[2])'
          BY <1>2, <2>5, <3>6, <4>1 DEF Fits
        <4>3. ASSUME NEW i \in 1..Len(r) PROVE i = 1 \/ i = 2
          BY <4>1
        <4>4. QED
          BY <2>5, <4>1, <4>2, <4>3
      <3>7. QED
        BY <2>2, <2>4, <3>1, <3>2, <3>3, <3>4, <3>5, <3>6
    <2>7. Coming' = Len(r) /\ Second' = r[2 - 0]
      <3>1. Len(r) \in Nat
        BY <1>4, Empty DEF Safe, Types, SrvType
      <3>2. QED
        BY <1>4, <1>5, <3>1 DEF Coming, Second
    <2>8. pc = "upgrade" => scramble' = srv'.scramble
      BY <1>2, <1>4, <1>6, <2>2 DEF Agreement
    <2>9. pc \in {"switch_send", "switch_recv"} => plugin' = server'.plugin
      BY <1>2, <1>6 DEF Agreement
    <2>10. QED
      BY <1>2, <1>3, <1>4, <1>5, <2>3, <2>6, <2>7, <2>8, <2>9 DEF Agreement, Sending
  <1>7. QED
    BY <1>1, <1>6, ServerRight

\* A reply on its way stays the right one.
LEMMA ServerSendsRight == ASSUME Safe, Safe', Right, ServerSends PROVE Right'
  <1>1. UNCHANGED <<fixed, clientVars, c2s>> /\ srv.todo # <<>>
    BY DEF ServerSends
  <1>2. /\ pc' = pc /\ server' = server /\ c2s' = c2s /\ scramble' = scramble /\ plugin' = plugin
        /\ password' = password
    BY <1>1 DEF fixed, clientVars
  <1>3. /\ Len(s2c) \in Nat /\ Len(s2c') = Len(s2c) + 1
        /\ \A i \in 1..Len(s2c) : s2c'[i] = s2c[i]
        /\ s2c'[Len(s2c) + 1].kind = srv.todo[1].kind
        /\ s2c'[Len(s2c) + 1].plugin = srv.todo[1].plugin
        /\ s2c'[Len(s2c) + 1].scramble = srv.todo[1].scramble
    BY SendsFacts
  <1>4. /\ Len(srv.todo) \in Nat /\ Len(srv.todo) >= 1 /\ Len(srv'.todo) = Len(srv.todo) - 1
        /\ \A i \in 1..Len(srv'.todo) : srv'.todo[i] = srv.todo[i + 1]
        /\ srv'.scramble = srv.scramble
    BY SendsFacts
  <1>5. ASSUME RightServer, Agreement PROVE Agreement'
    <2>1. ASSUME NEW p, Fits(p) PROVE Fits(p)'
      BY <1>2, <1>4, <2>1 DEF Fits
    <2>2. ASSUME NEW i \in 1..Len(s2c') PROVE Fits(s2c[i])'
      <3>1. CASE i \in 1..Len(s2c)
        <4>1. s2c'[i] = s2c[i] /\ Fits(s2c[i])
          BY <1>3, <1>5, <3>1 DEF Agreement
        <4>2. QED
          BY <1>2, <1>4, <4>1 DEF Fits
      <3>2. CASE i = Len(s2c) + 1
        <4>1. Fits(srv.todo[1])
          <5>1. 1 \in 1..Len(srv.todo)
            BY <1>4
          <5>2. QED
            BY <1>5, <5>1 DEF Agreement
        <4>2. /\ s2c'[i].kind = srv.todo[1].kind /\ s2c'[i].plugin = srv.todo[1].plugin
              /\ s2c'[i].scramble = srv.todo[1].scramble
          BY <1>3, <3>2
        <4>3. QED
          BY <1>2, <1>4, <4>1, <4>2 DEF Fits
      <3>3. QED
        BY <1>3, <3>1, <3>2
    <2>3. ASSUME NEW i \in 1..Len(srv'.todo) PROVE Fits(srv.todo[i])'
      <3>1. i + 1 \in 1..Len(srv.todo) /\ srv'.todo[i] = srv.todo[i + 1]
        BY <1>4
      <3>2. Fits(srv.todo[i + 1])
        BY <1>5, <3>1 DEF Agreement
      <3>3. QED
        BY <1>2, <1>4, <3>1, <3>2 DEF Fits
    <2>4. Coming' = Coming
      <3> DEFINE a == Len(srv.todo)
                 b == Len(srv'.todo)
                 m == Len(s2c)
                 n == Len(s2c')
      <3>1. b = a - 1 /\ n = m + 1 /\ m \in Nat /\ a \in Nat
        BY <1>3, <1>4
      <3> HIDE DEF a, b, m, n
      <3>2. n + b = m + a
        BY <3>1
      <3>3. QED
        BY <3>2 DEF a, b, m, n, Coming
    <2>5. ASSUME pc \in {"auth_recv", "switch_recv"}, Coming = 2 PROVE Second'.kind = "ok"
      <3>1. Second.kind = "ok"
        BY <1>5, <2>5 DEF Agreement
      <3>2. /\ Len(s2c) = 0 \/ Len(s2c) = 1
            /\ Len(s2c) = 0 => Len(s2c') = 1 /\ Len(srv'.todo) = 1
        <4> DEFINE a == Len(srv.todo)
                   b == Len(srv'.todo)
                   m == Len(s2c)
                   n == Len(s2c')
        <4>1. b = a - 1 /\ n = m + 1 /\ m \in Nat /\ a \in Nat /\ a >= 1 /\ m + a = 2
          BY <1>3, <1>4, <2>5 DEF Coming
        <4> HIDE DEF a, b, m, n
        <4>2. (m = 0 \/ m = 1) /\ (m = 0 => n = 1 /\ b = 1)
          BY <4>1
        <4>3. QED
          BY <4>2 DEF a, b, m, n
      <3>3. CASE Len(s2c) = 0
        <4>1. Len(s2c') = 1 /\ Len(srv'.todo) = 1 /\ 1 \in 1..Len(srv'.todo)
          BY <3>2, <3>3
        <4>2. Second' = srv'.todo[1]
          BY <4>1 DEF Second
        <4>3. Second = srv.todo[2]
          BY <3>3 DEF Second
        <4>4. srv'.todo[1] = srv.todo[1 + 1]
          BY <1>4, <4>1
        <4>5. QED
          BY <3>1, <4>2, <4>3, <4>4
      <3>4. CASE Len(s2c) = 1
        <4>1. Second' = s2c'[2]
          BY <1>3, <3>4 DEF Second
        <4>2. Second = srv.todo[1]
          BY <3>4 DEF Second
        <4>3. s2c'[2].kind = srv.todo[1].kind
          BY <1>3, <3>4
        <4>4. QED
          BY <3>1, <4>1, <4>2, <4>3
      <3>5. QED
        BY <3>2, <3>3, <3>4
    <2>6. c2s = <<>>
      BY <1>3, <1>4 DEF Safe, Turns, Coming
    <2>7. QED
      BY <1>2, <1>4, <1>5, <2>2, <2>3, <2>4, <2>5, <2>6 DEF Agreement
  <1>6. QED
    BY <1>1, <1>5, ServerRight

\* What a server sent before it went away stays right.
LEMMA ServerClosesRight == ASSUME Safe, Safe', Right, ServerCloses PROVE Right'
  <1>1. /\ srv' = [srv EXCEPT !.closed = TRUE, !.todo = <<>>]
        /\ UNCHANGED <<fixed, clientVars, c2s, s2c>>
    BY DEF ServerCloses
  <1>2. /\ pc' = pc /\ server' = server /\ c2s' = c2s /\ s2c' = s2c /\ scramble' = scramble /\ plugin' = plugin
        /\ password' = password
    BY <1>1 DEF fixed, clientVars
  <1>3. srv'.scramble = srv.scramble /\ Len(srv'.todo) = 0
    <2>1. srv \in SrvType
      BY DEF Safe, Types
    <2>2. srv'.scramble = srv.scramble
      BY <1>1, <2>1 DEF SrvType
    <2>3. srv'.todo = <<>>
      BY <1>1, <2>1 DEF SrvType
    <2>4. QED
      BY <2>2, <2>3
  <1>4. Len(s2c) \in Nat /\ Len(srv.todo) \in Nat /\ Coming <= 2
    BY Empty DEF Safe, Types, SrvType, Turns
  <1>5. ASSUME RightServer, Agreement PROVE Agreement'
    <2>1. ASSUME NEW i \in 1..Len(s2c') PROVE Fits(s2c[i])'
      <3>1. Fits(s2c[i])
        BY <1>2, <1>5, <2>1 DEF Agreement
      <3>2. QED
        BY <1>2, <1>3, <3>1 DEF Fits
    <2>2. Coming' = 2 => Coming = 2 /\ Second' = Second
      <3>1. Coming' = 2 => Len(s2c) = 2
        <4> DEFINE m == Len(s2c)
                   b == Len(srv'.todo)
        <4>1. m \in Nat /\ b = 0 /\ Coming' = m + b
          BY <1>2, <1>3, <1>4 DEF Coming
        <4> HIDE DEF m, b
        <4>2. Coming' = 2 => m = 2
          BY <4>1
        <4>3. QED
          BY <4>2 DEF m
      <3>2. Len(s2c) = 2 => Coming = 2
        <4> DEFINE m == Len(s2c)
                   a == Len(srv.todo)
        <4>1. m \in Nat /\ a \in Nat /\ m + a <= 2 /\ Coming = m + a
          BY <1>4 DEF Coming
        <4> HIDE DEF m, a
        <4>2. m = 2 => Coming = 2
          BY <4>1
        <4>3. QED
          BY <4>2 DEF m
      <3>3. Len(s2c) = 2 => Second' = s2c[2] /\ Second = s2c[2]
        BY <1>2 DEF Second
      <3>4. QED
        BY <3>1, <3>2, <3>3
    <2>3. c2s # <<>> => Awaits(c2s[1])'
      BY <1>2, <1>5 DEF Agreement, Awaits
    <2>4. QED
      BY <1>2, <1>3, <1>5, <2>1, <2>2, <2>3 DEF Agreement
  <1>6. QED
    BY <1>1, <1>5, ServerRight

-----------------------------------------------------------------------------
(* The theorems *)

\* Before try_connect there is nothing to go wrong.
LEMMA InitIInv == ASSUME Init PROVE IInv
  <1>1. /\ pc = "start" /\ sequence_number = 0 /\ use_ssl = FALSE /\ tls = FALSE
        /\ password = opts.password /\ plugin = "other" /\ scramble = 0
        /\ c2s = <<>> /\ s2c = <<>> /\ used = {}
        /\ srv = [seq |-> 0, scramble |-> 0, todo |-> <<>>, closed |-> FALSE]
    BY DEF Init
  <1>2. /\ opts \in [unix : Unix, ssl_mode : SslModes, cleartext : Cleartext, password : Passwords]
        /\ server \in [peer : Peers, ssl : BOOLEAN, default : Defaults, plugin : Accounts, password : Passwords]
    BY DEF Init
  <1>3. srv.seq = 0 /\ srv.todo = <<>> /\ Len(srv.todo) = 0 /\ Len(s2c) = 0 /\ Len(c2s) = 0
    BY <1>1
  <1>4. srv \in SrvType
    <2> DEFINE t == <<>>
    <2>1. t \in Seq(Reply) /\ srv = [seq |-> 0, scramble |-> 0, todo |-> t, closed |-> FALSE]
      BY <1>1
    <2> HIDE DEF t
    <2>2. QED
      BY <2>1 DEF SrvType
  <1>5. TypeOK /\ Types
    <2>1. TypeOK
      <3>1. password \in Passwords
        BY <1>1, <1>2
      <3>2. /\ pc \in Waiting \cup Sending \cup Outcomes \cup {"start", "upgrade"}
            /\ plugin \in Plugins /\ (pc \in {"switch_send", "switch_recv"} => plugin \in {"native", "sha2", "clear"})
        BY <1>1 DEF Plugins
      <3>3. sequence_number \in 0..8 /\ scramble \in 0..2
        BY <1>1
      <3>4. use_ssl \in BOOLEAN /\ tls \in BOOLEAN
        BY <1>1
      <3>5. Len(c2s) <= 1
        BY <1>3
      <3>6. QED
        BY <3>1, <3>2, <3>3, <3>4, <3>5 DEF TypeOK
    <2>2. c2s \in Seq(Command) /\ s2c \in Seq(Packet)
      BY <1>1, EmptySeq
    <2>3. Types
      BY <1>2, <1>4, <2>2 DEF Types
    <2>4. QED
      BY <2>1, <2>3
  <1>6. Turns /\ Counts /\ Steps
    BY <1>1, <1>3 DEF Turns, Counts, Steps, Coming
  <1>7. Secrets /\ PasswordProtected /\ WipedAfterUse
    BY <1>1 DEF Secrets, PasswordProtected, WipedAfterUse
  <1>8. Right
    BY <1>1, <1>3 DEF Right, Agreement, RightPasswordConnects
  <1>9. QED
    BY <1>5, <1>6, <1>7, <1>8 DEF IInv, Safe

\* Every step of the connection phase, of the server and of the network keeps the
\* invariant.
LEMMA NextIInv == ASSUME IInv, [Next]_vars PROVE IInv'
  <1> USE DEF IInv
  <1>1. CASE Connect
    BY <1>1, ConnectSafe, ConnectRight
  <1>2. CASE ConnectRecv
    BY <1>2, ConnectRecvSafe, ConnectRecvRight
  <1>3. CASE SslRequestSend
    BY <1>3, SslRequestSendSafe, SslRequestSendRight
  <1>4. CASE UpgradeSsl
    BY <1>4, UpgradeSslSafe, UpgradeSslRight
  <1>5. CASE AuthSend
    BY <1>5, AuthSendSafe, AuthSendRight
  <1>6. CASE AuthRecv
    BY <1>6, AuthRecvSafe, AuthRecvRight
  <1>7. CASE SwitchSend
    BY <1>7, SwitchSendSafe, SwitchSendRight
  <1>8. CASE SecretSend
    BY <1>8, SecretSendSafe, SecretSendRight
  <1>9. CASE MoreRecv
    BY <1>9, MoreRecvSafe, MoreRecvRight
  <1>10. CASE Broken \/ Timeout
    BY <1>10, EndsSafe, EndsRightly
  <1>11. CASE ServerGreets
    BY <1>11, ServerGreetsSafe, ServerGreetsRight
  <1>12. CASE ServerReads
    BY <1>12, ServerReadsSafe, ServerReadsRight
  <1>13. CASE ServerSends
    BY <1>13, ServerSendsSafe, ServerSendsRight
  <1>14. CASE ServerCloses
    BY <1>14, ServerClosesSafe, ServerClosesRight
  <1>15. CASE UNCHANGED vars
    <2>1. /\ opts' = opts /\ server' = server /\ pc' = pc /\ rc' = rc /\ sequence_number' = sequence_number
          /\ use_ssl' = use_ssl /\ tls' = tls /\ password' = password /\ plugin' = plugin
          /\ scramble' = scramble /\ used' = used /\ c2s' = c2s /\ s2c' = s2c /\ srv' = srv
      BY <1>15 DEF vars, fixed, clientVars
    <2>2. TypeOK' /\ Types' /\ Turns' /\ Counts' /\ Steps' /\ Secrets'
      BY <2>1 DEF Safe, TypeOK, Types, Turns, Counts, Steps, Secrets, Coming, First
    <2>3. PasswordProtected' /\ WipedAfterUse' /\ RightPasswordConnects'
      BY <2>1 DEF Safe, Right, PasswordProtected, WipedAfterUse, RightPasswordConnects, Excused
    <2>4. RightServer' => Agreement'
      BY <2>1, RightStays DEF Right, Agreement, Fits, Awaits, Coming, Second
    <2>5. QED
      BY <2>2, <2>3, <2>4 DEF Safe, Right
  <1>16. QED
    BY <1>1, <1>2, <1>3, <1>4, <1>5, <1>6, <1>7, <1>8, <1>9, <1>10, <1>11, <1>12, <1>13, <1>14, <1>15
    DEF Next, Client, Server

\* So it always holds.
LEMMA SpecIInv == Spec => []IInv
  <1>1. Init => IInv
    BY InitIInv
  <1>2. IInv /\ [Next]_vars => IInv'
    BY NextIInv
  <1>3. QED
    BY <1>1, <1>2, PTL DEF Spec

\* The variables of the connection phase keep their ranges: sequence_number never
\* comes near its limit, and no unsupported plugin is ever answered
\* (read_auth_switch_packet, client.c:270).
THEOREM Typed == Spec => []TypeOK
  <1>1. IInv => TypeOK
    BY DEF IInv, Safe
  <1>2. QED
    BY <1>1, SpecIInv, PTL

\* The password itself is never sent without TLS, a unix socket or the caller's
\* permission, and nothing made of it without TLS when TLS is required, whatever the
\* server replies (client.c:443, protocol.c:620, cext.c:551).
THEOREM KeepsThePassword == Spec => []PasswordProtected
  <1>1. IInv => PasswordProtected
    BY DEF IInv, Safe
  <1>2. QED
    BY <1>1, SpecIInv, PTL

\* Once the server has let the client in the password is wiped, and no answer is made
\* of wiped bytes (trilogy_auth_clear_password, client.c:423).
THEOREM WipesThePassword == Spec => []WipedAfterUse
  <1>1. IInv => WipedAfterUse
    BY DEF IInv, Safe
  <1>2. QED
    BY <1>1, SpecIInv, PTL

\* With the right password a conforming server lets the client in, or the failure is
\* the network's or the caller's (handle_generic_response, client.c:282).
THEOREM LetsTheRightOneIn == Spec => []RightPasswordConnects
  <1>1. IInv => RightPasswordConnects
    BY DEF IInv, Right
  <1>2. QED
    BY <1>1, SpecIInv, PTL

\* Both ends count alike through TLS request, switch and second round
\* (begin_command_phase and read_packet, client.c:56-99).
THEOREM CountsAlike == Spec => []BothCountAlike
  <1>1. IInv => BothCountAlike
    <2>1. SUFFICES ASSUME IInv, c2s # <<>> PROVE Head(c2s).seq = srv.seq
      BY DEF BothCountAlike
    <2>2. Head(c2s) = c2s[1]
      BY <2>1, Taken DEF IInv, Safe, Types
    <2>3. QED
      BY <2>1, <2>2 DEF IInv, Safe, Counts
  <1>2. QED
    BY <1>1, SpecIInv, PTL
=============================================================================
