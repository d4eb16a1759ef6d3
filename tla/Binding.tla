------------------------------- MODULE Binding -------------------------------
(* The objects of the Ruby binding (contrib/ruby/ext/trilogy-ruby/cext.c) over *)
(* the socket layer: what a Trilogy object owns - a packet buffer, a socket    *)
(* with its descriptor and TLS session - through connect, calls, errors,       *)
(* exceptions, close, discard!, garbage collection and fork.                   *)
(*                                                                             *)
(* A call holds the GVL except while it waits for the socket or resolves a     *)
(* name, so what happens between two waits is one step.  pc is where an        *)
(* object's thread waits:                                                      *)
(*   new, resolving, connecting, hello (server greeting), request (sending     *)
(*   the TLS request), tls, login (sending the password), auth (its answer),   *)
(*   idle (no call under way), sending, reading, closing,                      *)
(*   dropped (initialize raised: nobody holds the object), gone (collected).   *)
(* After Fork the model follows the child process.                             *)
EXTENDS BufferPool, Socket

CONSTANTS
  Objects,    \* Trilogy objects
  Foreign     \* the rest of the process, which opens descriptors too

ASSUME BindingAssumption ==
  /\ Nobody \notin Objects /\ Foreign \notin Objects /\ Foreign # Nobody
  /\ IsFiniteSet(Objects) /\ Cardinality(Objects) <= Buffers   \* no object waits for memory

VARIABLES
  ctx,      \* object -> its trilogy_ctx and its thread, see Ctx
  sock,     \* object -> its trilogy_sock_t
  pool,     \* idle buffers, the last one on top
  live,     \* allocated buffers
  table,    \* descriptor -> owner
  forked    \* the process is a child that inherited the objects

vars == <<ctx, sock, pool, live, table, forked>>

Connecting == {"connecting", "hello", "request", "tls", "login", "auth"}
Waits == Connecting \union {"sending", "reading", "closing"}
Pcs == Waits \union {"new", "resolving", "idle", "dropped", "gone"}

(* op: the call whose reply is read; more: MORE_RESULTS_EXISTS; linked:        *)
(* conn.socket is set; addr: addresses left to try; kept: the last call        *)
(* returned a result and said that another follows; lost: where in initialize  *)
(* the thread was when an exception or fork took it out of the call; shared,   *)
(* used, wire: inherited through fork, used by the child, the child wrote on   *)
(* it; faults: what the last step used after it was gone.                      *)
NewCtx ==
  [pc |-> "new", op |-> "plain", buf |-> 0, more |-> FALSE, linked |-> FALSE,
   addr |-> 0, kept |-> FALSE, lost |-> "no", shared |-> FALSE, used |-> FALSE,
   wire |-> FALSE, faults |-> {}]

Init ==
  /\ ctx = [o \in Objects |-> NewCtx]
  /\ sock = [o \in Objects |-> NoSocket]
  /\ pool = <<>> /\ live = {}
  /\ table = [f \in 1..Fds |-> Nobody]
  /\ forked = FALSE

(* The state of one object, as the operators of the two layers take it.        *)
Take(o) ==
  [c |-> [ctx[o] EXCEPT !.faults = {}], k |-> sock[o], pool |-> pool, live |-> live, table |-> table, me |-> o]

Put(o, s) ==
  /\ ctx' = [ctx EXCEPT ![o] = s.c]
  /\ sock' = [sock EXCEPT ![o] = s.k]
  /\ pool' = s.pool /\ live' = s.live /\ table' = s.table
  /\ UNCHANGED forked

At(s, pc) == [s EXCEPT !.c.pc = pc]

(* A call returns or raises.                                                   *)
Idle(s) == [s EXCEPT !.c.pc = "idle", !.c.op = "plain"]

-----------------------------------------------------------------------------
(* Errors                                                                      *)

(* trilogy_error_recoverable_p                                                 *)
Recoverable == {"ERR", "MAX_PACKET_EXCEEDED"}

(* handle_trilogy_error: the buffer goes back first; the text of a server's    *)
(* error is copied last, out of that buffer, which a full pool has freed.      *)
HandleError(s, rc) ==
  LET freed == s.c.buf # 0 /\ Len(s.pool) >= PoolMax
      r == Release([s EXCEPT !.c.kept = FALSE])
      d == IF rc \notin Recoverable /\ r.c.linked THEN Shutdown(r) ELSE r
  IN  IF rc = "ERR" /\ d.c.linked /\ freed THEN Fault(d, "error text") ELSE d

(* In a call, and in initialize, whose object nobody gets to see.              *)
Raise(s, rc) == Idle(HandleError(s, rc))
RaiseNew(s, rc) == At(HandleError(s, rc), "dropped")

-----------------------------------------------------------------------------
(* connect                                                                     *)

(* try_connect when every address has failed, and resolving too.               *)
GiveUp(s, rc) == RaiseNew(SockClose([s EXCEPT !.c.addr = 0]), rc)

(* _cb_raw_connect: the next address, unless socket() fails, as it then does   *)
(* for all of them.                                                            *)
NextAddress(s, left) ==
  IF left > 0 /\ FreeFds(s) # {}
  THEN At([OpenFd(s) EXCEPT !.c.addr = left - 1], "connecting")
  ELSE GiveUp(s, "SYSERR")

Connect(o) ==
  /\ ctx[o].pc = "new"
  /\ Put(o, At(SockNew(Acquire(Take(o))), "resolving"))

Resolved(o) ==
  /\ ctx[o].pc = "resolving"
  /\ \/ \E n \in 1..Addrs : Put(o, NextAddress(Take(o), n))
     \/ \E rc \in {"DNS_ERR", "ERR"} : Put(o, GiveUp(Resolve(Take(o), rc), rc))

(* The rest of raw_connect_internal and of trilogy_connect_send_socket.        *)
Connected(o) ==
  /\ ctx[o].pc = "connecting"
  /\ \/ Put(o, At([Take(o) EXCEPT !.c.linked = TRUE, !.c.addr = 0], "hello"))
     \/ Put(o, NextAddress(ConnectFailed(Take(o)), ctx[o].addr))

(* How a call that waits for the server fails.                                 *)
Failures(k) == (Results(k) \ {"OK", "AGAIN"}) \union WaitFailures(k)

(* A send: done, to be continued, or failed.                                   *)
Sent(s, done, waiting, failed(_, _)) ==
  {IF rc = "OK" THEN done ELSE IF rc = "AGAIN" THEN At(s, waiting) ELSE failed(s, rc) :
     rc \in Results(s.k)}

(* trilogy_sock_upgrade_ssl is entered; its first failures come before any     *)
(* wait.                                                                       *)
StartTls(s) == At(UpgradeBegins(s), "tls")

(* trilogy_auth_send.                                                          *)
SendLogin(s) == Sent(s, At(s, "auth"), "login", RaiseNew)

(* The greeting: an error packet, or a handshake that leads to TLS, to the     *)
(* password, or to "SSL required", raised with everything still held.          *)
Hello(o) ==
  /\ ctx[o].pc = "hello"
  /\ LET s == Take(o) IN
     \E t \in {RaiseNew(s, rc) : rc \in Failures(s.k) \union {"ERR", "PROTOCOL_VIOLATION"}}
              \union Sent(s, StartTls(s), "request", RaiseNew)
              \union SendLogin(s)
              \union {At(s, "dropped")} : Put(o, t)

(* flush_writes in the connection phase.                                       *)
Flushed(o) ==
  /\ ctx[o].pc \in {"request", "login"}
  /\ LET s == Take(o) IN
     \E t \in {RaiseNew(s, rc) : rc \in Failures(s.k)}
              \union {IF s.c.pc = "request" THEN StartTls(s) ELSE At(s, "auth")} : Put(o, t)

Tls(o) ==
  /\ ctx[o].pc = "tls"
  /\ LET s == Take(o) IN
     \E t \in SendLogin(Upgraded(s)) \union {RaiseNew(UpgradeFails(s), "OPENSSL_ERR")} : Put(o, t)

(* trilogy_auth_recv, and auth_switch, which sends once more.                  *)
Authenticated(o) ==
  /\ ctx[o].pc = "auth"
  /\ LET s == Take(o) IN
     \E t \in {At(Release(s), "idle")}
              \union {RaiseNew(s, rc) : rc \in Failures(s.k)
                                          \union {"ERR", "UNSUPPORTED", "PROTOCOL_VIOLATION"}}
              \union SendLogin(s) : Put(o, t)

-----------------------------------------------------------------------------
(* Calls on a connected object.  get_open_ctx lets a call through while        *)
(* conn.socket is set, a socket that was shut down included.                   *)

Use(o) == [Take(o) EXCEPT !.c.used = forked]
Open(o) == ctx[o].pc = "idle" /\ ctx[o].linked

(* ping, change_db and set_server_option are "plain", query is "query".  The   *)
(* packet may exceed the limit, and building it may fail.                      *)
Start(o, op) ==
  /\ Open(o)
  /\ LET a == [Acquire(Use(o)) EXCEPT !.c.op = op, !.c.kept = FALSE]
         w == IF a.k.ops # "stub" THEN Wire(a) ELSE a
     IN  \E t \in Sent(Touch(w), At(w, "reading"), "sending", Raise)
                  \union {Raise(a, rc) : rc \in {"MAX_PACKET_EXCEEDED", "SYSERR"}} : Put(o, t)

(* set_server_option converts its argument after it took the buffer.           *)
BadOption(o) ==
  /\ Open(o)
  /\ Put(o, [Acquire(Use(o)) EXCEPT !.c.kept = FALSE])

FlushedCommand(o) ==
  /\ ctx[o].pc = "sending"
  /\ LET s == Take(o) IN
     \E t \in {At(s, "reading")} \union {Raise(s, rc) : rc \in Failures(s.k)} : Put(o, t)

(* next_result takes no buffer: it relies on the one the result before it left *)
(* behind.                                                                     *)
NextResult(o) ==
  /\ Open(o) /\ ctx[o].more
  /\ Put(o, [At(Use(o), "reading") EXCEPT !.c.op = "next", !.c.kept = FALSE])

(* Mutant of Finished: the buffer is given back after every result.            *)
FinishedReleases(s, more) ==
  Idle([Release(s) EXCEPT !.c.more = more, !.c.kept = more /\ s.c.op # "plain"])

(* The last packet of a reply has been read.  The buffer stays with a query    *)
(* whose status says that another result follows.                              *)
Finished(s, more) ==
  LET m == [s EXCEPT !.c.more = more, !.c.kept = more /\ s.c.op # "plain"]
  IN  Idle(IF m.c.kept THEN m ELSE Release(m))

(* The reply.  Without a packet_buffer the first byte of a packet is a         *)
(* MEM_ERROR.  read_query_response may also raise, e.g. in a cast.  A reply to *)
(* next_result may lie in recv_buff since before a shutdown.                   *)
Reply(o) ==
  /\ ctx[o].pc = "reading"
  /\ LET s == Take(o) IN
     \/ \E rc \in Failures(s.k) : Put(o, Raise(s, rc))
     \/ /\ s.c.buf = 0
        /\ Put(o, Raise(s, "MEM_ERROR"))
     \/ /\ s.c.buf # 0 /\ (s.k.ops # "stub" \/ s.c.op = "next")
        /\ \/ \E more \in BOOLEAN : Put(o, Finished(s, more))
           \/ \E rc \in {"ERR", "PROTOCOL_VIOLATION"} : Put(o, Raise(s, rc))
           \/ /\ s.c.op # "plain"
              /\ \E more \in BOOLEAN : Put(o, Idle([Shutdown(s) EXCEPT !.c.more = more]))

(* escape borrows the buffer, and gives back the one of pending results too.   *)
Escape(o) ==
  /\ Open(o)
  /\ LET s == [Acquire(Use(o)) EXCEPT !.c.kept = FALSE] IN
     \E t \in {Release(s), Raise(s, "TYPE_OVERFLOW")} : Put(o, t)

(* check peeks at the socket.                                                  *)
Check(o) ==
  /\ Open(o)
  /\ LET s == Touch(Use(o)) IN
     \E rc \in CheckResults(s.k) : Put(o, IF rc = "OK" THEN s ELSE Raise(s, rc))

-----------------------------------------------------------------------------
(* The end of a connection                                                     *)

(* Mutant of trilogy_free: the socket is forgotten instead of closed.          *)
FreeForgets(s) == BufferFree([s EXCEPT !.c.linked = FALSE])

(* trilogy_free                                                                *)
Free(s) ==
  BufferFree(IF s.c.linked THEN [SockClose(s) EXCEPT !.c.linked = FALSE] ELSE s)

(* close after its quit was sent (trilogy_close_recv begins with a shutdown),  *)
(* and after it could not be.                                                  *)
CloseSent(s) == At(Free(Release(Shutdown(s))), "idle")
CloseFailed(s, rc) == At(Free(Release(s)), "idle")

Close(o) ==
  /\ Open(o)
  /\ LET a == [Acquire(Use(o)) EXCEPT !.c.kept = FALSE]
         w == IF a.k.ops # "stub" THEN Wire(a) ELSE a
     IN  \E t \in Sent(Touch(w), CloseSent(w), "closing", CloseFailed)
                  \union {CloseFailed(a, "SYSERR")} : Put(o, t)

FlushedClose(o) ==
  /\ ctx[o].pc = "closing"
  /\ LET s == Take(o) IN
     \E t \in {CloseSent(s)} \union {CloseFailed(s, rc) : rc \in Failures(s.k)} : Put(o, t)

(* Mutant of discard!: only the memory is freed.                               *)
DiscardOnlyFrees(o) ==
  /\ Open(o)
  /\ Put(o, Free([Take(o) EXCEPT !.c.kept = FALSE]))

(* discard!                                                                    *)
Discard(o) ==
  /\ Open(o)
  /\ Put(o, Free(Shutdown([Take(o) EXCEPT !.c.kept = FALSE])))

(* free_trilogy, when the collector finds that nobody holds the object.  Of    *)
(* the structure only the histories are kept.                                  *)
Collect(o) ==
  /\ ctx[o].pc \in {"idle", "dropped"}
  /\ LET s == Free([Take(o) EXCEPT !.c.used = @ \/ (forked /\ ctx[o].linked)])
     IN  Put(o, [s EXCEPT !.c = [NewCtx EXCEPT !.pc = "gone", !.buf = s.c.buf, !.lost = s.c.lost,
                                   !.used = s.c.used, !.wire = s.c.wire, !.faults = s.c.faults]])

(* The waits of initialize that hold what conn.socket and _cb_ssl_close do not *)
(* know of yet.                                                                *)
LostAt(pc) == IF pc \in {"resolving", "connecting", "tls"} THEN pc ELSE "no"

(* An exception (Timeout, Thread#raise, a signal) ends a wait: _cb_ruby_wait   *)
(* shuts the socket down and jumps out of the call, past every cleanup.        *)
(* Resolving has no wait callback: the jump leaves the socket as it is.        *)
Interrupted(o) ==
  LET s == Take(o)
      at == ctx[o].pc
      gone == IF at = "resolving" THEN s ELSE Shutdown(s)
      lost == [gone EXCEPT !.c.lost = LostAt(at), !.c.addr = 0]
  IN  /\ at \in Waits \union {"resolving"} /\ s.k.ops # "stub"
      /\ Put(o, IF at \in Connecting \union {"resolving"} THEN At(lost, "dropped") ELSE Idle(gone))

-----------------------------------------------------------------------------
(* The process around the binding                                              *)

ForeignOpen ==
  /\ \A f \in 1..Fds : table[f] # Foreign
  /\ \E f \in 1..Fds : table[f] = Nobody
  /\ table' = [table EXCEPT ![Min({f \in 1..Fds : table[f] = Nobody})] = Foreign]
  /\ UNCHANGED <<ctx, sock, pool, live, forked>>

ForeignClose ==
  /\ \E f \in 1..Fds : table[f] = Foreign
  /\ table' = [f \in 1..Fds |-> IF table[f] = Foreign THEN Nobody ELSE table[f]]
  /\ UNCHANGED <<ctx, sock, pool, live, forked>>

(* fork: only the thread that calls it lives on in the child.  The calls of    *)
(* the other threads never return; their objects remain.                       *)
Orphan(c, k) ==
  [c EXCEPT !.shared = k.fd # 0,
            !.lost = IF c.pc \in Waits \union {"resolving"} THEN LostAt(c.pc) ELSE @,
            !.addr = 0, !.op = "plain", !.faults = {},
            !.pc = CASE c.pc \in Connecting \union {"resolving"} -> "dropped"
                     [] c.pc \in {"sending", "reading", "closing"} -> "idle"
                     [] OTHER -> @]

Fork ==
  /\ ~forked /\ forked' = TRUE
  /\ ctx' = [o \in Objects |-> Orphan(ctx[o], sock[o])]
  /\ UNCHANGED <<sock, pool, live, table>>

Call(o) ==
  \/ \E op \in {"plain", "query"} : Start(o, op)
  \/ BadOption(o) \/ FlushedCommand(o) \/ NextResult(o) \/ Reply(o)
  \/ Escape(o) \/ Check(o)
  \/ Close(o) \/ FlushedClose(o) \/ Discard(o)

Next ==
  \/ \E o \in Objects :
       \/ Connect(o) \/ Resolved(o) \/ Connected(o) \/ Hello(o) \/ Flushed(o)
       \/ Tls(o) \/ Authenticated(o)
       \/ Call(o) \/ Collect(o) \/ Interrupted(o)
  \/ ForeignOpen \/ ForeignClose \/ Fork

Spec == Init /\ [][Next]_vars

-----------------------------------------------------------------------------
(* Properties                                                                  *)

(* Every variable keeps its type, and the pool never outgrows                  *)
(* BUFFER_POOL_MAX_SIZE however calls, errors and collections interleave.      *)
TypeOK ==
  /\ ctx \in [Objects ->
       [pc : Pcs, op : {"plain", "query", "next"}, buf : 0..Buffers, more : BOOLEAN,
        linked : BOOLEAN, addr : 0..Addrs, kept : BOOLEAN, lost : {"no", "resolving", "connecting", "tls"},
        shared : BOOLEAN, used : BOOLEAN, wire : BOOLEAN,
        faults : SUBSET ({"socket", "descriptor", "error text"} \X Pcs)]]
  /\ sock \in [Objects ->
       [mem : {"none", "live", "freed"}, fd : 0..Fds, ssl : {"none", "init", "up"},
        ops : {"raw", "ssl", "stub"}]]
  /\ pool \in Seq(1..Buffers) /\ Len(pool) <= PoolMax
  /\ live \subseteq 1..Buffers
  /\ table \in [1..Fds -> Objects \union {Nobody, Foreign}]
  /\ forked \in BOOLEAN

Held(o) == ctx[o].buf

(* A buffer has one user: no two objects hold the same packet_buffer, none     *)
(* holds one that lies in the pool, the pool has none twice, and all of them   *)
(* are allocated - through handle_trilogy_error, close, discard! and           *)
(* free_trilogy alike.                                                         *)
BuffersExclusive ==
  /\ \A o, p \in Objects : o # p /\ Held(o) # 0 => Held(o) # Held(p)
  /\ \A o \in Objects, i \in DOMAIN pool : Held(o) # pool[i]
  /\ \A i, j \in DOMAIN pool : pool[i] = pool[j] => i = j
  /\ live = ({Held(o) : o \in Objects} \ {0}) \union {pool[i] : i \in DOMAIN pool}

(* Nothing is used after it was given up - no freed trilogy_sock_t, no         *)
(* descriptor that meanwhile belongs to somebody else, no freed buffer - with  *)
(* two exceptions.  A unix socket path that is too long makes                  *)
(* trilogy_sock_resolve free the socket that try_connect then closes           *)
(* (socket.c:381, cext.c:485).  And the text of a server's error is read from  *)
(* a buffer that a full pool has just freed (cext.c:277, cext.c:293).          *)
NoStaleUse ==
  \A o \in Objects : \A f \in ctx[o].faults :
    \/ f = <<"socket", "resolving">>
    \/ f[1] = "error text" /\ f[2] \in {"hello", "auth", "reading"}

(* The buffer of a result that announced another one is still there when       *)
(* next_result comes, unless another call on the object came between           *)
(* (rb_trilogy_next_result acquires none).                                     *)
BufferForNextResult ==
  \A o \in Objects :
    ctx[o].kept /\ ctx[o].linked /\ ctx[o].pc = "idle" => ctx[o].buf # 0

(* Once an object is collected nothing of it is left: no descriptor, no        *)
(* structure, no TLS session.  The exceptions are calls an exception or fork   *)
(* took out of initialize: the socket of try_connect is not yet linked, and    *)
(* the session of trilogy_sock_upgrade_ssl not yet under _cb_ssl_close.  Only  *)
(* fork loses a descriptor.                                                    *)
NothingLeaks ==
  \A o \in Objects : ctx[o].pc = "gone" =>
    /\ sock[o].mem = "live" => ctx[o].lost \in {"resolving", "connecting"}
    /\ sock[o].ssl # "none" => ctx[o].lost = "tls"
    /\ o \in {table[f] : f \in 1..Fds} => forked /\ ctx[o].lost = "connecting"

(* A child that does nothing with an inherited connection but discard! it      *)
(* writes nothing on it, whatever state it was forked in: no quit, no          *)
(* close_notify that would end the parent's TLS session.                       *)
ParentUndisturbed ==
  \A o \in Objects : ctx[o].wire => ctx[o].used
=============================================================================
