------------------------------- MODULE Socket -------------------------------
(* The life of a trilogy_sock_t (socket.c): its memory, its descriptor, its    *)
(* TLS session and the callbacks that stand for its operations.  As in         *)
(* BufferPool an operator takes and returns the state s of one connection:     *)
(*   s.k     the socket: mem, fd (0 for -1), ssl and ops (which callbacks)     *)
(*   s.table the process's descriptors and who opened each of them             *)
(*   s.me    the connection the socket belongs to                              *)
(*   s.c     the connection's own state, of which only faults (what was used   *)
(*           after it was gone, and in which call) and the history wire (there *)
(*           was a write on a connection inherited through fork) change.       *)
EXTENDS Integers, FiniteSetsExt

CONSTANTS
  Fds,      \* descriptors the process may have open
  Nobody,   \* owner of a free descriptor
  Addrs     \* most addresses a name resolves to

ASSUME SocketAssumption == Fds \in Nat \ {0} /\ Addrs \in Nat \ {0}

-----------------------------------------------------------------------------
Fault(s, what) == [s EXCEPT !.c.faults = @ \union {<<what, s.c.pc>>}]

(* A use of the structure.                                                     *)
Touch(s) == IF s.k.mem = "live" THEN s ELSE Fault(s, "socket")

(* A write on a connection that the parent process has open as well.           *)
Wire(s) == [s EXCEPT !.c.wire = @ \/ (s.c.shared /\ s.k.fd # 0)]

(* close(2): whoever opened the descriptor loses it.                           *)
CloseFd(s) ==
  IF s.k.fd = 0 THEN s
  ELSE [IF s.table[s.k.fd] = s.me THEN s ELSE Fault(s, "descriptor")
          EXCEPT !.table[s.k.fd] = Nobody]

NoSocket == [mem |-> "none", fd |-> 0, ssl |-> "none", ops |-> "raw"]

SockNew(s) == [s EXCEPT !.k = [NoSocket EXCEPT !.mem = "live"]]

(* What a read or a write returns: the raw callbacks, those of TLS, the stubs. *)
Results(k) ==
  CASE k.ops = "stub" -> {"CLOSED_CONNECTION"}
    [] k.ops = "raw"  -> {"OK", "AGAIN", "CLOSED_CONNECTION", "SYSERR"}
    [] k.ops = "ssl"  -> {"OK", "AGAIN", "CLOSED_CONNECTION", "SYSERR", "OPENSSL_ERR"}

(* How a wait fails; the stub's wait does not.                                 *)
WaitFailures(k) == IF k.ops = "stub" THEN {} ELSE {"TIMEOUT", "SYSERR"}

-----------------------------------------------------------------------------
(* Mutant of _cb_raw_shutdown: the descriptor is closed and remembered.        *)
RawShutdownKeepsFd(s) == [CloseFd(s) EXCEPT !.k.ops = "stub"]

(* _cb_raw_shutdown: the descriptor is closed, every operation is a stub and   *)
(* close becomes the raw one.                                                  *)
RawShutdown(s) == [CloseFd(s) EXCEPT !.k.ops = "stub", !.k.fd = 0]

(* _cb_ssl_shutdown: the session is dropped without a word to the peer.        *)
SslShutdown(s) == RawShutdown([s EXCEPT !.k.ssl = "none"])

(* trilogy_sock_shutdown.                                                      *)
Shutdown(s) ==
  CASE s.k.ops = "raw"  -> RawShutdown(Touch(s))
    [] s.k.ops = "ssl"  -> SslShutdown(Touch(s))
    [] s.k.ops = "stub" -> Touch(s)

(* _cb_raw_close: descriptor, addresses, options and the structure itself.     *)
RawClose(s) == [CloseFd(s) EXCEPT !.k.mem = "freed"]

(* _cb_ssl_close: SSL_shutdown sends close_notify once the handshake is over.  *)
SslClose(s) ==
  RawClose([(IF s.k.ssl = "up" THEN Wire(s) ELSE s)
              EXCEPT !.k.ssl = "none"])

(* trilogy_sock_close.                                                         *)
SockClose(s) == IF s.k.ops = "ssl" THEN SslClose(Touch(s)) ELSE RawClose(Touch(s))

-----------------------------------------------------------------------------
(* trilogy_sock_resolve: a path too long for sockaddr_un makes it close the    *)
(* socket itself; a name that does not resolve leaves that to the caller.      *)
Resolve(s, rc) == IF rc = "ERR" THEN RawClose(s) ELSE s

FreeFds(s) == {f \in 1..Fds : s.table[f] = Nobody}

(* raw_connect_internal up to its wait: socket() takes the lowest descriptor.  *)
OpenFd(s) ==
  LET f == Min(FreeFds(s)) IN [s EXCEPT !.k.fd = f, !.table[f] = s.me]

(* raw_connect_internal's failures.                                            *)
ConnectFailed(s) == [CloseFd(s) EXCEPT !.k.fd = 0]

(* trilogy_sock_upgrade_ssl: SSL_new, then SSL_connect with its waits, then    *)
(* the callbacks are exchanged; a failure frees the session.                   *)
UpgradeBegins(s) == [s EXCEPT !.k.ssl = "init"]
Upgraded(s) == [s EXCEPT !.k.ssl = "up", !.k.ops = "ssl"]
UpgradeFails(s) == [s EXCEPT !.k.ssl = "none"]

(* trilogy_sock_check: recv of -1 is EBADF; after a shutdown of the peer 0.    *)
CheckResults(k) == IF k.fd = 0 THEN {"SYSERR"} ELSE {"OK", "CLOSED_CONNECTION", "SYSERR"}
=============================================================================
