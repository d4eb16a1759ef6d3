----------------------------- MODULE BufferPool -----------------------------
(* The pool of packet buffers that the connections of a Ractor share           *)
(* (cext.c:42-192).  A connection owns a packet_buffer only while a call, or   *)
(* a query with further results, needs it.  The operators take and return the  *)
(* state s of one connection: s.c.buf is its packet_buffer (0 for NULL),       *)
(* s.pool the stack of idle buffers, s.live what is allocated.                 *)
EXTENDS Integers, SequencesExt

CONSTANTS
  PoolMax,   \* BUFFER_POOL_MAX_SIZE
  Buffers    \* buffers are 1..Buffers, as many as may be allocated at a time

ASSUME PoolAssumption ==
  PoolMax \in Nat /\ Buffers \in Nat /\ Buffers > PoolMax

(* buffer_checkout: the most recent buffer of the pool, or a new one.          *)
Checkout(s) ==
  IF s.pool # <<>>
  THEN [s EXCEPT !.c.buf = Last(s.pool), !.pool = Front(s.pool)]
  ELSE LET b == CHOOSE b \in 1..Buffers : b \notin s.live
       IN  [s EXCEPT !.c.buf = b, !.live = @ \union {b}]

(* Mutants of buffer_checkin: the limit forgotten; the buffer still held by    *)
(* the connection that gave it back.                                           *)
CheckinNoLimit(s) == [s EXCEPT !.pool = Append(@, s.c.buf), !.c.buf = 0]
CheckinKeeps(s) ==
  IF Len(s.pool) >= PoolMax
  THEN [s EXCEPT !.live = @ \ {s.c.buf}, !.c.buf = 0]
  ELSE [s EXCEPT !.pool = Append(@, s.c.buf)]

(* buffer_checkin: a full pool frees the buffer.                               *)
Checkin(s) ==
  IF Len(s.pool) >= PoolMax
  THEN [s EXCEPT !.live = @ \ {s.c.buf}, !.c.buf = 0]
  ELSE [s EXCEPT !.pool = Append(@, s.c.buf), !.c.buf = 0]

(* rb_trilogy_acquire_buffer, rb_trilogy_release_buffer.                       *)
Acquire(s) == IF s.c.buf = 0 THEN Checkout(s) ELSE s
Release(s) == IF s.c.buf # 0 THEN Checkin(s) ELSE s

(* trilogy_buffer_free: the buffer goes back to the allocator, not the pool.   *)
BufferFree(s) == [s EXCEPT !.live = @ \ {s.c.buf}, !.c.buf = 0]
=============================================================================
