--------------------------- MODULE Binding_proofs ---------------------------
(***************************************************************************)
(* Proofs about Binding, for any number of objects, of descriptors and of  *)
(* addresses, and any size of the pool.                                    *)
(***************************************************************************)
EXTENDS Binding, FiniteSetTheorems, WellFoundedInduction, TLAPS

Ops == {"plain", "query", "next"}
Places == {"no", "resolving", "connecting", "tls"}
Ids == 0..Buffers
Addresses == 0..Addrs
Faults == SUBSET ({"socket", "descriptor", "error text"} \X Pcs)
CtxType ==
  [pc : Pcs, op : Ops, buf : Ids, more : BOOLEAN,
   linked : BOOLEAN, addr : Addresses, kept : BOOLEAN, lost : Places,
   shared : BOOLEAN, used : BOOLEAN, wire : BOOLEAN, faults : Faults]
SockType ==
  [mem : {"none", "live", "freed"}, fd : 0..Fds, ssl : {"none", "init", "up"},
   ops : {"raw", "ssl", "stub"}]
Owners == Objects \cup {Nobody, Foreign}
StateType ==
  [c : CtxType, k : SockType, pool : Seq(1..Buffers), live : SUBSET (1..Buffers),
   table : [1..Fds -> Owners], me : Objects]

\* What is known of one object between two steps, whatever the others do.
\* Waiting for the server it is linked; connecting it is not, and owns a socket.
Linked(c, k) ==
  /\ c.pc \in Waits \ {"connecting"} => c.linked
  /\ c.linked => k.mem = "live" /\ c.pc \notin {"new", "resolving", "connecting", "gone"}
  /\ c.pc = "new" => k.mem # "live" /\ k.ssl = "none"
  /\ c.pc \in {"resolving", "connecting", "hello", "request"} =>
       k.mem = "live" /\ k.ops = "raw" /\ k.ssl = "none"
  /\ c.pc = "resolving" => k.fd = 0

\* The TLS session and the callbacks that stand for it.
Sessions(c, k) ==
  /\ k.ops = "stub" => k.fd = 0
  /\ k.mem = "live" /\ k.ops = "ssl" => k.ssl = "up"
  /\ k.ssl = "up" => c.linked /\ k.ops = "ssl"
  /\ k.ssl = "init" => c.pc = "tls" \/ c.lost = "tls"
  /\ c.pc = "tls" => k.ops = "raw"

\* What an object that no call will touch again still holds.
Abandoned(c, k) ==
  /\ c.lost # "no" => c.pc \in {"dropped", "gone"}
  /\ c.pc \in {"idle", "dropped", "gone"} /\ ~c.linked /\ k.mem = "live" =>
       /\ c.lost \in {"resolving", "connecting"}
       /\ k.fd # 0 => forked /\ c.lost = "connecting"

\* A buffer kept for next_result.
Kept(c) == c.kept => c.pc = "idle" /\ c.buf # 0

\* What a child did with what it inherited.
Inherited(c) ==
  /\ c.wire => c.used
  /\ c.used => forked
  /\ c.shared => forked
  /\ c.pc = "closing" /\ c.shared => c.used

Excused == {<<"socket", "resolving">>} \cup {<<"error text", at>> : at \in {"hello", "auth", "reading"}}

Ok(c, k) ==
  Linked(c, k) /\ Sessions(c, k) /\ Abandoned(c, k) /\ Kept(c) /\ Inherited(c) /\ c.faults \subseteq Excused

\* A descriptor in the table is its owner's as long as the owner's socket lives.
Owned(o, k, tab) == \A f \in 1..Fds : tab[f] = o <=> k.mem = "live" /\ k.fd = f

IInv ==
  /\ TypeOK
  /\ BuffersExclusive
  /\ \A o \in Objects : Owned(o, sock[o], table)
  /\ \A o \in Objects : Ok(ctx[o], sock[o])

-----------------------------------------------------------------------------
(* The state of one object while a step is computed.                         *)

Others(o) == {Held(p) : p \in Objects \ {o}} \ {0}

Apart(b, pl, lv, H) ==
  /\ b \notin H
  /\ \A i \in DOMAIN pl : pl[i] # b /\ pl[i] \notin H
  /\ \A i, j \in DOMAIN pl : pl[i] = pl[j] => i = j
  /\ lv = ({b} \ {0}) \cup H \cup {pl[i] : i \in DOMAIN pl}

Sound(o, s) ==
  /\ s \in StateType /\ s.me = o /\ Len(s.pool) <= PoolMax
  /\ Apart(s.c.buf, s.pool, s.live, Others(o))
  /\ Owned(o, s.k, s.table)
  /\ \A f \in 1..Fds, p \in Objects \ {o} : s.table[f] = p <=> table[f] = p

\* The operators change the object's own state, and what they change elsewhere
\* is nobody else's.
Becomes(o, t, c, k) == Sound(o, t) /\ t.c = c /\ t.k = k

\* As there are at least as many buffers as objects, one is left for an object that
\* holds none and finds the pool empty (buffer_checkout, cext.c:119).
LEMMA Room ==
  ASSUME TypeOK, NEW o \in Objects
  PROVE  /\ Others(o) \subseteq 1..Buffers /\ 0 \notin Others(o)
         /\ \E b \in 1..Buffers : b \notin Others(o)
<1>0. \A p \in Objects : ctx[p].buf \in 0..Buffers
  BY DEF TypeOK
<1>1. /\ Others(o) \subseteq 1..Buffers /\ 0 \notin Others(o)
  BY <1>0, PoolAssumption DEF Others, Held
<1>2. IsFiniteSet(Objects) /\ Cardinality(Objects) <= Buffers /\ Buffers \in Nat
  BY BindingAssumption, PoolAssumption
<1> DEFINE P == Objects \ {o}
           g == [b \in 1..Buffers |-> CHOOSE p \in P : Held(p) = b]
<1>3. IsFiniteSet(P) /\ Cardinality(P) = Cardinality(Objects) - 1 /\ Cardinality(Objects) \in Nat
  BY <1>2, FS_RemoveElement, FS_CardinalityType
<1>4. IsFiniteSet(1..Buffers) /\ Cardinality(1..Buffers) = Buffers
  BY <1>2, FS_Interval
<1>5. SUFFICES ASSUME \A b \in 1..Buffers : b \in Others(o) PROVE FALSE
  BY <1>1
<1>6. \A b \in 1..Buffers : g[b] \in P /\ Held(g[b]) = b
  BY <1>5 DEF Others
<1>7. g \in [1..Buffers -> P]
  BY <1>6
<1> HIDE DEF g, P
<1>8. \E x, y \in 1..Buffers : x # y /\ g[x] = g[y]
  BY <1>2, <1>3, <1>4, <1>7, FS_PigeonHole
<1>9. QED
  BY <1>6, <1>8

\* A new state of the object itself leaves the buffers and the descriptors alone.
LEMMA Set ==
  ASSUME NEW o \in Objects, NEW s, Sound(o, s),
         NEW c \in CtxType, c.buf = s.c.buf,
         NEW k \in SockType, k.mem = s.k.mem, k.fd = s.k.fd
  PROVE  /\ Becomes(o, [s EXCEPT !.c = c], c, s.k)
         /\ Becomes(o, [s EXCEPT !.k = k], s.c, k)
<1>1. s \in StateType
  BY DEF Sound
<1>2. /\ [s EXCEPT !.c = c] = [c |-> c, k |-> s.k, pool |-> s.pool, live |-> s.live, table |-> s.table, me |-> s.me]
      /\ [s EXCEPT !.k = k] = [c |-> s.c, k |-> k, pool |-> s.pool, live |-> s.live, table |-> s.table, me |-> s.me]
  BY <1>1 DEF StateType
<1>3. QED
  BY <1>1, <1>2 DEF Sound, Becomes, StateType, Owned

\* The length, the indices and the elements of a sequence, such as the pool.
LEMMA Elements ==
  ASSUME NEW S, NEW q \in Seq(S)
  PROVE  Len(q) \in Nat /\ DOMAIN q = 1..Len(q) /\ \A i \in 1..Len(q) : q[i] \in S
OBVIOUS

\* The pool without its last buffer is a pool, and what was last is a buffer.
LEMMA Popped ==
  ASSUME NEW S, NEW q \in Seq(S), q # <<>>
  PROVE  /\ Len(q) > 0 /\ q[Len(q)] \in S
         /\ SubSeq(q, 1, Len(q) - 1) \in Seq(S)
         /\ Len(SubSeq(q, 1, Len(q) - 1)) = Len(q) - 1
<1>1. Len(q) \in Nat /\ Len(q) > 0
  OBVIOUS
<1> DEFINE n == Len(q) - 1
           r == SubSeq(q, 1, n)
<1>2. n \in Nat /\ n + 1 = Len(q)
  BY <1>1
<1> HIDE DEF n
<1>3. r = [i \in 1..n |-> q[i]]
  BY <1>2
<1>4. \A i \in 1..n : q[i] \in S
  BY <1>2
<1>5. r \in Seq(S) /\ Len(r) = n
  BY <1>2, <1>3, <1>4
<1>6. q[Len(q)] \in S
  BY <1>1
<1>7. QED BY <1>1, <1>5, <1>6 DEF n

\* Buffers change hands between the pool, the allocator and one object; as long as
\* they stay apart from those of the others, nothing else changes.
LEMMA SetBuffer ==
  ASSUME NEW o \in Objects, NEW s, Sound(o, s),
         NEW b \in 0..Buffers, NEW pl \in Seq(1..Buffers), NEW lv \in SUBSET (1..Buffers),
         Len(pl) <= PoolMax, Apart(b, pl, lv, Others(o)),
         NEW t, t = [c |-> [s.c EXCEPT !.buf = b], k |-> s.k, pool |-> pl, live |-> lv, table |-> s.table, me |-> s.me]
  PROVE  Becomes(o, t, [s.c EXCEPT !.buf = b], s.k)
<1>1. s \in StateType
  BY DEF Sound
<1>2. [s.c EXCEPT !.buf = b] \in CtxType /\ [s.c EXCEPT !.buf = b].buf = b
  BY <1>1 DEF StateType, CtxType, Ids
<1> DEFINE c == [s.c EXCEPT !.buf = b]
<1> HIDE DEF c
<1>3. t = [c |-> c, k |-> s.k, pool |-> pl, live |-> lv, table |-> s.table, me |-> s.me] /\ c \in CtxType /\ c.buf = b
  BY <1>2 DEF c
<1>4. t \in StateType /\ t.c = c /\ t.k = s.k /\ t.pool = pl /\ t.live = lv /\ t.table = s.table /\ t.me = s.me
  BY <1>1, <1>3 DEF StateType
<1>5. Sound(o, t)
  BY <1>3, <1>4 DEF Sound
<1>6. QED
  BY <1>4, <1>5 DEF Becomes, c

\* rb_trilogy_acquire_buffer (cext.c:180): afterwards the object holds a buffer, and
\* it is its own: the last of the pool, or a new one.
LEMMA AcquireLemma ==
  ASSUME TypeOK, NEW o \in Objects, NEW s, Sound(o, s)
  PROVE  \E b \in 1..Buffers : Becomes(o, Acquire(s), [s.c EXCEPT !.buf = b], s.k)
<1> DEFINE H == Others(o)
<1>1. s \in StateType /\ s.me = o /\ Apart(s.c.buf, s.pool, s.live, H) /\ Len(s.pool) <= PoolMax
  BY DEF Sound
<1>2. H \subseteq 1..Buffers /\ 0 \notin H /\ \E b \in 1..Buffers : b \notin H
  BY Room
<1> HIDE DEF H
<1>t. s.c \in CtxType /\ s.k \in SockType /\ s.pool \in Seq(1..Buffers) /\ s.live \in SUBSET (1..Buffers) /\ s.c.buf \in 0..Buffers
  BY <1>1 DEF StateType, CtxType, Ids
<1>3. CASE s.c.buf # 0
  <2>1. Acquire(s) = s /\ s.c = [s.c EXCEPT !.buf = s.c.buf]
    BY <1>3, <1>t DEF Acquire, CtxType
  <2>2. s.c.buf \in 1..Buffers
    BY <1>3, <1>t, PoolAssumption
  <2> QED BY <2>1, <2>2 DEF Becomes
<1>4. CASE s.c.buf = 0 /\ s.pool # <<>>
  <2> DEFINE n == Len(s.pool)
             b == s.pool[n]
             pl == SubSeq(s.pool, 1, n - 1)
  <2>0. n \in Nat /\ n > 0
    BY <1>4, <1>t
  <2>1. b \in 1..Buffers /\ pl \in Seq(1..Buffers) /\ Len(pl) = n - 1
    BY <1>4, <1>t, Popped
  <2>b. b \in 0..Buffers
    BY <2>1
  <2>2. \A i \in 1..(n - 1) : pl[i] = s.pool[i]
    BY <1>4, <1>t
  <2>3. DOMAIN pl = 1..(n - 1) /\ DOMAIN s.pool = 1..n
    BY <1>4, <1>t, <2>1
  <2>4. Acquire(s) = [s EXCEPT !.c.buf = b, !.pool = pl]
    BY <1>4 DEF Acquire, Checkout, Last, Front
  <2> HIDE DEF n, b, pl
  <2>5. Apart(b, pl, s.live, H)
    <3>1. n \in DOMAIN s.pool /\ b = s.pool[n]
      BY <2>0, <2>3 DEF b
    <3>2. \A i \in DOMAIN pl : i \in DOMAIN s.pool /\ i # n /\ pl[i] = s.pool[i]
      BY <2>0, <2>2, <2>3
    <3>3. \A i \in DOMAIN s.pool : i = n \/ i \in DOMAIN pl
      BY <2>0, <2>3
    <3>4. {s.pool[i] : i \in DOMAIN s.pool} = {b} \cup {pl[i] : i \in DOMAIN pl}
      BY <3>1, <3>2, <3>3
    <3>5. b \notin H /\ b # 0
      BY <1>1, <2>1, <3>1, PoolAssumption DEF Apart
    <3>6. \A i \in DOMAIN pl : pl[i] # b /\ pl[i] \notin H
      BY <1>1, <3>1, <3>2 DEF Apart
    <3>7. \A i, j \in DOMAIN pl : pl[i] = pl[j] => i = j
      BY <1>1, <3>2 DEF Apart
    <3>8. s.live = {b} \cup H \cup {pl[i] : i \in DOMAIN pl}
      BY <1>1, <1>4, <3>4 DEF Apart
    <3>9. ({b} \ {0}) = {b}
      BY <3>5
    <3>10. QED BY <3>5, <3>6, <3>7, <3>8, <3>9 DEF Apart
  <2>6. Len(pl) <= PoolMax
    BY <1>1, <2>0, <2>1, PoolAssumption DEF n
  <2>7. Acquire(s) = [c |-> [s.c EXCEPT !.buf = b], k |-> s.k, pool |-> pl, live |-> s.live, table |-> s.table, me |-> s.me]
    BY <2>4, <1>1 DEF StateType
  <2>8. QED BY <2>b, <2>1, <2>5, <2>6, <2>7, <1>t, SetBuffer DEF H
<1>5. CASE s.c.buf = 0 /\ s.pool = <<>>
  <2> DEFINE b == CHOOSE b \in 1..Buffers : b \notin s.live
  <2>1. s.live = H
    BY <1>5, <1>1, <1>2 DEF Apart
  <2>2. b \in 1..Buffers /\ b \notin H
    BY <2>1, <1>2
  <2>3. Acquire(s) = [s EXCEPT !.c.buf = b, !.live = @ \cup {b}]
    BY <1>5 DEF Acquire, Checkout
  <2> HIDE DEF b
  <2>4. Apart(b, s.pool, s.live \cup {b}, H)
    BY <1>1, <1>5, <2>1, <2>2, <1>2 DEF Apart
  <2>5. Acquire(s) = [c |-> [s.c EXCEPT !.buf = b], k |-> s.k, pool |-> s.pool, live |-> s.live \cup {b}, table |-> s.table, me |-> s.me]
    BY <2>3, <1>1 DEF StateType
  <2>b. b \in 0..Buffers /\ s.live \cup {b} \in SUBSET (1..Buffers)
    BY <2>2, <1>t
  <2>6. QED BY <2>b, <2>4, <2>5, <1>1, <1>t, SetBuffer DEF H
<1> QED BY <1>3, <1>4, <1>5

\* rb_trilogy_release_buffer and buffer_checkin (cext.c:132, cext.c:187): afterwards the
\* object holds no buffer; the one it held is in the pool once, or freed.
LEMMA ReleaseLemma ==
  ASSUME TypeOK, NEW o \in Objects, NEW s, Sound(o, s)
  PROVE  /\ Becomes(o, Release(s), [s.c EXCEPT !.buf = 0], s.k)
         /\ Becomes(o, BufferFree(s), [s.c EXCEPT !.buf = 0], s.k)
<1> DEFINE H == Others(o)
<1>1. s \in StateType /\ s.me = o /\ Apart(s.c.buf, s.pool, s.live, H) /\ Len(s.pool) <= PoolMax
  BY DEF Sound
<1>2. H \subseteq 1..Buffers /\ 0 \notin H
  BY Room
<1> HIDE DEF H
<1>t. s.c \in CtxType /\ s.k \in SockType /\ s.pool \in Seq(1..Buffers) /\ s.live \in SUBSET (1..Buffers) /\ s.c.buf \in 0..Buffers
  BY <1>1 DEF StateType, CtxType, Ids
<1>d. DOMAIN s.pool = 1..Len(s.pool) /\ Len(s.pool) \in Nat /\ \A i \in DOMAIN s.pool : s.pool[i] \in 1..Buffers
  BY <1>t, Elements
<1>3. Apart(0, s.pool, s.live \ {s.c.buf}, H)
  BY <1>1, <1>2, <1>d DEF Apart
<1> DEFINE freed == [c |-> [s.c EXCEPT !.buf = 0], k |-> s.k, pool |-> s.pool, live |-> s.live \ {s.c.buf}, table |-> s.table, me |-> s.me]
<1>4. BufferFree(s) = freed
  <2> DEFINE l == s.live \ {s.c.buf}
  <2>1. BufferFree(s) = [s EXCEPT !.live = l, !.c.buf = 0]
    BY DEF BufferFree
  <2> HIDE DEF l
  <2> DEFINE u == [s EXCEPT !.live = l]
  <2>2. BufferFree(s) = [u EXCEPT !.c = [u.c EXCEPT !.buf = 0]]
    BY <2>1
  <2>3. u = [c |-> s.c, k |-> s.k, pool |-> s.pool, live |-> l, table |-> s.table, me |-> s.me]
    BY <1>1 DEF StateType
  <2> HIDE DEF u
  <2>4. u.c = s.c
    BY <2>3
  <2>5. BufferFree(s) = [c |-> [s.c EXCEPT !.buf = 0], k |-> s.k, pool |-> s.pool, live |-> l, table |-> s.table, me |-> s.me]
    BY <2>2, <2>3, <2>4
  <2> QED BY <2>5 DEF l
<1>5. Becomes(o, freed, [s.c EXCEPT !.buf = 0], s.k)
  <2>1. 0 \in 0..Buffers /\ s.live \ {s.c.buf} \in SUBSET (1..Buffers)
    BY <1>t, PoolAssumption
  <2>2. QED
    BY <2>1, <1>1, <1>3, <1>t, SetBuffer DEF H
<1>6. CASE s.c.buf = 0
  <2>1. Release(s) = s /\ [s.c EXCEPT !.buf = 0] = s.c
    BY <1>6, <1>t DEF Release, CtxType
  <2> QED BY <2>1, <1>4, <1>5 DEF Becomes
<1>7. CASE s.c.buf # 0 /\ Len(s.pool) >= PoolMax
  <2>1. Release(s) = freed
    BY <1>7, <1>1 DEF StateType, Release, Checkin
  <2> QED BY <2>1, <1>4, <1>5
<1>8. CASE s.c.buf # 0 /\ ~ (Len(s.pool) >= PoolMax)
  <2> DEFINE pl == Append(s.pool, s.c.buf)
  <2>1. s.c.buf \in 1..Buffers
    BY <1>8, <1>t, PoolAssumption
  <2>2. pl \in Seq(1..Buffers) /\ Len(pl) = Len(s.pool) + 1 /\ DOMAIN pl = 1..(Len(s.pool) + 1)
    BY <2>1, <1>t
  <2>3. /\ \A i \in DOMAIN s.pool : pl[i] = s.pool[i]
        /\ pl[Len(s.pool) + 1] = s.c.buf
    BY <2>1, <1>t
  <2>4. Release(s) = [c |-> [s.c EXCEPT !.buf = 0], k |-> s.k, pool |-> pl, live |-> s.live, table |-> s.table, me |-> s.me]
    BY <1>8, <1>1 DEF StateType, Release, Checkin
  <2>5. Len(pl) <= PoolMax
    BY <1>8, <2>2, <1>d, PoolAssumption
  <2> HIDE DEF pl
  <2>6. \A i \in DOMAIN pl : i \in DOMAIN s.pool \/ i = Len(s.pool) + 1
    BY <2>2, <1>d
  <2>7. {pl[i] : i \in DOMAIN pl} = {s.pool[i] : i \in DOMAIN s.pool} \cup {s.c.buf}
    BY <2>2, <2>3, <2>6, <1>d
  <2>8. Apart(0, pl, s.live, H)
    BY <1>1, <1>2, <1>8, <1>d, <2>1, <2>2, <2>3, <2>6, <2>7 DEF Apart
  <2>9. Becomes(o, Release(s), [s.c EXCEPT !.buf = 0], s.k)
    BY <2>2, <2>4, <2>5, <2>8, <1>t, SetBuffer, PoolAssumption DEF H
  <2> QED BY <2>9, <1>4, <1>5
<1> QED BY <1>6, <1>7, <1>8

-----------------------------------------------------------------------------
(* The socket layer.                                                         *)

\* An operator that works on the socket and on the object's own descriptor leaves
\* every other object what it had.
LEMMA SetSocket ==
  ASSUME NEW o \in Objects, NEW s, Sound(o, s), NEW k \in SockType, NEW tab \in [1..Fds -> Owners],
         Owned(o, k, tab), \A f \in 1..Fds, p \in Objects \ {o} : tab[f] = p <=> s.table[f] = p,
         NEW c \in CtxType, c.buf = s.c.buf,
         NEW t, t = [c |-> c, k |-> k, pool |-> s.pool, live |-> s.live, table |-> tab, me |-> s.me]
  PROVE  Becomes(o, t, c, k)
<1>1. s \in StateType
  BY DEF Sound
<1>2. t \in StateType /\ t.c = c /\ t.k = k /\ t.pool = s.pool /\ t.live = s.live /\ t.table = tab /\ t.me = s.me
  BY <1>1 DEF StateType
<1>3. Sound(o, t)
  BY <1>2 DEF Sound
<1>4. QED
  BY <1>2, <1>3 DEF Becomes

\* close(2) of an object's own descriptor frees it, and harms nobody else.
LEMMA CloseFdLemma ==
  ASSUME NEW o \in Objects, NEW s, Sound(o, s), s.k.mem = "live"
  PROVE  \E tab \in [1..Fds -> Owners] :
           /\ CloseFd(s) = [c |-> s.c, k |-> s.k, pool |-> s.pool, live |-> s.live, table |-> tab, me |-> s.me]
           /\ \A f \in 1..Fds : tab[f] # o
           /\ \A f \in 1..Fds, p \in Objects \ {o} : tab[f] = p <=> s.table[f] = p
<1>1. s \in StateType /\ s.me = o /\ Owned(o, s.k, s.table)
  BY DEF Sound
<1>2. s.k.fd \in 0..Fds /\ s.table \in [1..Fds -> Owners] /\ Fds \in Nat
  BY <1>1, SocketAssumption DEF StateType, SockType
<1>3. s = [c |-> s.c, k |-> s.k, pool |-> s.pool, live |-> s.live, table |-> s.table, me |-> s.me]
  BY <1>1 DEF StateType
<1>4. CASE s.k.fd = 0
  <2>1. CloseFd(s) = s /\ \A f \in 1..Fds : s.table[f] # o
    BY <1>4, <1>1, <1>2 DEF CloseFd, Owned
  <2>2. QED BY <2>1, <1>2, <1>3
<1>5. CASE s.k.fd # 0
  <2> DEFINE tab == [s.table EXCEPT ![s.k.fd] = Nobody]
  <2>1. s.k.fd \in 1..Fds /\ s.table[s.k.fd] = o
    BY <1>1, <1>2, <1>5 DEF Owned
  <2>2. CloseFd(s) = [s EXCEPT !.table = tab]
    BY <1>1, <1>5, <2>1 DEF CloseFd
  <2>3. tab \in [1..Fds -> Owners]
    BY <1>2 DEF Owners
  <2>4. \A f \in 1..Fds : tab[f] = IF f = s.k.fd THEN Nobody ELSE s.table[f]
    BY <1>2
  <2> HIDE DEF tab
  <2>5. CloseFd(s) = [c |-> s.c, k |-> s.k, pool |-> s.pool, live |-> s.live, table |-> tab, me |-> s.me]
    BY <1>1, <2>2 DEF StateType
  <2>6. o # Nobody /\ \A p \in Objects : p # Nobody
    BY BindingAssumption
  <2>7. \A f \in 1..Fds : tab[f] # o
    BY <1>1, <2>4, <2>6 DEF Owned
  <2>8. \A f \in 1..Fds, p \in Objects \ {o} : tab[f] = p <=> s.table[f] = p
    BY <2>1, <2>4, <2>6
  <2>9. QED BY <2>3, <2>5, <2>7, <2>8
<1>6. QED BY <1>4, <1>5

\* A use of a trilogy_sock_t that is allocated is no fault.
LEMMA TouchLemma ==
  ASSUME NEW s, s.k.mem = "live"
  PROVE  Touch(s) = s
BY DEF Touch

\* What is left of a socket after trilogy_sock_shutdown and trilogy_sock_close.
WasShut(k) == [mem |-> "live", fd |-> 0, ssl |-> IF k.ops = "ssl" THEN "none" ELSE k.ssl, ops |-> "stub"]
WasClosed(k) == [mem |-> "freed", fd |-> k.fd, ssl |-> IF k.ops = "ssl" THEN "none" ELSE k.ssl, ops |-> k.ops]
Wired(c, k) ==
  [c EXCEPT !.wire = @ \/ (k.ops = "ssl" /\ k.ssl = "up" /\ c.shared /\ k.fd # 0)]

\* _cb_raw_shutdown (socket.c:160): the descriptor is closed and forgotten, and every
\* callback is a stub.
LEMMA RawShutdownLemma ==
  ASSUME NEW o \in Objects, NEW s, Sound(o, s), s.k.mem = "live"
  PROVE  Becomes(o, RawShutdown(s), s.c, [mem |-> "live", fd |-> 0, ssl |-> s.k.ssl, ops |-> "stub"])
<1>1. s \in StateType /\ s.k \in SockType /\ s.c \in CtxType /\ Fds \in Nat
  BY SocketAssumption DEF Sound, StateType
<1>2. PICK tab \in [1..Fds -> Owners] :
           /\ CloseFd(s) = [c |-> s.c, k |-> s.k, pool |-> s.pool, live |-> s.live, table |-> tab, me |-> s.me]
           /\ \A f \in 1..Fds : tab[f] # o
           /\ \A f \in 1..Fds, p \in Objects \ {o} : tab[f] = p <=> s.table[f] = p
  BY CloseFdLemma
<1> DEFINE k == [mem |-> "live", fd |-> 0, ssl |-> s.k.ssl, ops |-> "stub"]
<1>3. k = [[s.k EXCEPT !.ops = "stub"] EXCEPT !.fd = 0]
  <2>1. [s.k EXCEPT !.ops = "stub"] = [mem |-> "live", fd |-> s.k.fd, ssl |-> s.k.ssl, ops |-> "stub"]
    BY <1>1 DEF SockType
  <2> DEFINE k1 == [s.k EXCEPT !.ops = "stub"]
  <2> HIDE DEF k1
  <2>2. k1 = [mem |-> "live", fd |-> s.k.fd, ssl |-> s.k.ssl, ops |-> "stub"]
    BY <2>1 DEF k1
  <2>3. [k1 EXCEPT !.fd = 0] = k
    BY <2>2
  <2>4. QED BY <2>3 DEF k1
<1>4. k \in SockType
  BY <1>1 DEF SockType
<1>5. Owned(o, k, tab)
  BY <1>2 DEF Owned
<1> HIDE DEF k
<1>6. RawShutdown(s) = [c |-> s.c, k |-> k, pool |-> s.pool, live |-> s.live, table |-> tab, me |-> s.me]
  <2> DEFINE u == CloseFd(s)
             k1 == [s.k EXCEPT !.ops = "stub"]
             v == [u EXCEPT !.k = [u.k EXCEPT !.ops = "stub"]]
  <2>1. RawShutdown(s) = [v EXCEPT !.k = [v.k EXCEPT !.fd = 0]]
    BY DEF RawShutdown
  <2>2. u.k = s.k
    BY <1>2
  <2>3. v = [c |-> s.c, k |-> k1, pool |-> s.pool, live |-> s.live, table |-> tab, me |-> s.me]
    BY <1>2, <2>2
  <2> HIDE DEF u, v, k1
  <2>4. [v EXCEPT !.k = k] = [c |-> s.c, k |-> k, pool |-> s.pool, live |-> s.live, table |-> tab, me |-> s.me]
    BY <2>3
  <2>5. k = [v.k EXCEPT !.fd = 0]
    BY <2>3, <1>3 DEF k1
  <2>6. QED BY <2>1, <2>4, <2>5
<1>7. QED BY <1>1, <1>2, <1>4, <1>5, <1>6, SetSocket DEF k

\* _cb_raw_close (socket.c:97): the descriptor is closed and the structure freed.
LEMMA RawCloseLemma ==
  ASSUME NEW o \in Objects, NEW s, Sound(o, s), s.k.mem = "live"
  PROVE  Becomes(o, RawClose(s), s.c, [mem |-> "freed", fd |-> s.k.fd, ssl |-> s.k.ssl, ops |-> s.k.ops])
<1>1. s \in StateType /\ s.k \in SockType /\ s.c \in CtxType /\ Fds \in Nat
  BY SocketAssumption DEF Sound, StateType
<1>2. PICK tab \in [1..Fds -> Owners] :
           /\ CloseFd(s) = [c |-> s.c, k |-> s.k, pool |-> s.pool, live |-> s.live, table |-> tab, me |-> s.me]
           /\ \A f \in 1..Fds : tab[f] # o
           /\ \A f \in 1..Fds, p \in Objects \ {o} : tab[f] = p <=> s.table[f] = p
  BY CloseFdLemma
<1> DEFINE k == [mem |-> "freed", fd |-> s.k.fd, ssl |-> s.k.ssl, ops |-> s.k.ops]
<1>3. k = [s.k EXCEPT !.mem = "freed"]
  BY <1>1 DEF SockType
<1>4. k \in SockType
  BY <1>1 DEF SockType
<1>5. Owned(o, k, tab)
  BY <1>2 DEF Owned
<1> HIDE DEF k
<1>6. RawClose(s) = [c |-> s.c, k |-> k, pool |-> s.pool, live |-> s.live, table |-> tab, me |-> s.me]
  BY <1>2, <1>3 DEF RawClose
<1>7. QED BY <1>1, <1>2, <1>4, <1>5, <1>6, SetSocket DEF k

\* trilogy_sock_shutdown of a structure that is there: a second one, of a socket
\* whose descriptor is gone, changes nothing.
LEMMA ShutdownLemma ==
  ASSUME NEW o \in Objects, NEW s, Sound(o, s), s.k.mem = "live", s.k.ops = "stub" => s.k.fd = 0
  PROVE  Becomes(o, Shutdown(s), s.c, WasShut(s.k))
<1>1. s \in StateType /\ s.k \in SockType /\ s.c \in CtxType
  BY DEF Sound, StateType
<1>2. Touch(s) = s
  BY TouchLemma
<1>3. s.k.ops \in {"raw", "ssl", "stub"} /\ s.k.ssl \in {"none", "init", "up"}
  BY <1>1 DEF SockType
<1>4. CASE s.k.ops = "raw"
  <2>1. Shutdown(s) = RawShutdown(s)
    BY <1>2, <1>4 DEF Shutdown
  <2>2. QED BY <1>4, <2>1, RawShutdownLemma DEF WasShut
<1>5. CASE s.k.ops = "stub"
  <2>1. Shutdown(s) = s
    BY <1>2, <1>5 DEF Shutdown
  <2>2. s.k = WasShut(s.k)
    BY <1>1, <1>5 DEF WasShut, SockType
  <2>3. QED BY <2>1, <2>2 DEF Becomes
<1>6. CASE s.k.ops = "ssl"
  <2> DEFINE k == [s.k EXCEPT !.ssl = "none"]
             u == [s EXCEPT !.k = k]
  <2>1. k \in SockType /\ k.mem = s.k.mem /\ k.fd = s.k.fd /\ k.ssl = "none"
    BY <1>1 DEF SockType
  <2>2. Shutdown(s) = RawShutdown(u)
    BY <1>2, <1>6 DEF Shutdown, SslShutdown
  <2> HIDE DEF k
  <2>3. s.c \in CtxType /\ Becomes(o, u, s.c, k)
    BY <1>1, <2>1, Set
  <2> HIDE DEF u
  <2>4. Sound(o, u) /\ u.k = k /\ u.c = s.c
    BY <2>3 DEF Becomes
  <2>5. WasShut(s.k) = [mem |-> "live", fd |-> 0, ssl |-> u.k.ssl, ops |-> "stub"]
    BY <2>1, <2>4, <1>6 DEF WasShut
  <2>6. Becomes(o, RawShutdown(u), s.c, WasShut(s.k))
    BY <2>1, <2>4, <2>5, RawShutdownLemma
  <2>7. QED BY <2>2, <2>6 DEF Becomes
<1>7. QED BY <1>3, <1>4, <1>5, <1>6

\* trilogy_sock_close: an established session says goodbye on the wire, then the
\* structure is freed.
LEMMA SockCloseLemma ==
  ASSUME NEW o \in Objects, NEW s, Sound(o, s), s.k.mem = "live"
  PROVE  Becomes(o, SockClose(s), Wired(s.c, s.k), WasClosed(s.k))
<1>1. s \in StateType /\ s.k \in SockType /\ s.c \in CtxType
  BY DEF Sound, StateType
<1>2. Touch(s) = s
  BY TouchLemma
<1>3. s.k.ops \in {"raw", "ssl", "stub"} /\ s.k.ssl \in {"none", "init", "up"} /\ s.c.wire \in BOOLEAN
  BY <1>1 DEF SockType, CtxType
<1>4. CASE s.k.ops # "ssl"
  <2>1. SockClose(s) = RawClose(s)
    BY <1>2, <1>4 DEF SockClose
  <2>2. Wired(s.c, s.k) = s.c /\ WasClosed(s.k) = [mem |-> "freed", fd |-> s.k.fd, ssl |-> s.k.ssl, ops |-> s.k.ops]
    BY <1>1, <1>3, <1>4 DEF WasClosed, Wired, CtxType
  <2>3. QED BY <2>1, <2>2, RawCloseLemma
<1>5. CASE s.k.ops = "ssl"
  <2> DEFINE w == IF s.k.ssl = "up" THEN Wire(s) ELSE s
             c == Wired(s.c, s.k)
             k == [s.k EXCEPT !.ssl = "none"]
             u == [w EXCEPT !.k = [w.k EXCEPT !.ssl = "none"]]
  <2>1. c \in CtxType /\ c.buf = s.c.buf
    BY <1>1 DEF CtxType, Wired
  <2>2. w = [s EXCEPT !.c = c]
    <3>1. CASE s.k.ssl = "up"
      <4>1. Wire(s) = [s EXCEPT !.c = [s.c EXCEPT !.wire = @ \/ (s.c.shared /\ s.k.fd # 0)]]
        BY <1>1 DEF Wire, StateType
      <4>2. QED BY <3>1, <4>1, <1>5, <1>1 DEF Wired
    <3>2. CASE s.k.ssl # "up"
      <4>1. w = s /\ c = s.c
        BY <3>2, <1>5, <1>1 DEF Wired, CtxType
      <4>2. QED BY <4>1, <1>1 DEF StateType
    <3>3. QED BY <3>1, <3>2
  <2>3. k \in SockType /\ k.mem = s.k.mem /\ k.fd = s.k.fd /\ k.ssl = "none" /\ k.ops = s.k.ops
    BY <1>1 DEF SockType
  <2>4. SockClose(s) = RawClose(u)
    BY <1>2, <1>5 DEF SockClose, SslClose
  <2> HIDE DEF w, c
  <2>5. Becomes(o, w, c, s.k)
    BY <1>1, <2>1, <2>2, Set
  <2>6. u = [w EXCEPT !.k = k] /\ Sound(o, w) /\ w.c = c /\ w.k = s.k
    BY <2>5 DEF Becomes
  <2> HIDE DEF k, u
  <2>7. Becomes(o, u, c, k)
    BY <2>1, <2>3, <2>6, Set
  <2>8. Sound(o, u) /\ u.k = k /\ u.c = c
    BY <2>7 DEF Becomes
  <2>9. WasClosed(s.k) = [mem |-> "freed", fd |-> u.k.fd, ssl |-> u.k.ssl, ops |-> u.k.ops]
    BY <2>3, <2>8, <1>5 DEF WasClosed
  <2>10. Becomes(o, RawClose(u), c, WasClosed(s.k))
    BY <2>3, <2>8, <2>9, RawCloseLemma
  <2>11. QED BY <2>4, <2>10 DEF c
<1>6. QED BY <1>4, <1>5

\* Min of a set of descriptors.
Lt == {ss \in Nat \X Nat : ss[1] < ss[2]}

\* The order of the natural numbers is well-founded.
LEMMA LtWellFounded == IsWellFoundedOn(Lt, Nat)
BY NatLessThanWellFounded, SMT DEF OpToRel, Lt

\* A set of descriptors that is not empty has a lowest one.
LEMMA MinLemma ==
  ASSUME NEW S \in SUBSET Nat, S # {}
  PROVE  Min(S) \in S
<1>0. \E x \in S : \A y \in S : ~ (<<y, x>> \in Lt)
  BY LtWellFounded, WFMin
<1>1. \A x, y \in Nat : y < x => <<y, x>> \in Lt
  BY DEF Lt
<1>2. PICK x \in S : \A y \in S : ~ (<<y, x>> \in Lt)
  BY <1>0
<1>3. \A y \in S : ~(y < x)
  BY <1>1, <1>2
<1>4. \A y \in S : x <= y
  BY <1>3
<1>5. QED BY <1>2, <1>4 DEF Min

\* socket() in raw_connect_internal (socket.c:196) takes a descriptor nobody has.
LEMMA OpenFdLemma ==
  ASSUME NEW o \in Objects, NEW s, Sound(o, s), s.k.mem = "live", s.k.fd = 0, FreeFds(s) # {}
  PROVE  \E f \in 1..Fds :
           Becomes(o, OpenFd(s), s.c, [mem |-> "live", fd |-> f, ssl |-> s.k.ssl, ops |-> s.k.ops])
<1>1. s \in StateType /\ s.k \in SockType /\ s.c \in CtxType /\ s.me = o /\ Fds \in Nat /\ Owned(o, s.k, s.table)
  BY SocketAssumption DEF Sound, StateType
<1>2. s.table \in [1..Fds -> Owners]
  BY <1>1 DEF StateType
<1> DEFINE f == Min(FreeFds(s))
<1>3. f \in FreeFds(s)
  BY <1>1, MinLemma DEF FreeFds
<1>4. f \in 1..Fds /\ s.table[f] = Nobody
  BY <1>3 DEF FreeFds
<1> DEFINE k == [mem |-> "live", fd |-> f, ssl |-> s.k.ssl, ops |-> s.k.ops]
           tab == [s.table EXCEPT ![f] = o]
<1>5. OpenFd(s) = [[s EXCEPT !.k = [s.k EXCEPT !.fd = f]] EXCEPT !.table = tab]
  BY <1>1 DEF OpenFd
<1> HIDE DEF f
<1>6. tab \in [1..Fds -> Owners] /\ \A g \in 1..Fds : tab[g] = IF g = f THEN o ELSE s.table[g]
  BY <1>2, <1>4 DEF Owners
<1>7. o # Nobody /\ \A p \in Objects : p # Nobody
  BY BindingAssumption
<1>8. k = [s.k EXCEPT !.fd = f] /\ k \in SockType
  BY <1>1, <1>4 DEF SockType
<1>9. Owned(o, k, tab)
  BY <1>1, <1>4, <1>6, <1>7 DEF Owned
<1>10. \A g \in 1..Fds, p \in Objects \ {o} : tab[g] = p <=> s.table[g] = p
  BY <1>4, <1>6, <1>7
<1> HIDE DEF k, tab
<1>11. OpenFd(s) = [c |-> s.c, k |-> k, pool |-> s.pool, live |-> s.live, table |-> tab, me |-> s.me]
  BY <1>1, <1>5, <1>8 DEF StateType
<1>12. Becomes(o, OpenFd(s), s.c, k)
  BY <1>1, <1>6, <1>8, <1>9, <1>10, <1>11, SetSocket
<1>13. QED BY <1>4, <1>12 DEF k

\* The failures of raw_connect_internal close the descriptor and forget it.
LEMMA ConnectFailedLemma ==
  ASSUME NEW o \in Objects, NEW s, Sound(o, s), s.k.mem = "live"
  PROVE  Becomes(o, ConnectFailed(s), s.c, [mem |-> "live", fd |-> 0, ssl |-> s.k.ssl, ops |-> s.k.ops])
<1>1. s \in StateType /\ s.k \in SockType /\ s.c \in CtxType /\ Fds \in Nat
  BY SocketAssumption DEF Sound, StateType
<1>2. PICK tab \in [1..Fds -> Owners] :
           /\ CloseFd(s) = [c |-> s.c, k |-> s.k, pool |-> s.pool, live |-> s.live, table |-> tab, me |-> s.me]
           /\ \A f \in 1..Fds : tab[f] # o
           /\ \A f \in 1..Fds, p \in Objects \ {o} : tab[f] = p <=> s.table[f] = p
  BY CloseFdLemma
<1> DEFINE k == [mem |-> "live", fd |-> 0, ssl |-> s.k.ssl, ops |-> s.k.ops]
<1>3. k = [s.k EXCEPT !.fd = 0]
  BY <1>1 DEF SockType
<1>4. k \in SockType
  BY <1>1 DEF SockType
<1>5. Owned(o, k, tab)
  BY <1>2 DEF Owned
<1> HIDE DEF k
<1>6. ConnectFailed(s) = [c |-> s.c, k |-> k, pool |-> s.pool, live |-> s.live, table |-> tab, me |-> s.me]
  BY <1>2, <1>3 DEF ConnectFailed
<1>7. QED BY <1>1, <1>2, <1>4, <1>5, <1>6, SetSocket DEF k

\* trilogy_sock_new, when there was no socket: a fresh one, without descriptor.
LEMMA SockNewLemma ==
  ASSUME NEW o \in Objects, NEW s, Sound(o, s), s.k.mem # "live"
  PROVE  Becomes(o, SockNew(s), s.c, [mem |-> "live", fd |-> 0, ssl |-> "none", ops |-> "raw"])
<1>1. s \in StateType /\ s.k \in SockType /\ s.c \in CtxType /\ Fds \in Nat /\ Owned(o, s.k, s.table)
  BY SocketAssumption DEF Sound, StateType
<1> DEFINE k == [mem |-> "live", fd |-> 0, ssl |-> "none", ops |-> "raw"]
<1>2. k \in SockType /\ k = [NoSocket EXCEPT !.mem = "live"]
  BY <1>1 DEF SockType, NoSocket
<1>3. Owned(o, k, s.table) /\ s.table \in [1..Fds -> Owners]
  BY <1>1 DEF Owned, StateType
<1> HIDE DEF k
<1>4. SockNew(s) = [c |-> s.c, k |-> k, pool |-> s.pool, live |-> s.live, table |-> s.table, me |-> s.me]
  BY <1>1, <1>2 DEF SockNew, StateType
<1>5. QED BY <1>1, <1>2, <1>3, <1>4, SetSocket DEF k

-----------------------------------------------------------------------------
(* Errors.                                                                   *)

\* Enough to shut an object's connection down.
Closable(c, k) == (c.linked => k.mem = "live") /\ (k.ops = "stub" => k.fd = 0)

\* handle_trilogy_error: no buffer is left, and perhaps no connection.
Raised(c, fl) == [c EXCEPT !.kept = FALSE, !.buf = 0, !.faults = fl]

\* handle_trilogy_error (cext.c:269): the buffer is given back, a fatal error shuts
\* the connection down, and only the text of a server's error may be read too late.
LEMMA HandleErrorLemma ==
  ASSUME TypeOK, NEW o \in Objects, NEW s, Sound(o, s), NEW rc, Closable(s.c, s.k)
  PROVE  \E fl, k :
           /\ Becomes(o, HandleError(s, rc), Raised(s.c, fl), k)
           /\ k = s.k \/ (s.c.linked /\ k = WasShut(s.k))
           /\ \/ fl = s.c.faults
              \/ rc = "ERR" /\ s.c.linked /\ fl = s.c.faults \cup {<<"error text", s.c.pc>>}
<1> DEFINE c1 == [s.c EXCEPT !.kept = FALSE]
           s1 == [s EXCEPT !.c = c1]
           r == Release(s1)
           c2 == [c1 EXCEPT !.buf = 0]
           d == IF rc \notin Recoverable /\ r.c.linked THEN Shutdown(r) ELSE r
<1>1. s \in StateType /\ s.k \in SockType /\ s.c \in CtxType
  BY DEF Sound, StateType
<1>2. c1 \in CtxType /\ c1.buf = s.c.buf
  BY <1>1 DEF CtxType
<1>15. 0 \in Ids
  BY PoolAssumption DEF Ids
<1>3. c2 \in CtxType /\ c2.linked = s.c.linked /\ c2.faults = s.c.faults /\ c2.pc = s.c.pc /\ c2.buf = 0
  BY <1>1, <1>15 DEF CtxType
<1>13. \A fl : Raised(s.c, fl) = [c2 EXCEPT !.faults = fl]
  BY DEF Raised
<1>4. [s EXCEPT !.c.kept = FALSE] = s1
  OBVIOUS
<1> HIDE DEF c1
<1>5. Becomes(o, s1, c1, s.k)
  BY <1>1, <1>2, Set
<1> HIDE DEF s1
<1>6. Becomes(o, r, c2, s.k)
  BY <1>5, ReleaseLemma DEF Becomes
<1> HIDE DEF c2
<1>14. c2 = Raised(s.c, s.c.faults)
  <2>1. c2 = [c2 EXCEPT !.faults = c2.faults]
    BY <1>3 DEF CtxType
  <2>2. QED BY <2>1, <1>3, <1>13
<1> HIDE DEF r
<1>7. \E k : Becomes(o, d, c2, k) /\ (k = s.k \/ (s.c.linked /\ k = WasShut(s.k)))
  <2>1. Sound(o, r) /\ r.c = c2 /\ r.k = s.k
    BY <1>6 DEF Becomes
  <2>6. r.c.linked = s.c.linked
    BY <2>1, <1>3
  <2>2. d = r \/ (s.c.linked /\ d = Shutdown(r))
    BY <2>6
  <2> HIDE DEF d
  <2>3. CASE d = r
    <3>1. Becomes(o, d, c2, s.k)
      BY <2>1, <2>3 DEF Becomes
    <3>2. QED BY <3>1
  <2>4. CASE s.c.linked /\ d = Shutdown(r)
    BY <2>1, <2>4, ShutdownLemma DEF Closable
  <2>5. QED BY <2>2, <2>3, <2>4
<1>8. PICK k : Becomes(o, d, c2, k) /\ (k = s.k \/ (s.c.linked /\ k = WasShut(s.k)))
  BY <1>7
<1>9. HandleError(s, rc) = d \/ (HandleError(s, rc) = Fault(d, "error text") /\ rc = "ERR" /\ d.c.linked)
  BY <1>4 DEF HandleError, d, r
<1> HIDE DEF d
<1>10. CASE HandleError(s, rc) = d
  BY <1>14, <1>8, <1>10
<1>11. CASE HandleError(s, rc) = Fault(d, "error text") /\ rc = "ERR" /\ d.c.linked
  <2> DEFINE fl == s.c.faults \cup {<<"error text", s.c.pc>>}
  <2>1. Sound(o, d) /\ d.c = c2 /\ d.k = k
    BY <1>8 DEF Becomes
  <2>2. Fault(d, "error text") = [d EXCEPT !.c = Raised(s.c, fl)]
    BY <2>1, <1>3, <1>13 DEF Fault
  <2>3. s.c.faults \in Faults /\ s.c.pc \in Pcs
    BY <1>1 DEF CtxType
  <2>9. <<"error text", s.c.pc>> \in {"socket", "descriptor", "error text"} \X Pcs
    BY <2>3
  <2>4. fl \in Faults
    BY <2>3, <2>9 DEF Faults
  <2> HIDE DEF fl
  <2>10. Raised(s.c, fl) = [c2 EXCEPT !.faults = fl]
    BY <1>13
  <2>5. Raised(s.c, fl) \in CtxType /\ Raised(s.c, fl).buf = d.c.buf
    BY <2>1, <2>4, <2>10, <1>3 DEF CtxType
  <2>6. d.k \in SockType
    BY <2>1 DEF Sound, StateType
  <2>7. Becomes(o, [d EXCEPT !.c = Raised(s.c, fl)], Raised(s.c, fl), k)
    BY <2>1, <2>5, <2>6, Set
  <2>11. Becomes(o, HandleError(s, rc), Raised(s.c, fl), k)
    BY <2>2, <2>7, <1>11
  <2>12. rc = "ERR" /\ s.c.linked /\ fl = s.c.faults \cup {<<"error text", s.c.pc>>}
    BY <1>11, <2>1, <1>3 DEF fl
  <2>8. QED BY <2>11, <2>12, <1>8
<1>12. QED BY <1>9, <1>10, <1>11

\* What the socket returns is never the code of an error packet.
LEMMA ErrorCodes ==
  ASSUME NEW k, k.ops \in {"raw", "ssl", "stub"}, NEW rc, rc \in Results(k) \cup Failures(k) \cup CheckResults(k)
  PROVE  rc # "ERR"
BY DEF Results, Failures, WaitFailures, CheckResults

-----------------------------------------------------------------------------
(* One step of one object.                                                   *)

Fine(o, s) == Sound(o, s) /\ Ok(s.c, s.k)

\* The state a step starts from is sound.
LEMMA TakeLemma ==
  ASSUME IInv, NEW o \in Objects
  PROVE  /\ Becomes(o, Take(o), [ctx[o] EXCEPT !.faults = {}], sock[o])
         /\ ctx[o] \in CtxType /\ sock[o] \in SockType
         /\ Ok([ctx[o] EXCEPT !.faults = {}], sock[o])
<1>1. /\ ctx[o] \in CtxType /\ sock[o] \in SockType /\ pool \in Seq(1..Buffers) /\ Len(pool) <= PoolMax
      /\ live \in SUBSET (1..Buffers) /\ table \in [1..Fds -> Owners]
  BY DEF IInv, TypeOK, CtxType, SockType, Owners, Ids, Addresses, Faults, Ops, Places
<1>2. Ok(ctx[o], sock[o]) /\ Owned(o, sock[o], table)
  BY DEF IInv
<1> DEFINE c == [ctx[o] EXCEPT !.faults = {}]
<1>3. {} \in Faults
  BY DEF Faults
<1>4. c \in CtxType
  BY <1>1, <1>3 DEF CtxType
<1>5. /\ c.pc = ctx[o].pc /\ c.buf = ctx[o].buf /\ c.linked = ctx[o].linked /\ c.lost = ctx[o].lost
      /\ c.kept = ctx[o].kept /\ c.shared = ctx[o].shared /\ c.used = ctx[o].used /\ c.wire = ctx[o].wire
      /\ c.faults = {}
  BY <1>1 DEF CtxType
<1>6. Apart(ctx[o].buf, pool, live, Others(o))
  <2>1. Held(o) \notin Others(o) 
    BY DEF IInv, BuffersExclusive, Others
  <2>2. \A i \in DOMAIN pool : pool[i] # Held(o) /\ pool[i] \notin Others(o)
    BY DEF IInv, BuffersExclusive, Others
  <2>3. {Held(p) : p \in Objects} \ {0} = ({Held(o)} \ {0}) \cup Others(o)
    BY DEF Others
  <2>4. QED
    BY <2>1, <2>2, <2>3 DEF IInv, BuffersExclusive, Apart, Held
<1> DEFINE t == [c |-> c, k |-> sock[o], pool |-> pool, live |-> live, table |-> table, me |-> o]
<1>7. Take(o) = t
  BY DEF Take
<1> HIDE DEF c
<1>8. t \in StateType /\ t.c = c /\ t.k = sock[o] /\ t.pool = pool /\ t.live = live /\ t.table = table /\ t.me = o
  BY <1>1, <1>4 DEF StateType
<1> HIDE DEF t
<1>9. Sound(o, t)
  BY <1>1, <1>2, <1>5, <1>6, <1>8 DEF Sound
<1>10. Ok(c, sock[o])
  BY <1>2, <1>5 DEF Ok, Linked, Sessions, Abandoned, Kept, Inherited
<1>11. QED BY <1>1, <1>7, <1>8, <1>9, <1>10 DEF Becomes, c

\* A step that ends in a sound state of its object preserves the invariant for all.
LEMMA PutLemma ==
  ASSUME IInv, NEW o \in Objects, NEW t, Fine(o, t), Put(o, t)
  PROVE  IInv'
<1>1. /\ ctx' = [ctx EXCEPT ![o] = t.c] /\ sock' = [sock EXCEPT ![o] = t.k]
      /\ pool' = t.pool /\ live' = t.live /\ table' = t.table /\ forked' = forked
  BY DEF Put
<1>2. /\ t.c \in CtxType /\ t.k \in SockType /\ t.pool \in Seq(1..Buffers) /\ Len(t.pool) <= PoolMax
      /\ t.live \in SUBSET (1..Buffers) /\ t.table \in [1..Fds -> Owners]
      /\ Ok(t.c, t.k) /\ Owned(o, t.k, t.table) /\ Apart(t.c.buf, t.pool, t.live, Others(o))
      /\ \A f \in 1..Fds, p \in Objects \ {o} : t.table[f] = p <=> table[f] = p
  BY DEF Fine, Sound, StateType
<1>3. ctx \in [Objects -> CtxType] /\ sock \in [Objects -> SockType] /\ forked \in BOOLEAN
  BY DEF IInv, TypeOK, CtxType, SockType, Ids, Addresses, Faults, Ops, Places
<1>4. /\ ctx' \in [Objects -> CtxType] /\ sock' \in [Objects -> SockType]
      /\ \A p \in Objects : ctx'[p] = (IF p = o THEN t.c ELSE ctx[p]) /\ sock'[p] = (IF p = o THEN t.k ELSE sock[p])
  BY <1>1, <1>2, <1>3
<1>5. TypeOK'
  BY <1>1, <1>2, <1>3, <1>4 DEF TypeOK, CtxType, SockType, Owners, Ids, Addresses, Faults, Ops, Places
<1>6. Held(o)' = t.c.buf /\ \A p \in Objects \ {o} : Held(p)' = Held(p)
  BY <1>4 DEF Held
<1>7. BuffersExclusive'
  <2>1. \A p, q \in Objects : p # q /\ Held(p)' # 0 => Held(p)' # Held(q)'
    BY <1>2, <1>6 DEF IInv, BuffersExclusive, Apart, Others
  <2>2. \A p \in Objects, i \in DOMAIN pool' : Held(p)' # pool'[i]
    <3>1. \A i \in DOMAIN pool' : pool'[i] \in 1..Buffers
      <4>1. t.pool \in Seq(1..Buffers)
        BY <1>2
      <4>2. \A i \in DOMAIN t.pool : t.pool[i] \in 1..Buffers
        BY <4>1, Elements
      <4>3. QED BY <1>1, <4>2
    <3>2. \A i \in DOMAIN pool' : pool'[i] # 0
      BY <3>1
    <3>3. \A i \in DOMAIN pool' : pool'[i] # t.c.buf /\ pool'[i] \notin Others(o)
      BY <1>1, <1>2 DEF Apart
    <3>4. \A p \in Objects \ {o} : Held(p) = 0 \/ Held(p) \in Others(o)
      BY DEF Others
    <3>5. \A p \in Objects : Held(p)' = t.c.buf \/ Held(p)' = 0 \/ Held(p)' \in Others(o)
      BY <1>6, <3>4
    <3>6. QED BY <3>2, <3>3, <3>5
  <2>3. \A i, j \in DOMAIN pool' : pool'[i] = pool'[j] => i = j
    BY <1>1, <1>2 DEF Apart
  <2>4. {Held(p)' : p \in Objects} \ {0} = ({t.c.buf} \ {0}) \cup Others(o)
    BY <1>6 DEF Others
  <2>5. live' = ({Held(p)' : p \in Objects} \ {0}) \cup {pool'[i] : i \in DOMAIN pool'}
    BY <1>1, <1>2, <2>4 DEF Apart
  <2>6. QED BY <2>1, <2>2, <2>3, <2>5 DEF BuffersExclusive
<1>8. \A p \in Objects : Owned(p, sock[p], table)'
  BY <1>1, <1>2, <1>4 DEF IInv, Owned
<1>9. \A p \in Objects : Ok(ctx[p], sock[p])'
  BY <1>1, <1>2, <1>4 DEF IInv, Ok, Linked, Sessions, Abandoned, Kept, Inherited
<1>10. QED BY <1>5, <1>7, <1>8, <1>9 DEF IInv

\* A linked object in a call, between two waits.
Going(c, k) ==
  /\ c.linked /\ k.mem = "live" /\ c.lost = "no"
  /\ k.ops = "stub" => k.fd = 0
  /\ k.ops = "ssl" <=> k.ssl = "up"
  /\ c.wire => c.used
  /\ c.used => forked
  /\ c.shared => forked
  /\ c.faults \subseteq Excused

\* The same of an object whose socket was closed, or freed with the object.
Over(c, k) ==
  /\ ~c.linked /\ k.mem # "live" /\ c.lost = "no"
  /\ k.ops = "stub" => k.fd = 0
  /\ k.ssl = "none"
  /\ c.wire => c.used
  /\ c.used => forked
  /\ c.shared => forked
  /\ c.faults \subseteq Excused

\* Where an object may rest: a call has returned, or initialize has raised.
LEMMA RestOk ==
  ASSUME NEW c, NEW k, (Going(c, k) /\ k.ssl # "init") \/ Over(c, k),
         c.pc \in {"idle", "dropped"}, c.kept => c.pc = "idle" /\ c.buf # 0
  PROVE  Ok(c, k)
BY DEF Going, Over, Ok, Linked, Sessions, Abandoned, Kept, Inherited, Waits, Connecting

\* To wait elsewhere changes nothing but where the thread is.
LEMMA AtLemma ==
  ASSUME NEW o \in Objects, NEW s, Sound(o, s), NEW pc \in Pcs
  PROVE  /\ Becomes(o, At(s, pc), [s.c EXCEPT !.pc = pc], s.k)
         /\ s.c \in CtxType /\ s.k \in SockType /\ [s.c EXCEPT !.pc = pc] \in CtxType
<1>1. s.c \in CtxType /\ s.k \in SockType
  BY DEF Sound, StateType
<1> DEFINE c == [s.c EXCEPT !.pc = pc]
<1>2. c \in CtxType /\ c.buf = s.c.buf
  BY <1>1 DEF CtxType
<1>3. At(s, pc) = [s EXCEPT !.c = c]
  BY DEF At
<1> HIDE DEF c
<1>4. Becomes(o, [s EXCEPT !.c = c], c, s.k)
  BY <1>1, <1>2, Set
<1>5. QED BY <1>1, <1>2, <1>3, <1>4 DEF c

\* To return from a call changes nothing but where the thread is, and the call.
LEMMA IdleLemma ==
  ASSUME NEW o \in Objects, NEW s, Sound(o, s)
  PROVE  /\ Becomes(o, Idle(s), [s.c EXCEPT !.pc = "idle", !.op = "plain"], s.k)
         /\ s.c \in CtxType /\ s.k \in SockType /\ [s.c EXCEPT !.pc = "idle", !.op = "plain"] \in CtxType
<1>1. s.c \in CtxType /\ s.k \in SockType /\ s \in StateType
  BY DEF Sound, StateType
<1>2. "idle" \in Pcs /\ "plain" \in Ops
  BY DEF Pcs, Ops
<1> DEFINE c1 == [s.c EXCEPT !.pc = "idle"]
           s1 == [s EXCEPT !.c = c1]
           c == [c1 EXCEPT !.op = "plain"]
<1>3. c1 \in CtxType /\ c1.buf = s.c.buf
  BY <1>1, <1>2 DEF CtxType
<1>4. Idle(s) = [s1 EXCEPT !.c = [s1.c EXCEPT !.op = "plain"]]
  BY DEF Idle
<1> HIDE DEF c1
<1>5. c \in CtxType /\ c.buf = c1.buf
  BY <1>2, <1>3 DEF CtxType
<1>6. Becomes(o, s1, c1, s.k)
  BY <1>1, <1>3, Set
<1> HIDE DEF s1, c
<1>7. Sound(o, s1) /\ s1.c = c1 /\ s1.k = s.k
  BY <1>6 DEF Becomes
<1>8. Becomes(o, [s1 EXCEPT !.c = c], c, s.k)
  BY <1>1, <1>3, <1>5, <1>7, Set
<1>9. Idle(s) = [s1 EXCEPT !.c = c]
  BY <1>4, <1>7 DEF c
<1>10. QED BY <1>1, <1>5, <1>8, <1>9 DEF c, c1

\* A call, or initialize, that ends with an error leaves its object in order.
LEMMA RaiseLemma ==
  ASSUME TypeOK, NEW o \in Objects, NEW s, Sound(o, s), NEW rc,
         (Going(s.c, s.k) /\ s.k.ssl # "init") \/ Over(s.c, s.k),
         rc = "ERR" /\ s.c.linked => s.c.pc \in {"hello", "auth", "reading"}
  PROVE  Fine(o, Raise(s, rc)) /\ Fine(o, RaiseNew(s, rc))
<1>1. s \in StateType /\ s.k \in SockType /\ s.c \in CtxType
  BY DEF Sound, StateType
<1>2. Closable(s.c, s.k)
  BY DEF Going, Over, Closable
<1>3. PICK fl, k :
           /\ Becomes(o, HandleError(s, rc), Raised(s.c, fl), k)
           /\ k = s.k \/ (s.c.linked /\ k = WasShut(s.k))
           /\ \/ fl = s.c.faults
              \/ rc = "ERR" /\ s.c.linked /\ fl = s.c.faults \cup {<<"error text", s.c.pc>>}
  BY <1>2, HandleErrorLemma
<1> DEFINE t == HandleError(s, rc)
           c == Raised(s.c, fl)
<1>4. Sound(o, t) /\ t.c = c /\ t.k = k
  BY <1>3 DEF Becomes
<1>5. fl \subseteq Excused
  <2>1. s.c.faults \subseteq Excused
    BY DEF Going, Over
  <2>2. CASE rc = "ERR" /\ s.c.linked /\ fl = s.c.faults \cup {<<"error text", s.c.pc>>}
    BY <2>1, <2>2 DEF Excused
  <2>3. QED BY <2>1, <2>2, <1>3
<1>6. /\ c.linked = s.c.linked /\ c.lost = s.c.lost /\ c.wire = s.c.wire /\ c.used = s.c.used
      /\ c.shared = s.c.shared /\ c.kept = FALSE /\ c.faults = fl /\ c.pc = s.c.pc
  BY <1>1 DEF Raised, CtxType
<1> HIDE DEF c, t
<1>7. (Going(c, k) /\ k.ssl # "init") \/ Over(c, k)
  <2>1. CASE Over(s.c, s.k)
    <3>1. k = s.k
      BY <1>3, <2>1 DEF Over
    <3>2. QED
      BY <1>5, <1>6, <2>1, <3>1 DEF Over
  <2>2. CASE Going(s.c, s.k) /\ s.k.ssl # "init" /\ k = s.k
    BY <1>5, <1>6, <2>2 DEF Going
  <2>3. CASE Going(s.c, s.k) /\ s.k.ssl # "init" /\ k = WasShut(s.k)
    <3>1. k.mem = "live" /\ k.fd = 0 /\ k.ops = "stub" /\ k.ssl = IF s.k.ops = "ssl" THEN "none" ELSE s.k.ssl
      BY <2>3 DEF WasShut
    <3>2. k.ssl = "none"
      BY <1>1, <2>3, <3>1 DEF Going, SockType
    <3>3. QED
      BY <1>5, <1>6, <2>3, <3>1, <3>2 DEF Going
  <2>4. QED BY <1>3, <2>1, <2>2, <2>3
<1>8. Fine(o, Raise(s, rc))
  <2> DEFINE i == Idle(t)
             d == [c EXCEPT !.pc = "idle", !.op = "plain"]
  <2>1. Sound(o, i) /\ i.c = d /\ i.k = k /\ c \in CtxType
    BY <1>4, IdleLemma DEF Becomes
  <2>2. /\ d.linked = c.linked /\ d.lost = c.lost /\ d.wire = c.wire /\ d.used = c.used
        /\ d.shared = c.shared /\ d.kept = c.kept /\ d.faults = c.faults /\ d.pc = "idle"
    BY <2>1 DEF CtxType
  <2> HIDE DEF d
  <2>3. (Going(d, k) /\ k.ssl # "init") \/ Over(d, k)
    BY <1>7, <2>2 DEF Going, Over
  <2>4. Ok(d, k)
    BY <1>6, <2>2, <2>3, RestOk
  <2>5. QED BY <2>1, <2>4 DEF Fine, Raise, t
<1>9. Fine(o, RaiseNew(s, rc))
  <2> DEFINE i == At(t, "dropped")
             d == [c EXCEPT !.pc = "dropped"]
  <2>0. "dropped" \in Pcs
    BY DEF Pcs
  <2>1. Sound(o, i) /\ i.c = d /\ i.k = k /\ c \in CtxType
    BY <1>4, <2>0, AtLemma DEF Becomes
  <2>2. /\ d.linked = c.linked /\ d.lost = c.lost /\ d.wire = c.wire /\ d.used = c.used
        /\ d.shared = c.shared /\ d.kept = c.kept /\ d.faults = c.faults /\ d.pc = "dropped"
    BY <2>1 DEF CtxType
  <2> HIDE DEF d
  <2>3. (Going(d, k) /\ k.ssl # "init") \/ Over(d, k)
    BY <1>7, <2>2 DEF Going, Over
  <2>4. Ok(d, k)
    BY <1>6, <2>2, <2>3, RestOk
  <2>5. QED BY <2>1, <2>4 DEF Fine, RaiseNew, t
<1>10. QED BY <1>8, <1>9

\* A linked object may go to wait, or rest.
LEMMA AtFine ==
  ASSUME NEW o \in Objects, NEW s, Sound(o, s), Going(s.c, s.k), s.k.ssl # "init", ~s.c.kept,
         NEW pc, \/ pc \in {"login", "auth", "sending", "reading", "idle", "dropped"}
                 \/ pc \in {"hello", "request"} /\ s.k.ops = "raw" /\ s.k.ssl = "none"
                 \/ pc = "closing" /\ (s.c.shared => s.c.used)
  PROVE  Fine(o, At(s, pc))
<1> DEFINE d == [s.c EXCEPT !.pc = pc]
<1>1. pc \in Pcs
  BY DEF Pcs, Waits, Connecting
<1>2. Sound(o, At(s, pc)) /\ At(s, pc).c = d /\ At(s, pc).k = s.k /\ s.c \in CtxType
  BY <1>1, AtLemma DEF Becomes
<1>3. /\ d.linked = s.c.linked /\ d.lost = s.c.lost /\ d.wire = s.c.wire /\ d.used = s.c.used
      /\ d.shared = s.c.shared /\ d.kept = s.c.kept /\ d.faults = s.c.faults /\ d.pc = pc
  BY <1>2 DEF CtxType
<1> HIDE DEF d
<1>4. Going(d, s.k) /\ ~d.kept
  BY <1>3 DEF Going
<1>5. Ok(d, s.k)
  BY <1>3, <1>4 DEF Going, Ok, Linked, Sessions, Abandoned, Kept, Inherited, Waits, Connecting
<1>6. QED BY <1>2, <1>5 DEF Fine

\* What a wait of a linked object, and a call on one, begins with.
LEMMA GoingLemma ==
  ASSUME IInv, NEW o \in Objects, ctx[o].linked, ctx[o].pc # "dropped"
  PROVE  LET s == Take(o) IN
         /\ Sound(o, s) /\ Going(s.c, s.k) /\ (s.k.ssl = "init" => ctx[o].pc = "tls")
         /\ s.c.pc = ctx[o].pc /\ s.k = sock[o] /\ s.c.kept = ctx[o].kept
         /\ (ctx[o].pc \in {"hello", "request"} => s.k.ops = "raw" /\ s.k.ssl = "none")
         /\ (ctx[o].pc = "tls" => s.k.ops = "raw")
         /\ (ctx[o].kept => ctx[o].pc = "idle" /\ s.c.buf # 0)
         /\ s.c.op = ctx[o].op /\ s.c.buf = ctx[o].buf
         /\ (ctx[o].pc = "closing" /\ s.c.shared => s.c.used)
<1> DEFINE c == [ctx[o] EXCEPT !.faults = {}]
<1>1. /\ Becomes(o, Take(o), c, sock[o])
      /\ ctx[o] \in CtxType /\ sock[o] \in SockType /\ Ok(c, sock[o])
  BY TakeLemma
<1>2. /\ c.pc = ctx[o].pc /\ c.buf = ctx[o].buf /\ c.linked = ctx[o].linked /\ c.lost = ctx[o].lost
      /\ c.kept = ctx[o].kept /\ c.faults = {} /\ c.op = ctx[o].op
  BY <1>1 DEF CtxType
<1> HIDE DEF c
<1>3. Going(c, sock[o])
  BY <1>1, <1>2 DEF Ok, Linked, Sessions, Abandoned, Inherited, Going
<1>4. sock[o].ssl = "init" => c.pc = "tls"
  BY <1>1, <1>3 DEF Ok, Sessions, Going
<1>5. /\ (c.pc \in {"hello", "request"} => sock[o].ops = "raw" /\ sock[o].ssl = "none")
      /\ (c.pc = "tls" => sock[o].ops = "raw")
      /\ (c.kept => c.pc = "idle" /\ c.buf # 0)
      /\ (c.pc = "closing" /\ c.shared => c.used)
  BY <1>1 DEF Ok, Linked, Sessions, Kept, Inherited
<1>6. QED BY <1>1, <1>2, <1>3, <1>4, <1>5 DEF Becomes

\* trilogy_auth_send in rb_trilogy_connect: done, under way, or failed.
LEMMA SendLoginLemma ==
  ASSUME TypeOK, NEW o \in Objects, NEW s, Sound(o, s), Going(s.c, s.k), s.k.ssl # "init", ~s.c.kept,
         NEW t \in SendLogin(s)
  PROVE  Fine(o, t)
<1>1. s.k.ops \in {"raw", "ssl", "stub"}
  BY DEF Sound, StateType, SockType
<1>2. PICK rc \in Results(s.k) :
        t = IF rc = "OK" THEN At(s, "auth") ELSE IF rc = "AGAIN" THEN At(s, "login") ELSE RaiseNew(s, rc)
  BY DEF SendLogin, Sent
<1>3. rc # "ERR"
  BY <1>1, ErrorCodes
<1>4. Fine(o, At(s, "auth")) /\ Fine(o, At(s, "login")) /\ Fine(o, RaiseNew(s, rc))
  BY <1>3, AtFine, RaiseLemma
<1>5. QED BY <1>2, <1>4

\* SSL_connect is begun on a connection without a session.
LEMMA StartTlsLemma ==
  ASSUME NEW o \in Objects, NEW s, Sound(o, s), Going(s.c, s.k), ~s.c.kept,
         s.k.ops = "raw", s.k.ssl = "none"
  PROVE  Fine(o, StartTls(s))
<1> DEFINE k == [s.k EXCEPT !.ssl = "init"]
           u == [s EXCEPT !.k = k]
           d == [s.c EXCEPT !.pc = "tls"]
<1>1. s.k \in SockType /\ s.c \in CtxType
  BY DEF Sound, StateType
<1>2. k \in SockType /\ k.mem = s.k.mem /\ k.fd = s.k.fd /\ k.ops = s.k.ops /\ k.ssl = "init"
  BY <1>1 DEF SockType
<1>3. UpgradeBegins(s) = u
  BY DEF UpgradeBegins
<1> HIDE DEF k
<1>4. Becomes(o, u, s.c, k)
  BY <1>1, <1>2, Set
<1>5. "tls" \in Pcs
  BY DEF Pcs, Waits, Connecting
<1> HIDE DEF u
<1>6. Sound(o, At(u, "tls")) /\ At(u, "tls").c = d /\ At(u, "tls").k = k
  BY <1>4, <1>5, AtLemma DEF Becomes
<1>7. /\ d.linked = s.c.linked /\ d.lost = s.c.lost /\ d.wire = s.c.wire /\ d.used = s.c.used
      /\ d.shared = s.c.shared /\ d.kept = s.c.kept /\ d.faults = s.c.faults /\ d.pc = "tls"
  BY <1>1 DEF CtxType
<1> HIDE DEF d
<1>8. Ok(d, k)
  BY <1>2, <1>7 DEF Going, Ok, Linked, Sessions, Abandoned, Kept, Inherited, Waits, Connecting
<1>9. QED BY <1>3, <1>6, <1>8 DEF Fine, StartTls

\* The greeting (trilogy_connect_recv, then the request for TLS or the password).
LEMMA HelloStep ==
  ASSUME IInv, NEW o \in Objects, Hello(o)
  PROVE  IInv'
<1> DEFINE s == Take(o)
<1>1. ctx[o].pc = "hello" /\ ctx[o].linked
  BY DEF IInv, Hello, Ok, Linked, Waits, Connecting
<1>2. /\ Sound(o, s) /\ Going(s.c, s.k) /\ s.c.pc = "hello" /\ ~s.c.kept /\ s.k.ops = "raw" /\ s.k.ssl = "none"
  BY <1>1, GoingLemma
<1>3. PICK t \in {RaiseNew(s, rc) : rc \in Failures(s.k) \union {"ERR", "PROTOCOL_VIOLATION"}}
              \union Sent(s, StartTls(s), "request", RaiseNew)
              \union SendLogin(s)
              \union {At(s, "dropped")} : Put(o, t)
  BY DEF Hello
<1> HIDE DEF s
<1>t. TypeOK
  BY DEF IInv
<1>4. Fine(o, t)
  <2>1. CASE t \in {RaiseNew(s, rc) : rc \in Failures(s.k) \union {"ERR", "PROTOCOL_VIOLATION"}}
    BY <1>2, <1>t, <2>1, RaiseLemma
  <2>2. CASE t \in SendLogin(s)
    BY <1>2, <1>t, <2>2, SendLoginLemma
  <2>3. CASE t = At(s, "dropped")
    BY <1>2, <2>3, AtFine
  <2>4. CASE t \in Sent(s, StartTls(s), "request", RaiseNew)
    <3>1. PICK rc \in Results(s.k) :
        t = IF rc = "OK" THEN StartTls(s) ELSE IF rc = "AGAIN" THEN At(s, "request") ELSE RaiseNew(s, rc)
      BY <2>4 DEF Sent
    <3>2. rc # "ERR"
      BY <1>2, ErrorCodes
    <3>3. Fine(o, At(s, "request")) /\ Fine(o, RaiseNew(s, rc))
      BY <1>2, <1>t, <3>2, AtFine, RaiseLemma
    <3>4. Fine(o, StartTls(s))
      BY <1>2, StartTlsLemma
    <3>5. QED BY <3>1, <3>3, <3>4
  <2>5. QED BY <1>3, <2>1, <2>2, <2>3, <2>4
<1>5. QED BY <1>3, <1>4, PutLemma

\* trilogy_flush_writes in the connection phase.
LEMMA FlushedStep ==
  ASSUME IInv, NEW o \in Objects, Flushed(o)
  PROVE  IInv'
<1> DEFINE s == Take(o)
<1>1. ctx[o].pc \in {"request", "login"} /\ ctx[o].linked
  BY DEF IInv, Flushed, Ok, Linked, Waits, Connecting
<1>2. /\ Sound(o, s) /\ Going(s.c, s.k) /\ s.c.pc = ctx[o].pc /\ ~s.c.kept /\ s.k.ssl # "init"
      /\ (s.c.pc = "request" => s.k.ops = "raw" /\ s.k.ssl = "none")
  BY <1>1, GoingLemma
<1>3. PICK t \in {RaiseNew(s, rc) : rc \in Failures(s.k)}
              \union {IF s.c.pc = "request" THEN StartTls(s) ELSE At(s, "auth")} : Put(o, t)
  BY DEF Flushed
<1> HIDE DEF s
<1>t. TypeOK /\ s.k.ops \in {"raw", "ssl", "stub"}
  BY <1>2 DEF IInv, Sound, StateType, SockType
<1>4. Fine(o, t)
  <2>1. CASE t \in {RaiseNew(s, rc) : rc \in Failures(s.k)}
    BY <1>2, <1>t, <2>1, RaiseLemma, ErrorCodes
  <2>2. CASE s.c.pc = "request" /\ t = StartTls(s)
    BY <1>2, <2>2, StartTlsLemma
  <2>3. CASE t = At(s, "auth")
    BY <1>2, <2>3, AtFine
  <2>4. QED BY <1>3, <2>1, <2>2, <2>3
<1>5. QED BY <1>3, <1>4, PutLemma

\* The end of trilogy_sock_upgrade_ssl, well or badly.
LEMMA TlsStep ==
  ASSUME IInv, NEW o \in Objects, Tls(o)
  PROVE  IInv'
<1> DEFINE s == Take(o)
<1>1. ctx[o].pc = "tls" /\ ctx[o].linked
  BY DEF IInv, Tls, Ok, Linked, Waits, Connecting
<1>2. /\ Sound(o, s) /\ Going(s.c, s.k) /\ s.c.pc = ctx[o].pc /\ ~s.c.kept /\ s.k.ops = "raw"
  BY <1>1, GoingLemma
<1>3. PICK t \in SendLogin(Upgraded(s)) \union {RaiseNew(UpgradeFails(s), "OPENSSL_ERR")} : Put(o, t)
  BY DEF Tls
<1> HIDE DEF s
<1>t. TypeOK /\ s.k \in SockType /\ s.c \in CtxType
  BY <1>2 DEF IInv, Sound, StateType
<1>4. Fine(o, t)
  <2>1. CASE t \in SendLogin(Upgraded(s))
    <3> DEFINE k1 == [s.k EXCEPT !.ssl = "up"]
               k == [k1 EXCEPT !.ops = "ssl"]
               u1 == [s EXCEPT !.k = k1]
               u == [u1 EXCEPT !.k = [u1.k EXCEPT !.ops = "ssl"]]
    <3>1. k1 \in SockType /\ k1.mem = s.k.mem /\ k1.fd = s.k.fd /\ k1.ssl = "up"
      BY <1>t DEF SockType
    <3>2. Upgraded(s) = u
      BY DEF Upgraded
    <3> HIDE DEF k1
    <3>3. k \in SockType /\ k.mem = s.k.mem /\ k.fd = s.k.fd /\ k.ssl = "up" /\ k.ops = "ssl"
      BY <3>1 DEF SockType
    <3>4. Becomes(o, u1, s.c, k1)
      BY <1>t, <1>2, <3>1, Set
    <3> HIDE DEF u1
    <3>5. Sound(o, u1) /\ u1.c = s.c /\ u1.k = k1
      BY <3>4 DEF Becomes
    <3>6. u = [u1 EXCEPT !.k = k]
      BY <3>5
    <3> HIDE DEF k, u
    <3>7. Becomes(o, u, s.c, k)
      BY <1>t, <3>1, <3>3, <3>5, <3>6, Set
    <3>8. Sound(o, u) /\ u.c = s.c /\ u.k = k
      BY <3>7 DEF Becomes
    <3>9. Going(u.c, u.k)
      BY <1>2, <3>3, <3>8 DEF Going
    <3>10. QED BY <1>t, <1>2, <2>1, <3>2, <3>3, <3>8, <3>9, SendLoginLemma
  <2>2. CASE t = RaiseNew(UpgradeFails(s), "OPENSSL_ERR")
    <3> DEFINE k == [s.k EXCEPT !.ssl = "none"]
               u == [s EXCEPT !.k = k]
    <3>1. k \in SockType /\ k.mem = s.k.mem /\ k.fd = s.k.fd /\ k.ssl = "none" /\ k.ops = s.k.ops
      BY <1>t DEF SockType
    <3>2. UpgradeFails(s) = u
      BY DEF UpgradeFails
    <3> HIDE DEF k
    <3>3. Becomes(o, u, s.c, k)
      BY <1>t, <1>2, <3>1, Set
    <3> HIDE DEF u
    <3>4. Sound(o, u) /\ u.c = s.c /\ u.k = k
      BY <3>3 DEF Becomes
    <3>5. Going(u.c, u.k)
      BY <1>2, <3>1, <3>4 DEF Going
    <3>6. Fine(o, RaiseNew(u, "OPENSSL_ERR"))
      BY <1>t, <3>1, <3>4, <3>5, RaiseLemma
    <3>7. QED BY <2>2, <3>2, <3>6
  <2>3. QED BY <1>3, <2>1, <2>2
<1>5. QED BY <1>3, <1>4, PutLemma

\* The server's answer in authenticate, auth_switch included.
LEMMA AuthenticatedStep ==
  ASSUME IInv, NEW o \in Objects, Authenticated(o)
  PROVE  IInv'
<1> DEFINE s == Take(o)
<1>1. ctx[o].pc = "auth" /\ ctx[o].linked
  BY DEF IInv, Authenticated, Ok, Linked, Waits, Connecting
<1>2. /\ Sound(o, s) /\ Going(s.c, s.k) /\ s.c.pc = "auth" /\ ~s.c.kept /\ s.k.ssl # "init"
  BY <1>1, GoingLemma
<1>3. PICK t \in {At(Release(s), "idle")}
              \union {RaiseNew(s, rc) : rc \in Failures(s.k)
                                          \union {"ERR", "UNSUPPORTED", "PROTOCOL_VIOLATION"}}
              \union SendLogin(s) : Put(o, t)
  BY DEF Authenticated
<1> HIDE DEF s
<1>t. TypeOK /\ s.c \in CtxType
  BY <1>2 DEF IInv, Sound, StateType
<1>4. Fine(o, t)
  <2>1. CASE t = At(Release(s), "idle")
    <3> DEFINE r == Release(s)
               c == [s.c EXCEPT !.buf = 0]
    <3>1. Sound(o, r) /\ r.c = c /\ r.k = s.k
      BY <1>t, <1>2, ReleaseLemma DEF Becomes
    <3>2. /\ c.linked = s.c.linked /\ c.lost = s.c.lost /\ c.wire = s.c.wire /\ c.used = s.c.used
          /\ c.shared = s.c.shared /\ c.kept = s.c.kept /\ c.faults = s.c.faults
      BY <1>t DEF CtxType
    <3> HIDE DEF r, c
    <3>3. Going(r.c, r.k) /\ ~r.c.kept /\ r.k.ssl # "init"
      BY <1>2, <3>1, <3>2 DEF Going
    <3>4. Fine(o, At(r, "idle"))
      BY <3>1, <3>3, AtFine
    <3>5. QED BY <2>1, <3>4 DEF r
  <2>2. CASE t \in {RaiseNew(s, rc) : rc \in Failures(s.k) \union {"ERR", "UNSUPPORTED", "PROTOCOL_VIOLATION"}}
    BY <1>2, <1>t, <2>2, RaiseLemma
  <2>3. CASE t \in SendLogin(s)
    BY <1>2, <1>t, <2>3, SendLoginLemma
  <2>4. QED BY <1>3, <2>1, <2>2, <2>3
<1>5. QED BY <1>3, <1>4, PutLemma

-----------------------------------------------------------------------------
(* connect, until the socket is linked.                                      *)

\* An object whose socket only try_connect knows of.
Opening(c, k) ==
  /\ ~c.linked /\ k.mem = "live" /\ c.lost = "no" /\ k.ops = "raw" /\ k.ssl = "none" /\ ~c.kept
  /\ c.wire => c.used
  /\ c.used => forked
  /\ c.shared => forked
  /\ c.faults \subseteq Excused

\* try_connect gives up: its socket is closed and the object dropped.
LEMMA GiveUpLemma ==
  ASSUME TypeOK, NEW o \in Objects, NEW s, Sound(o, s), Opening(s.c, s.k), NEW rc
  PROVE  Fine(o, GiveUp(s, rc))
<1> DEFINE c == [s.c EXCEPT !.addr = 0]
           u == [s EXCEPT !.c = c]
           v == SockClose(u)
           d == Wired(c, s.k)
<1>1. s.k \in SockType /\ s.c \in CtxType /\ 0 \in Addresses
  BY SocketAssumption DEF Sound, StateType, Addresses
<1>2. c \in CtxType /\ c.buf = s.c.buf
  BY <1>1 DEF CtxType
<1>3. /\ c.linked = s.c.linked /\ c.lost = s.c.lost /\ c.wire = s.c.wire /\ c.used = s.c.used
      /\ c.shared = s.c.shared /\ c.kept = s.c.kept /\ c.faults = s.c.faults
  BY <1>1 DEF CtxType
<1>4. GiveUp(s, rc) = RaiseNew(v, rc)
  BY DEF GiveUp
<1> HIDE DEF c
<1>5. Becomes(o, u, c, s.k)
  BY <1>1, <1>2, Set
<1> HIDE DEF u
<1>6. Sound(o, u) /\ u.c = c /\ u.k = s.k
  BY <1>5 DEF Becomes
<1>7. Sound(o, v) /\ v.c = d /\ v.k = WasClosed(s.k)
  BY <1>6, SockCloseLemma DEF Opening, Becomes
<1>8. v.k.mem = "freed" /\ v.k.ops = "raw" /\ v.k.ssl = "none"
  BY <1>7 DEF WasClosed, Opening
<1>9. /\ d.linked = c.linked /\ d.lost = c.lost /\ d.used = c.used /\ d.wire = c.wire
      /\ d.shared = c.shared /\ d.kept = c.kept /\ d.faults = c.faults
  BY <1>2 DEF CtxType, Wired, Opening
<1> HIDE DEF d, v
<1>10. Over(v.c, v.k)
  BY <1>3, <1>7, <1>8, <1>9 DEF Over, Opening
<1>11. ~ v.c.linked
  BY <1>10 DEF Over
<1>12. QED BY <1>4, <1>7, <1>10, <1>11, RaiseLemma

\* A unix socket path too long: the socket is closed twice and its memory touched
\* after it was freed, but it had no descriptor that somebody else could lose.
LEMMA ResolveErrLemma ==
  ASSUME TypeOK, NEW o \in Objects, NEW s, Sound(o, s), Opening(s.c, s.k), s.k.fd = 0, s.c.pc = "resolving", NEW rc
  PROVE  Fine(o, GiveUp(Resolve(s, "ERR"), rc))
<1> DEFINE r == RawClose(s)
           c == [s.c EXCEPT !.addr = 0]
           u == [r EXCEPT !.c = [r.c EXCEPT !.addr = 0]]
           fl == s.c.faults \cup {<<"socket", "resolving">>}
           d == [c EXCEPT !.faults = fl]
           v == Fault(u, "socket")
           k == [mem |-> "freed", fd |-> 0, ssl |-> "none", ops |-> "raw"]
<1>1. s.k \in SockType /\ s.c \in CtxType /\ 0 \in Addresses
  BY SocketAssumption DEF Sound, StateType, Addresses
<1>2. c \in CtxType /\ c.buf = s.c.buf
  BY <1>1 DEF CtxType
<1>3. /\ c.linked = s.c.linked /\ c.lost = s.c.lost /\ c.wire = s.c.wire /\ c.used = s.c.used /\ c.pc = s.c.pc
      /\ c.shared = s.c.shared /\ c.kept = s.c.kept /\ c.faults = s.c.faults
  BY <1>1 DEF CtxType
<1>4. k \in SockType
  BY SocketAssumption DEF SockType
<1>5. k = [mem |-> "freed", fd |-> s.k.fd, ssl |-> s.k.ssl, ops |-> s.k.ops]
  BY DEF Opening
<1> HIDE DEF k
<1>6. Sound(o, r) /\ r.c = s.c /\ r.k = k
  BY <1>5, RawCloseLemma DEF Opening, Becomes
<1> HIDE DEF c
<1>7. u = [r EXCEPT !.c = c]
  BY <1>6 DEF c
<1> HIDE DEF u, r
<1>8. Sound(o, u) /\ u.c = c /\ u.k = k
  <2>1. Becomes(o, [r EXCEPT !.c = c], c, r.k)
    BY <1>2, <1>4, <1>6, Set
  <2>2. QED BY <2>1, <1>6, <1>7 DEF Becomes
<1>9. /\ s.c.faults \in Faults /\ <<"socket", "resolving">> \in {"socket", "descriptor", "error text"} \X Pcs
  BY <1>1 DEF CtxType, Pcs
<1>10. fl \in Faults
  BY <1>9 DEF Faults
<1>11. v = [u EXCEPT !.c = d]
  BY <1>3, <1>8 DEF Fault
<1> HIDE DEF fl
<1>12. d \in CtxType /\ d.buf = c.buf
  BY <1>2, <1>10 DEF CtxType
<1>13. /\ d.linked = c.linked /\ d.lost = c.lost /\ d.used = c.used /\ d.wire = c.wire
      /\ d.shared = c.shared /\ d.faults = fl
  BY <1>2 DEF CtxType
<1> HIDE DEF d, v
<1>14. Sound(o, v) /\ v.c = d /\ v.k = k
  <2>1. Becomes(o, [u EXCEPT !.c = d], d, u.k)
    BY <1>4, <1>8, <1>12, Set
  <2>2. QED BY <2>1, <1>8, <1>11 DEF Becomes
<1>15. k.mem = "freed" /\ k.fd = 0 /\ k.ssl = "none" /\ k.ops = "raw"
  BY DEF k
<1>16. SockClose(u) = [v EXCEPT !.k = [v.k EXCEPT !.mem = "freed"]]
  BY <1>8, <1>14, <1>15 DEF SockClose, Touch, RawClose, CloseFd, v
<1>17. [v.k EXCEPT !.mem = "freed"] = v.k
  BY <1>4, <1>14, <1>15 DEF SockType
<1>18. v \in StateType
  BY <1>14 DEF Sound
<1>19. SockClose(u) = v
  BY <1>16, <1>17, <1>18 DEF StateType
<1>20. Over(v.c, v.k)
  <2>1. fl \subseteq Excused
    BY DEF fl, Excused, Opening
  <2>2. QED BY <2>1, <1>3, <1>13, <1>14, <1>15 DEF Over, Opening
<1>21. ~v.c.linked
  BY <1>20 DEF Over
<1>22. GiveUp(Resolve(s, "ERR"), rc) = RaiseNew(v, rc)
  BY <1>19 DEF GiveUp, Resolve, u, r
<1>23. QED BY <1>14, <1>20, <1>21, <1>22, RaiseLemma

\* _cb_raw_connect goes on to the next address, or gives up.
LEMMA NextAddressLemma ==
  ASSUME TypeOK, NEW o \in Objects, NEW s, Sound(o, s), Opening(s.c, s.k), s.k.fd = 0, NEW left \in 0..Addrs
  PROVE  Fine(o, NextAddress(s, left))
<1>1. CASE ~(left > 0 /\ FreeFds(s) # {})
  BY <1>1, GiveUpLemma DEF NextAddress
<1>2. CASE left > 0 /\ FreeFds(s) # {}
  <2> DEFINE p == OpenFd(s)
             c == [s.c EXCEPT !.addr = left - 1]
             u == [p EXCEPT !.c = [p.c EXCEPT !.addr = left - 1]]
             d == [c EXCEPT !.pc = "connecting"]
  <2>1. PICK f \in 1..Fds :
           Becomes(o, p, s.c, [mem |-> "live", fd |-> f, ssl |-> s.k.ssl, ops |-> s.k.ops])
    BY <1>2, OpenFdLemma DEF Opening
  <2> DEFINE k == [mem |-> "live", fd |-> f, ssl |-> s.k.ssl, ops |-> s.k.ops]
  <2>2. Sound(o, p) /\ p.c = s.c /\ p.k = k
    BY <2>1 DEF Becomes
  <2>3. k.mem = "live" /\ k.ssl = "none" /\ k.ops = "raw"
    BY DEF Opening
  <2>4. s.c \in CtxType /\ left - 1 \in Addresses
    BY <1>2, SocketAssumption DEF Sound, StateType, Addresses
  <2>k. k \in SockType
    BY <2>2 DEF Sound, StateType
  <2> HIDE DEF k
  <2>5. c \in CtxType /\ c.buf = s.c.buf
    BY <2>4 DEF CtxType
  <2>6. /\ d.linked = s.c.linked /\ d.lost = s.c.lost /\ d.wire = s.c.wire /\ d.used = s.c.used /\ d.pc = "connecting"
        /\ d.shared = s.c.shared /\ d.kept = s.c.kept /\ d.faults = s.c.faults
    BY <2>4 DEF CtxType
  <2> HIDE DEF c
  <2>7. u = [p EXCEPT !.c = c]
    BY <2>2 DEF c
  <2>8. NextAddress(s, left) = At(u, "connecting")
    BY <1>2 DEF NextAddress
  <2>9. "connecting" \in Pcs
    BY DEF Pcs, Waits, Connecting
  <2> HIDE DEF u, p
  <2>10. Sound(o, u) /\ u.c = c /\ u.k = k
    <3>1. Becomes(o, [p EXCEPT !.c = c], c, p.k)
      BY <2>2, <2>5, <2>k, Set
    <3>2. QED BY <3>1, <2>2, <2>7 DEF Becomes
  <2>11. Sound(o, At(u, "connecting")) /\ At(u, "connecting").c = d /\ At(u, "connecting").k = k
    BY <2>9, <2>10, AtLemma DEF Becomes
  <2> HIDE DEF d
  <2>12. Ok(d, k)
    BY <2>3, <2>6 DEF Opening, Ok, Linked, Sessions, Abandoned, Kept, Inherited, Waits, Connecting
  <2>13. QED BY <2>8, <2>11, <2>12 DEF Fine
<1>3. QED BY <1>1, <1>2

\* What resolving and connecting begin with.
LEMMA OpeningLemma ==
  ASSUME IInv, NEW o \in Objects, ctx[o].pc \in {"resolving", "connecting"}
  PROVE  LET s == Take(o) IN
         /\ Sound(o, s) /\ Opening(s.c, s.k) /\ s.c.pc = ctx[o].pc /\ s.c.addr = ctx[o].addr
         /\ (ctx[o].pc = "resolving" => s.k.fd = 0)
         /\ ctx[o].addr \in 0..Addrs
<1> DEFINE c == [ctx[o] EXCEPT !.faults = {}]
<1>1. /\ Becomes(o, Take(o), c, sock[o])
      /\ ctx[o] \in CtxType /\ sock[o] \in SockType /\ Ok(c, sock[o])
  BY TakeLemma
<1>2. c.pc = ctx[o].pc /\ c.addr = ctx[o].addr /\ c.faults = {}
  BY <1>1 DEF CtxType
<1>3. ctx[o].addr \in 0..Addrs
  BY <1>1 DEF CtxType, Addresses
<1> HIDE DEF c
<1>4. Opening(c, sock[o]) /\ (c.pc = "resolving" => sock[o].fd = 0)
  BY <1>1, <1>2 DEF Ok, Linked, Sessions, Abandoned, Inherited, Kept, Opening
<1>5. QED BY <1>1, <1>2, <1>3, <1>4 DEF Becomes

\* initialize up to getaddrinfo: a buffer and a socket for a new object.
LEMMA ConnectStep ==
  ASSUME IInv, NEW o \in Objects, Connect(o)
  PROVE  IInv'
<1> DEFINE s == Take(o)
           c == [ctx[o] EXCEPT !.faults = {}]
           a == Acquire(s)
           n == SockNew(a)
           k == [mem |-> "live", fd |-> 0, ssl |-> "none", ops |-> "raw"]
<1>1. ctx[o].pc = "new" /\ Put(o, At(n, "resolving"))
  BY DEF Connect
<1>t. TypeOK /\ "resolving" \in Pcs
  BY DEF IInv, Pcs
<1>2. /\ Becomes(o, s, c, sock[o])
      /\ ctx[o] \in CtxType /\ sock[o] \in SockType /\ Ok(c, sock[o])
  BY TakeLemma
<1>3. Sound(o, s) /\ s.c = c /\ s.k = sock[o] /\ c \in CtxType
  BY <1>2 DEF Becomes, Sound, StateType
<1>4. c.pc = "new" /\ c.faults = {}
  BY <1>1, <1>2 DEF CtxType
<1> HIDE DEF c, s
<1>5. PICK b \in 1..Buffers : Becomes(o, a, [s.c EXCEPT !.buf = b], s.k)
  BY <1>3, <1>t, AcquireLemma
<1> DEFINE c1 == [c EXCEPT !.buf = b]
           c2 == [c1 EXCEPT !.pc = "resolving"]
<1>6. Sound(o, a) /\ a.c = c1 /\ a.k = sock[o]
  BY <1>3, <1>5 DEF Becomes
<1>7. sock[o].mem # "live"
  BY <1>2, <1>4 DEF Ok, Linked
<1> HIDE DEF a
<1>8. Sound(o, n) /\ n.c = c1 /\ n.k = k
  BY <1>6, <1>7, SockNewLemma DEF Becomes
<1> HIDE DEF n
<1>9. Sound(o, At(n, "resolving")) /\ At(n, "resolving").c = c2 /\ At(n, "resolving").k = k
  <2>1. Becomes(o, At(n, "resolving"), [n.c EXCEPT !.pc = "resolving"], n.k)
    BY <1>8, <1>t, AtLemma
  <2>2. QED BY <2>1, <1>8 DEF Becomes
<1>10. /\ c2.linked = c.linked /\ c2.lost = c.lost /\ c2.wire = c.wire /\ c2.used = c.used /\ c2.pc = "resolving"
       /\ c2.shared = c.shared /\ c2.kept = c.kept /\ c2.faults = c.faults
  BY <1>3 DEF CtxType
<1> HIDE DEF c2
<1>11. k.mem = "live" /\ k.fd = 0 /\ k.ssl = "none" /\ k.ops = "raw"
  OBVIOUS
<1> HIDE DEF k
<1>12. Ok(c2, k)
  BY <1>2, <1>4, <1>10, <1>11 DEF Ok, Linked, Sessions, Abandoned, Kept, Inherited, Waits, Connecting
<1>13. Fine(o, At(n, "resolving"))
  BY <1>9, <1>12 DEF Fine
<1>14. QED BY <1>1, <1>13, PutLemma

\* The return of getaddrinfo, or its failure.
LEMMA ResolvedStep ==
  ASSUME IInv, NEW o \in Objects, Resolved(o)
  PROVE  IInv'
<1> DEFINE s == Take(o)
<1>t. TypeOK
  BY DEF IInv
<1>1. ctx[o].pc = "resolving"
  BY DEF Resolved
<1>2. Sound(o, s) /\ Opening(s.c, s.k) /\ s.k.fd = 0 /\ s.c.pc = "resolving"
  BY <1>1, OpeningLemma
<1> HIDE DEF s
<1>3. \A m \in 1..Addrs : Fine(o, NextAddress(s, m))
  BY <1>2, <1>t, NextAddressLemma, SocketAssumption
<1>4. Fine(o, GiveUp(Resolve(s, "ERR"), "ERR"))
  BY <1>2, <1>t, ResolveErrLemma
<1>5. Fine(o, GiveUp(Resolve(s, "DNS_ERR"), "DNS_ERR"))
  BY <1>2, <1>t, GiveUpLemma DEF Resolve
<1>6. PICK t : Fine(o, t) /\ Put(o, t)
  <2>1. CASE \E m \in 1..Addrs : Put(o, NextAddress(s, m))
    BY <1>3, <2>1
  <2>2. CASE \E rc \in {"DNS_ERR", "ERR"} : Put(o, GiveUp(Resolve(s, rc), rc))
    BY <1>4, <1>5, <2>2
  <2>3. QED BY <2>1, <2>2 DEF Resolved, s
<1>7. QED BY <1>6, PutLemma

\* The end of a connect(2), which links the socket or goes on to the next address.
LEMMA ConnectedStep ==
  ASSUME IInv, NEW o \in Objects, Connected(o)
  PROVE  IInv'
<1> DEFINE s == Take(o)
           c1 == [s.c EXCEPT !.linked = TRUE]
           c == [c1 EXCEPT !.addr = 0]
           u1 == [s EXCEPT !.c = c1]
           u == [u1 EXCEPT !.c = [u1.c EXCEPT !.addr = 0]]
           f == ConnectFailed(s)
           k == [mem |-> "live", fd |-> 0, ssl |-> s.k.ssl, ops |-> s.k.ops]
<1>t. TypeOK
  BY DEF IInv
<1>1. ctx[o].pc = "connecting"
  BY DEF Connected
<1>2. Sound(o, s) /\ Opening(s.c, s.k) /\ s.c.pc = "connecting" /\ ctx[o].addr \in 0..Addrs
  BY <1>1, OpeningLemma
<1>3. Put(o, At(u, "hello")) \/ Put(o, NextAddress(f, ctx[o].addr))
  BY DEF Connected
<1> HIDE DEF s
<1>4. s.k \in SockType /\ s.c \in CtxType /\ 0 \in Addresses
  BY <1>2, SocketAssumption DEF Sound, StateType, Addresses
<1>5. c1 \in CtxType /\ c1.buf = s.c.buf
  BY <1>4 DEF CtxType
<1>6. /\ c.linked = TRUE /\ c.lost = s.c.lost /\ c.wire = s.c.wire /\ c.used = s.c.used
      /\ c.shared = s.c.shared /\ c.kept = s.c.kept /\ c.faults = s.c.faults
  BY <1>4 DEF CtxType
<1> HIDE DEF c1
<1>7. c \in CtxType /\ c.buf = c1.buf
  BY <1>4, <1>5 DEF CtxType
<1>8. Sound(o, u1) /\ u1.c = c1 /\ u1.k = s.k
  <2>1. Becomes(o, u1, c1, s.k)
    BY <1>2, <1>4, <1>5, Set
  <2>2. QED BY <2>1 DEF Becomes
<1> HIDE DEF u1, c
<1>9. u = [u1 EXCEPT !.c = c]
  BY <1>8 DEF c
<1> HIDE DEF u
<1>10. Sound(o, u) /\ u.c = c /\ u.k = s.k
  <2>1. Becomes(o, [u1 EXCEPT !.c = c], c, u1.k)
    BY <1>4, <1>7, <1>8, Set
  <2>2. QED BY <2>1, <1>8, <1>9 DEF Becomes
<1>11. Going(u.c, u.k) /\ ~u.c.kept /\ u.k.ssl = "none" /\ u.k.ops = "raw"
  BY <1>2, <1>6, <1>10 DEF Opening, Going
<1>12. Fine(o, At(u, "hello"))
  BY <1>10, <1>11, AtFine
<1>13. Becomes(o, f, s.c, k)
  BY <1>2, ConnectFailedLemma DEF Opening
<1>14. Sound(o, f) /\ f.c = s.c /\ f.k = k
  BY <1>13 DEF Becomes
<1>15. k.mem = "live" /\ k.fd = 0 /\ k.ssl = "none" /\ k.ops = "raw"
  BY <1>2 DEF Opening
<1> HIDE DEF k, f
<1>16. Opening(f.c, f.k)
  BY <1>2, <1>14, <1>15 DEF Opening
<1>17. Fine(o, NextAddress(f, ctx[o].addr))
  BY <1>2, <1>t, <1>14, <1>15, <1>16, NextAddressLemma
<1>18. QED BY <1>3, <1>12, <1>17, PutLemma

-----------------------------------------------------------------------------
(* Calls on a connected object.                                              *)

\* What a call begins with once it has a buffer: it uses what it inherited.
Begun(o, s) ==
  /\ Sound(o, s) /\ Going(s.c, s.k) /\ s.k.ssl # "init" /\ ~s.c.kept /\ s.c.pc = "idle"
  /\ s.c.shared => s.c.used

\* What a call on an open connection finds, and that a child takes note of it.
LEMMA UseLemma ==
  ASSUME IInv, NEW o \in Objects, Open(o)
  PROVE  LET u == Use(o) IN
         /\ Sound(o, u) /\ Going(u.c, u.k) /\ u.k.ssl # "init" /\ u.c.pc = "idle"
         /\ u.c.shared => u.c.used
         /\ u.c.kept => u.c.buf # 0
<1> DEFINE s == Take(o)
           c == [s.c EXCEPT !.used = forked]
<1>1. ctx[o].pc = "idle" /\ ctx[o].linked
  BY DEF Open
<1>2. /\ Sound(o, s) /\ Going(s.c, s.k) /\ s.k.ssl # "init" /\ s.c.pc = "idle"
      /\ s.c.kept => s.c.buf # 0
  BY <1>1, GoingLemma
<1>3. Use(o) = [s EXCEPT !.c = c]
  BY DEF Use
<1> HIDE DEF s
<1>4. s.c \in CtxType /\ s.k \in SockType /\ forked \in BOOLEAN
  BY <1>2 DEF IInv, TypeOK, Sound, StateType
<1>5. c \in CtxType /\ c.buf = s.c.buf
  BY <1>4 DEF CtxType
<1>6. /\ c.linked = s.c.linked /\ c.lost = s.c.lost /\ c.wire = s.c.wire /\ c.used = forked
      /\ c.shared = s.c.shared /\ c.kept = s.c.kept /\ c.faults = s.c.faults /\ c.pc = s.c.pc
  BY <1>4 DEF CtxType
<1> HIDE DEF c
<1>7. Becomes(o, Use(o), c, s.k)
  <2>1. Becomes(o, [s EXCEPT !.c = c], c, s.k)
    BY <1>2, <1>4, <1>5, Set
  <2>2. QED BY <2>1, <1>3
<1>8. Sound(o, Use(o)) /\ Use(o).c = c /\ Use(o).k = s.k
  BY <1>7 DEF Becomes
<1>9. Going(c, s.k) /\ (c.shared => c.used)
  BY <1>2, <1>6 DEF Going
<1>10. QED BY <1>2, <1>5, <1>6, <1>8, <1>9

\* A call takes a buffer; what the last result kept is forgotten.
LEMMA BeginLemma ==
  ASSUME IInv, NEW o \in Objects, Open(o), NEW op \in Ops
  PROVE  /\ Begun(o, [Acquire(Use(o)) EXCEPT !.c.kept = FALSE])
         /\ Begun(o, [Acquire(Use(o)) EXCEPT !.c.op = op, !.c.kept = FALSE])
<1> DEFINE u == Use(o)
           a == Acquire(u)
<1>1. /\ Sound(o, u) /\ Going(u.c, u.k) /\ u.k.ssl # "init" /\ u.c.pc = "idle"
      /\ u.c.shared => u.c.used
  BY UseLemma
<1>2. TypeOK
  BY DEF IInv
<1>3. PICK b \in 1..Buffers : Becomes(o, a, [u.c EXCEPT !.buf = b], u.k)
  BY <1>1, <1>2, AcquireLemma
<1>4. u.c \in CtxType /\ u.k \in SockType
  BY <1>1 DEF Sound, StateType
<1> HIDE DEF u
<1> DEFINE c0 == [u.c EXCEPT !.buf = b]
           c == [c0 EXCEPT !.kept = FALSE]
           c1 == [c0 EXCEPT !.op = op]
           c2 == [c1 EXCEPT !.kept = FALSE]
           a1 == [a EXCEPT !.c = c1]
<1>5. Sound(o, a) /\ a.c = c0 /\ a.k = u.k
  BY <1>3 DEF Becomes
<1>6. /\ c0.linked = u.c.linked /\ c0.lost = u.c.lost /\ c0.wire = u.c.wire /\ c0.used = u.c.used /\ c0.pc = u.c.pc
      /\ c0.shared = u.c.shared /\ c0.faults = u.c.faults
  BY <1>4 DEF CtxType
<1>7. c0 \in CtxType
  BY <1>5 DEF Sound, StateType
<1> HIDE DEF a, c0
<1>8. c \in CtxType /\ c.buf = c0.buf /\ c1 \in CtxType /\ c1.buf = c0.buf
  BY <1>7 DEF CtxType
<1>9. /\ c.linked = c0.linked /\ c.lost = c0.lost /\ c.wire = c0.wire /\ c.used = c0.used /\ c.pc = c0.pc
      /\ c.shared = c0.shared /\ c.kept = FALSE /\ c.faults = c0.faults
  BY <1>7 DEF CtxType
<1>10. /\ c2.linked = c0.linked /\ c2.lost = c0.lost /\ c2.wire = c0.wire /\ c2.used = c0.used /\ c2.pc = c0.pc
       /\ c2.shared = c0.shared /\ c2.kept = FALSE /\ c2.faults = c0.faults
  BY <1>7 DEF CtxType
<1>11. [a EXCEPT !.c.kept = FALSE] = [a EXCEPT !.c = c]
  BY <1>5
<1>12. [a EXCEPT !.c.op = op, !.c.kept = FALSE] = [a1 EXCEPT !.c = [a1.c EXCEPT !.kept = FALSE]]
  BY <1>5
<1> HIDE DEF c, c1, a1
<1>13. Begun(o, [a EXCEPT !.c.kept = FALSE])
  <2>1. Becomes(o, [a EXCEPT !.c = c], c, a.k)
    BY <1>4, <1>5, <1>8, Set
  <2>2. Going(c, a.k)
    BY <1>1, <1>5, <1>6, <1>9 DEF Going
  <2>3. QED BY <2>1, <2>2, <1>1, <1>5, <1>6, <1>9, <1>11 DEF Becomes, Begun
<1>14. Begun(o, [a EXCEPT !.c.op = op, !.c.kept = FALSE])
  <2>1. Becomes(o, a1, c1, a.k)
    BY <1>4, <1>5, <1>8, Set DEF a1
  <2>2. Sound(o, a1) /\ a1.c = c1 /\ a1.k = a.k
    BY <2>1 DEF Becomes
  <2>3. c2 \in CtxType /\ c2.buf = c1.buf
    BY <1>8 DEF CtxType
  <2>4. Becomes(o, [a1 EXCEPT !.c = c2], c2, a.k)
    BY <1>4, <1>5, <2>2, <2>3, Set
  <2>5. Going(c2, a.k)
    BY <1>1, <1>5, <1>6, <1>10 DEF Going
  <2>6. [a1 EXCEPT !.c = [a1.c EXCEPT !.kept = FALSE]] = [a1 EXCEPT !.c = c2]
    BY <2>2
  <2>7. [a EXCEPT !.c.op = op, !.c.kept = FALSE] = [a1 EXCEPT !.c = c2]
    BY <2>6, <1>12
  <2> HIDE DEF c2
  <2> DEFINE e == [a1 EXCEPT !.c = c2]
  <2>8. Sound(o, e) /\ e.c = c2 /\ e.k = a.k
    BY <2>4 DEF Becomes
  <2> HIDE DEF e
  <2>9. Begun(o, e)
    BY <2>5, <2>8, <1>1, <1>5, <1>6, <1>10 DEF Begun
  <2>10. QED BY <2>7, <2>9 DEF e
<1>15. QED BY <1>13, <1>14 DEF a, u

\* The write of a call, which has noted that it uses the connection.
LEMMA WriteLemma ==
  ASSUME NEW o \in Objects, NEW a, Begun(o, a)
  PROVE  LET w == IF a.k.ops # "stub" THEN Wire(a) ELSE a
         IN  Begun(o, w) /\ Touch(w) = w
<1> DEFINE c == [a.c EXCEPT !.wire = @ \/ (a.c.shared /\ a.k.fd # 0)]
<1>1. a.c \in CtxType /\ a.k \in SockType /\ Sound(o, a)
  BY DEF Begun, Sound, StateType
<1>2. c \in CtxType /\ c.buf = a.c.buf
  BY <1>1 DEF CtxType
<1>3. /\ c.linked = a.c.linked /\ c.lost = a.c.lost /\ c.used = a.c.used /\ c.pc = a.c.pc
      /\ c.shared = a.c.shared /\ c.kept = a.c.kept /\ c.faults = a.c.faults
      /\ c.wire => a.c.wire \/ a.c.shared
  BY <1>1 DEF CtxType
<1>4. Wire(a) = [a EXCEPT !.c = c]
  BY DEF Wire
<1> HIDE DEF c
<1>5. Becomes(o, [a EXCEPT !.c = c], c, a.k)
  BY <1>1, <1>2, Set
<1>6. Sound(o, Wire(a)) /\ Wire(a).c = c /\ Wire(a).k = a.k
  BY <1>4, <1>5 DEF Becomes
<1>7. Going(c, a.k)
  BY <1>3 DEF Begun, Going
<1>8. Begun(o, Wire(a))
  BY <1>3, <1>6, <1>7 DEF Begun
<1> DEFINE w == IF a.k.ops # "stub" THEN Wire(a) ELSE a
<1>9. Begun(o, w)
  BY <1>8
<1> HIDE DEF w
<1>10. Touch(w) = w
  BY <1>9, TouchLemma DEF Begun, Going
<1>11. QED BY <1>9, <1>10 DEF w

\* ping, change_db, set_server_option and query up to their first wait.
LEMMA StartStep ==
  ASSUME IInv, NEW o \in Objects, NEW op \in {"plain", "query"}, Start(o, op)
  PROVE  IInv'
<1> DEFINE a == [Acquire(Use(o)) EXCEPT !.c.op = op, !.c.kept = FALSE]
           w == IF a.k.ops # "stub" THEN Wire(a) ELSE a
<1>t. TypeOK /\ op \in Ops
  BY DEF IInv, Ops
<1>1. Begun(o, a)
  BY <1>t, BeginLemma DEF Start
<1>2. PICK t \in Sent(Touch(w), At(w, "reading"), "sending", Raise)
                  \union {Raise(a, rc) : rc \in {"MAX_PACKET_EXCEEDED", "SYSERR"}} : Put(o, t)
  BY DEF Start
<1> HIDE DEF a
<1>3. Begun(o, w) /\ Touch(w) = w
  BY <1>1, WriteLemma
<1> HIDE DEF w
<1>4. w.k.ops \in {"raw", "ssl", "stub"}
  BY <1>3 DEF Begun, Sound, StateType, SockType
<1>5. Fine(o, At(w, "reading")) /\ Fine(o, At(w, "sending"))
  BY <1>3, AtFine DEF Begun
<1>6. \A rc : rc # "ERR" => Fine(o, Raise(w, rc)) /\ Fine(o, Raise(a, rc))
  BY <1>1, <1>3, <1>t, RaiseLemma DEF Begun
<1>7. Fine(o, t)
  <2>1. CASE t \in Sent(Touch(w), At(w, "reading"), "sending", Raise)
    <3>1. PICK rc \in Results(w.k) :
        t = IF rc = "OK" THEN At(w, "reading") ELSE IF rc = "AGAIN" THEN At(w, "sending") ELSE Raise(w, rc)
      BY <2>1, <1>3 DEF Sent
    <3>2. rc # "ERR"
      BY <1>4, ErrorCodes
    <3>3. QED BY <3>1, <3>2, <1>5, <1>6
  <2>2. CASE t \in {Raise(a, rc) : rc \in {"MAX_PACKET_EXCEEDED", "SYSERR"}}
    BY <1>6, <2>2
  <2>3. QED BY <1>2, <2>1, <2>2
<1>8. QED BY <1>2, <1>7, PutLemma

\* set_server_option whose argument is no integer: it raises with the buffer held.
LEMMA BadOptionStep ==
  ASSUME IInv, NEW o \in Objects, BadOption(o)
  PROVE  IInv'
<1> DEFINE a == [Acquire(Use(o)) EXCEPT !.c.kept = FALSE]
<1>1. Begun(o, a)
  BY BeginLemma DEF BadOption, Ops
<1>2. Put(o, a)
  BY DEF BadOption
<1> HIDE DEF a
<1>3. Ok(a.c, a.k)
  BY <1>1, RestOk DEF Begun
<1>4. Fine(o, a)
  BY <1>1, <1>3 DEF Begun, Fine
<1>5. QED BY <1>2, <1>4, PutLemma

\* trilogy_flush_writes of a command.
LEMMA FlushedCommandStep ==
  ASSUME IInv, NEW o \in Objects, FlushedCommand(o)
  PROVE  IInv'
<1> DEFINE s == Take(o)
<1>1. ctx[o].pc = "sending" /\ ctx[o].linked
  BY DEF IInv, FlushedCommand, Ok, Linked, Waits, Connecting
<1>2. /\ Sound(o, s) /\ Going(s.c, s.k) /\ ~s.c.kept /\ s.k.ssl # "init"
  BY <1>1, GoingLemma
<1>3. PICK t \in {At(s, "reading")} \union {Raise(s, rc) : rc \in Failures(s.k)} : Put(o, t)
  BY DEF FlushedCommand
<1> HIDE DEF s
<1>t. TypeOK /\ s.k.ops \in {"raw", "ssl", "stub"}
  BY <1>2 DEF IInv, Sound, StateType, SockType
<1>4. Fine(o, t)
  <2>1. CASE t \in {Raise(s, rc) : rc \in Failures(s.k)}
    BY <1>2, <1>t, <2>1, RaiseLemma, ErrorCodes
  <2>2. CASE t = At(s, "reading")
    BY <1>2, <2>2, AtFine
  <2>3. QED BY <1>3, <2>1, <2>2
<1>5. QED BY <1>3, <1>4, PutLemma

\* next_result, which takes no buffer.
LEMMA NextResultStep ==
  ASSUME IInv, NEW o \in Objects, NextResult(o)
  PROVE  IInv'
<1> DEFINE u == Use(o)
           c1 == [u.c EXCEPT !.pc = "reading"]
           v == At(u, "reading")
           v1 == [v EXCEPT !.c = [v.c EXCEPT !.op = "next"]]
           v2 == [v1 EXCEPT !.c = [v1.c EXCEPT !.kept = FALSE]]
           c2 == [c1 EXCEPT !.op = "next"]
           c3 == [c2 EXCEPT !.kept = FALSE]
<1>1. /\ Sound(o, u) /\ Going(u.c, u.k) /\ u.k.ssl # "init"
  BY UseLemma DEF NextResult
<1>2. Put(o, v2)
  BY DEF NextResult
<1>3. "reading" \in Pcs /\ "next" \in Ops /\ u.c \in CtxType /\ u.k \in SockType
  BY <1>1 DEF Pcs, Waits, Ops, Sound, StateType
<1> HIDE DEF u
<1>4. Sound(o, v) /\ v.c = c1 /\ v.k = u.k /\ c1 \in CtxType
  BY <1>1, <1>3, AtLemma DEF Becomes
<1>5. /\ c3.linked = u.c.linked /\ c3.lost = u.c.lost /\ c3.wire = u.c.wire /\ c3.used = u.c.used /\ c3.pc = "reading"
      /\ c3.shared = u.c.shared /\ c3.kept = FALSE /\ c3.faults = u.c.faults
  BY <1>3 DEF CtxType
<1> HIDE DEF v, c1
<1>6. c2 \in CtxType /\ c2.buf = c1.buf
  BY <1>3, <1>4 DEF CtxType
<1> HIDE DEF c2
<1>7. c3 \in CtxType /\ c3.buf = c2.buf
  BY <1>6 DEF CtxType
<1>8. Sound(o, v1) /\ v1.c = c2 /\ v1.k = u.k
  <2>1. v1 = [v EXCEPT !.c = c2]
    BY <1>4 DEF c2
  <2>2. Becomes(o, [v EXCEPT !.c = c2], c2, v.k)
    BY <1>3, <1>4, <1>6, Set
  <2>3. QED BY <2>1, <2>2, <1>4 DEF Becomes
<1> HIDE DEF v1, c3
<1>9. Sound(o, v2) /\ v2.c = c3 /\ v2.k = u.k
  <2>1. v2 = [v1 EXCEPT !.c = c3]
    BY <1>8 DEF c3
  <2>2. Becomes(o, [v1 EXCEPT !.c = c3], c3, v1.k)
    BY <1>3, <1>8, <1>7, Set
  <2>3. QED BY <2>1, <2>2, <1>8 DEF Becomes
<1>10. Ok(c3, u.k)
  BY <1>1, <1>5 DEF Going, Ok, Linked, Sessions, Abandoned, Kept, Inherited, Waits, Connecting
<1>11. Fine(o, v2)
  BY <1>9, <1>10 DEF Fine
<1>12. QED BY <1>2, <1>11, PutLemma

\* A call on a linked object may return.
LEMMA IdleFine ==
  ASSUME NEW o \in Objects, NEW s, Sound(o, s), Going(s.c, s.k), s.k.ssl # "init", s.c.kept => s.c.buf # 0
  PROVE  Fine(o, Idle(s))
<1> DEFINE d == [s.c EXCEPT !.pc = "idle", !.op = "plain"]
<1>1. Sound(o, Idle(s)) /\ Idle(s).c = d /\ Idle(s).k = s.k /\ s.c \in CtxType
  BY IdleLemma DEF Becomes
<1>2. /\ d.linked = s.c.linked /\ d.lost = s.c.lost /\ d.wire = s.c.wire /\ d.used = s.c.used /\ d.pc = "idle"
      /\ d.shared = s.c.shared /\ d.kept = s.c.kept /\ d.faults = s.c.faults /\ d.buf = s.c.buf
  BY <1>1 DEF CtxType
<1> HIDE DEF d
<1>3. Going(d, s.k)
  BY <1>2 DEF Going
<1>4. Ok(d, s.k)
  BY <1>2, <1>3, RestOk
<1>5. QED BY <1>1, <1>4 DEF Fine

\* A reply has been read; its buffer stays only if another result was announced.
LEMMA FinishedLemma ==
  ASSUME TypeOK, NEW o \in Objects, NEW s, Sound(o, s), Going(s.c, s.k), s.k.ssl # "init", s.c.buf # 0, NEW more \in BOOLEAN
  PROVE  Fine(o, Finished(s, more))
<1> DEFINE kept == more /\ s.c.op # "plain"
           c1 == [s.c EXCEPT !.more = more]
           c == [c1 EXCEPT !.kept = kept]
           s1 == [s EXCEPT !.c = c1]
           m == [s1 EXCEPT !.c = [s1.c EXCEPT !.kept = kept]]
           r == Release(m)
           e == [c EXCEPT !.buf = 0]
<1>1. s.c \in CtxType /\ s.k \in SockType
  BY DEF Sound, StateType
<1>2. Finished(s, more) = Idle(IF m.c.kept THEN m ELSE r)
  BY DEF Finished
<1>3. kept \in BOOLEAN
  OBVIOUS
<1> HIDE DEF kept
<1>4. c1 \in CtxType /\ c1.buf = s.c.buf
  BY <1>1 DEF CtxType
<1>5. /\ c.linked = s.c.linked /\ c.lost = s.c.lost /\ c.wire = s.c.wire /\ c.used = s.c.used
      /\ c.shared = s.c.shared /\ c.kept = kept /\ c.faults = s.c.faults /\ c.buf = s.c.buf
  BY <1>1 DEF CtxType
<1> HIDE DEF c1
<1>6. c \in CtxType /\ c.buf = c1.buf
  BY <1>3, <1>4 DEF CtxType
<1>7. Sound(o, s1) /\ s1.c = c1 /\ s1.k = s.k
  <2>1. Becomes(o, [s EXCEPT !.c = c1], c1, s.k)
    BY <1>1, <1>4, Set
  <2>2. QED BY <2>1 DEF Becomes
<1> HIDE DEF s1, c
<1>8. Sound(o, m) /\ m.c = c /\ m.k = s.k
  <2>1. m = [s1 EXCEPT !.c = c]
    BY <1>7 DEF c
  <2>2. Becomes(o, [s1 EXCEPT !.c = c], c, s1.k)
    BY <1>1, <1>6, <1>7, Set
  <2>3. QED BY <2>1, <2>2, <1>7 DEF Becomes
<1> HIDE DEF m
<1>9. Going(c, s.k)
  BY <1>5 DEF Going
<1>10. Fine(o, Idle(m))
  BY <1>5, <1>8, <1>9, IdleFine
<1>11. CASE kept
  BY <1>2, <1>5, <1>8, <1>10, <1>11
<1>12. CASE ~kept
  <2>1. Sound(o, r) /\ r.c = e /\ r.k = s.k
    BY <1>8, ReleaseLemma DEF Becomes
  <2>2. /\ e.linked = c.linked /\ e.lost = c.lost /\ e.wire = c.wire /\ e.used = c.used
        /\ e.shared = c.shared /\ e.kept = c.kept /\ e.faults = c.faults
    BY <1>6 DEF CtxType
  <2> HIDE DEF e, r
  <2>3. Going(e, s.k) /\ ~e.kept
    BY <1>5, <1>9, <1>12, <2>2 DEF Going
  <2>4. Fine(o, Idle(r))
    BY <2>1, <2>3, IdleFine
  <2>5. QED BY <1>2, <1>5, <1>8, <1>12, <2>4
<1>13. QED BY <1>11, <1>12

\* A connection is shut down in the middle of a call.
LEMMA ShutLemma ==
  ASSUME NEW o \in Objects, NEW s, Sound(o, s), Going(s.c, s.k)
  PROVE  LET d == Shutdown(s) IN
         /\ Sound(o, d) /\ d.c = s.c /\ Going(d.c, d.k)
         /\ d.k.fd = 0 /\ d.k.ops = "stub" /\ (d.k.ssl = "init" => s.k.ssl = "init")
<1> DEFINE d == Shutdown(s)
<1>1. Sound(o, d) /\ d.c = s.c /\ d.k = WasShut(s.k)
  BY ShutdownLemma DEF Going, Becomes
<1> HIDE DEF d
<1>2. s.k.ssl \in {"none", "init", "up"}
  BY DEF Sound, StateType, SockType
<1>3. d.k.mem = "live" /\ d.k.fd = 0 /\ d.k.ops = "stub" /\ d.k.ssl = IF s.k.ops = "ssl" THEN "none" ELSE s.k.ssl
  BY <1>1 DEF WasShut
<1>4. d.k.ssl # "up"
  BY <1>3 DEF Going
<1>5. Going(d.c, d.k)
  BY <1>1, <1>3, <1>4 DEF Going
<1>6. QED BY <1>1, <1>2, <1>3, <1>5 DEF d

\* The reply to a command: a result, an error, or an exception in a cast.
LEMMA ReplyStep ==
  ASSUME IInv, NEW o \in Objects, Reply(o)
  PROVE  IInv'
<1> DEFINE s == Take(o)
<1>1. ctx[o].pc = "reading" /\ ctx[o].linked
  BY DEF IInv, Reply, Ok, Linked, Waits, Connecting
<1>2. /\ Sound(o, s) /\ Going(s.c, s.k) /\ ~s.c.kept /\ s.k.ssl # "init" /\ s.c.pc = "reading"
  BY <1>1, GoingLemma
<1>3. \/ \E rc \in Failures(s.k) : Put(o, Raise(s, rc))
      \/ Put(o, Raise(s, "MEM_ERROR"))
      \/ \E rc \in {"ERR", "PROTOCOL_VIOLATION"} : Put(o, Raise(s, rc))
      \/ \E more \in BOOLEAN : s.c.buf # 0 /\ Put(o, Finished(s, more))
      \/ \E more \in BOOLEAN : Put(o, Idle([Shutdown(s) EXCEPT !.c.more = more]))
  BY DEF Reply
<1> HIDE DEF s
<1>t. TypeOK /\ s.c \in CtxType /\ s.k \in SockType
  BY <1>2 DEF IInv, Sound, StateType
<1>4. \A rc : Fine(o, Raise(s, rc))
  BY <1>2, <1>t, RaiseLemma
<1>5. \A more \in BOOLEAN : s.c.buf # 0 => Fine(o, Finished(s, more))
  BY <1>2, <1>t, FinishedLemma
<1>6. ASSUME NEW more \in BOOLEAN
      PROVE  Fine(o, Idle([Shutdown(s) EXCEPT !.c.more = more]))
  <2> DEFINE d == Shutdown(s)
             c == [d.c EXCEPT !.more = more]
             e == [d EXCEPT !.c = c]
  <2>1. /\ Sound(o, d) /\ d.c = s.c /\ Going(d.c, d.k) /\ d.k.ssl # "init"
    BY <1>2, ShutLemma
  <2>2. [Shutdown(s) EXCEPT !.c.more = more] = e
    OBVIOUS
  <2> HIDE DEF d
  <2>3. c \in CtxType /\ c.buf = d.c.buf /\ d.k \in SockType
    BY <1>t, <2>1 DEF CtxType, Sound, StateType
  <2>4. /\ c.linked = s.c.linked /\ c.lost = s.c.lost /\ c.wire = s.c.wire /\ c.used = s.c.used
        /\ c.shared = s.c.shared /\ c.kept = s.c.kept /\ c.faults = s.c.faults
    BY <1>t, <2>1 DEF CtxType
  <2> HIDE DEF c
  <2>5. Becomes(o, e, c, d.k)
    BY <2>1, <2>3, Set
  <2>6. Sound(o, e) /\ e.c = c /\ e.k = d.k
    BY <2>5 DEF Becomes
  <2> HIDE DEF e
  <2>7. Going(c, d.k)
    BY <2>1, <2>4 DEF Going
  <2>8. Fine(o, Idle(e))
    BY <1>2, <2>1, <2>4, <2>6, <2>7, IdleFine
  <2>9. QED BY <2>2, <2>8
<1>7. PICK t : Fine(o, t) /\ Put(o, t)
  BY <1>3, <1>4, <1>5, <1>6
<1>8. QED BY <1>7, PutLemma

\* A buffer is given back within a call.
LEMMA GivenBack ==
  ASSUME TypeOK, NEW o \in Objects, NEW s, Begun(o, s)
  PROVE  Begun(o, Release(s))
<1> DEFINE r == Release(s)
           c == [s.c EXCEPT !.buf = 0]
<1>1. s.c \in CtxType
  BY DEF Begun, Sound, StateType
<1>2. Sound(o, r) /\ r.c = c /\ r.k = s.k
  BY ReleaseLemma DEF Begun, Becomes
<1>3. /\ c.linked = s.c.linked /\ c.lost = s.c.lost /\ c.wire = s.c.wire /\ c.used = s.c.used /\ c.pc = s.c.pc
      /\ c.shared = s.c.shared /\ c.kept = s.c.kept /\ c.faults = s.c.faults
  BY <1>1 DEF CtxType
<1> HIDE DEF c, r
<1>4. Going(r.c, r.k)
  BY <1>2, <1>3 DEF Begun, Going
<1>5. QED BY <1>2, <1>3, <1>4 DEF Begun, r

\* escape, which borrows the buffer.
LEMMA EscapeStep ==
  ASSUME IInv, NEW o \in Objects, Escape(o)
  PROVE  IInv'
<1> DEFINE s == [Acquire(Use(o)) EXCEPT !.c.kept = FALSE]
<1>1. Begun(o, s)
  BY BeginLemma DEF Escape, Ops
<1>2. PICK t \in {Release(s), Raise(s, "TYPE_OVERFLOW")} : Put(o, t)
  BY DEF Escape
<1>t. TypeOK
  BY DEF IInv
<1> HIDE DEF s
<1>3. Begun(o, Release(s))
  BY <1>1, <1>t, GivenBack
<1>4. Fine(o, Release(s))
  BY <1>3, RestOk DEF Begun, Fine
<1>5. Fine(o, Raise(s, "TYPE_OVERFLOW"))
  BY <1>1, <1>t, RaiseLemma DEF Begun
<1>6. QED BY <1>2, <1>4, <1>5, PutLemma

\* check, which peeks at the socket.
LEMMA CheckStep ==
  ASSUME IInv, NEW o \in Objects, Check(o)
  PROVE  IInv'
<1> DEFINE s == Use(o)
<1>1. Open(o) /\ \E rc \in CheckResults(Touch(s).k) : Put(o, IF rc = "OK" THEN Touch(s) ELSE Raise(Touch(s), rc))
  BY DEF Check
<1>2. /\ Sound(o, s) /\ Going(s.c, s.k) /\ s.k.ssl # "init" /\ s.c.pc = "idle"
      /\ s.c.kept => s.c.buf # 0
  BY <1>1, UseLemma
<1>t. TypeOK
  BY DEF IInv
<1> HIDE DEF s
<1>3. Touch(s) = s /\ s.k.ops \in {"raw", "ssl", "stub"}
  BY <1>2, TouchLemma DEF Going, Sound, StateType, SockType
<1>4. PICK rc \in CheckResults(s.k) : Put(o, IF rc = "OK" THEN s ELSE Raise(s, rc))
  BY <1>1, <1>3
<1>5. rc # "ERR"
  BY <1>3, ErrorCodes
<1>6. Fine(o, s)
  BY <1>2, RestOk DEF Fine
<1>7. Fine(o, Raise(s, rc))
  BY <1>2, <1>t, <1>5, RaiseLemma
<1>8. QED BY <1>4, <1>6, <1>7, PutLemma

-----------------------------------------------------------------------------
(* The end of a connection.                                                  *)

\* trilogy_free: the socket is closed if the connection had one.
LEMMA FreeLemma ==
  ASSUME TypeOK, NEW o \in Objects, NEW s, Sound(o, s), s.c.linked => s.k.mem = "live"
  PROVE  LET t == Free(s) IN
         /\ Sound(o, t) /\ ~t.c.linked /\ t.c.pc = s.c.pc /\ t.c.lost = s.c.lost /\ t.c.used = s.c.used
         /\ t.c.shared = s.c.shared /\ t.c.kept = s.c.kept /\ t.c.faults = s.c.faults
         /\ t.c.wire => s.c.wire \/ (s.c.linked /\ s.k.ops = "ssl" /\ s.c.shared)
         /\ t.k = IF s.c.linked THEN WasClosed(s.k) ELSE s.k
         /\ t.c \in CtxType
<1> DEFINE v == SockClose(s)
           c == Wired(s.c, s.k)
           c1 == [v.c EXCEPT !.linked = FALSE]
           v1 == [v EXCEPT !.c = c1]
           u == IF s.c.linked THEN v1 ELSE s
           t == BufferFree(u)
           k == IF s.c.linked THEN WasClosed(s.k) ELSE s.k
<1>1. s.c \in CtxType /\ s.k \in SockType
  BY DEF Sound, StateType
<1>2. Free(s) = t
  BY DEF Free
<1>3. /\ Sound(o, u) /\ ~u.c.linked /\ u.c.pc = s.c.pc /\ u.c.lost = s.c.lost /\ u.c.used = s.c.used
      /\ u.c.shared = s.c.shared /\ u.c.kept = s.c.kept /\ u.c.faults = s.c.faults
      /\ u.c.wire => s.c.wire \/ (s.c.linked /\ s.k.ops = "ssl" /\ s.c.shared)
      /\ u.k = k
  <2>1. CASE s.c.linked
    <3>1. Sound(o, v) /\ v.c = c /\ v.k = WasClosed(s.k)
      BY <2>1, SockCloseLemma DEF Becomes
    <3>2. /\ c.pc = s.c.pc /\ c.lost = s.c.lost /\ c.used = s.c.used
          /\ c.shared = s.c.shared /\ c.kept = s.c.kept /\ c.faults = s.c.faults
          /\ c.wire => s.c.wire \/ (s.k.ops = "ssl" /\ s.c.shared)
      BY <1>1 DEF CtxType, Wired
    <3> HIDE DEF c, v
    <3>3. v.c \in CtxType /\ v.k \in SockType
      BY <3>1 DEF Sound, StateType
    <3>4. /\ c1.pc = v.c.pc /\ c1.lost = v.c.lost /\ c1.used = v.c.used /\ c1.linked = FALSE /\ c1.wire = v.c.wire
          /\ c1.shared = v.c.shared /\ c1.kept = v.c.kept /\ c1.faults = v.c.faults /\ c1.buf = v.c.buf /\ c1 \in CtxType
      BY <3>3 DEF CtxType
    <3> HIDE DEF c1
    <3>5. Becomes(o, v1, c1, v.k)
      BY <3>1, <3>3, <3>4, Set
    <3>6. Sound(o, v1) /\ v1.c = c1 /\ v1.k = v.k
      BY <3>5 DEF Becomes
    <3> HIDE DEF v1
    <3>7. u = v1 /\ k = v.k
      BY <2>1, <3>1
    <3> HIDE DEF u, k
    <3>8. QED BY <2>1, <3>1, <3>2, <3>4, <3>6, <3>7
  <2>2. CASE ~s.c.linked
    <3>1. u = s /\ k = s.k
      BY <2>2
    <3> HIDE DEF u, k
    <3>2. QED BY <2>2, <3>1
  <2>3. QED BY <2>1, <2>2
<1> HIDE DEF u, k
<1>4. Becomes(o, t, [u.c EXCEPT !.buf = 0], u.k) /\ u.c \in CtxType
  BY <1>3, ReleaseLemma DEF Sound, StateType
<1> DEFINE d == [u.c EXCEPT !.buf = 0]
<1>5. /\ d.linked = u.c.linked /\ d.lost = u.c.lost /\ d.wire = u.c.wire /\ d.used = u.c.used /\ d.pc = u.c.pc
      /\ d.shared = u.c.shared /\ d.kept = u.c.kept /\ d.faults = u.c.faults
  BY <1>4 DEF CtxType
<1>6. Sound(o, t) /\ t.c = d /\ t.k = u.k
  BY <1>4 DEF Becomes
<1> HIDE DEF d, t
<1>7. t.c \in CtxType
  BY <1>6 DEF Sound, StateType
<1>8. QED BY <1>2, <1>3, <1>5, <1>6, <1>7 DEF k

\* After trilogy_free an object of a healthy connection has nothing left.
LEMMA FreedOver ==
  ASSUME TypeOK, NEW o \in Objects, NEW s, Sound(o, s), Going(s.c, s.k), s.k.ssl # "init", ~s.c.kept,
         s.k.ops = "ssl" => (s.c.shared => s.c.used)
  PROVE  LET t == Free(s) IN
         Sound(o, t) /\ Over(t.c, t.k) /\ ~t.c.kept /\ t.c.pc = s.c.pc
<1> DEFINE t == Free(s)
<1>1. /\ Sound(o, t) /\ ~t.c.linked /\ t.c.pc = s.c.pc /\ t.c.lost = s.c.lost /\ t.c.used = s.c.used
      /\ t.c.shared = s.c.shared /\ t.c.kept = s.c.kept /\ t.c.faults = s.c.faults
      /\ t.c.wire => s.c.wire \/ (s.c.linked /\ s.k.ops = "ssl" /\ s.c.shared)
      /\ t.k = IF s.c.linked THEN WasClosed(s.k) ELSE s.k
  BY FreeLemma DEF Going
<1> HIDE DEF t
<1>2. t.k = WasClosed(s.k)
  BY <1>1 DEF Going
<1>3. t.k.mem = "freed" /\ t.k.fd = s.k.fd /\ t.k.ops = s.k.ops /\ t.k.ssl = IF s.k.ops = "ssl" THEN "none" ELSE s.k.ssl
  BY <1>2 DEF WasClosed
<1>4. s.k.ssl \in {"none", "init", "up"}
  BY DEF Sound, StateType, SockType
<1>5. t.k.ssl = "none"
  BY <1>3, <1>4 DEF Going
<1>6. Over(t.c, t.k)
  BY <1>1, <1>3, <1>5 DEF Going, Over
<1>7. QED BY <1>1, <1>6 DEF t

\* The end of close, after the quit was sent and after it could not be.
LEMMA ClosingLemma ==
  ASSUME TypeOK, NEW o \in Objects, NEW s, Sound(o, s), Going(s.c, s.k), s.k.ssl # "init", ~s.c.kept,
         s.c.shared => s.c.used
  PROVE  Fine(o, CloseSent(s)) /\ \A rc : Fine(o, CloseFailed(s, rc))
<1>1. ASSUME NEW u, Sound(o, u), Going(u.c, u.k), u.k.ssl # "init", ~u.c.kept, u.c.shared => u.c.used
      PROVE  Fine(o, At(Free(Release(u)), "idle"))
  <2> DEFINE r == Release(u)
             c == [u.c EXCEPT !.buf = 0]
             f == Free(r)
             d == [f.c EXCEPT !.pc = "idle"]
  <2>1. u.c \in CtxType
    BY <1>1 DEF Sound, StateType
  <2>2. Sound(o, r) /\ r.c = c /\ r.k = u.k
    BY <1>1, ReleaseLemma DEF Becomes
  <2>3. /\ c.linked = u.c.linked /\ c.lost = u.c.lost /\ c.wire = u.c.wire /\ c.used = u.c.used
        /\ c.shared = u.c.shared /\ c.kept = u.c.kept /\ c.faults = u.c.faults
    BY <2>1 DEF CtxType
  <2> HIDE DEF c, r
  <2>4. Going(r.c, r.k)
    BY <1>1, <2>2, <2>3 DEF Going
  <2>5. Sound(o, f) /\ Over(f.c, f.k) /\ ~f.c.kept
    BY <1>1, <2>2, <2>3, <2>4, FreedOver
  <2> HIDE DEF f
  <2>6. "idle" \in Pcs /\ f.c \in CtxType
    BY <2>5 DEF Pcs, Sound, StateType
  <2>7. Sound(o, At(f, "idle")) /\ At(f, "idle").c = d /\ At(f, "idle").k = f.k
    BY <2>5, <2>6, AtLemma DEF Becomes
  <2>8. /\ d.linked = f.c.linked /\ d.lost = f.c.lost /\ d.wire = f.c.wire /\ d.used = f.c.used /\ d.pc = "idle"
        /\ d.shared = f.c.shared /\ d.kept = f.c.kept /\ d.faults = f.c.faults
    BY <2>6 DEF CtxType
  <2> HIDE DEF d
  <2>9. Over(d, f.k)
    BY <2>5, <2>8 DEF Over
  <2>10. Ok(d, f.k)
    BY <2>5, <2>8, <2>9, RestOk
  <2>11. QED BY <2>7, <2>10 DEF Fine, f, r
<1>2. Fine(o, At(Free(Release(s)), "idle"))
  BY <1>1
<1> DEFINE d == Shutdown(s)
<1>3. /\ Sound(o, d) /\ d.c = s.c /\ Going(d.c, d.k) /\ d.k.ssl # "init"
  BY ShutLemma
<1> HIDE DEF d
<1>4. Fine(o, At(Free(Release(d)), "idle"))
  BY <1>1, <1>3
<1>5. QED BY <1>2, <1>4 DEF CloseSent, CloseFailed, d

\* close up to its first wait.
LEMMA CloseStep ==
  ASSUME IInv, NEW o \in Objects, Close(o)
  PROVE  IInv'
<1> DEFINE a == [Acquire(Use(o)) EXCEPT !.c.kept = FALSE]
           w == IF a.k.ops # "stub" THEN Wire(a) ELSE a
<1>t. TypeOK
  BY DEF IInv
<1>1. Begun(o, a)
  BY BeginLemma DEF Close, Ops
<1>2. PICK t \in Sent(Touch(w), CloseSent(w), "closing", CloseFailed)
                  \union {CloseFailed(a, "SYSERR")} : Put(o, t)
  BY DEF Close
<1> HIDE DEF a
<1>3. Begun(o, w) /\ Touch(w) = w
  BY <1>1, WriteLemma
<1> HIDE DEF w
<1>4. Fine(o, At(w, "closing"))
  BY <1>3, AtFine DEF Begun
<1>5. Fine(o, CloseSent(w)) /\ \A rc : Fine(o, CloseFailed(w, rc)) /\ Fine(o, CloseFailed(a, rc))
  BY <1>1, <1>3, <1>t, ClosingLemma DEF Begun
<1>6. Fine(o, t)
  <2>1. CASE t \in Sent(Touch(w), CloseSent(w), "closing", CloseFailed)
    <3>1. PICK rc \in Results(w.k) :
        t = IF rc = "OK" THEN CloseSent(w) ELSE IF rc = "AGAIN" THEN At(w, "closing") ELSE CloseFailed(w, rc)
      BY <2>1, <1>3 DEF Sent
    <3>2. QED BY <3>1, <1>4, <1>5
  <2>2. CASE t = CloseFailed(a, "SYSERR")
    BY <1>5, <2>2
  <2>3. QED BY <1>2, <2>1, <2>2
<1>7. QED BY <1>2, <1>6, PutLemma

\* close after its wait.
LEMMA FlushedCloseStep ==
  ASSUME IInv, NEW o \in Objects, FlushedClose(o)
  PROVE  IInv'
<1> DEFINE s == Take(o)
<1>1. ctx[o].pc = "closing" /\ ctx[o].linked
  BY DEF IInv, FlushedClose, Ok, Linked, Waits, Connecting
<1>2. /\ Sound(o, s) /\ Going(s.c, s.k) /\ ~s.c.kept /\ s.k.ssl # "init" /\ (s.c.shared => s.c.used)
  BY <1>1, GoingLemma
<1>3. PICK t \in {CloseSent(s)} \union {CloseFailed(s, rc) : rc \in Failures(s.k)} : Put(o, t)
  BY DEF FlushedClose
<1>t. TypeOK
  BY DEF IInv
<1> HIDE DEF s
<1>4. Fine(o, t)
  BY <1>2, <1>3, <1>t, ClosingLemma
<1>5. QED BY <1>3, <1>4, PutLemma

\* discard!, which shuts the socket down before it frees.
LEMMA DiscardStep ==
  ASSUME IInv, NEW o \in Objects, Discard(o)
  PROVE  IInv'
<1> DEFINE s == Take(o)
           c == [s.c EXCEPT !.kept = FALSE]
           u == [s EXCEPT !.c = c]
           d == Shutdown(u)
           t == Free(d)
<1>1. ctx[o].pc = "idle" /\ ctx[o].linked /\ Put(o, t)
  BY DEF Discard, Open
<1>2. Sound(o, s) /\ Going(s.c, s.k) /\ s.k.ssl # "init" /\ s.c.pc = "idle"
  BY <1>1, GoingLemma
<1>t. TypeOK
  BY DEF IInv
<1> HIDE DEF s
<1>3. s.c \in CtxType /\ s.k \in SockType
  BY <1>2 DEF Sound, StateType
<1>4. /\ c.linked = s.c.linked /\ c.lost = s.c.lost /\ c.wire = s.c.wire /\ c.used = s.c.used /\ c.pc = s.c.pc
      /\ c.shared = s.c.shared /\ c.kept = FALSE /\ c.faults = s.c.faults /\ c.buf = s.c.buf /\ c \in CtxType
  BY <1>3 DEF CtxType
<1> HIDE DEF c
<1>5. Becomes(o, u, c, s.k)
  BY <1>2, <1>3, <1>4, Set
<1>6. Sound(o, u) /\ u.c = c /\ u.k = s.k
  BY <1>5 DEF Becomes
<1> HIDE DEF u
<1>7. Going(u.c, u.k)
  BY <1>2, <1>4, <1>6 DEF Going
<1>8. Sound(o, d) /\ d.c = u.c /\ Going(d.c, d.k) /\ d.k.ops = "stub" /\ d.k.ssl # "init"
  BY <1>2, <1>6, <1>7, ShutLemma
<1> HIDE DEF d
<1>9. Sound(o, t) /\ Over(t.c, t.k) /\ ~t.c.kept /\ t.c.pc = d.c.pc
  BY <1>t, <1>4, <1>6, <1>8, FreedOver
<1>10. t.c.pc = "idle"
  BY <1>2, <1>4, <1>6, <1>8, <1>9
<1> HIDE DEF t
<1>11. Ok(t.c, t.k)
  BY <1>9, <1>10, RestOk
<1>12. Fine(o, t)
  BY <1>9, <1>11 DEF Fine
<1>13. QED BY <1>1, <1>12, PutLemma

\* free_trilogy, called by the garbage collector on what nobody holds.
LEMMA CollectStep ==
  ASSUME IInv, NEW o \in Objects, Collect(o)
  PROVE  IInv'
<1> DEFINE c0 == [ctx[o] EXCEPT !.faults = {}]
           c1 == [c0 EXCEPT !.used = c0.used \/ (forked /\ ctx[o].linked)]
           u == [Take(o) EXCEPT !.c.used = @ \/ (forked /\ ctx[o].linked)]
           s == Free(u)
           c == [NewCtx EXCEPT !.pc = "gone", !.buf = s.c.buf, !.lost = s.c.lost,
                               !.used = s.c.used, !.wire = s.c.wire, !.faults = s.c.faults]
           k == sock[o]
<1>1. ctx[o].pc \in {"idle", "dropped"} /\ Put(o, [s EXCEPT !.c = c])
  BY DEF Collect
<1>t. TypeOK
  BY DEF IInv
<1>2. /\ Becomes(o, Take(o), c0, sock[o])
      /\ ctx[o] \in CtxType /\ sock[o] \in SockType /\ Ok(c0, sock[o])
  BY TakeLemma
<1>3. /\ Sound(o, Take(o)) /\ Take(o).c = c0 /\ Take(o).k = sock[o] /\ c0 \in CtxType
  BY <1>2 DEF Becomes, Sound, StateType
<1>4. c0.pc = ctx[o].pc /\ c0.linked = ctx[o].linked /\ c0.faults = {} /\ ctx[o].linked \in BOOLEAN /\ forked \in BOOLEAN
  BY <1>2, <1>t DEF CtxType, TypeOK
<1> HIDE DEF c0
<1>5. u = [Take(o) EXCEPT !.c = c1]
  BY <1>3
<1>6. /\ c1.linked = c0.linked /\ c1.lost = c0.lost /\ c1.wire = c0.wire /\ c1.used = (c0.used \/ (forked /\ ctx[o].linked))
      /\ c1.pc = c0.pc /\ c1.shared = c0.shared /\ c1.kept = c0.kept /\ c1.faults = c0.faults /\ c1.buf = c0.buf
  BY <1>3 DEF CtxType
<1>7. c1 \in CtxType
  BY <1>3, <1>4 DEF CtxType
<1> HIDE DEF c1
<1>8. Becomes(o, [Take(o) EXCEPT !.c = c1], c1, Take(o).k)
  BY <1>2, <1>3, <1>6, <1>7, Set
<1>9. Sound(o, u) /\ u.c = c1 /\ u.k = k
  BY <1>3, <1>5, <1>8 DEF Becomes
<1> HIDE DEF u
<1>10. u.c.linked => u.k.mem = "live"
  BY <1>2, <1>6, <1>9 DEF Ok, Linked
<1>11. /\ Sound(o, s) /\ ~s.c.linked /\ s.c.lost = c1.lost /\ s.c.used = c1.used
       /\ s.c.faults = c1.faults /\ s.c \in CtxType
       /\ s.c.wire => c1.wire \/ (c1.linked /\ k.ops = "ssl" /\ c1.shared)
       /\ s.k = IF c1.linked THEN WasClosed(k) ELSE k
  BY <1>t, <1>9, <1>10, FreeLemma
<1> HIDE DEF s
<1>12. /\ c.pc = "gone" /\ c.linked = FALSE /\ c.lost = s.c.lost /\ c.used = s.c.used /\ c.wire = s.c.wire
       /\ c.shared = FALSE /\ c.kept = FALSE /\ c.faults = s.c.faults /\ c.buf = s.c.buf
  BY DEF NewCtx
<1>13. c \in CtxType
  <2>1. "gone" \in Pcs /\ "plain" \in Ops /\ 0 \in Addresses
    BY SocketAssumption DEF Pcs, Ops, Addresses
  <2>2. 0 \in Ids /\ {} \in Faults /\ "new" \in Pcs /\ "no" \in Places
    BY PoolAssumption DEF Ids, Faults, Pcs, Places
  <2>3. s.c.buf \in Ids /\ s.c.lost \in Places /\ s.c.used \in BOOLEAN /\ s.c.wire \in BOOLEAN /\ s.c.faults \in Faults
    BY <1>11 DEF CtxType
  <2>4. NewCtx \in CtxType
    BY <2>1, <2>2 DEF CtxType, NewCtx
  <2>5. QED BY <2>1, <2>3, <2>4 DEF CtxType
<1> HIDE DEF c
<1>14. s.k \in SockType
  BY <1>11 DEF Sound, StateType
<1>15. Becomes(o, [s EXCEPT !.c = c], c, s.k)
  BY <1>11, <1>12, <1>13, <1>14, Set
<1>16. c.lost = c0.lost /\ c.faults = {} /\ (c.used <=> c0.used \/ (forked /\ c0.linked))
  BY <1>4, <1>6, <1>11, <1>12
<1>17. c.wire => c0.wire \/ (c0.linked /\ c0.shared)
  BY <1>6, <1>11, <1>12
<1>18. Inherited(c)
  BY <1>2, <1>12, <1>16, <1>17 DEF Ok, Inherited
<1>19. ASSUME c0.linked PROVE Ok(c, s.k)
  <2>1. s.k = WasClosed(k)
    BY <1>6, <1>11, <1>19
  <2>2. s.k.mem = "freed" /\ s.k.fd = k.fd /\ s.k.ops = k.ops /\ s.k.ssl = IF k.ops = "ssl" THEN "none" ELSE k.ssl
    BY <2>1 DEF WasClosed
  <2>3. (k.ops = "stub" => k.fd = 0) /\ (k.ssl = "up" => k.ops = "ssl") /\ (k.ssl = "init" => c0.lost = "tls")
    BY <1>1, <1>2, <1>4 DEF Ok, Sessions
  <2>4. QED
    BY <1>12, <1>16, <1>18, <2>2, <2>3 DEF Ok, Linked, Sessions, Abandoned, Kept, Waits, Connecting
<1>20. ASSUME ~c0.linked PROVE Ok(c, s.k)
  <2>1. s.k = k
    BY <1>6, <1>11, <1>20
  <2>2. /\ (k.ops = "stub" => k.fd = 0) /\ k.ssl # "up" /\ (k.ssl = "init" => c0.lost = "tls")
        /\ (k.mem = "live" => k.ops # "ssl")
        /\ k.mem = "live" => c0.lost \in {"resolving", "connecting"} /\ (k.fd # 0 => forked /\ c0.lost = "connecting")
    BY <1>1, <1>2, <1>4, <1>20 DEF Ok, Sessions, Abandoned
  <2>3. Ok(c, k)
    BY <1>12, <1>16, <1>18, <2>2 DEF Ok, Linked, Sessions, Abandoned, Kept, Waits, Connecting
  <2>4. QED BY <2>1, <2>3
<1>21. Fine(o, [s EXCEPT !.c = c])
  BY <1>15, <1>19, <1>20 DEF Becomes, Fine
<1>22. QED BY <1>1, <1>21, PutLemma

\* What becomes of an object whose thread jumped out of initialize.
LEMMA LostLemma ==
  ASSUME NEW o \in Objects, NEW g, Sound(o, g), NEW lost \in Places
  PROVE  LET l == At([g EXCEPT !.c.lost = lost, !.c.addr = 0], "dropped") IN
         /\ Sound(o, l) /\ l.k = g.k /\ l.c.pc = "dropped" /\ l.c.lost = lost
         /\ l.c.linked = g.c.linked /\ l.c.wire = g.c.wire /\ l.c.used = g.c.used
         /\ l.c.shared = g.c.shared /\ l.c.kept = g.c.kept /\ l.c.faults = g.c.faults
<1> DEFINE c1 == [g.c EXCEPT !.lost = lost]
           c2 == [c1 EXCEPT !.addr = 0]
           c3 == [c2 EXCEPT !.pc = "dropped"]
           g1 == [g EXCEPT !.c = c1]
           g2 == [g1 EXCEPT !.c = [g1.c EXCEPT !.addr = 0]]
           l == At(g2, "dropped")
<1>1. g.c \in CtxType /\ g.k \in SockType /\ 0 \in Addresses /\ "dropped" \in Pcs
  BY SocketAssumption DEF Sound, StateType, Addresses, Pcs
<1>2. /\ c3.linked = g.c.linked /\ c3.lost = lost /\ c3.wire = g.c.wire /\ c3.used = g.c.used /\ c3.pc = "dropped"
      /\ c3.shared = g.c.shared /\ c3.kept = g.c.kept /\ c3.faults = g.c.faults
  BY <1>1 DEF CtxType
<1>3. c1 \in CtxType /\ c1.buf = g.c.buf
  BY <1>1 DEF CtxType
<1>4. [g EXCEPT !.c.lost = lost, !.c.addr = 0] = g2
  OBVIOUS
<1> HIDE DEF c1
<1>5. c2 \in CtxType /\ c2.buf = c1.buf
  BY <1>1, <1>3 DEF CtxType
<1>6. Sound(o, g1) /\ g1.c = c1 /\ g1.k = g.k
  <2>1. Becomes(o, g1, c1, g.k)
    BY <1>1, <1>3, Set
  <2>2. QED BY <2>1 DEF Becomes
<1> HIDE DEF g1, c2
<1>7. g2 = [g1 EXCEPT !.c = c2]
  BY <1>6 DEF c2
<1> HIDE DEF g2
<1>8. Sound(o, g2) /\ g2.c = c2 /\ g2.k = g.k
  <2>1. Becomes(o, [g1 EXCEPT !.c = c2], c2, g1.k)
    BY <1>1, <1>5, <1>6, Set
  <2>2. QED BY <2>1, <1>6, <1>7 DEF Becomes
<1>9. Becomes(o, l, [g2.c EXCEPT !.pc = "dropped"], g2.k)
  BY <1>1, <1>8, AtLemma
<1>10. Sound(o, l) /\ l.c = c3 /\ l.k = g.k
  BY <1>8, <1>9 DEF Becomes
<1> HIDE DEF c3, l
<1>11. QED BY <1>2, <1>4, <1>10 DEF l

\* An exception ends a wait, and the thread jumps past every cleanup.
LEMMA InterruptedStep ==
  ASSUME IInv, NEW o \in Objects, Interrupted(o)
  PROVE  IInv'
<1> DEFINE s == Take(o)
           at == ctx[o].pc
           d == Shutdown(s)
           Jump(g) == At([g EXCEPT !.c.lost = LostAt(at), !.c.addr = 0], "dropped")
<1>1. at \in Waits \cup {"resolving"}
  BY DEF Interrupted
<1>2. LostAt(at) \in Places
  BY DEF LostAt, Places
<1>3. CASE at = "resolving"
  <2>1. Sound(o, s) /\ Opening(s.c, s.k) /\ s.k.fd = 0
    BY <1>3, OpeningLemma
  <2>2. Put(o, Jump(s))
    BY <1>3 DEF Interrupted
  <2> HIDE DEF s
  <2> DEFINE l == Jump(s)
  <2>3. /\ Sound(o, l) /\ l.k = s.k /\ l.c.pc = "dropped" /\ l.c.lost = "resolving"
        /\ l.c.linked = s.c.linked /\ l.c.wire = s.c.wire /\ l.c.used = s.c.used
        /\ l.c.shared = s.c.shared /\ l.c.kept = s.c.kept /\ l.c.faults = s.c.faults
    <3>1. LostAt(at) = "resolving"
      BY <1>3 DEF LostAt
    <3>2. /\ Sound(o, l) /\ l.k = s.k /\ l.c.pc = "dropped" /\ l.c.lost = LostAt(at)
          /\ l.c.linked = s.c.linked /\ l.c.wire = s.c.wire /\ l.c.used = s.c.used
          /\ l.c.shared = s.c.shared /\ l.c.kept = s.c.kept /\ l.c.faults = s.c.faults
      BY <1>2, <2>1, LostLemma
    <3> HIDE DEF l
    <3>3. QED BY <3>1, <3>2
  <2>p. Put(o, l)
    BY <2>2
  <2> HIDE DEF l
  <2>4. Ok(l.c, l.k)
    BY <2>1, <2>3 DEF Opening, Ok, Linked, Sessions, Abandoned, Kept, Inherited, Waits, Connecting
  <2>5. Fine(o, l)
    BY <2>3, <2>4 DEF Fine
  <2>6. QED BY <2>p, <2>5, PutLemma
<1>4. CASE at = "connecting"
  <2>1. Sound(o, s) /\ Opening(s.c, s.k)
    BY <1>4, OpeningLemma
  <2>2. Put(o, Jump(d))
    BY <1>4 DEF Interrupted, Connecting
  <2> HIDE DEF s
  <2>3. Sound(o, d) /\ d.c = s.c /\ d.k = WasShut(s.k)
    BY <2>1, ShutdownLemma DEF Opening, Becomes
  <2>4. d.k.mem = "live" /\ d.k.fd = 0 /\ d.k.ops = "stub" /\ d.k.ssl = "none"
    BY <2>1, <2>3 DEF WasShut, Opening
  <2> HIDE DEF d
  <2> DEFINE l == Jump(d)
  <2>5. /\ Sound(o, l) /\ l.k = d.k /\ l.c.pc = "dropped" /\ l.c.lost = "connecting"
        /\ l.c.linked = d.c.linked /\ l.c.wire = d.c.wire /\ l.c.used = d.c.used
        /\ l.c.shared = d.c.shared /\ l.c.kept = d.c.kept /\ l.c.faults = d.c.faults
    <3>1. LostAt(at) = "connecting"
      BY <1>4 DEF LostAt
    <3>2. /\ Sound(o, l) /\ l.k = d.k /\ l.c.pc = "dropped" /\ l.c.lost = LostAt(at)
          /\ l.c.linked = d.c.linked /\ l.c.wire = d.c.wire /\ l.c.used = d.c.used
          /\ l.c.shared = d.c.shared /\ l.c.kept = d.c.kept /\ l.c.faults = d.c.faults
      BY <1>2, <2>3, LostLemma
    <3> HIDE DEF l
    <3>3. QED BY <3>1, <3>2
  <2>p. Put(o, l)
    BY <2>2
  <2> HIDE DEF l
  <2>6. Ok(l.c, l.k)
    BY <2>1, <2>3, <2>4, <2>5 DEF Opening, Ok, Linked, Sessions, Abandoned, Kept, Inherited, Waits, Connecting
  <2>7. Fine(o, l)
    BY <2>5, <2>6 DEF Fine
  <2>8. QED BY <2>p, <2>7, PutLemma
<1>5. CASE at \in Connecting \ {"connecting"}
  <2>0. ctx[o].linked
    BY <1>5 DEF IInv, Ok, Linked, Waits, Connecting
  <2>1. Sound(o, s) /\ Going(s.c, s.k) /\ (s.k.ssl = "init" => at = "tls") /\ ~s.c.kept
    BY <1>5, <2>0, GoingLemma DEF Connecting
  <2>2. Put(o, Jump(d))
    BY <1>5 DEF Interrupted, Connecting
  <2> HIDE DEF s
  <2>3. /\ Sound(o, d) /\ d.c = s.c /\ Going(d.c, d.k)
        /\ d.k.fd = 0 /\ d.k.ops = "stub" /\ (d.k.ssl = "init" => s.k.ssl = "init")
    BY <2>1, ShutLemma
  <2> HIDE DEF d
  <2> DEFINE l == Jump(d)
  <2>4. /\ Sound(o, l) /\ l.k = d.k /\ l.c.pc = "dropped" /\ l.c.lost = LostAt(at)
        /\ l.c.linked = d.c.linked /\ l.c.wire = d.c.wire /\ l.c.used = d.c.used
        /\ l.c.shared = d.c.shared /\ l.c.kept = d.c.kept /\ l.c.faults = d.c.faults
    BY <1>2, <2>3, LostLemma
  <2>p. Put(o, l)
    BY <2>2
  <2> HIDE DEF l
  <2>5. d.k.ssl = "init" => LostAt(at) = "tls"
    BY <2>1, <2>3 DEF LostAt
  <2>6. Ok(l.c, l.k)
    BY <2>1, <2>3, <2>4, <2>5 DEF Going, Ok, Linked, Sessions, Abandoned, Kept, Inherited, Waits, Connecting
  <2>7. Fine(o, l)
    BY <2>4, <2>6 DEF Fine
  <2>8. QED BY <2>p, <2>7, PutLemma
<1>6. CASE at \in {"sending", "reading", "closing"}
  <2>0. ctx[o].linked
    BY <1>6 DEF IInv, Ok, Linked, Waits, Connecting
  <2>1. Sound(o, s) /\ Going(s.c, s.k) /\ s.k.ssl # "init" /\ ~s.c.kept
    BY <1>6, <2>0, GoingLemma
  <2>2. Put(o, Idle(d))
    BY <1>6 DEF Interrupted, Connecting
  <2> HIDE DEF s
  <2>3. Sound(o, d) /\ d.c = s.c /\ Going(d.c, d.k) /\ d.k.ssl # "init"
    BY <2>1, ShutLemma
  <2> HIDE DEF d
  <2>4. Fine(o, Idle(d))
    BY <2>1, <2>3, IdleFine
  <2>5. QED BY <2>2, <2>4, PutLemma
<1>7. QED BY <1>1, <1>3, <1>4, <1>5, <1>6 DEF Waits

-----------------------------------------------------------------------------
(* The process around the binding, and the theorems.                         *)

\* The rest of the process opens and closes descriptors of its own only.
LEMMA ForeignStep ==
  ASSUME IInv, ForeignOpen \/ ForeignClose
  PROVE  IInv'
<1>1. ctx' = ctx /\ sock' = sock /\ pool' = pool /\ live' = live /\ forked' = forked
  BY DEF ForeignOpen, ForeignClose
<1>2. table \in [1..Fds -> Owners] /\ Fds \in Nat /\ Foreign \notin Objects /\ Nobody \notin Objects
  BY SocketAssumption, BindingAssumption DEF IInv, TypeOK, Owners
<1>3. /\ table' \in [1..Fds -> Owners]
      /\ \A f \in 1..Fds, p \in Objects : table'[f] = p <=> table[f] = p
  <2>1. CASE ForeignOpen
    <3> DEFINE S == {f \in 1..Fds : table[f] = Nobody}
               m == Min(S)
    <3>1. S \in SUBSET Nat /\ S # {}
      BY <1>2, <2>1 DEF ForeignOpen
    <3>2. m \in S
      BY <3>1, MinLemma
    <3>3. table' = [table EXCEPT ![m] = Foreign]
      BY <2>1 DEF ForeignOpen
    <3>4. m \in 1..Fds /\ table[m] = Nobody
      BY <3>2
    <3> HIDE DEF m
    <3>5. QED BY <1>2, <3>3, <3>4 DEF Owners
  <2>2. CASE ForeignClose
    BY <1>2, <2>2 DEF ForeignClose, Owners
  <2>3. QED BY <2>1, <2>2
<1>4. TypeOK'
  BY <1>1, <1>3 DEF IInv, TypeOK, Owners
<1>5. BuffersExclusive'
  BY <1>1 DEF IInv, BuffersExclusive, Held
<1>6. \A o \in Objects : Owned(o, sock[o], table)'
  BY <1>1, <1>3 DEF IInv, Owned
<1>7. \A o \in Objects : Ok(ctx[o], sock[o])'
  BY <1>1 DEF IInv, Ok, Linked, Sessions, Abandoned, Kept, Inherited
<1>8. QED BY <1>4, <1>5, <1>6, <1>7 DEF IInv

\* fork: in the child the waits are over, and everything is shared.
LEMMA ForkStep ==
  ASSUME IInv, Fork
  PROVE  IInv'
<1>1. /\ sock' = sock /\ pool' = pool /\ live' = live /\ table' = table /\ forked' = TRUE
      /\ ctx' = [o \in Objects |-> Orphan(ctx[o], sock[o])]
  BY DEF Fork
<1>2. ctx \in [Objects -> CtxType] /\ sock \in [Objects -> SockType]
  BY DEF IInv, TypeOK, CtxType, SockType, Ids, Addresses, Faults, Ops, Places
<1>3. ASSUME NEW o \in Objects
      PROVE  /\ ctx'[o] \in CtxType /\ ctx'[o].buf = ctx[o].buf
             /\ Ok(ctx[o], sock[o])'
  <2> DEFINE c == ctx[o]
             k == sock[o]
             at == c.pc
             now == CASE at \in Connecting \cup {"resolving"} -> "dropped"
                      [] at \in {"sending", "reading", "closing"} -> "idle"
                      [] OTHER -> at
             lost == IF at \in Waits \cup {"resolving"} THEN LostAt(at) ELSE c.lost
             d == Orphan(c, k)
  <2>1. c \in CtxType /\ k \in SockType /\ Ok(c, k)
    BY <1>2 DEF IInv
  <2>2. ctx'[o] = d /\ sock'[o] = k
    BY <1>1
  <2>3. at \in Pcs
    BY <2>1 DEF CtxType
  <2>4. /\ now \in Pcs
        /\ at \in Connecting \cup {"resolving"} => now = "dropped"
        /\ at \in {"sending", "reading", "closing"} => now = "idle"
        /\ at \in {"new", "idle", "dropped", "gone"} => now = at
    BY <2>3 DEF Pcs, Waits, Connecting
  <2>5. lost \in Places /\ c.lost \in Places
    BY <2>1 DEF CtxType, LostAt, Places
  <2>6. d = [c EXCEPT !.shared = (k.fd # 0), !.lost = lost, !.addr = 0, !.op = "plain", !.faults = {}, !.pc = now]
    BY DEF Orphan
  <2>7. "plain" \in Ops /\ 0 \in Addresses /\ {} \in Faults /\ (k.fd # 0) \in BOOLEAN
    BY SocketAssumption DEF Ops, Addresses, Faults
  <2> DEFINE sh == (k.fd # 0)
  <2> HIDE DEF now, lost, d, c, sh
  <2>8. d = [c EXCEPT !.shared = sh, !.lost = lost, !.addr = 0, !.op = "plain", !.faults = {}, !.pc = now] /\ sh \in BOOLEAN
    BY <2>6 DEF sh
  <2>9. d \in CtxType
    BY <2>1, <2>4, <2>5, <2>7, <2>8 DEF CtxType
  <2>10. /\ d.linked = c.linked /\ d.lost = lost /\ d.wire = c.wire /\ d.used = c.used /\ d.pc = now
         /\ d.kept = c.kept /\ d.faults = {} /\ d.buf = c.buf
    BY <2>1, <2>8 DEF CtxType
  <2>11. Ok(c, k) /\ (k.fd # 0 \/ k.fd = 0)
    BY <2>1
  <2>12. lost = IF at \in Waits \cup {"resolving"} THEN LostAt(at) ELSE c.lost
    BY DEF lost
  <2>13. \/ at \in Waits \cup {"resolving"}
         \/ at \in {"new", "idle", "dropped", "gone"} /\ lost = c.lost
    BY <2>3, <2>12 DEF Pcs
  <2>14. Linked(d, k) /\ Sessions(d, k) /\ Kept(d)
    BY <2>1, <2>4, <2>10, <2>12, <2>13 DEF LostAt, Ok, Linked, Sessions, Kept, Abandoned, Waits, Connecting
  <2>15. /\ d.lost # "no" => d.pc \in {"dropped", "gone"}
         /\ d.pc \in {"idle", "dropped", "gone"} /\ ~d.linked /\ k.mem = "live" =>
              d.lost \in {"resolving", "connecting"} /\ (k.fd # 0 => d.lost = "connecting")
    BY <2>1, <2>4, <2>10, <2>12, <2>13 DEF LostAt, Ok, Linked, Sessions, Kept, Abandoned, Waits, Connecting
  <2>16. (d.wire => d.used) /\ d.pc # "closing" /\ d.faults = {}
    BY <2>1, <2>3, <2>4, <2>10 DEF Ok, Inherited, Pcs, Waits
  <2>17. ctx'[o] = d /\ sock'[o] = k /\ forked'
    BY <1>1, <2>2
  <2>18. Ok(ctx[o], sock[o])'
    BY <2>14, <2>15, <2>16, <2>17 DEF Ok, Linked, Sessions, Kept, Abandoned, Inherited
  <2>19. QED BY <2>2, <2>9, <2>10, <2>18 DEF c
<1>4. TypeOK'
  BY <1>1, <1>3 DEF IInv, TypeOK, CtxType, SockType, Ids, Addresses, Faults, Ops, Places
<1>5. BuffersExclusive'
  <2>1. \A o \in Objects : Held(o)' = Held(o)
    BY <1>3 DEF Held
  <2>2. {Held(p)' : p \in Objects} = {Held(p) : p \in Objects}
    BY <2>1
  <2>3. QED BY <1>1, <2>1, <2>2 DEF IInv, BuffersExclusive
<1>6. \A o \in Objects : Owned(o, sock[o], table)'
  BY <1>1 DEF IInv, Owned
<1>7. QED BY <1>3, <1>4, <1>5, <1>6 DEF IInv

\* What happens elsewhere changes nothing.
LEMMA StutterStep ==
  ASSUME IInv, UNCHANGED vars
  PROVE  IInv'
<1>1. /\ ctx' = ctx /\ sock' = sock /\ pool' = pool
      /\ live' = live /\ table' = table /\ forked' = forked
  BY DEF vars
<1>2. TypeOK'
  BY <1>1 DEF IInv, TypeOK
<1>3. BuffersExclusive'
  BY <1>1 DEF IInv, BuffersExclusive, Held
<1>4. \A o \in Objects : Owned(o, sock[o], table)'
  BY <1>1 DEF IInv, Owned
<1>5. \A o \in Objects : Ok(ctx[o], sock[o])'
  BY <1>1 DEF IInv, Ok, Linked, Sessions, Abandoned, Kept, Inherited
<1>6. QED
  BY <1>2, <1>3, <1>4, <1>5 DEF IInv

\* Before the first object connects.
LEMMA InitInv == Init => IInv
<1> SUFFICES ASSUME Init PROVE IInv
  OBVIOUS
<1>1. /\ ctx = [o \in Objects |-> NewCtx] /\ sock = [o \in Objects |-> NoSocket]
      /\ pool = <<>> /\ live = {} /\ table = [f \in 1..Fds |-> Nobody] /\ forked = FALSE
  BY DEF Init
<1>2. NewCtx \in CtxType
  BY PoolAssumption, SocketAssumption DEF NewCtx, CtxType, Ids, Addresses, Faults, Ops, Places, Pcs
<1>3. NoSocket \in SockType
  BY SocketAssumption DEF NoSocket, SockType
<1>4. TypeOK
  <2>1. ctx \in [Objects -> CtxType]
    BY <1>1, <1>2
  <2>2. sock \in [Objects -> SockType]
    BY <1>1, <1>3
  <2>3. pool \in Seq(1..Buffers) /\ Len(pool) = 0
    BY <1>1
  <2>4. Len(pool) <= PoolMax
    BY <2>3, PoolAssumption
  <2>5. live \subseteq 1..Buffers /\ forked \in BOOLEAN
    BY <1>1
  <2>6. table \in [1..Fds -> Objects \cup {Nobody, Foreign}]
    BY <1>1
  <2>7. pool \in Seq(1..Buffers) /\ Len(pool) <= PoolMax
    BY <2>3, <2>4
  <2>8. QED
    BY <2>1, <2>2, <2>5, <2>6, <2>7 DEF TypeOK, CtxType, SockType, Ids, Addresses, Faults, Ops, Places
<1>5. BuffersExclusive
  <2>1. \A o \in Objects : Held(o) = 0
    BY <1>1 DEF Held, NewCtx
  <2>2. DOMAIN pool = {}
    BY <1>1
  <2>3. QED BY <1>1, <2>1, <2>2 DEF BuffersExclusive
<1>6. \A o \in Objects : Owned(o, sock[o], table)
  BY <1>1, BindingAssumption DEF Owned, NoSocket
<1>7. \A o \in Objects : Ok(ctx[o], sock[o])
  <2>1. Ok(NewCtx, NoSocket)
    BY DEF NewCtx, NoSocket, Ok, Linked, Sessions, Abandoned, Kept, Inherited, Waits, Connecting
  <2>2. QED BY <1>1, <2>1
<1>8. QED BY <1>4, <1>5, <1>6, <1>7 DEF IInv

\* The inductive invariant: every step of every object, of the process around it and
\* of fork preserves it.
THEOREM BindingInvariant == Spec => []IInv
<1>1. Init => IInv
  BY InitInv
<1>2. IInv /\ [Next]_vars => IInv'
  <2> SUFFICES ASSUME IInv, [Next]_vars PROVE IInv'
    OBVIOUS
  <2>1. ASSUME NEW o \in Objects,
               Connect(o) \/ Resolved(o) \/ Connected(o) \/ Hello(o) \/ Flushed(o) \/ Tls(o) \/ Authenticated(o)
        PROVE  IInv'
    BY <2>1, ConnectStep, ResolvedStep, ConnectedStep, HelloStep, FlushedStep, TlsStep, AuthenticatedStep
  <2>2. ASSUME NEW o \in Objects, Call(o)
        PROVE  IInv'
    BY <2>2, StartStep, BadOptionStep, FlushedCommandStep, NextResultStep, ReplyStep, EscapeStep, CheckStep,
       CloseStep, FlushedCloseStep, DiscardStep DEF Call
  <2>3. ASSUME NEW o \in Objects, Collect(o) \/ Interrupted(o)
        PROVE  IInv'
    BY <2>3, CollectStep, InterruptedStep
  <2>4. CASE ForeignOpen \/ ForeignClose
    BY <2>4, ForeignStep
  <2>5. CASE Fork
    BY <2>5, ForkStep
  <2>6. CASE UNCHANGED vars
    BY <2>6, StutterStep
  <2>7. QED BY <2>1, <2>2, <2>3, <2>4, <2>5, <2>6 DEF Next
<1>3. QED BY <1>1, <1>2, PTL DEF Spec

\* TypeOK: every variable keeps its type and the pool never outgrows
\* BUFFER_POOL_MAX_SIZE (cext.c:132), for any number of objects and any bound.
THEOREM BindingTypes == Spec => []TypeOK
<1>1. IInv => TypeOK
  BY DEF IInv
<1>2. QED BY <1>1, BindingInvariant, PTL

\* BuffersExclusive: a packet_buffer has one user, an object or the pool, however
\* calls, errors, exceptions and collections of any number of objects interleave.
THEOREM BuffersHaveOneUser == Spec => []BuffersExclusive
<1>1. IInv => BuffersExclusive
  BY DEF IInv
<1>2. QED BY <1>1, BindingInvariant, PTL

\* NoStaleUse: no step uses a freed structure, a descriptor that belongs to somebody
\* else, or a freed buffer, but for the two exceptions the property names.
THEOREM NothingStaleIsUsed == Spec => []NoStaleUse
<1>1. IInv => NoStaleUse
  <2> SUFFICES ASSUME IInv, NEW o \in Objects, NEW f \in ctx[o].faults
               PROVE  \/ f = <<"socket", "resolving">>
                      \/ f[1] = "error text" /\ f[2] \in {"hello", "auth", "reading"}
    BY DEF NoStaleUse
  <2>1. f \in Excused
    BY DEF IInv, Ok
  <2>2. CASE f = <<"socket", "resolving">>
    BY <2>2
  <2>3. CASE f \in {<<"error text", at>> : at \in {"hello", "auth", "reading"}}
    <3>1. PICK at \in {"hello", "auth", "reading"} : f = <<"error text", at>>
      BY <2>3
    <3>2. f[1] = "error text" /\ f[2] = at
      BY <3>1
    <3>3. QED BY <3>2
  <2>4. QED BY <2>1, <2>2, <2>3 DEF Excused
<1>2. QED BY <1>1, BindingInvariant, PTL

\* BufferForNextResult: the buffer next_result relies on (cext.c:1074) is there.
THEOREM ResultsKeepTheirBuffer == Spec => []BufferForNextResult
<1>1. IInv => BufferForNextResult
  BY DEF IInv, Ok, Kept, BufferForNextResult
<1>2. QED BY <1>1, BindingInvariant, PTL

\* NothingLeaks: a collected object has left nothing behind, except what an exception
\* or fork took out of initialize before it was linked.
THEOREM CollectedIsGone == Spec => []NothingLeaks
<1>1. IInv => NothingLeaks
  <2> SUFFICES ASSUME IInv, NEW o \in Objects, ctx[o].pc = "gone"
               PROVE  /\ sock[o].mem = "live" => ctx[o].lost \in {"resolving", "connecting"}
                      /\ sock[o].ssl # "none" => ctx[o].lost = "tls"
                      /\ o \in {table[f] : f \in 1..Fds} => forked /\ ctx[o].lost = "connecting"
    BY DEF NothingLeaks
  <2>1. Ok(ctx[o], sock[o]) /\ Owned(o, sock[o], table) /\ sock[o] \in SockType
    BY DEF IInv, TypeOK, SockType
  <2>2. ~ctx[o].linked
    BY <2>1 DEF Ok, Linked
  <2>3. sock[o].mem = "live" => ctx[o].lost \in {"resolving", "connecting"} /\ (sock[o].fd # 0 => forked /\ ctx[o].lost = "connecting")
    BY <2>1, <2>2 DEF Ok, Abandoned
  <2>4. sock[o].ssl # "none" => ctx[o].lost = "tls"
    BY <2>1, <2>2 DEF Ok, Sessions, SockType
  <2>5. o \in {table[f] : f \in 1..Fds} => sock[o].mem = "live" /\ sock[o].fd # 0
    BY <2>1, SocketAssumption DEF Owned
  <2>6. QED BY <2>3, <2>4, <2>5
<1>2. QED BY <1>1, BindingInvariant, PTL

\* ParentUndisturbed: a child that only discards an inherited connection, or lets it
\* be, writes nothing on it.
THEOREM ParentLeftAlone == Spec => []ParentUndisturbed
<1>1. IInv => ParentUndisturbed
  BY DEF IInv, Ok, Inherited, ParentUndisturbed
<1>2. QED BY <1>1, BindingInvariant, PTL
=============================================================================
