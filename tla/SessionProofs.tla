---------------------------- MODULE SessionProofs ----------------------------
(***************************************************************************)
(* That a statement at the server and who works with it belong to each     *)
(* other (HandlesExact), that no plan outlives the schema it was made for  *)
(* (PlansFresh) and that what the cache lends can be executed (CacheReady),*)
(* for any number of callers, texts, handles and PreparedStatements and    *)
(* any capacity of the cache.                                              *)
(*                                                                         *)
(* Callers are considerate of streams, "overlap" \notin Events: a stream   *)
(* that works with an entry of the cache does not own it, and the code     *)
(* lets whoever calls take the entry away. The inductive invariant IInv    *)
(* says who keeps each handle (Kept, Books), that the op-lock has one      *)
(* job at work (Line), what an operation knows at each step (Shapes) and   *)
(* that what callers considered when they called remains true (Calm).      *)
(* Settled, Gains, HandsOver and Stays are the four ways in which handles  *)
(* change keepers; every action is one of them. Cursors is a second        *)
(* invariant on top of it.                                                 *)
(***************************************************************************)
EXTENDS Session, FiniteSetTheorems, SequenceTheorems, TLAPS

Entry == [sql : Sqls, h : Handles]

\* No text and no handle has two entries.
Apart(entries) ==
    \A i, j \in DOMAIN entries :
        entries[i].sql = entries[j].sql \/ entries[i].h = entries[j].h => i = j

\* An operation that must free its statement, and one that works with the cache's.
Owner(c) ==
    /\ Busy(c) /\ op[c].h # NoHandle
    /\ op[c].kind = "close" \/ (op[c].kind \in {"run", "stream"} /\ ~op[c].hit)
Lent(c) == Busy(c) /\ op[c].kind \in {"run", "stream"} /\ op[c].hit
Pinned(p) == pin[p] # NoPin

\* The op-lock: only its first caller is at work.
Line ==
    /\ IsInjective(chain)
    /\ \A c \in Callers : c \in Range(chain) <=> Busy(c) /\ op[c].step # "yield"
    /\ \A c \in Callers : Busy(c) /\ op[c].step \in {"star", "prepare", "execute", "fetch"} =>
            chain # <<>> /\ c = Head(chain)

\* What the kind and the step of an operation say of the rest of it.
Shape(o) ==
    /\ (o.kind \in {"close", "clear"}) = (o.sql = None)
    /\ o.kind \in {"prepare", "pinned", "close"} => o.pin \in Pins
    /\ o.sql \in Ddls => o.kind = "run"
    /\ o.star => o.kind \in {"run", "stream"} /\ o.sql \in DOMAIN Rewritten /\ o.h = NoHandle
    /\ o.star => o.step \in {"queued", "star"}
    /\ o.step = "star" => o.star
    /\ o.hit => o.h # NoHandle
    /\ o.kind \in {"prepare", "clear"} => o.h = NoHandle
    /\ o.kind \in {"pinned", "close"} => o.h # NoHandle
    /\ o.kind = "pinned" => o.hit
    /\ o.step \in {"execute", "fetch", "yield", "more"} => o.h # NoHandle
    /\ o.step \in {"begin", "star", "prepare"} /\ o.kind # "pinned" => o.h = NoHandle
    /\ o.step = "queued" /\ o.h # NoHandle => o.hit \/ o.kind = "close"
    /\ o.kind = "run" /\ o.step = "queued" => o.h = NoHandle
    /\ o.open => o.step \in {"fetch", "yield", "more", "finish"}
    /\ o.step \in {"yield", "more", "finish"} => o.kind = "stream"
Shapes == \A c \in Callers : Busy(c) => Shape(op[c])

\* A PreparedStatement that is open has a statement, which its runs work with.
Objects ==
    /\ \A p \in Pins : Pinned(p) => pin[p].h \in Handles /\ pin[p].sql \in Sqls
    /\ \A c \in Callers : Busy(c) /\ op[c].kind = "pinned" =>
            pin[op[c].pin] = [h |-> op[c].h, sql |-> op[c].sql]
    /\ \A c \in Callers : Busy(c) /\ op[c].kind = "prepare" => ~Pinned(op[c].pin)
    /\ \A c, d \in Callers : Busy(c) /\ op[c].kind = "prepare" /\ Busy(d) /\ op[d].kind = "prepare"
            /\ op[c].pin = op[d].pin => c = d

\* Every handle has one keeper: an entry of the cache, an operation or a PreparedStatement.
Kept ==
    /\ Apart(cache)
    /\ \A c \in Callers : Owner(c) =>
        /\ \A e \in Range(cache) : e.h # op[c].h
        /\ \A d \in Callers : Owner(d) /\ op[d].h = op[c].h => c = d
        /\ \A p \in Pins : Pinned(p) => pin[p].h # op[c].h
    /\ \A p \in Pins : Pinned(p) =>
        /\ \A e \in Range(cache) : e.h # pin[p].h
        /\ \A q \in Pins : Pinned(q) /\ pin[p].h = pin[q].h => p = q

\* The statement that each keeper has is prepared for its text, and none is without one.
Books ==
    /\ \A e \in Range(cache) : server[e.h].sql = e.sql
    /\ \A c \in Callers : Owner(c) =>
        server[op[c].h].sql \in Sqls /\ (op[c].kind # "close" => server[op[c].h].sql = op[c].sql)
    /\ \A p \in Pins : Pinned(p) => server[pin[p].h].sql = pin[p].sql
    /\ \A c \in Callers : Lent(c) => [sql |-> op[c].sql, h |-> op[c].h] \in Range(cache)
    /\ \A h \in Handles : server[h].sql \in Sqls =>
        \/ h \in HandlesOf(cache)
        \/ \E c \in Callers : Owner(c) /\ op[c].h = h
        \/ \E p \in Pins : Pinned(p) /\ pin[p].h = h

\* Nobody takes from a stream what the cache lends it.
AtWork == {op[c] : c \in {d \in Callers : Busy(d)}}
Calm ==
    /\ \A c, d \in Callers : Busy(c) /\ Busy(d) /\ c # d => ~Disturbs(op[c], op[d])
    /\ (\E c \in Callers : Busy(c) /\ Borrows(op[c])) => Room(AtWork)

\* No plan that is or may be kept is older than the schema.
Recent ==
    /\ PlansFresh
    /\ \A c \in Callers : Owner(c) /\ op[c].kind # "close" => server[op[c].h].schema = schema
\* The bound of the model is kept by who may still change the schema.
Bounded == schema + Cardinality(DdlsRunning) <= MaxSchema

\* A cursor is open only in the hands of who opened it.
Cursors ==
    /\ \A c \in Callers : Owner(c) \/ Lent(c) =>
            (op[c].kind # "close" => (server[op[c].h].cursor => op[c].open))
    /\ \A e \in Range(cache) : server[e.h].cursor => \E c \in Callers : Lent(c) /\ op[c].h = e.h

IInv == TypeOK /\ Line /\ Shapes /\ Objects /\ Kept /\ Books /\ Calm /\ Recent /\ Bounded

-----------------------------------------------------------------------------
(* The cache's operations on its entries. *)

\* Taking a text out leaves the other entries, in order.
LEMMA WithoutEntries ==
    ASSUME NEW E \in Seq(Entry), Apart(E), NEW sql
    PROVE  LET W == Without(E, sql) IN
           /\ W \in Seq(Entry) /\ Apart(W)
           /\ Len(W) = IF Cached(E, sql) THEN Len(E) - 1 ELSE Len(E)
           /\ Range(W) = {e \in Range(E) : e.sql # sql}
<1> DEFINE W == Without(E, sql)
           n == Len(E)
<1>0. n \in Nat /\ DOMAIN E = 1..n
  OBVIOUS
<1>1. CASE ~Cached(E, sql)
  <2>1. W = E
    BY <1>1 DEF Without
  <2>2. \A e \in Range(E) : e.sql # sql
    BY <1>1 DEF Cached, Range
  <2> QED
    BY <1>1, <2>1, <2>2
<1>2. CASE Cached(E, sql)
  <2>1. PICK i \in 1..n : i = Place(E, sql) /\ E[i].sql = sql
    BY <1>2, <1>0 DEF Cached, Place
  <2> DEFINE f == [j \in 1..(n - 1) |-> IF j < i THEN j ELSE j + 1]
             a == SubSeq(E, 1, i - 1)
             z == SubSeq(E, i + 1, n)
  <2>2. W = a \o z
    BY <1>2, <2>1 DEF Without, RemoveAt
  <2>3. a \in Seq(Entry) /\ Len(a) = i - 1 /\ \A j \in 1..(i - 1) : a[j] = E[j]
    BY <1>0, SubSeqProperties
  <2>4. z \in Seq(Entry) /\ Len(z) = n - i /\ \A j \in 1..(n - i) : z[j] = E[i + j]
    <3>1. /\ z \in Seq(Entry) /\ Len(z) = (IF i + 1 <= n THEN n - (i + 1) + 1 ELSE 0)
          /\ \A j \in 1..(n - (i + 1) + 1) : z[j] = E[i + 1 + j - 1]
      BY <1>0, SubSeqProperties
    <3>2. i \in Nat /\ i <= n /\ n - (i + 1) + 1 = n - i /\ \A j \in 1..(n - i) : i + 1 + j - 1 = i + j
      BY <1>0
    <3> HIDE DEF z, n
    <3>3. Len(z) = n - i
      BY <1>0, <3>1, <3>2
    <3> QED
      BY <3>1, <3>2, <3>3
  <2> HIDE DEF a, z, n
  <2>5. /\ a \o z \in Seq(Entry) /\ Len(a \o z) = n - 1
        /\ \A j \in 1..(n - 1) : (a \o z)[j] = IF j <= Len(a) THEN a[j] ELSE z[j - Len(a)]
    BY <1>0, <2>3, <2>4, ConcatProperties
  <2>6. \A j \in 1..(n - 1) : f[j] \in 1..n /\ f[j] # i
    BY <1>0
  <2>7. \A j \in 1..(n - 1) : (a \o z)[j] = E[f[j]]
    <3> SUFFICES ASSUME NEW j \in 1..(n - 1) PROVE (a \o z)[j] = E[f[j]]
      OBVIOUS
    <3>1. CASE j < i
      <4>1. j <= i - 1 /\ j \in 1..(i - 1)
        BY <1>0, <3>1
      <4> QED
        BY <3>1, <4>1, <2>3, <2>5
    <3>2. CASE ~(j < i)
      <4>1. ~(j <= i - 1) /\ j - (i - 1) \in 1..(n - i) /\ i + (j - (i - 1)) = j + 1
        BY <1>0, <3>2
      <4> QED
        BY <3>2, <4>1, <2>3, <2>4, <2>5
    <3> QED
      BY <3>1, <3>2
  <2>8. \A j, k \in 1..(n - 1) : f[j] = f[k] => j = k
    BY <1>0
  <2>9. \A m \in 1..n : m # i => \E j \in 1..(n - 1) : f[j] = m
    <3>1. ASSUME NEW m \in 1..n, m < i PROVE m \in 1..(n - 1) /\ f[m] = m
      BY <1>0, <3>1
    <3>2. ASSUME NEW m \in 1..n, m > i PROVE m - 1 \in 1..(n - 1) /\ f[m - 1] = m
      BY <1>0, <3>2
    <3>3. \A m \in 1..n : m # i => m < i \/ m > i
      BY <1>0
    <3> QED
      BY <3>1, <3>2, <3>3
  <2> HIDE DEF f
  <2>10. DOMAIN (a \o z) = 1..(n - 1)
    BY <2>5
  <2> DEFINE V == a \o z
  <2>11. V \in Seq(Entry) /\ Len(V) = n - 1 /\ DOMAIN V = 1..(n - 1) /\ \A j \in 1..(n - 1) : V[j] = E[f[j]]
    BY <1>0, <2>5, <2>7, <2>10
  <2> HIDE DEF V
  <2>12. Apart(V)
    BY <1>0, <2>6, <2>8, <2>11 DEF Apart
  <2>13. ASSUME NEW e \in Range(V) PROVE e \in Range(E) /\ e.sql # sql
    <3>1. PICK j \in 1..(n - 1) : e = E[f[j]]
      BY <2>11, <2>13 DEF Range
    <3> QED
      BY <1>0, <2>1, <2>6, <3>1 DEF Range, Apart
  <2>14. ASSUME NEW e \in Range(E), e.sql # sql PROVE e \in Range(V)
    <3>1. PICK m \in 1..n : e = E[m]
      BY <1>0, <2>14 DEF Range
    <3>2. PICK j \in 1..(n - 1) : f[j] = m
      BY <2>1, <2>9, <2>14, <3>1
    <3> QED
      BY <2>11, <3>1, <3>2 DEF Range
  <2> QED
    BY <1>2, <2>2, <2>11, <2>12, <2>13, <2>14 DEF V, n
<1> QED
  BY <1>1, <1>2

\* A new entry for a text and a handle that have none.
LEMMA PushEntries ==
    ASSUME NEW E \in Seq(Entry), Apart(E), NEW x \in Entry,
           \A e \in Range(E) : e.sql # x.sql /\ e.h # x.h
    PROVE  /\ Append(E, x) \in Seq(Entry) /\ Apart(Append(E, x)) /\ Len(Append(E, x)) = Len(E) + 1
           /\ Range(Append(E, x)) = Range(E) \cup {x}
<1> DEFINE n == Len(E)
           V == Append(E, x)
<1>1. /\ n \in Nat /\ DOMAIN E = 1..n /\ V \in Seq(Entry) /\ Len(V) = n + 1 /\ DOMAIN V = 1..(n + 1)
      /\ V[n + 1] = x /\ \A j \in 1..n : V[j] = E[j]
  OBVIOUS
<1>2. \A j \in 1..(n + 1) : j \in 1..n \/ j = n + 1
  BY <1>1
<1>3. n + 1 \in 1..(n + 1) /\ 1..n \subseteq 1..(n + 1)
  BY <1>1
<1> HIDE DEF n, V
<1>4. Apart(V)
  <2> SUFFICES ASSUME NEW i \in 1..(n + 1), NEW j \in 1..(n + 1),
                      V[i].sql = V[j].sql \/ V[i].h = V[j].h
               PROVE  i = j
    BY <1>1 DEF Apart
  <2>1. \A k \in 1..n : E[k] \in Range(E)
    BY <1>1 DEF Range
  <2>2. CASE i \in 1..n /\ j \in 1..n
    BY <1>1, <2>2 DEF Apart
  <2>3. CASE i \in 1..n /\ j = n + 1
    BY <1>1, <2>1, <2>3
  <2>4. CASE i = n + 1 /\ j \in 1..n
    BY <1>1, <2>1, <2>4
  <2> QED
    BY <1>2, <2>2, <2>3, <2>4
<1>5. Range(V) = Range(E) \cup {x}
  <2>1. ASSUME NEW y \in Range(V) PROVE y \in Range(E) \cup {x}
    BY <1>1, <1>2 DEF Range
  <2>2. ASSUME NEW y \in Range(E) \cup {x} PROVE y \in Range(V)
    BY <1>1, <1>3 DEF Range
  <2> QED
    BY <2>1, <2>2
<1> QED
  BY <1>1, <1>4, <1>5 DEF V, n

\* Evicting the oldest keeps the others, the youngest among them.
LEMMA YoungestEntries ==
    ASSUME NEW E \in Seq(Entry), Apart(E), Capacity > 0, Len(E) = Capacity + 1
    PROVE  LET Y == Youngest(E) IN
           /\ Y \in Seq(Entry) /\ Apart(Y) /\ Len(Y) = Capacity
           /\ Range(Y) \subseteq Range(E) /\ E[Len(E)] \in Range(Y)
<1> DEFINE Y == SubSeq(E, 2, Capacity + 1)
<1>1. Capacity \in Nat /\ DOMAIN E = 1..(Capacity + 1)
  BY SessionAssumption
<1>2. Youngest(E) = Y
  BY <1>1 DEF Youngest
<1>3. /\ Y \in Seq(Entry) /\ Len(Y) = Capacity /\ DOMAIN Y = 1..Capacity
      /\ \A j \in 1..Capacity : Y[j] = E[j + 1]
  <2>1. /\ Y \in Seq(Entry) /\ Len(Y) = Capacity
        /\ \A j \in 1..Capacity : Y[j] = E[2 + j - 1]
    BY <1>1, SubSeqProperties
  <2>2. \A j \in 1..Capacity : 2 + j - 1 = j + 1
    BY <1>1
  <2> QED
    BY <2>1, <2>2, LenProperties
<1>4. \A j \in 1..Capacity : j + 1 \in DOMAIN E
  BY <1>1
<1>5. Capacity \in 1..Capacity
  BY <1>1
<1> HIDE DEF Y
<1>6. Apart(Y)
  <2> SUFFICES ASSUME NEW i \in 1..Capacity, NEW j \in 1..Capacity,
                      Y[i].sql = Y[j].sql \/ Y[i].h = Y[j].h
               PROVE  i = j
    BY <1>3 DEF Apart
  <2>1. i + 1 = j + 1
    BY <1>3, <1>4 DEF Apart
  <2> QED
    BY <2>1
<1>7. Range(Y) \subseteq Range(E)
  BY <1>3, <1>4 DEF Range
<1>8. E[Len(E)] \in Range(Y)
  BY <1>3, <1>5 DEF Range
<1> QED
  BY <1>2, <1>3, <1>6, <1>7, <1>8

\* The entries of a sequence of entries.
LEMMA EntryTypes ==
    ASSUME NEW E \in Seq(Entry)
    PROVE  \A e \in Range(E) : e \in Entry /\ e.h \in Handles /\ e.sql \in Sqls
<1>1. \A i \in DOMAIN E : E[i] \in Entry
  OBVIOUS
<1> QED
  BY <1>1 DEF Range, Entry

\* A text that is cached has one entry, and its handle is the one looked up.
LEMMA CachedEntry ==
    ASSUME NEW E \in Seq(Entry), NEW sql, Cached(E, sql)
    PROVE  /\ [sql |-> sql, h |-> CachedHandle(E, sql)] \in Range(E)
           /\ CachedHandle(E, sql) \in Handles /\ sql \in Sqls
<1>1. PICK i \in DOMAIN E : i = Place(E, sql) /\ E[i].sql = sql
  BY DEF Cached, Place
<1>2. E[i] \in Entry /\ CachedHandle(E, sql) = E[i].h
  BY <1>1 DEF CachedHandle
<1>3. E[i] = [sql |-> sql, h |-> CachedHandle(E, sql)]
  BY <1>1, <1>2 DEF Entry
<1> QED
  BY <1>1, <1>2, <1>3 DEF Range, Entry

\* get() changes the order only.
LEMMA GotEntries ==
    ASSUME NEW E \in Seq(Entry), Apart(E), NEW sql
    PROVE  LET G == Got(E, sql) IN
           G \in Seq(Entry) /\ Apart(G) /\ Len(G) = Len(E) /\ Range(G) = Range(E)
<1>1. CASE ~Cached(E, sql)
  BY <1>1 DEF Got
<1>2. CASE Cached(E, sql)
  <2> DEFINE x == [sql |-> sql, h |-> CachedHandle(E, sql)]
             W == Without(E, sql)
  <2>1. x \in Range(E) /\ x \in Entry /\ x.sql = sql
    BY <1>2, CachedEntry DEF Entry
  <2>2. /\ W \in Seq(Entry) /\ Apart(W) /\ Len(W) = Len(E) - 1
        /\ Range(W) = {e \in Range(E) : e.sql # sql}
    BY <1>2, WithoutEntries
  <2>3. Got(E, sql) = Append(W, x)
    BY <1>2 DEF Got
  <2> HIDE DEF x, W
  <2>4. \A e, f \in Range(E) : e.sql = f.sql \/ e.h = f.h => e = f
    BY DEF Apart, Range
  <2>5. \A e \in Range(W) : e.sql # x.sql /\ e.h # x.h
    BY <2>1, <2>2, <2>4
  <2>6. Append(W, x) \in Seq(Entry) /\ Apart(Append(W, x)) /\ Len(Append(W, x)) = Len(W) + 1
        /\ Range(Append(W, x)) = Range(W) \cup {x}
    BY <2>1, <2>2, <2>5, PushEntries
  <2>7. Range(W) \cup {x} = Range(E)
    BY <2>1, <2>2, <2>4
  <2>8. Len(W) + 1 = Len(E)
    BY <2>2
  <2> QED
    BY <2>3, <2>6, <2>7, <2>8
<1> QED
  BY <1>1, <1>2

\* There are as many texts as entries.
LEMMA TextsCount ==
    ASSUME NEW E \in Seq(Entry), Apart(E)
    PROVE  LET T == {e.sql : e \in Range(E)} IN IsFiniteSet(T) /\ Cardinality(T) = Len(E)
<1> DEFINE T == {e.sql : e \in Range(E)}
           n == Len(E)
           f == [i \in 1..n |-> E[i].sql]
<1>1. n \in Nat /\ DOMAIN E = 1..n
  OBVIOUS
<1>2. f \in [1..n -> T]
  BY <1>1 DEF Range
<1>3. \A i, j \in 1..n : f[i] = f[j] => i = j
  BY <1>1 DEF Apart
<1>4. \A t \in T : \E i \in 1..n : f[i] = t
  BY <1>1 DEF Range
<1> HIDE DEF T, n, f
<1>5. f \in Bijection(1..n, T)
  BY <1>2, <1>3, <1>4 DEF Bijection, Injection, Surjection, IsInjective
<1>6. ExistsBijection(1..n, T)
  BY <1>5 DEF ExistsBijection
<1>7. Cardinality(T) = n
  BY <1>1, <1>6, FS_CountingElements
<1>8. IsFiniteSet(T)
  BY <1>1, <1>6, FS_NatBijection
<1> QED
  BY <1>7, <1>8 DEF T, n

\* put(): the entry is there, and no other text has gained one; if there is room for
\* the text none has lost its own.
LEMMA PutEntries ==
    ASSUME cache \in Seq(Entry), Apart(cache), Len(cache) <= Capacity, Capacity > 0,
           NEW sql \in Sqls, NEW h \in Handles, \A e \in Range(cache) : e.h = h => e.sql = sql
    PROVE  LET P == Put(sql, h)
               x == [sql |-> sql, h |-> h]
               others == {e \in Range(cache) : e.sql # sql}
           IN /\ P \in Seq(Entry) /\ Apart(P) /\ Len(P) <= Capacity
              /\ x \in Range(P) /\ Range(P) \subseteq others \cup {x}
              /\ Cardinality({e.sql : e \in Range(cache)} \cup {sql}) <= Capacity
                    => Range(P) = others \cup {x}
<1> DEFINE x == [sql |-> sql, h |-> h]
           W == Without(cache, sql)
           A == Append(W, x)
           others == {e \in Range(cache) : e.sql # sql}
           T == {e.sql : e \in Range(cache)} \cup {sql}
<1>1. x \in Entry /\ x.sql = sql /\ x.h = h /\ Capacity \in Nat
  BY SessionAssumption DEF Entry
<1>2. W \in Seq(Entry) /\ Apart(W) /\ Len(W) <= Len(cache) /\ Range(W) = others
  BY WithoutEntries
<1>3. Put(sql, h) = IF Len(A) > Capacity THEN Youngest(A) ELSE A
  BY DEF Put
<1>4. \A e \in Range(W) : e.sql # x.sql /\ e.h # x.h
  BY <1>2
<1> HIDE DEF x, W
<1>5. A \in Seq(Entry) /\ Apart(A) /\ Len(A) = Len(W) + 1 /\ Range(A) = Range(W) \cup {x}
  BY <1>1, <1>2, <1>4, PushEntries
<1>6. A[Len(A)] = x
  BY <1>2
<1> HIDE DEF A
<1>7. {e.sql : e \in Range(A)} = T
  BY <1>1, <1>2, <1>5
<1>8. Cardinality(T) = Len(A)
  BY <1>5, <1>7, TextsCount
<1> HIDE DEF T
<1>9. CASE Len(A) > Capacity
  <2>1. Len(A) = Capacity + 1
    BY <1>1, <1>2, <1>5, <1>9
  <2>2. /\ Youngest(A) \in Seq(Entry) /\ Apart(Youngest(A)) /\ Len(Youngest(A)) = Capacity
        /\ Range(Youngest(A)) \subseteq Range(A) /\ x \in Range(Youngest(A))
    BY <1>5, <1>6, <2>1, YoungestEntries
  <2>3. ~(Cardinality(T) <= Capacity)
    BY <1>1, <1>8, <2>1
  <2> QED
    BY <1>2, <1>3, <1>5, <1>9, <1>1, <2>2, <2>3 DEF x, T
<1>10. CASE ~(Len(A) > Capacity)
  <2>1. Len(A) <= Capacity
    BY <1>1, <1>2, <1>5, <1>10
  <2> QED
    BY <1>2, <1>3, <1>5, <1>10, <2>1 DEF x, T
<1> QED
  BY <1>9, <1>10

-----------------------------------------------------------------------------
(* What an operation is, and the op-lock. *)

\* The fields of an operation under way.
LEMMA OpFields ==
    ASSUME TypeOK, NEW c \in Callers, Busy(c)
    PROVE  /\ op[c] \in Operations /\ op[c].kind \in Kinds /\ op[c].step \in Steps
           /\ op[c].sql \in Sqls \cup {None} /\ op[c].pin \in Pins \cup {None}
           /\ op[c].h \in Handles \cup {NoHandle}
           /\ op[c].star \in BOOLEAN /\ op[c].hit \in BOOLEAN
           /\ op[c].open \in BOOLEAN /\ op[c].failed \in BOOLEAN
<1>1. op[c] \in Operations
  BY DEF TypeOK, Busy
<1> QED
  BY <1>1 DEF Operations

\* An operation is never the absence of one.
LEMMA OperationsBusy == NoOp \notin Operations
<1>1. \A o \in Operations : o.kind \in Kinds
  BY DEF Operations
<1>2. NoOp.kind = None /\ None \notin Kinds
  BY DEF NoOp, None, Kinds
<1> QED
  BY <1>1, <1>2

\* One more waits, at the end.
LEMMA JoinChain ==
    ASSUME NEW C \in Seq(Callers), IsInjective(C), NEW c \in Callers, c \notin Range(C)
    PROVE  /\ Append(C, c) \in Seq(Callers) /\ IsInjective(Append(C, c))
           /\ Range(Append(C, c)) = Range(C) \cup {c} /\ Append(C, c) # <<>>
           /\ C # <<>> => Head(Append(C, c)) = Head(C)
<1> DEFINE n == Len(C)
           V == Append(C, c)
<1>1. /\ n \in Nat /\ DOMAIN C = 1..n /\ V \in Seq(Callers) /\ DOMAIN V = 1..(n + 1) /\ V # <<>>
      /\ V[n + 1] = c /\ \A j \in 1..n : V[j] = C[j]
  OBVIOUS
<1>2. \A j \in 1..(n + 1) : j \in 1..n \/ j = n + 1
  BY <1>1
<1>3. n + 1 \in 1..(n + 1) /\ 1..n \subseteq 1..(n + 1)
  BY <1>1
<1>4. C # <<>> => Head(V) = Head(C)
  OBVIOUS
<1> HIDE DEF n, V
<1>5. IsInjective(V)
  BY <1>1, <1>2 DEF IsInjective, Range
<1>6. ASSUME NEW y \in Range(V) PROVE y \in Range(C) \cup {c}
  BY <1>1, <1>2 DEF Range
<1>7. ASSUME NEW y \in Range(C) \cup {c} PROVE y \in Range(V)
  BY <1>1, <1>3 DEF Range
<1> QED
  BY <1>1, <1>4, <1>5, <1>6, <1>7 DEF V

\* The first one leaves.
LEMMA LeaveChain ==
    ASSUME NEW C \in Seq(Callers), IsInjective(C), C # <<>>
    PROVE  /\ Tail(C) \in Seq(Callers) /\ IsInjective(Tail(C))
           /\ Head(C) \in Range(C) /\ Range(Tail(C)) = Range(C) \ {Head(C)}
<1> DEFINE t == Tail(C)
           n == Len(C)
<1>1. /\ n \in Nat \ {0} /\ DOMAIN C = 1..n /\ Head(C) = C[1] /\ t \in Seq(Callers)
      /\ DOMAIN t = 1..(n - 1) /\ \A i \in 1..(n - 1) : t[i] = C[i + 1]
  OBVIOUS
<1>2. \A i \in 1..(n - 1) : i + 1 \in 1..n /\ i + 1 # 1
  BY <1>1
<1>3. \A i \in 1..n : i # 1 => i - 1 \in 1..(n - 1) /\ (i - 1) + 1 = i
  BY <1>1
<1>4. 1 \in 1..n
  BY <1>1
<1> HIDE DEF t, n
<1>5. ASSUME NEW i \in 1..(n - 1), NEW j \in 1..(n - 1), t[i] = t[j] PROVE i = j
  <2>1. i + 1 = j + 1
    BY <1>1, <1>2, <1>5 DEF IsInjective
  <2> QED
    BY <2>1
<1>6. ASSUME NEW y \in Range(t) PROVE y \in Range(C) \ {C[1]}
  <2>1. PICK i \in 1..(n - 1) : y = t[i]
    BY <1>1, <1>6 DEF Range
  <2>2. i + 1 \in DOMAIN C /\ i + 1 # 1 /\ y = C[i + 1] /\ 1 \in DOMAIN C
    BY <1>1, <1>2, <1>4, <2>1
  <2> QED
    BY <2>2 DEF Range, IsInjective
<1>7. ASSUME NEW y \in Range(C) \ {C[1]} PROVE y \in Range(t)
  <2>1. PICK i \in 1..n : y = C[i] /\ i # 1
    BY <1>1, <1>7 DEF Range
  <2>2. i - 1 \in DOMAIN t /\ y = t[i - 1]
    BY <1>1, <1>3, <2>1
  <2> QED
    BY <2>2 DEF Range
<1>8. IsInjective(t)
  BY <1>1, <1>5 DEF IsInjective
<1>9. Range(t) = Range(C) \ {C[1]}
  BY <1>6, <1>7
<1>10. Head(C) = C[1] /\ C[1] \in Range(C)
  BY <1>1, <1>4 DEF Range
<1> QED
  BY <1>1, <1>8, <1>9, <1>10 DEF t

\* The steps of an operation that waits for its turn.
Waiting == {"queued", "begin", "more", "finish"}

\* What a step of c does to the operations and to the chain.
Turn(c) == \A d \in Callers : d # c => op'[d] = op[d]
Typed == op' \in [Callers -> Operations \cup {NoOp}] /\ chain' \in Seq(Callers)

\* An operation joins the op-lock.
LEMMA EnterLine ==
    ASSUME TypeOK, Line, NEW c \in Callers, NEW o \in Operations, ~Busy(c) \/ op[c].step = "yield",
           o.step \in Waiting, Enter(c, o)
    PROVE  Line' /\ Typed /\ Turn(c) /\ op'[c] = o /\ Busy(c)'
<1>1. c \notin Range(chain) /\ chain \in Seq(Callers) /\ IsInjective(chain)
  BY DEF Line, TypeOK
<1>2. chain' = Append(chain, c) /\ op' = [op EXCEPT ![c] = o]
  BY DEF Enter
<1>3. Typed /\ Turn(c) /\ op'[c] = o /\ Busy(c)'
  BY <1>1, <1>2, OperationsBusy DEF TypeOK, Typed, Turn, Busy
<1>4. /\ IsInjective(chain') /\ Range(chain') = Range(chain) \cup {c} /\ chain' # <<>>
      /\ chain # <<>> => Head(chain') = Head(chain)
  BY <1>1, <1>2, JoinChain
<1>5. o.step # "yield" /\ o.step \notin {"star", "prepare", "execute", "fetch"}
  BY DEF Waiting
<1>6. \A d \in Callers : d # c => (Busy(d)' <=> Busy(d))
  BY <1>3 DEF Turn, Busy
<1> QED
  BY <1>3, <1>4, <1>5, <1>6 DEF Line, Turn

\* The running job goes on.
LEMMA GotoLine ==
    ASSUME TypeOK, Line, NEW c \in Callers, chain # <<>>, c = Head(chain), NEW o \in Operations,
           o.step # "yield", Goto(c, o)
    PROVE  Line' /\ Typed /\ Turn(c) /\ op'[c] = o /\ Busy(c)'
<1>1. c \in Range(chain)
  BY LeaveChain DEF Line, TypeOK
<1>2. chain' = chain /\ op' = [op EXCEPT ![c] = o]
  BY DEF Goto
<1>3. Typed /\ Turn(c) /\ op'[c] = o /\ Busy(c)'
  BY <1>2, OperationsBusy DEF TypeOK, Typed, Turn, Busy
<1>4. \A d \in Callers : d # c => (Busy(d)' <=> Busy(d))
  BY <1>3 DEF Turn, Busy
<1> QED
  BY <1>1, <1>2, <1>3, <1>4 DEF Line, Turn

\* It gives the lock back, and perhaps waits for another turn.
LEMMA LeaveLine ==
    ASSUME TypeOK, Line, NEW c \in Callers, chain # <<>>, c = Head(chain),
           NEW o \in Operations \cup {NoOp},
           \/ o \in Operations /\ o.step \in Waiting /\ Requeue(c, o)
           \/ o \in Operations /\ o.step = "yield" /\ Yield(c, o)
           \/ o = NoOp /\ Return(c)
    PROVE  Line' /\ Typed /\ Turn(c) /\ op'[c] = o
<1>1. /\ chain \in Seq(Callers) /\ IsInjective(chain) /\ c \in Range(chain)
      /\ Tail(chain) \in Seq(Callers) /\ IsInjective(Tail(chain))
      /\ Range(Tail(chain)) = Range(chain) \ {c}
  BY LeaveChain DEF Line, TypeOK
<1>2. op' = [op EXCEPT ![c] = o] /\ chain' \in {Tail(chain), Append(Tail(chain), c)}
  BY DEF Requeue, Yield, Return
<1>3. /\ Append(Tail(chain), c) \in Seq(Callers) /\ IsInjective(Append(Tail(chain), c))
      /\ Range(Append(Tail(chain), c)) = Range(chain)
  <2>1. c \notin Range(Tail(chain)) /\ (Range(chain) \ {c}) \cup {c} = Range(chain)
    BY <1>1
  <2> QED
    BY <1>1, <2>1, JoinChain
<1>4. Typed /\ Turn(c) /\ op'[c] = o
  BY <1>1, <1>2, <1>3 DEF TypeOK, Typed, Turn
<1>5. \A d \in Callers : d # c => (Busy(d)' <=> Busy(d))
  BY <1>4 DEF Turn, Busy
<1>6. \A d \in Callers : d # c => ~(Busy(d) /\ op[d].step \in {"star", "prepare", "execute", "fetch"})
  BY DEF Line
<1>7. IsInjective(chain')
  BY <1>1, <1>2, <1>3
<1>8. CASE o \in Operations /\ o.step \in Waiting /\ Requeue(c, o)
  <2>1. Range(chain') = Range(chain) /\ Busy(c)' /\ o.step # "yield" /\ o.step \notin {"star", "prepare", "execute", "fetch"}
    BY <1>3, <1>4, <1>8, OperationsBusy DEF Requeue, Busy, Waiting
  <2> QED
    BY <1>1, <1>4, <1>5, <1>6, <1>7, <2>1 DEF Line, Turn
<1>9. CASE (o \in Operations /\ o.step = "yield" /\ Yield(c, o)) \/ (o = NoOp /\ Return(c))
  <2>1. Range(chain') = Range(chain) \ {c} /\ ~(Busy(c)' /\ o.step # "yield")
    BY <1>1, <1>4, <1>9, OperationsBusy DEF Yield, Return, Busy
  <2>2. ~(Busy(c)' /\ o.step \in {"star", "prepare", "execute", "fetch"})
    BY <2>1
  <2> QED
    BY <1>1, <1>4, <1>5, <1>6, <1>7, <2>1, <2>2 DEF Line, Turn
<1> QED
  BY <1>4, <1>8, <1>9

-----------------------------------------------------------------------------
(* What callers consider of each other. *)

\* The texts that Room counts.
Used == {e.sql : e \in Range(cache)} \cup UNION {Texts(o) : o \in AtWork}

\* The texts that Room counts are finitely many.
LEMMA UsedFinite ==
    ASSUME TypeOK, Kept
    PROVE  IsFiniteSet(Used)
<1> DEFINE B == {d \in Callers : Busy(d)}
           TT == {Texts(op[c]) : c \in B}
           f == [c \in B |-> Texts(op[c])]
<1>1. IsFiniteSet(B)
  BY SessionAssumption, FS_Subset
<1>2. f \in Surjection(B, TT)
  BY DEF Surjection
<1>3. IsFiniteSet(TT)
  BY <1>1, <1>2, FS_Surjection
<1>4. \A t \in TT : IsFiniteSet(t)
  <2> SUFFICES ASSUME NEW c \in B PROVE IsFiniteSet(Texts(op[c]))
    OBVIOUS
  <2>1. IsFiniteSet({op[c].sql}) /\ IsFiniteSet({Rewritten[op[c].sql]}) /\ IsFiniteSet({})
    BY FS_Singleton, FS_EmptySet
  <2> QED
    BY <2>1, FS_Union DEF Texts
<1>5. IsFiniteSet(UNION TT)
  BY <1>3, <1>4, FS_UNION
<1>6. UNION TT = UNION {Texts(o) : o \in AtWork}
  BY DEF AtWork
<1>7. IsFiniteSet({e.sql : e \in Range(cache)})
  BY TextsCount DEF TypeOK, Kept, Entry
<1> QED
  BY <1>5, <1>6, <1>7, FS_Union DEF Used

\* a disturbs nobody, and is disturbed by nobody, that b does not or is not.
Milder(a, b) ==
    /\ a.kind = b.kind /\ a.pin = b.pin
    /\ Texts(a) \subseteq Texts(b) /\ (Borrows(a) => Borrows(b))
    /\ a.sql \in Ddls => b.sql \in Ddls

\* What is milder disturbs less, and is disturbed less.
LEMMA MilderDisturbs ==
    ASSUME NEW a, NEW b, NEW x, Milder(a, b)
    PROVE  (Disturbs(a, x) => Disturbs(b, x)) /\ (Disturbs(x, a) => Disturbs(x, b))
<1>1. \A t : t \in Texts(a) => t \in Texts(b)
  BY DEF Milder
<1>2. ASSUME Disturbs(a, x) PROVE Disturbs(b, x)
  <2>1. CASE Borrows(a) /\ (x.kind = "clear" \/ Texts(a) \cap Texts(x) # {})
    BY <1>1, <2>1 DEF Milder, Disturbs
  <2>2. CASE ~(Borrows(a) /\ (x.kind = "clear" \/ Texts(a) \cap Texts(x) # {}))
    BY <1>2, <2>2 DEF Milder, Disturbs
  <2> QED
    BY <2>1, <2>2
<1>3. ASSUME Disturbs(x, a) PROVE Disturbs(x, b)
  <2>1. CASE Borrows(x) /\ (a.kind = "clear" \/ Texts(x) \cap Texts(a) # {})
    BY <1>1, <2>1 DEF Milder, Disturbs
  <2>2. CASE ~(Borrows(x) /\ (a.kind = "clear" \/ Texts(x) \cap Texts(a) # {}))
    BY <1>3, <2>2 DEF Milder, Disturbs
  <2> QED
    BY <2>1, <2>2
<1> QED
  BY <1>2, <1>3

\* Going on, or ending, and keeping a text of one's own in the cache, leaves the others
\* as undisturbed as they were, and the cache the room that they need.
LEMMA CalmKeeps ==
    ASSUME TypeOK, Kept, Calm, NEW c \in Callers, Busy(c), Turn(c),
           Busy(c)' => Milder(op'[c], op[c]),
           {e.sql : e \in Range(cache')} \subseteq {e.sql : e \in Range(cache)} \cup Texts(op[c])
    PROVE  Calm'
<1>1. \A d \in Callers : d # c => op'[d] = op[d] /\ (Busy(d)' <=> Busy(d))
  BY DEF Turn, Busy
<1>2. \A x \in Callers, d \in Callers : Busy(x)' /\ Busy(d)' /\ x # d => ~Disturbs(op'[x], op'[d])
  <2> SUFFICES ASSUME NEW x \in Callers, NEW d \in Callers, Busy(x)', Busy(d)', x # d
               PROVE  ~Disturbs(op'[x], op'[d])
    OBVIOUS
  <2>1. Busy(x) /\ Busy(d) /\ ~Disturbs(op[x], op[d])
    BY <1>1 DEF Calm
  <2>2. CASE x = c
    BY <1>1, <2>1, <2>2, MilderDisturbs
  <2>3. CASE d = c
    BY <1>1, <2>1, <2>3, MilderDisturbs
  <2>4. CASE x # c /\ d # c
    BY <1>1, <2>1, <2>4
  <2> QED
    BY <2>2, <2>3, <2>4
<1>3. ASSUME NEW x \in Callers, Busy(x)', Borrows(op'[x]) PROVE Room(AtWork)'
  <2>1. Busy(x) /\ Borrows(op[x])
    BY <1>1, <1>3 DEF Milder
  <2>2. Cardinality(Used \ {None}) <= Capacity
    BY <2>1 DEF Calm, Room, Used
  <2> DEFINE newTexts == {e.sql : e \in Range(cache')}
             NewAtWork == {op'[d] : d \in {b \in Callers : Busy(b)'}}
             NewUsed == newTexts \cup UNION {Texts(o) : o \in NewAtWork}
  <2>3. ASSUME NEW d \in Callers, Busy(d)' PROVE Texts(op'[d]) \subseteq Used
    <3>1. Busy(d) /\ Texts(op'[d]) \subseteq Texts(op[d])
      BY <1>1, <2>3 DEF Milder
    <3>2. op[d] \in AtWork
      BY <3>1 DEF AtWork
    <3> QED
      BY <3>1, <3>2 DEF Used
  <2>4. UNION {Texts(o) : o \in NewAtWork} \subseteq Used
    BY <2>3
  <2>5. Texts(op[c]) \subseteq Used
    BY DEF Used, AtWork
  <2>6. NewUsed \ {None} \subseteq Used \ {None}
    BY <2>4, <2>5 DEF Used
  <2> HIDE DEF NewUsed, NewAtWork
  <2>7. /\ IsFiniteSet(Used \ {None}) /\ Cardinality(Used \ {None}) \in Nat
        /\ Cardinality(NewUsed \ {None}) \in Nat
        /\ Cardinality(NewUsed \ {None}) <= Cardinality(Used \ {None})
    <3>1. IsFiniteSet(Used \ {None})
      BY UsedFinite, FS_Difference
    <3> QED
      BY <3>1, <2>6, FS_Subset, FS_CardinalityType
  <2>8. Cardinality(NewUsed \ {None}) <= Capacity
    BY <2>2, <2>7, SessionAssumption
  <2> QED
    BY <2>8 DEF NewUsed, NewAtWork, Room, AtWork
<1> QED
  BY <1>2, <1>3 DEF Calm

\* A call is made when it disturbs nobody.
LEMMA CalmCall ==
    ASSUME Calm, NEW c \in Callers, ~Busy(c), NEW o, Considerate(o), Turn(c), op'[c] = o, Busy(c)',
           Range(cache') = Range(cache)
    PROVE  Calm'
<1>1. \A d \in Callers : d # c => op'[d] = op[d] /\ (Busy(d)' <=> Busy(d))
  BY DEF Turn, Busy
<1>2. \A other \in AtWork : ~Disturbs(other, o) /\ ~Disturbs(o, other)
  BY DEF Considerate, AtWork
<1>3. \A d \in Callers : d # c /\ Busy(d)' => Busy(d) /\ op'[d] \in AtWork
  BY <1>1 DEF AtWork
<1>4. \A x \in Callers, d \in Callers : Busy(x)' /\ Busy(d)' /\ x # d => ~Disturbs(op'[x], op'[d])
  <2> SUFFICES ASSUME NEW x \in Callers, NEW d \in Callers, Busy(x)', Busy(d)', x # d
               PROVE  ~Disturbs(op'[x], op'[d])
    OBVIOUS
  <2>1. CASE x = c
    BY <1>2, <1>3, <2>1
  <2>2. CASE d = c
    BY <1>2, <1>3, <2>2
  <2>3. CASE x # c /\ d # c
    BY <1>1, <2>3 DEF Calm
  <2> QED
    BY <2>1, <2>2, <2>3
<1>5. AtWork' = AtWork \cup {o}
  <2>1. \A y : y \in AtWork' => y \in AtWork \cup {o}
    BY <1>3 DEF AtWork
  <2>2. \A y : y \in AtWork \cup {o} => y \in AtWork'
    BY <1>1 DEF AtWork
  <2> QED
    BY <2>1, <2>2
<1>6. ASSUME NEW x \in Callers, Busy(x)', Borrows(op'[x]) PROVE Room(AtWork)'
  <2>1. op'[x] \in AtWork \cup {o}
    BY <1>5, <1>6 DEF AtWork
  <2>2. Room(AtWork \cup {o})
    BY <1>6, <2>1 DEF Considerate, AtWork
  <2> QED
    BY <2>2, <1>5 DEF Room
<1> QED
  BY <1>4, <1>6 DEF Calm

\* If somebody works with a statement of the cache, putting back one's own evicts none.
LEMMA RoomToPut ==
    ASSUME TypeOK, Kept, Calm, NEW c \in Callers, Busy(c), NEW sql \in Texts(op[c]), sql \in Sqls,
           NEW d \in Callers, Busy(d), Borrows(op[d])
    PROVE  Cardinality({e.sql : e \in Range(cache)} \cup {sql}) <= Capacity
<1> DEFINE T == {e.sql : e \in Range(cache)} \cup {sql}
<1>1. Cardinality(Used \ {None}) <= Capacity
  BY DEF Calm, Room, Used
<1>2. sql \in Used
  BY DEF Used, AtWork
<1>3. \A e \in Range(cache) : e.sql \in Sqls
  BY EntryTypes DEF TypeOK, Entry
<1>4. T \subseteq Used \ {None}
  BY <1>2, <1>3, SessionAssumption DEF Used
<1> HIDE DEF T
<1>5. IsFiniteSet(Used \ {None})
  BY UsedFinite, FS_Difference
<1>6. Cardinality(T) <= Cardinality(Used \ {None}) /\ Cardinality(T) \in Nat /\ Cardinality(Used \ {None}) \in Nat
  BY <1>4, <1>5, FS_Subset, FS_CardinalityType
<1> QED
  BY <1>1, <1>6, SessionAssumption DEF T

-----------------------------------------------------------------------------
(* Who keeps which handle. *)

\* Every keeper keeps a handle.
LEMMA HandleTypes ==
    ASSUME TypeOK, Objects, Books
    PROVE  /\ \A e \in Range(cache) : e.h \in Handles /\ e.sql \in Sqls
           /\ \A c \in Callers : Owner(c) => op[c].h \in Handles
           /\ \A c \in Callers : Lent(c) => op[c].h \in Handles
           /\ \A p \in Pins : Pinned(p) => pin[p].h \in Handles
<1>1. \A e \in Range(cache) : e.h \in Handles /\ e.sql \in Sqls
  BY EntryTypes DEF TypeOK, Entry
<1>2. \A c \in Callers : Owner(c) => op[c].h \in Handles
  BY OpFields DEF Owner
<1>3. ASSUME NEW c \in Callers, Lent(c) PROVE op[c].h \in Handles
  <2>1. PICK e \in Range(cache) : e = [sql |-> op[c].sql, h |-> op[c].h]
    BY <1>3 DEF Books
  <2>2. e.h = op[c].h
    BY <2>1
  <2> QED
    BY <1>1, <2>2
<1>4. \A p \in Pins : Pinned(p) => pin[p].h \in Handles
  BY DEF Objects
<1> QED
  BY <1>1, <1>2, <1>3, <1>4

\* A step in which every handle stays with its keeper.
LEMMA Stays ==
    ASSUME TypeOK, Objects, Kept, Books, Recent,
           Range(cache') = Range(cache), Apart(cache'), pin' = pin, schema' = schema,
           \A h \in Handles : server[h].sql \in Sqls \/ server'[h].sql \in Sqls =>
                server'[h].sql = server[h].sql /\ server'[h].schema = server[h].schema,
           \A d \in Callers : Owner(d)' <=> Owner(d),
           \A d \in Callers : Owner(d) =>
                op'[d].h = op[d].h /\ op'[d].kind = op[d].kind /\ op'[d].sql = op[d].sql,
           \A d \in Callers : Lent(d)' => [sql |-> op'[d].sql, h |-> op'[d].h] \in Range(cache),
           \A e \in starCache' : e.schema = schema
    PROVE  Kept' /\ Books' /\ Recent'
<1>0. \A p \in Pins : Pinned(p)' <=> Pinned(p)
  BY DEF Pinned
<1>1. Kept'
  BY <1>0 DEF Kept
<1>2. Books'
  <2>1. HandlesOf(cache') = HandlesOf(cache)
    BY DEF HandlesOf
  <2>2. \A e \in Range(cache') : server'[e.h].sql = e.sql
    BY HandleTypes DEF Books
  <2>3. \A d \in Callers : Owner(d)' =>
          server'[op'[d].h].sql \in Sqls /\ (op'[d].kind # "close" => server'[op'[d].h].sql = op'[d].sql)
    BY HandleTypes DEF Books
  <2>4. \A p \in Pins : Pinned(p)' => server'[pin'[p].h].sql = pin'[p].sql
    BY <1>0, HandleTypes DEF Books, Objects
  <2>5. ASSUME NEW h \in Handles, server'[h].sql \in Sqls
        PROVE  \/ h \in HandlesOf(cache')
               \/ \E d \in Callers : Owner(d)' /\ op'[d].h = h
               \/ \E p \in Pins : Pinned(p)' /\ pin'[p].h = h
    <3>1. \/ h \in HandlesOf(cache)
          \/ \E d \in Callers : Owner(d) /\ op[d].h = h
          \/ \E p \in Pins : Pinned(p) /\ pin[p].h = h
      BY <2>5 DEF Books
    <3>2. CASE \E d \in Callers : Owner(d) /\ op[d].h = h
      BY <3>2
    <3>3. CASE \E p \in Pins : Pinned(p) /\ pin[p].h = h
      BY <3>3, <1>0
    <3> QED
      BY <2>1, <3>1, <3>2, <3>3
  <2> QED
    BY <2>2, <2>3, <2>4, <2>5 DEF Books
<1>3. Recent'
  <2>1. \A e \in Range(cache') : server'[e.h].schema = schema'
    BY HandleTypes DEF Recent, PlansFresh, Books
  <2>2. \A d \in Callers : Owner(d)' /\ op'[d].kind # "close" => server'[op'[d].h].schema = schema'
    BY HandleTypes DEF Recent, Books
  <2> QED
    BY <2>1, <2>2 DEF Recent, PlansFresh
<1> QED
  BY <1>1, <1>2, <1>3

\* A handle that no one keeps, but one that will be freed or kept by the cache.
Spare(c, n) ==
    /\ n \in Handles
    /\ \A e \in Range(cache) : e.h # n
    /\ \A d \in Callers : d # c /\ Owner(d) => op[d].h # n
    /\ \A p \in Pins : Pinned(p) => pin[p].h # n

\* An operation gives up what it works with: n, if it is its own, goes to the cache or is
\* freed, as is every other handle that the cache no longer has.
GivesUp(c, n, table, more) ==
    /\ Turn(c) /\ pin' = pin /\ ~Owner(c)'
    /\ Lent(c)' => [sql |-> op'[c].sql, h |-> op'[c].h] \in Range(cache')
    /\ n # NoHandle => Spare(c, n) /\ n \in more
    /\ Owner(c) => n = op[c].h
    /\ more \subseteq {n} \cup HandlesOf(cache) /\ Apart(cache')
    /\ \A e \in Range(cache') : e \in Range(cache) \/ (n # NoHandle /\ e.h = n /\ table[n].sql = e.sql)
    /\ \A d \in Callers : d # c /\ Lent(d) => [sql |-> op[d].sql, h |-> op[d].h] \in Range(cache')
    /\ \A h \in Handles : h # n =>
            table[h].sql = server[h].sql /\ table[h].schema = server[h].schema
    /\ server' = Free(table, (more \cup HandlesOf(cache)) \ HandlesOf(cache'))
    /\ \A e \in starCache' : e.schema = schema'
    /\ \/ schema' = schema /\ (n # NoHandle => table[n].schema = schema)
       \/ Range(cache') = {} /\ \A d \in Callers : d # c /\ Owner(d) => op[d].kind = "close"

\* After an operation gave up what it worked with, every handle has its keeper again.
LEMMA Settled ==
    ASSUME TypeOK, Objects, Kept, Books, Recent, NEW c \in Callers,
           NEW n, NEW table, NEW more, GivesUp(c, n, table, more)
    PROVE  Kept' /\ Books' /\ Recent'
<1> USE DEF GivesUp
<1> DEFINE gone == (more \cup HandlesOf(cache)) \ HandlesOf(cache')
<1>0. \A p \in Pins : Pinned(p)' <=> Pinned(p)
  BY DEF Pinned
<1>1. \A d \in Callers : d # c =>
        op'[d] = op[d] /\ (Owner(d)' <=> Owner(d)) /\ (Lent(d)' <=> Lent(d))
  BY DEF Turn, Owner, Lent, Busy
<1>2. \A e \in Range(cache) : e.h \in HandlesOf(cache)
  BY DEF HandlesOf
<1>3. \A h \in HandlesOf(cache) : \E e \in Range(cache) : e.h = h
  BY DEF HandlesOf
<1>4. \A h \in HandlesOf(cache') : \E e \in Range(cache') : e.h = h
  BY DEF HandlesOf
<1>5. \A e \in Range(cache') : e.h \in HandlesOf(cache')
  BY DEF HandlesOf
<1>6. \A h \in Handles : server'[h] = IF h \in gone THEN NoStmt ELSE table[h]
  BY DEF Free
<1>7. /\ \A d \in Callers : d # c /\ Owner(d) => op[d].h \notin HandlesOf(cache) /\ op[d].h # n
      /\ \A p \in Pins : Pinned(p) => pin[p].h \notin HandlesOf(cache) /\ pin[p].h # n
  BY <1>3, HandleTypes, SessionAssumption DEF Kept, Spare
<1>8. \A e \in Range(cache') : e.h = n \/ e \in Range(cache)
  OBVIOUS
<1>9. /\ \A d \in Callers : d # c /\ Owner(d) => op[d].h \notin gone /\ server'[op[d].h] = table[op[d].h]
      /\ \A p \in Pins : Pinned(p) => pin[p].h \notin gone /\ server'[pin[p].h] = table[pin[p].h]
  BY <1>6, <1>7, HandleTypes
<1>10. \A e \in Range(cache') : e.h \in Handles /\ server'[e.h] = table[e.h]
  <2> SUFFICES ASSUME NEW e \in Range(cache') PROVE e.h \in Handles /\ server'[e.h] = table[e.h]
    OBVIOUS
  <2>1. e.h \in Handles
    BY HandleTypes DEF Spare
  <2> QED
    BY <1>5, <1>6, <2>1
<1> HIDE DEF gone
<1>11. Kept'
  <2>1. ASSUME NEW x \in Callers, Owner(x)'
        PROVE  /\ \A e \in Range(cache') : e.h # op'[x].h
               /\ \A d \in Callers : Owner(d)' /\ op'[d].h = op'[x].h => x = d
               /\ \A p \in Pins : Pinned(p)' => pin'[p].h # op'[x].h
    <3>1. x # c /\ Owner(x) /\ op'[x] = op[x] /\ op[x].h # n
      BY <1>1, <1>7, <2>1
    <3>2. \A e \in Range(cache') : e.h # op[x].h
      BY <1>8, <3>1 DEF Kept
    <3>3. \A d \in Callers : Owner(d)' /\ op'[d].h = op'[x].h => x = d
      BY <1>1, <3>1 DEF Kept
    <3>4. \A p \in Pins : Pinned(p)' => pin'[p].h # op'[x].h
      BY <1>0, <3>1 DEF Kept
    <3> QED
      BY <3>1, <3>2, <3>3, <3>4
  <2>2. ASSUME NEW p \in Pins, Pinned(p)'
        PROVE  /\ \A e \in Range(cache') : e.h # pin'[p].h
               /\ \A q \in Pins : Pinned(q)' /\ pin'[p].h = pin'[q].h => p = q
    BY <1>0, <1>7, <1>8, <2>2 DEF Kept
  <2> QED
    BY <2>1, <2>2 DEF Kept
<1>12. Books'
  <2>1. \A e \in Range(cache') : server'[e.h].sql = e.sql
    <3> SUFFICES ASSUME NEW e \in Range(cache') PROVE table[e.h].sql = e.sql
      BY <1>10
    <3>1. CASE e \in Range(cache) /\ e.h # n
      BY <3>1, HandleTypes DEF Books
    <3>2. CASE e.h = n
      <4>1. n \in Handles /\ e \notin Range(cache)
        BY <1>10, <3>2, SessionAssumption DEF Spare
      <4> QED
        BY <4>1
    <3> QED
      BY <1>8, <3>1, <3>2
  <2>2. ASSUME NEW d \in Callers, Owner(d)'
        PROVE server'[op'[d].h].sql \in Sqls /\ (op'[d].kind # "close" => server'[op'[d].h].sql = op'[d].sql)
    <3>1. d # c /\ Owner(d) /\ op'[d] = op[d] /\ op[d].h \in Handles /\ op[d].h # n
      BY <1>1, <1>7, <2>2, HandleTypes
    <3>2. server'[op[d].h].sql = server[op[d].h].sql
      BY <1>9, <3>1
    <3> QED
      BY <3>1, <3>2 DEF Books
  <2>3. ASSUME NEW p \in Pins, Pinned(p)' PROVE server'[pin'[p].h].sql = pin'[p].sql
    <3>1. Pinned(p) /\ pin[p].h \in Handles /\ pin[p].h # n
      BY <1>0, <1>7, <2>3, HandleTypes
    <3>2. server'[pin[p].h].sql = server[pin[p].h].sql
      BY <1>9, <3>1
    <3> QED
      BY <3>1, <3>2 DEF Books
  <2>4. \A d \in Callers : Lent(d)' => [sql |-> op'[d].sql, h |-> op'[d].h] \in Range(cache')
    BY <1>1
  <2>5. ASSUME NEW h \in Handles, server'[h].sql \in Sqls
        PROVE  \/ h \in HandlesOf(cache')
               \/ \E d \in Callers : Owner(d)' /\ op'[d].h = h
               \/ \E p \in Pins : Pinned(p)' /\ pin'[p].h = h
    <3> SUFFICES ASSUME h \notin HandlesOf(cache')
                 PROVE  \/ \E d \in Callers : Owner(d)' /\ op'[d].h = h
                        \/ \E p \in Pins : Pinned(p)' /\ pin'[p].h = h
      OBVIOUS
    <3>1. h \notin gone
      BY <1>6, <2>5, SessionAssumption DEF NoStmt, None
    <3>2. h \notin more /\ h \notin HandlesOf(cache)
      BY <3>1 DEF gone
    <3>3. h # n
      BY <3>2, SessionAssumption
    <3>4. server[h].sql \in Sqls
      BY <1>6, <2>5, <3>1, <3>3
    <3>5. \/ \E d \in Callers : Owner(d) /\ op[d].h = h
          \/ \E p \in Pins : Pinned(p) /\ pin[p].h = h
      BY <3>2, <3>4 DEF Books
    <3>6. CASE \E d \in Callers : Owner(d) /\ op[d].h = h
      <4>1. PICK d \in Callers : Owner(d) /\ op[d].h = h
        BY <3>6
      <4>2. d # c
        BY <3>3, <4>1
      <4> QED
        BY <1>1, <4>1, <4>2
    <3> QED
      BY <1>0, <3>5, <3>6
  <2> QED
    BY <2>1, <2>2, <2>3, <2>4, <2>5 DEF Books
<1>13. Recent'
  <2>1. CASE schema' = schema /\ (n # NoHandle => table[n].schema = schema)
    <3>1. ASSUME NEW e \in Range(cache') PROVE server'[e.h].schema = schema
      <4>1. CASE e.h = n
        <5>1. n # NoHandle
          BY <1>10, <4>1, SessionAssumption
        <5> QED
          BY <1>10, <2>1, <4>1, <5>1
      <4>2. CASE e.h # n
        BY <1>8, <1>10, <4>2, HandleTypes DEF Recent, PlansFresh
      <4> QED
        BY <4>1, <4>2
    <3>2. ASSUME NEW d \in Callers, Owner(d)', op'[d].kind # "close"
          PROVE  server'[op'[d].h].schema = schema
      <4>1. d # c /\ Owner(d) /\ op'[d] = op[d] /\ op[d].h \in Handles /\ op[d].h # n
        BY <1>1, <1>7, <3>2, HandleTypes
      <4>2. server'[op[d].h].schema = server[op[d].h].schema
        BY <1>9, <4>1
      <4> QED
        BY <3>2, <4>1, <4>2 DEF Recent
    <3> QED
      BY <2>1, <3>1, <3>2 DEF Recent, PlansFresh
  <2>2. CASE Range(cache') = {} /\ \A d \in Callers : d # c /\ Owner(d) => op[d].kind = "close"
    BY <1>1, <2>2 DEF Recent, PlansFresh
  <2> QED
    BY <2>1, <2>2
<1> QED
  BY <1>11, <1>12, <1>13

\* A new statement: an operation's own, or a PreparedStatement's.
LEMMA Gains ==
    ASSUME TypeOK, Objects, Kept, Books, Recent, NEW c \in Callers, Turn(c), ~Owner(c), ~Lent(c)',
           NEW h \in Handles, server[h].sql = None, NEW sql \in Sqls, server' = Allocated(h, sql),
           cache' = cache, starCache' = starCache, schema' = schema,
           \/ pin' = pin /\ Owner(c)' /\ op'[c].h = h /\ op'[c].sql = sql
           \/ /\ ~Owner(c)'
              /\ \E p \in Pins : ~Pinned(p) /\ pin' = [pin EXCEPT ![p] = [h |-> h, sql |-> sql]]
    PROVE  Kept' /\ Books' /\ Recent'
<1>1. \A d \in Callers : d # c =>
        op'[d] = op[d] /\ (Owner(d)' <=> Owner(d)) /\ (Lent(d)' <=> Lent(d))
  BY DEF Turn, Owner, Lent, Busy
<1>2. \A g \in Handles : server'[g] = IF g = h THEN [sql |-> sql, cursor |-> FALSE, schema |-> schema]
                                              ELSE server[g]
  BY DEF Allocated, TypeOK
<1>3. /\ \A e \in Range(cache) : e.h # h
      /\ \A d \in Callers : Owner(d) => op[d].h # h
      /\ \A p \in Pins : Pinned(p) => pin[p].h # h
  BY SessionAssumption, HandleTypes DEF Books, Objects
<1>4. h # NoHandle
  BY SessionAssumption
<1>5. CASE pin' = pin /\ Owner(c)' /\ op'[c].h = h /\ op'[c].sql = sql
  <2>0. \A p \in Pins : Pinned(p)' <=> Pinned(p)
    BY <1>5 DEF Pinned
  <2>1. Kept'
    <3>1. ASSUME NEW x \in Callers, Owner(x)'
          PROVE  /\ \A e \in Range(cache) : e.h # op'[x].h
                 /\ \A d \in Callers : Owner(d)' /\ op'[d].h = op'[x].h => x = d
                 /\ \A p \in Pins : Pinned(p)' => pin'[p].h # op'[x].h
      <4>1. CASE x = c
        BY <1>1, <1>3, <1>5, <2>0, <4>1
      <4>2. CASE x # c
        BY <1>1, <1>3, <1>5, <2>0, <3>1, <4>2 DEF Kept
      <4> QED
        BY <4>1, <4>2
    <3> QED
      BY <1>5, <2>0, <3>1 DEF Kept
  <2>2. Books'
    <3>1. \A d \in Callers : Owner(d)' =>
            server'[op'[d].h].sql \in Sqls /\ (op'[d].kind # "close" => server'[op'[d].h].sql = op'[d].sql)
      BY <1>1, <1>2, <1>3, <1>5, HandleTypes DEF Books
    <3>2. \A p \in Pins : Pinned(p)' => server'[pin'[p].h].sql = pin'[p].sql
      BY <1>2, <1>3, <1>5, <2>0, HandleTypes DEF Books
    <3>3. \A e \in Range(cache) : server'[e.h].sql = e.sql
      BY <1>2, <1>3, HandleTypes DEF Books
    <3>4. \A d \in Callers : Lent(d)' => [sql |-> op'[d].sql, h |-> op'[d].h] \in Range(cache)
      BY <1>1 DEF Books
    <3>5. ASSUME NEW g \in Handles, server'[g].sql \in Sqls
          PROVE  \/ g \in HandlesOf(cache)
                 \/ \E d \in Callers : Owner(d)' /\ op'[d].h = g
                 \/ \E p \in Pins : Pinned(p)' /\ pin'[p].h = g
      <4>1. CASE g = h
        BY <1>5, <4>1
      <4>2. CASE g # h
        <5>1. \/ g \in HandlesOf(cache)
              \/ \E d \in Callers : Owner(d) /\ op[d].h = g
              \/ \E p \in Pins : Pinned(p) /\ pin[p].h = g
          BY <1>2, <3>5, <4>2 DEF Books
        <5>2. CASE \E d \in Callers : Owner(d) /\ op[d].h = g
          BY <1>1, <5>2
        <5> QED
          BY <1>5, <2>0, <5>1, <5>2
      <4> QED
        BY <4>1, <4>2
    <3> QED
      BY <3>1, <3>2, <3>3, <3>4, <3>5 DEF Books
  <2>3. Recent'
    <3>1. \A e \in Range(cache) : server'[e.h].schema = schema
      BY <1>2, <1>3, HandleTypes DEF Recent, PlansFresh
    <3>2. \A d \in Callers : Owner(d)' /\ op'[d].kind # "close" => server'[op'[d].h].schema = schema
      BY <1>1, <1>2, <1>3, <1>5, HandleTypes DEF Recent
    <3> QED
      BY <3>1, <3>2 DEF Recent, PlansFresh
  <2> QED
    BY <2>1, <2>2, <2>3
<1>6. ASSUME ~Owner(c)', NEW p0 \in Pins, ~Pinned(p0), pin' = [pin EXCEPT ![p0] = [h |-> h, sql |-> sql]]
      PROVE  Kept' /\ Books' /\ Recent'
  <2>0. /\ pin'[p0] = [h |-> h, sql |-> sql]
        /\ \A p \in Pins : p # p0 => pin'[p] = pin[p] /\ (Pinned(p)' <=> Pinned(p))
    BY <1>6 DEF Pinned, TypeOK
  <2>00. pin'[p0].h = h /\ pin'[p0].sql = sql
    BY <2>0
  <2>1. Kept'
    <3>1. ASSUME NEW x \in Callers, Owner(x)'
          PROVE  /\ \A e \in Range(cache) : e.h # op'[x].h
                 /\ \A d \in Callers : Owner(d)' /\ op'[d].h = op'[x].h => x = d
                 /\ \A p \in Pins : Pinned(p)' => pin'[p].h # op'[x].h
      <4>1. x # c /\ Owner(x) /\ op'[x] = op[x] /\ op[x].h # h
        BY <1>1, <1>3, <1>6, <3>1
      <4>2. \A d \in Callers : Owner(d)' => d # c /\ Owner(d) /\ op'[d] = op[d]
        BY <1>1, <1>6
      <4>3. \A p \in Pins : Pinned(p)' => pin'[p].h = h \/ (Pinned(p) /\ pin'[p] = pin[p])
        BY <2>0, <2>00
      <4> QED
        BY <4>1, <4>2, <4>3 DEF Kept
    <3>2. ASSUME NEW p \in Pins, Pinned(p)'
          PROVE  /\ \A e \in Range(cache) : e.h # pin'[p].h
                 /\ \A q \in Pins : Pinned(q)' /\ pin'[p].h = pin'[q].h => p = q
      <4>1. CASE p = p0
        BY <1>3, <2>0, <2>00, <4>1
      <4>2. CASE p # p0
        BY <1>3, <2>0, <2>00, <3>2, <4>2 DEF Kept
      <4> QED
        BY <4>1, <4>2
    <3> QED
      BY <3>1, <3>2 DEF Kept
  <2>2. Books'
    <3>1. \A d \in Callers : Owner(d)' =>
            server'[op'[d].h].sql \in Sqls /\ (op'[d].kind # "close" => server'[op'[d].h].sql = op'[d].sql)
      BY <1>1, <1>2, <1>3, <1>6, HandleTypes DEF Books
    <3>2. ASSUME NEW p \in Pins, Pinned(p)' PROVE server'[pin'[p].h].sql = pin'[p].sql
      <4>1. CASE p = p0
        BY <1>2, <2>00, <4>1
      <4>2. CASE p # p0
        BY <1>2, <1>3, <2>0, <3>2, <4>2, HandleTypes DEF Books
      <4> QED
        BY <4>1, <4>2
    <3>3. \A e \in Range(cache) : server'[e.h].sql = e.sql
      BY <1>2, <1>3, HandleTypes DEF Books
    <3>4. \A d \in Callers : Lent(d)' => [sql |-> op'[d].sql, h |-> op'[d].h] \in Range(cache)
      BY <1>1 DEF Books
    <3>5. ASSUME NEW g \in Handles, server'[g].sql \in Sqls
          PROVE  \/ g \in HandlesOf(cache)
                 \/ \E d \in Callers : Owner(d)' /\ op'[d].h = g
                 \/ \E p \in Pins : Pinned(p)' /\ pin'[p].h = g
      <4>1. CASE g = h
        <5>1. Pinned(p0)'
          BY <1>4, <2>00 DEF Pinned, NoPin
        <5> QED
          BY <2>00, <4>1, <5>1
      <4>2. CASE g # h
        <5>1. \/ g \in HandlesOf(cache)
              \/ \E d \in Callers : Owner(d) /\ op[d].h = g
              \/ \E p \in Pins : Pinned(p) /\ pin[p].h = g
          BY <1>2, <3>5, <4>2 DEF Books
        <5>2. CASE \E d \in Callers : Owner(d) /\ op[d].h = g
          BY <1>1, <5>2
        <5>3. CASE \E p \in Pins : Pinned(p) /\ pin[p].h = g
          BY <1>6, <2>0, <5>3
        <5> QED
          BY <5>1, <5>2, <5>3
      <4> QED
        BY <4>1, <4>2
    <3> QED
      BY <3>1, <3>2, <3>3, <3>4, <3>5 DEF Books
  <2>3. Recent'
    <3>1. \A e \in Range(cache) : server'[e.h].schema = schema
      BY <1>2, <1>3, HandleTypes DEF Recent, PlansFresh
    <3>2. \A d \in Callers : Owner(d)' /\ op'[d].kind # "close" => server'[op'[d].h].schema = schema
      BY <1>1, <1>2, <1>3, <1>6, HandleTypes DEF Recent
    <3> QED
      BY <3>1, <3>2 DEF Recent, PlansFresh
  <2> QED
    BY <2>1, <2>2, <2>3
<1> QED
  BY <1>5, <1>6

\* close() of a PreparedStatement hands its statement over to the job that frees it.
LEMMA HandsOver ==
    ASSUME TypeOK, Objects, Kept, Books, Recent, NEW c \in Callers, Turn(c), ~Owner(c),
           NEW p0 \in Pins, Pinned(p0), pin' = [pin EXCEPT ![p0] = NoPin],
           op'[c].kind = "close", op'[c].h = pin[p0].h, Busy(c)',
           cache' = cache, starCache' = starCache, schema' = schema, server' = server
    PROVE  Kept' /\ Books' /\ Recent'
<1>1. \A d \in Callers : d # c =>
        op'[d] = op[d] /\ (Owner(d)' <=> Owner(d)) /\ (Lent(d)' <=> Lent(d))
  BY DEF Turn, Owner, Lent, Busy
<1>2. /\ ~Pinned(p0)'
      /\ \A p \in Pins : p # p0 => pin'[p] = pin[p] /\ (Pinned(p)' <=> Pinned(p))
  BY DEF Pinned, TypeOK
<1> DEFINE h == pin[p0].h
<1>3. h \in Handles /\ h # NoHandle /\ server[h].sql \in Sqls
  BY SessionAssumption DEF Objects, Books
<1>4. Owner(c)' /\ ~Lent(c)' /\ op'[c].h = h
  BY <1>3 DEF Owner, Lent
<1>5. /\ \A e \in Range(cache) : e.h # h
      /\ \A d \in Callers : Owner(d) => op[d].h # h
      /\ \A p \in Pins : p # p0 /\ Pinned(p) => pin[p].h # h
  BY DEF Kept
<1> HIDE DEF h
<1>6. Kept'
  <2>1. ASSUME NEW x \in Callers, Owner(x)'
        PROVE  /\ \A e \in Range(cache) : e.h # op'[x].h
               /\ \A d \in Callers : Owner(d)' /\ op'[d].h = op'[x].h => x = d
               /\ \A p \in Pins : Pinned(p)' => pin'[p].h # op'[x].h
    <3>1. CASE x = c
      BY <1>1, <1>2, <1>4, <1>5, <3>1
    <3>2. CASE x # c
      BY <1>1, <1>2, <1>4, <1>5, <2>1, <3>2 DEF Kept
    <3> QED
      BY <3>1, <3>2
  <2>2. \A p \in Pins : Pinned(p)' =>
          /\ \A e \in Range(cache) : e.h # pin'[p].h
          /\ \A q \in Pins : Pinned(q)' /\ pin'[p].h = pin'[q].h => p = q
    BY <1>2 DEF Kept
  <2> QED
    BY <2>1, <2>2 DEF Kept
<1>7. Books'
  <2>1. \A d \in Callers : Owner(d)' =>
          server'[op'[d].h].sql \in Sqls /\ (op'[d].kind # "close" => server'[op'[d].h].sql = op'[d].sql)
    BY <1>1, <1>3, <1>4 DEF Books
  <2>2. \A p \in Pins : Pinned(p)' => server'[pin'[p].h].sql = pin'[p].sql
    BY <1>2 DEF Books
  <2>3. \A d \in Callers : Lent(d)' => [sql |-> op'[d].sql, h |-> op'[d].h] \in Range(cache)
    BY <1>1, <1>4 DEF Books
  <2>4. ASSUME NEW g \in Handles, server[g].sql \in Sqls
        PROVE  \/ g \in HandlesOf(cache)
               \/ \E d \in Callers : Owner(d)' /\ op'[d].h = g
               \/ \E p \in Pins : Pinned(p)' /\ pin'[p].h = g
    <3>1. \/ g \in HandlesOf(cache)
          \/ \E d \in Callers : Owner(d) /\ op[d].h = g
          \/ \E p \in Pins : Pinned(p) /\ pin[p].h = g
      BY <2>4 DEF Books
    <3>2. CASE \E d \in Callers : Owner(d) /\ op[d].h = g
      BY <1>1, <3>2
    <3>3. CASE \E p \in Pins : Pinned(p) /\ pin[p].h = g
      BY <1>2, <1>4, <3>3 DEF h
    <3> QED
      BY <3>1, <3>2, <3>3
  <2>5. \A e \in Range(cache) : server[e.h].sql = e.sql
    BY DEF Books
  <2> QED
    BY <2>1, <2>2, <2>3, <2>4, <2>5 DEF Books
<1>8. Recent'
  BY <1>1 DEF Recent, PlansFresh
<1> QED
  BY <1>6, <1>7, <1>8

-----------------------------------------------------------------------------
(* The steps of a job. *)

\* A row of the server's table.
Statement == [sql : Sqls \cup {None} \cup Lost, cursor : BOOLEAN, schema : 0..MaxSchema]

\* Freeing statements and closing cursors keep the table a table.
LEMMA Tables ==
    ASSUME NEW table \in [Handles -> Statement]
    PROVE  /\ \A hs : Free(table, hs) \in [Handles -> Statement]
           /\ \A h \in Handles :
                /\ CloseCursor(table, h) \in [Handles -> Statement]
                /\ \A g \in Handles : CloseCursor(table, h)[g].sql = table[g].sql
                                   /\ CloseCursor(table, h)[g].schema = table[g].schema
<1>1. NoStmt \in Statement
  BY SessionAssumption DEF NoStmt, Statement
<1>2. \A hs : Free(table, hs) \in [Handles -> Statement]
  BY <1>1 DEF Free
<1>3. ASSUME NEW h \in Handles
      PROVE  /\ CloseCursor(table, h) \in [Handles -> Statement]
             /\ \A g \in Handles : CloseCursor(table, h)[g].sql = table[g].sql
                                /\ CloseCursor(table, h)[g].schema = table[g].schema
  BY DEF CloseCursor, Statement
<1> QED
  BY <1>2, <1>3

\* What every step of the running job may rely on.
LEMMA AtHead ==
    ASSUME TypeOK, Line, NEW c \in Callers, NEW kinds, NEW step, At(c, kinds, step)
    PROVE  /\ chain # <<>> /\ c = Head(chain) /\ Busy(c) /\ op[c] \in Operations
           /\ op[c].kind \in kinds /\ op[c].step = step
<1>1. chain # <<>> /\ c = Head(chain) /\ op[c].kind \in kinds /\ op[c].step = step
  BY DEF At
<1>2. c \in Range(chain)
  BY <1>1, LeaveChain DEF TypeOK, Line
<1>3. Busy(c)
  BY <1>2 DEF Line
<1> QED
  BY <1>1, <1>3, OpFields

\* Only streams keep a statement, their own or the cache's, while another job runs.
LEMMA OthersAreStreams ==
    ASSUME TypeOK, Line, Shapes, NEW c \in Callers, chain # <<>>, c = Head(chain),
           NEW d \in Callers, d # c
    PROVE  /\ Lent(d) => op[d].kind = "stream" /\ Borrows(op[d])
           /\ Owner(d) => op[d].kind \in {"stream", "close"}
<1>1. ASSUME Busy(d), op[d].kind = "run", op[d].h # NoHandle PROVE FALSE
  <2>1. Shape(op[d]) /\ op[d].step \in Steps
    BY <1>1, OpFields DEF Shapes
  <2>2. op[d].step \in {"execute", "fetch"}
    BY <1>1, <2>1 DEF Shape, Steps
  <2> QED
    BY <1>1, <2>2 DEF Line
<1>2. Lent(d) => op[d].h # NoHandle
  BY DEF Lent, Shapes, Shape
<1> QED
  BY <1>1, <1>2 DEF Lent, Owner, Borrows

\* A stream that works with a statement of the cache finds it there whatever text the
\* running job takes out or puts in.
LEMMA PutKeepsLent ==
    ASSUME TypeOK, Line, Shapes, Kept, Books, Calm, NEW c \in Callers, chain # <<>>, c = Head(chain), Busy(c),
           NEW sql \in Texts(op[c]), sql \in Sqls, NEW d \in Callers, d # c, Lent(d)
    PROVE  /\ [sql |-> op[d].sql, h |-> op[d].h] \in {e \in Range(cache) : e.sql # sql}
           /\ Cardinality({e.sql : e \in Range(cache)} \cup {sql}) <= Capacity
<1>1. Busy(d) /\ Borrows(op[d])
  BY OthersAreStreams DEF Lent
<1>2. ~Disturbs(op[d], op[c])
  BY <1>1 DEF Calm
<1>3. op[d].sql \in Texts(op[d])
  BY DEF Texts
<1>4. op[d].sql # sql
  BY <1>1, <1>2, <1>3 DEF Disturbs
<1>5. [sql |-> op[d].sql, h |-> op[d].h] \in Range(cache)
  BY DEF Books
<1> QED
  BY <1>1, <1>4, <1>5, RoomToPut

\* The DDL statements under way can be counted.
LEMMA DdlsCount ==
    IsFiniteSet(DdlsRunning) /\ Cardinality(DdlsRunning) \in Nat
<1>1. IsFiniteSet(DdlsRunning)
  BY SessionAssumption, FS_Subset DEF DdlsRunning
<1> QED
  BY <1>1, FS_CardinalityType

\* A DDL statement that changes the schema is one less under way.
LEMMA BoundedKeeps ==
    ASSUME TypeOK, Bounded, NEW c \in Callers, Busy(c), Turn(c),
           Busy(c)' /\ op'[c].sql \in Ddls => op[c].sql \in Ddls,
           schema' = schema \/ (schema' = schema + 1 /\ op[c].sql \in Ddls /\ ~Busy(c)')
    PROVE  Bounded' /\ schema' \in 0..MaxSchema
<1> DEFINE D == DdlsRunning
           N == {d \in Callers : Busy(d)' /\ op'[d].sql \in Ddls}
<1>1. N = DdlsRunning'
  BY DEF DdlsRunning
<1>2. N \subseteq D
  BY DEF Turn, Busy, DdlsRunning
<1>3. /\ IsFiniteSet(D) /\ Cardinality(D) \in Nat /\ schema \in Nat /\ MaxSchema \in Nat
      /\ schema + Cardinality(D) <= MaxSchema
  BY DdlsCount, SessionAssumption DEF TypeOK, Bounded
<1>4. Cardinality(N) \in Nat /\ Cardinality(N) <= Cardinality(D)
  BY <1>2, <1>3, FS_Subset, FS_CardinalityType
<1>5. CASE schema' = schema
  <2>1. schema' + Cardinality(N) <= MaxSchema /\ schema' \in 0..MaxSchema
    <3> HIDE DEF N, D
    <3> QED
      BY <1>3, <1>4, <1>5
  <2> QED
    BY <1>1, <2>1 DEF Bounded
<1>6. CASE schema' = schema + 1 /\ op[c].sql \in Ddls /\ ~Busy(c)'
  <2>1. c \in D /\ N \subseteq D \ {c}
    BY <1>2, <1>6 DEF DdlsRunning
  <2>2. IsFiniteSet(D \ {c}) /\ Cardinality(D \ {c}) = Cardinality(D) - 1
    BY <1>3, <2>1, FS_RemoveElement
  <2>3. Cardinality(N) <= Cardinality(D \ {c})
    BY <2>1, <2>2, FS_Subset
  <2>4. schema' + Cardinality(N) <= MaxSchema /\ schema' \in 0..MaxSchema
    <3> HIDE DEF N, D
    <3> QED
      BY <1>3, <1>4, <1>6, <2>2, <2>3
  <2> QED
    BY <1>1, <2>4 DEF Bounded
<1> QED
  BY <1>5, <1>6

\* What is left to show of a step of an operation under way, once its keepers are.
LEMMA Continues ==
    ASSUME IInv, NEW c \in Callers, Busy(c), Line', Typed, Turn(c),
           cache' \in Seq(Entry), Len(cache') <= Capacity,
           starCache' \in SUBSET [sql : Sqls, schema : 0..MaxSchema],
           server' \in [Handles -> Statement], pin' = pin,
           Busy(c)' =>
                /\ Shape(op'[c]) /\ Milder(op'[c], op[c])
                /\ op[c].kind = "pinned" => op'[c].h = op[c].h /\ op'[c].sql = op[c].sql,
           {e.sql : e \in Range(cache')} \subseteq {e.sql : e \in Range(cache)} \cup Texts(op[c]),
           schema' = schema \/ (schema' = schema + 1 /\ op[c].sql \in Ddls /\ ~Busy(c)'),
           Kept', Books', Recent'
    PROVE  IInv'
<1> USE DEF IInv
<1>1. \A d \in Callers : d # c => op'[d] = op[d] /\ (Busy(d)' <=> Busy(d))
  BY DEF Turn, Busy
<1>2. Bounded' /\ schema' \in 0..MaxSchema
  BY BoundedKeeps DEF Milder
<1>3. TypeOK'
  BY <1>2 DEF TypeOK, Typed, Entry, Statement
<1>4. Shapes'
  BY <1>1 DEF Shapes
<1>5. Objects'
  <2>1. \A d \in Callers : Busy(d)' => Busy(d) /\ op'[d].kind = op[d].kind /\ op'[d].pin = op[d].pin
    BY <1>1 DEF Milder
  <2>2. \A d \in Callers : Busy(d)' /\ op'[d].kind = "pinned" => op'[d].h = op[d].h /\ op'[d].sql = op[d].sql
    BY <1>1, <2>1
  <2>3. \A p \in Pins : Pinned(p)' <=> Pinned(p)
    BY DEF Pinned
  <2>4. \A d \in Callers : Busy(d)' /\ op'[d].kind = "pinned" =>
            pin[op'[d].pin] = [h |-> op'[d].h, sql |-> op'[d].sql]
    <3> SUFFICES ASSUME NEW d \in Callers, Busy(d)', op'[d].kind = "pinned"
                 PROVE  pin[op'[d].pin] = [h |-> op'[d].h, sql |-> op'[d].sql]
      OBVIOUS
    <3>1. Busy(d) /\ op[d].kind = "pinned" /\ op'[d].pin = op[d].pin /\ op'[d].h = op[d].h /\ op'[d].sql = op[d].sql
      BY <2>1, <2>2
    <3>2. pin[op[d].pin] = [h |-> op[d].h, sql |-> op[d].sql]
      BY <3>1 DEF Objects
    <3> QED
      BY <3>1, <3>2
  <2>5. \A d \in Callers : Busy(d)' /\ op'[d].kind = "prepare" => pin'[op'[d].pin] = NoPin
    <3> SUFFICES ASSUME NEW d \in Callers, Busy(d)', op'[d].kind = "prepare" PROVE pin'[op'[d].pin] = NoPin
      OBVIOUS
    <3>1. Busy(d) /\ op[d].kind = "prepare" /\ op'[d].pin = op[d].pin
      BY <2>1
    <3>2. pin[op[d].pin] = NoPin
      BY <3>1 DEF Objects, Pinned
    <3> QED
      BY <3>1, <3>2
  <2>6. \A x, d \in Callers : Busy(x)' /\ op'[x].kind = "prepare" /\ Busy(d)' /\ op'[d].kind = "prepare"
            /\ op'[x].pin = op'[d].pin => x = d
    BY <2>1 DEF Objects
  <2>7. \A p \in Pins : Pinned(p)' => pin'[p].h \in Handles /\ pin'[p].sql \in Sqls
    BY <2>3 DEF Objects
  <2> QED
    BY <2>4, <2>5, <2>6, <2>7 DEF Objects, Pinned
<1>6. Calm'
  BY CalmKeeps
<1> QED
  BY <1>2, <1>3, <1>4, <1>5, <1>6

\* A step that changes no more of an operation than where it is.
LEMMA GoesOn ==
    ASSUME IInv, NEW c \in Callers, Busy(c), Line', Typed, Turn(c), Busy(c)', Shape(op'[c]),
           op'[c].kind = op[c].kind, op'[c].pin = op[c].pin, op'[c].sql = op[c].sql,
           op'[c].h = op[c].h, op'[c].hit = op[c].hit, op'[c].star = op[c].star,
           cache' = cache, starCache' = starCache, pin' = pin, schema' = schema,
           server' \in [Handles -> Statement],
           \A h \in Handles : server'[h].sql = server[h].sql /\ server'[h].schema = server[h].schema
    PROVE  IInv'
<1> USE DEF IInv
<1>1. \A d \in Callers : d # c => op'[d] = op[d]
  BY DEF Turn
<1>2. \A d \in Callers : (Owner(d)' <=> Owner(d)) /\ (Lent(d)' <=> Lent(d))
  BY <1>1 DEF Owner, Lent, Busy
<1>3. \A d \in Callers : op'[d].h = op[d].h /\ op'[d].kind = op[d].kind /\ op'[d].sql = op[d].sql
  BY <1>1
<1>4. Kept' /\ Books' /\ Recent'
  <2>1. \A d \in Callers : Lent(d)' => [sql |-> op'[d].sql, h |-> op'[d].h] \in Range(cache)
    BY <1>2, <1>3 DEF Books
  <2>2. Apart(cache') /\ \A e \in starCache' : e.schema = schema
    BY DEF Kept, Recent, PlansFresh
  <2> QED
    BY <1>2, <1>3, <2>1, <2>2, Stays
<1>5. Milder(op'[c], op[c])
  BY DEF Milder, Texts, Borrows
<1>6. cache' \in Seq(Entry) /\ Len(cache') <= Capacity /\ starCache' \in SUBSET [sql : Sqls, schema : 0..MaxSchema]
  BY DEF TypeOK, Entry
<1> QED
  BY <1>4, <1>5, <1>6, Continues

\* A step in which an operation that keeps nothing of its own goes on, or ends.
LEMMA KeepsNothing ==
    ASSUME IInv, NEW c \in Callers, Busy(c), ~Owner(c), Line', Typed, Turn(c), ~Owner(c)',
           Busy(c)' => Shape(op'[c]) /\ Milder(op'[c], op[c]) /\ op[c].kind # "pinned",
           Lent(c)' => [sql |-> op'[c].sql, h |-> op'[c].h] \in Range(cache),
           cache' \in Seq(Entry), Apart(cache'), Len(cache') = Len(cache), Range(cache') = Range(cache),
           starCache' \in SUBSET [sql : Sqls, schema : 0..MaxSchema],
           \A e \in starCache' : e.schema = schema,
           pin' = pin, schema' = schema, server' \in [Handles -> Statement],
           \A h \in Handles : server[h].sql \in Sqls \/ server'[h].sql \in Sqls =>
                server'[h].sql = server[h].sql /\ server'[h].schema = server[h].schema
    PROVE  IInv'
<1> USE DEF IInv
<1>1. \A d \in Callers : d # c => op'[d] = op[d] /\ (Busy(d)' <=> Busy(d))
  BY DEF Turn, Busy
<1>2. \A d \in Callers : Owner(d)' <=> Owner(d)
  BY <1>1 DEF Owner
<1>3. \A d \in Callers : Owner(d) =>
        op'[d].h = op[d].h /\ op'[d].kind = op[d].kind /\ op'[d].sql = op[d].sql
  BY <1>1
<1>4. \A d \in Callers : Lent(d)' => [sql |-> op'[d].sql, h |-> op'[d].h] \in Range(cache)
  <2>1. \A d \in Callers : d # c /\ Lent(d)' => Lent(d)
    BY <1>1 DEF Lent
  <2> QED
    BY <1>1, <2>1 DEF Books
<1>5. Kept' /\ Books' /\ Recent'
  BY <1>2, <1>3, <1>4, Stays
<1>6. Len(cache') <= Capacity
  BY DEF TypeOK
<1> QED
  BY <1>5, <1>6, Continues

\* An operation frees its statement, and perhaps drops entries, or one text, of the cache.
LEMMA Drops ==
    ASSUME IInv, NEW c \in Callers, chain # <<>>, c = Head(chain), Busy(c), Line', Typed, Turn(c), ~Owner(c)', ~Lent(c)',
           Busy(c)' => Shape(op'[c]) /\ Milder(op'[c], op[c]) /\ op[c].kind # "pinned",
           cache' \in Seq(Entry), Apart(cache'), Len(cache') <= Len(cache),
           Range(cache') \subseteq Range(cache),
           \A d \in Callers : d # c /\ Lent(d) => [sql |-> op[d].sql, h |-> op[d].h] \in Range(cache'),
           NEW table \in [Handles -> Statement],
           \A h \in Handles : table[h].sql = server[h].sql /\ table[h].schema = server[h].schema,
           NEW more, more = (IF Owner(c) THEN {op[c].h} ELSE {}),
           server' = Free(table, (more \cup HandlesOf(cache)) \ HandlesOf(cache')),
           starCache' = starCache, pin' = pin, schema' = schema
    PROVE  IInv'
<1> USE DEF IInv
<1> DEFINE n == IF Owner(c) THEN op[c].h ELSE NoHandle
<1>1. n # NoHandle => Spare(c, n) /\ n \in more
  <2>1. CASE Owner(c)
    BY <2>1, HandleTypes DEF Kept, Spare
  <2> QED
    BY <2>1
<1>2. more \subseteq {n} \cup HandlesOf(cache) /\ (Owner(c) => n = op[c].h)
  OBVIOUS
<1>4. \A e \in starCache' : e.schema = schema'
  BY DEF Recent, PlansFresh
<1>5. \A h \in HandlesOf(cache') : h \in HandlesOf(cache)
  BY DEF HandlesOf
<1> HIDE DEF n
<1> DEFINE table2 == [h \in Handles |->
                         IF h = n THEN [sql |-> None, cursor |-> FALSE, schema |-> schema]
                         ELSE table[h]]
<1>6. n # NoHandle => n \in (more \cup HandlesOf(cache)) \ HandlesOf(cache')
  <2>1. n # NoHandle => n \notin HandlesOf(cache)
    BY <1>1 DEF Spare, HandlesOf
  <2> QED
    BY <1>1, <1>5, <2>1
<1>7. server' = Free(table2, (more \cup HandlesOf(cache)) \ HandlesOf(cache'))
  BY <1>6, SessionAssumption DEF Free
<1>8. \A h \in Handles : h # n => table2[h].sql = server[h].sql /\ table2[h].schema = server[h].schema
  OBVIOUS
<1>9. n # NoHandle => table2[n].schema = schema
  BY <1>1 DEF Spare
<1> HIDE DEF table2
<1>10. Kept' /\ Books' /\ Recent'
  <2>1. \A e \in Range(cache') : e \in Range(cache) \/ (n # NoHandle /\ e.h = n /\ table2[n].sql = e.sql)
    OBVIOUS
  <2>2. schema' = schema /\ (n # NoHandle => table2[n].schema = schema)
    BY <1>9
  <2>3. TypeOK /\ Objects /\ Kept /\ Books /\ Recent
    OBVIOUS
  <2> HIDE DEF IInv
  <2> QED
    <3>1. GivesUp(c, n, table2, more)
      BY <1>1, <1>2, <1>4, <1>7, <1>8, <2>1, <2>2 DEF GivesUp
    <3> QED
      BY <2>3, <3>1, Settled
<1>11. server' \in [Handles -> Statement]
  BY Tables
<1>12. Len(cache') <= Capacity
  BY SessionAssumption DEF TypeOK
<1>13. {e.sql : e \in Range(cache')} \subseteq {e.sql : e \in Range(cache)} \cup Texts(op[c])
  OBVIOUS
<1>14. starCache' \in SUBSET [sql : Sqls, schema : 0..MaxSchema]
  BY DEF TypeOK
<1> QED
  BY <1>10, <1>11, <1>12, <1>13, <1>14, Continues

\* finishStatement(): the statement goes to the cache, or nothing is kept after DDL.
LEMMA Finishes ==
    ASSUME IInv, NEW c \in Callers, chain # <<>>, c = Head(chain), Busy(c), Owner(c) \/ Lent(c),
           op[c].kind # "close", ~op[c].star, Return(c), pin' = pin,
           NEW table \in [Handles -> Statement],
           \A h \in Handles : table[h].sql = server[h].sql /\ table[h].schema = server[h].schema,
           schema' = schema \/ (schema' = schema + 1 /\ op[c].sql \in Ddls),
           Finish(op[c].sql, op[c].h, table)
    PROVE  IInv'
<1> USE DEF IInv
<1> DEFINE sql == op[c].sql
           h == op[c].h
           kept == IF sql \in Ddls THEN <<>> ELSE IF Capacity = 0 THEN cache ELSE Put(sql, h)
           n == IF Owner(c) THEN h ELSE NoHandle
<1>1. Line' /\ Typed /\ Turn(c) /\ ~Busy(c)'
  BY LeaveLine DEF Busy
<1>2. /\ cache' = kept /\ starCache' = (IF sql \in Ddls THEN {} ELSE starCache)
      /\ server' = Free(table, ({h} \cup HandlesOf(cache)) \ HandlesOf(cache'))
  BY DEF Finish, SetCache
<1>3. Shape(op[c]) /\ op[c].sql \in Sqls \cup {None} /\ op[c].kind \in {"run", "stream"}
  BY OpFields DEF Shapes, Owner, Lent
<1>4. sql \in Sqls /\ h \in Handles /\ sql \in Texts(op[c])
  BY <1>3, HandleTypes DEF Shape, Texts
<1>5. /\ server[h].sql = sql /\ server[h].schema = schema
      /\ Lent(c) => [sql |-> sql, h |-> h] \in Range(cache)
  <2>1. CASE Owner(c)
    BY <2>1, <1>3 DEF Books, Recent, Owner, Lent
  <2>2. CASE Lent(c)
    <3>1. PICK e \in Range(cache) : e = [sql |-> sql, h |-> h]
      BY <2>2 DEF Books
    <3>2. e.h = h /\ e.sql = sql
      BY <3>1
    <3> QED
      BY <3>1, <3>2 DEF Books, Recent, PlansFresh
  <2> QED
    BY <2>1, <2>2
<1>6. n # NoHandle => Spare(c, n) /\ n \in {h}
  <2>1. CASE Owner(c)
    BY <2>1, <1>4 DEF Kept, Spare
  <2> QED
    BY <2>1
<1>7. {h} \subseteq {n} \cup HandlesOf(cache) /\ (Owner(c) => n = h)
  <2>1. CASE Owner(c)
    BY <2>1
  <2>2. CASE ~Owner(c)
    <3>1. PICK e \in Range(cache) : e = [sql |-> sql, h |-> h]
      BY <1>5, <2>2
    <3>2. e.h = h
      BY <3>1
    <3> QED
      BY <2>2, <3>2 DEF HandlesOf
  <2> QED
    BY <2>1, <2>2
<1>8. Capacity \in Nat /\ cache \in Seq(Entry) /\ Apart(cache) /\ Len(cache) <= Capacity
  BY SessionAssumption DEF TypeOK, Entry, Kept
<1>9. ASSUME sql \notin Ddls, Capacity > 0
      PROVE  /\ kept = Put(sql, h) /\ kept \in Seq(Entry) /\ Apart(kept) /\ Len(kept) <= Capacity
             /\ Range(kept) \subseteq {e \in Range(cache) : e.sql # sql} \cup {[sql |-> sql, h |-> h]}
             /\ Cardinality({e.sql : e \in Range(cache)} \cup {sql}) <= Capacity
                    => Range(kept) = {e \in Range(cache) : e.sql # sql} \cup {[sql |-> sql, h |-> h]}
  <2>1. \A e \in Range(cache) : e.h = h => e.sql = sql
    BY <1>5 DEF Books
  <2>2. kept = Put(sql, h)
    BY <1>8, <1>9
  <2> QED
    <3>1. /\ Put(sql, h) \in Seq(Entry) /\ Apart(Put(sql, h)) /\ Len(Put(sql, h)) <= Capacity
          /\ Range(Put(sql, h)) \subseteq {e \in Range(cache) : e.sql # sql} \cup {[sql |-> sql, h |-> h]}
          /\ Cardinality({e.sql : e \in Range(cache)} \cup {sql}) <= Capacity
                    => Range(Put(sql, h)) = {e \in Range(cache) : e.sql # sql} \cup {[sql |-> sql, h |-> h]}
      <4> HIDE DEF sql, h, IInv
      <4> QED
        BY <1>4, <1>8, <1>9, <2>1, PutEntries
    <3> HIDE DEF kept, IInv
    <3> QED
      BY <2>2, <3>1
<1>10. kept \in Seq(Entry) /\ Apart(kept) /\ Len(kept) <= Capacity
  <2>1. CASE sql \in Ddls
    BY <1>8, <2>1 DEF Apart
  <2>2. CASE sql \notin Ddls /\ Capacity = 0
    BY <1>8, <2>2
  <2> QED
    BY <1>8, <1>9, <2>1, <2>2
<1>11. \A e \in Range(kept) : e \in Range(cache) \/ e = [sql |-> sql, h |-> h]
  <2>1. CASE sql \in Ddls
    BY <2>1 DEF Range
  <2>2. CASE sql \notin Ddls /\ Capacity = 0
    BY <2>2
  <2> QED
    BY <1>8, <1>9, <2>1, <2>2
<1>12. ASSUME NEW d \in Callers, d # c, Lent(d)
       PROVE  sql \notin Ddls /\ [sql |-> op[d].sql, h |-> op[d].h] \in Range(kept)
  <2>1. op[d].kind = "stream" /\ Borrows(op[d]) /\ Busy(d)
    BY <1>12, OthersAreStreams DEF Lent
  <2>2. sql \notin Ddls
    BY <1>12, <2>1 DEF Calm, Disturbs
  <2>3. /\ [sql |-> op[d].sql, h |-> op[d].h] \in {e \in Range(cache) : e.sql # sql}
        /\ Cardinality({e.sql : e \in Range(cache)} \cup {sql}) <= Capacity
    BY <1>4, <1>12, PutKeepsLent
  <2>4. CASE Capacity = 0
    BY <2>2, <2>3, <2>4
  <2>5. CASE Capacity > 0
    BY <1>9, <2>2, <2>3, <2>5
  <2> QED
    BY <1>8, <2>2, <2>4, <2>5
<1>13. schema' = schema \/ (Range(kept) = {} /\ \A d \in Callers : d # c /\ Owner(d) => op[d].kind = "close")
  <2>1. ASSUME sql \in Ddls PROVE Range(kept) = {} /\ \A d \in Callers : d # c /\ Owner(d) => op[d].kind = "close"
    <3>1. Range(kept) = {}
      <4>1. kept = <<>>
        <5> HIDE DEF sql, h
        <5> QED
          BY <2>1
      <4> HIDE DEF kept
      <4> QED
        BY <4>1 DEF Range
    <3>2. \A d \in Callers : d # c /\ Owner(d) => op[d].kind \in {"stream", "close"} /\ Busy(d)
      BY OthersAreStreams DEF Owner
    <3>3. \A d \in Callers : d # c /\ Busy(d) => op[d].kind # "stream"
      BY <2>1 DEF Calm, Disturbs
    <3> QED
      BY <3>1, <3>2, <3>3
  <2> QED
    BY <2>1
<1>14. \A e \in starCache' : e.schema = schema'
  BY <1>2 DEF Recent, PlansFresh
<1>15. n # NoHandle => table[n].schema = schema
  BY <1>4, <1>5
<1>16. \A e \in Range(cache') : e \in Range(cache) \/ (n # NoHandle /\ e.h = n /\ table[n].sql = e.sql)
  <2>1. ASSUME NEW e \in Range(kept), e \notin Range(cache) PROVE n # NoHandle /\ e.h = n /\ table[n].sql = e.sql
    <3>1. e = [sql |-> sql, h |-> h] /\ Owner(c)
      BY <1>5, <1>11, <2>1
    <3>2. e.h = h /\ e.sql = sql /\ n = h /\ h # NoHandle
      BY <1>4, <3>1, SessionAssumption
    <3> QED
      BY <1>4, <1>5, <3>2
  <2> QED
    BY <1>2, <2>1
<1>17. ~Owner(c)' /\ ~Lent(c)'
  BY <1>1 DEF Owner, Lent
<1>18. {e.sql : e \in Range(kept)} \subseteq {e.sql : e \in Range(cache)} \cup Texts(op[c])
  <2>1. ASSUME NEW e \in Range(kept) PROVE e.sql \in {x.sql : x \in Range(cache)} \cup Texts(op[c])
    BY <1>4, <1>11
  <2> QED
    BY <2>1
<1>19. server' \in [Handles -> Statement] /\ starCache' \in SUBSET [sql : Sqls, schema : 0..MaxSchema]
  BY <1>2, Tables DEF TypeOK
<1> HIDE DEF n, h, sql, kept
<1>20. Kept' /\ Books' /\ Recent'
  <2>1. Apart(cache') /\ \A d \in Callers : d # c /\ Lent(d) => [sql |-> op[d].sql, h |-> op[d].h] \in Range(cache')
    BY <1>2, <1>10, <1>12
  <2>2. Owner(c) => n = op[c].h
    BY <1>7 DEF h
  <2>3. \/ schema' = schema /\ (n # NoHandle => table[n].schema = schema)
        \/ Range(cache') = {} /\ \A d \in Callers : d # c /\ Owner(d) => op[d].kind = "close"
    BY <1>2, <1>13, <1>15
  <2>4. TypeOK /\ Objects /\ Kept /\ Books /\ Recent
    OBVIOUS
  <2>5. \A g \in Handles : g # n => table[g].sql = server[g].sql /\ table[g].schema = server[g].schema
    OBVIOUS
  <2> HIDE DEF IInv
  <2> QED
    <3>1. GivesUp(c, n, table, {h})
      BY <1>1, <1>2, <1>6, <1>7, <1>14, <1>16, <1>17, <2>1, <2>2, <2>3, <2>5 DEF GivesUp
    <3> QED
      BY <2>4, <3>1, Settled
<1> QED
  BY <1>1, <1>2, <1>10, <1>18, <1>19, <1>20, Continues

\* The fields of an operation that goes to another step.
LEMMA AtStep ==
    ASSUME NEW o \in Operations, NEW s \in Steps
    PROVE  LET n == [o EXCEPT !.step = s] IN
           /\ n \in Operations /\ n.step = s /\ n.kind = o.kind /\ n.sql = o.sql /\ n.pin = o.pin
           /\ n.star = o.star /\ n.h = o.h /\ n.hit = o.hit /\ n.open = o.open /\ n.failed = o.failed
  BY DEF Operations

\* Looking a text up changes the handle and the hit only.
LEMMA LookedUp ==
    ASSUME NEW E \in Seq(Entry), NEW o \in Operations
    PROVE  LET n == Lookup(E, o) IN
           /\ n \in Operations /\ n.step = o.step /\ n.kind = o.kind /\ n.sql = o.sql /\ n.pin = o.pin
           /\ n.star = o.star /\ n.open = o.open /\ n.failed = o.failed
           /\ IF Cached(E, o.sql)
              THEN n.hit /\ n.h \in Handles /\ [sql |-> o.sql, h |-> n.h] \in Range(E)
              ELSE n.h = o.h /\ n.hit = o.hit
<1>1. CASE Cached(E, o.sql)
  <2>1. /\ [sql |-> o.sql, h |-> CachedHandle(E, o.sql)] \in Range(E)
        /\ CachedHandle(E, o.sql) \in Handles
    BY <1>1, CachedEntry
  <2>2. Lookup(E, o) = [o EXCEPT !.hit = TRUE, !.h = CachedHandle(E, o.sql)]
    BY <1>1 DEF Lookup
  <2> QED
    BY <1>1, <2>1, <2>2 DEF Operations
<1>2. CASE ~Cached(E, o.sql)
  BY <1>2 DEF Lookup
<1> QED
  BY <1>1, <1>2

\* Goto, Requeue and Yield of the running job.
LEMMA Moves ==
    ASSUME TypeOK, Line, NEW c \in Callers, chain # <<>>, c = Head(chain), NEW o \in Operations,
           \/ o.step # "yield" /\ Goto(c, o)
           \/ o.step \in Waiting /\ Requeue(c, o)
           \/ o.step = "yield" /\ Yield(c, o)
    PROVE  Line' /\ Typed /\ Turn(c) /\ op'[c] = o /\ Busy(c)'
<1>1. Line' /\ Typed /\ Turn(c) /\ op'[c] = o
  BY GotoLine, LeaveLine
<1>2. Busy(c)'
  BY <1>1, OperationsBusy DEF Busy
<1> QED
  BY <1>1, <1>2

\* The text of an operation is resolved: it goes on with the rewritten one.
LEMMA ResolvedGoesOn ==
    ASSUME IInv, NEW c \in Callers, chain # <<>>, c = Head(chain), Busy(c), op[c].star,
           NEW E \in Seq(Entry), Apart(E), Resolved(c, E)
    PROVE  /\ Line' /\ Typed /\ Turn(c) /\ Busy(c)' /\ ~Owner(c)' /\ ~Owner(c) /\ op[c].kind # "pinned"
           /\ Shape(op'[c]) /\ Milder(op'[c], op[c])
           /\ Lent(c)' => [sql |-> op'[c].sql, h |-> op'[c].h] \in Range(E)
           /\ cache' \in Seq(Entry) /\ Apart(cache') /\ Len(cache') = Len(E) /\ Range(cache') = Range(E)
<1> USE DEF IInv
<1> DEFINE sql == Rewritten[op[c].sql]
           o == [op[c] EXCEPT !.sql = sql, !.star = FALSE, !.step = "queued"]
           n == IF o.kind = "run" THEN o ELSE Lookup(E, o)
<1>1. /\ op[c] \in Operations /\ Shape(op[c]) /\ op[c].kind \in {"run", "stream"} /\ op[c].h = NoHandle
      /\ ~op[c].hit /\ sql \in Selects /\ op[c].step \in {"queued", "star"} /\ ~op[c].open
  BY OpFields, SessionAssumption DEF Shapes, Shape
<1>2. /\ o \in Operations /\ o.kind = op[c].kind /\ o.sql = sql /\ o.star = FALSE /\ o.step = "queued"
      /\ o.h = NoHandle /\ ~o.hit /\ ~o.open /\ o.pin = op[c].pin
  BY <1>1 DEF Operations, Sqls, Steps
<1>3. /\ cache' = (IF o.kind = "run" THEN E ELSE Got(E, sql))
      /\ IF o.kind = "run" THEN Goto(c, o) ELSE Requeue(c, Lookup(E, o))
  BY <1>2 DEF Resolved
<1> HIDE DEF o
<1>4. /\ n \in Operations /\ n.kind = o.kind /\ n.sql = sql /\ n.star = FALSE /\ n.step = "queued"
      /\ ~n.open /\ n.pin = o.pin
      /\ \/ n.h = NoHandle /\ ~n.hit
         \/ n.kind = "stream" /\ n.h \in Handles /\ n.hit /\ [sql |-> sql, h |-> n.h] \in Range(E)
  BY <1>1, <1>2, LookedUp
<1>5. Line' /\ Typed /\ Turn(c) /\ op'[c] = n /\ Busy(c)'
  BY <1>1, <1>2, <1>3, <1>4, Moves DEF Waiting
<1>6. cache' \in Seq(Entry) /\ Apart(cache') /\ Len(cache') = Len(E) /\ Range(cache') = Range(E)
  BY <1>3, GotEntries
<1> HIDE DEF n, sql
<1>7. sql \notin Ddls /\ sql \in Sqls /\ sql # None /\ NoHandle \notin Handles
  BY <1>1, SessionAssumption DEF Sqls
<1>8. Shape(op'[c])
  BY <1>1, <1>2, <1>4, <1>5, <1>7 DEF Shape
<1>9. Milder(op'[c], op[c])
  <2>1. Texts(n) = {sql} /\ sql \in Texts(op[c])
    BY <1>4 DEF Texts, sql
  <2> QED
    BY <1>1, <1>2, <1>4, <1>5, <1>7, <2>1 DEF Milder, Borrows
<1>10. ~Owner(c) /\ ~Owner(c)' /\ op[c].kind # "pinned"
  BY <1>1, <1>2, <1>4, <1>5 DEF Owner
<1>11. Lent(c)' => [sql |-> op'[c].sql, h |-> op'[c].h] \in Range(E)
  BY <1>4, <1>5 DEF Lent
<1> QED
  BY <1>5, <1>6, <1>8, <1>9, <1>10, <1>11

-----------------------------------------------------------------------------
(* One lemma per action. *)

\* The rewrite is known: the operation goes on with it.
LEMMA ExpandKnownStep == ASSUME IInv, NEW c \in Callers, ExpandKnown(c) PROVE IInv'
<1>1. chain # <<>> /\ c = Head(chain) /\ Busy(c) /\ op[c].star
  BY AtHead DEF ExpandKnown, IInv
<1>2. cache \in Seq(Entry) /\ Apart(cache) /\ Resolved(c, cache)
  BY DEF ExpandKnown, IInv, TypeOK, Kept, Entry
<1>3. starCache' = starCache /\ pin' = pin /\ server' = server /\ schema' = schema
  BY DEF ExpandKnown
<1>4. /\ starCache' \in SUBSET [sql : Sqls, schema : 0..MaxSchema] /\ server' \in [Handles -> Statement]
      /\ \A e \in starCache' : e.schema = schema
  BY <1>3 DEF IInv, TypeOK, Statement, Recent, PlansFresh
<1> QED
  BY <1>1, <1>2, <1>3, <1>4, ResolvedGoesOn, KeepsNothing

\* A rewrite that is kept is one for this schema.
LEMMA RewriteKept ==
    ASSUME TypeOK, Recent, NEW sql \in Sqls
    PROVE  /\ starCache \cup {Rewrite(sql)} \in SUBSET [sql : Sqls, schema : 0..MaxSchema]
           /\ \A e \in starCache \cup {Rewrite(sql)} : e.schema = schema
  BY DEF TypeOK, Recent, PlansFresh, Rewrite

\* The rewrite is not known, the statement is, or it must be prepared.
LEMMA ExpandStep == ASSUME IInv, NEW c \in Callers, Expand(c) PROVE IInv'
<1>1. /\ chain # <<>> /\ c = Head(chain) /\ Busy(c) /\ op[c].star /\ op[c] \in Operations
      /\ op[c].kind \in {"run", "stream"} /\ op[c].step = "queued"
  BY AtHead DEF Expand, IInv
<1>2. cache \in Seq(Entry) /\ Apart(cache) /\ server \in [Handles -> Statement]
  BY DEF IInv, TypeOK, Kept, Entry, Statement
<1>3. pin' = pin /\ server' = server /\ schema' = schema
  BY DEF Expand
<1>4. Shape(op[c]) /\ op[c].sql \in Sqls
  BY <1>1, SessionAssumption DEF IInv, Shapes, Shape, Sqls
<1>5. CASE Cached(cache, op[c].sql)
  <2> DEFINE E == Got(cache, op[c].sql)
  <2>1. E \in Seq(Entry) /\ Apart(E) /\ Len(E) = Len(cache) /\ Range(E) = Range(cache)
    BY <1>2, GotEntries
  <2>2. Resolved(c, E) /\ starCache' = starCache \cup {Rewrite(op[c].sql)}
    BY <1>5 DEF Expand
  <2> HIDE DEF E
  <2> QED
    BY <1>1, <1>2, <1>3, <1>4, <2>1, <2>2, ResolvedGoesOn, RewriteKept, KeepsNothing DEF IInv
<1>6. CASE ~Cached(cache, op[c].sql)
  <2> DEFINE o == [op[c] EXCEPT !.step = "star"]
  <2>1. Goto(c, o) /\ cache' = cache /\ starCache' = starCache
    BY <1>6 DEF Expand
  <2>2. /\ o \in Operations /\ o.step = "star" /\ o.kind = op[c].kind /\ o.sql = op[c].sql /\ o.pin = op[c].pin
        /\ o.star = op[c].star /\ o.h = op[c].h /\ o.hit = op[c].hit /\ o.open = op[c].open
    <3>1. "star" \in Steps
      BY DEF Steps
    <3> QED
      BY <1>1, <3>1, AtStep
  <2> HIDE DEF o
  <2>3. Line' /\ Typed /\ Turn(c) /\ op'[c] = o /\ Busy(c)'
    BY <1>1, <2>1, <2>2, Moves DEF IInv
  <2>4. Shape(o)
    BY <1>1, <1>4, <2>2 DEF Shape
  <2> QED
    BY <1>1, <1>2, <1>3, <2>1, <2>2, <2>3, <2>4, GoesOn
<1> QED
  BY <1>5, <1>6

\* A job begins: a run looks its text up.
LEMMA BeginStep == ASSUME IInv, NEW c \in Callers, Begin(c) PROVE IInv'
<1> DEFINE held == IF op[c].kind = "run" THEN Lookup(cache, op[c]) ELSE op[c]
           s == IF held.h = NoHandle THEN "prepare" ELSE "execute"
           o == [held EXCEPT !.step = s]
<1>1. /\ chain # <<>> /\ c = Head(chain) /\ Busy(c) /\ ~op[c].star /\ op[c] \in Operations
      /\ op[c].kind \in {"run", "stream", "prepare", "pinned"} /\ op[c].step = "queued"
  BY AtHead DEF Begin, IInv
<1>2. cache \in Seq(Entry) /\ Apart(cache) /\ server \in [Handles -> Statement]
  BY DEF IInv, TypeOK, Kept, Entry, Statement
<1>3. /\ pin' = pin /\ server' = server /\ schema' = schema /\ starCache' = starCache /\ Goto(c, o)
      /\ cache' = IF op[c].kind = "run" THEN Got(cache, op[c].sql) ELSE cache
  BY DEF Begin
<1>4. Shape(op[c]) /\ NoHandle \notin Handles
  BY <1>1, SessionAssumption DEF IInv, Shapes
<1>5. /\ held \in Operations /\ held.step = "queued" /\ held.kind = op[c].kind /\ held.sql = op[c].sql
      /\ held.pin = op[c].pin /\ held.star = op[c].star /\ held.open = op[c].open
      /\ op[c].kind = "run" =>
            \/ held.h = NoHandle /\ ~held.hit
            \/ held.hit /\ held.h \in Handles /\ [sql |-> op[c].sql, h |-> held.h] \in Range(cache)
      /\ op[c].kind # "run" => held = op[c]
  BY <1>1, <1>2, <1>4, LookedUp DEF Shape
<1> HIDE DEF held
<1>6. /\ o \in Operations /\ o.step = s /\ o.kind = held.kind /\ o.sql = held.sql /\ o.pin = held.pin
      /\ o.star = held.star /\ o.h = held.h /\ o.hit = held.hit /\ o.open = held.open
  <2>1. s \in Steps
    BY DEF Steps
  <2> HIDE DEF s
  <2> QED
    BY <1>5, <2>1, AtStep
<1>7. o.step # "yield"
  BY <1>6
<1> HIDE DEF o
<1>8. Line' /\ Typed /\ Turn(c) /\ op'[c] = o /\ Busy(c)'
  BY <1>1, <1>3, <1>6, <1>7, Moves DEF IInv
<1>9. Shape(o)
  BY <1>1, <1>4, <1>5, <1>6 DEF Shape
<1>10. CASE op[c].kind # "run"
  <2>1. \A h \in Handles : server'[h].sql = server[h].sql /\ server'[h].schema = server[h].schema
    BY <1>3
  <2> QED
    BY <1>1, <1>2, <1>3, <1>5, <1>6, <1>8, <1>9, <1>10, <2>1, GoesOn
<1>11. CASE op[c].kind = "run"
  <2>1. cache' \in Seq(Entry) /\ Apart(cache') /\ Len(cache') = Len(cache) /\ Range(cache') = Range(cache)
    BY <1>2, <1>3, GotEntries, <1>11
  <2>2. ~Owner(c) /\ ~Owner(c)'
    BY <1>4, <1>1, <1>5, <1>6, <1>8, <1>11 DEF Owner, Shape
  <2>3. Lent(c)' => [sql |-> op'[c].sql, h |-> op'[c].h] \in Range(cache)
    BY <1>5, <1>6, <1>8, <1>11 DEF Lent
  <2>4. Milder(o, op[c])
    BY <1>5, <1>6, <1>11 DEF Milder, Texts, Borrows
  <2>5. starCache' \in SUBSET [sql : Sqls, schema : 0..MaxSchema] /\ \A e \in starCache' : e.schema = schema
    BY <1>3 DEF IInv, TypeOK, Recent, PlansFresh
  <2> QED
    BY <1>1, <1>2, <1>3, <1>8, <1>9, <1>11, <2>1, <2>2, <2>3, <2>4, <2>5, KeepsNothing
<1> QED
  BY <1>10, <1>11

\* A prepared statement waits for its turn, in its own transaction.
LEMMA OwnStartedStep == ASSUME IInv, NEW c \in Callers, OwnStarted(c) PROVE IInv'
<1> DEFINE o == [op[c] EXCEPT !.step = "queued"]
<1>1. /\ chain # <<>> /\ c = Head(chain) /\ Busy(c) /\ op[c] \in Operations
      /\ op[c].kind = "pinned" /\ op[c].step = "begin"
  BY AtHead DEF OwnStarted, IInv
<1>2. cache' = cache /\ starCache' = starCache /\ pin' = pin /\ server' = server /\ schema' = schema /\ Requeue(c, o)
  BY DEF OwnStarted
<1>3. /\ o \in Operations /\ o.step = "queued" /\ o.kind = op[c].kind /\ o.sql = op[c].sql /\ o.pin = op[c].pin
      /\ o.star = op[c].star /\ o.h = op[c].h /\ o.hit = op[c].hit /\ o.open = op[c].open
  <2>1. "queued" \in Steps
    BY DEF Steps
  <2> QED
    BY <1>1, <2>1, AtStep
<1> HIDE DEF o
<1>4. Line' /\ Typed /\ Turn(c) /\ op'[c] = o /\ Busy(c)'
  BY <1>1, <1>2, <1>3, Moves DEF IInv, Waiting
<1>5. Shape(o)
  <2>1. Shape(op[c])
    BY <1>1 DEF IInv, Shapes
  <2> QED
    BY <1>1, <1>3, <2>1 DEF Shape
<1>6. server' \in [Handles -> Statement]
  BY <1>2 DEF IInv, TypeOK, Statement
<1> QED
  BY <1>1, <1>2, <1>3, <1>4, <1>5, <1>6, GoesOn

\* The table of a server that has prepared a statement under a free handle.
LEMMA AllocatedTable ==
    ASSUME TypeOK, NEW h \in Handles, NEW sql \in Sqls \cup Lost
    PROVE  /\ Allocated(h, sql) \in [Handles -> Statement]
           /\ Allocated(h, sql)[h].sql = sql /\ Allocated(h, sql)[h].schema = schema
           /\ \A g \in Handles : g # h => Allocated(h, sql)[g] = server[g]
  BY DEF TypeOK, Allocated, Statement

\* A handle that the server gives out was nobody's.
LEMMA UnusedIsFree ==
    ASSUME NEW h, Unused(h)
    PROVE  h \in Handles /\ server[h].sql = None
  BY DEF Unused

\* A statement prepared for its description goes to the cache, or is freed.
LEMMA DescribedStep == ASSUME IInv, NEW c \in Callers, Described(c) PROVE IInv'
<1> DEFINE sql == op[c].sql
<1>1. /\ chain # <<>> /\ c = Head(chain) /\ Busy(c) /\ op[c] \in Operations
      /\ op[c].kind \in {"run", "stream"} /\ op[c].step = "star"
  BY AtHead DEF Described, IInv
<1>2. PICK h \in Handles :
        /\ Unused(h)
        /\ server' = Free(Allocated(h, sql), (HandlesOf(cache) \cup {h})
                            \ HandlesOf(IF Capacity = 0 THEN cache ELSE Put(sql, h)))
        /\ starCache' = starCache \cup {Rewrite(sql)}
        /\ Resolved(c, IF Capacity = 0 THEN cache ELSE Put(sql, h))
  BY DEF Described
<1> DEFINE E == IF Capacity = 0 THEN cache ELSE Put(sql, h)
           x == [sql |-> sql, h |-> h]
           table == Allocated(h, sql)
<1>3. pin' = pin /\ schema' = schema
  BY DEF Described
<1>4. server[h].sql = None
  BY <1>2, UnusedIsFree
<1>5. Shape(op[c]) /\ op[c].star /\ sql \in Sqls /\ sql \in Texts(op[c])
  BY <1>1, SessionAssumption DEF IInv, Shapes, Shape, Sqls, Texts
<1>6. Spare(c, h)
  <2>1. None \notin Sqls /\ \A e \in Range(cache) : e.sql \in Sqls
    BY HandleTypes, SessionAssumption DEF IInv
  <2>2. \A e \in Range(cache) : e.h # h
    BY <1>4, <2>1 DEF IInv, Books
  <2>3. \A d \in Callers : Owner(d) => op[d].h # h
    BY <1>4, <2>1 DEF IInv, Books
  <2>4. \A p \in Pins : Pinned(p) => pin[p].h # h
    BY <1>4, <2>1 DEF IInv, Books, Objects
  <2> QED
    BY <2>2, <2>3, <2>4 DEF Spare
<1>7. cache \in Seq(Entry) /\ Apart(cache) /\ Len(cache) <= Capacity /\ Capacity \in Nat
  BY SessionAssumption DEF IInv, TypeOK, Kept, Entry
<1>8. ASSUME Capacity # 0
      PROVE  /\ E = Put(sql, h) /\ E \in Seq(Entry) /\ Apart(E) /\ Len(E) <= Capacity
             /\ Range(E) \subseteq {e \in Range(cache) : e.sql # sql} \cup {x}
             /\ Cardinality({e.sql : e \in Range(cache)} \cup {sql}) <= Capacity
                    => Range(E) = {e \in Range(cache) : e.sql # sql} \cup {x}
  <2>1. \A e \in Range(cache) : e.h = h => e.sql = sql
    BY <1>6 DEF Spare
  <2>2. Capacity > 0
    BY <1>7, <1>8
  <2> QED
    BY <1>5, <1>7, <1>8, <2>1, <2>2, PutEntries
<1>9. /\ E \in Seq(Entry) /\ Apart(E) /\ Len(E) <= Capacity
      /\ \A e \in Range(E) : e \in Range(cache) \/ e = x
  BY <1>7, <1>8
<1>10. \A d \in Callers : d # c /\ Lent(d) => [sql |-> op[d].sql, h |-> op[d].h] \in Range(E)
  <2> SUFFICES ASSUME NEW d \in Callers, d # c, Lent(d)
               PROVE  [sql |-> op[d].sql, h |-> op[d].h] \in Range(E)
    OBVIOUS
  <2>1. /\ [sql |-> op[d].sql, h |-> op[d].h] \in {e \in Range(cache) : e.sql # sql}
        /\ Cardinality({e.sql : e \in Range(cache)} \cup {sql}) <= Capacity
    BY <1>1, <1>5, PutKeepsLent DEF IInv
  <2> QED
    BY <1>8, <2>1
<1>11. /\ table \in [Handles -> Statement] /\ table[h].sql = sql /\ table[h].schema = schema
       /\ \A g \in Handles : g # h => table[g] = server[g]
  BY <1>5, AllocatedTable DEF IInv
<1>12. Resolved(c, E) /\ server' = Free(table, ({h} \cup HandlesOf(cache)) \ HandlesOf(E))
  <2>1. HandlesOf(cache) \cup {h} = {h} \cup HandlesOf(cache)
    OBVIOUS
  <2> QED
    BY <1>2, <2>1
<1> HIDE DEF E, table, sql
<1>13. /\ Line' /\ Typed /\ Turn(c) /\ Busy(c)' /\ ~Owner(c)' /\ ~Owner(c) /\ op[c].kind # "pinned"
       /\ Shape(op'[c]) /\ Milder(op'[c], op[c])
       /\ Lent(c)' => [sql |-> op'[c].sql, h |-> op'[c].h] \in Range(E)
       /\ cache' \in Seq(Entry) /\ Apart(cache') /\ Len(cache') = Len(E) /\ Range(cache') = Range(E)
  BY <1>1, <1>5, <1>9, <1>12, ResolvedGoesOn
<1>14. HandlesOf(cache') = HandlesOf(E)
  BY <1>13 DEF HandlesOf
<1>15. server' = Free(table, ({h} \cup HandlesOf(cache)) \ HandlesOf(cache'))
  BY <1>12, <1>14
<1>16. /\ starCache' \in SUBSET [sql : Sqls, schema : 0..MaxSchema]
       /\ \A e \in starCache' : e.schema = schema'
  BY <1>2, <1>3, <1>5, RewriteKept DEF IInv, sql
<1>17. \A e \in Range(cache') : e \in Range(cache) \/ (h # NoHandle /\ e.h = h /\ table[h].sql = e.sql)
  <2>1. h # NoHandle
    BY SessionAssumption
  <2> QED
    BY <1>9, <1>11, <1>13, <2>1
<1>18. Kept' /\ Books' /\ Recent'
  <2>1. \A d \in Callers : d # c /\ Lent(d) => [sql |-> op[d].sql, h |-> op[d].h] \in Range(cache')
    BY <1>10, <1>13
  <2>2. {h} \subseteq {h} \cup HandlesOf(cache) /\ h \in {h}
    OBVIOUS
  <2>3. \A g \in Handles : g # h => table[g].sql = server[g].sql /\ table[g].schema = server[g].schema
    BY <1>11
  <2>4. Lent(c)' => [sql |-> op'[c].sql, h |-> op'[c].h] \in Range(cache')
    BY <1>13
  <2>5. TypeOK /\ Objects /\ Kept /\ Books /\ Recent
    BY DEF IInv
  <2>6. schema' = schema /\ (h # NoHandle => table[h].schema = schema)
    BY <1>3, <1>11
  <2> QED
    <3>1. GivesUp(c, h, table, {h})
      BY <1>3, <1>6, <1>13, <1>15, <1>16, <1>17, <2>1, <2>2, <2>3, <2>4, <2>6 DEF GivesUp
    <3> QED
      BY <2>5, <3>1, Settled
<1>19. server' \in [Handles -> Statement]
  BY <1>11, <1>15, Tables
<1>20. {e.sql : e \in Range(cache')} \subseteq {e.sql : e \in Range(cache)} \cup Texts(op[c])
  <2>1. ASSUME NEW e \in Range(cache') PROVE e.sql \in {y.sql : y \in Range(cache)} \cup Texts(op[c])
    <3>1. e \in Range(cache) \/ e.sql = sql
      BY <1>9, <1>13
    <3> QED
      BY <1>5, <3>1
  <2> QED
    BY <2>1
<1>21. Len(cache') <= Capacity
  BY <1>9, <1>13
<1> QED
  BY <1>1, <1>3, <1>13, <1>16, <1>18, <1>19, <1>20, <1>21, Continues

\* A statement is prepared, for an operation or for a PreparedStatement.
LEMMA PreparedStep == ASSUME IInv, NEW c \in Callers, Prepared(c) PROVE IInv'
<1>1. /\ chain # <<>> /\ c = Head(chain) /\ Busy(c) /\ op[c] \in Operations
      /\ op[c].kind \in {"run", "stream", "prepare"} /\ op[c].step = "prepare"
  BY AtHead DEF Prepared, IInv
<1>2. PICK h \in Handles :
        /\ Unused(h) /\ server' = Allocated(h, op[c].sql)
        /\ IF op[c].kind = "prepare"
           THEN pin' = [pin EXCEPT ![op[c].pin] = [h |-> h, sql |-> op[c].sql]] /\ Return(c)
           ELSE Goto(c, [op[c] EXCEPT !.h = h, !.step = "execute"]) /\ pin' = pin
  BY DEF Prepared
<1>3. cache' = cache /\ starCache' = starCache /\ schema' = schema
  BY DEF Prepared
<1>4. /\ Shape(op[c]) /\ op[c].sql \in Sqls /\ op[c].h = NoHandle /\ ~op[c].hit /\ ~op[c].star
      /\ h # NoHandle
  <2>1. Shape(op[c])
    BY <1>1 DEF IInv, Shapes
  <2> QED
    BY <1>1, <2>1, OpFields, SessionAssumption DEF Shape, IInv
<1>5. ~Owner(c) /\ ~Lent(c)
  BY <1>4 DEF Owner, Lent
<1>6. server' \in [Handles -> Statement] /\ server[h].sql = None
  BY <1>2, <1>4, AllocatedTable, UnusedIsFree DEF IInv
<1>7. /\ cache' \in Seq(Entry) /\ Len(cache') <= Capacity
      /\ starCache' \in SUBSET [sql : Sqls, schema : 0..MaxSchema]
  BY <1>3 DEF IInv, TypeOK, Entry
<1>8. CASE op[c].kind # "prepare"
  <2> DEFINE o == [op[c] EXCEPT !.h = h, !.step = "execute"]
  <2>1. /\ o \in Operations /\ o.step = "execute" /\ o.h = h /\ o.kind = op[c].kind /\ o.sql = op[c].sql
        /\ o.pin = op[c].pin /\ o.star = op[c].star /\ o.hit = op[c].hit /\ o.open = op[c].open
    BY <1>1 DEF Operations, Steps
  <2>2. Goto(c, o) /\ pin' = pin
    BY <1>2, <1>8
  <2> HIDE DEF o
  <2>3. Line' /\ Typed /\ Turn(c) /\ op'[c] = o /\ Busy(c)'
    BY <1>1, <2>1, <2>2, Moves DEF IInv
  <2>4. Shape(o) /\ Milder(o, op[c])
    <3>1. Shape(o)
      BY <1>1, <1>4, <1>8, <2>1 DEF Shape
    <3>2. Milder(o, op[c])
      BY <2>1 DEF Milder, Texts, Borrows
    <3> QED
      BY <3>1, <3>2
  <2>5. Owner(c)' /\ ~Lent(c)'
    BY <1>1, <1>4, <1>8, <2>1, <2>3 DEF Owner, Lent
  <2>6. Kept' /\ Books' /\ Recent'
    BY <1>2, <1>3, <1>4, <1>5, <1>6, <2>1, <2>2, <2>3, <2>5, Gains DEF IInv
  <2> QED
    BY <1>1, <1>3, <1>6, <1>7, <1>8, <2>2, <2>3, <2>4, <2>6, Continues
<1>9. CASE op[c].kind = "prepare"
  <2> DEFINE p == op[c].pin
  <2>1. pin' = [pin EXCEPT ![p] = [h |-> h, sql |-> op[c].sql]] /\ Return(c)
    BY <1>2, <1>9
  <2>2. p \in Pins /\ ~Pinned(p)
    BY <1>1, <1>4, <1>9 DEF IInv, Objects, Shape
  <2>3. Line' /\ Typed /\ Turn(c) /\ op'[c] = NoOp
    BY <1>1, <2>1, LeaveLine DEF IInv
  <2>4. ~Busy(c)' /\ ~Owner(c)' /\ ~Lent(c)'
    BY <2>3 DEF Busy, Owner, Lent
  <2>5. Kept' /\ Books' /\ Recent'
    BY <1>2, <1>3, <1>4, <1>5, <1>6, <2>1, <2>2, <2>3, <2>4, Gains DEF IInv
  <2>6. \A d \in Callers : d # c => op'[d] = op[d] /\ (Busy(d)' <=> Busy(d))
    BY <2>3 DEF Turn, Busy
  <2>7. /\ pin'[p] = [h |-> h, sql |-> op[c].sql] /\ pin'[p].h = h /\ pin'[p].sql = op[c].sql
        /\ \A q \in Pins : q # p => pin'[q] = pin[q] /\ (Pinned(q)' <=> Pinned(q))
        /\ pin' \in [Pins -> [h : Handles \cup {NoHandle}, sql : Sqls \cup {None}]]
    BY <1>4, <2>1, <2>2 DEF Pinned, IInv, TypeOK
  <2>8. Bounded' /\ schema' \in 0..MaxSchema
    BY <1>1, <1>3, <2>3, <2>4, BoundedKeeps DEF IInv
  <2>9. TypeOK'
    BY <1>6, <1>7, <2>3, <2>7, <2>8 DEF TypeOK, Typed, Entry, Statement
  <2>10. Shapes'
    BY <2>4, <2>6 DEF IInv, Shapes
  <2>11. Objects'
    <3>1. \A d \in Callers : Busy(d)' /\ op'[d].kind = "pinned" =>
            Busy(d) /\ op'[d] = op[d] /\ pin[op[d].pin] = [h |-> op[d].h, sql |-> op[d].sql] /\ op[d].pin \in Pins
      BY <2>4, <2>6 DEF IInv, Objects, Shapes, Shape
    <3>2. \A d \in Callers : Busy(d)' /\ op'[d].kind = "pinned" => op[d].pin # p
      <4> SUFFICES ASSUME NEW d \in Callers, Busy(d)', op'[d].kind = "pinned", op[d].pin = p PROVE FALSE
        OBVIOUS
      <4>1. pin[p].h = op[d].h /\ Shape(op[d]) /\ op[d].kind = "pinned"
        <5>1. Busy(d) /\ op'[d] = op[d] /\ pin[p] = [h |-> op[d].h, sql |-> op[d].sql]
          BY <3>1
        <5> QED
          BY <5>1 DEF IInv, Shapes
      <4> QED
        BY <2>2, <4>1 DEF Pinned, NoPin, Shape
    <3>3. \A d \in Callers : Busy(d)' /\ op'[d].kind = "prepare" =>
            d # c /\ Busy(d) /\ op'[d] = op[d] /\ op[d].pin # p /\ op[d].pin \in Pins
      BY <1>1, <1>9, <2>4, <2>6 DEF IInv, Objects, Shapes, Shape
    <3>4. \A d \in Callers : Busy(d)' /\ op'[d].kind = "pinned" =>
            pin'[op'[d].pin] = [h |-> op'[d].h, sql |-> op'[d].sql]
      <4> SUFFICES ASSUME NEW d \in Callers, Busy(d)', op'[d].kind = "pinned"
                   PROVE  pin'[op'[d].pin] = [h |-> op'[d].h, sql |-> op'[d].sql]
        OBVIOUS
      <4>1. op'[d] = op[d] /\ op[d].pin # p /\ op[d].pin \in Pins /\ pin[op[d].pin] = [h |-> op[d].h, sql |-> op[d].sql]
        BY <3>1, <3>2
      <4>2. pin'[op[d].pin] = pin[op[d].pin]
        BY <2>7, <4>1
      <4> QED
        BY <4>1, <4>2
    <3>5. \A d \in Callers : Busy(d)' /\ op'[d].kind = "prepare" => pin'[op'[d].pin] = NoPin
      <4> SUFFICES ASSUME NEW d \in Callers, Busy(d)', op'[d].kind = "prepare" PROVE pin'[op'[d].pin] = NoPin
        OBVIOUS
      <4>1. Busy(d) /\ op'[d] = op[d] /\ op[d].pin # p /\ op[d].pin \in Pins
        BY <3>3
      <4>2. pin'[op[d].pin] = pin[op[d].pin] /\ pin[op[d].pin] = NoPin
        BY <2>7, <4>1 DEF IInv, Objects, Pinned
      <4> QED
        BY <4>1, <4>2
    <3>6. \A q \in Pins : Pinned(q)' => pin'[q].h \in Handles /\ pin'[q].sql \in Sqls
      BY <1>4, <2>7 DEF IInv, Objects
    <3>7. \A x, d \in Callers : Busy(x)' /\ op'[x].kind = "prepare" /\ Busy(d)' /\ op'[d].kind = "prepare"
            /\ op'[x].pin = op'[d].pin => x = d
      BY <3>3 DEF IInv, Objects
    <3> QED
      BY <3>4, <3>5, <3>6, <3>7 DEF Objects, Pinned
  <2>12. Calm'
    BY <1>1, <1>3, <2>3, <2>4, CalmKeeps DEF IInv
  <2> QED
    BY <2>3, <2>5, <2>8, <2>9, <2>10, <2>11, <2>12 DEF IInv
<1> QED
  BY <1>8, <1>9

\* Giving up on an operation.
LEMMA Abandons ==
    ASSUME IInv, NEW c \in Callers, chain # <<>>, c = Head(chain), Busy(c), Abandon(c)
    PROVE  /\ Line' /\ Typed /\ Turn(c)
           /\ \/ ~Busy(c)' /\ ~Owner(c)' /\ ~Lent(c)' /\ op[c].kind # "stream"
              \/ ~Busy(c)' /\ ~Owner(c)' /\ ~Lent(c)' /\ op[c].star
              \/ /\ Busy(c)' /\ op[c].kind = "stream" /\ Shape(op'[c]) /\ Milder(op'[c], op[c])
                 /\ op'[c].kind = op[c].kind /\ op'[c].sql = op[c].sql /\ op'[c].pin = op[c].pin
                 /\ op'[c].star = op[c].star /\ op'[c].h = op[c].h /\ op'[c].hit = op[c].hit
<1> DEFINE o == [op[c] EXCEPT !.step = "finish", !.failed = TRUE]
<1>1. op[c] \in Operations /\ Shape(op[c])
  BY OpFields DEF IInv, Shapes
<1>2. /\ o \in Operations /\ o.step = "finish" /\ o.kind = op[c].kind /\ o.sql = op[c].sql /\ o.pin = op[c].pin
      /\ o.star = op[c].star /\ o.h = op[c].h /\ o.hit = op[c].hit /\ o.open = op[c].open
  BY <1>1 DEF Operations, Steps
<1>3. CASE op[c].kind = "stream" /\ ~op[c].star
  <2>1. Requeue(c, o)
    BY <1>3 DEF Abandon
  <2> HIDE DEF o
  <2>2. Line' /\ Typed /\ Turn(c) /\ op'[c] = o /\ Busy(c)'
    BY <1>2, <2>1, Moves DEF IInv, Waiting
  <2>3. Shape(o) /\ Milder(o, op[c])
    BY <1>1, <1>2, <1>3 DEF Shape, Milder, Texts, Borrows
  <2> QED
    BY <1>2, <1>3, <2>2, <2>3
<1>4. CASE ~(op[c].kind = "stream" /\ ~op[c].star)
  <2>1. Return(c)
    BY <1>4 DEF Abandon
  <2>2. Line' /\ Typed /\ Turn(c) /\ op'[c] = NoOp
    BY <2>1, LeaveLine DEF IInv
  <2> QED
    BY <1>4, <2>2 DEF Busy, Owner, Lent
<1> QED
  BY <1>3, <1>4

\* A handle that is lost was nobody's and becomes nobody's.
LEMMA LostOne ==
    ASSUME IInv, NEW how \in Lost, NEW h \in Handles, LosesOne(h, how)
    PROVE  /\ server' \in [Handles -> Statement]
           /\ \A g \in Handles : server[g].sql \in Sqls \/ server'[g].sql \in Sqls =>
                server'[g].sql = server[g].sql /\ server'[g].schema = server[g].schema
           /\ \A g \in Handles : server'[g].cursor => server[g].cursor
<1>1. server[h].sql = None /\ server' = Allocated(h, how)
  BY UnusedIsFree DEF LosesOne
<1>2. None \notin Sqls /\ how \notin Sqls
  BY SessionAssumption
<1>3. how \in Sqls \cup Lost
  OBVIOUS
<1>4. ~server'[h].cursor
  BY <1>1 DEF Allocated, IInv, TypeOK
<1>5. \A g \in Handles : g # h => server'[g] = server[g]
  BY <1>1, <1>3, AllocatedTable DEF IInv
<1>6. server' \in [Handles -> Statement] /\ server'[h].sql = how
  BY <1>1, <1>3, AllocatedTable DEF IInv
<1> QED
  BY <1>1, <1>2, <1>4, <1>5, <1>6

\* An operation that has no statement gives up, and a handle may be lost.
LEMMA GivesUpUnheld ==
    ASSUME IInv, NEW c \in Callers, chain # <<>>, c = Head(chain), Busy(c), Abandon(c) \/ Return(c),
           op[c].kind \in {"run", "stream", "prepare"}, op[c].step \in {"prepare", "star"} \/ op[c].star,
           cache' \in Seq(Entry), Apart(cache'), Len(cache') = Len(cache), Range(cache') = Range(cache),
           starCache' = starCache, pin' = pin, schema' = schema,
           server' = server \/ \E h \in Handles, how \in Lost : LosesOne(h, how)
    PROVE  IInv'
<1>1. /\ server' \in [Handles -> Statement]
      /\ \A h \in Handles : server[h].sql \in Sqls \/ server'[h].sql \in Sqls =>
            server'[h].sql = server[h].sql /\ server'[h].schema = server[h].schema
  <2>1. CASE server' = server
    BY <2>1 DEF IInv, TypeOK, Statement
  <2> QED
    BY <2>1, LostOne
<1>2. op[c].h = NoHandle /\ ~op[c].hit
  BY DEF IInv, Shapes, Shape
<1>3. ~Owner(c)
  BY <1>2 DEF Owner
<1>4. starCache' \in SUBSET [sql : Sqls, schema : 0..MaxSchema] /\ \A e \in starCache' : e.schema = schema
  BY DEF IInv, TypeOK, Recent, PlansFresh
<1>5. /\ Line' /\ Typed /\ Turn(c) /\ ~Owner(c)' /\ ~Lent(c)'
      /\ Busy(c)' => Shape(op'[c]) /\ Milder(op'[c], op[c]) /\ op[c].kind # "pinned"
  <2>1. CASE Abandon(c)
    BY <1>2, <2>1, Abandons DEF Owner, Lent
  <2>2. CASE Return(c)
    <3>1. Line' /\ Typed /\ Turn(c) /\ op'[c] = NoOp
      BY <2>2, LeaveLine DEF IInv
    <3> QED
      BY <3>1 DEF Busy, Owner, Lent
  <2> QED
    BY <2>1, <2>2
<1> QED
  BY <1>1, <1>3, <1>4, <1>5, KeepsNothing

\* A statement cannot be prepared; nothing was the operation's.
LEMMA PrepareFailsStep == ASSUME IInv, NEW c \in Callers, PrepareFails(c) PROVE IInv'
<1>1. /\ chain # <<>> /\ c = Head(chain) /\ Busy(c)
      /\ op[c].kind \in {"run", "stream", "prepare"} /\ op[c].step \in {"prepare", "star"}
  BY AtHead DEF PrepareFails, IInv
<1>2. /\ cache' = cache /\ starCache' = starCache /\ pin' = pin /\ schema' = schema /\ Abandon(c)
      /\ server' = server \/ \E h \in Handles, how \in Lost : LosesOne(h, how)
  BY DEF PrepareFails, Lost
<1>3. cache' \in Seq(Entry) /\ Apart(cache')
  BY <1>2 DEF IInv, TypeOK, Entry, Kept
<1> QED
  BY <1>1, <1>2, <1>3, GivesUpUnheld

\* The transaction of prepare() cannot be committed.
LEMMA CommitFailsStep == ASSUME IInv, NEW c \in Callers, CommitFails(c) PROVE IInv'
<1>1. /\ chain # <<>> /\ c = Head(chain) /\ Busy(c)
      /\ op[c].kind = "prepare" /\ op[c].step = "prepare"
  BY AtHead DEF CommitFails, IInv
<1>2. /\ cache' = cache /\ starCache' = starCache /\ pin' = pin /\ schema' = schema /\ Return(c)
      /\ \E h \in Handles, how \in Lost : LosesOne(h, how)
  BY DEF CommitFails, Lost
<1>3. cache' \in Seq(Entry) /\ Apart(cache')
  BY <1>2 DEF IInv, TypeOK, Entry, Kept
<1> QED
  BY <1>1, <1>2, <1>3, GivesUpUnheld

\* A text cannot be rewritten; a cached statement stays where it is.
LEMMA ExpandFailsStep == ASSUME IInv, NEW c \in Callers, ExpandFails(c) PROVE IInv'
<1>1. /\ chain # <<>> /\ c = Head(chain) /\ Busy(c)
      /\ op[c].kind \in {"run", "stream"} /\ (op[c].step = "star" \/ op[c].star)
  BY AtHead DEF ExpandFails, IInv
<1>2. /\ starCache' = starCache /\ pin' = pin /\ schema' = schema /\ Return(c)
      /\ cache' = cache \/ cache' = Got(cache, op[c].sql)
      /\ server' = server \/ \E h \in Handles, how \in Lost : LosesOne(h, how)
  BY DEF ExpandFails, Lost
<1>3. cache \in Seq(Entry) /\ Apart(cache)
  BY DEF IInv, TypeOK, Entry, Kept
<1>4. op[c].sql \in Sqls
  BY <1>1, OpFields, SessionAssumption DEF IInv, Shapes, Shape, Sqls
<1>5. cache' \in Seq(Entry) /\ Apart(cache') /\ Len(cache') = Len(cache) /\ Range(cache') = Range(cache)
  BY <1>2, <1>3, <1>4, GotEntries
<1> QED
  BY <1>1, <1>2, <1>5, GivesUpUnheld

\* An operation whose statement is not its own ends.
LEMMA Ends ==
    ASSUME IInv, NEW c \in Callers, chain # <<>>, c = Head(chain), Busy(c), ~Owner(c), Return(c),
           cache' = cache, starCache' = starCache, pin' = pin, schema' = schema,
           server' \in [Handles -> Statement],
           \A h \in Handles : server'[h].sql = server[h].sql /\ server'[h].schema = server[h].schema
    PROVE  IInv'
<1>1. Line' /\ Typed /\ Turn(c) /\ op'[c] = NoOp
  BY LeaveLine DEF IInv
<1>2. ~Busy(c)' /\ ~Owner(c)' /\ ~Lent(c)'
  BY <1>1 DEF Busy, Owner, Lent
<1>3. /\ cache' \in Seq(Entry) /\ Apart(cache') /\ starCache' \in SUBSET [sql : Sqls, schema : 0..MaxSchema]
      /\ \A e \in starCache' : e.schema = schema
  BY DEF IInv, TypeOK, Entry, Kept, Recent, PlansFresh
<1> QED
  BY <1>1, <1>2, <1>3, KeepsNothing

\* An operation fails: a run frees the statement that it prepared.
LEMMA Fails ==
    ASSUME IInv, NEW c \in Callers, chain # <<>>, c = Head(chain), Busy(c),
           op[c].kind \in {"run", "stream", "pinned"}, op[c].h # NoHandle, ~op[c].star,
           Abandon(c), server' = DropFresh(c),
           cache' = cache, starCache' = starCache, pin' = pin, schema' = schema
    PROVE  IInv'
<1>1. server \in [Handles -> Statement]
  BY DEF IInv, TypeOK, Statement
<1>2. /\ cache' \in Seq(Entry) /\ Apart(cache') /\ starCache' \in SUBSET [sql : Sqls, schema : 0..MaxSchema]
      /\ \A e \in starCache' : e.schema = schema
  BY DEF IInv, TypeOK, Entry, Kept, Recent, PlansFresh
<1>3. CASE op[c].kind = "run" /\ ~op[c].hit
  <2>1. Owner(c) /\ server' = Free(server, {op[c].h})
    BY <1>3 DEF Owner, DropFresh
  <2>2. Line' /\ Typed /\ Turn(c) /\ ~Busy(c)' /\ ~Owner(c)' /\ ~Lent(c)'
    BY <1>3, Abandons
  <2>3. \A e \in Range(cache) : e.h # op[c].h
    BY <2>1 DEF IInv, Kept
  <2>4. op[c].h \notin HandlesOf(cache)
    BY <2>3 DEF HandlesOf
  <2>5. ({op[c].h} \cup HandlesOf(cache)) \ HandlesOf(cache') = {op[c].h}
    BY <2>4
  <2>6. server' = Free(server, ({op[c].h} \cup HandlesOf(cache)) \ HandlesOf(cache'))
    BY <2>1, <2>5
  <2>7. \A d \in Callers : d # c /\ Lent(d) => [sql |-> op[d].sql, h |-> op[d].h] \in Range(cache')
    BY DEF IInv, Books
  <2>8. {op[c].h} = (IF Owner(c) THEN {op[c].h} ELSE {})
    BY <2>1
  <2>9. Len(cache') <= Len(cache)
    BY <1>2
  <2> QED
    BY <1>1, <1>2, <2>2, <2>6, <2>7, <2>8, <2>9, Drops
<1>4. CASE op[c].kind = "stream"
  <2>1. server' = server
    BY <1>4 DEF DropFresh
  <2>2. /\ Line' /\ Typed /\ Turn(c) /\ Busy(c)' /\ Shape(op'[c])
        /\ op'[c].kind = op[c].kind /\ op'[c].sql = op[c].sql /\ op'[c].pin = op[c].pin
        /\ op'[c].star = op[c].star /\ op'[c].h = op[c].h /\ op'[c].hit = op[c].hit
    BY <1>4, Abandons
  <2> QED
    BY <1>1, <2>1, <2>2, GoesOn
<1>5. CASE op[c].kind = "pinned" \/ (op[c].kind = "run" /\ op[c].hit)
  <2>1. server' = server /\ Return(c) /\ ~Owner(c)
    BY <1>5 DEF DropFresh, Abandon, Owner
  <2> QED
    BY <1>1, <2>1, Ends
<1> QED
  BY <1>3, <1>4, <1>5

\* Where an operation that works with a statement is.
LEMMA InHand ==
    ASSUME IInv, NEW c \in Callers, Busy(c), op[c].step \in {"execute", "fetch", "yield", "more", "finish"},
           op[c].h # NoHandle
    PROVE  /\ Shape(op[c]) /\ ~op[c].star /\ op[c].h \in Handles /\ op[c] \in Operations
           /\ op[c].kind \in {"run", "stream"} => Owner(c) \/ Lent(c)
<1>1. Shape(op[c]) /\ op[c].h \in Handles /\ op[c] \in Operations /\ op[c].hit \in BOOLEAN
  BY OpFields DEF IInv, Shapes
<1> QED
  BY <1>1 DEF Shape, Owner, Lent

\* A statement is executed, and a run of anything but a select is finished.
LEMMA ExecutedStep == ASSUME IInv, NEW c \in Callers, Executed(c) PROVE IInv'
<1>1. /\ chain # <<>> /\ c = Head(chain) /\ Busy(c)
      /\ op[c].kind \in {"run", "stream", "pinned"} /\ op[c].step = "execute"
  BY AtHead DEF Executed, Executing, IInv
<1>2. Shape(op[c]) /\ op[c].h # NoHandle
  BY <1>1 DEF IInv, Shapes, Shape
<1>3. /\ ~op[c].star /\ op[c].h \in Handles /\ op[c] \in Operations
      /\ op[c].kind \in {"run", "stream"} => Owner(c) \/ Lent(c)
  BY <1>1, <1>2, InHand
<1>4. server \in [Handles -> Statement]
  BY DEF IInv, TypeOK, Statement
<1>5. pin' = pin /\ schema' = IF op[c].sql \in Ddls THEN schema + 1 ELSE schema
  BY DEF Executed
<1>6. CASE op[c].sql \in Selects
  <2> DEFINE o == [op[c] EXCEPT !.step = "fetch", !.open = TRUE]
  <2>1. /\ server' = [server EXCEPT ![op[c].h].cursor = TRUE] /\ Goto(c, o)
        /\ cache' = cache /\ starCache' = starCache
    BY <1>6 DEF Executed
  <2>2. /\ o \in Operations /\ o.step = "fetch" /\ o.open = TRUE /\ o.kind = op[c].kind /\ o.sql = op[c].sql
        /\ o.pin = op[c].pin /\ o.star = op[c].star /\ o.h = op[c].h /\ o.hit = op[c].hit
    BY <1>3 DEF Operations, Steps
  <2> HIDE DEF o
  <2>3. Line' /\ Typed /\ Turn(c) /\ op'[c] = o /\ Busy(c)'
    BY <1>1, <2>1, <2>2, Moves DEF IInv
  <2>4. Shape(o)
    BY <1>1, <1>2, <1>3, <2>2 DEF Shape
  <2>5. /\ server' \in [Handles -> Statement]
        /\ \A h \in Handles : server'[h].sql = server[h].sql /\ server'[h].schema = server[h].schema
    BY <1>3, <1>4, <2>1 DEF Statement
  <2>6. schema' = schema
    BY <1>5, <1>6, SessionAssumption
  <2> QED
    BY <1>1, <1>5, <2>1, <2>2, <2>3, <2>4, <2>5, <2>6, GoesOn
<1>7. CASE op[c].sql \notin Selects /\ op[c].kind = "run"
  <2>1. Finish(op[c].sql, op[c].h, server) /\ Return(c)
    BY <1>7 DEF Executed
  <2>2. schema' = schema \/ (schema' = schema + 1 /\ op[c].sql \in Ddls)
    BY <1>5
  <2> QED
    BY <1>1, <1>3, <1>4, <1>5, <1>7, <2>1, <2>2, Finishes
<1>8. CASE op[c].sql \notin Selects /\ op[c].kind = "stream"
  <2> DEFINE o == [op[c] EXCEPT !.step = "yield"]
  <2>1. Yield(c, o) /\ cache' = cache /\ starCache' = starCache /\ server' = server
    BY <1>8 DEF Executed
  <2>2. /\ o \in Operations /\ o.step = "yield" /\ o.kind = op[c].kind /\ o.sql = op[c].sql /\ o.pin = op[c].pin
        /\ o.star = op[c].star /\ o.h = op[c].h /\ o.hit = op[c].hit /\ o.open = op[c].open
    BY <1>3, AtStep DEF Steps
  <2> HIDE DEF o
  <2>3. Line' /\ Typed /\ Turn(c) /\ op'[c] = o /\ Busy(c)'
    BY <1>1, <2>1, <2>2, Moves DEF IInv
  <2>4. Shape(o)
    BY <1>1, <1>2, <1>3, <1>8, <2>2 DEF Shape
  <2>5. schema' = schema
    BY <1>2, <1>5, <1>8 DEF Shape
  <2> QED
    BY <1>1, <1>4, <1>5, <2>1, <2>2, <2>3, <2>4, <2>5, GoesOn
<1>9. CASE op[c].sql \notin Selects /\ op[c].kind = "pinned"
  <2>1. Return(c) /\ cache' = cache /\ starCache' = starCache /\ server' = server
    BY <1>9 DEF Executed
  <2>2. schema' = schema /\ ~Owner(c)
    BY <1>2, <1>5, <1>9 DEF Shape, Owner
  <2> QED
    BY <1>1, <1>4, <1>5, <2>1, <2>2, Ends
<1> QED
  BY <1>1, <1>6, <1>7, <1>8, <1>9

\* A run takes its stale statement out of the cache and has none again.
LEMMA ReplayStep == ASSUME IInv, NEW c \in Callers, Replay(c) PROVE IInv'
<1> DEFINE o == [op[c] EXCEPT !.step = "prepare", !.hit = FALSE, !.h = NoHandle]
           E == Without(cache, op[c].sql)
<1>1. /\ chain # <<>> /\ c = Head(chain) /\ Busy(c) /\ op[c].kind = "run" /\ op[c].hit
      /\ op[c].step = "execute"
  BY AtHead DEF Replay, Executing, IInv
<1>2. Shape(op[c]) /\ op[c].h # NoHandle
  BY <1>1 DEF IInv, Shapes, Shape
<1>3. ~op[c].star /\ op[c] \in Operations
  BY <1>1, <1>2, InHand
<1>4. /\ starCache' = starCache /\ pin' = pin /\ schema' = schema /\ Goto(c, o)
      /\ cache' = E /\ server' = Free(server, ({} \cup HandlesOf(cache)) \ HandlesOf(E))
  BY DEF Replay, SetCache
<1>5. cache \in Seq(Entry) /\ Apart(cache) /\ server \in [Handles -> Statement]
  BY DEF IInv, TypeOK, Kept, Entry, Statement
<1>6. /\ o \in Operations /\ o.step = "prepare" /\ o.h = NoHandle /\ ~o.hit /\ o.kind = op[c].kind
      /\ o.sql = op[c].sql /\ o.pin = op[c].pin /\ o.star = op[c].star /\ o.open = op[c].open
  BY <1>3 DEF Operations, Steps
<1> HIDE DEF o
<1>7. Line' /\ Typed /\ Turn(c) /\ op'[c] = o /\ Busy(c)'
  BY <1>1, <1>4, <1>6, Moves DEF IInv
<1>8. Shape(o) /\ Milder(o, op[c])
  BY <1>1, <1>2, <1>3, <1>6 DEF Shape, Milder, Texts, Borrows
<1>9. ~Owner(c)' /\ ~Lent(c)' /\ ~Owner(c)
  BY <1>1, <1>6, <1>7 DEF Owner, Lent
<1>10. E \in Seq(Entry) /\ Apart(E) /\ Len(E) <= Len(cache) /\ Range(E) = {e \in Range(cache) : e.sql # op[c].sql}
  BY <1>5, WithoutEntries
<1>11. op[c].sql \in Sqls /\ op[c].sql \in Texts(op[c])
  BY <1>1, <1>2, OpFields DEF Shape, Texts, IInv
<1>12. \A d \in Callers : d # c /\ Lent(d) => [sql |-> op[d].sql, h |-> op[d].h] \in Range(E)
  BY <1>1, <1>10, <1>11, PutKeepsLent DEF IInv
<1> HIDE DEF E
<1>13. {} = (IF Owner(c) THEN {op[c].h} ELSE {})
  BY <1>9
<1>14. /\ cache' \in Seq(Entry) /\ Apart(cache') /\ Len(cache') <= Len(cache) /\ Range(cache') \subseteq Range(cache)
       /\ \A d \in Callers : d # c /\ Lent(d) => [sql |-> op[d].sql, h |-> op[d].h] \in Range(cache')
       /\ server' = Free(server, ({} \cup HandlesOf(cache)) \ HandlesOf(cache'))
  BY <1>4, <1>10, <1>12
<1> QED
  BY <1>1, <1>4, <1>5, <1>7, <1>8, <1>9, <1>13, <1>14, Drops

\* A statement that the server refuses.
LEMMA ExecuteFailsStep == ASSUME IInv, NEW c \in Callers, ExecuteFails(c) PROVE IInv'
<1>1. /\ chain # <<>> /\ c = Head(chain) /\ Busy(c)
      /\ op[c].kind \in {"run", "stream", "pinned"} /\ op[c].step = "execute"
  BY AtHead DEF ExecuteFails, Executing, IInv
<1>2. op[c].h # NoHandle /\ ~op[c].star
  BY <1>1 DEF IInv, Shapes, Shape
<1> QED
  BY <1>1, <1>2, Fails DEF ExecuteFails

\* Rows that fail.
LEMMA FetchFailsStep == ASSUME IInv, NEW c \in Callers, FetchFails(c) PROVE IInv'
<1>1. /\ chain # <<>> /\ c = Head(chain) /\ Busy(c)
      /\ op[c].kind \in {"run", "stream", "pinned"} /\ op[c].step \in {"fetch", "more"}
  BY AtHead DEF FetchFails, Fetching, IInv
<1>2. op[c].h # NoHandle /\ ~op[c].star
  BY <1>1 DEF IInv, Shapes, Shape
<1> QED
  BY <1>1, <1>2, Fails DEF FetchFails

\* A run has read its rows.
LEMMA RunFetchedStep == ASSUME IInv, NEW c \in Callers, RunFetched(c) PROVE IInv'
<1>1. chain # <<>> /\ c = Head(chain) /\ Busy(c) /\ op[c].kind = "run" /\ op[c].step = "fetch"
  BY AtHead DEF RunFetched, IInv
<1>2. op[c].h # NoHandle
  BY <1>1 DEF IInv, Shapes, Shape
<1>3. ~op[c].star /\ op[c].h \in Handles /\ (Owner(c) \/ Lent(c))
  BY <1>1, <1>2, InHand
<1>4. server \in [Handles -> Statement]
  BY DEF IInv, TypeOK, Statement
<1>5. /\ Finish(op[c].sql, op[c].h, CloseCursor(server, op[c].h)) /\ Return(c)
      /\ pin' = pin /\ schema' = schema
  BY DEF RunFetched
<1> DEFINE table == CloseCursor(server, op[c].h)
<1>6. /\ table \in [Handles -> Statement]
      /\ \A h \in Handles : table[h].sql = server[h].sql /\ table[h].schema = server[h].schema
  BY <1>3, <1>4, Tables
<1> HIDE DEF table
<1>7. Finish(op[c].sql, op[c].h, table)
  BY <1>5 DEF table
<1> QED
  BY <1>1, <1>3, <1>5, <1>6, <1>7, Finishes

\* A PreparedStatement has read its rows and keeps its statement.
LEMMA PinnedFetchedStep == ASSUME IInv, NEW c \in Callers, PinnedFetched(c) PROVE IInv'
<1>1. chain # <<>> /\ c = Head(chain) /\ Busy(c) /\ op[c].kind = "pinned" /\ op[c].step = "fetch"
  BY AtHead DEF PinnedFetched, IInv
<1>2. op[c].h # NoHandle /\ ~Owner(c)
  BY <1>1 DEF IInv, Shapes, Shape, Owner
<1>3. op[c].h \in Handles /\ server \in [Handles -> Statement]
  BY <1>1, <1>2, InHand DEF IInv, TypeOK, Statement
<1>4. /\ server' = CloseCursor(server, op[c].h) /\ Return(c)
      /\ cache' = cache /\ starCache' = starCache /\ pin' = pin /\ schema' = schema
  BY DEF PinnedFetched
<1>5. /\ server' \in [Handles -> Statement]
      /\ \A h \in Handles : server'[h].sql = server[h].sql /\ server'[h].schema = server[h].schema
  BY <1>3, <1>4, Tables
<1> QED
  BY <1>1, <1>2, <1>4, <1>5, Ends

\* A stream has a batch and gives the op-lock back.
LEMMA StreamFetchedStep == ASSUME IInv, NEW c \in Callers, StreamFetched(c) PROVE IInv'
<1> DEFINE o == [op[c] EXCEPT !.step = "yield"]
<1>1. /\ chain # <<>> /\ c = Head(chain) /\ Busy(c) /\ op[c].kind = "stream"
      /\ op[c].step \in {"fetch", "more"} /\ op[c] \in Operations
  BY AtHead DEF StreamFetched, Fetching, IInv
<1>2. Shape(op[c])
  BY <1>1 DEF IInv, Shapes
<1>3. /\ Yield(c, o) /\ cache' = cache /\ starCache' = starCache /\ pin' = pin /\ server' = server
      /\ schema' = schema
  BY DEF StreamFetched
<1>4. /\ o \in Operations /\ o.step = "yield" /\ o.kind = op[c].kind /\ o.sql = op[c].sql /\ o.pin = op[c].pin
      /\ o.star = op[c].star /\ o.h = op[c].h /\ o.hit = op[c].hit /\ o.open = op[c].open
  BY <1>1, AtStep DEF Steps
<1> HIDE DEF o
<1>5. Line' /\ Typed /\ Turn(c) /\ op'[c] = o /\ Busy(c)'
  BY <1>1, <1>3, <1>4, Moves DEF IInv
<1>6. Shape(o)
  BY <1>1, <1>2, <1>4 DEF Shape
<1>7. server' \in [Handles -> Statement]
  BY <1>3 DEF IInv, TypeOK, Statement
<1> QED
  BY <1>1, <1>3, <1>4, <1>5, <1>6, <1>7, GoesOn

\* A stream queues for the op-lock again.
LEMMA StreamEnters ==
    ASSUME IInv, NEW c \in Callers, Busy(c), op[c].kind = "stream", op[c].step = "yield",
           NEW s \in {"more", "finish"}, Enter(c, [op[c] EXCEPT !.step = s]),
           cache' = cache, starCache' = starCache, pin' = pin, server' = server, schema' = schema
    PROVE  IInv'
<1> DEFINE o == [op[c] EXCEPT !.step = s]
<1>1. Shape(op[c]) /\ op[c] \in Operations
  BY OpFields DEF IInv, Shapes
<1>2. /\ o \in Operations /\ o.step = s /\ o.kind = op[c].kind /\ o.sql = op[c].sql /\ o.pin = op[c].pin
      /\ o.star = op[c].star /\ o.h = op[c].h /\ o.hit = op[c].hit /\ o.open = op[c].open
  <2>1. s \in Steps
    BY DEF Steps
  <2> QED
    BY <1>1, <2>1, AtStep
<1>3. Enter(c, o)
  OBVIOUS
<1> HIDE DEF o
<1>4. Line' /\ Typed /\ Turn(c) /\ op'[c] = o /\ Busy(c)'
  BY <1>2, <1>3, EnterLine DEF IInv, Waiting
<1>5. Shape(o)
  BY <1>1, <1>2 DEF Shape
<1>6. server' \in [Handles -> Statement]
  BY DEF IInv, TypeOK, Statement
<1> QED
  BY <1>2, <1>4, <1>5, <1>6, GoesOn

\* A stream asks for another batch.
LEMMA NextBatchStep == ASSUME IInv, NEW c \in Callers, NextBatch(c) PROVE IInv'
  BY StreamEnters DEF NextBatch

\* A stream is to end.
LEMMA EndStreamStep == ASSUME IInv, NEW c \in Callers, EndStream(c) PROVE IInv'
  BY StreamEnters DEF EndStream

\* A stream ends, and keeps its statement in the cache unless it failed.
LEMMA FinishStreamStep == ASSUME IInv, NEW c \in Callers, FinishStream(c) PROVE IInv'
<1> DEFINE table == IF op[c].open THEN CloseCursor(server, op[c].h) ELSE server
           E == Without(cache, op[c].sql)
<1>1. /\ chain # <<>> /\ c = Head(chain) /\ Busy(c) /\ op[c].kind = "stream" /\ op[c].step = "finish"
      /\ op[c].h # NoHandle
  BY AtHead DEF FinishStream, IInv
<1>2. /\ Shape(op[c]) /\ ~op[c].star /\ op[c].h \in Handles /\ op[c] \in Operations
      /\ Owner(c) \/ Lent(c)
  BY <1>1, InHand
<1>3. cache \in Seq(Entry) /\ Apart(cache) /\ server \in [Handles -> Statement]
  BY DEF IInv, TypeOK, Kept, Entry, Statement
<1>4. /\ table \in [Handles -> Statement]
      /\ \A h \in Handles : table[h].sql = server[h].sql /\ table[h].schema = server[h].schema
  BY <1>2, <1>3, Tables
<1>5. pin' = pin /\ schema' = schema /\ Return(c)
  BY DEF FinishStream
<1>6. CASE op[c].failed
  <2>1. /\ starCache' = starCache /\ cache' = E
        /\ server' = Free(table, ((IF op[c].hit THEN {} ELSE {op[c].h}) \cup HandlesOf(cache)) \ HandlesOf(E))
    BY <1>6 DEF FinishStream, SetCache
  <2>2. (IF op[c].hit THEN {} ELSE {op[c].h}) = (IF Owner(c) THEN {op[c].h} ELSE {})
    BY <1>1 DEF Owner
  <2>3. Line' /\ Typed /\ Turn(c) /\ op'[c] = NoOp
    BY <1>1, <1>5, LeaveLine DEF IInv
  <2>4. ~Busy(c)' /\ ~Owner(c)' /\ ~Lent(c)'
    BY <2>3 DEF Busy, Owner, Lent
  <2>5. E \in Seq(Entry) /\ Apart(E) /\ Len(E) <= Len(cache) /\ Range(E) = {e \in Range(cache) : e.sql # op[c].sql}
    BY <1>3, WithoutEntries
  <2>6. op[c].sql \in Sqls /\ op[c].sql \in Texts(op[c])
    BY <1>1, <1>2, OpFields DEF Shape, Texts, IInv
  <2>7. \A d \in Callers : d # c /\ Lent(d) => [sql |-> op[d].sql, h |-> op[d].h] \in Range(E)
    BY <1>1, <2>5, <2>6, PutKeepsLent DEF IInv
  <2> HIDE DEF E, table
  <2>8. /\ cache' \in Seq(Entry) /\ Apart(cache') /\ Len(cache') <= Len(cache) /\ Range(cache') \subseteq Range(cache)
        /\ \A d \in Callers : d # c /\ Lent(d) => [sql |-> op[d].sql, h |-> op[d].h] \in Range(cache')
        /\ server' = Free(table, ((IF op[c].hit THEN {} ELSE {op[c].h}) \cup HandlesOf(cache)) \ HandlesOf(cache'))
    BY <2>1, <2>5, <2>7
  <2> QED
    BY <1>1, <1>4, <1>5, <2>1, <2>2, <2>3, <2>4, <2>8, Drops
<1>7. CASE ~op[c].failed
  <2>1. Finish(op[c].sql, op[c].h, table)
    BY <1>7 DEF FinishStream
  <2> HIDE DEF table
  <2> QED
    BY <1>1, <1>2, <1>4, <1>5, <2>1, Finishes
<1> QED
  BY <1>6, <1>7

\* A stream that never had a statement ends.
LEMMA FinishNoStatementStep == ASSUME IInv, NEW c \in Callers, FinishNoStatement(c) PROVE IInv'
<1>1. chain # <<>> /\ c = Head(chain) /\ Busy(c) /\ ~Owner(c)
  BY AtHead DEF FinishNoStatement, IInv, Owner
<1>2. server \in [Handles -> Statement]
  BY DEF IInv, TypeOK, Statement
<1> QED
  BY <1>1, <1>2, Ends DEF FinishNoStatement

\* A PreparedStatement's statement is freed.
LEMMA CloseStep == ASSUME IInv, NEW c \in Callers, Close(c) PROVE IInv'
<1>1. chain # <<>> /\ c = Head(chain) /\ Busy(c) /\ op[c].kind = "close"
  BY AtHead DEF Close, IInv
<1>2. Owner(c)
  BY <1>1 DEF IInv, Shapes, Shape, Owner
<1>3. /\ server' = Free(server, {op[c].h}) /\ Return(c) /\ cache' = cache /\ starCache' = starCache
      /\ pin' = pin /\ schema' = schema
  BY DEF Close
<1>4. Line' /\ Typed /\ Turn(c) /\ op'[c] = NoOp
  BY <1>1, <1>3, LeaveLine DEF IInv
<1>5. ~Busy(c)' /\ ~Owner(c)' /\ ~Lent(c)'
  BY <1>4 DEF Busy, Owner, Lent
<1>6. \A e \in Range(cache) : e.h # op[c].h
  BY <1>2 DEF IInv, Kept
<1>7. ({op[c].h} \cup HandlesOf(cache)) \ HandlesOf(cache') = {op[c].h}
  BY <1>3, <1>6 DEF HandlesOf
<1>8. server' = Free(server, ({op[c].h} \cup HandlesOf(cache)) \ HandlesOf(cache'))
  BY <1>3, <1>7
<1>9. /\ cache' \in Seq(Entry) /\ Apart(cache') /\ Len(cache') <= Len(cache)
      /\ Range(cache') \subseteq Range(cache) /\ server \in [Handles -> Statement]
      /\ \A d \in Callers : d # c /\ Lent(d) => [sql |-> op[d].sql, h |-> op[d].h] \in Range(cache')
  BY <1>3 DEF IInv, TypeOK, Entry, Kept, Books, Statement
<1>10. {op[c].h} = (IF Owner(c) THEN {op[c].h} ELSE {})
  BY <1>2
<1> QED
  BY <1>1, <1>3, <1>4, <1>5, <1>8, <1>9, <1>10, Drops

\* The cache is emptied and all of its statements are freed.
LEMMA ClearStep == ASSUME IInv, NEW c \in Callers, Clear(c) PROVE IInv'
<1>1. chain # <<>> /\ c = Head(chain) /\ Busy(c) /\ op[c].kind = "clear"
  BY AtHead DEF Clear, IInv
<1>2. ~Owner(c)
  BY <1>1 DEF Owner
<1>3. /\ cache' = <<>> /\ server' = Free(server, ({} \cup HandlesOf(cache)) \ HandlesOf(cache'))
      /\ Return(c) /\ starCache' = starCache /\ pin' = pin /\ schema' = schema
  BY DEF Clear, SetCache
<1>4. Line' /\ Typed /\ Turn(c) /\ op'[c] = NoOp
  BY <1>1, <1>3, LeaveLine DEF IInv
<1>5. ~Busy(c)' /\ ~Owner(c)' /\ ~Lent(c)'
  BY <1>4 DEF Busy, Owner, Lent
<1>6. ASSUME NEW d \in Callers, d # c, Lent(d) PROVE FALSE
  <2>1. Busy(d) /\ Borrows(op[d])
    BY <1>1, <1>6, OthersAreStreams DEF IInv, Lent
  <2> QED
    BY <1>1, <1>6, <2>1 DEF IInv, Calm, Disturbs
<1>7. /\ cache' \in Seq(Entry) /\ Apart(cache') /\ Len(cache') <= Len(cache)
      /\ Range(cache') \subseteq Range(cache) /\ server \in [Handles -> Statement]
  BY <1>3 DEF IInv, TypeOK, Entry, Statement, Apart, Range
<1>8. {} = (IF Owner(c) THEN {op[c].h} ELSE {})
  BY <1>2
<1> QED
  BY <1>1, <1>3, <1>4, <1>5, <1>6, <1>7, <1>8, Drops

\* The server closes the cursor of a stream whose transaction ends.
LEMMA TransactionEndsStep == ASSUME IInv, NEW c \in Callers, TransactionEnds(c) PROVE IInv'
<1>1. /\ Busy(c) /\ op[c].step = "yield" /\ server' = CloseCursor(server, op[c].h) /\ op' = op /\ chain' = chain
      /\ cache' = cache /\ starCache' = starCache /\ pin' = pin /\ schema' = schema
  BY DEF TransactionEnds
<1>2. op[c].h # NoHandle
  BY <1>1 DEF IInv, Shapes, Shape
<1>3. Shape(op[c]) /\ op[c].h \in Handles
  BY <1>1, <1>2, InHand
<1>4. server \in [Handles -> Statement]
  BY DEF IInv, TypeOK, Statement
<1>5. /\ server' \in [Handles -> Statement]
      /\ \A h \in Handles : server'[h].sql = server[h].sql /\ server'[h].schema = server[h].schema
  BY <1>1, <1>3, <1>4, Tables
<1>6. Line' /\ Typed /\ Turn(c) /\ Busy(c)' /\ op'[c] = op[c]
  BY <1>1 DEF IInv, Line, TypeOK, Typed, Turn, Busy
<1> QED
  BY <1>1, <1>3, <1>5, <1>6, GoesOn

-----------------------------------------------------------------------------
(* The calls. *)

\* What is left to show of a call that disturbs nobody, once the keepers are.
LEMMA Calls1 ==
    ASSUME IInv, "overlap" \notin Events, NEW c \in Callers, NEW o \in Operations, o.step = "queued" \/ o.step = "begin",
           Call(c, o), Shape(o), pin' \in [Pins -> [h : Handles \cup {NoHandle}, sql : Sqls \cup {None}]],
           cache' \in Seq(Entry), Len(cache') = Len(cache), Range(cache') = Range(cache),
           starCache' = starCache, server' = server, schema' = schema,
           Objects', Kept', Books', Recent'
    PROVE  IInv'
<1> USE DEF IInv
<1>1. /\ ~Busy(c) /\ Considerate(o) /\ Enter(c, o)
      /\ o.sql \in Ddls => schema + Cardinality(DdlsRunning) < MaxSchema
  BY DEF Call
<1>2. Line' /\ Typed /\ Turn(c) /\ op'[c] = o /\ Busy(c)'
  BY <1>1, EnterLine DEF Waiting
<1>3. \A d \in Callers : d # c => op'[d] = op[d] /\ (Busy(d)' <=> Busy(d))
  BY <1>2 DEF Turn, Busy
<1>4. TypeOK'
  BY <1>2 DEF TypeOK, Typed, Entry
<1>5. Shapes'
  BY <1>2, <1>3 DEF Shapes
<1>6. Calm'
  BY <1>1, <1>2, CalmCall
<1>7. Bounded'
  <2> DEFINE D == DdlsRunning
             N == {d \in Callers : Busy(d)' /\ op'[d].sql \in Ddls}
  <2>1. N = DdlsRunning'
    BY DEF DdlsRunning
  <2>2. IsFiniteSet(D) /\ Cardinality(D) \in Nat /\ schema \in Nat /\ MaxSchema \in Nat
    BY DdlsCount, SessionAssumption DEF TypeOK
  <2>3. CASE o.sql \in Ddls
    <3>1. N = D \cup {c} /\ c \notin D
      BY <1>1, <1>2, <1>3, <2>3 DEF DdlsRunning
    <3>2. Cardinality(D \cup {c}) = Cardinality(D) + 1
      BY <2>2, <3>1, FS_AddElement
    <3>3. schema + Cardinality(D) < MaxSchema
      BY <1>1, <2>3
    <3> HIDE DEF N, D
    <3>4. schema + Cardinality(N) <= MaxSchema
      BY <2>2, <3>1, <3>2, <3>3
    <3> QED
      BY <2>1, <3>4 DEF Bounded
  <2>4. CASE o.sql \notin Ddls
    <3>1. N = D
      BY <1>1, <1>2, <1>3, <2>4 DEF DdlsRunning
    <3> QED
      BY <2>1, <3>1 DEF Bounded
  <2> QED
    BY <2>3, <2>4
<1> QED
  BY <1>2, <1>4, <1>5, <1>6, <1>7

\* A call that takes no statement over.
LEMMA Starts ==
    ASSUME IInv, "overlap" \notin Events, NEW c \in Callers, NEW o \in Operations, o.step = "queued" \/ o.step = "begin",
           Call(c, o), Shape(o), cache' \in Seq(Entry), Apart(cache'), Len(cache') = Len(cache),
           Range(cache') = Range(cache), starCache' = starCache, pin' = pin, server' = server, schema' = schema,
           o.kind # "close", o.kind \in {"run", "stream"} /\ o.h # NoHandle => o.hit,
           o.kind \in {"run", "stream"} /\ o.hit => [sql |-> o.sql, h |-> o.h] \in Range(cache),
           o.kind = "pinned" => pin[o.pin] = [h |-> o.h, sql |-> o.sql],
           o.kind = "prepare" => pin[o.pin] = NoPin /\ \A d \in Callers : Busy(d) => op[d].pin # o.pin
    PROVE  IInv'
<1> USE DEF IInv
<1>1. ~Busy(c) /\ Enter(c, o)
  BY DEF Call
<1>2. Line' /\ Typed /\ Turn(c) /\ op'[c] = o /\ Busy(c)'
  BY <1>1, EnterLine DEF Waiting
<1>3. \A d \in Callers : d # c => op'[d] = op[d] /\ (Busy(d)' <=> Busy(d))
  BY <1>2 DEF Turn, Busy
<1>4. Objects'
  BY <1>1, <1>2, <1>3 DEF Objects, Pinned
<1>5. \A d \in Callers : Owner(d)' <=> Owner(d)
  BY <1>1, <1>2, <1>3 DEF Owner
<1>6. \A d \in Callers : Owner(d) => op'[d].h = op[d].h /\ op'[d].kind = op[d].kind /\ op'[d].sql = op[d].sql
  BY <1>1, <1>3 DEF Owner
<1>7. \A d \in Callers : Lent(d)' => [sql |-> op'[d].sql, h |-> op'[d].h] \in Range(cache)
  <2>1. \A d \in Callers : d # c /\ Lent(d)' => Lent(d)
    BY <1>3 DEF Lent
  <2> QED
    BY <1>2, <1>3, <2>1 DEF Books, Lent
<1>8. \A e \in starCache' : e.schema = schema
  BY DEF Recent, PlansFresh
<1>9. Kept' /\ Books' /\ Recent'
  BY <1>5, <1>6, <1>7, <1>8, Stays
<1>10. pin' \in [Pins -> [h : Handles \cup {NoHandle}, sql : Sqls \cup {None}]]
  BY DEF TypeOK
<1> QED
  BY <1>4, <1>9, <1>10, Calls1

\* run() takes its place in the line.
LEMMA RunCall ==
    ASSUME IInv, "overlap" \notin Events, NEW c \in Callers, NEW sql \in Sqls, NEW star \in BOOLEAN, Run(c, sql, star)
    PROVE  IInv'
<1> DEFINE o == Operation("run", sql, None, star)
<1>1. /\ o \in Operations /\ o.kind = "run" /\ o.step = "queued" /\ o.sql = sql
      /\ o.star = star /\ o.h = NoHandle /\ ~o.hit /\ ~o.open
  BY DEF Operation, Operations, Kinds, Steps
<1>2. /\ Call(c, o) /\ (star => sql \in DOMAIN Rewritten) /\ cache' = cache /\ starCache' = starCache
      /\ pin' = pin /\ server' = server /\ schema' = schema
  BY DEF Run
<1> HIDE DEF o
<1>3. Shape(o)
  BY <1>1, <1>2, SessionAssumption DEF Shape
<1>4. cache' \in Seq(Entry) /\ Apart(cache')
  BY <1>2 DEF IInv, TypeOK, Kept, Entry
<1> QED
  BY <1>1, <1>2, <1>3, <1>4, Starts

\* A stream looks its text up and takes its place.
LEMMA StreamCall ==
    ASSUME IInv, "overlap" \notin Events, NEW c \in Callers, NEW sql \in Sqls, Stream(c, sql)
    PROVE  IInv'
<1> DEFINE n == Operation("stream", sql, None, FALSE)
           o == Lookup(cache, n)
<1>1. /\ n \in Operations /\ n.kind = "stream" /\ n.step = "queued" /\ n.sql = sql
      /\ n.star = FALSE /\ n.h = NoHandle /\ ~n.hit /\ ~n.open
  BY DEF Operation, Operations, Kinds, Steps
<1>2. cache \in Seq(Entry) /\ Apart(cache)
  BY DEF IInv, TypeOK, Kept, Entry
<1>3. /\ Call(c, o) /\ cache' = Got(cache, sql) /\ starCache' = starCache
      /\ pin' = pin /\ server' = server /\ schema' = schema
  BY DEF Stream
<1> HIDE DEF n
<1>4. /\ o \in Operations /\ o.kind = "stream" /\ o.step = "queued" /\ o.sql = sql /\ o.star = FALSE /\ ~o.open
      /\ \/ o.h = NoHandle /\ ~o.hit
         \/ o.hit /\ o.h \in Handles /\ [sql |-> sql, h |-> o.h] \in Range(cache)
  BY <1>1, <1>2, LookedUp
<1> HIDE DEF o
<1>5. sql \notin Ddls
  BY <1>3, <1>4 DEF Call, Considerate
<1>6. Shape(o)
  BY <1>4, <1>5, SessionAssumption DEF Shape
<1>7. cache' \in Seq(Entry) /\ Apart(cache') /\ Len(cache') = Len(cache) /\ Range(cache') = Range(cache)
  BY <1>2, <1>3, GotEntries
<1> QED
  BY <1>3, <1>4, <1>6, <1>7, Starts

\* A stream whose text is to be rewritten takes its place.
LEMMA StreamStarCall ==
    ASSUME IInv, "overlap" \notin Events, NEW c \in Callers, NEW sql \in Sqls, StreamStar(c, sql)
    PROVE  IInv'
<1> DEFINE o == Operation("stream", sql, None, TRUE)
<1>1. /\ o \in Operations /\ o.kind = "stream" /\ o.step = "queued" /\ o.sql = sql
      /\ o.star = TRUE /\ o.h = NoHandle /\ ~o.hit /\ ~o.open
  BY DEF Operation, Operations, Kinds, Steps
<1>2. /\ Call(c, o) /\ sql \in DOMAIN Rewritten /\ cache' = cache /\ starCache' = starCache
      /\ pin' = pin /\ server' = server /\ schema' = schema
  BY DEF StreamStar
<1> HIDE DEF o
<1>3. sql \notin Ddls
  BY <1>1, <1>2 DEF Call, Considerate
<1>4. Shape(o)
  BY <1>1, <1>2, <1>3, SessionAssumption DEF Shape
<1>5. cache' \in Seq(Entry) /\ Apart(cache')
  BY <1>2 DEF IInv, TypeOK, Kept, Entry
<1> QED
  BY <1>1, <1>2, <1>4, <1>5, Starts

\* prepare() takes its place, for an object that is not open.
LEMMA PrepareCall ==
    ASSUME IInv, "overlap" \notin Events, NEW c \in Callers, NEW sql \in Sqls, NEW p \in Pins, Prepare(c, sql, p)
    PROVE  IInv'
<1> DEFINE o == Operation("prepare", sql, p, FALSE)
<1>1. /\ o \in Operations /\ o.kind = "prepare" /\ o.step = "queued" /\ o.sql = sql /\ o.pin = p
      /\ o.star = FALSE /\ o.h = NoHandle /\ ~o.hit /\ ~o.open
  BY DEF Operation, Operations, Kinds, Steps
<1>2. /\ Call(c, o) /\ pin[p] = NoPin /\ (\A d \in Callers : Busy(d) => op[d].pin # p)
      /\ cache' = cache /\ starCache' = starCache /\ pin' = pin /\ server' = server /\ schema' = schema
  BY DEF Prepare
<1> HIDE DEF o
<1>3. sql \notin Ddls
  BY <1>1, <1>2 DEF Call, Considerate
<1>4. Shape(o)
  BY <1>1, <1>3, SessionAssumption DEF Shape
<1>5. cache' \in Seq(Entry) /\ Apart(cache')
  BY <1>2 DEF IInv, TypeOK, Kept, Entry
<1> QED
  BY <1>1, <1>2, <1>4, <1>5, Starts

\* A PreparedStatement that is open is run.
LEMMA RunPreparedCall ==
    ASSUME IInv, "overlap" \notin Events, NEW c \in Callers, NEW p \in Pins, RunPrepared(c, p)
    PROVE  IInv'
<1>1. PICK first \in {"queued", "begin"} :
        Call(c, [Operation("pinned", pin[p].sql, p, FALSE) EXCEPT !.h = pin[p].h, !.hit = TRUE, !.step = first])
  BY DEF RunPrepared
<1> DEFINE n == Operation("pinned", pin[p].sql, p, FALSE)
           o == [n EXCEPT !.h = pin[p].h, !.hit = TRUE, !.step = first]
<1>2. /\ pin[p] # NoPin /\ cache' = cache /\ starCache' = starCache /\ pin' = pin /\ server' = server
      /\ schema' = schema
  BY DEF RunPrepared
<1>3. /\ Pinned(p) /\ pin[p].h \in Handles /\ pin[p].sql \in Sqls
      /\ pin[p] = [h |-> pin[p].h, sql |-> pin[p].sql]
  BY <1>2 DEF IInv, Objects, TypeOK, Pinned
<1>4. /\ n \in Operations /\ n.kind = "pinned" /\ n.sql = pin[p].sql /\ n.pin = p /\ n.star = FALSE /\ ~n.open
  BY <1>3 DEF Operation, Operations, Kinds, Steps
<1>5. Call(c, o)
  BY <1>1
<1> HIDE DEF n
<1>6. /\ o \in Operations /\ o.kind = "pinned" /\ o.step = first /\ o.sql = pin[p].sql /\ o.pin = p
      /\ o.star = FALSE /\ ~o.open /\ o.h = pin[p].h /\ o.hit
  BY <1>3, <1>4 DEF Operations, Steps
<1> HIDE DEF o
<1>7. pin[p].sql \notin Ddls
  BY <1>5, <1>6 DEF Call, Considerate
<1>8. Shape(o)
  BY <1>3, <1>6, <1>7, SessionAssumption DEF Shape
<1>9. cache' \in Seq(Entry) /\ Apart(cache')
  BY <1>2 DEF IInv, TypeOK, Kept, Entry
<1> QED
  BY <1>2, <1>3, <1>5, <1>6, <1>8, <1>9, Starts

\* clearStatementCache() takes its place.
LEMMA ClearCall ==
    ASSUME IInv, "overlap" \notin Events, NEW c \in Callers, ClearStatementCache(c)
    PROVE  IInv'
<1> DEFINE o == Operation("clear", None, None, FALSE)
<1>1. /\ o \in Operations /\ o.kind = "clear" /\ o.step = "queued" /\ o.sql = None
      /\ o.star = FALSE /\ o.h = NoHandle /\ ~o.hit /\ ~o.open
  BY DEF Operation, Operations, Kinds, Steps
<1>2. /\ Call(c, o) /\ cache' = cache /\ starCache' = starCache
      /\ pin' = pin /\ server' = server /\ schema' = schema
  BY DEF ClearStatementCache
<1> HIDE DEF o
<1>3. Shape(o)
  BY <1>1, SessionAssumption DEF Shape, Sqls
<1>4. cache' \in Seq(Entry) /\ Apart(cache')
  BY <1>2 DEF IInv, TypeOK, Kept, Entry
<1> QED
  BY <1>1, <1>2, <1>3, <1>4, Starts

\* close() takes the statement from the PreparedStatement that is closed.
LEMMA CloseCall ==
    ASSUME IInv, "overlap" \notin Events, NEW c \in Callers, NEW p \in Pins, ClosePrepared(c, p)
    PROVE  IInv'
<1> DEFINE n == Operation("close", None, p, FALSE)
           o == [n EXCEPT !.h = pin[p].h]
<1>1. /\ pin[p] # NoPin /\ pin' = [pin EXCEPT ![p] = NoPin] /\ Call(c, o)
      /\ cache' = cache /\ starCache' = starCache /\ server' = server /\ schema' = schema
  BY DEF ClosePrepared
<1>2. Pinned(p) /\ pin[p].h \in Handles
  BY <1>1 DEF IInv, Objects, Pinned
<1>3. n \in Operations /\ n.kind = "close" /\ n.step = "queued" /\ n.sql = None /\ n.pin = p /\ n.star = FALSE
      /\ ~n.hit /\ ~n.open
  BY DEF Operation, Operations, Kinds, Steps
<1> HIDE DEF n
<1>4. o \in Operations /\ o.kind = "close" /\ o.step = "queued" /\ o.sql = None /\ o.pin = p /\ o.star = FALSE
      /\ ~o.hit /\ ~o.open /\ o.h = pin[p].h
  BY <1>2, <1>3 DEF Operations
<1> HIDE DEF o
<1>5. ~Busy(c) /\ Considerate(o) /\ Enter(c, o)
  BY <1>1 DEF Call
<1>6. Line' /\ Typed /\ Turn(c) /\ op'[c] = o /\ Busy(c)'
  BY <1>4, <1>5, EnterLine DEF IInv, Waiting
<1>7. \A d \in Callers : d # c => op'[d] = op[d] /\ (Busy(d)' <=> Busy(d))
  BY <1>6 DEF Turn, Busy
<1>8. \A d \in Callers : Busy(d) /\ op[d].kind = "pinned" => op[d].pin # p
  BY <1>4, <1>5 DEF Considerate, Disturbs
<1>9. /\ pin' \in [Pins -> [h : Handles \cup {NoHandle}, sql : Sqls \cup {None}]] /\ ~Pinned(p)'
      /\ \A q \in Pins : q # p => pin'[q] = pin[q] /\ (Pinned(q)' <=> Pinned(q))
  BY <1>1 DEF IInv, TypeOK, NoPin, Pinned
<1>10. Objects'
  <2>1. \A d \in Callers : Busy(d)' /\ op'[d].kind \in {"pinned", "prepare"} =>
            d # c /\ Busy(d) /\ op'[d] = op[d] /\ op[d].pin \in Pins
    BY <1>4, <1>6, <1>7 DEF IInv, Shapes, Shape
  <2>2. \A d \in Callers : Busy(d)' /\ op'[d].kind = "pinned" => op[d].pin # p
    BY <1>8, <2>1
  <2> QED
    BY <1>9, <2>1, <2>2 DEF IInv, Objects
<1>11. Kept' /\ Books' /\ Recent'
  <2>1. ~Owner(c)
    BY <1>5 DEF Owner
  <2> QED
    BY <1>1, <1>2, <1>4, <1>6, <2>1, HandsOver DEF IInv
<1>12. Shape(o)
  BY <1>2, <1>4, SessionAssumption DEF Shape, Sqls
<1>13. cache' \in Seq(Entry)
  BY <1>1 DEF IInv, TypeOK, Entry
<1> QED
  BY <1>1, <1>4, <1>9, <1>10, <1>11, <1>12, <1>13, Calls1
-----------------------------------------------------------------------------
(* The inductive invariant, and what it gives. *)

\* At first nothing is prepared and nobody works.
LEMMA InitInv == Init => IInv
<1> SUFFICES ASSUME Init PROVE IInv
  OBVIOUS
<1> USE DEF Init
<1>1. \A c \in Callers : ~Busy(c)
  BY DEF Busy
<1>2. \A p \in Pins : ~Pinned(p)
  BY DEF Pinned
<1>3. Capacity \in Nat /\ MaxSchema \in Nat /\ None \notin Sqls
  BY SessionAssumption
<1>4. TypeOK
  BY <1>3 DEF TypeOK, NoPin, NoStmt
<1>5. Line
  BY <1>1 DEF Line, IsInjective, Range
<1>6. Shapes /\ Objects /\ Calm
  BY <1>1, <1>2 DEF Shapes, Objects, Calm
<1>7. Kept /\ Books /\ Recent
  BY <1>1, <1>2, <1>3 DEF Kept, Books, Recent, PlansFresh, Apart, Range, Owner, Lent, NoStmt
<1>8. Bounded
  <2>1. DdlsRunning = {}
    BY <1>1 DEF DdlsRunning
  <2> QED
    BY <1>3, <2>1, FS_EmptySet DEF Bounded
<1> QED
  BY <1>4, <1>5, <1>6, <1>7, <1>8 DEF IInv

\* Nothing changes when nothing happens.
LEMMA StutterInv == ASSUME IInv, UNCHANGED vars PROVE IInv'
<1> USE DEF vars, IInv
<1>1. TypeOK' /\ Line' /\ Shapes' /\ Objects'
  BY DEF TypeOK, Line, Shapes, Objects, Busy, Pinned
<1>2. Kept' /\ Books' /\ Recent'
  BY DEF Kept, Books, Recent, PlansFresh, HandlesOf, Busy, Owner, Lent, Pinned
<1>3. Calm'
  BY DEF Calm, Busy, Room, AtWork
<1>4. Bounded'
  BY DEF Bounded, DdlsRunning, Busy
<1> QED
  BY <1>1, <1>2, <1>3, <1>4

\* Every step keeps the invariant, if callers are considerate.
LEMMA NextInv == ASSUME IInv, "overlap" \notin Events, Next PROVE IInv'
<1>1. PICK c \in Callers : Calls(c) \/ Job(c) \/ NextBatch(c) \/ EndStream(c) \/ TransactionEnds(c)
  BY DEF Next
<1>2. CASE Calls(c)
  BY <1>2, RunCall, StreamCall, StreamStarCall, PrepareCall, RunPreparedCall, CloseCall, ClearCall DEF Calls
<1>3. CASE Job(c)
  BY <1>3, ExpandKnownStep, ExpandStep, BeginStep, OwnStartedStep, DescribedStep, PreparedStep,
     ExpandFailsStep, CommitFailsStep, PrepareFailsStep, ExecutedStep, ReplayStep, ExecuteFailsStep, RunFetchedStep, PinnedFetchedStep,
     StreamFetchedStep, FetchFailsStep, FinishStreamStep, FinishNoStatementStep, CloseStep, ClearStep DEF Job
<1>4. CASE NextBatch(c) \/ EndStream(c) \/ TransactionEnds(c)
  BY <1>4, NextBatchStep, EndStreamStep, TransactionEndsStep
<1> QED
  BY <1>1, <1>2, <1>3, <1>4

\* The inductive invariant holds of a session whose callers are considerate.
THEOREM SessionInvariant == "overlap" \notin Events => (Spec => []IInv)
<1> SUFFICES ASSUME "overlap" \notin Events PROVE Spec => []IInv
  OBVIOUS
<1>1. IInv /\ [Next]_vars => IInv'
  BY NextInv, StutterInv
<1> QED
  BY InitInv, <1>1, PTL DEF Spec

\* Every statement prepared is kept by the cache, an operation or a PreparedStatement, and
\* whoever works with one works with the statement prepared for its text.
LEMMA InvHandlesExact == IInv => HandlesExact
<1> SUFFICES ASSUME IInv PROVE HandlesExact
  OBVIOUS
<1> USE DEF IInv
<1>1. ASSUME NEW c \in Callers, Busy(c), op[c].h # NoHandle, op[c].kind # "close"
      PROVE  server[op[c].h].sql = op[c].sql
  <2>1. Shape(op[c]) /\ op[c].kind \in Kinds /\ op[c].hit \in BOOLEAN
    BY <1>1, OpFields DEF Shapes
  <2>2. CASE op[c].kind = "pinned"
    <3>1. pin[op[c].pin] = [h |-> op[c].h, sql |-> op[c].sql] /\ op[c].pin \in Pins
      BY <1>1, <2>1, <2>2 DEF Objects, Shape
    <3>2. pin[op[c].pin].h = op[c].h /\ pin[op[c].pin].sql = op[c].sql
      BY <3>1
    <3>3. Pinned(op[c].pin)
      BY <1>1, <3>2 DEF Pinned, NoPin
    <3> QED
      BY <3>1, <3>2, <3>3 DEF Books
  <2>3. CASE op[c].kind \in {"run", "stream"} /\ ~op[c].hit
    BY <1>1, <2>3 DEF Books, Owner
  <2>4. CASE op[c].kind \in {"run", "stream"} /\ op[c].hit
    <3>1. PICK e \in Range(cache) : e = [sql |-> op[c].sql, h |-> op[c].h]
      BY <1>1, <2>4 DEF Books, Lent
    <3>2. e.h = op[c].h /\ e.sql = op[c].sql
      BY <3>1
    <3> QED
      BY <3>2 DEF Books
  <2> QED
    BY <1>1, <2>1, <2>2, <2>3, <2>4 DEF Shape, Kinds
<1>2. OwnStatement
  BY <1>1 DEF OwnStatement, Books, Pinned
<1>3. NoStatementLeak
  <2> SUFFICES ASSUME NEW h \in Handles, server[h].sql \in Sqls
               PROVE  \/ h \in HandlesOf(cache)
                      \/ \E c \in Callers : Holds(c, h)
                      \/ \E p \in Pins : pin[p] # NoPin /\ pin[p].h = h
    BY DEF NoStatementLeak
  <2>1. \/ h \in HandlesOf(cache)
        \/ \E c \in Callers : Owner(c) /\ op[c].h = h
        \/ \E p \in Pins : Pinned(p) /\ pin[p].h = h
    BY DEF Books
  <2> QED
    BY <2>1 DEF Owner, Holds, Pinned
<1> QED
  BY <1>2, <1>3 DEF HandlesExact

\* A statement at the server and who works with it belong to each other: finishStatement(),
\* put(), replays, failures, streams and PreparedStatements free none too early and none too
\* late, if nobody disturbs the statement of a stream or closes one that is used.
THEOREM StatementsOwned == "overlap" \notin Events => (Spec => []HandlesExact)
  BY SessionInvariant, InvHandlesExact, PTL

\* Neither the cache nor the rewrites of expandStar keep what was described before a DDL
\* statement of this attachment.
THEOREM NoStalePlans == "overlap" \notin Events => (Spec => []PlansFresh)
<1>1. IInv => PlansFresh
  BY DEF IInv, Recent
<1> QED
  BY <1>1, SessionInvariant, PTL
-----------------------------------------------------------------------------
(* The cursors of the statements that the cache keeps. *)

\* A statement has one operation at work with it, which is not a PreparedStatement's.
Lone ==
    \A c \in Callers : Owner(c) \/ Lent(c) =>
        /\ \A d \in Callers : Owner(d) \/ Lent(d) => c = d \/ op[c].h # op[d].h
        /\ \A p \in Pins : Pinned(p) => pin[p].h # op[c].h

\* The entry that an operation works with.
LEMMA LentEntry ==
    ASSUME IInv, NEW c \in Callers, Lent(c)
    PROVE  \E e \in Range(cache) : e.sql = op[c].sql /\ e.h = op[c].h
<1>1. PICK e \in Range(cache) : e = [sql |-> op[c].sql, h |-> op[c].h]
  BY DEF IInv, Books
<1> QED
  BY <1>1

\* Two entries share neither text nor handle.
LEMMA EntriesApart ==
    ASSUME IInv, NEW e \in Range(cache), NEW f \in Range(cache)
    PROVE  e.sql = f.sql \/ e.h = f.h => e = f
<1>1. PICK i \in DOMAIN cache, j \in DOMAIN cache : e = cache[i] /\ f = cache[j]
  BY DEF Range
<1> QED
  BY <1>1 DEF IInv, Kept, Apart

\* Every statement is worked with by one operation at most.
LEMMA OneWorker == IInv => Lone
<1> SUFFICES ASSUME IInv PROVE Lone
  OBVIOUS
<1>1. ASSUME NEW c \in Callers, NEW d \in Callers, c # d, Lent(c), Lent(d), op[c].h = op[d].h PROVE FALSE
  <2>1. op[c].sql = op[d].sql
    <3>1. PICK e \in Range(cache) : e.sql = op[c].sql /\ e.h = op[c].h
      BY <1>1, LentEntry
    <3>2. PICK f \in Range(cache) : f.sql = op[d].sql /\ f.h = op[d].h
      BY <1>1, LentEntry
    <3> QED
      BY <1>1, <3>1, <3>2, EntriesApart
  <2>2. Busy(c) /\ Busy(d) /\ op[c].sql \in Texts(op[c]) /\ op[d].sql \in Texts(op[d])
    BY <1>1 DEF Lent, Texts
  <2>3. ~Borrows(op[c]) /\ ~Borrows(op[d])
    BY <1>1, <2>1, <2>2 DEF IInv, Calm, Disturbs
  <2>4. \A x \in {c, d} : op[x].step \in {"execute", "fetch"}
    <3> SUFFICES ASSUME NEW x \in {c, d} PROVE op[x].step \in {"execute", "fetch"}
      OBVIOUS
    <3>1. Busy(x) /\ op[x].kind = "run" /\ op[x].hit
      BY <1>1, <2>3 DEF Lent, Borrows
    <3>2. Shape(op[x]) /\ op[x].step \in Steps
      BY <3>1, OpFields DEF IInv, Shapes
    <3> QED
      BY <3>1, <3>2 DEF Shape, Steps
  <2> QED
    BY <1>1, <2>2, <2>4 DEF IInv, Line
<1>2. ASSUME NEW c \in Callers, Lent(c), NEW d \in Callers, Owner(d) PROVE op[c].h # op[d].h
  BY <1>2, LentEntry DEF IInv, Kept
<1>3. ASSUME NEW c \in Callers, Owner(c), NEW d \in Callers, Owner(d), c # d PROVE op[c].h # op[d].h
  BY <1>3 DEF IInv, Kept
<1>4. ASSUME NEW c \in Callers, Owner(c) \/ Lent(c), NEW p \in Pins, Pinned(p) PROVE pin[p].h # op[c].h
  BY <1>4, LentEntry DEF IInv, Kept
<1> QED
  BY <1>1, <1>2, <1>3, <1>4 DEF Lone

\* No text that the running job is to use has its cursor open, but for the job itself.
LEMMA ClosedToOthers ==
    ASSUME IInv, Cursors, NEW c \in Callers, chain # <<>>, c = Head(chain), Busy(c),
           NEW e \in Range(cache), server[e.h].cursor, e.sql \in Texts(op[c])
    PROVE  Lent(c) /\ op[c].h = e.h
<1>1. PICK d \in Callers : Lent(d) /\ op[d].h = e.h
  BY DEF Cursors
<1>2. op[d].sql = e.sql /\ op[d].sql \in Texts(op[d]) /\ Busy(d)
  BY <1>1, LentEntry, EntriesApart DEF Texts, Lent
<1>3. d # c => Borrows(op[d]) /\ ~Disturbs(op[d], op[c])
  BY <1>1, <1>2, OthersAreStreams DEF IInv, Calm
<1> QED
  BY <1>1, <1>2, <1>3 DEF Disturbs

\* Only c moves: what has to be seen of it and of the entries for Cursors to hold again.
LEMMA CursorsKeep ==
    ASSUME IInv, IInv', Cursors, NEW c \in Callers, Turn(c),
           \A h \in Handles : server'[h].cursor =>
                \/ server[h].cursor
                \/ (Owner(c)' \/ Lent(c)') /\ op'[c].h = h
                \/ \E p \in Pins : Pinned(p)' /\ pin'[p].h = h,
           (Owner(c)' \/ Lent(c)') /\ op'[c].kind # "close" /\ server'[op'[c].h].cursor => op'[c].open,
           \A e \in Range(cache') : server'[e.h].cursor =>
                \/ Lent(c)' /\ op'[c].h = e.h
                \/ e \in Range(cache) /\ server[e.h].cursor /\ ~(Lent(c) /\ op[c].h = e.h)
    PROVE  Cursors'
<1>1. (IInv => Lone)'
  BY OneWorker, PTL
<1>2. \A d \in Callers : d # c =>
        op'[d] = op[d] /\ (Owner(d)' <=> Owner(d)) /\ (Lent(d)' <=> Lent(d))
  BY DEF Turn, Owner, Lent, Busy
<1>3. ASSUME NEW d \in Callers, Owner(d)' \/ Lent(d)', op'[d].kind # "close", server'[op'[d].h].cursor
      PROVE  op'[d].open
  <2>1. CASE d = c
    BY <1>3, <2>1
  <2>2. CASE d # c
    <3>1. op'[d] = op[d] /\ (Owner(d) \/ Lent(d)) /\ op[d].h \in Handles
      BY <1>2, <1>3, <2>2, HandleTypes DEF IInv
    <3>2. ~((Owner(c)' \/ Lent(c)') /\ op'[c].h = op[d].h)
      BY <1>1, <1>3, <2>2, <3>1 DEF Lone
    <3>3. ~\E p \in Pins : Pinned(p)' /\ pin'[p].h = op[d].h
      BY <1>1, <1>3, <3>1 DEF Lone
    <3>4. server[op[d].h].cursor
      BY <1>3, <3>1, <3>2, <3>3
    <3> QED
      BY <1>3, <3>1, <3>4 DEF Cursors
  <2> QED
    BY <2>1, <2>2
<1>4. ASSUME NEW e \in Range(cache'), server'[e.h].cursor
      PROVE  \E d \in Callers : Lent(d)' /\ op'[d].h = e.h
  <2>1. CASE Lent(c)' /\ op'[c].h = e.h
    BY <2>1
  <2>2. CASE e \in Range(cache) /\ server[e.h].cursor /\ ~(Lent(c) /\ op[c].h = e.h)
    <3>1. PICK d \in Callers : Lent(d) /\ op[d].h = e.h
      BY <2>2 DEF Cursors
    <3> QED
      BY <1>2, <2>2, <3>1
  <2> QED
    BY <1>4, <2>1, <2>2
<1> QED
  BY <1>3, <1>4 DEF Cursors

\* An operation goes on with what it had.
LEMMA CursorsGoOn ==
    ASSUME IInv, IInv', Cursors, NEW c \in Callers, Busy(c), Turn(c), Busy(c)',
           op'[c].kind = op[c].kind, op'[c].h = op[c].h, op'[c].hit = op[c].hit,
           op[c].open => op'[c].open, Range(cache') = Range(cache),
           \A h \in Handles : server'[h].cursor => server[h].cursor
    PROVE  Cursors'
<1>1. (Owner(c)' <=> Owner(c)) /\ (Lent(c)' <=> Lent(c))
  BY DEF Owner, Lent
<1>2. (Owner(c) \/ Lent(c)) /\ op[c].kind # "close" /\ server'[op[c].h].cursor => op'[c].open
  BY HandleTypes DEF Cursors, IInv
<1>3. \A e \in Range(cache') : server'[e.h].cursor => server[e.h].cursor
  BY HandleTypes DEF IInv
<1> QED
  BY <1>1, <1>2, <1>3, CursorsKeep

\* It ends, or has nothing any more.
LEMMA CursorsLeave ==
    ASSUME IInv, IInv', Cursors, NEW c \in Callers, Turn(c), ~Owner(c)', ~Lent(c)',
           \A h \in Handles : server'[h].cursor => server[h].cursor,
           \A e \in Range(cache') : server'[e.h].cursor => e \in Range(cache) /\ ~(Lent(c) /\ op[c].h = e.h)
    PROVE  Cursors'
<1>1. \A e \in Range(cache') : server'[e.h].cursor => server[e.h].cursor
  BY HandleTypes DEF IInv
<1> QED
  BY <1>1, CursorsKeep

\* Freeing statements opens no cursor.
LEMMA FreeCursors ==
    ASSUME NEW table, NEW hs, NEW h \in Handles, Free(table, hs)[h].cursor
    PROVE  table[h].cursor
  BY DEF Free, NoStmt

\* finishStatement() keeps a statement whose cursor is closed.
LEMMA CursorsFinish ==
    ASSUME IInv, IInv', Cursors, NEW c \in Callers, chain # <<>>, c = Head(chain), Busy(c), op[c].h \in Handles,
           Return(c), NEW table, Finish(op[c].sql, op[c].h, table), ~table[op[c].h].cursor,
           \A h \in Handles : table[h].cursor => server[h].cursor
    PROVE  Cursors'
<1>1. Turn(c) /\ ~Owner(c)' /\ ~Lent(c)'
  <2>1. Turn(c) /\ op'[c] = NoOp
    BY LeaveLine DEF IInv
  <2> QED
    BY <2>1 DEF Owner, Lent, Busy
<1>2. /\ server' = Free(table, ({op[c].h} \cup HandlesOf(cache)) \ HandlesOf(cache'))
      /\ cache' = IF op[c].sql \in Ddls THEN <<>> ELSE IF Capacity = 0 THEN cache ELSE Put(op[c].sql, op[c].h)
  BY DEF Finish, SetCache
<1>3. \A h \in Handles : server'[h].cursor => table[h].cursor
  BY <1>2, FreeCursors
<1>4. \A e \in Range(cache') : e \in Range(cache) \/ e.h = op[c].h
  <2>1. CASE op[c].sql \in Ddls
    BY <1>2, <2>1 DEF Range
  <2>2. CASE op[c].sql \notin Ddls /\ Capacity = 0
    BY <1>2, <2>2
  <2>3. CASE op[c].sql \notin Ddls /\ Capacity # 0
    <3>1. cache' = Put(op[c].sql, op[c].h)
      BY <1>2, <2>3
    <3>2. cache \in Seq(Entry) /\ Apart(cache) /\ Len(cache) <= Capacity /\ Capacity \in Nat /\ Capacity > 0
      BY <2>3, SessionAssumption DEF IInv, TypeOK, Kept, Entry
    <3> DEFINE W == Without(cache, op[c].sql)
               x == [sql |-> op[c].sql, h |-> op[c].h]
               A == Append(W, x)
    <3>3. W \in Seq(Entry) /\ Len(W) <= Len(cache) /\ \A e \in Range(W) : e \in Range(cache)
      BY <3>2, WithoutEntries
    <3>4. cache' = IF Len(A) > Capacity THEN Youngest(A) ELSE A
      BY <3>1 DEF Put
    <3>5. x.h = op[c].h
      OBVIOUS
    <3> HIDE DEF W, x
    <3>6. /\ Len(A) = Len(W) + 1 /\ DOMAIN A = 1..(Len(W) + 1) /\ A[Len(W) + 1] = x /\ DOMAIN W = 1..Len(W)
          /\ \A i \in 1..Len(W) : A[i] = W[i]
      BY <3>3
    <3>7. ASSUME NEW i \in DOMAIN A PROVE A[i] \in Range(cache) \/ A[i].h = op[c].h
      <4>1. i \in 1..Len(W) \/ i = Len(W) + 1
        BY <3>3, <3>6
      <4>2. i \in 1..Len(W) => A[i] \in Range(W)
        BY <3>6 DEF Range
      <4> QED
        BY <3>3, <3>5, <3>6, <4>1, <4>2
    <3>8. CASE ~(Len(A) > Capacity)
      BY <3>4, <3>7, <3>8 DEF Range
    <3>9. CASE Len(A) > Capacity
      <4>1. Len(A) = Capacity + 1
        BY <3>2, <3>3, <3>6, <3>9
      <4>2. cache' = SubSeq(A, 2, Capacity + 1)
        BY <3>2, <3>4, <3>9, <4>1 DEF Youngest
      <4>3. A \in Seq(Entry \cup {x})
        BY <3>3
      <4> HIDE DEF A
      <4>4. Len(cache') = Capacity /\ DOMAIN cache' = 1..Capacity /\ \A j \in 1..Capacity : cache'[j] = A[j + 1]
        <5>1. /\ Len(cache') = Capacity /\ cache' \in Seq(Entry \cup {x})
              /\ \A j \in 1..Capacity : cache'[j] = A[2 + j - 1]
          BY <3>2, <4>1, <4>2, <4>3, SubSeqProperties
        <5>2. \A j \in 1..Capacity : 2 + j - 1 = j + 1
          BY <3>2
        <5> QED
          BY <5>1, <5>2, LenProperties
      <4>5. \A j \in 1..Capacity : j + 1 \in DOMAIN A
        BY <3>2, <4>1, <4>3
      <4> QED
        BY <3>7, <4>4, <4>5 DEF Range
    <3> QED
      BY <3>8, <3>9
  <2> QED
    BY <2>1, <2>2, <2>3
<1>5. \A e \in Range(cache') : server'[e.h].cursor => e.h # op[c].h /\ e.h \in Handles
  BY <1>3, <1>4, HandleTypes DEF IInv
<1> QED
  BY <1>1, <1>3, <1>4, <1>5, CursorsLeave

\* A statement of the cache is taken for a text of the running job's.
LEMMA CursorsTake ==
    ASSUME IInv, IInv', Cursors, NEW c \in Callers, chain # <<>>, c = Head(chain), Busy(c), Turn(c), ~Lent(c),
           ~Owner(c)', Lent(c)' => op'[c].sql \in Texts(op[c]),
           \A h \in Handles : server'[h].cursor => server[h].cursor,
           \A e \in Range(cache') : e \in Range(cache) \/ ~server'[e.h].cursor
    PROVE  Cursors'
<1>1. \A e \in Range(cache') : e.h \in Handles
  BY EntryTypes DEF IInv, TypeOK, Entry
<1>2. ASSUME Lent(c)' PROVE ~server'[op'[c].h].cursor
  <2>1. PICK e \in Range(cache') : e = [sql |-> op'[c].sql, h |-> op'[c].h]
    BY <1>2 DEF IInv, Books
  <2>2. e.sql = op'[c].sql /\ e.h = op'[c].h
    BY <2>1
  <2> SUFFICES ASSUME server'[op'[c].h].cursor PROVE FALSE
    OBVIOUS
  <2>3. e \in Range(cache) /\ server[e.h].cursor /\ e.sql \in Texts(op[c])
    BY <1>1, <1>2, <2>2
  <2> QED
    BY <2>3, ClosedToOthers
<1>3. \A e \in Range(cache') : server'[e.h].cursor => e \in Range(cache) /\ server[e.h].cursor
  BY <1>1
<1> QED
  BY <1>2, <1>3, CursorsKeep

\* A call that takes no statement of the cache.
LEMMA StartedCursors ==
    ASSUME IInv, IInv', Cursors, NEW c \in Callers, NEW o \in Operations, Enter(c, o), ~Busy(c),
           cache' = cache, server' = server, o.kind = "close" \/ o.h = NoHandle \/ o.kind = "pinned"
    PROVE  Cursors'
<1>1. op'[c] = o /\ Turn(c)
  BY DEF Enter, IInv, TypeOK, Turn
<1>2. ~Lent(c) /\ ~Lent(c)' /\ (Owner(c)' => o.kind = "close")
  <2>1. o.kind # "close" /\ Owner(c)' => o.h # NoHandle /\ o.kind # "pinned"
    BY <1>1 DEF Owner
  <2>2. Lent(c)' => o.h # NoHandle /\ o.kind \in {"run", "stream"}
    BY <1>1 DEF Lent, IInv, Shapes, Shape
  <2> QED
    BY <2>1, <2>2 DEF Lent
<1> QED
  BY <1>1, <1>2, CursorsKeep

\* A stream finds its text in the cache: nobody else is reading from the statement.
LEMMA StreamCallCursors ==
    ASSUME IInv, IInv', Cursors, "overlap" \notin Events, NEW c \in Callers, NEW sql \in Sqls, Stream(c, sql)
    PROVE  Cursors'
<1> DEFINE n == Operation("stream", sql, None, FALSE)
           o == Lookup(cache, n)
<1>1. /\ n \in Operations /\ n.kind = "stream" /\ n.step = "queued" /\ n.sql = sql
      /\ n.star = FALSE /\ n.h = NoHandle /\ ~n.hit /\ ~n.open
  BY DEF Operation, Operations, Kinds, Steps
<1>2. cache \in Seq(Entry) /\ Apart(cache)
  BY DEF IInv, TypeOK, Kept, Entry
<1>3. Call(c, o) /\ cache' = Got(cache, sql) /\ server' = server
  BY DEF Stream
<1> HIDE DEF n
<1>4. /\ o.kind = "stream" /\ o.sql = sql
      /\ \/ o.h = NoHandle /\ ~o.hit
         \/ o.hit /\ o.h \in Handles /\ [sql |-> sql, h |-> o.h] \in Range(cache)
  BY <1>1, <1>2, LookedUp
<1> HIDE DEF o
<1>5. ~Busy(c) /\ Considerate(o) /\ op'[c] = o /\ Turn(c)
  BY <1>3 DEF Call, Enter, IInv, TypeOK, Turn
<1>6. Range(cache') = Range(cache)
  BY <1>2, <1>3, GotEntries
<1>7. ~Lent(c) /\ ~Owner(c)' /\ (Lent(c)' => o.hit)
  BY <1>4, <1>5 DEF Lent, Owner
<1>8. ASSUME o.hit, server[o.h].cursor PROVE FALSE
  <2>1. PICK e \in Range(cache) : e = [sql |-> sql, h |-> o.h]
    BY <1>4, <1>8, SessionAssumption
  <2>2. e.sql = sql /\ e.h = o.h
    BY <2>1
  <2>3. PICK d \in Callers : Lent(d) /\ op[d].h = o.h
    BY <1>8, <2>2 DEF Cursors
  <2>4. op[d].sql = sql
    BY <2>2, <2>3, LentEntry, EntriesApart
  <2>5. Busy(d) /\ sql \in Texts(op[d]) /\ sql \in Texts(o) /\ Borrows(o)
    BY <1>4, <1>8, <2>3, <2>4 DEF Lent, Texts, Borrows
  <2> QED
    BY <1>5, <2>5 DEF Considerate, Disturbs
<1> QED
  BY <1>3, <1>5, <1>6, <1>7, <1>8, CursorsKeep

\* The calls.
LEMMA CallsCursors ==
    ASSUME IInv, IInv', Cursors, "overlap" \notin Events, NEW c \in Callers, Calls(c)
    PROVE  Cursors'
<1>1. ASSUME NEW sql \in Sqls, NEW star \in BOOLEAN, Run(c, sql, star) PROVE Cursors'
  <2> DEFINE o == Operation("run", sql, None, star)
  <2>1. o \in Operations /\ o.h = NoHandle
    BY DEF Operation, Operations, Kinds, Steps
  <2>2. Enter(c, o) /\ ~Busy(c) /\ cache' = cache /\ server' = server
    BY <1>1 DEF Run, Call
  <2> QED
    BY <2>1, <2>2, StartedCursors
<1>2. ASSUME NEW sql \in Sqls, StreamStar(c, sql) PROVE Cursors'
  <2> DEFINE o == Operation("stream", sql, None, TRUE)
  <2>1. o \in Operations /\ o.h = NoHandle
    BY DEF Operation, Operations, Kinds, Steps
  <2>2. Enter(c, o) /\ ~Busy(c) /\ cache' = cache /\ server' = server
    BY <1>2 DEF StreamStar, Call
  <2> QED
    BY <2>1, <2>2, StartedCursors
<1>3. ASSUME NEW sql \in Sqls, NEW p \in Pins, Prepare(c, sql, p) PROVE Cursors'
  <2> DEFINE o == Operation("prepare", sql, p, FALSE)
  <2>1. o \in Operations /\ o.h = NoHandle
    BY DEF Operation, Operations, Kinds, Steps
  <2>2. Enter(c, o) /\ ~Busy(c) /\ cache' = cache /\ server' = server
    BY <1>3 DEF Prepare, Call
  <2> QED
    BY <2>1, <2>2, StartedCursors
<1>4. ASSUME NEW p \in Pins, RunPrepared(c, p) PROVE Cursors'
  <2>1. PICK first \in {"queued", "begin"} :
          Call(c, [Operation("pinned", pin[p].sql, p, FALSE) EXCEPT !.h = pin[p].h, !.hit = TRUE, !.step = first])
    BY <1>4 DEF RunPrepared
  <2> DEFINE n == Operation("pinned", pin[p].sql, p, FALSE)
             o == [n EXCEPT !.h = pin[p].h, !.hit = TRUE, !.step = first]
  <2>2. pin[p].h \in Handles \cup {NoHandle} /\ pin[p].sql \in Sqls \cup {None}
    BY DEF IInv, TypeOK
  <2>3. n \in Operations /\ n.kind = "pinned"
    BY <2>2 DEF Operation, Operations, Kinds, Steps
  <2>4. Enter(c, o) /\ ~Busy(c) /\ cache' = cache /\ server' = server
    BY <1>4, <2>1 DEF RunPrepared, Call
  <2> HIDE DEF n
  <2>5. o \in Operations /\ o.kind = "pinned"
    BY <2>2, <2>3 DEF Operations, Steps
  <2> HIDE DEF o
  <2> QED
    BY <2>4, <2>5, StartedCursors
<1>5. ASSUME NEW p \in Pins, ClosePrepared(c, p) PROVE Cursors'
  <2> DEFINE n == Operation("close", None, p, FALSE)
             o == [n EXCEPT !.h = pin[p].h]
  <2>1. Enter(c, o) /\ ~Busy(c) /\ cache' = cache /\ server' = server
    BY <1>5 DEF ClosePrepared, Call
  <2>2. pin[p].h \in Handles \cup {NoHandle}
    BY DEF IInv, TypeOK
  <2>3. n \in Operations /\ n.kind = "close"
    BY DEF Operation, Operations, Kinds, Steps
  <2> HIDE DEF n
  <2>4. o \in Operations /\ o.kind = "close"
    BY <2>2, <2>3 DEF Operations
  <2> HIDE DEF o
  <2> QED
    BY <2>1, <2>4, StartedCursors
<1>6. ASSUME ClearStatementCache(c) PROVE Cursors'
  <2> DEFINE o == Operation("clear", None, None, FALSE)
  <2>1. o \in Operations /\ o.h = NoHandle
    BY DEF Operation, Operations, Kinds, Steps
  <2>2. Enter(c, o) /\ ~Busy(c) /\ cache' = cache /\ server' = server
    BY <1>6 DEF ClearStatementCache, Call
  <2> QED
    BY <2>1, <2>2, StartedCursors
<1> QED
  BY <1>1, <1>2, <1>3, <1>4, <1>5, <1>6, StreamCallCursors DEF Calls

\* The steps of a job that only take or leave a text.
LEMMA ResolvedCursors ==
    ASSUME IInv, IInv', Cursors, NEW c \in Callers, chain # <<>>, c = Head(chain), Busy(c), op[c].star,
           NEW E \in Seq(Entry), Apart(E), Resolved(c, E),
           \A h \in Handles : server'[h].cursor => server[h].cursor,
           \A e \in Range(E) : e \in Range(cache) \/ ~server'[e.h].cursor
    PROVE  Cursors'
<1>1. /\ Turn(c) /\ ~Owner(c)' /\ Milder(op'[c], op[c]) /\ Range(cache') = Range(E)
  BY ResolvedGoesOn
<1>2. op'[c].sql \in Texts(op[c])
  BY <1>1 DEF Milder, Texts
<1>3. ~Lent(c)
  BY DEF IInv, Shapes, Shape, Lent
<1> QED
  BY <1>1, <1>2, <1>3, CursorsTake

\* A text is rewritten, or has to be described first.
LEMMA ExpandCursors ==
    ASSUME IInv, IInv', Cursors, NEW c \in Callers, ExpandKnown(c) \/ Expand(c)
    PROVE  Cursors'
<1>1. chain # <<>> /\ c = Head(chain) /\ Busy(c) /\ op[c].star /\ op[c] \in Operations
  BY AtHead DEF ExpandKnown, Expand, IInv
<1>2. cache \in Seq(Entry) /\ Apart(cache) /\ server' = server
  BY DEF ExpandKnown, Expand, IInv, TypeOK, Kept, Entry
<1>3. CASE Resolved(c, cache)
  BY <1>1, <1>2, <1>3, ResolvedCursors
<1>4. CASE Resolved(c, Got(cache, op[c].sql))
  <2> DEFINE E == Got(cache, op[c].sql)
  <2>1. E \in Seq(Entry) /\ Apart(E) /\ Range(E) = Range(cache)
    BY <1>2, GotEntries
  <2>2. Resolved(c, E)
    BY <1>4
  <2> HIDE DEF E
  <2> QED
    BY <1>1, <1>2, <2>1, <2>2, ResolvedCursors
<1>5. CASE Goto(c, [op[c] EXCEPT !.step = "star"]) /\ cache' = cache
  <2> DEFINE o == [op[c] EXCEPT !.step = "star"]
  <2>1. o.kind = op[c].kind /\ o.h = op[c].h /\ o.hit = op[c].hit /\ o.open = op[c].open /\ o \in Operations
    BY <1>1, AtStep DEF Steps
  <2>2. op'[c] = o /\ Turn(c)
    BY <1>5 DEF Goto, Turn, IInv, TypeOK
  <2> HIDE DEF o
  <2>3. Busy(c)'
    BY <2>1, <2>2, OperationsBusy DEF Busy
  <2> QED
    BY <1>1, <1>2, <1>5, <2>1, <2>2, <2>3, CursorsGoOn
<1> QED
  BY <1>3, <1>4, <1>5 DEF ExpandKnown, Expand

\* A run takes the statement that it finds in the cache.
LEMMA BeginCursors ==
    ASSUME IInv, IInv', Cursors, NEW c \in Callers, Begin(c)
    PROVE  Cursors'
<1> DEFINE held == IF op[c].kind = "run" THEN Lookup(cache, op[c]) ELSE op[c]
           s == IF held.h = NoHandle THEN "prepare" ELSE "execute"
           o == [held EXCEPT !.step = s]
<1>1. /\ chain # <<>> /\ c = Head(chain) /\ Busy(c) /\ op[c] \in Operations /\ op[c].step = "queued"
  BY AtHead DEF Begin, IInv
<1>2. cache \in Seq(Entry) /\ Apart(cache) /\ Shape(op[c])
  BY <1>1 DEF IInv, TypeOK, Kept, Entry, Shapes
<1>3. /\ server' = server /\ Goto(c, o) /\ cache' = IF op[c].kind = "run" THEN Got(cache, op[c].sql) ELSE cache
  BY DEF Begin
<1>4. /\ held \in Operations /\ held.kind = op[c].kind /\ held.sql = op[c].sql /\ held.open = op[c].open
      /\ op[c].kind = "run" => (held.h = NoHandle /\ ~held.hit) \/ held.hit
      /\ op[c].kind # "run" => held = op[c]
  BY <1>1, <1>2, LookedUp DEF Shape
<1> HIDE DEF held
<1>5. s \in Steps
  BY DEF Steps
<1> HIDE DEF s
<1>6. /\ o \in Operations /\ o.kind = held.kind /\ o.sql = held.sql
      /\ o.h = held.h /\ o.hit = held.hit /\ o.open = held.open
  BY <1>4, <1>5, AtStep
<1> HIDE DEF o
<1>7. op'[c] = o /\ Turn(c) /\ Busy(c)'
  BY <1>3, <1>6, OperationsBusy DEF Goto, Turn, IInv, TypeOK, Busy
<1>8. CASE op[c].kind = "run"
  <2>1. Range(cache') = Range(cache)
    BY <1>2, <1>3, <1>8, GotEntries
  <2>2. ~Lent(c) /\ ~Owner(c)'
    BY <1>1, <1>2, <1>4, <1>6, <1>7, <1>8 DEF Shape, Lent, Owner
  <2>3. op'[c].sql \in Texts(op[c])
    BY <1>4, <1>6, <1>7 DEF Texts
  <2> QED
    BY <1>1, <1>3, <1>7, <2>1, <2>2, <2>3, CursorsTake
<1>9. CASE op[c].kind # "run"
  BY <1>1, <1>3, <1>4, <1>6, <1>7, <1>9, CursorsGoOn
<1> QED
  BY <1>8, <1>9

\* A statement that was only described has no cursor.
LEMMA DescribedCursors ==
    ASSUME IInv, IInv', Cursors, NEW c \in Callers, Described(c)
    PROVE  Cursors'
<1> DEFINE sql == op[c].sql
<1>1. /\ chain # <<>> /\ c = Head(chain) /\ Busy(c) /\ op[c] \in Operations /\ op[c].step = "star"
  BY AtHead DEF Described, IInv
<1>2. PICK h \in Handles :
        /\ Unused(h)
        /\ server' = Free(Allocated(h, sql), (HandlesOf(cache) \cup {h})
                            \ HandlesOf(IF Capacity = 0 THEN cache ELSE Put(sql, h)))
        /\ Resolved(c, IF Capacity = 0 THEN cache ELSE Put(sql, h))
  BY DEF Described
<1> DEFINE E == IF Capacity = 0 THEN cache ELSE Put(sql, h)
           x == [sql |-> sql, h |-> h]
<1>3. op[c].star /\ sql \in Sqls
  BY <1>1, SessionAssumption DEF IInv, Shapes, Shape, Sqls
<1>4. \A g \in Handles : server'[g].cursor => server[g].cursor /\ g # h
  <2>1. \A g \in Handles : server'[g].cursor => Allocated(h, sql)[g].cursor
    BY <1>2, FreeCursors
  <2> QED
    BY <2>1 DEF Allocated, IInv, TypeOK
<1>5. E \in Seq(Entry) /\ Apart(E) /\ \A e \in Range(E) : e \in Range(cache) \/ e.h = h
  <2>1. cache \in Seq(Entry) /\ Apart(cache) /\ Len(cache) <= Capacity /\ Capacity \in Nat
    BY SessionAssumption DEF IInv, TypeOK, Kept, Entry
  <2>2. CASE Capacity = 0
    BY <2>1, <2>2
  <2>3. CASE Capacity # 0
    <3>1. \A e \in Range(cache) : e.h # h
      <4>1. server[h].sql = None /\ None \notin Sqls
        BY <1>2, UnusedIsFree, SessionAssumption
      <4> QED
        BY <4>1, HandleTypes DEF IInv, Books
    <3>2. Capacity > 0
      BY <2>1, <2>3
    <3>3. /\ Put(sql, h) \in Seq(Entry) /\ Apart(Put(sql, h))
          /\ Range(Put(sql, h)) \subseteq {e \in Range(cache) : e.sql # sql} \cup {x}
      <4> HIDE DEF sql
      <4> QED
        BY <1>3, <2>1, <3>1, <3>2, PutEntries
    <3>4. E = Put(sql, h) /\ x.h = h
      BY <2>3
    <3> HIDE DEF E, x, sql
    <3> QED
      BY <3>3, <3>4
  <2> QED
    BY <2>2, <2>3
<1>6. Resolved(c, E)
  BY <1>2
<1> HIDE DEF E
<1>7. \A e \in Range(E) : e \in Range(cache) \/ ~server'[e.h].cursor
  BY <1>4, <1>5
<1> QED
  BY <1>1, <1>3, <1>4, <1>5, <1>6, <1>7, ResolvedCursors

\* A statement is prepared without a cursor.
LEMMA PreparedCursors ==
    ASSUME IInv, IInv', Cursors, NEW c \in Callers, Prepared(c)
    PROVE  Cursors'
<1>1. /\ chain # <<>> /\ c = Head(chain) /\ Busy(c) /\ op[c] \in Operations
      /\ op[c].kind \in {"run", "stream", "prepare"} /\ op[c].step = "prepare"
  BY AtHead DEF Prepared, IInv
<1>2. PICK h \in Handles :
        /\ server' = Allocated(h, op[c].sql)
        /\ Return(c) \/ Goto(c, [op[c] EXCEPT !.h = h, !.step = "execute"])
  BY DEF Prepared
<1>3. cache' = cache
  BY DEF Prepared
<1>4. ~op[c].hit
  BY <1>1 DEF IInv, Shapes, Shape
<1>5. ~Lent(c)
  BY <1>4 DEF Lent
<1>6. \A g \in Handles : server'[g].cursor => server[g].cursor /\ g # h
  BY <1>2 DEF Allocated, IInv, TypeOK
<1>7. Turn(c) /\ ~Lent(c)' /\ (Owner(c)' => op'[c].h = h)
  <2>1. CASE Return(c)
    BY <2>1 DEF Return, Turn, IInv, TypeOK, Busy, Lent, Owner
  <2> DEFINE o == [op[c] EXCEPT !.h = h, !.step = "execute"]
  <2>2. CASE Goto(c, o)
    <3>1. o.h = h /\ ~o.hit
      BY <1>1, <1>4 DEF Operations
    <3> HIDE DEF o
    <3>2. op'[c] = o /\ Turn(c)
      BY <2>2 DEF Goto, Turn, IInv, TypeOK
    <3> QED
      BY <3>1, <3>2 DEF Lent
  <2> QED
    BY <1>2, <2>1, <2>2
<1>8. \A e \in Range(cache') : server'[e.h].cursor => e \in Range(cache) /\ server[e.h].cursor
  BY <1>3, <1>6, HandleTypes DEF IInv
<1>9. Owner(c)' => ~server'[op'[c].h].cursor
  BY <1>6, <1>7
<1> QED
  BY <1>5, <1>6, <1>7, <1>8, <1>9, CursorsKeep

\* An operation fails.
LEMMA AbandonCursors ==
    ASSUME IInv, IInv', Cursors, NEW c \in Callers, chain # <<>>, c = Head(chain), Busy(c), Abandon(c), cache' = cache,
           \A h \in Handles : server'[h].cursor => server[h].cursor,
           op[c].kind = "stream" \/ ~Lent(c) \/ ~server[op[c].h].cursor
    PROVE  Cursors'
<1>1. op[c] \in Operations /\ Shape(op[c])
  BY OpFields DEF IInv, Shapes
<1>2. CASE op[c].kind = "stream" /\ ~op[c].star
  <2> DEFINE o == [op[c] EXCEPT !.step = "finish", !.failed = TRUE]
  <2>1. /\ o \in Operations /\ o.kind = op[c].kind /\ o.h = op[c].h /\ o.hit = op[c].hit /\ o.open = op[c].open
    BY <1>1 DEF Operations, Steps
  <2>2. Requeue(c, o)
    BY <1>2 DEF Abandon
  <2> HIDE DEF o
  <2>3. op'[c] = o /\ Turn(c) /\ Busy(c)'
    BY <2>1, <2>2, OperationsBusy DEF Requeue, Turn, IInv, TypeOK, Busy
  <2> QED
    BY <2>1, <2>3, CursorsGoOn
<1>3. CASE ~(op[c].kind = "stream" /\ ~op[c].star)
  <2>1. Turn(c) /\ ~Owner(c)' /\ ~Lent(c)'
    BY <1>3 DEF Abandon, Return, Turn, IInv, TypeOK, Busy, Owner, Lent
  <2>2. Lent(c) => ~server[op[c].h].cursor
    BY <1>1, <1>3 DEF Shape, Lent
  <2>3. \A e \in Range(cache') : server'[e.h].cursor => e \in Range(cache) /\ server[e.h].cursor
    BY HandleTypes DEF IInv
  <2> QED
    BY <2>1, <2>2, <2>3, CursorsLeave
<1> QED
  BY <1>2, <1>3

\* Only the step of the operation changes.
LEMMA StepCursors ==
    ASSUME IInv, IInv', Cursors, NEW c \in Callers, Busy(c), NEW s \in Steps,
           op' = [op EXCEPT ![c] = [op[c] EXCEPT !.step = s]], cache' = cache,
           \A h \in Handles : server'[h].cursor => server[h].cursor
    PROVE  Cursors'
<1> DEFINE o == [op[c] EXCEPT !.step = s]
<1>1. op[c] \in Operations
  BY OpFields DEF IInv
<1>2. /\ o \in Operations /\ o.kind = op[c].kind /\ o.h = op[c].h /\ o.hit = op[c].hit /\ o.open = op[c].open
  BY <1>1, AtStep
<1>3. op' = [op EXCEPT ![c] = o]
  OBVIOUS
<1> HIDE DEF o
<1>4. op'[c] = o /\ Turn(c) /\ Busy(c)'
  BY <1>2, <1>3, OperationsBusy DEF Turn, IInv, TypeOK, Busy
<1> QED
  BY <1>2, <1>4, CursorsGoOn

\* A prepared statement waits for its turn again.
LEMMA OwnStartedCursors ==
    ASSUME IInv, IInv', Cursors, NEW c \in Callers, OwnStarted(c)
    PROVE  Cursors'
<1>1. Busy(c) /\ "queued" \in Steps
  BY AtHead DEF OwnStarted, IInv, Steps
<1> QED
  BY <1>1, StepCursors DEF OwnStarted, Requeue

\* No statement, no cursor.
LEMMA PrepareFailsCursors ==
    ASSUME IInv, IInv', Cursors, NEW c \in Callers, PrepareFails(c)
    PROVE  Cursors'
<1>1. /\ chain # <<>> /\ c = Head(chain) /\ Busy(c)
      /\ op[c].kind \in {"run", "stream", "prepare"} /\ op[c].step \in {"prepare", "star"}
  BY AtHead DEF PrepareFails, IInv
<1>2. ~op[c].hit
  BY <1>1 DEF IInv, Shapes, Shape
<1>3. ~Lent(c)
  BY <1>2 DEF Lent
<1>4. \A h \in Handles : server'[h].cursor => server[h].cursor
  <2>1. server' = server \/ \E h \in Handles, how \in Lost : LosesOne(h, how)
    BY DEF PrepareFails, Lost
  <2> QED
    BY <2>1, LostOne
<1> QED
  BY <1>1, <1>3, <1>4, AbandonCursors DEF PrepareFails

\* Nor has an operation that could not be described or committed.
LEMMA LosesCursors ==
    ASSUME IInv, IInv', Cursors, NEW c \in Callers, ExpandFails(c) \/ CommitFails(c)
    PROVE  Cursors'
<1>1. /\ chain # <<>> /\ c = Head(chain) /\ Busy(c)
      /\ op[c].kind = "prepare" \/ op[c].star \/ op[c].step = "star"
  BY AtHead DEF ExpandFails, CommitFails, IInv
<1>2. ~Lent(c)
  BY <1>1 DEF Lent, IInv, Shapes, Shape
<1>3. /\ Return(c)
      /\ cache' = cache \/ cache' = Got(cache, op[c].sql)
      /\ server' = server \/ \E h \in Handles, how \in Lost : LosesOne(h, how)
  BY DEF ExpandFails, CommitFails, Lost
<1>4. Turn(c) /\ op'[c] = NoOp
  BY <1>1, <1>3, LeaveLine DEF IInv
<1>5. ~Owner(c)' /\ ~Lent(c)'
  BY <1>4 DEF Owner, Lent, Busy
<1>6. \A h \in Handles : server'[h].cursor => server[h].cursor
  BY <1>3, LostOne
<1>7. Range(cache') = Range(cache)
  BY <1>3, GotEntries DEF IInv, TypeOK, Entry, Kept
<1>8. \A e \in Range(cache') : server'[e.h].cursor => e \in Range(cache) /\ server[e.h].cursor
  BY <1>6, <1>7, HandleTypes DEF IInv
<1> QED
  BY <1>2, <1>4, <1>5, <1>6, <1>8, CursorsLeave

\* Dropping a statement opens no cursor.
LEMMA DropFreshCursors ==
    ASSUME NEW c, server' = DropFresh(c), NEW h \in Handles, server'[h].cursor
    PROVE  server[h].cursor
  BY FreeCursors DEF DropFresh

\* A select opens the cursor of its own statement, which then is being read.
LEMMA ExecutedCursors ==
    ASSUME IInv, IInv', Cursors, NEW c \in Callers, Executed(c)
    PROVE  Cursors'
<1>1. /\ chain # <<>> /\ c = Head(chain) /\ Busy(c)
      /\ op[c].kind \in {"run", "stream", "pinned"} /\ op[c].step = "execute"
  BY AtHead DEF Executed, Executing, IInv
<1>2. Shape(op[c]) /\ op[c].h # NoHandle
  BY <1>1 DEF IInv, Shapes, Shape
<1>3. /\ op[c].h \in Handles /\ op[c] \in Operations
      /\ op[c].kind \in {"run", "stream"} => Owner(c) \/ Lent(c)
  BY <1>1, <1>2, InHand
<1>4. CASE op[c].sql \in Selects
  <2> DEFINE o == [op[c] EXCEPT !.step = "fetch", !.open = TRUE]
  <2>1. /\ server' = [server EXCEPT ![op[c].h].cursor = TRUE] /\ Goto(c, o) /\ cache' = cache /\ pin' = pin
    BY <1>4 DEF Executed
  <2>2. /\ o \in Operations /\ o.kind = op[c].kind /\ o.h = op[c].h /\ o.hit = op[c].hit /\ o.open = TRUE
    BY <1>3 DEF Operations, Steps
  <2> HIDE DEF o
  <2>3. op'[c] = o /\ Turn(c) /\ Busy(c)'
    BY <2>1, <2>2, OperationsBusy DEF Goto, Turn, IInv, TypeOK, Busy
  <2>4. (Owner(c)' <=> Owner(c)) /\ (Lent(c)' <=> Lent(c))
    BY <1>1, <2>2, <2>3 DEF Owner, Lent
  <2>5. \A h \in Handles : server'[h].cursor => server[h].cursor \/ h = op[c].h
    BY <2>1 DEF IInv, TypeOK
  <2>6. ASSUME op[c].kind = "pinned" PROVE \E p \in Pins : Pinned(p) /\ pin[p].h = op[c].h
    <3>1. op[c].pin \in Pins /\ pin[op[c].pin] = [h |-> op[c].h, sql |-> op[c].sql]
      BY <1>1, <1>2, <2>6 DEF Shape, IInv, Objects
    <3>2. pin[op[c].pin].h = op[c].h
      BY <3>1
    <3>3. NoPin.h = NoHandle
      BY DEF NoPin
    <3>4. Pinned(op[c].pin)
      BY <1>2, <3>2, <3>3 DEF Pinned
    <3> QED
      BY <3>1, <3>2, <3>4
  <2>7. ASSUME NEW h \in Handles, server'[h].cursor
        PROVE  \/ server[h].cursor
               \/ (Owner(c)' \/ Lent(c)') /\ op'[c].h = h
               \/ \E p \in Pins : Pinned(p)' /\ pin'[p].h = h
    <3>1. CASE op[c].kind = "pinned"
      <4>1. PICK p \in Pins : Pinned(p) /\ pin[p].h = op[c].h
        BY <2>6, <3>1
      <4>2. Pinned(p)' /\ pin'[p].h = op[c].h
        BY <2>1, <4>1 DEF Pinned
      <4> QED
        BY <2>5, <2>7, <4>2
    <3>2. CASE op[c].kind # "pinned"
      BY <1>1, <1>3, <2>2, <2>3, <2>4, <2>5, <2>7, <3>2
    <3> QED
      BY <3>1, <3>2
  <2>8. ASSUME NEW e \in Range(cache'), server'[e.h].cursor
        PROVE  \/ Lent(c)' /\ op'[c].h = e.h
               \/ e \in Range(cache) /\ server[e.h].cursor /\ ~(Lent(c) /\ op[c].h = e.h)
    <3>1. e \in Range(cache) /\ e.h \in Handles
      BY <2>1, HandleTypes DEF IInv
    <3>2. CASE e.h # op[c].h
      BY <2>5, <2>8, <3>1, <3>2
    <3>3. CASE e.h = op[c].h
      <4>1. ~Owner(c)
        BY <3>1, <3>3 DEF IInv, Kept
      <4>2. op[c].kind # "pinned"
        BY <2>6, <3>1, <3>3 DEF IInv, Kept
      <4> QED
        BY <1>1, <1>3, <2>2, <2>3, <2>4, <3>3, <4>1, <4>2
    <3> QED
      BY <3>2, <3>3
  <2> QED
    BY <2>2, <2>3, <2>7, <2>8, CursorsKeep
<1>5. CASE op[c].sql \notin Selects /\ op[c].kind = "run"
  <2>1. Finish(op[c].sql, op[c].h, server) /\ Return(c) /\ ~server[op[c].h].cursor
    BY <1>5 DEF Executed, Executable
  <2> QED
    BY <1>1, <1>3, <2>1, CursorsFinish
<1>6. CASE op[c].sql \notin Selects /\ op[c].kind = "stream"
  <2>1. Yield(c, [op[c] EXCEPT !.step = "yield"]) /\ cache' = cache /\ server' = server /\ "yield" \in Steps
    BY <1>6 DEF Executed, Steps
  <2> QED
    BY <1>1, <2>1, StepCursors DEF Yield
<1>7. CASE op[c].sql \notin Selects /\ op[c].kind = "pinned"
  <2>1. Return(c) /\ cache' = cache /\ server' = server
    BY <1>7 DEF Executed
  <2>2. Turn(c) /\ op'[c] = NoOp
    BY <1>1, <2>1, LeaveLine DEF IInv
  <2>3. ~Owner(c)' /\ ~Lent(c)' /\ ~Lent(c)
    BY <1>7, <2>2 DEF Owner, Lent, Busy
  <2> QED
    BY <2>1, <2>2, <2>3, CursorsLeave
<1> QED
  BY <1>1, <1>4, <1>5, <1>6, <1>7

\* A statement that is refused was not open.
LEMMA ExecuteFailsCursors ==
    ASSUME IInv, IInv', Cursors, NEW c \in Callers, ExecuteFails(c)
    PROVE  Cursors'
<1>1. /\ chain # <<>> /\ c = Head(chain) /\ Busy(c) /\ op[c].step = "execute"
  BY AtHead DEF ExecuteFails, Executing, IInv
<1>2. ~op[c].open
  BY <1>1 DEF IInv, Shapes, Shape
<1>3. Lent(c) => ~server[op[c].h].cursor
  BY <1>2 DEF Cursors, Lent
<1>4. cache' = cache /\ server' = DropFresh(c) /\ Abandon(c)
  BY DEF ExecuteFails
<1> QED
  BY <1>1, <1>3, <1>4, DropFreshCursors, AbandonCursors

\* A run of a cached statement fails to fetch only when there is no cursor.
LEMMA FetchFailsCursors ==
    ASSUME IInv, IInv', Cursors, "rowFail" \notin Events, NEW c \in Callers, FetchFails(c)
    PROVE  Cursors'
<1>1. /\ chain # <<>> /\ c = Head(chain) /\ Busy(c)
  BY AtHead DEF FetchFails, Fetching, IInv
<1>2. ASSUME op[c].kind # "stream", Lent(c) PROVE ~server[op[c].h].cursor
  <2>1. ~HasCursor(c)
    BY <1>2 DEF FetchFails, Lent
  <2>2. PICK e \in Range(cache) : e.sql = op[c].sql /\ e.h = op[c].h
    BY <1>2, LentEntry
  <2>3. server[op[c].h].sql = op[c].sql
    BY <2>2 DEF IInv, Books
  <2> QED
    BY <2>1, <2>3 DEF HasCursor
<1>3. cache' = cache /\ server' = DropFresh(c) /\ Abandon(c)
  BY DEF FetchFails
<1> QED
  BY <1>1, <1>2, <1>3, DropFreshCursors, AbandonCursors

\* The operation takes its entry out of the cache, and leaves it.
LEMMA TakenOut ==
    ASSUME IInv, NEW c \in Callers, Lent(c), cache' = Without(cache, op[c].sql)
    PROVE  \A e \in Range(cache') : e \in Range(cache) /\ op[c].h # e.h
<1>1. cache \in Seq(Entry) /\ Apart(cache)
  BY DEF IInv, TypeOK, Kept, Entry
<1>2. Range(cache') = {e \in Range(cache) : e.sql # op[c].sql}
  BY <1>1, WithoutEntries
<1>3. PICK f \in Range(cache) : f.sql = op[c].sql /\ f.h = op[c].h
  BY LentEntry
<1> QED
  BY <1>2, <1>3, EntriesApart

\* The stale statement leaves the cache together with its cursor.
LEMMA ReplayCursors ==
    ASSUME IInv, IInv', Cursors, NEW c \in Callers, Replay(c)
    PROVE  Cursors'
<1> DEFINE o == [op[c] EXCEPT !.step = "prepare", !.hit = FALSE, !.h = NoHandle]
<1>1. /\ Busy(c) /\ op[c].kind = "run" /\ op[c].hit
  BY AtHead DEF Replay, Executing, IInv
<1>2. op[c] \in Operations
  BY <1>1, OpFields DEF IInv
<1>3. /\ Goto(c, o) /\ cache' = Without(cache, op[c].sql)
      /\ server' = Free(server, ({} \cup HandlesOf(cache)) \ HandlesOf(Without(cache, op[c].sql)))
  BY DEF Replay, SetCache
<1>4. o.h = NoHandle /\ ~o.hit
  BY <1>2 DEF Operations
<1> HIDE DEF o
<1>5. op'[c] = o /\ Turn(c)
  BY <1>3 DEF Goto, Turn, IInv, TypeOK
<1>6. ~Owner(c)' /\ ~Lent(c)'
  BY <1>4, <1>5 DEF Owner, Lent
<1>7. \A e \in Range(cache') : e \in Range(cache) /\ op[c].h # e.h
  BY <1>1, <1>3, TakenOut DEF Lent
<1>8. \A h \in Handles : server'[h].cursor => server[h].cursor
  BY <1>3, FreeCursors
<1> QED
  BY <1>5, <1>6, <1>7, <1>8, CursorsLeave

\* Closing a cursor opens none.
LEMMA ClosedTable ==
    ASSUME IInv, NEW n \in Handles
    PROVE  /\ ~CloseCursor(server, n)[n].cursor
           /\ \A h \in Handles : CloseCursor(server, n)[h].cursor => server[h].cursor
  BY DEF CloseCursor, IInv, TypeOK

\* A run closes the cursor before the cache keeps the statement.
LEMMA RunFetchedCursors ==
    ASSUME IInv, IInv', Cursors, NEW c \in Callers, RunFetched(c)
    PROVE  Cursors'
<1>1. chain # <<>> /\ c = Head(chain) /\ Busy(c) /\ op[c].step = "fetch"
  BY AtHead DEF RunFetched, IInv
<1>2. op[c].h \in Handles
  BY <1>1, InHand DEF IInv, Shapes, Shape
<1> DEFINE table == CloseCursor(server, op[c].h)
<1>3. Finish(op[c].sql, op[c].h, table) /\ Return(c)
  BY DEF RunFetched
<1>4. ~table[op[c].h].cursor /\ \A h \in Handles : table[h].cursor => server[h].cursor
  BY <1>2, ClosedTable
<1> HIDE DEF table
<1> QED
  BY <1>1, <1>2, <1>3, <1>4, CursorsFinish

\* A PreparedStatement closes the cursor of a statement that is not the cache's.
LEMMA PinnedFetchedCursors ==
    ASSUME IInv, IInv', Cursors, NEW c \in Callers, PinnedFetched(c)
    PROVE  Cursors'
<1>1. chain # <<>> /\ c = Head(chain) /\ Busy(c) /\ op[c].step = "fetch" /\ op[c].kind = "pinned"
  BY AtHead DEF PinnedFetched, IInv
<1>2. op[c].h \in Handles
  BY <1>1, InHand DEF IInv, Shapes, Shape
<1>3. server' = CloseCursor(server, op[c].h) /\ Return(c) /\ cache' = cache
  BY DEF PinnedFetched
<1>4. \A h \in Handles : server'[h].cursor => server[h].cursor
  BY <1>2, <1>3, ClosedTable
<1>5. Turn(c) /\ op'[c] = NoOp
  BY <1>1, <1>3, LeaveLine DEF IInv
<1>6. ~Owner(c)' /\ ~Lent(c)' /\ ~Lent(c)
  BY <1>1, <1>5 DEF Owner, Lent, Busy
<1> QED
  BY <1>3, <1>4, <1>5, <1>6, CursorsLeave

\* A stream between batches is still the one that reads.
LEMMA StreamMovesCursors ==
    ASSUME IInv, IInv', Cursors, NEW c \in Callers, StreamFetched(c) \/ NextBatch(c) \/ EndStream(c)
    PROVE  Cursors'
<1>1. {"yield", "more", "finish"} \subseteq Steps
  BY DEF Steps
<1>2. CASE StreamFetched(c)
  <2>1. Busy(c)
    BY <1>2, AtHead DEF StreamFetched, Fetching, IInv
  <2> QED
    BY <1>1, <1>2, <2>1, StepCursors DEF StreamFetched, Yield
<1>3. CASE NextBatch(c)
  BY <1>1, <1>3, StepCursors DEF NextBatch, Enter
<1>4. CASE EndStream(c)
  BY <1>1, <1>4, StepCursors DEF EndStream, Enter
<1> QED
  BY <1>2, <1>3, <1>4

\* A stream closes the cursor, if it opened one, before the cache keeps the statement.
LEMMA FinishStreamCursors ==
    ASSUME IInv, IInv', Cursors, NEW c \in Callers, FinishStream(c)
    PROVE  Cursors'
<1> DEFINE table == IF op[c].open THEN CloseCursor(server, op[c].h) ELSE server
<1>1. /\ chain # <<>> /\ c = Head(chain) /\ Busy(c) /\ op[c].kind = "stream" /\ op[c].step = "finish"
      /\ op[c].h # NoHandle
  BY AtHead DEF FinishStream, IInv
<1>2. op[c].h \in Handles /\ (Owner(c) \/ Lent(c))
  BY <1>1, InHand
<1>3. ~op[c].open => ~server[op[c].h].cursor
  BY <1>1, <1>2 DEF Cursors
<1>4. ~table[op[c].h].cursor /\ \A h \in Handles : table[h].cursor => server[h].cursor
  BY <1>2, <1>3, ClosedTable
<1>5. Return(c)
  BY DEF FinishStream
<1>6. CASE op[c].failed
  <2>1. /\ cache' = Without(cache, op[c].sql)
        /\ server' = Free(table, ((IF op[c].hit THEN {} ELSE {op[c].h}) \cup HandlesOf(cache))
                                    \ HandlesOf(Without(cache, op[c].sql)))
    BY <1>6 DEF FinishStream, SetCache
  <2>2. Turn(c) /\ op'[c] = NoOp
    BY <1>1, <1>5, LeaveLine DEF IInv
  <2>3. ~Owner(c)' /\ ~Lent(c)'
    BY <2>2 DEF Owner, Lent, Busy
  <2> HIDE DEF table
  <2>4. \A h \in Handles : server'[h].cursor => server[h].cursor
    BY <1>4, <2>1, FreeCursors
  <2>5. \A e \in Range(cache') : e \in Range(cache)
    BY <2>1, WithoutEntries DEF IInv, TypeOK, Kept, Entry
  <2>6. Lent(c) => \A e \in Range(cache') : op[c].h # e.h
    BY <2>1, TakenOut
  <2> QED
    BY <2>2, <2>3, <2>4, <2>5, <2>6, CursorsLeave
<1>7. CASE ~op[c].failed
  <2>1. Finish(op[c].sql, op[c].h, table)
    BY <1>7 DEF FinishStream
  <2> HIDE DEF table
  <2> QED
    BY <1>1, <1>2, <1>4, <1>5, <2>1, CursorsFinish
<1> QED
  BY <1>6, <1>7

\* What ends without touching a cursor, or with the cache emptied.
LEMMA EndsCursors ==
    ASSUME IInv, IInv', Cursors, NEW c \in Callers, FinishNoStatement(c) \/ Close(c) \/ Clear(c)
    PROVE  Cursors'
<1>1. chain # <<>> /\ c = Head(chain) /\ Busy(c)
  BY AtHead DEF FinishNoStatement, Close, Clear, IInv
<1>2. Return(c)
  BY DEF FinishNoStatement, Close, Clear
<1>3. Turn(c) /\ op'[c] = NoOp
  BY <1>1, <1>2, LeaveLine DEF IInv
<1>4. ~Owner(c)' /\ ~Lent(c)'
  BY <1>3 DEF Owner, Lent, Busy
<1>5. CASE FinishNoStatement(c) \/ Close(c)
  <2>1. ~Lent(c)
    BY <1>5, AtHead DEF FinishNoStatement, Close, At, Lent, IInv, Shapes, Shape
  <2>2. \A h \in Handles : server'[h].cursor => server[h].cursor
    BY <1>5, FreeCursors DEF FinishNoStatement, Close
  <2>3. cache' = cache
    BY <1>5 DEF FinishNoStatement, Close
  <2> QED
    BY <1>3, <1>4, <2>1, <2>2, <2>3, CursorsLeave
<1>6. CASE Clear(c)
  <2>1. cache' = <<>> /\ server' = Free(server, ({} \cup HandlesOf(cache)) \ HandlesOf(<<>>))
    BY <1>6 DEF Clear, SetCache
  <2>2. \A h \in Handles : server'[h].cursor => server[h].cursor
    BY <2>1, FreeCursors
  <2>3. Range(cache') = {}
    BY <2>1 DEF Range
  <2> QED
    BY <1>3, <1>4, <2>2, <2>3, CursorsLeave
<1> QED
  BY <1>5, <1>6

\* The server closes a cursor.
LEMMA TransactionEndsCursors ==
    ASSUME IInv, IInv', Cursors, NEW c \in Callers, TransactionEnds(c)
    PROVE  Cursors'
<1>1. /\ Busy(c) /\ op[c].step = "yield" /\ server' = CloseCursor(server, op[c].h) /\ op' = op /\ cache' = cache
  BY DEF TransactionEnds
<1>2. op[c].h \in Handles
  BY <1>1, InHand DEF IInv, Shapes, Shape
<1>3. \A h \in Handles : server'[h].cursor => server[h].cursor
  BY <1>1, <1>2, ClosedTable
<1>4. Turn(c) /\ Busy(c)' /\ op'[c] = op[c]
  BY <1>1 DEF Turn, Busy
<1> QED
  BY <1>1, <1>3, <1>4, CursorsGoOn

\* At first there is no cursor.
LEMMA InitCursors == Init => Cursors
<1> SUFFICES ASSUME Init PROVE Cursors
  OBVIOUS
<1>1. \A c \in Callers : ~Owner(c) /\ ~Lent(c)
  BY DEF Init, Owner, Lent, Busy
<1>2. Range(cache) = {}
  BY DEF Init, Range
<1> QED
  BY <1>1, <1>2 DEF Cursors

\* Every step keeps Cursors, if callers are considerate and the rows of a cached text do not fail.
LEMMA NextCursors ==
    ASSUME IInv, IInv', Cursors, {"overlap", "rowFail"} \cap Events = {}, [Next]_vars
    PROVE  Cursors'
<1>1. CASE UNCHANGED vars
  BY <1>1 DEF vars, Cursors, Owner, Lent, Busy
<1>2. ASSUME NEW c \in Callers, Calls(c) PROVE Cursors'
  BY <1>2, CallsCursors
<1>3. ASSUME NEW c \in Callers, Job(c) PROVE Cursors'
  BY <1>3, ExpandCursors, BeginCursors, OwnStartedCursors, DescribedCursors, PreparedCursors,
     PrepareFailsCursors, LosesCursors, ExecutedCursors, ReplayCursors, ExecuteFailsCursors, RunFetchedCursors,
     PinnedFetchedCursors, StreamMovesCursors, FetchFailsCursors, FinishStreamCursors, EndsCursors DEF Job
<1>4. ASSUME NEW c \in Callers, NextBatch(c) \/ EndStream(c) PROVE Cursors'
  BY <1>4, StreamMovesCursors
<1>5. ASSUME NEW c \in Callers, TransactionEnds(c) PROVE Cursors'
  BY <1>5, TransactionEndsCursors
<1> QED
  BY <1>1, <1>2, <1>3, <1>4, <1>5 DEF Next

\* What the two invariants say of each entry.
LEMMA InvCacheReady == IInv /\ Cursors => CacheReady
<1> SUFFICES ASSUME IInv, Cursors, NEW k \in DOMAIN cache
             PROVE  /\ server[cache[k].h].sql = cache[k].sql
                    /\ server[cache[k].h].cursor => \E c \in Callers : Holds(c, cache[k].h)
                    /\ \A j \in DOMAIN cache : cache[j].h = cache[k].h => j = k
  BY DEF CacheReady
<1>1. cache[k] \in Range(cache)
  BY DEF Range
<1>2. server[cache[k].h].sql = cache[k].sql
  BY <1>1 DEF IInv, Books
<1>3. server[cache[k].h].cursor => \E c \in Callers : Holds(c, cache[k].h)
  BY <1>1 DEF Cursors, Lent, Holds
<1>4. \A j \in DOMAIN cache : cache[j].h = cache[k].h => j = k
  BY DEF IInv, Kept, Apart
<1> QED
  BY <1>2, <1>3, <1>4

\* The statement that the cache lends is one that can be executed: it is prepared for its text,
\* kept once, and its cursor is closed unless an operation reads from it. The run of a cached
\* statement whose rows fail is what leaves its cursor open (session.ts), so it is excluded.
THEOREM CachedCanExecute == {"overlap", "rowFail"} \cap Events = {} => (Spec => []CacheReady)
<1> SUFFICES ASSUME {"overlap", "rowFail"} \cap Events = {} PROVE Spec => []CacheReady
  OBVIOUS
<1>1. Spec => []IInv
  BY SessionInvariant
<1>2. Init => Cursors
  BY InitCursors
<1>3. IInv /\ IInv' /\ Cursors /\ [Next]_vars => Cursors'
  BY NextCursors
<1>4. IInv /\ Cursors => CacheReady
  BY InvCacheReady
<1> QED
  BY <1>1, <1>2, <1>3, <1>4, PTL DEF Spec
=============================================================================
