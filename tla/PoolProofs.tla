----------------------------- MODULE PoolProofs -----------------------------
(***************************************************************************)
(* Proofs about Pool, for every set of connections and borrowers, every    *)
(* min and max and every choice of events.                                 *)
(***************************************************************************)
EXTENDS Pool, FiniteSetTheorems, SequenceTheorems, TLAPS

\* The accounts that need one another: types, pending connects, the queue.
Accounts == TypeOK /\ PendingExact /\ QueueExact

-----------------------------------------------------------------------------
LEMMA ConnectingFinite == IsFiniteSet(Connecting) /\ Cardinality(Connecting) \in Nat
BY PoolAssumption, FS_Subset, FS_CardinalityType DEF Connecting

\* A borrower that starts to connect takes a slot.
LEMMA StartConnecting ==
    ASSUME TypeOK, NEW b \in Borrowers, pc[b] # "connecting",
           pc' = [pc EXCEPT ![b] = "connecting"]
    PROVE  Cardinality(Connecting') = Cardinality(Connecting) + 1
<1>1. Connecting' = Connecting \cup {b} /\ b \notin Connecting
  BY DEF TypeOK, Connecting
<1> QED
  BY <1>1, ConnectingFinite, FS_AddElement

\* One that stops connecting gives it back.
LEMMA StopConnecting ==
    ASSUME TypeOK, NEW b \in Borrowers, pc[b] = "connecting", NEW p \in PcStates,
           p # "connecting", pc' = [pc EXCEPT ![b] = p]
    PROVE  Cardinality(Connecting') = Cardinality(Connecting) - 1
<1>1. Connecting' = Connecting \ {b} /\ b \in Connecting
  BY DEF TypeOK, Connecting
<1> QED
  BY <1>1, ConnectingFinite, FS_RemoveElement

\* Taking one place out of a sequence leaves the others, in order.
LEMMA RemoveAtProperties ==
    ASSUME NEW S, NEW s \in Seq(S), NEW i \in DOMAIN s
    PROVE  /\ RemoveAt(s, i) \in Seq(S)
           /\ Len(RemoveAt(s, i)) = Len(s) - 1
           /\ \A j \in 1..(Len(s) - 1) : RemoveAt(s, i)[j] = IF j < i THEN s[j] ELSE s[j + 1]
<1> DEFINE a == SubSeq(s, 1, i - 1)
           z == SubSeq(s, i + 1, Len(s))
<1>1. a \in Seq(S) /\ Len(a) = i - 1 /\ \A j \in 1..(i - 1) : a[j] = s[j]
  BY SubSeqProperties
<1>2. /\ z \in Seq(S) /\ Len(z) = Len(s) - i
      /\ \A j \in 1..(Len(s) - i) : z[j] = s[i + j]
  BY SubSeqProperties
<1>3. RemoveAt(s, i) = a \o z
  BY DEF RemoveAt
<1>4. i \in 1..Len(s) /\ Len(s) \in Nat
  OBVIOUS
<1> HIDE DEF a, z
<1>5. /\ a \o z \in Seq(S) /\ Len(a \o z) = Len(a) + Len(z)
      /\ \A j \in 1..(Len(a) + Len(z)) :
            (a \o z)[j] = IF j <= Len(a) THEN a[j] ELSE z[j - Len(a)]
  BY <1>1, <1>2, ConcatProperties
<1>6. Len(a) + Len(z) = Len(s) - 1
  BY <1>1, <1>2, <1>4
<1>7. ASSUME NEW j \in 1..(Len(s) - 1)
      PROVE  (a \o z)[j] = IF j < i THEN s[j] ELSE s[j + 1]
  <2>1. (a \o z)[j] = IF j <= i - 1 THEN a[j] ELSE z[j - (i - 1)]
    BY <1>1, <1>5, <1>6
  <2>2. CASE j < i
    <3>1. j <= i - 1 /\ j \in 1..(i - 1)
      BY <2>2, <1>4
    <3> QED
      BY <3>1, <2>1, <2>2, <1>1
  <2>3. CASE j >= i
    <3>1. ~(j <= i - 1) /\ ~(j < i)
      BY <2>3, <1>4
    <3>2. j - (i - 1) \in 1..(Len(s) - i) /\ i + (j - (i - 1)) = j + 1
      BY <2>3, <1>4
    <3> QED
      BY <3>1, <3>2, <2>1, <1>2
  <2>4. j < i \/ j >= i
    BY <1>4
  <2> QED
    BY <2>2, <2>3, <2>4
<1> QED
  BY <1>3, <1>5, <1>6, <1>7

\* Pushing a new element keeps the elements of a sequence distinct.
LEMMA AppendDistinct ==
    ASSUME NEW S, NEW s \in Seq(S), NEW x \in S
    PROVE  /\ Range(Append(s, x)) = Range(s) \cup {x}
           /\ IsInjective(s) /\ x \notin Range(s) => IsInjective(Append(s, x))
<1> DEFINE t == Append(s, x)
<1>1. /\ DOMAIN t = 1..(Len(s) + 1) /\ DOMAIN s = 1..Len(s) /\ Len(s) \in Nat
      /\ t[Len(s) + 1] = x /\ \A i \in 1..Len(s) : t[i] = s[i]
  OBVIOUS
<1>2. \A i \in 1..(Len(s) + 1) : i \in 1..Len(s) \/ i = Len(s) + 1
  BY <1>1
<1> HIDE DEF t
<1>3. Range(t) = Range(s) \cup {x}
  <2>1. ASSUME NEW y \in Range(t) PROVE y \in Range(s) \cup {x}
    BY <1>1, <1>2 DEF Range
  <2>2. ASSUME NEW y \in Range(s) \cup {x} PROVE y \in Range(t)
    <3>1. 1..Len(s) \subseteq 1..(Len(s) + 1) /\ Len(s) + 1 \in 1..(Len(s) + 1)
      BY <1>1
    <3> QED
      BY <1>1, <3>1 DEF Range
  <2> QED
    BY <2>1, <2>2
<1>4. ASSUME IsInjective(s), x \notin Range(s) PROVE IsInjective(t)
  BY <1>1, <1>2, <1>4 DEF IsInjective, Range
<1> QED
  BY <1>3, <1>4 DEF t

\* Taking the first of distinct elements leaves the others, still distinct.
LEMMA TailDistinct ==
    ASSUME NEW S, NEW s \in Seq(S), s # <<>>, IsInjective(s)
    PROVE  /\ Tail(s) \in Seq(S) /\ Head(s) \in Range(s) /\ IsInjective(Tail(s))
           /\ Range(Tail(s)) = Range(s) \ {Head(s)}
<1> DEFINE t == Tail(s)
           n == Len(s)
<1>1. /\ n \in Nat \ {0} /\ DOMAIN s = 1..n /\ Head(s) = s[1] /\ t \in Seq(S) /\ Len(t) = n - 1
      /\ DOMAIN t = 1..(n - 1) /\ \A i \in 1..(n - 1) : t[i] = s[i + 1]
  OBVIOUS
<1>2. \A i \in 1..(n - 1) : i + 1 \in 1..n /\ i + 1 # 1
  BY <1>1
<1>3. \A i \in 1..n : i # 1 => i - 1 \in 1..(n - 1) /\ (i - 1) + 1 = i
  BY <1>1
<1>4. 1 \in 1..n
  BY <1>1
<1> HIDE DEF t, n
<1>5. ASSUME NEW i \in 1..(n - 1), NEW j \in 1..(n - 1), t[i] = t[j] PROVE i = j
  <2>1. i + 1 \in DOMAIN s /\ j + 1 \in DOMAIN s /\ s[i + 1] = s[j + 1]
    BY <1>1, <1>2, <1>5
  <2>2. i + 1 = j + 1
    BY <2>1 DEF IsInjective
  <2> QED
    BY <2>2
<1>6. ASSUME NEW y \in Range(t) PROVE y \in Range(s) \ {s[1]}
  <2>1. PICK i \in 1..(n - 1) : y = t[i]
    BY <1>1, <1>6 DEF Range
  <2>2. i + 1 \in DOMAIN s /\ i + 1 # 1 /\ y = s[i + 1] /\ 1 \in DOMAIN s
    BY <1>1, <1>2, <1>4, <2>1
  <2> QED
    BY <2>2 DEF Range, IsInjective
<1>7. ASSUME NEW y \in Range(s) \ {s[1]} PROVE y \in Range(t)
  <2>1. PICK i \in 1..n : y = s[i] /\ i # 1
    BY <1>1, <1>7 DEF Range
  <2>2. i - 1 \in DOMAIN t /\ y = t[i - 1]
    BY <1>1, <1>3, <2>1
  <2> QED
    BY <2>2 DEF Range
<1> QED
  BY <1>1, <1>4, <1>5, <1>6, <1>7 DEF t, IsInjective, Range

\* The same for any one of distinct elements.
LEMMA RemoveAtDistinct ==
    ASSUME NEW S, NEW s \in Seq(S), NEW i \in DOMAIN s, IsInjective(s)
    PROVE  /\ RemoveAt(s, i) \in Seq(S) /\ IsInjective(RemoveAt(s, i))
           /\ Range(RemoveAt(s, i)) = Range(s) \ {s[i]}
<1> DEFINE t == RemoveAt(s, i)
           n == Len(s)
           f == [j \in 1..(n - 1) |-> IF j < i THEN j ELSE j + 1]
<1>1. n \in Nat /\ DOMAIN s = 1..n /\ i \in 1..n
  OBVIOUS
<1>2. /\ t \in Seq(S) /\ DOMAIN t = 1..(n - 1)
      /\ \A j \in 1..(n - 1) : t[j] = IF j < i THEN s[j] ELSE s[j + 1]
  <2>1. t \in Seq(S) /\ Len(t) = n - 1
    BY RemoveAtProperties
  <2>2. DOMAIN t = 1..(n - 1)
    BY <2>1, LenProperties
  <2>3. \A j \in 1..(n - 1) : t[j] = IF j < i THEN s[j] ELSE s[j + 1]
    BY RemoveAtProperties
  <2> QED
    BY <2>1, <2>2, <2>3
<1>3. \A j \in 1..(n - 1) : f[j] \in 1..n /\ f[j] # i
  BY <1>1
<1>4. \A j \in 1..(n - 1) : t[j] = s[f[j]]
  BY <1>2
<1>5. \A j, k \in 1..(n - 1) : f[j] = f[k] => j = k
  BY <1>1
<1>6. \A m \in 1..n : m # i => \E j \in 1..(n - 1) : f[j] = m
  <2>1. ASSUME NEW m \in 1..n, m < i PROVE m \in 1..(n - 1) /\ f[m] = m
    BY <1>1, <2>1
  <2>2. ASSUME NEW m \in 1..n, m > i PROVE m - 1 \in 1..(n - 1) /\ f[m - 1] = m
    BY <1>1, <2>2
  <2>3. \A m \in 1..n : m # i => m < i \/ m > i
    BY <1>1
  <2> QED
    BY <2>1, <2>2, <2>3
<1> HIDE DEF t, n, f
<1>7. IsInjective(t)
  BY <1>1, <1>2, <1>3, <1>4, <1>5 DEF IsInjective
<1>8. ASSUME NEW y \in Range(t) PROVE y \in Range(s) \ {s[i]}
  <2>1. PICK j \in 1..(n - 1) : y = s[f[j]]
    BY <1>2, <1>4, <1>8 DEF Range
  <2> QED
    BY <2>1, <1>1, <1>3 DEF Range, IsInjective
<1>9. ASSUME NEW y \in Range(s) \ {s[i]} PROVE y \in Range(t)
  <2>1. PICK m \in 1..n : y = s[m] /\ m # i
    BY <1>1, <1>9 DEF Range
  <2>2. PICK j \in 1..(n - 1) : f[j] = m
    BY <1>6, <2>1
  <2>3. j \in DOMAIN t /\ t[j] = y
    BY <1>2, <1>4, <2>1, <2>2
  <2> QED
    BY <2>3 DEF Range
<1> QED
  BY <1>2, <1>7, <1>8, <1>9 DEF t

\* A sequence made of entries of another at distinct places has only its
\* elements, and keeps them distinct.
LEMMA SelectDistinct ==
    ASSUME NEW s, NEW t, NEW f \in [DOMAIN t -> DOMAIN s], \A i \in DOMAIN t : t[i] = s[f[i]]
    PROVE  /\ Range(t) \subseteq Range(s)
           /\ IsInjective(s) /\ IsInjective(f) => IsInjective(t)
BY DEF Range, IsInjective

LEMMA SizeType ==
    ASSUME TypeOK
    PROVE  /\ IsFiniteSet(inUse) /\ Cardinality(inUse) \in Nat
           /\ Total \in Nat /\ Size \in Nat
<1>1. IsFiniteSet(inUse) /\ Cardinality(inUse) \in Nat
  BY PoolAssumption, FS_Subset, FS_CardinalityType DEF TypeOK
<1> QED
  BY <1>1 DEF TypeOK, Total, Size

LEMMA DisconnectType ==
    ASSUME TypeOK, NEW S
    PROVE  Disconnect(S) \in [Conns -> LinkStates]
BY DEF TypeOK, Disconnect, Disconnected, LinkStates

-----------------------------------------------------------------------------
\* The loop of acquire() keeps the accounts, from acquire's start and from a failed ping.
LEMMA ProceedAccounts ==
    ASSUME Accounts, NEW b \in Borrowers, pc[b] \in {"out", "pinging"},
           NEW used \in SUBSET Conns, NEW bad, Proceed(b, used, bad),
           UNCHANGED <<closed, warmVars>>, sweepTimer' \in BOOLEAN
    PROVE  Accounts'
<1> USE DEF Accounts
<1>1. link' \in [Conns -> LinkStates]
  BY DisconnectType DEF Proceed
<1>2. PICK k \in 0..Len(idle) :
        IF k > 0 THEN TakeIdle(b, k, used) ELSE OpenNew(b, used) \/ WaitForRelease(b, used)
  BY DEF Proceed
<1>3. closed' \in BOOLEAN /\ warming' \in Nat /\ warmFailed' \in BOOLEAN /\ warming' = warming
  BY DEF TypeOK, warmVars
<1>4. pc[b] # "connecting" /\ pc[b] # "waiting"
  OBVIOUS
<1>5. CASE k > 0 /\ TakeIdle(b, k, used)
  <2>1. TypeOK'
    <3>1. Before(k) \in Seq(Conns) /\ idle[k] \in Conns
      BY <1>5, SubSeqProperties DEF TypeOK, Before
    <3> QED
      BY <1>1, <1>3, <1>5, <3>1 DEF TypeOK, TakeIdle, PcStates
  <2>2. Connecting' = Connecting
    BY <1>4, <1>5 DEF TypeOK, TakeIdle, Connecting
  <2>3. PendingExact'
    BY <1>3, <1>5, <2>2 DEF PendingExact, TakeIdle
  <2>4. QueueExact'
    BY <1>4, <1>5 DEF TypeOK, QueueExact, TakeIdle
  <2> QED
    BY <2>1, <2>3, <2>4
<1>6. CASE OpenNew(b, used)
  <2>1. TypeOK'
    BY <1>1, <1>3, <1>6 DEF TypeOK, OpenNew, PcStates
  <2>2. Cardinality(Connecting') = Cardinality(Connecting) + 1
    BY <1>4, <1>6, StartConnecting DEF OpenNew
  <2>3. PendingExact'
    BY <1>3, <1>6, <2>2, ConnectingFinite DEF PendingExact, OpenNew, TypeOK
  <2>4. QueueExact'
    BY <1>4, <1>6 DEF TypeOK, QueueExact, OpenNew
  <2> QED
    BY <2>1, <2>3, <2>4
<1>7. CASE WaitForRelease(b, used)
  <2>1. TypeOK'
    BY <1>1, <1>3, <1>7 DEF TypeOK, WaitForRelease, PcStates
  <2>2. Connecting' = Connecting
    BY <1>4, <1>7 DEF TypeOK, WaitForRelease, Connecting
  <2>3. PendingExact'
    BY <1>3, <1>7, <2>2 DEF PendingExact, WaitForRelease
  <2>4. QueueExact'
    <3>1. waiters' = Append(waiters, b) /\ waiters \in Seq(Borrowers)
      BY <1>7 DEF TypeOK, WaitForRelease
    <3>2. b \notin Range(waiters)
      BY <1>4 DEF QueueExact
    <3>3. {w \in Borrowers : pc'[w] = "waiting"} = {w \in Borrowers : pc[w] = "waiting"} \cup {b}
      BY <1>7 DEF TypeOK, WaitForRelease
    <3>4. Range(waiters') = Range(waiters) \cup {b}
      BY <3>1, AppendDistinct
    <3>5. IsInjective(waiters')
      BY <3>1, <3>2, AppendDistinct DEF QueueExact
    <3> QED
      BY <3>3, <3>4, <3>5 DEF QueueExact
  <2> QED
    BY <2>1, <2>3, <2>4
<1> QED
  BY <1>2, <1>5, <1>6, <1>7

\* release(), for a caller that neither waits nor connects before or after it.
LEMMA ReleaseAccounts ==
    ASSUME Accounts, NEW c,
           NEW pcAfter \in [Borrowers -> PcStates],
           NEW refAfter \in [Borrowers -> Conns \cup {NoConn}],
           \A w \in Borrowers : /\ pcAfter[w] = "waiting" <=> pc[w] = "waiting"
                                /\ pcAfter[w] = "connecting" <=> pc[w] = "connecting",
           ReleaseConn(c, pcAfter, refAfter),
           UNCHANGED <<pendingCreates, closed, sweepTimer, warmVars>>
    PROVE  Accounts'
<1> USE DEF Accounts
<1>1. link' \in [Conns -> LinkStates]
  BY DisconnectType DEF ReleaseConn, TypeOK
<1>2. /\ closed' \in BOOLEAN /\ sweepTimer' \in BOOLEAN /\ warming' \in Nat /\ warmFailed' \in BOOLEAN
      /\ pendingCreates' \in Nat /\ pendingCreates' = pendingCreates /\ warming' = warming
  BY DEF TypeOK, warmVars
<1>3. CASE /\ pc' = pcAfter /\ conn' = refAfter /\ waiters' = waiters
           /\ \/ idle' = idle /\ inUse' \in {inUse, inUse \ {c}}
              \/ c \in inUse /\ idle' = Append(idle, c) /\ inUse' = inUse \ {c}
  <2>1. TypeOK'
    <3>1. idle \in Seq(Conns) /\ (c \in inUse => Append(idle, c) \in Seq(Conns))
      BY DEF TypeOK
    <3>2. idle' \in Seq(Conns)
      BY <1>3, <3>1
    <3>3. inUse' \in SUBSET Conns /\ waiters' \in Seq(Borrowers)
      BY <1>3 DEF TypeOK
    <3> QED
      BY <1>1, <1>2, <1>3, <3>2, <3>3 DEF TypeOK
  <2>2. Connecting' = Connecting
    BY <1>3 DEF Connecting
  <2>3. PendingExact'
    BY <1>2, <2>2 DEF PendingExact
  <2>4. QueueExact'
    BY <1>3 DEF QueueExact
  <2> QED
    BY <2>1, <2>3, <2>4
<1>4. CASE /\ c \in inUse /\ waiters # <<>> /\ waiters' = Tail(waiters)
           /\ pc' = [pcAfter EXCEPT ![Head(waiters)] = "using"]
           /\ conn' = [refAfter EXCEPT ![Head(waiters)] = c]
           /\ UNCHANGED <<idle, inUse>>
  <2> DEFINE w1 == Head(waiters)
  <2>1. /\ waiters' \in Seq(Borrowers) /\ w1 \in Range(waiters) /\ IsInjective(waiters')
        /\ Range(waiters') = Range(waiters) \ {w1}
    BY <1>4, TailDistinct DEF TypeOK, QueueExact
  <2>2. w1 \in Borrowers /\ pc[w1] = "waiting"
    BY <2>1 DEF QueueExact
  <2> HIDE DEF w1
  <2>3. TypeOK'
    <3>1. pc' \in [Borrowers -> PcStates]
      BY <1>4 DEF w1, PcStates
    <3>2. conn' \in [Borrowers -> Conns \cup {NoConn}]
      BY <1>4 DEF TypeOK
    <3> QED
      BY <1>1, <1>2, <1>4, <2>1, <3>1, <3>2 DEF TypeOK
  <2>4. Connecting' = Connecting
    BY <1>4, <2>2 DEF Connecting, w1
  <2>5. PendingExact'
    BY <1>2, <2>4 DEF PendingExact
  <2>6. QueueExact'
    <3>1. {w \in Borrowers : pc'[w] = "waiting"} = {w \in Borrowers : pc[w] = "waiting"} \ {w1}
      BY <1>4, <2>2 DEF w1
    <3> QED
      BY <3>1, <2>1 DEF QueueExact
  <2> QED
    BY <2>3, <2>5, <2>6
<1> QED
  BY <1>3, <1>4 DEF ReleaseConn

\* Types, pending connects and the queue are kept by every step.
LEMMA AccountsStep == Accounts /\ [Next]_vars => Accounts'
<1> SUFFICES ASSUME Accounts, [Next]_vars PROVE Accounts'
  OBVIOUS
<1> USE DEF Accounts
<1>1. ASSUME NEW b \in Borrowers, Acquire(b) PROVE Accounts'
  <2>1. sweepTimer' \in BOOLEAN /\ inUse \in SUBSET Conns
    BY <1>1, PoolAssumption DEF Acquire, EnsureSweep, TypeOK
  <2> QED
    BY <1>1, <2>1, ProceedAccounts DEF Acquire
<1>2. ASSUME NEW b \in Borrowers, PingOk(b) PROVE Accounts'
  <2>1. TypeOK'
    BY <1>2 DEF PingOk, TypeOK, PcStates, poolVars, warmVars
  <2>2. Connecting' = Connecting
    BY <1>2 DEF PingOk, TypeOK, Connecting
  <2> QED
    BY <1>2, <2>1, <2>2 DEF PingOk, PendingExact, QueueExact, TypeOK, poolVars, warmVars
<1>3. ASSUME NEW b \in Borrowers, PingFail(b) PROVE Accounts'
  <2>1. /\ sweepTimer' \in BOOLEAN /\ inUse \ {conn[b]} \in SUBSET Conns /\ pc[b] = "pinging"
        /\ UNCHANGED <<closed, warmVars>> /\ Proceed(b, inUse \ {conn[b]}, {conn[b]})
    BY <1>3 DEF PingFail, TypeOK
  <2> QED
    BY <2>1, ProceedAccounts
<1>4. ASSUME NEW b \in Borrowers, ConnectOk(b) PROVE Accounts'
  <2>1. Cardinality(Connecting') = Cardinality(Connecting) - 1
    BY <1>4, StopConnecting DEF ConnectOk, PcStates
  <2>2. pendingCreates' \in Nat /\ PendingExact'
    <3>1. b \in Connecting
      BY <1>4 DEF ConnectOk, Connecting
    <3>2. Cardinality(Connecting) > 0
      BY <3>1, ConnectingFinite, FS_EmptySet
    <3> QED
      BY <1>4, <2>1, <3>2, ConnectingFinite DEF ConnectOk, PendingExact, TypeOK, warmVars
  <2>3. TypeOK'
    BY <1>4, <2>2 DEF ConnectOk, TypeOK, PcStates, LinkStates, warmVars
  <2>4. QueueExact'
    BY <1>4 DEF ConnectOk, TypeOK, QueueExact
  <2> QED
    BY <2>2, <2>3, <2>4
<1>5. ASSUME NEW b \in Borrowers, ConnectFail(b) PROVE Accounts'
  <2>1. Cardinality(Connecting') = Cardinality(Connecting) - 1
    BY <1>5, StopConnecting DEF ConnectFail, PcStates
  <2>2. pendingCreates' \in Nat /\ PendingExact'
    <3>1. b \in Connecting
      BY <1>5 DEF ConnectFail, Connecting
    <3>2. Cardinality(Connecting) > 0
      BY <3>1, ConnectingFinite, FS_EmptySet
    <3> QED
      BY <1>5, <2>1, <3>2, ConnectingFinite DEF ConnectFail, PendingExact, TypeOK, warmVars
  <2>3. TypeOK'
    BY <1>5, <2>2 DEF ConnectFail, TypeOK, PcStates, warmVars
  <2>4. QueueExact'
    BY <1>5 DEF ConnectFail, TypeOK, QueueExact
  <2> QED
    BY <2>2, <2>3, <2>4
<1>6. ASSUME NEW b \in Borrowers, AcquireTimeout(b) PROVE Accounts'
  <2>1. PICK i \in DOMAIN waiters : waiters[i] = b /\ waiters' = RemoveAt(waiters, i)
    BY <1>6 DEF AcquireTimeout
  <2>2. /\ waiters' \in Seq(Borrowers) /\ Range(waiters') = Range(waiters) \ {b}
        /\ IsInjective(waiters')
    BY <2>1, RemoveAtDistinct DEF TypeOK, QueueExact
  <2>3. TypeOK'
    BY <1>6, <2>2 DEF AcquireTimeout, TypeOK, PcStates, warmVars
  <2>4. Connecting' = Connecting
    BY <1>6 DEF AcquireTimeout, TypeOK, Connecting
  <2>5. {w \in Borrowers : pc'[w] = "waiting"} = {w \in Borrowers : pc[w] = "waiting"} \ {b}
    BY <1>6 DEF AcquireTimeout, TypeOK
  <2> QED
    BY <1>6, <2>2, <2>3, <2>4, <2>5 DEF AcquireTimeout, PendingExact, QueueExact, warmVars
<1>7. ASSUME NEW b \in Borrowers, Release(b) PROVE Accounts'
  <2> DEFINE pcAfter == [pc EXCEPT ![b] = "out"]
             refAfter == IF "doubleRelease" \in Events THEN conn ELSE [conn EXCEPT ![b] = NoConn]
  <2>1. /\ pcAfter \in [Borrowers -> PcStates]
        /\ refAfter \in [Borrowers -> Conns \cup {NoConn}]
        /\ \A w \in Borrowers : /\ pcAfter[w] = "waiting" <=> pc[w] = "waiting"
                                /\ pcAfter[w] = "connecting" <=> pc[w] = "connecting"
    BY <1>7 DEF Release, TypeOK, PcStates
  <2>2. /\ ReleaseConn(conn[b], pcAfter, refAfter)
        /\ UNCHANGED <<pendingCreates, closed, sweepTimer, warmVars>>
    BY <1>7 DEF Release
  <2> HIDE DEF pcAfter, refAfter
  <2> QED
    BY <2>1, <2>2, ReleaseAccounts
<1>8. ASSUME NEW b \in Borrowers, ReleaseAgain(b) PROVE Accounts'
  <2> DEFINE refAfter == [conn EXCEPT ![b] = NoConn]
  <2>1. refAfter \in [Borrowers -> Conns \cup {NoConn}] /\ pc \in [Borrowers -> PcStates]
    BY DEF TypeOK
  <2>2. /\ ReleaseConn(conn[b], pc, refAfter)
        /\ UNCHANGED <<pendingCreates, closed, sweepTimer, warmVars>>
    BY <1>8 DEF ReleaseAgain
  <2> HIDE DEF refAfter
  <2> QED
    BY <2>1, <2>2, ReleaseAccounts
<1>9. CASE Warmup
  <2>1. Size \in Nat /\ min \in Nat
    BY SizeType, PoolAssumption
  <2>2. CASE Size < min
    <3>1. /\ warming = 0 /\ warming' = min - Size /\ pendingCreates' = pendingCreates + (min - Size)
          /\ warmFailed' = FALSE /\ UNCHANGED <<sweepTimer, idle, inUse, waiters, closed, pc, conn, link>>
      BY <1>9, <2>1, <2>2 DEF Warmup
    <3>2. Connecting' = Connecting
      BY <3>1 DEF Connecting
    <3>3. warming' \in Nat /\ pendingCreates' \in Nat
      BY <2>1, <2>2, <3>1 DEF TypeOK
    <3>4. TypeOK'
      BY <3>1, <3>3 DEF TypeOK
    <3>5. PendingExact'
      BY <2>1, <3>1, <3>2, ConnectingFinite DEF PendingExact, TypeOK
    <3>6. QueueExact'
      BY <3>1 DEF QueueExact
    <3> QED
      BY <3>4, <3>5, <3>6
  <2>3. CASE Size >= min
    <3>1. sweepTimer' \in BOOLEAN
      BY <1>9, <2>1, <2>3, PoolAssumption DEF Warmup, EnsureSweep, TypeOK
    <3>2. UNCHANGED <<warming, pendingCreates, warmFailed, idle, inUse, waiters, closed, pc, conn, link>>
      BY <1>9, <2>1, <2>3 DEF Warmup
    <3> QED
      BY <3>1, <3>2 DEF TypeOK, PendingExact, QueueExact, Connecting
  <2> QED
    BY <2>1, <2>2, <2>3
<1>10. CASE CreateIntoOk
  <2>1. pendingCreates' \in Nat /\ warming' \in Nat /\ PendingExact'
    BY <1>10, ConnectingFinite DEF CreateIntoOk, PendingExact, Connecting, TypeOK
  <2>2. sweepTimer' \in BOOLEAN
    BY <1>10, PoolAssumption DEF CreateIntoOk, EnsureSweep, TypeOK
  <2>3. idle' \in Seq(Conns) /\ link' \in [Conns -> LinkStates]
    BY <1>10 DEF CreateIntoOk, TypeOK, LinkStates
  <2>4. TypeOK' /\ QueueExact'
    BY <1>10, <2>1, <2>2, <2>3 DEF CreateIntoOk, TypeOK, QueueExact
  <2> QED
    BY <2>1, <2>4
<1>11. CASE CreateIntoFail
  <2>1. pendingCreates' \in Nat /\ warming' \in Nat /\ PendingExact'
    BY <1>11, ConnectingFinite DEF CreateIntoFail, PendingExact, Connecting, TypeOK
  <2>2. TypeOK' /\ QueueExact'
    BY <1>11, <2>1 DEF CreateIntoFail, TypeOK, QueueExact
  <2> QED
    BY <2>1, <2>2
<1>12. CASE SweepIdle
  <2>1. idle' \in Seq(Conns)
    BY <1>12 DEF SweepIdle, TypeOK
  <2>2. link' \in [Conns -> LinkStates]
    BY <1>12, DisconnectType DEF SweepIdle
  <2>3. sweepTimer' \in BOOLEAN /\ UNCHANGED <<inUse, waiters, pendingCreates, closed, warmVars, pc, conn>>
    BY <1>12 DEF SweepIdle
  <2> QED
    BY <2>1, <2>2, <2>3 DEF TypeOK, PendingExact, QueueExact, Connecting, warmVars
<1>13. CASE Close
  <2>1. link' \in [Conns -> LinkStates]
    BY <1>13, DisconnectType DEF Close
  <2>2. pc' \in [Borrowers -> PcStates] /\ Connecting' = Connecting
    BY <1>13 DEF Close, TypeOK, PcStates, QueueExact, Connecting
  <2>3. TypeOK'
    <3>1. idle' \in Seq(Conns) /\ waiters' \in Seq(Borrowers) /\ inUse' \in SUBSET Conns
      BY <1>13 DEF Close
    <3>2. closed' \in BOOLEAN /\ sweepTimer' \in BOOLEAN /\ UNCHANGED <<pendingCreates, warmVars, conn>>
      BY <1>13 DEF Close
    <3> QED
      BY <2>1, <2>2, <3>1, <3>2 DEF TypeOK, warmVars
  <2>4. PendingExact'
    BY <1>13, <2>2 DEF Close, PendingExact, warmVars
  <2>5. QueueExact'
    BY <1>13 DEF Close, QueueExact, Range, IsInjective, TypeOK
  <2> QED
    BY <2>3, <2>4, <2>5
<1>14. ASSUME NEW c \in Conns, Die(c) \/ DetachDone(c) PROVE Accounts'
  BY <1>14 DEF Die, DetachDone, TypeOK, PendingExact, QueueExact, Connecting, LinkStates, poolVars, warmVars
<1>15. CASE UNCHANGED vars
  BY <1>15 DEF vars, poolVars, warmVars, TypeOK, PendingExact, QueueExact, Connecting
<1> QED
  BY <1>1, <1>2, <1>3, <1>4, <1>5, <1>6, <1>7, <1>8, <1>9, <1>10, <1>11, <1>12, <1>13,
     <1>14, <1>15 DEF Next, PingSettles, ConnectSettles

LEMMA AccountsInit == Init => Accounts
<1> SUFFICES ASSUME Init PROVE Accounts
  OBVIOUS
<1>1. TypeOK
  <2>1. idle \in Seq(Conns) /\ waiters \in Seq(Borrowers) /\ inUse \in SUBSET Conns
    BY DEF Init
  <2>2. pc \in [Borrowers -> PcStates] /\ conn \in [Borrowers -> Conns \cup {NoConn}]
    BY DEF Init, PcStates
  <2>3. link \in [Conns -> LinkStates]
    BY DEF Init, LinkStates
  <2> QED
    BY <2>1, <2>2, <2>3 DEF Init, TypeOK
<1>2. Connecting = {}
  BY DEF Init, Connecting
<1>3. PendingExact
  BY <1>2, FS_EmptySet DEF Init, PendingExact
<1>4. QueueExact
  BY DEF Init, QueueExact, Range, IsInjective
<1> QED
  BY <1>1, <1>3, <1>4 DEF Accounts

\* The pool's variables keep their types, every pending connect is accounted
\* for and the queue is exactly the borrowers that wait, whatever happens.
THEOREM AccountsHold == Spec => []AccountsExact
<1>1. Spec => []Accounts
  BY AccountsInit, AccountsStep, PTL DEF Spec
<1>2. Accounts => AccountsExact
  BY DEF Accounts, AccountsExact
<1> QED
  BY <1>1, <1>2, PTL

-----------------------------------------------------------------------------
(* The ceiling, and no connection counted twice. *)

\* What the pool lists: an idle entry only once, and never one that is lent.
Capacity == Accounts /\ CountedOnce /\ WithinMax

LEMMA ProceedCapacity ==
    ASSUME Capacity, NEW b \in Borrowers, NEW used \in SUBSET inUse, NEW bad,
           Proceed(b, used, bad)
    PROVE  CountedOnce' /\ WithinMax'
<1> USE DEF Capacity, Accounts
<1>1. PICK k \in 0..Len(idle) :
        IF k > 0 THEN TakeIdle(b, k, used) ELSE OpenNew(b, used) \/ WaitForRelease(b, used)
  BY DEF Proceed
<1>2. /\ IsFiniteSet(used) /\ Cardinality(used) \in Nat /\ Cardinality(used) <= Cardinality(inUse)
      /\ Cardinality(inUse) \in Nat /\ pendingCreates \in Nat /\ Len(idle) \in Nat
      /\ min \in Nat /\ max \in Nat
  BY SizeType, FS_Subset, FS_CardinalityType, PoolAssumption DEF TypeOK
<1>3. CASE k > 0 /\ TakeIdle(b, k, used)
  <2>1. /\ k \in 1..Len(idle) /\ idle \in Seq(Conns)
        /\ Len(idle') = k - 1 /\ DOMAIN idle' = 1..(k - 1) /\ \A j \in 1..(k - 1) : idle'[j] = idle[j]
    BY <1>3 DEF TakeIdle, Before, TypeOK
  <2>2. \A j \in 1..(k - 1) : j \in DOMAIN idle /\ j # k
    BY <2>1
  <2>3. k \in DOMAIN idle
    BY <2>1
  <2>4. IsInjective(idle')
    BY <2>1, <2>2 DEF IsInjective, CountedOnce
  <2>5. \A c \in Range(idle') : c \in Range(idle) /\ c # idle[k]
    BY <2>1, <2>2, <2>3 DEF IsInjective, CountedOnce, Range
  <2>6. CountedOnce'
    BY <1>3, <2>4, <2>5 DEF CountedOnce, TakeIdle
  <2>7. Cardinality(inUse') \in Nat /\ Cardinality(inUse') <= Cardinality(used) + 1
    <3>1. inUse' = used \cup {idle[k]}
      BY <1>3 DEF TakeIdle
    <3>2. Cardinality(used \cup {idle[k]}) =
            IF idle[k] \in used THEN Cardinality(used) ELSE Cardinality(used) + 1
      BY <1>2, FS_AddElement
    <3> QED
      BY <1>2, <3>1, <3>2
  <2>8. pendingCreates' = pendingCreates /\ Len(idle') + 1 <= Len(idle)
    BY <1>2, <1>3, <2>1 DEF TakeIdle
  <2>9. Size' <= Size
    BY <1>2, <2>1, <2>7, <2>8 DEF Size, Total
  <2> QED
    BY <2>6, <2>9, <1>2, <2>1, <2>7, <2>8 DEF WithinMax, Size, Total
<1>4. CASE OpenNew(b, used)
  <2>1. CountedOnce'
    BY <1>4 DEF OpenNew, CountedOnce, Range, IsInjective
  <2> QED
    BY <1>2, <1>4, <2>1 DEF OpenNew, WithinMax, Size, Total, HasRoom
<1>5. CASE WaitForRelease(b, used)
  <2>1. CountedOnce'
    BY <1>5 DEF WaitForRelease, CountedOnce, Range, IsInjective
  <2> QED
    BY <1>2, <1>5, <2>1 DEF WaitForRelease, WithinMax, Size, Total
<1> QED
  BY <1>1, <1>3, <1>4, <1>5

LEMMA ReleaseCapacity ==
    ASSUME Capacity, NEW c, NEW pcAfter, NEW refAfter,
           ReleaseConn(c, pcAfter, refAfter), UNCHANGED pendingCreates
    PROVE  CountedOnce' /\ WithinMax'
<1> USE DEF Capacity, Accounts
<1>1. /\ Cardinality(inUse) \in Nat /\ pendingCreates \in Nat /\ Len(idle) \in Nat
      /\ min \in Nat /\ max \in Nat /\ IsFiniteSet(inUse)
  BY SizeType, PoolAssumption DEF TypeOK
<1>2. CASE UNCHANGED <<idle, inUse>>
  BY <1>2 DEF CountedOnce, WithinMax, Size, Total
<1>3. CASE c \in inUse /\ inUse' = inUse \ {c} /\ UNCHANGED idle
  <2>1. Cardinality(inUse') = Cardinality(inUse) - 1
    BY <1>1, <1>3, FS_RemoveElement
  <2> QED
    BY <1>1, <1>3, <2>1 DEF CountedOnce, WithinMax, Size, Total
<1>4. CASE c \in inUse /\ inUse' = inUse \ {c} /\ idle' = Append(idle, c)
  <2>1. Cardinality(inUse') = Cardinality(inUse) - 1
    BY <1>1, <1>4, FS_RemoveElement
  <2>2. Len(idle') = Len(idle) + 1
    BY <1>4 DEF TypeOK
  <2>3. c \notin Range(idle) /\ idle \in Seq(Conns) /\ c \in Conns
    BY <1>4 DEF CountedOnce, TypeOK
  <2>4. Range(idle') = Range(idle) \cup {c} /\ IsInjective(idle')
    BY <1>4, <2>3, AppendDistinct DEF CountedOnce
  <2> QED
    BY <1>1, <1>4, <2>1, <2>2, <2>4 DEF CountedOnce, WithinMax, Size, Total
<1> QED
  BY <1>2, <1>3, <1>4 DEF ReleaseConn

\* The sweep keeps entries in order, so it lists none twice and adds none.
LEMMA SweepCapacity ==
    ASSUME Capacity, SweepIdle
    PROVE  CountedOnce' /\ WithinMax'
<1> USE DEF Capacity, Accounts
<1>a. PICK n \in 0..Len(idle) : \E keep \in [1..n -> DOMAIN idle] :
        /\ \A i, j \in 1..n : i < j => keep[i] < keep[j]
        /\ idle' = [i \in 1..n |-> idle[keep[i]]]
  BY DEF SweepIdle
<1>1. PICK keep \in [1..n -> DOMAIN idle] :
        /\ \A i, j \in 1..n : i < j => keep[i] < keep[j]
        /\ idle' = [i \in 1..n |-> idle[keep[i]]]
  BY <1>a
<1>2. inUse' = inUse /\ pendingCreates' = pendingCreates
  BY DEF SweepIdle
<1>3. /\ Cardinality(inUse) \in Nat /\ pendingCreates \in Nat /\ Len(idle) \in Nat
      /\ DOMAIN idle = 1..Len(idle) /\ min \in Nat /\ max \in Nat /\ n \in Nat
  BY SizeType, PoolAssumption DEF TypeOK
<1>4. Len(idle') = n /\ DOMAIN idle' = 1..n
  BY <1>1, <1>3
<1>5. IsInjective(keep)
  <2> SUFFICES ASSUME NEW i \in 1..n, NEW j \in 1..n, keep[i] = keep[j] PROVE i = j
    BY <1>1 DEF IsInjective
  <2>1. keep[i] \in Nat /\ keep[j] \in Nat
    BY <1>1, <1>3
  <2>2. ~(i < j) /\ ~(j < i)
    BY <1>1, <2>1
  <2> QED
    BY <2>2, <1>3
<1>6. Range(idle') \subseteq Range(idle) /\ IsInjective(idle')
  <2>1. keep \in [DOMAIN idle' -> DOMAIN idle] /\ \A i \in DOMAIN idle' : idle'[i] = idle[keep[i]]
    BY <1>1, <1>4
  <2>2. Range(idle') \subseteq Range(idle) /\ (IsInjective(idle) /\ IsInjective(keep) => IsInjective(idle'))
    BY <2>1, SelectDistinct
  <2> QED
    BY <1>5, <2>2 DEF CountedOnce
<1>7. CountedOnce'
  BY <1>2, <1>6 DEF CountedOnce
<1>8. Len(idle') <= Len(idle)
  BY <1>3, <1>4
<1> QED
  BY <1>2, <1>3, <1>4, <1>7, <1>8 DEF WithinMax, Size, Total

LEMMA CapacityStep == Capacity /\ [Next]_vars => Capacity'
<1> SUFFICES ASSUME Capacity, [Next]_vars PROVE CountedOnce' /\ WithinMax'
  BY AccountsStep DEF Capacity
<1> USE DEF Capacity, Accounts
<1>0. /\ Cardinality(inUse) \in Nat /\ pendingCreates \in Nat /\ Len(idle) \in Nat
      /\ min \in Nat /\ max \in Nat /\ IsFiniteSet(inUse) /\ warming \in Nat /\ Size \in Nat
  BY SizeType, PoolAssumption DEF TypeOK
<1>1. ASSUME NEW b \in Borrowers, Acquire(b) PROVE CountedOnce' /\ WithinMax'
  BY <1>1, ProceedCapacity DEF Acquire
<1>2. ASSUME NEW b \in Borrowers, PingFail(b) PROVE CountedOnce' /\ WithinMax'
  BY <1>2, ProceedCapacity DEF PingFail
<1>3. ASSUME NEW b \in Borrowers, ConnectOk(b) PROVE CountedOnce' /\ WithinMax'
  <2>1. PICK c \in Conns : c \notin Range(idle) \cup inUse /\ inUse' = inUse \cup {c}
    BY <1>3 DEF ConnectOk, Fresh
  <2>2. Cardinality(inUse') = Cardinality(inUse) + 1
    BY <1>0, <2>1, FS_AddElement
  <2>3. idle' = idle /\ pendingCreates' = pendingCreates - 1
    BY <1>3 DEF ConnectOk
  <2> QED
    BY <1>0, <2>1, <2>2, <2>3 DEF CountedOnce, WithinMax, Size, Total
<1>4. ASSUME NEW b \in Borrowers, ConnectFail(b) PROVE CountedOnce' /\ WithinMax'
  BY <1>0, <1>4 DEF ConnectFail, CountedOnce, WithinMax, Size, Total
<1>5. ASSUME NEW b \in Borrowers, Release(b) \/ ReleaseAgain(b) PROVE CountedOnce' /\ WithinMax'
  BY <1>5, ReleaseCapacity DEF Release, ReleaseAgain
<1>6. CASE Warmup
  <2>1. CountedOnce'
    BY <1>6 DEF Warmup, CountedOnce
  <2>2. idle' = idle /\ inUse' = inUse
    BY <1>6 DEF Warmup
  <2>3. \/ Size < min /\ pendingCreates' = pendingCreates + (min - Size)
        \/ pendingCreates' = pendingCreates
    BY <1>6 DEF Warmup
  <2>4. Size' <= min \/ Size' = Size
    BY <1>0, <2>2, <2>3 DEF Size, Total
  <2>5. Size' \in Int
    BY <1>0, <2>2, <2>3 DEF Size, Total
  <2> QED
    BY <1>0, <2>1, <2>4, <2>5 DEF WithinMax
<1>7. CASE CreateIntoOk
  <2>1. PICK c \in Conns : c \notin Range(idle) \cup inUse /\ idle' = Append(idle, c)
    BY <1>7 DEF CreateIntoOk, Fresh
  <2>2. Len(idle') = Len(idle) + 1 /\ inUse' = inUse /\ pendingCreates' = pendingCreates - 1
    BY <1>7, <2>1 DEF CreateIntoOk, TypeOK
  <2>3. Range(idle') = Range(idle) \cup {c} /\ IsInjective(idle')
    BY <2>1, AppendDistinct DEF CountedOnce, TypeOK
  <2> QED
    BY <1>0, <2>1, <2>2, <2>3 DEF CountedOnce, WithinMax, Size, Total
<1>8. CASE CreateIntoFail
  BY <1>0, <1>8 DEF CreateIntoFail, CountedOnce, WithinMax, Size, Total
<1>9. CASE SweepIdle
  BY <1>9, SweepCapacity
<1>10. CASE Close
  <2>1. CountedOnce'
    BY <1>10 DEF Close, CountedOnce, Range, IsInjective
  <2>2. Size' = pendingCreates
    BY <1>0, <1>10, FS_EmptySet DEF Close, Size, Total
  <2> QED
    BY <1>0, <2>1, <2>2 DEF WithinMax, Size, Total
<1>11. CASE UNCHANGED <<idle, inUse, pendingCreates>>
  BY <1>11 DEF CountedOnce, WithinMax, Size, Total
<1>12. ASSUME NEW b \in Borrowers, PingOk(b) \/ AcquireTimeout(b)
       PROVE  UNCHANGED <<idle, inUse, pendingCreates>>
  BY <1>12 DEF PingOk, AcquireTimeout, poolVars
<1>13. ASSUME NEW c \in Conns, Die(c) \/ DetachDone(c)
       PROVE  UNCHANGED <<idle, inUse, pendingCreates>>
  BY <1>13 DEF Die, DetachDone, poolVars
<1> QED
  BY <1>1, <1>2, <1>3, <1>4, <1>5, <1>6, <1>7, <1>8, <1>9, <1>10, <1>11, <1>12, <1>13
     DEF Next, PingSettles, ConnectSettles, vars, poolVars

LEMMA CapacityInit == Init => Capacity
<1> SUFFICES ASSUME Init PROVE CountedOnce /\ WithinMax
  BY AccountsInit DEF Capacity
<1>1. CountedOnce
  BY DEF Init, CountedOnce, Range, IsInjective
<1>2. Size = 0
  BY FS_EmptySet DEF Init, Size, Total
<1> QED
  BY <1>1, <1>2, PoolAssumption DEF WithinMax

\* The pool never holds or opens more than max connections, and never lists one
\* twice, for any number of borrowers and even when they release twice.
THEOREM PoolCapacity == Spec => [](CountedOnce /\ WithinMax)
<1>1. Capacity => CountedOnce /\ WithinMax
  BY DEF Capacity
<1> QED
  BY <1>1, CapacityInit, CapacityStep, PTL DEF Spec

-----------------------------------------------------------------------------
(* One borrower per connection, when callers release what they borrow once. *)

\* Whoever holds nothing has no reference left, and what a borrower holds is
\* reserved, unless close() has emptied the pool meanwhile.
Loans ==
    /\ \A b \in Borrowers : ~Holding(b) => conn[b] = NoConn
    /\ \A b \in Borrowers : Holding(b) => conn[b] \in Conns /\ (closed \/ conn[b] \in inUse)
    /\ ExclusiveLoan
    /\ SlotsInHand

LoanInv == Capacity /\ Loans

LEMMA ProceedLoans ==
    ASSUME LoanInv, NEW b \in Borrowers, pc[b] \in {"out", "pinging"},
           NEW bad, Proceed(b, inUse \ {conn[b]}, bad), UNCHANGED closed
    PROVE  Loans'
<1> DEFINE used == inUse \ {conn[b]}
<1> USE DEF LoanInv, Capacity, Accounts
<1>1. PICK k \in 0..Len(idle) :
        IF k > 0 THEN TakeIdle(b, k, used) ELSE OpenNew(b, used) \/ WaitForRelease(b, used)
  BY DEF Proceed
<1>2. /\ pc \in [Borrowers -> PcStates] /\ conn \in [Borrowers -> Conns \cup {NoConn}]
      /\ NoConn \notin Conns
  BY PoolAssumption DEF TypeOK
<1>3. \A c \in used : \E w \in Borrowers \ {b} : Holding(w) /\ conn[w] = c
  BY DEF Loans, SlotsInHand
<1>4. \A w \in Borrowers \ {b} : Holding(w) =>
        conn[w] \in Conns /\ (closed \/ conn[w] \in used) /\ conn[w] \notin Range(idle)
  <2> SUFFICES ASSUME NEW w \in Borrowers \ {b}, Holding(w)
               PROVE  conn[w] \in Conns /\ (closed \/ conn[w] \in used) /\ conn[w] \notin Range(idle)
    OBVIOUS
  <2>1. conn[w] \in Conns /\ (closed \/ conn[w] \in inUse) /\ conn[w] \notin Range(idle)
    BY DEF Loans, ExclusiveLoan
  <2>2. conn[w] # conn[b]
    BY <1>2, <2>1 DEF Loans, ExclusiveLoan
  <2> QED
    BY <2>1, <2>2
<1>5. CASE k > 0 /\ TakeIdle(b, k, used)
  <2> DEFINE c == idle[k]
  <2>1. k \in DOMAIN idle /\ c \in Conns /\ c \in Range(idle)
    BY <1>5 DEF TypeOK, Range
  <2>2. Range(idle') \subseteq Range(idle) \ {c}
    <3>1. DOMAIN idle' = 1..(k - 1) /\ \A j \in 1..(k - 1) : idle'[j] = idle[j] /\ j \in DOMAIN idle /\ j # k
      BY <1>5 DEF TakeIdle, Before, TypeOK
    <3> QED
      BY <2>1, <3>1 DEF CountedOnce, IsInjective, Range
  <2>3. /\ Holding(b)' /\ conn'[b] = c /\ inUse' = used \cup {c}
        /\ \A w \in Borrowers \ {b} : conn'[w] = conn[w] /\ (Holding(w)' <=> Holding(w))
    BY <1>2, <1>5 DEF TakeIdle, Holding
  <2> HIDE DEF c, used
  <2>4. \A w \in Borrowers \ {b} : Holding(w) => conn[w] # c
    BY <1>4, <2>1
  <2>5. ExclusiveLoan'
    <3>1. ASSUME NEW b1 \in Borrowers, NEW b2 \in Borrowers,
                 Holding(b1)', Holding(b2)', conn'[b1] = conn'[b2], b1 # b2
          PROVE  FALSE
      BY <2>3, <2>4, <3>1 DEF Loans, ExclusiveLoan
    <3>2. ASSUME NEW w \in Borrowers, Holding(w)' PROVE conn'[w] \notin Range(idle')
      BY <1>4, <2>2, <2>3, <3>2
    <3> QED
      BY <3>1, <3>2 DEF ExclusiveLoan
  <2>6. SlotsInHand'
    BY <1>3, <2>3 DEF SlotsInHand
  <2>7. \A w \in Borrowers : Holding(w)' => conn'[w] \in Conns /\ (closed' \/ conn'[w] \in inUse')
    BY <1>4, <2>1, <2>3
  <2>8. \A w \in Borrowers : ~Holding(w)' => conn'[w] = NoConn
    BY <2>3 DEF Loans
  <2> QED
    BY <2>5, <2>6, <2>7, <2>8 DEF Loans
<1>6. CASE OpenNew(b, used) \/ WaitForRelease(b, used)
  <2>1. /\ ~Holding(b)' /\ conn'[b] = NoConn /\ inUse' = used /\ idle' = <<>>
        /\ \A w \in Borrowers \ {b} : conn'[w] = conn[w] /\ (Holding(w)' <=> Holding(w))
    BY <1>2, <1>6 DEF OpenNew, WaitForRelease, Holding
  <2>2. Range(idle') = {}
    BY <2>1 DEF Range
  <2> HIDE DEF used
  <2>3. ExclusiveLoan'
    BY <2>1, <2>2 DEF Loans, ExclusiveLoan
  <2>4. SlotsInHand'
    BY <1>3, <2>1 DEF SlotsInHand
  <2>5. \A w \in Borrowers : Holding(w)' => conn'[w] \in Conns /\ (closed' \/ conn'[w] \in inUse')
    BY <1>4, <2>1
  <2> QED
    BY <2>1, <2>3, <2>4, <2>5 DEF Loans
<1> QED
  BY <1>1, <1>5, <1>6

\* release() by a borrower that holds c and keeps no reference to it.
LEMMA ReleaseLoans ==
    ASSUME LoanInv, NEW b \in Borrowers, Holding(b), UNCHANGED closed,
           ReleaseConn(conn[b], [pc EXCEPT ![b] = "out"], [conn EXCEPT ![b] = NoConn])
    PROVE  Loans'
<1> DEFINE c == conn[b]
           pcAfter == [pc EXCEPT ![b] = "out"]
           refAfter == [conn EXCEPT ![b] = NoConn]
<1> USE DEF LoanInv, Capacity, Accounts
<1>1. /\ pc \in [Borrowers -> PcStates] /\ conn \in [Borrowers -> Conns \cup {NoConn}]
      /\ c \in Conns /\ NoConn \notin Conns
  BY PoolAssumption DEF TypeOK, Loans
<1>2. /\ \A w \in Borrowers \ {b} : pcAfter[w] = pc[w] /\ refAfter[w] = conn[w]
      /\ pcAfter[b] = "out" /\ refAfter[b] = NoConn
  BY <1>1
<1>3. \A w \in Borrowers \ {b} : Holding(w) => conn[w] # c /\ conn[w] \notin Range(idle)
  BY DEF Loans, ExclusiveLoan
<1>4. \A d \in inUse \ {c} : \E w \in Borrowers \ {b} : Holding(w) /\ conn[w] = d
  BY DEF Loans, SlotsInHand
<1>5. /\ \A w \in Borrowers : ~Holding(w) => conn[w] = NoConn
      /\ \A w \in Borrowers : Holding(w) => conn[w] \in Conns /\ (closed \/ conn[w] \in inUse)
      /\ \A b1, b2 \in Borrowers : Holding(b1) /\ Holding(b2) /\ conn[b1] = conn[b2] => b1 = b2
  BY DEF Loans, ExclusiveLoan
<1>6. CASE /\ pc' = pcAfter /\ conn' = refAfter /\ inUse' = inUse \ {c}
           /\ Range(idle') \subseteq Range(idle) \cup {c}
  <2>1. /\ ~Holding(b)' /\ conn'[b] = NoConn
        /\ \A w \in Borrowers \ {b} : conn'[w] = conn[w] /\ (Holding(w)' <=> Holding(w))
    BY <1>2, <1>6 DEF Holding
  <2> HIDE DEF c, pcAfter, refAfter
  <2>2. ExclusiveLoan'
    BY <1>3, <1>5, <1>6, <2>1 DEF ExclusiveLoan
  <2>3. SlotsInHand'
    BY <1>4, <1>6, <2>1 DEF SlotsInHand
  <2>4. \A w \in Borrowers : Holding(w)' => conn'[w] \in Conns /\ (closed' \/ conn'[w] \in inUse')
    BY <1>3, <1>5, <1>6, <2>1
  <2> QED
    BY <1>5, <2>1, <2>2, <2>3, <2>4 DEF Loans
<1>7. CASE /\ c \in inUse /\ waiters # <<>> /\ UNCHANGED <<idle, inUse>>
           /\ pc' = [pcAfter EXCEPT ![Head(waiters)] = "using"]
           /\ conn' = [refAfter EXCEPT ![Head(waiters)] = c]
  <2>0. Head(waiters) \in Range(waiters)
    BY <1>7, TailDistinct DEF TypeOK, QueueExact
  <2>1. PICK h \in Borrowers : h = Head(waiters) /\ pc[h] = "waiting"
    BY <2>0 DEF QueueExact
  <2>2. h # b /\ ~Holding(h)
    BY <2>1 DEF Holding
  <2>3. /\ ~Holding(b)' /\ conn'[b] = NoConn /\ Holding(h)' /\ conn'[h] = c
        /\ \A w \in Borrowers \ {b, h} : conn'[w] = conn[w] /\ (Holding(w)' <=> Holding(w))
    <3>1. \A w \in Borrowers : /\ pc'[w] = IF w = h THEN "using" ELSE pcAfter[w]
                               /\ conn'[w] = IF w = h THEN c ELSE refAfter[w]
      BY <1>1, <1>7, <2>1
    <3> HIDE DEF c, pcAfter, refAfter, LoanInv, Capacity, Accounts
    <3>2. h \in Borrowers /\ h # b
      BY <2>1, <2>2
    <3>3. pc'[b] = "out" /\ conn'[b] = NoConn
      BY <1>2, <3>1, <3>2
    <3>4. pc'[h] = "using" /\ conn'[h] = c
      BY <3>1, <3>2
    <3>5. \A w \in Borrowers \ {b, h} : pc'[w] = pc[w] /\ conn'[w] = conn[w]
      BY <1>2, <3>1
    <3> QED
      BY <3>3, <3>4, <3>5 DEF Holding
  <2>4. c \notin Range(idle)
    BY <1>7 DEF CountedOnce
  <2> HIDE DEF c, pcAfter, refAfter, LoanInv, Capacity, Accounts
  <2>5. ExclusiveLoan'
    <3>1. ASSUME NEW b1 \in Borrowers, NEW b2 \in Borrowers,
                 Holding(b1)', Holding(b2)', conn'[b1] = conn'[b2], b1 # b2
          PROVE  FALSE
      BY <1>3, <1>5, <2>3, <3>1
    <3>2. ASSUME NEW w \in Borrowers, Holding(w)' PROVE conn'[w] \notin Range(idle')
      BY <1>3, <1>7, <2>3, <2>4, <3>2
    <3> QED
      BY <3>1, <3>2 DEF ExclusiveLoan
  <2>6. SlotsInHand'
    <3> SUFFICES ASSUME NEW d \in inUse PROVE \E w \in Borrowers : Holding(w)' /\ conn'[w] = d
      BY <1>7 DEF SlotsInHand
    <3>1. CASE d = c
      BY <2>1, <2>3, <3>1
    <3>2. CASE d # c
      <4>1. PICK w \in Borrowers \ {b} : Holding(w) /\ conn[w] = d
        BY <1>4, <3>2
      <4>2. w \in Borrowers \ {b, h}
        BY <4>1, <2>2
      <4> QED
        BY <4>1, <4>2, <2>3
    <3> QED
      BY <3>1, <3>2
  <2>7. \A w \in Borrowers : Holding(w)' => conn'[w] \in Conns /\ (closed' \/ conn'[w] \in inUse')
    BY <1>1, <1>5, <1>7, <2>3 DEF c
  <2>8. ASSUME NEW w \in Borrowers, ~Holding(w)' PROVE conn'[w] = NoConn
    <3>1. CASE w = b
      BY <2>3, <3>1
    <3>2. CASE w # b
      <4>1. w \in Borrowers \ {b, h}
        BY <2>3, <2>8, <3>2
      <4> QED
        BY <1>5, <2>3, <2>8, <4>1
    <3> QED
      BY <3>1, <3>2
  <2> QED
    BY <2>5, <2>6, <2>7, <2>8 DEF Loans
<1>8. Range(Append(idle, c)) = Range(idle) \cup {c}
  BY <1>1, AppendDistinct DEF TypeOK
<1>9. \/ /\ pc' = pcAfter /\ conn' = refAfter /\ inUse' = inUse \ {c}
         /\ idle' \in {idle, Append(idle, c)}
      \/ /\ c \in inUse /\ waiters # <<>> /\ UNCHANGED <<idle, inUse>>
         /\ pc' = [pcAfter EXCEPT ![Head(waiters)] = "using"]
         /\ conn' = [refAfter EXCEPT ![Head(waiters)] = c]
  BY DEF ReleaseConn
<1> HIDE DEF c, pcAfter, refAfter
<1> QED
  BY <1>6, <1>7, <1>8, <1>9

\* A step that leaves the borrowers what they have, and makes idle nothing they hold.
LEMMA SameLoans ==
    ASSUME Loans, conn' = conn, inUse' = inUse, closed' = closed,
           \A w \in Borrowers : Holding(w)' <=> Holding(w),
           \A w \in Borrowers : Holding(w) => conn[w] \notin Range(idle')
    PROVE  Loans'
<1>1. ExclusiveLoan'
  BY DEF Loans, ExclusiveLoan
<1>2. SlotsInHand'
  BY DEF Loans, SlotsInHand
<1> QED
  BY <1>1, <1>2 DEF Loans

LEMMA ConnectLoans ==
    ASSUME LoanInv, NEW b \in Borrowers, ConnectOk(b)
    PROVE  Loans'
<1> USE DEF LoanInv, Capacity, Accounts
<1>1. PICK c \in Conns : Fresh(c) /\ inUse' = inUse \cup {c} /\ conn' = [conn EXCEPT ![b] = c]
  BY DEF ConnectOk
<1>2. c \notin Range(idle) /\ \A w \in Borrowers : conn[w] # c
  BY <1>1 DEF Fresh
<1>3. /\ ~Holding(b) /\ Holding(b)' /\ conn'[b] = c
      /\ \A w \in Borrowers \ {b} : conn'[w] = conn[w] /\ (Holding(w)' <=> Holding(w))
  BY <1>1 DEF ConnectOk, TypeOK, Holding
<1>4. idle' = idle /\ closed' = closed
  BY DEF ConnectOk
<1> HIDE DEF LoanInv, Capacity, Accounts
<1>5. Loans
  BY DEF LoanInv
<1>6. ExclusiveLoan'
  <2>1. ASSUME NEW b1 \in Borrowers, NEW b2 \in Borrowers,
               Holding(b1)', Holding(b2)', conn'[b1] = conn'[b2], b1 # b2
        PROVE  FALSE
    BY <1>2, <1>3, <1>5, <2>1 DEF Loans, ExclusiveLoan
  <2>2. ASSUME NEW w \in Borrowers, Holding(w)' PROVE conn'[w] \notin Range(idle')
    BY <1>2, <1>3, <1>4, <1>5, <2>2 DEF Loans, ExclusiveLoan
  <2> QED
    BY <2>1, <2>2 DEF ExclusiveLoan
<1>7. SlotsInHand'
  <2> SUFFICES ASSUME NEW d \in inUse \cup {c} PROVE \E w \in Borrowers : Holding(w)' /\ conn'[w] = d
    BY <1>1 DEF SlotsInHand
  <2>1. CASE d = c
    BY <1>3, <2>1
  <2>2. CASE d \in inUse
    BY <1>3, <1>5, <2>2 DEF Loans, SlotsInHand
  <2> QED
    BY <2>1, <2>2
<1>8. \A w \in Borrowers : Holding(w)' => conn'[w] \in Conns /\ (closed' \/ conn'[w] \in inUse')
  BY <1>1, <1>3, <1>4, <1>5 DEF Loans
<1>9. \A w \in Borrowers : ~Holding(w)' => conn'[w] = NoConn
  BY <1>3, <1>5 DEF Loans
<1> QED
  BY <1>6, <1>7, <1>8, <1>9 DEF Loans

\* close() takes everything from the pool; the borrowers keep what they hold.
LEMMA CloseLoans ==
    ASSUME LoanInv, Close
    PROVE  Loans'
<1>1. Loans /\ pc \in [Borrowers -> PcStates] /\ QueueExact
  BY DEF LoanInv, Capacity, Accounts, TypeOK
<1>2. conn' = conn /\ \A w \in Borrowers : Holding(w)' <=> Holding(w)
  BY <1>1 DEF Close, Holding, QueueExact
<1>3. closed' /\ inUse' = {} /\ idle' = <<>> /\ Range(idle') = {}
  BY DEF Close, Range
<1>4. ExclusiveLoan'
  BY <1>1, <1>2, <1>3 DEF Loans, ExclusiveLoan
<1>5. SlotsInHand'
  BY <1>3 DEF SlotsInHand
<1> QED
  BY <1>1, <1>2, <1>3, <1>4, <1>5 DEF Loans

LEMMA LoansStep ==
    ASSUME "doubleRelease" \notin Events, LoanInv, [Next]_vars
    PROVE  Loans'
<1> USE DEF LoanInv, Capacity, Accounts
<1>0. /\ pc \in [Borrowers -> PcStates] /\ NoConn \notin Conns
      /\ \A w \in Borrowers : Holding(w) => conn[w] \notin Range(idle)
      /\ \A w \in Borrowers : ~Holding(w) => conn[w] = NoConn
  BY PoolAssumption DEF TypeOK, Loans, ExclusiveLoan
<1>1. ASSUME NEW b \in Borrowers, Acquire(b) PROVE Loans'
  <2>1. inUse \ {conn[b]} = inUse
    BY <1>0, <1>1 DEF Acquire, Holding, TypeOK
  <2>2. pc[b] \in {"out", "pinging"} /\ Proceed(b, inUse \ {conn[b]}, {}) /\ UNCHANGED closed
    BY <1>1, <2>1 DEF Acquire
  <2> QED
    BY <2>2, ProceedLoans
<1>2. ASSUME NEW b \in Borrowers, PingFail(b) PROVE Loans'
  BY <1>2, ProceedLoans DEF PingFail
<1>3. ASSUME NEW b \in Borrowers, ConnectOk(b) PROVE Loans'
  BY <1>3, ConnectLoans
<1>4. ASSUME NEW b \in Borrowers, Release(b) PROVE Loans'
  BY <1>4, ReleaseLoans DEF Release, Holding
<1>5. ASSUME NEW b \in Borrowers, PingOk(b) \/ ConnectFail(b) \/ AcquireTimeout(b) PROVE Loans'
  <2>1. UNCHANGED <<conn, inUse, closed, idle>>
    BY <1>5 DEF PingOk, ConnectFail, AcquireTimeout, poolVars
  <2>2. \A w \in Borrowers : Holding(w)' <=> Holding(w)
    BY <1>0, <1>5 DEF PingOk, ConnectFail, AcquireTimeout, Holding
  <2> QED
    BY <1>0, <2>1, <2>2, SameLoans
<1>6. CASE CreateIntoOk
  <2>1. PICK c \in Conns : Fresh(c) /\ idle' = Append(idle, c)
    BY <1>6 DEF CreateIntoOk
  <2>2. Range(idle') = Range(idle) \cup {c}
    BY <2>1, AppendDistinct DEF TypeOK
  <2>3. UNCHANGED <<pc, conn, inUse, closed>> /\ \A w \in Borrowers : conn[w] # c
    BY <1>6, <2>1 DEF CreateIntoOk, Fresh
  <2> QED
    BY <1>0, <2>2, <2>3, SameLoans DEF Holding
<1>7. CASE SweepIdle
  <2>1. PICK n \in 0..Len(idle) : \E keep \in [1..n -> DOMAIN idle] :
          idle' = [i \in 1..n |-> idle[keep[i]]]
    BY <1>7 DEF SweepIdle
  <2>2. Range(idle') \subseteq Range(idle)
    BY <2>1 DEF Range
  <2>3. UNCHANGED <<pc, conn, inUse, closed>>
    BY <1>7 DEF SweepIdle
  <2> QED
    BY <1>0, <2>2, <2>3, SameLoans DEF Holding
<1>8. CASE Close
  BY <1>8, CloseLoans
<1>9. CASE UNCHANGED <<pc, conn, inUse, closed, idle>>
  BY <1>0, <1>9, SameLoans DEF Holding
<1>10. ASSUME Warmup \/ CreateIntoFail \/ \E c \in Conns : Die(c) \/ DetachDone(c)
       PROVE  UNCHANGED <<pc, conn, inUse, closed, idle>>
  BY <1>10 DEF Warmup, CreateIntoFail, Die, DetachDone, poolVars
<1>11. \A b \in Borrowers : ~ReleaseAgain(b)
  BY DEF ReleaseAgain
<1> QED
  BY <1>1, <1>2, <1>3, <1>4, <1>5, <1>6, <1>7, <1>8, <1>9, <1>10, <1>11
     DEF Next, PingSettles, ConnectSettles, vars, poolVars

\* When callers release once, no two of them ever have the same connection, an
\* idle one is nobody's, and every connection in use is in somebody's hands.
THEOREM PoolLoans ==
    ASSUME "doubleRelease" \notin Events
    PROVE  Spec => [](ExclusiveLoan /\ SlotsInHand)
<1>1. Init => LoanInv
  <2> SUFFICES ASSUME Init PROVE Loans /\ CountedOnce /\ WithinMax
    BY AccountsInit DEF LoanInv, Capacity
  <2>1. CountedOnce /\ WithinMax
    BY CapacityInit DEF Capacity
  <2>2. \A b \in Borrowers : ~Holding(b) /\ conn[b] = NoConn
    BY DEF Init, Holding
  <2>3. inUse = {}
    BY DEF Init
  <2> QED
    BY <2>1, <2>2, <2>3 DEF Loans, ExclusiveLoan, SlotsInHand
<1>2. LoanInv /\ [Next]_vars => LoanInv'
  BY CapacityStep, LoansStep DEF LoanInv
<1>3. LoanInv => ExclusiveLoan /\ SlotsInHand
  BY DEF LoanInv, Loans
<1> QED
  BY <1>1, <1>2, <1>3, PTL DEF Spec

-----------------------------------------------------------------------------
\* What NoOrphan rests on: the pool itself lists every open connection, those
\* borrowers hold included; a connection it drops is disconnected in that step.
Listed == \A c \in Conns : link[c] = "open" => c \in Range(idle) \cup inUse

\* disconnect() leaves no connection open and opens none.
LEMMA DisconnectCloses ==
    ASSUME NEW S, NEW c \in Conns, Disconnect(S)[c] = "open"
    PROVE  link[c] = "open" /\ c \notin S
<1>1. Disconnect(S)[c] = IF c \in S THEN Disconnected(link[c]) ELSE link[c]
  BY DEF Disconnect
<1>2. Disconnected(link[c]) # "open"
  BY DEF Disconnected
<1> QED
  BY <1>1, <1>2

\* What acquire() throws away it has found dead, or disconnects as the bad one.
LEMMA ProceedLists ==
    ASSUME TypeOK, Listed, NEW b \in Borrowers, NEW bad, Proceed(b, inUse \ bad, bad)
    PROVE  Listed'
<1>1. PICK k \in 0..Len(idle) :
        /\ link' = Disconnect({idle[j] : j \in (k + 1)..Len(idle)} \cup bad)
        /\ IF k > 0 THEN TakeIdle(b, k, inUse \ bad)
                    ELSE OpenNew(b, inUse \ bad) \/ WaitForRelease(b, inUse \ bad)
  BY DEF Proceed
<1> SUFFICES ASSUME NEW c \in Conns, link'[c] = "open" PROVE c \in Range(idle') \cup inUse'
  BY DEF Listed
<1>2. /\ link[c] = "open" /\ c \notin bad
      /\ \A j \in (k + 1)..Len(idle) : c # idle[j]
  BY <1>1, DisconnectCloses
<1>3. CASE c \in inUse
  BY <1>1, <1>2, <1>3 DEF TakeIdle, OpenNew, WaitForRelease
<1>4. CASE c \in Range(idle)
  <2>1. PICK i \in 1..Len(idle) : c = idle[i]
    BY <1>4 DEF TypeOK, Range
  <2>2. i \in 1..k /\ k > 0
    BY <1>2, <2>1 DEF TypeOK
  <2>3. idle' = Before(k) /\ inUse' = (inUse \ bad) \cup {idle[k]}
    BY <1>1, <2>2 DEF TakeIdle
  <2>4. CASE i = k
    BY <2>1, <2>3, <2>4
  <2>5. CASE i # k
    <3>1. i \in 1..(k - 1)
      BY <2>2, <2>5
    <3>2. DOMAIN idle' = 1..(k - 1) /\ \A j \in 1..(k - 1) : idle'[j] = idle[j]
      BY <2>2, <2>3 DEF Before, TypeOK
    <3> QED
      BY <2>1, <3>1, <3>2 DEF Range
  <2> QED
    BY <2>4, <2>5
<1> QED
  BY <1>2, <1>3, <1>4 DEF Listed

\* release() disconnects what it does not keep, whoever calls it.
LEMMA ReleaseLists ==
    ASSUME TypeOK, Listed, NEW c, NEW pcAfter, NEW refAfter, ReleaseConn(c, pcAfter, refAfter)
    PROVE  Listed'
<1>1. CASE UNCHANGED <<idle, inUse, link>>
  BY <1>1 DEF Listed
<1>2. CASE inUse' = inUse \ {c} /\ link' = Disconnect({c}) /\ idle' = idle
  BY <1>2, DisconnectCloses DEF Listed
<1>3. CASE c \in inUse /\ inUse' = inUse \ {c} /\ idle' = Append(idle, c) /\ link' = link
  <2>1. Range(idle') = Range(idle) \cup {c}
    BY <1>3, AppendDistinct DEF TypeOK
  <2> QED
    BY <1>3, <2>1 DEF Listed
<1> QED
  BY <1>1, <1>2, <1>3 DEF ReleaseConn

\* A new connection is listed as it opens, among the idle or in use.
LEMMA NewLists ==
    ASSUME Listed, NEW c \in Conns, link' = [link EXCEPT ![c] = "open"],
           TypeOK, Range(idle) \cup inUse \cup {c} \subseteq Range(idle') \cup inUse'
    PROVE  Listed'
BY DEF Listed, TypeOK

\* The sweep keeps what it does not disconnect.
LEMMA SweepLists ==
    ASSUME TypeOK, Listed, SweepIdle
    PROVE  Listed'
<1>1. PICK n \in 0..Len(idle) : \E keep \in [1..n -> DOMAIN idle] :
        /\ idle' = [i \in 1..n |-> idle[keep[i]]]
        /\ link' = Disconnect({idle[i] : i \in DOMAIN idle \ Range(keep)})
  BY DEF SweepIdle
<1>2. PICK keep \in [1..n -> DOMAIN idle] :
        /\ idle' = [i \in 1..n |-> idle[keep[i]]]
        /\ link' = Disconnect({idle[i] : i \in DOMAIN idle \ Range(keep)})
  BY <1>1
<1> SUFFICES ASSUME NEW c \in Conns, link'[c] = "open" PROVE c \in Range(idle') \cup inUse'
  BY DEF Listed
<1>3. link[c] = "open" /\ c \notin {idle[i] : i \in DOMAIN idle \ Range(keep)}
  BY <1>2, DisconnectCloses
<1>4. inUse' = inUse
  BY DEF SweepIdle
<1>5. CASE c \in Range(idle)
  <2>1. PICK i \in DOMAIN idle : c = idle[i]
    BY <1>5 DEF Range
  <2>2. PICK m \in 1..n : keep[m] = i
    BY <1>3, <2>1 DEF Range
  <2>3. m \in DOMAIN idle' /\ idle'[m] = c
    BY <1>2, <2>1, <2>2
  <2> QED
    BY <2>3 DEF Range
<1> QED
  BY <1>3, <1>4, <1>5 DEF Listed

LEMMA ListedStep ==
    ASSUME TypeOK, Listed, [Next]_vars
    PROVE  Listed'
<1>1. ASSUME NEW b \in Borrowers, Acquire(b) PROVE Listed'
  <2>1. inUse \ {} = inUse
    OBVIOUS
  <2>2. Proceed(b, inUse \ {}, {})
    BY <1>1, <2>1 DEF Acquire
  <2> QED
    BY <2>2, ProceedLists
<1>2. ASSUME NEW b \in Borrowers, PingFail(b) PROVE Listed'
  BY <1>2, ProceedLists DEF PingFail
<1>3. ASSUME NEW b \in Borrowers, ConnectOk(b) PROVE Listed'
  <2>1. PICK c \in Conns : link' = [link EXCEPT ![c] = "open"] /\ inUse' = inUse \cup {c}
    BY <1>3 DEF ConnectOk
  <2>2. idle' = idle
    BY <1>3 DEF ConnectOk
  <2> QED
    BY <2>1, <2>2, NewLists
<1>4. ASSUME NEW b \in Borrowers, Release(b) \/ ReleaseAgain(b) PROVE Listed'
  BY <1>4, ReleaseLists DEF Release, ReleaseAgain
<1>5. CASE CreateIntoOk
  <2>1. PICK c \in Conns : link' = [link EXCEPT ![c] = "open"] /\ idle' = Append(idle, c)
    BY <1>5 DEF CreateIntoOk
  <2>2. inUse' = inUse /\ Range(idle') = Range(idle) \cup {c}
    BY <1>5, <2>1, AppendDistinct DEF CreateIntoOk, TypeOK
  <2> QED
    BY <2>1, <2>2, NewLists
<1>6. CASE SweepIdle
  BY <1>6, SweepLists
<1>7. CASE Close
  <2> SUFFICES ASSUME NEW c \in Conns, link'[c] = "open" PROVE FALSE
    BY DEF Listed
  <2>1. link[c] = "open" /\ c \notin Range(idle) \cup inUse
    BY <1>7, DisconnectCloses DEF Close
  <2> QED
    BY <2>1 DEF Listed
<1>8. ASSUME NEW c \in Conns, Die(c) \/ DetachDone(c) PROVE Listed'
  <2>1. idle' = idle /\ inUse' = inUse
    BY <1>8 DEF Die, DetachDone, poolVars
  <2>2. \A d \in Conns : link'[d] = "open" => link[d] = "open"
    BY <1>8 DEF Die, DetachDone, TypeOK
  <2> QED
    BY <2>1, <2>2 DEF Listed
<1>9. CASE UNCHANGED <<idle, inUse, link>>
  BY <1>9 DEF Listed
<1>10. ASSUME NEW b \in Borrowers, PingOk(b) \/ ConnectFail(b) \/ AcquireTimeout(b)
       PROVE  UNCHANGED <<idle, inUse, link>>
  BY <1>10 DEF PingOk, ConnectFail, AcquireTimeout, poolVars
<1>11. ASSUME Warmup \/ CreateIntoFail PROVE UNCHANGED <<idle, inUse, link>>
  BY <1>11 DEF Warmup, CreateIntoFail
<1> QED
  BY <1>1, <1>2, <1>3, <1>4, <1>5, <1>6, <1>7, <1>8, <1>9, <1>10, <1>11
     DEF Next, PingSettles, ConnectSettles, vars, poolVars

\* No open connection is lost track of, whatever fails, times out, is closed or
\* is released twice, in whatever order.
THEOREM PoolKeepsTrack == Spec => []NoOrphan
<1>1. Init => Listed
  BY DEF Init, Listed
<1>2. TypeOK /\ Listed /\ [Next]_vars => Listed'
  BY ListedStep
<1>3. Spec => []TypeOK
  <2>1. Accounts => TypeOK
    BY DEF Accounts
  <2> QED
    BY AccountsInit, AccountsStep, <2>1, PTL DEF Spec
<1>4. Listed => NoOrphan
  BY DEF Listed, NoOrphan
<1> QED
  BY <1>1, <1>2, <1>3, <1>4, PTL DEF Spec
=============================================================================
