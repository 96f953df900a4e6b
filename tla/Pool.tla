-------------------------------- MODULE Pool --------------------------------
(***************************************************************************)
(* The connection pool of packages/core/src/pool/pool.ts.                  *)
(*                                                                         *)
(* JavaScript runs a callback to its next `await` without interruption, so *)
(* every action below is the code between two awaits: the whole of         *)
(* release() and of the sweep timer's callback, and acquire() cut at its   *)
(* ping, at its connect and at its wait for a release.                     *)
(*                                                                         *)
(* Operators named ...Mutant, ...Leaks, ...Keeps... and the like are what  *)
(* a slip in the code would make of the definition they stand before. No   *)
(* specification uses them: they show that the properties would notice.    *)
(***************************************************************************)
EXTENDS Naturals, Sequences, FiniteSets, Functions, SequencesExt

CONSTANTS
    Conns,          \* Attachment objects the program can have at one time
    Borrowers,      \* concurrent callers of acquire() (use, query, map workers)
    NoConn,         \* "no connection"
    min, max,       \* options.min and options.max, after the constructor's clamps
    Validate,       \* options.validateOnAcquire
    Sweeping,       \* options.idleTimeoutMs > 0
    Events          \* what may happen around the pool, a subset of AllEvents

AllEvents == {"warmup", "connectFail", "pingFail", "die", "timeout", "close", "doubleRelease"}

ASSUME PoolAssumption ==
    /\ IsFiniteSet(Conns) /\ IsFiniteSet(Borrowers)
    /\ NoConn \notin Conns
    /\ min \in Nat /\ max \in Nat \ {0}
    /\ Validate \in BOOLEAN /\ Sweeping \in BOOLEAN
    /\ Events \subseteq AllEvents

VARIABLES
    idle,           \* IdleEntry[]: pushed and popped at its end
    inUse,          \* Set<Attachment>
    waiters,        \* Waiter[], served from its front
    pendingCreates, \* connects in flight
    closed,
    sweepTimer,     \* is the interval timer set
    warming,        \* createInto() calls in flight
    warmFailed,     \* one of the running warmup's createInto() calls has failed
    pc,             \* where each borrower is in acquire() and after it
    conn,           \* the connection each borrower has in hand
    link            \* each Attachment: its socket, and whether disconnect() runs

poolVars == <<idle, inUse, waiters, pendingCreates, closed, sweepTimer>>
warmVars == <<warming, warmFailed>>
vars == <<poolVars, warmVars, pc, conn, link>>

PcStates == {"out", "pinging", "connecting", "waiting", "using"}
LinkStates == {"free", "open", "dead", "closing"}

TypeOK ==
    /\ idle \in Seq(Conns) /\ inUse \in SUBSET Conns
    /\ waiters \in Seq(Borrowers) /\ pendingCreates \in Nat
    /\ closed \in BOOLEAN /\ sweepTimer \in BOOLEAN
    /\ warming \in Nat /\ warmFailed \in BOOLEAN
    /\ pc \in [Borrowers -> PcStates]
    /\ conn \in [Borrowers -> Conns \cup {NoConn}]
    /\ link \in [Conns -> LinkStates]

Init ==
    /\ idle = <<>> /\ inUse = {} /\ waiters = <<>>
    /\ pendingCreates = 0 /\ closed = FALSE /\ sweepTimer = FALSE
    /\ warming = 0 /\ warmFailed = FALSE
    /\ pc = [b \in Borrowers |-> "out"]
    /\ conn = [b \in Borrowers |-> NoConn]
    /\ link = [c \in Conns |-> "free"]

-----------------------------------------------------------------------------
Total == Len(idle) + Cardinality(inUse)
Size == Total + pendingCreates

IsAlive(c) == link[c] = "open"

\* An Attachment object nothing refers to any more: connect() may return it anew.
Fresh(c) ==
    link[c] = "free" /\ c \notin Range(idle) \cup inUse /\ \A b \in Borrowers : conn[b] # c

\* Attachment.disconnect() detaches over a live socket, and only drops a dead one.
Disconnected(s) == CASE s = "open" -> "closing" [] s = "dead" -> "free" [] OTHER -> s
Disconnect(S) == [c \in Conns |-> IF c \in S THEN Disconnected(link[c]) ELSE link[c]]

EnsureSweep == sweepTimer \/ Sweeping

HasRoomMutant(used) == Cardinality(used) < max
HasRoom(used) == Cardinality(used) + pendingCreates < max

BeforeMutant(k) == SubSeq(idle, 1, k)

\* What is left of idle once its k-th entry and those behind it are taken.
Before(k) == SubSeq(idle, 1, k - 1)

UnfitMutant(c) == ~IsAlive(c)
Unfit(c) == closed \/ ~IsAlive(c)

-----------------------------------------------------------------------------
\* The three ways on from the top of acquire()'s loop, `used` being inUse by then.
TakeIdle(b, k, used) ==
    /\ IsAlive(idle[k])
    /\ idle' = Before(k)
    /\ inUse' = used \cup {idle[k]}
    /\ conn' = [conn EXCEPT ![b] = idle[k]]
    /\ pc' = [pc EXCEPT ![b] = IF Validate THEN "pinging" ELSE "using"]
    /\ UNCHANGED <<waiters, pendingCreates>>

OpenNew(b, used) ==
    /\ HasRoom(used)
    /\ idle' = <<>> /\ inUse' = used
    /\ pendingCreates' = pendingCreates + 1
    /\ conn' = [conn EXCEPT ![b] = NoConn]
    /\ pc' = [pc EXCEPT ![b] = "connecting"]
    /\ UNCHANGED waiters

WaitForRelease(b, used) ==
    /\ ~HasRoom(used)
    /\ idle' = <<>> /\ inUse' = used
    /\ waiters' = Append(waiters, b)
    /\ conn' = [conn EXCEPT ![b] = NoConn]
    /\ pc' = [pc EXCEPT ![b] = "waiting"]
    /\ UNCHANGED pendingCreates

\* Idle entries are taken from the end, the dead ones thrown away like `bad`, the
\* connection just given up; when none is left, connect if there is room, else wait.
Proceed(b, used, bad) ==
    \E k \in 0..Len(idle) :
        LET dropped == {idle[j] : j \in (k + 1)..Len(idle)} IN
        /\ \A c \in dropped : ~IsAlive(c)
        /\ link' = Disconnect(dropped \cup bad)
        /\ IF k > 0 THEN TakeIdle(b, k, used)
                    ELSE OpenNew(b, used) \/ WaitForRelease(b, used)

Acquire(b) ==
    /\ pc[b] = "out" /\ ~closed
    /\ sweepTimer' = EnsureSweep
    /\ Proceed(b, inUse, {})
    /\ UNCHANGED <<closed, warmVars>>

\* close() may disconnect the connection under the ping, which is then answered
\* or not before the socket goes.
PingOk(b) ==
    /\ pc[b] = "pinging" /\ link[conn[b]] \in {"open", "closing"}
    /\ pc' = [pc EXCEPT ![b] = "using"]
    /\ UNCHANGED <<poolVars, warmVars, conn, link>>

PingFailKeepsSlot(b) ==
    /\ pc[b] = "pinging"
    /\ link[conn[b]] \in {"dead", "free"} \/ "pingFail" \in Events
    /\ Proceed(b, inUse, {conn[b]})
    /\ UNCHANGED <<closed, sweepTimer, warmVars>>

PingFailKeepsOpen(b) ==
    /\ pc[b] = "pinging"
    /\ link[conn[b]] \in {"dead", "free"} \/ "pingFail" \in Events
    /\ Proceed(b, inUse \ {conn[b]}, {})
    /\ UNCHANGED <<closed, sweepTimer, warmVars>>

PingFail(b) ==
    /\ pc[b] = "pinging"
    /\ link[conn[b]] \in {"dead", "free"} \/ "pingFail" \in Events
    /\ Proceed(b, inUse \ {conn[b]}, {conn[b]})
    /\ UNCHANGED <<closed, sweepTimer, warmVars>>

ConnectOk(b) ==
    /\ pc[b] = "connecting"
    /\ \E c \in Conns :
        /\ Fresh(c)
        /\ link' = [link EXCEPT ![c] = "open"]
        /\ inUse' = inUse \cup {c}
        /\ conn' = [conn EXCEPT ![b] = c]
    /\ pendingCreates' = pendingCreates - 1
    /\ pc' = [pc EXCEPT ![b] = "using"]
    /\ UNCHANGED <<idle, waiters, closed, sweepTimer, warmVars>>

ConnectFailLeaks(b) ==
    /\ "connectFail" \in Events /\ pc[b] = "connecting"
    /\ pc' = [pc EXCEPT ![b] = "out"]
    /\ UNCHANGED <<poolVars, warmVars, conn, link>>

ConnectFailTwice(b) ==
    /\ "connectFail" \in Events /\ pc[b] = "connecting"
    /\ pendingCreates' = pendingCreates - 2
    /\ pc' = [pc EXCEPT ![b] = "out"]
    /\ UNCHANGED <<idle, inUse, waiters, closed, sweepTimer, warmVars, conn, link>>

ConnectFail(b) ==
    /\ "connectFail" \in Events /\ pc[b] = "connecting"
    /\ pendingCreates' = pendingCreates - 1
    /\ pc' = [pc EXCEPT ![b] = "out"]
    /\ UNCHANGED <<idle, inUse, waiters, closed, sweepTimer, warmVars, conn, link>>

AcquireTimeoutStays(b) ==
    /\ "timeout" \in Events /\ pc[b] = "waiting"
    /\ pc' = [pc EXCEPT ![b] = "out"]
    /\ UNCHANGED <<poolVars, warmVars, conn, link>>

AcquireTimeout(b) ==
    /\ "timeout" \in Events /\ pc[b] = "waiting"
    /\ \E i \in DOMAIN waiters : waiters[i] = b /\ waiters' = RemoveAt(waiters, i)
    /\ pc' = [pc EXCEPT ![b] = "out"]
    /\ UNCHANGED <<idle, inUse, pendingCreates, closed, sweepTimer, warmVars, conn, link>>

-----------------------------------------------------------------------------
\* release(c), the caller's own pc and reference becoming pcAfter and refAfter.
\* A connection that is still good goes to the first waiter, or is idle again.
ReleaseConn(c, pcAfter, refAfter) ==
    \/ /\ c \notin inUse
       /\ pc' = pcAfter /\ conn' = refAfter
       /\ UNCHANGED <<idle, inUse, waiters, link>>
    \/ /\ c \in inUse /\ Unfit(c)
       /\ inUse' = inUse \ {c}
       /\ link' = Disconnect({c})
       /\ pc' = pcAfter /\ conn' = refAfter
       /\ UNCHANGED <<idle, waiters>>
    \/ /\ c \in inUse /\ ~Unfit(c) /\ waiters # <<>>
       /\ waiters' = Tail(waiters)
       /\ pc' = [pcAfter EXCEPT ![Head(waiters)] = "using"]
       /\ conn' = [refAfter EXCEPT ![Head(waiters)] = c]
       /\ UNCHANGED <<idle, inUse, link>>
    \/ /\ c \in inUse /\ ~Unfit(c) /\ waiters = <<>>
       /\ inUse' = inUse \ {c}
       /\ idle' = Append(idle, c)
       /\ pc' = pcAfter /\ conn' = refAfter
       /\ UNCHANGED <<waiters, link>>

ReleaseForgotten(b) ==
    /\ pc[b] = "using"
    /\ pc' = [pc EXCEPT ![b] = "out"]
    /\ conn' = [conn EXCEPT ![b] = NoConn]
    /\ UNCHANGED <<poolVars, warmVars, link>>

Release(b) ==
    /\ pc[b] = "using"
    /\ ReleaseConn(conn[b], [pc EXCEPT ![b] = "out"],
                   IF "doubleRelease" \in Events THEN conn ELSE [conn EXCEPT ![b] = NoConn])
    /\ UNCHANGED <<pendingCreates, closed, sweepTimer, warmVars>>

\* A caller that kept its reference releases it a second time.
ReleaseAgain(b) ==
    /\ "doubleRelease" \in Events /\ pc[b] = "out" /\ conn[b] # NoConn
    /\ ReleaseConn(conn[b], pc, [conn EXCEPT ![b] = NoConn])
    /\ UNCHANGED <<pendingCreates, closed, sweepTimer, warmVars>>

-----------------------------------------------------------------------------
Warmup ==
    /\ "warmup" \in Events /\ warming = 0
    /\ \/ /\ Size < min
          /\ warming' = min - Size
          /\ pendingCreates' = pendingCreates + (min - Size)
          /\ warmFailed' = FALSE
          /\ UNCHANGED sweepTimer
       \/ /\ Size >= min
          /\ sweepTimer' = EnsureSweep
          /\ UNCHANGED <<warming, pendingCreates, warmFailed>>
    /\ UNCHANGED <<idle, inUse, waiters, closed, pc, conn, link>>

CreateIntoOk ==
    /\ warming > 0
    /\ \E c \in Conns :
        /\ Fresh(c)
        /\ link' = [link EXCEPT ![c] = "open"]
        /\ idle' = Append(idle, c)
    /\ pendingCreates' = pendingCreates - 1
    /\ warming' = warming - 1
    /\ sweepTimer' = IF warming = 1 /\ ~warmFailed THEN EnsureSweep ELSE sweepTimer
    /\ UNCHANGED <<inUse, waiters, closed, warmFailed, pc, conn>>

CreateIntoFail ==
    /\ "connectFail" \in Events /\ warming > 0
    /\ pendingCreates' = pendingCreates - 1
    /\ warming' = warming - 1
    /\ warmFailed' = TRUE
    /\ UNCHANGED <<idle, inUse, waiters, closed, sweepTimer, pc, conn, link>>

-----------------------------------------------------------------------------
\* sweepIdle() looks at the idle entries from the newest to the oldest and
\* closes those that are old (a prefix of idle) or dead while more than min
\* connections are left. `keep` lists the places that stay, in order.
SweepIdle ==
    /\ sweepTimer
    /\ \E old \in 0..Len(idle), n \in 0..Len(idle) : \E keep \in [1..n -> DOMAIN idle] :
        LET evictable == {i \in DOMAIN idle : i <= old \/ ~IsAlive(idle[i])}
            swept     == DOMAIN idle \ Range(keep)
        IN  /\ \A i, j \in 1..n : i < j => keep[i] < keep[j]
            /\ swept \subseteq evictable
            /\ \A i \in swept, j \in evictable \ swept : j < i
            /\ swept = evictable \/ Total - Cardinality(swept) = min \/ (Total < min /\ swept = {})
            /\ swept # {} => Total - Cardinality(swept) >= min
            /\ idle' = [i \in 1..n |-> idle[keep[i]]]
            /\ link' = Disconnect({idle[i] : i \in swept})
    /\ sweepTimer' = (idle' # <<>> \/ inUse # {})
    /\ UNCHANGED <<inUse, waiters, pendingCreates, closed, warmVars, pc, conn>>

Close ==
    /\ "close" \in Events
    /\ closed' = TRUE /\ sweepTimer' = FALSE
    /\ waiters' = <<>>
    /\ pc' = [b \in Borrowers |-> IF b \in Range(waiters) THEN "out" ELSE pc[b]]
    /\ link' = Disconnect(Range(idle) \cup inUse)
    /\ idle' = <<>> /\ inUse' = {}
    /\ UNCHANGED <<pendingCreates, warmVars, conn>>

-----------------------------------------------------------------------------
\* The environment: a socket dies under its Attachment, a disconnect completes.
Die(c) ==
    /\ "die" \in Events /\ link[c] = "open"
    /\ link' = [link EXCEPT ![c] = "dead"]
    /\ UNCHANGED <<poolVars, warmVars, pc, conn>>

DetachDone(c) ==
    /\ link[c] = "closing"
    /\ link' = [link EXCEPT ![c] = "free"]
    /\ UNCHANGED <<poolVars, warmVars, pc, conn>>

ConnectSettles(b) == ConnectOk(b) \/ ConnectFail(b)
PingSettles(b) == PingOk(b) \/ PingFail(b)
PingMustSettle(b) == pc[b] = "pinging" /\ link[conn[b]] # "free" /\ PingSettles(b)

Next ==
    \/ \E b \in Borrowers :
        \/ Acquire(b) \/ PingSettles(b) \/ ConnectSettles(b)
        \/ AcquireTimeout(b) \/ Release(b) \/ ReleaseAgain(b)
    \/ Warmup \/ CreateIntoOk \/ CreateIntoFail \/ SweepIdle \/ Close
    \/ \E c \in Conns : Die(c) \/ DetachDone(c)

Spec == Init /\ [][Next]_vars

\* Network operations settle, except a ping whose socket close() destroyed under
\* it; borrowers give back what they borrow; timers fire. Nothing obliges
\* anybody to call acquire, warmup or close.
Fairness ==
    /\ \A b \in Borrowers :
        /\ WF_vars(PingMustSettle(b)) /\ WF_vars(ConnectSettles(b))
        /\ WF_vars(Release(b)) /\ WF_vars(AcquireTimeout(b))
    /\ \A c \in Conns : WF_vars(DetachDone(c))
    /\ WF_vars(CreateIntoOk \/ CreateIntoFail)

FairSpec == Spec /\ Fairness
-----------------------------------------------------------------------------
Holding(b) == pc[b] \in {"pinging", "using"}

\* "Hard ceiling on open connections" (pool.ts:11), counted as the pool counts:
\* however acquires, pings, connects, releases, sweeps and warmups interleave,
\* idle, borrowed and pending connections together never exceed max.
WithinMax == min <= max => Size <= max

\* A connection is in the hands of one borrower at a time, and is not idle while
\* it is: two users on one Attachment would share its transactions.
ExclusiveLoan ==
    /\ \A b1, b2 \in Borrowers :
        Holding(b1) /\ Holding(b2) /\ conn[b1] = conn[b2] => b1 = b2
    /\ \A b \in Borrowers : Holding(b) => conn[b] \notin Range(idle)

\* The pool counts no connection twice, even when callers release twice.
CountedOnce == Range(idle) \cap inUse = {} /\ IsInjective(idle)

\* Every reserved slot belongs to a connect still in flight: a slot that a
\* failed connect did not give back would shrink the pool for ever.
Connecting == {b \in Borrowers : pc[b] = "connecting"}
PendingExact == pendingCreates = warming + Cardinality(Connecting)

\* The queue holds each waiting borrower once, and nobody who stopped waiting:
\* a hand-over to one that timed out would lose the connection.
QueueExact ==
    /\ Range(waiters) = {b \in Borrowers : pc[b] = "waiting"}
    /\ IsInjective(waiters)

\* The pool's books: the reservations and the queue are exact, whatever fails or
\* times out in whatever order.
AccountsExact == TypeOK /\ PendingExact /\ QueueExact

\* A connection counted as in use is in somebody's hands, so that it will come back.
SlotsInHand == \A c \in inUse : \E b \in Borrowers : Holding(b) /\ conn[b] = c

\* No open connection is lost track of: the pool lists it or a borrower has it.
NoOrphan ==
    \A c \in Conns : link[c] = "open" =>
        c \in Range(idle) \cup inUse \/ \E b \in Borrowers : Holding(b) /\ conn[b] = c

\* When nothing fails, a borrower in the queue gets a connection without the
\* help of its timer, however many others come and go, unless the pool is closed.
WaiterServed == \A b \in Borrowers : pc[b] = "waiting" ~> (pc[b] = "using" \/ closed)

\* After close() every connection of a pool that was never warmed up is
\* closed in the end, those that acquires in flight still open included.
ClosedDrains == closed ~> [](\A c \in Conns : link[c] = "free")
=============================================================================
