-------------------------------- MODULE Session --------------------------------
(***************************************************************************)
(* The statements of one session: packages/core/src/api/session.ts,        *)
(* statement-cache.ts and prepared.ts. A statement run, a stream of rows   *)
(* and a PreparedStatement each hold a handle of the server across the     *)
(* answers they await; the cache lends the handle it keeps for a text to   *)
(* whoever runs that text, and frees it when the entry goes.               *)
(*                                                                         *)
(* An action is the code between two awaits. A run keeps the op-lock from  *)
(* its prepare to its last row; a stream gives it back between batches and *)
(* looks its text up before it has it. A free that rides with the next     *)
(* packet acts at once here: no request overtakes it (Wire). Transactions  *)
(* are Attachment's, rows and blobs are not shown.                         *)
(***************************************************************************)
EXTENDS Naturals, FiniteSets, Sequences, SequencesExt

CONSTANTS
    Callers,
    Selects, Dmls, Ddls,    \* texts, by the type that the server describes
    Rewritten,              \* the text that expandStar makes of some of them
    Pins,                   \* PreparedStatement objects
    Handles, NoHandle,      \* statement handles of the server
    Capacity,               \* statementCacheSize
    MaxSchema,              \* bound on the DDL statements executed
    Events                  \* what may happen, a subset of AllEvents

\* "stale": another attachment may have changed a table; "endTx": a stream's transaction ends
\* before it; "expandFail": expandStarSql() refuses the text; "commitFail": the transaction
\* of prepare() cannot be committed; "rowFail": the rows of a statement that is not freshly
\* prepared may fail; "overlap" lifts what Considerate asks of callers.
AllEvents == {"prepareFail", "expandFail", "commitFail", "executeFail", "stale", "endTx", "clear",
              "rowFail", "overlap"}

Sqls == Selects \cup Dmls \cup Ddls
None == "none"
\* A handle that could not be prepared, and one that was described and then forgotten.
Lost == {"unprepared", "orphan"}

ASSUME SessionAssumption ==
    /\ IsFiniteSet(Callers) /\ NoHandle \notin Handles
    /\ ({None} \cup Lost) \cap Sqls = {} /\ None \notin Pins
    /\ Selects \cap Dmls = {} /\ (Selects \cup Dmls) \cap Ddls = {}
    /\ \A s \in DOMAIN Rewritten : {s, Rewritten[s]} \subseteq Selects
    /\ Capacity \in Nat /\ MaxSchema \in Nat
    /\ Events \subseteq AllEvents

VARIABLES
    cache,      \* StatementCache.map, least recently used first
    starCache,  \* the texts whose rewrite is kept, with the schema it was made for
    op,         \* each caller's operation
    chain,      \* the op-lock: the callers whose jobs run or wait
    pin,        \* each PreparedStatement that is open
    server,     \* the server's statements
    schema      \* how often DDL of this attachment changed the schema

vars == <<cache, starCache, op, chain, pin, server, schema>>

Kinds == {"run", "stream", "prepare", "pinned", "close", "clear"}
Steps == {"queued", "begin", "star", "prepare", "execute", "fetch", "yield", "more", "finish"}
NoOp == [kind |-> None]
Operations == [kind : Kinds, step : Steps, sql : Sqls \cup {None}, pin : Pins \cup {None},
               star : BOOLEAN, h : Handles \cup {NoHandle}, hit : BOOLEAN,
               open : BOOLEAN, failed : BOOLEAN]

NoPin == [h |-> NoHandle, sql |-> None]
NoStmt == [sql |-> None, cursor |-> FALSE, schema |-> 0]

TypeOK ==
    /\ cache \in Seq([sql : Sqls, h : Handles]) /\ Len(cache) <= Capacity
    /\ starCache \in SUBSET [sql : Sqls, schema : 0..MaxSchema]
    /\ op \in [Callers -> Operations \cup {NoOp}]
    /\ chain \in Seq(Callers)
    /\ pin \in [Pins -> [h : Handles \cup {NoHandle}, sql : Sqls \cup {None}]]
    /\ server \in [Handles -> [sql : Sqls \cup {None} \cup Lost, cursor : BOOLEAN,
                              schema : 0..MaxSchema]]
    /\ schema \in 0..MaxSchema

Init ==
    /\ cache = <<>> /\ starCache = {} /\ chain = <<>> /\ schema = 0
    /\ op = [c \in Callers |-> NoOp]
    /\ pin = [p \in Pins |-> NoPin]
    /\ server = [h \in Handles |-> NoStmt]

-----------------------------------------------------------------------------
(* The server's statements and the cache. *)

Free(table, hs) == [h \in Handles |-> IF h \in hs THEN NoStmt ELSE table[h]]
CloseCursor(table, h) == [table EXCEPT ![h].cursor = FALSE]

\* The cache is a map: a text has one place at most.
Cached(entries, sql) == \E k \in DOMAIN entries : entries[k].sql = sql
Place(entries, sql) == CHOOSE k \in DOMAIN entries : entries[k].sql = sql
CachedHandle(entries, sql) == entries[Place(entries, sql)].h
Without(entries, sql) ==
    IF Cached(entries, sql) THEN RemoveAt(entries, Place(entries, sql)) ELSE entries
HandlesOf(entries) == {e.h : e \in Range(entries)}

\* get() makes the entry the most recently used.
Got(entries, sql) ==
    IF Cached(entries, sql)
    THEN Append(Without(entries, sql), [sql |-> sql, h |-> CachedHandle(entries, sql)])
    ELSE entries

Youngest(entries) == SubSeq(entries, Len(entries) - Capacity + 1, Len(entries))

PutEvictsNone(sql, h) == Append(Without(cache, sql), [sql |-> sql, h |-> h])

\* put(): the entry becomes the youngest and the oldest makes room.
Put(sql, h) ==
    LET all == Append(Without(cache, sql), [sql |-> sql, h |-> h])
    IN IF Len(all) > Capacity THEN Youngest(all) ELSE all

\* What is dropped from the cache is freed.
SetCacheLeaks(entries, table, more) ==
    /\ cache' = entries
    /\ server' = Free(table, more)

SetCache(entries, table, more) ==
    /\ cache' = entries
    /\ server' = Free(table, (more \cup HandlesOf(cache)) \ HandlesOf(entries))

FinishKeepsPlans(sql, h, table) ==
    /\ SetCache(IF sql \in Ddls \/ Capacity = 0 THEN cache ELSE Put(sql, h), table, {h})
    /\ UNCHANGED starCache

\* finishStatement(): DDL may have changed the schema under everything kept.
Finish(sql, h, table) ==
    /\ SetCache(IF sql \in Ddls THEN <<>> ELSE IF Capacity = 0 THEN cache ELSE Put(sql, h),
                table, {h})
    /\ starCache' = IF sql \in Ddls THEN {} ELSE starCache

-----------------------------------------------------------------------------
(* Calls, and the turns of the op-lock. *)

Busy(c) == op[c] # NoOp

Texts(o) == {o.sql} \cup (IF o.star THEN {Rewritten[o.sql]} ELSE {})

\* A stream that may work with a handle the cache lends it.
Borrows(o) == o.kind = "stream" /\ (o.hit \/ o.star)

\* A caller lets a stream keep its statement: nobody runs its text or clears the cache
\* while the cache lends its handle, no DDL runs beside a stream, and no statement is
\* closed while it is used.
Disturbs(a, b) ==
    \/ Borrows(a) /\ (b.kind = "clear" \/ Texts(a) \cap Texts(b) # {})
    \/ a.kind = "stream" /\ b.sql \in Ddls
    \/ a.kind = "close" /\ b.kind \in {"pinned", "close"} /\ a.pin = b.pin

\* Nor does anybody make the cache evict it.
Room(ops) ==
    LET texts == {e.sql : e \in Range(cache)} \cup UNION {Texts(o) : o \in ops}
    IN Cardinality(texts \ {None}) <= Capacity

Considerate(o) ==
    LET others == {op[c] : c \in {d \in Callers : Busy(d)}} IN
    /\ \A other \in others : ~Disturbs(other, o) /\ ~Disturbs(o, other)
    /\ (\E any \in others \cup {o} : Borrows(any)) => Room(others \cup {o})
    /\ o.sql \in Ddls => o.kind = "run"

Operation(kind, sql, p, star) ==
    [kind |-> kind, step |-> "queued", sql |-> sql, pin |-> p, star |-> star,
     h |-> NoHandle, hit |-> FALSE, open |-> FALSE, failed |-> FALSE]

\* withLock(): at the end of the chain.
Enter(c, o) == op' = [op EXCEPT ![c] = o] /\ chain' = Append(chain, c)

DdlsRunning == {c \in Callers : Busy(c) /\ op[c].sql \in Ddls}

Call(c, o) ==
    /\ ~Busy(c)
    /\ "overlap" \in Events \/ Considerate(o)
    /\ o.sql \in Ddls => schema + Cardinality(DdlsRunning) < MaxSchema
    /\ Enter(c, o)

Run(c, sql, star) ==
    /\ star => sql \in DOMAIN Rewritten
    /\ Call(c, Operation("run", sql, None, star))
    /\ UNCHANGED <<cache, starCache, pin, server, schema>>

\* A stream looks its text up when the consumer asks for the first row, before its
\* turn; with expandStar after the turn that resolves it.
Lookup(entries, o) ==
    IF Cached(entries, o.sql) THEN [o EXCEPT !.hit = TRUE, !.h = CachedHandle(entries, o.sql)] ELSE o

Stream(c, sql) ==
    /\ Call(c, Lookup(cache, Operation("stream", sql, None, FALSE)))
    /\ cache' = Got(cache, sql)
    /\ UNCHANGED <<starCache, pin, server, schema>>

StreamStar(c, sql) ==
    /\ sql \in DOMAIN Rewritten
    /\ Call(c, Operation("stream", sql, None, TRUE))
    /\ UNCHANGED <<cache, starCache, pin, server, schema>>

Prepare(c, sql, p) ==
    /\ pin[p] = NoPin /\ \A d \in Callers : Busy(d) => op[d].pin # p
    /\ Call(c, Operation("prepare", sql, p, FALSE))
    /\ UNCHANGED <<cache, starCache, pin, server, schema>>

\* run() checks that the statement is open; without a transaction of the caller's
\* it starts one before it takes the lock for the statement.
RunPrepared(c, p) ==
    /\ pin[p] # NoPin
    /\ \E first \in {"queued", "begin"} :
        Call(c, [Operation("pinned", pin[p].sql, p, FALSE) EXCEPT
                    !.h = pin[p].h, !.hit = TRUE, !.step = first])
    /\ UNCHANGED <<cache, starCache, pin, server, schema>>

ClosePrepared(c, p) ==
    /\ pin[p] # NoPin
    /\ pin' = [pin EXCEPT ![p] = NoPin]
    /\ Call(c, [Operation("close", None, p, FALSE) EXCEPT !.h = pin[p].h])
    /\ UNCHANGED <<cache, starCache, server, schema>>

ClearStatementCache(c) ==
    /\ "clear" \in Events /\ cache # <<>>
    /\ Call(c, Operation("clear", None, None, FALSE))
    /\ UNCHANGED <<cache, starCache, pin, server, schema>>

-----------------------------------------------------------------------------
(* The running job. *)

At(c, kinds, step) ==
    /\ chain # <<>> /\ c = Head(chain) /\ op[c].kind \in kinds /\ op[c].step = step

Goto(c, o) == op' = [op EXCEPT ![c] = o] /\ UNCHANGED chain
Requeue(c, o) == op' = [op EXCEPT ![c] = o] /\ chain' = Append(Tail(chain), c)
Yield(c, o) == op' = [op EXCEPT ![c] = o] /\ chain' = Tail(chain)
Return(c) == op' = [op EXCEPT ![c] = NoOp] /\ chain' = Tail(chain)

\* The operation goes on with the rewritten text; a stream takes the lock again.
Resolved(c, entries) ==
    LET o == [op[c] EXCEPT !.sql = Rewritten[op[c].sql], !.star = FALSE, !.step = "queued"]
    IN /\ cache' = IF o.kind = "run" THEN entries ELSE Got(entries, o.sql)
       /\ IF o.kind = "run" THEN Goto(c, o) ELSE Requeue(c, Lookup(entries, o))

Rewrite(sql) == [sql |-> sql, schema |-> schema]

\* resolveExpandStar(): the rewrite is known, or the statement is, or it is prepared
\* to have it described.
ExpandKnown(c) ==
    /\ At(c, {"run", "stream"}, "queued") /\ op[c].star
    /\ \E e \in starCache : e.sql = op[c].sql
    /\ Resolved(c, cache)
    /\ UNCHANGED <<starCache, pin, server, schema>>

Expand(c) ==
    LET sql == op[c].sql IN
    /\ At(c, {"run", "stream"}, "queued") /\ op[c].star
    /\ \A e \in starCache : e.sql # sql
    /\ IF Cached(cache, sql)
       THEN Resolved(c, Got(cache, sql)) /\ starCache' = starCache \cup {Rewrite(sql)}
       ELSE Goto(c, [op[c] EXCEPT !.step = "star"]) /\ UNCHANGED <<cache, starCache>>
    /\ UNCHANGED <<pin, server, schema>>

\* A text that is not cached is prepared, and executed if the operation is to run.
Begin(c) ==
    LET o == op[c]
        held == IF o.kind = "run" THEN Lookup(cache, o) ELSE o IN
    /\ At(c, {"run", "stream", "prepare", "pinned"}, "queued") /\ ~o.star
    /\ Goto(c, [held EXCEPT !.step = IF held.h = NoHandle THEN "prepare" ELSE "execute"])
    /\ cache' = IF o.kind = "run" THEN Got(cache, o.sql) ELSE cache
    /\ UNCHANGED <<starCache, pin, server, schema>>

\* The transaction of its own that a prepared statement runs in has started.
OwnStarted(c) ==
    /\ At(c, {"pinned"}, "begin")
    /\ Requeue(c, [op[c] EXCEPT !.step = "queued"])
    /\ UNCHANGED <<cache, starCache, pin, server, schema>>

Allocated(h, sql) ==
    [server EXCEPT ![h] = [sql |-> sql, cursor |-> FALSE, schema |-> schema]]

\* Handles are interchangeable: the server is shown to give out the first one free.
Unused(h) ==
    LET free == {g \in Handles : server[g].sql = None}
    IN free # {} /\ h = CHOOSE g \in free : TRUE

\* Every path that loses a handle loses another each time: one is shown.
LosesOne(h, how) ==
    /\ Unused(h) /\ \A g \in Handles : server[g].sql \notin Lost
    /\ server' = Allocated(h, how)

Described(c) ==
    /\ At(c, {"run", "stream"}, "star")
    /\ \E h \in Handles :
        /\ Unused(h)
        /\ LET sql == op[c].sql
               put == IF Capacity = 0 THEN cache ELSE Put(sql, h)
           IN /\ server' = Free(Allocated(h, sql), (HandlesOf(cache) \cup {h}) \ HandlesOf(put))
              /\ starCache' = starCache \cup {Rewrite(sql)}
              /\ Resolved(c, put)
    /\ UNCHANGED <<pin, schema>>

Prepared(c) ==
    /\ At(c, {"run", "stream", "prepare"}, "prepare")
    /\ \E h \in Handles :
        /\ Unused(h)
        /\ server' = Allocated(h, op[c].sql)
        /\ IF op[c].kind = "prepare"
           THEN /\ pin' = [pin EXCEPT ![op[c].pin] = [h |-> h, sql |-> op[c].sql]]
                /\ Return(c)
           ELSE Goto(c, [op[c] EXCEPT !.h = h, !.step = "execute"]) /\ UNCHANGED pin
    /\ UNCHANGED <<cache, starCache, schema>>

\* expandStarSql() throws: a statement that the cache has stays there, one that was
\* prepared for its description is neither put there nor freed.
ExpandFails(c) ==
    /\ "expandFail" \in Events
    /\ \/ /\ At(c, {"run", "stream"}, "queued") /\ op[c].star
          /\ \A e \in starCache : e.sql # op[c].sql
          /\ Cached(cache, op[c].sql)
          /\ cache' = Got(cache, op[c].sql) /\ UNCHANGED server
       \/ /\ At(c, {"run", "stream"}, "star")
          /\ \E h \in Handles : LosesOne(h, "orphan")
          /\ UNCHANGED cache
    /\ Return(c)
    /\ UNCHANGED <<starCache, pin, schema>>

\* prepare() has its statement, but the commit is refused: it throws, and no
\* PreparedStatement holds the handle.
CommitFails(c) ==
    /\ "commitFail" \in Events
    /\ At(c, {"prepare"}, "prepare")
    /\ \E h \in Handles : LosesOne(h, "orphan")
    /\ Return(c)
    /\ UNCHANGED <<cache, starCache, pin, schema>>

\* A stream that fails goes to its end, with no statement if it has none; anything
\* else throws.
Abandon(c) ==
    IF op[c].kind = "stream" /\ ~op[c].star
    THEN Requeue(c, [op[c] EXCEPT !.step = "finish", !.failed = TRUE])
    ELSE Return(c)

\* The handle of a statement that could not be prepared is never freed.
PrepareFails(c) ==
    /\ At(c, {"run", "stream", "prepare"}, "prepare") \/ At(c, {"run", "stream"}, "star")
    /\ \/ "prepareFail" \in Events /\ \E h \in Handles : LosesOne(h, "unprepared")
       \/ (\A h \in Handles : server[h].sql # None) /\ UNCHANGED server
    /\ Abandon(c)
    /\ UNCHANGED <<cache, starCache, pin, schema>>

-----------------------------------------------------------------------------
(* Executing and fetching. *)

Executing(c) == At(c, {"run", "stream", "pinned"}, "execute")
Executable(c) == server[op[c].h].sql = op[c].sql /\ ~server[op[c].h].cursor

\* A select has opened its cursor and its rows come with the answer; anything else
\* is done.
Executed(c) ==
    LET o == op[c] IN
    /\ Executing(c) /\ Executable(c)
    /\ schema' = IF o.sql \in Ddls THEN schema + 1 ELSE schema
    /\ UNCHANGED pin
    /\ IF o.sql \in Selects
       THEN /\ server' = [server EXCEPT ![o.h].cursor = TRUE]
            /\ Goto(c, [o EXCEPT !.step = "fetch", !.open = TRUE])
            /\ UNCHANGED <<cache, starCache>>
       ELSE CASE o.kind = "run" -> Finish(o.sql, o.h, server) /\ Return(c)
              [] o.kind = "stream" ->
                    Yield(c, [o EXCEPT !.step = "yield"]) /\ UNCHANGED <<cache, starCache, server>>
              [] OTHER -> Return(c) /\ UNCHANGED <<cache, starCache, server>>

\* A run that finds the cached statement stale, since a table was changed elsewhere,
\* removes it and prepares its own, once.
Replay(c) ==
    /\ Executing(c) /\ "stale" \in Events
    /\ op[c].kind = "run" /\ op[c].hit
    /\ SetCache(Without(cache, op[c].sql), server, {})
    /\ Goto(c, [op[c] EXCEPT !.step = "prepare", !.hit = FALSE, !.h = NoHandle])
    /\ UNCHANGED <<starCache, pin, schema>>

\* What a run that fails does with a statement it prepared.
DropFresh(c) ==
    IF op[c].kind = "run" /\ ~op[c].hit THEN Free(server, {op[c].h}) ELSE server

\* The server refuses, always if the cursor is still open.
ExecuteFails(c) ==
    /\ Executing(c)
    /\ "executeFail" \in Events \/ ~Executable(c)
    /\ server' = DropFresh(c)
    /\ Abandon(c)
    /\ UNCHANGED <<cache, starCache, pin, schema>>

Fetching(c) ==
    \/ At(c, {"run", "stream", "pinned"}, "fetch")
    \/ At(c, {"stream"}, "more")
HasCursor(c) == server[op[c].h].sql = op[c].sql /\ server[op[c].h].cursor

RunLeavesCursor(c) ==
    /\ At(c, {"run"}, "fetch") /\ HasCursor(c)
    /\ Finish(op[c].sql, op[c].h, server)
    /\ Return(c)
    /\ UNCHANGED <<pin, schema>>

\* executePrepared() fetches to the end and closes the cursor.
RunFetched(c) ==
    /\ At(c, {"run"}, "fetch") /\ HasCursor(c)
    /\ Finish(op[c].sql, op[c].h, CloseCursor(server, op[c].h))
    /\ Return(c)
    /\ UNCHANGED <<pin, schema>>

PinnedFetched(c) ==
    /\ At(c, {"pinned"}, "fetch") /\ HasCursor(c)
    /\ server' = CloseCursor(server, op[c].h)
    /\ Return(c)
    /\ UNCHANGED <<cache, starCache, pin, schema>>

\* A batch of a stream, the last one or not, is given to its consumer.
StreamFetched(c) ==
    /\ Fetching(c) /\ op[c].kind = "stream" /\ HasCursor(c)
    /\ Yield(c, [op[c] EXCEPT !.step = "yield"])
    /\ UNCHANGED <<cache, starCache, pin, server, schema>>

FetchFails(c) ==
    /\ Fetching(c)
    /\ op[c].kind = "stream" \/ ~op[c].hit \/ "rowFail" \in Events \/ ~HasCursor(c)
    /\ server' = DropFresh(c)
    /\ Abandon(c)
    /\ UNCHANGED <<cache, starCache, pin, schema>>

-----------------------------------------------------------------------------
(* A stream between its batches, and its end. *)

\* The consumer wants more rows than the batch had, and there are more.
NextBatch(c) ==
    /\ Busy(c) /\ op[c].kind = "stream" /\ op[c].step = "yield" /\ op[c].open
    /\ Enter(c, [op[c] EXCEPT !.step = "more"])
    /\ UNCHANGED <<cache, starCache, pin, server, schema>>

\* The last row has been read, or the consumer breaks off.
EndStream(c) ==
    /\ Busy(c) /\ op[c].kind = "stream" /\ op[c].step = "yield"
    /\ Enter(c, [op[c] EXCEPT !.step = "finish"])
    /\ UNCHANGED <<cache, starCache, pin, server, schema>>

FinishStreamDropsHit(c) ==
    LET o == op[c]
        table == IF o.open THEN CloseCursor(server, o.h) ELSE server IN
    /\ At(c, {"stream"}, "finish") /\ o.h # NoHandle
    /\ IF o.failed THEN server' = Free(table, {o.h}) /\ UNCHANGED <<cache, starCache>>
       ELSE Finish(o.sql, o.h, table)
    /\ Return(c)
    /\ UNCHANGED <<pin, schema>>

\* The cursor is closed; a statement that failed is dropped, and its entry removed.
FinishStream(c) ==
    LET o == op[c]
        table == IF o.open THEN CloseCursor(server, o.h) ELSE server IN
    /\ At(c, {"stream"}, "finish") /\ o.h # NoHandle
    /\ IF o.failed
       THEN /\ SetCache(Without(cache, o.sql), table, IF o.hit THEN {} ELSE {o.h})
            /\ UNCHANGED starCache
       ELSE Finish(o.sql, o.h, table)
    /\ Return(c)
    /\ UNCHANGED <<pin, schema>>

FinishNoStatement(c) ==
    /\ At(c, {"stream"}, "finish") /\ op[c].h = NoHandle
    /\ Return(c)
    /\ UNCHANGED <<cache, starCache, pin, server, schema>>

CloseLeaks(c) ==
    /\ At(c, {"close"}, "queued")
    /\ Return(c)
    /\ UNCHANGED <<cache, starCache, pin, server, schema>>

Close(c) ==
    /\ At(c, {"close"}, "queued")
    /\ server' = Free(server, {op[c].h})
    /\ Return(c)
    /\ UNCHANGED <<cache, starCache, pin, schema>>

Clear(c) ==
    /\ At(c, {"clear"}, "queued")
    /\ SetCache(<<>>, server, {})
    /\ Return(c)
    /\ UNCHANGED <<starCache, pin, schema>>

-----------------------------------------------------------------------------
(* Outside. *)

\* The transaction of a stream ends before it: the server closes its cursor.
TransactionEnds(c) ==
    /\ "endTx" \in Events
    /\ Busy(c) /\ op[c].kind = "stream" /\ op[c].step = "yield" /\ HasCursor(c)
    /\ server' = CloseCursor(server, op[c].h)
    /\ UNCHANGED <<cache, starCache, op, chain, pin, schema>>

Calls(c) ==
    \/ \E sql \in Sqls :
        \/ \E star \in BOOLEAN : Run(c, sql, star)
        \/ Stream(c, sql) \/ StreamStar(c, sql)
        \/ \E p \in Pins : Prepare(c, sql, p)
    \/ \E p \in Pins : RunPrepared(c, p) \/ ClosePrepared(c, p)
    \/ ClearStatementCache(c)

Job(c) ==
    \/ ExpandKnown(c) \/ Expand(c) \/ Begin(c) \/ OwnStarted(c)
    \/ Described(c) \/ ExpandFails(c) \/ Prepared(c) \/ CommitFails(c) \/ PrepareFails(c)
    \/ Executed(c) \/ Replay(c) \/ ExecuteFails(c)
    \/ RunFetched(c) \/ PinnedFetched(c) \/ StreamFetched(c) \/ FetchFails(c)
    \/ FinishStream(c) \/ FinishNoStatement(c) \/ Close(c) \/ Clear(c)

Next ==
    \E c \in Callers : Calls(c) \/ Job(c) \/ NextBatch(c) \/ EndStream(c) \/ TransactionEnds(c)

Spec == Init /\ [][Next]_vars
-----------------------------------------------------------------------------
Holds(c, h) == Busy(c) /\ op[c].h = h

\* What an operation sends goes to the statement that was prepared for its text: none
\* is freed, evicted or given out again under the run, stream or PreparedStatement
\* that works with it.
OwnStatement ==
    /\ \A c \in Callers : Busy(c) /\ op[c].h # NoHandle /\ op[c].kind # "close" =>
            server[op[c].h].sql = op[c].sql
    /\ \A p \in Pins : pin[p] # NoPin => server[pin[p].h].sql = pin[p].sql

\* "a cached handle can be re-executed under any later transaction"
\* (statement-cache.ts:9): each entry is a statement of its own, prepared for its text,
\* and its cursor is closed unless an operation is reading from it.
CacheReady ==
    \A k \in DOMAIN cache :
        /\ server[cache[k].h].sql = cache[k].sql
        /\ server[cache[k].h].cursor => \E c \in Callers : Holds(c, cache[k].h)
        /\ \A j \in DOMAIN cache : cache[j].h = cache[k].h => j = k

\* Every statement prepared is kept by the cache, an operation or a PreparedStatement:
\* whatever failed to run or was evicted, replaced, replayed or closed has been freed. Lost,
\* and not counted here, are those of the three paths that forget a handle: a prepare that
\* is refused, a rewrite that is refused (NothingWasted) and a prepare() that cannot commit.
NoStatementLeak ==
    \A h \in Handles : server[h].sql \in Sqls =>
        \/ h \in HandlesOf(cache)
        \/ \E c \in Callers : Holds(c, h)
        \/ \E p \in Pins : pin[p] # NoPin /\ pin[p].h = h

\* What the comment at session.ts:530-532 says of a text that expandStar describes:
\* "prepare and hand the handle to the statement cache (or drop it deferred) - nothing is
\* wasted".
NothingWasted == \A h \in Handles : server[h].sql # "orphan"

\* Nothing that was described before a DDL statement of this attachment is kept after it.
PlansFresh ==
    /\ \A e \in Range(cache) : server[e.h].schema = schema
    /\ \A e \in starCache : e.schema = schema

\* A statement at the server and who works with it belong to each other: none is
\* freed too early, none too late.
HandlesExact == TypeOK /\ OwnStatement /\ NoStatementLeak
=============================================================================
