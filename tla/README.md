# Models and proofs for fast-firebird

fast-firebird is a Firebird client in TypeScript: a wire protocol implementation, a
connection API, a pool, and an ORM adapter. All of it runs on one JavaScript thread;
what makes it hard is what happens between two `await`s: many callers share one socket,
answers are matched to requests by position, transactions and statements are server
handles that die with the connection, and timers, closes and reconnects come in between.

The modules below model that control flow. TLC checks them on small instances; for eight
of the nine that keep state TLAPS proves the central safety properties for every instance.

## 1. Inventory

| Component (`packages/core/src` unless said otherwise) | State | Operations | What makes it correct | Here |
|---|---|---|---|---|
| Pool (`pool/pool.ts`) | idle list, in-use set, waiters, pending creates, closed, sweep timer | warmup, acquire, release, sweep, close | ceiling, exclusive loans, exact accounting, every waiter served, nothing left open | `Pool` |
| Wire (`protocol/wire.ts`, `xdr.ts`) | packet writer, counter of deferred answers | flush, markDeferred, readOp, readResponse | each operation reads its own answers and no other's | `Wire` |
| Statement protocol (`protocol/statement.ts`) | none of its own | allocate+prepare, execute with fetch and info behind it, fetch, lazy free | what was sent is read or marked deferred, on every path | `Wire` |
| Attachment (`api/attachment.ts`) | op-lock chain, generation, current wire and session, detached | withLock, startTransaction, run, reconnect, disconnect, drop | operations in turn, recovery after a lost connection, old objects refused | `Attachment` (lock also in `Wire`) |
| Transaction (`api/transaction.ts`, `protocol/transaction.ts`) | handle, finished, generation, options, savepoint depth | run with read-only upgrade, commit, rollback, retaining, restart, savepoints | works on its own live server transaction, none is leaked; a scope undoes its own work | `Attachment`, scopes in `UnitsOfWork` |
| Session (`api/session.ts`, `statement-cache.ts`, `prepared.ts`) | statement cache, star cache | run, stream, prepare, finish | a cached handle is alive and used by one cursor, nothing outlives DDL | `Session` |
| Pipelined blobs and batches (`protocol/blob.ts`, `batch.ts`, `api/batch.ts`) | windows of requests, rows of the cycle | read, read many, write, execute a batch | answers matched by position, in step after any failure | `Pipeline`, formats in `Codecs` |
| Lazy blobs (`api/blob.ts`, `blob-prefetch.ts`, `inline-cache.ts`) | cursor, stream, prefetch queue, inline cache | head, buffer, stream, prefetch, close | a blob is its bytes whichever way they came; budgets; handles closed once | `LazyBlobs` |
| Events (`events/events.ts`) | aux connection, subscriptions, baselines | start, subscribe, deliver and re-arm, close | no post lost, nothing left open | `Events` |
| Transport (`protocol/transport.ts`, `crypt/`) | byte queue, one read waiter, error, closed, filters | read, write, fail, close, installCrypt | bytes in order, layers switched on at the right packet | `Connect`, byte queue in `Codecs`, failing in `Wire` and `Attachment` |
| Handshake (`protocol/handshake.ts`, `auth/`) | negotiation | connect, authenticate, encrypt | ends of itself, one attempt per plugin, encryption as required | `Connect` |
| Script executor (`script/`) | splitter, transaction of the script | parse, execute | statements split right, work kept as reported | `UnitsOfWork`, `SqlText` |
| Drizzle adapter (`packages/drizzle`) | none | transactions, migrator | no half-applied migration recorded | `UnitsOfWork` |
| SQL rewriting (`api/named-params.ts`, `expand-star.ts`) | none | find parameters, write stars out | agree with the server on what is code | `SqlText` |
| Codecs and types (`protocol/msgcodec.ts`, `types/`) | none | rows, parameters, numbers, times, zones | both sides read what the other wrote; round trips | `Codecs`, `Values` |
| Services (`services/service.ts`) | own connection | attach, start, query | output whole and in order | collecting in `Values`, connecting in `Connect` |
| Charsets, constants, options, errors | none | tables and classes | | not modelled |
| Demo, benchmarks | | | | not modelled |

How they interact: `Pool` calls `connect()` and holds `Attachment`s; an `Attachment`
puts every operation on its op-lock (`withLock`); the operation writes requests into the
`WireConnection`, flushes them to the `Transport` and awaits answers; the statement cache
writes free requests without flushing and counts their answers as deferred;
`Transaction`, `PreparedStatement` and blobs hold handles of the session they were made
in and compare generations; the event channel has a socket of its own but arms its
requests on the main one. The behaviours that are hard to test are listed with their
lines as `hazards` in `PROJECT.json`.

Each module models one of these with its neighbours reduced to what they can do to it.
The op-lock is the common interface: `Wire` shows with `Exchange` that a job under it
reads its own answers, and the modules above (`Attachment`, `Session`, `LazyBlobs`,
`Events`) therefore take an exchange as one job, while `Pipeline` opens the one job that
keeps many requests on the line.

## 2. The modules

### Pool

`Pool` is `Pool` of `pool.ts` with its borrowers. `idle`, `inUse`, `waiters`,
`pendingCreates`, `closed` and `sweepTimer` are the fields. `pc` and `conn` say where
each caller of `acquire()` is and what it holds, `link` is the state of each
`Attachment`'s socket.

An action is the code between two awaits. `acquire()` is cut at its ping, its connect and
its wait: `Acquire` runs from the call to the first of them; `PingOk`/`PingFail`,
`ConnectOk`/`ConnectFail` and `AcquireTimeout` continue it. `Proceed` is the loop over
idle entries that both `Acquire` and `PingFail` enter; it discards any number of dead
entries and then takes a live one, connects or queues. `Release`, `SweepIdle` and `Close`
are whole functions. `Warmup` starts as many `CreateInto...` as it needs. `Die` and
`DetachDone` are the environment. `SweepIdle` states which entries may go instead of
looping: the entries that are old form a prefix, because `idle` is only pushed and popped
at its end.

A ping outlives the socket that `close()` destroys under it: the fairness of the ping
is `PingMustSettle`, which asks nothing once the socket has been destroyed.

### Wire and Exchange

`Wire` is one connection's request stream: `chain` is the op-lock, `pipe` the requests
whose answers nobody has read (`written` ones still wait in the packet writer), `deferred`
the counter `deferredResponses`, `expect` what the running operation still has to read.
`Send` is a `flush()` of one packet, `Free` a free request written lazily, `Respond` the
server, which answers in order. `Drain`, `Take`, `TakeRow`, `Throw` and `ReadLost` are
what `readOp()` and the function that called it do with the next answer. An answer is a
kind: `ok` and `error` are `op_response`, `row` is `op_sql_response`, `rows` a stream of
`op_fetch_response`.

Any request may be refused, and what rode behind a refused one is refused with it.
`LeftDeferred` is the `catch` of `executeStatement`, which counts the answers behind a
failed execute as deferred. The code loses its place in three ways, and `slipped` records
that it has: a deferred answer that is an error is thrown at the reader, whose own answer
stays on the line (wire.ts:94); a refused allocate leaves the answer to the prepare behind
it, which nobody counts (statement.ts:48); and a cache cleared within an exchange counts
an answer that is awaited (pool.ts:197). `LeavesBehind` names the first two. After that
the model goes on reading what is there, but for one thing: an answer of a kind that the
reader does not know is thrown at, and its bytes, which the code leaves unread, are taken
off the line.

`Exchange` is what this promises to operations: turns in order, and for each request its
own answer, in order, an error ending the packet; once it is `broken` it promises turns
only, one operation at a time. The refinement maps `asked` to `expect` and `broken` to
`slipped`; lazy frees and the draining of deferred answers are stuttering.

### Attachment

`Attachment` has the op-lock again, at the granularity of one exchange per job, with
what the jobs are about: which server transaction the handle of a `Transaction` names.
`opChain` is the chain, `phase` says whether its head has begun, `sent` is the handle it
has read. Calls (`StartTransaction`, `Run`, `Commit`, `Rollback`, `Restart`, `Reconnect`)
make their checks and append a job; `Send` reads the handle when the turn comes, as the
closures of the code do. `Started`, `Executed`, `Upgrade`, `Ended`, `Refused` and
`Broken` settle it, with the caller's continuation (the second half of `restart()`, the
replay after an upgrade) appended in the same step, because it runs in the same
microtask turn. `server` maps the current connection's handles to the Transaction that
began there; handles are given out again.

A wire is `open`, in `error` (every read and write throws) or `closed` without an error
(writes vanish and reads never settle: `transport.ts` tests `error` only). `Restart`
looks at `finished` and nothing else, as the code does, so other operations of its
Transaction may be under way; only an overlapping commit or rollback is a habit of its
own. Disconnect is one step: operations that begin while `op_detach` is being answered
are not modelled.

### Session

`Session` has the statements of one session. `cache` is `StatementCache.map` with its
order of use, `starCache` the rewrites, `pin` the open `PreparedStatement`s, `op` what
each caller has in hand: the handle, whether the cache lent it (`hit`), whether its rows
are open. `server` is the truth: for each handle the text it was prepared for, whether
its cursor is open, and for which state of the schema it was described. Handles are
given out again, so that a stale one can meet a stranger's statement. A run keeps the
op-lock from its prepare to its last row; a stream gives it back between batches and
looks its text up before it has it (session.ts:609), so anybody may act in between.
`finish...` actions contain the whole of `finishStatement`: put back, replace, evict,
invalidate. Every step may be refused: the prepare, the rewrite of a star whose text was
just described (`ExpandFails`), the commit of `prepare()` (`CommitFails`), the execute.
In these the code forgets a handle it has, which is then `Lost` at the server;
`LosesOne` is the only place where that happens, and one lost handle at a time is
followed. Frees act at once; `Wire` shows that no later request overtakes them.

### Pipeline

`Pipeline` has the four operations that keep many requests on the line: `readBlob`,
`readBlobs`, writing a blob from a source, and a batch. `out` is the packet writer,
`line` what was flushed and not answered, `deferred` the counter; `op` is the running
operation with the local variables the code has (what is in flight, what is pending,
what is not flushed yet). The server answers in order, so an answer is worked out when it is
read, and a batch's completion from the rows it has got. `Pump` asks for segments in the
shared window (`Ask`) and opens blobs ahead of it (`Ahead`). When anything fails the
operation drains or defers what is outstanding, and the next one begins on what it left.
`LineExact` compares the operation's own books with the line.

### LazyBlobs

`LazyBlobs` has the blobs of one transaction: their cursors (`head()`), whole reads,
streams, the read-ahead that runs behind a query stream, and the inline cache, over the
op-lock `chain`. An exchange is a request and an answer with anybody's step between
them. A blob is a sequence of segments, so that a window too many, too few or twice is
seen in the bytes. `stray` records a close of a blob that was not open.

### Events

`Events` has an attachment's `EventChannel`s (made one after the other), their
listeners, the jobs they put on the op-lock, and at the server the one-shot requests
(`armed`), the channel it delivers to (`aux`) and its count of posts. `Fire` and
`Deliver` are the server's notification and `readLoop()`'s handling of it, which re-arms
over the op-lock. `QueJob` may be refused: in `subscribe()` the caller is told, and the
listener stays in `subs`; in `readLoop()` the loop ends. A cancel is always granted (the
code ignores its refusal, events.ts:132).

### Connect

`Connect` has the opening of a connection by an `Attachment` or a `Service`, from the
socket to the attach. A packet carries the layers it was written through; `tx` and `rx`
are the client's layers, `pending` what its deflater holds. The server chooses every
answer, as often as it likes: which plugin, with or without its data, also one that was
tried before, in the handshake and in answer to the attach; a refusal, silence. Proofs and
keys are named by the plugin they were computed for, and an account is the set of plugins
its password is right for. `proofs` counts what was sent for each plugin in the handshake,
`late` in answer to the attach.

### UnitsOfWork

`UnitsOfWork` has `Attachment.transaction()` with nested scopes, `executeScript()` in its
four modes, and the migrator. A statement that works adds a number to the server's
transaction; a savepoint is a copy of what was there. `logs`, `owed` and `doubt` say what
the program has been told: what it may count on if the surrounding scope succeeds, what it
was promised, and what was committed with the answer lost. The properties compare
that with `durable`.

The server may refuse a SAVEPOINT or a ROLLBACK TO. `SavepointRefused` is the `catch` of
`Transaction.transaction()`: it goes back to the savepoint of that name, if an earlier
scope that threw has left one, and with it the savepoints made since are gone (`lost`).
`ThrowScope` swallows a refused ROLLBACK TO and keeps the scope's work. The statements
that end otherwise than their scope has told of are in `amiss`: those that a refused
SAVEPOINT took away, those that a refused ROLLBACK TO left, and those of a scope that
throws when its savepoint is lost. The properties speak of all the others, and say of
these that there are no more.

### SqlText, Codecs, Values and Conversions

`SqlText` (scanner, splitter, named parameters, client commands, stars; the loops of
`named-params.ts` are translated apart from the scanner's, so that the two can be
compared), `Codecs` (byte queue, row messages, BLR, parameters, batch rows) and `Values`
(scaled numbers, DECFLOAT, dates, zones, service output) are the pure functions.
`Conversions` is a state machine over their inputs: the action `Grow` appends a piece,
so that every sequence of pieces up to its bound is a state, and what a function
promises, or an independent definition of its result, is an invariant. The tables that a
module takes from the server's own rules (what it sends for a BLR, how long it takes a
message to be) are marked external in `PROJECT.json`.

In the modules an operator named `Slip...`, `...Mutant`, `...Leaks` and so on, listed in
each module's head, is what a plausible slip would make of the definition it precedes.
`PROJECT.json` pairs each with the property that notices it.

## 3. The runs

| Run | Instance | Question |
|---|---|---|
| `pool_safety` | 3 borrowers, 5 Attachment objects, min 2, max 3, every failure | capacity, exclusive loans, exact reservations and queue, no orphaned connection |
| `pool_live` | 3 borrowers, 3 objects, min 1, max 2, closing and double releases, nothing dies | every waiter is served by the queue alone; every socket is closed in the end after `close()` |
| `wire_sync` | 2 callers, 3 packets' names, 2 lazy frees, every packet, every request refused, a transport that dies, caches cleared between operations | the reader is in step until an answer slips, `Exchange` is implemented, operations end |
| `wire_v_clear` | 1 caller, a cache cleared under its operation | ends in a counterexample (section 4) |
| `att_safe` | 2 Transactions, 2 handles, 2 reconnects, 3 jobs, restarts beside other operations | each job on its own live transaction, no leak, no zombie, the chain keeps moving |
| `session` | 2 callers, 4 texts, a cache of 2, 3 handles, 1 PreparedStatement, 1 DDL, every step refused | handles and their users belong together but for the lost one, cached ones are ready, nothing outlives DDL |
| `pipeline` | 2 operations, at most 3 blobs, 3 segments or 3 rows, window of 2, 2 blobs opened ahead | in step after any failure, results whole, nothing left open, every operation ends |
| `lazy` | 2 blobs of 3 segments, windows of 2, 2 callers, 2 calls, read-ahead of 1, inline cache of 1 blob | bytes right, budgets exact, handles closed once, every caller answered |
| `events` | 2 listeners, 2 channels, 3 posts, starts and requests that are refused, a breaking socket | nothing left behind, every later post told, calls end |
| `connect` | every configuration of client and server, 4 accounts, offers without limit | layers in step, encryption as required, one attempt per plugin, the handshake ends with no deadline |
| `work` | 2 nested scopes, 4 statements, scripts of 4 commands in 4 modes, 2 files of 2 statements; commits, SAVEPOINT and ROLLBACK TO refused | kept as told but for what is amiss, scopes undo their own, no transaction left, whole files |
| `conversions` | texts of 4 pieces, commands of 3, lists of 4, rows and parameters of 2, numerals of 5, coefficients of 6, 5 chunks | lexers agree, scripts and stars right, messages read whole, values return |

An invariant a run names is often a conjunction of named parts (`HandlesExact` is
`OwnStatement`, `NoStatementLeak` and the types); each part has its comment in the
module and the mutants listed for the conjunction break several of them.

Why the bounds suffice. In the pool three borrowers contend for each resource while a
third party acts, and five Attachment objects allow all three slots to be in use while
two sockets are still closing; `max` below the number of borrowers makes waiting happen.
In `wire_sync` two frees let an answer to drain stand before another, three names keep
every outstanding packet apart, and `MaxUnread` bounds what a slipped answer leaves on
the line: in step it cuts nothing. In `att_safe` two Transactions let one get the handle
the other has lost, two reconnects let a failed one be retried, three jobs let a call
queue behind an operation and a reconnect. In `session` a cache smaller than the number
of texts evicts, and three handles let a freed one be given out again while two are
held. In `pipeline` three segments over a window of two make it slide, three blobs share
it and are one more than may be open ahead, the second operation meets what the first
left, three rows in cycles of two make a second cycle. In `lazy` three segments read in
windows of two make a cursor that `head(1)` or `head(2)` began resume, and a window come
in short; two calls are one that begins and one that goes on; a budget of four segments
is exhausted by the second blob. In `events` a second channel follows a first, and three
posts let one fall between delivery and re-arming with another behind it. `connect` has
no bound but its sets of options. Two scopes in `work` nest, follow each other at one
depth with the savepoint of the first left behind, and let one end within the other;
four commands put a statement before, between and after a change of transaction. In
`conversions` the pieces include every opener and closer that shares a character with
another, rows of 7, 8 and 31 columns at the bitmap's edges, and a DECFLOAT of four
digits and six exponents, whose coefficients are longer than it.

Symmetry is used in `pool_safety`, where connections and borrowers are interchangeable,
and in `session`, where callers are; both check invariants only. In `lazy` a call is
made by the first caller that is free, since nothing tells free callers apart. Deadlock
is checked in `pool_safety`, `pool_live`, `wire_sync` and `work`. In the others the
system may stop: a disconnected attachment whose callers have been lost, callers that
have made all their calls, a connection that is up, an input that is as long as it may
be.

What the environment is asked to do, and why. Each restriction is a constant of the
module (`Events`, `Habits`, `Faults`, `MayFail`, `Refuses`); what happens without it is
in section 4.

- `pool_safety` excludes double release, since `release()` cannot tell it once the
  connection is lent again. With it `ExclusiveLoan` fails; the pool's own accounting does
  not (theorem `PoolCapacity`). `pool_live` has it, and no death and no warmup into a
  closed pool.
- `wire_sync` clears caches between operations only; every request may be refused.
- `att_safe` has callers await a reconnect before using anything else, await a commit or
  rollback before restarting the same Transaction, and await a restart or a statement
  that may upgrade before using it again. They may overlap everything else: a restart
  may be called with statements of its Transaction under way. It lets only a lost
  connection fail the second half of a restart, and lets a reconnect fail only after a
  lost connection.
- `session` excludes failures of the rows of a cached statement ("rowFail") and uses of one
  text that the code does not keep apart ("overlap").
- `pipeline` lets every request be refused except `op_batch_create`, `op_batch_regblob`,
  `op_batch_msg` and the release.
- `lazy` uses a blob by one call at a time but for several `head()`s ("overlap"), leaves a
  query stream only when nobody waits for a blob of it ("late"), and ends the transaction
  when no call is out ("early").
- `events` closes no listener in its own callback ("inHandler"), subscribes only while
  nothing is being closed ("closes"), and disconnects in quiet moments ("busy").
- `connect` excludes nothing that the server may answer.
- `work` lets every commit, SAVEPOINT and ROLLBACK TO be refused except the commits of the
  perStatement mode, and has neither overlapping scopes nor a restart within one.

Fairness. Network operations settle: Node reports an error or the server answers (a
request hangs only if the server does). Borrowers give back connections (`use()` does so
in `finally`) and timers fire. In `Wire` leaving the lock is strongly fair: an operation
makes finitely many exchanges. In `Pipeline` a step that the code takes by itself
(`Proceed`) and an answer (`Read`) are weakly fair; in `LazyBlobs` the head of the
op-lock (`Turn`) and the kick of the read-ahead (`Rekick`), which runs in a microtask;
in `Events` the jobs, the network (`Arrives`) and the server's notification of a request
that is due (`Fire`). In `Connect` the client goes on with what it gets (`GoesOn`) and
the server answers (`Server`), whatever it answers; the deadline is not fair, so that
`Concludes` shows that the handshake ends of itself, as a service, which has no
deadline, must. That a silent server is given up when a deadline passes says no more
than that timers fire, and is not a property here. Nobody is obliged to call anything.

## 4. What the code does otherwise than it says

`wire_v_clear` has a run that ends in a counterexample, which was compared with the
source: `clearStatementCaches()` on a borrowed connection (pool.ts:197), between its request
and its answer, makes the reader count its own answer as a free's and wait for ever.

The following were met while modelling. Most the passing runs exclude; widening the
constant named shows each, with the property it breaks. Where the table says "not checked"
the run has the behaviour as it is, and the property, which states what the comment or the
contract says, is a definition of the module that no run names, because it does not hold.

| Where | What happens | Shown by |
|---|---|---|
| pool.ts:158, 173, 153, 85 | a waiter is woken only by the release of a live connection; after a death, a failed connect or a warmup it waits for its timeout although there is room | `pool_live` with "die": `WaiterServed` |
| pool.ts:85 | a warmup connect that completes after `close()` goes into `idle` and stays open | `pool_live` with "warmup": `ClosedDrains` |
| wire.ts:94 | the error of a deferred answer, of a lazy free or behind a failed execute, is not dropped ("errors from deferred ops are dropped by design", wire.ts:94; "marked deferred so the reader drains them safely", statement.ts:89-90) but thrown at the next reader, whose own answer stays on the line | `wire_sync`, `OwnErrors` not checked |
| statement.ts:48 | a refused allocate leaves the answer to the prepare behind it on the line, uncounted | `wire_sync`, `slipped` after `LeavesBehind` |
| attachment.ts:181 | a statement called after `reconnect()` but before its turn runs on the new connection with the old handle | `att_safe` with "busyReconnect": `OwnTransaction` |
| attachment.ts:187 | retrying a reconnect whose attach failed after an orderly detach hangs | `att_safe` with "attachRefused": `Settles` |
| transaction.ts:259 | a restart called while a commit is out takes it for granted; if it is refused the transaction is open for good, which transaction.ts:210-215 says a refused commit never leaves | `att_safe` with "overlap": `NoLeak` |
| transaction.ts:271, 112 | a restart whose second half is refused leaves a dead handle on an active Transaction; two upgrades of one Transaction at once both end it | `att_safe` with "restartFail", "overlap": `ServerAgrees`, `OwnTransaction` |
| session.ts:535; attachment.ts:276-290 | a text that was just prepared to be described is neither cached nor freed when `expandStarSql()` refuses it ("nothing is wasted", session.ts:530-532), nor is the statement of a `prepare()` that cannot commit | `session`, `NothingWasted` not checked |
| session.ts:560 | rows that fail on a cached handle leave the cursor open in the cache | `session` with "rowFail": `CacheReady` |
| api/batch.ts:228 | after a refused batch create the deferred answers of the cycle are errors, which the next reader throws | `pipeline` with "bcreate": `LineExact` |
| api/blob.ts:226 | a `buffer()` queued behind another that read the cursor to its end caches a blob of zeros | `lazy` with "overlap": `BytesRight` |
| blob-prefetch.ts:100, 157, 164 | a blob claimed while its fetch is being abandoned is never answered | `lazy` with "late": `CallsSettle` |
| api/blob.ts:340 | closes of blobs are sent after the transaction has ended | `lazy` with "early": `HandlesExact` |
| events.ts:115 | a listener closed by its own callback leaves a request at the server | `events` with "inHandler": `ServerExact` |
| events.ts:136, 150 | two closes at once, or a disconnect during the start, leave an auxiliary connection open | `events` with "closes" (3 listeners and channels), "busy": `ServerExact` |
| events.ts:74 | a listener whose request is refused stays in `subs`, so the channel is not "torn down when the last one closes" (events.ts:36-37) | `events`, `TornDown` not checked |
| handshake.ts:443 | while attaching, every offer of an SRP plugin is answered with another proof, without limit, though "each plugin gets exactly ONE proof attempt" (handshake.ts:266-269) | `connect`, `NotForever` not checked |
| handshake.ts:288 | a plugin counts as attempted when only its public key went out, so the login is given up when its salt and key "follow in the next round" (handshake.ts:309-310) | `connect`, `SwitchFollowed` not checked |
| service.ts:76 | `Service.connect()` has no deadline after the TCP connect: a server that falls silent hangs it | by reading |
| transaction.ts:187 | a refused SAVEPOINT rolls back to the savepoint that an earlier scope of that depth has left, and with it the outer work done since ("the outer transaction survives either way", transaction.ts:164-165); a refused ROLLBACK TO keeps the scope's work | `work`, `OuterSurvives` not checked; `amiss` |
| transaction.ts:184, 273 | scopes that overlap, or a restart within one, end each other's savepoints | `work` with "overlap", "restart": `ScopesRight` |
| execute.ts:294 | in the perStatement mode a refused commit leaves the transaction open | `work` with "perStatement" in `Refuses`: `NoneLeft` |
| decfloat.ts:152 | the exponent check passes values beyond the format: 1e370 as DECFLOAT(16) becomes 8000000000000001e-398 | the condition of `DecFloatReturns` |
| datetime.ts:43 | on a day on which local time changes, a timestamp after the change is read an hour off | the condition `Steady` of `TimestampsReturn` |
| expand-star.ts:239 | in `a.*, a.id, b.*` the column listed behind the star counts as one of the star | the condition `Ambiguous` of `StarsRight` |
| service.ts:269 | the mark of a reply cut short has no length, yet the reader skips one (the comment at 342 counts on the mark) | `OutputWhole` is stated for replies without it |

Seen and given no property: the sweep timer can stop just before a pending connect
delivers (pool.ts:112); `min` above `max` exceeds the ceiling (pool.ts:58); a detaching
connection is not counted (pool.ts:140); `map()` rejects while its workers go on
(pool.ts:237); `disconnect()` reads beside the operation in flight (attachment.ts:462);
`PreparedStatement.run()` does not look at its transaction's generation (prepared.ts:71) and
may be closed while it awaits one (prepared.ts:83); a failed start of the event channel
stays cached (events.ts:54) and one whose socket broke is used on (events.ts:52);
`LOCK TIMEOUT 5 WAIT` drops the timeout (parser.ts:257); a rewritten star is not
invalidated by other attachments' DDL (session.ts:527); two actions on one `Service` read
each other's output (service.ts:229).

## 5. What is proved

Checked by TLAPS for every value of the constants that the named assumptions allow. The
hypotheses of the theorems are the restrictions of section 3 and no others; where one has
none, it holds with everything the module lets the environment do.

- `PoolProofs`. `AccountsHold` (`AccountsExact`: types, `PendingExact`, `QueueExact`),
  `PoolCapacity` (`CountedOnce`, `WithinMax`), `PoolLoans` (`ExclusiveLoan`,
  `SlotsInHand`, without double release), `PoolKeepsTrack` (`NoOrphan`). `WithinMax` is
  inductive only with `CountedOnce`, since a connection counted twice would free two slots
  when released once; `ExclusiveLoan` needs that what a borrower pings or uses is in
  `inUse` unless the pool was closed under it. For `NoOrphan` the invariant `Listed` says
  where the pool has each open connection, at every point of a borrower's way. The lemmas
  about `Proceed` and `ReleaseConn` are stated once and used by each action that contains
  them.
- `WireProofs`. `WireInSync` (`TypeOK`, `InSync`, `ReadsRight`) and `WireImplements`
  (`ImplementsExchange`), with no hypothesis: whatever fails and whatever is cleared, the
  reader is in step until an answer slips, and one operation is served at a time after
  that. The invariant has `Base`, which holds always, and until an answer slips
  `Order`: the pipe is `deferred` answers of frees and of what rode behind failed executes,
  followed by the answers awaited, in order. That the reader does not take an error behind
  a failed execute for its own needs `Fated`: what is behind a refused request is answered
  with an error, or will be, since the server's last answer was one.
- `AttachmentProofs`. `Agreement` (`ServerAgrees`) and `JobsOwnTransaction`
  (`OwnTransaction`), under `Quiet`: neither "restartFail", "attachRefused", "overlap" nor
  "busyReconnect". A job reads its handle when its turn comes, so the invariant ties every
  job in the chain to its Transaction (`JobsFit`, `JobsApart`), the head to what it has
  sent (`HeadFits`), and the handles of active Transactions to the server. Since a restart
  may be called with statements under way, it also needs that who runs a statement is
  active or has its end called behind it (`Owned`).
- `SessionProofs`. `StatementsOwned` (`HandlesExact`), `NoStalePlans` (`PlansFresh`) and
  `CachedCanExecute` (`CacheReady`), without "overlap", the last also without "rowFail".
  That every statement has a keeper is proved with every step refused, but for the
  handles that `LosesOne` has lost. The first two follow from one invariant: who keeps
  each handle (`Kept`, `Books`), that the op-lock has one job at work (`Line`), what an
  operation knows at each step (`Shapes`), and that what callers considered when they
  called remains true (`Calm`). Every action changes the keepers of handles in one of
  four ways, each a lemma. `Cursors` is a second invariant on top of it.
- `LazyBlobsProofs`. `BlobsHold` (`HandlesExact`: types, `HandlesOwned`, `HandlesOpen`,
  `ClosesLive`), `BlobsWhole` (`BytesRight`) and `BudgetsHold` (`BudgetsExact`), for
  `Habits = {}`: callers use a blob for one thing at a time, wait for no blob of a
  stream that was left, and end the transaction when nothing is out; reads may fail
  anywhere. The first two follow from one invariant. It says which jobs the op-lock may
  hold, each once (`Line`, `JobsFit`); how far every cursor, stream and fetch has read,
  which is where its handle stands at the server, so that whoever takes one over goes on
  at the right byte (`Cursors`, `Streams`, `Entries`); and who is to close each handle
  (`Kept`). A handle changes keepers in three ways, by a step that leaves the keepers,
  one that opens it and one that closes it, each a lemma (`StillKept`, `OpenedKept`,
  `ClosedKept`). What the job in the air may be answered depends on what its caller has
  asked (`BusyFits`, `CallsFit`), and that no second caller came in between on what
  callers considered (`Exclusive`). `Budgets` is a second invariant on top: what the
  read-ahead counts is the sum over its entries. That sum is a fold, and the proof needs
  that it is a natural number, that one entry's change changes it by as much, and that
  equal entries give equal sums. These are inductions over the size of a set; they are
  done by taking a least counterexample (`LeastSet`, `LeastNat`, from the
  well-foundedness of finite subsets), for which the fold's own step gives the
  contradiction.
- `EventsProofs`. `NothingLeftAtServer` (`ServerExact`), for `Habits = {}`. That a
  request at the server belongs to a listener must be known while it is queued, and the
  jobs before it in the op-lock decide whether it does, and a refused listener stays
  among the subscribed: the invariant follows the whole chain (`JobsFit`), the requests
  (`RequestsFit`, `ArmedFit`) and what is under way on the auxiliary sockets
  (`InboxesFit`).
- `ConnectProofs`. `PacketsInStep` (`InStep`), `EncryptedAsAsked` (`Encrypted`) and
  `OneAttemptEach` (`ProvedOnce`), with no hypothesis about what the server offers. The
  invariant says for each phase of the
  client who is to speak, and that what is under way went through the layers its reader has;
  whose key the server holds follows from the phase. One attempt each needs what the plugins
  in `attempted` have been sent (`Tried`, `Chances`), that the plugin at work is not offered
  again without salt and key (`OfSelf`), and what is under way (`Proving`); the token sent
  in answer to the attach is a second invariant (`Late`).
- `UnitsOfWorkProofs`. `NoneLeftOpen` (`NoneLeft`, unless the commits of perStatement
  are refused), `FilesWhole` (`WholeFiles`) and `SetTransactionKeepsNothing`
  (`NothingByTheWay`), whatever the callback does; `ScopesHold` (`ScopesRight`) and
  `Kept` (`KeptAsTold`), for `Habits = {}` and whatever is refused. `Standing` says in
  which units the object and the server have a transaction; `CleanEmpty` that a script
  that is not dirty has done nothing; `Migrated` how far the files are. For scopes the
  invariant is that they are a stack (`Nesting`), that the server's savepoints mirror
  its levels, those of scopes that have lost theirs and names left behind by scopes that
  threw included (`Saves`), and that the work of each level is, but for what is amiss,
  what its logs say (`Agrees`).

`CountedOnce`, `SlotsInHand`, `ReadsRight` and the types of `Wire` are proved and not run:
they are parts of, or follow from, what the runs check.

Only model-checked:

- liveness under fairness (`WaiterServed`, `ClosedDrains`, `Finishes`, `Settles`,
  `CallsSettle`, `Told`, `Concludes`), which the prover does not reach;
- `Pipeline`'s `LineExact`, `ResultsRight` and `Releases`. What its pumps have sent is a
  window of requests, what they have been answered another, and an error in between makes
  the server skip the rest of a batch: an invariant must give, for every prefix of either,
  which streams and rows the server has reached. That is an induction over sequences with
  several such counts at once, not the single sum of `LazyBlobs`, and has not been done;
- the pure functions of `Conversions`, which are RECURSIVE operators over texts and
  values: what they compute for every input is out of the prover's reach, and TLC compares
  them with their reference definitions on the inputs of section 3.

## 6. What is left

To prove: `Pipeline`'s invariants, with the hypothesis that no request is refused that the
batch was registered with; and the liveness properties, which stay with TLC.

Not modelled, and why: character sets, the tables of protocol constants and of time zone
names, the layout of info replies and parameter buffers (data and formatting); the
ciphers, SRP's arithmetic and the legacy hash (numbers beyond TLC, and nothing in them
interleaves); options and error classes (no state); drizzle's query building, column
types and introspection (translation without state); the refusal of a cancel of events,
which the code ignores; `dropDatabase`, `ping` and blob `size()` (single exchanges under
the lock); the graceful end's timer; the demo and the benchmarks.
