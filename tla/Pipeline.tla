------------------------------ MODULE Pipeline ------------------------------
(***************************************************************************)
(* The pipelined operations of one connection: reading one blob and many   *)
(* (packages/core/src/protocol/blob.ts), writing one from a source that    *)
(* may throw, and executing a batch (api/batch.ts, protocol/batch.ts).     *)
(* They hold the op-lock, so one runs at a time. Each keeps many requests  *)
(* on the wire, matches the answers to them by position alone, and when    *)
(* something fails must leave the connection in step for the next one.     *)
(*                                                                         *)
(* A step is the code between two awaits. The server answers in order, so  *)
(* its answer to a request is worked out when it is read. A blob is a      *)
(* number of segments, a row of a batch is one of three kinds; bytes and   *)
(* formats are left out, and so is a transport that fails.                 *)
(*                                                                         *)
(* SourceThrowsUnflushed, TopUpNever, AheadAll, AskEach, CloseUntracked,   *)
(* AbandonedOpen, CompletedCountsFirst and DrainsUncounted are what a slip *)
(* would make of the definitions they precede.                             *)
(***************************************************************************)
EXTENDS Naturals, Sequences, FiniteSets, SequencesExt

CONSTANTS
    Kinds,          \* operations that are called, a subset of AllKinds
    Faults,         \* what may go wrong, a subset of AllFaults
    MaxOps,         \* bound on the operations called
    MaxBlobs, MaxSegs, MaxRows,     \* bounds on what an operation is given
    RowsPerCycle,   \* rows that fill chunkBytes
    Depth, OpenAhead, RampStart,    \* PIPELINE_DEPTH, OPEN_AHEAD, RAMP_START
    FlushAt         \* requests written before readBlobs() flushes

AllKinds == {"one", "many", "write", "batch"}
AllRows == {"plain", "ref", "upload"}
AllFaults == {"open", "seg", "close", "create", "put", "source",
              "bcreate", "reg", "msg", "exec", "release"}

ASSUME PipelineAssumption ==
    /\ Kinds \subseteq AllKinds /\ Faults \subseteq AllFaults
    /\ {MaxOps, MaxBlobs, MaxSegs, MaxRows} \subseteq Nat
    /\ {RowsPerCycle, Depth, OpenAhead, RampStart, FlushAt} \subseteq Nat \ {0}

VARIABLES
    out,        \* requests in the packet writer
    line,       \* requests sent whose answers nobody has read, oldest first
    deferred,   \* deferredResponses
    server,     \* the blobs and the batch that are open at the server
    op,         \* the operation that runs and its local variables
    ops         \* how many have been called

vars == <<out, line, deferred, server, op, ops>>

Request(kind, on) == [kind |-> kind, on |-> on, rows |-> <<>>]
HandleOf(i) == <<ops, i>>
NoBatch == [open |-> FALSE, multi |-> FALSE, ids |-> {}, rows |-> <<>>]
Idle == [kind |-> "idle", of |-> "none", ok |-> TRUE, asked |-> <<>>, got |-> <<>>, known |-> <<>>]

Init ==
    /\ out = <<>> /\ line = <<>> /\ deferred = 0 /\ ops = 0
    /\ server = [blobs |-> <<>>, batch |-> NoBatch]
    /\ op = Idle

Least(a, b) == IF a < b THEN a ELSE b

-----------------------------------------------------------------------------
(* The server. *)

Answer(ok, s) == [ok |-> ok, server |-> s, eof |-> FALSE, data |-> <<>>, completion |-> FALSE]
Refused == Answer(FALSE, server)
RefusedIf(kind) == IF kind \in Faults \ {"release"} THEN {Refused} ELSE {}

Opened(h, size) ==
    Answer(TRUE, [server EXCEPT !.blobs = [g \in DOMAIN @ \cup {h} |->
        IF g = h THEN [at |-> 1, size |-> size] ELSE @[g]]])

\* A close that is answered with an error has closed the blob all the same.
Closed(h) ==
    Answer(h \in DOMAIN server.blobs,
           [server EXCEPT !.blobs = [g \in DOMAIN @ \ {h} |-> @[g]]])

\* The end is told with the last segment or by an empty answer after it.
Segment(h) ==
    IF h \notin DOMAIN server.blobs THEN {Refused} ELSE
    LET b == server.blobs[h]
        a == Answer(TRUE, [server EXCEPT !.blobs[h].at = @ + 1])
    IN IF b.at > b.size THEN {[a EXCEPT !.eof = TRUE]}
       ELSE {[a EXCEPT !.eof = e, !.data = <<<<h[2], b.at>>>>] :
                e \in IF b.at = b.size THEN BOOLEAN ELSE {FALSE}}

\* A row is refused for what is in it or for a blob nobody registered. Without
\* multi-error the first such row is the last one executed; in any case the
\* batch is empty afterwards and its blobs are forgotten.
Completion(b) ==
    LET fails == {k \in DOMAIN b.rows : b.rows[k].bad \/ b.rows[k].id \notin b.ids \cup {0}}
        last == IF b.multi \/ fails = {} THEN Len(b.rows)
                ELSE CHOOSE k \in fails : \A j \in fails : k <= j
    IN [Answer(TRUE, [server EXCEPT !.batch.ids = {}, !.batch.rows = <<>>]) EXCEPT
          !.completion = TRUE, !.data = [k \in 1..last |-> k \notin fails]]

BatchAnswer(r) ==
    LET b == server.batch IN
    CASE r.kind = "bcreate" /\ ~b.open ->
            Answer(TRUE, [server EXCEPT !.batch = [NoBatch EXCEPT !.open = TRUE, !.multi = r.on = <<1>>]])
      [] r.kind = "reg" /\ b.open /\ r.on[1] \notin b.ids ->
            Answer(TRUE, [server EXCEPT !.batch.ids = @ \cup {r.on[1]}])
      [] r.kind = "msg" /\ b.open -> Answer(TRUE, [server EXCEPT !.batch.rows = @ \o r.rows])
      [] r.kind = "exec" /\ b.open -> Completion(b)
      [] r.kind = "release" /\ (b.open \/ "release" \notin Faults) ->
            Answer(TRUE, [server EXCEPT !.batch = NoBatch])
      [] OTHER -> Refused

Answers(r) ==
    (IF r.kind = "close" THEN {} ELSE RefusedIf(r.kind)) \cup
    CASE r.kind = "open" -> {Opened(HandleOf(r.on[1]), op.size[r.on[1]])}
      [] r.kind = "create" -> {Opened(HandleOf(r.on[1]), 0)}
      [] r.kind = "seg" -> Segment(r.on)
      [] r.kind = "put" -> {Answer(r.on \in DOMAIN server.blobs, server)}
      [] r.kind = "free" -> {Closed(r.on)}
      [] r.kind = "close" -> {Closed(r.on)} \cup
            {[Closed(r.on) EXCEPT !.ok = FALSE] : f \in Faults \cap {"close"}}
      [] OTHER -> {BatchAnswer(r)}

-----------------------------------------------------------------------------
(* The client's ends of the wire. A step sees what is on the line once the   *)
(* answer it acts on is taken, and the count of deferred answers then.       *)

Now == [rest |-> line, deferred |-> deferred]

\* What a step writes goes to the writer, and with it to the line if it flushes.
Sends(a, wrote, flush) ==
    /\ out' = IF flush THEN <<>> ELSE out \o wrote
    /\ line' = IF flush THEN a.rest \o out \o wrote ELSE a.rest
    /\ deferred' = a.deferred

\* markDeferred() for each request written lazily: the next reader drains it.
SendsLazily(a, wrote) ==
    /\ out' = out \o wrote
    /\ line' = a.rest
    /\ deferred' = a.deferred + Len(wrote)

Reading == op.kind # "idle" /\ op.pc \in {"open", "read", "drain", "completion"}

\* An operation ends: what it was asked, what it gives back, or that it threw.
Ended(o, ok) == [Idle EXCEPT !.of = o.kind, !.ok = ok, !.asked = o.size, !.got = o.parts, !.known = o.known]

CloseDeferred(i) == <<Request("free", HandleOf(i))>>

-----------------------------------------------------------------------------
(* readBlob(): one blob, Depth segments asked for ahead. *)

Segs(i, n) == [k \in 1..n |-> Request("seg", HandleOf(i))]

ReadBlob(size) ==
    /\ op' = [kind |-> "one", pc |-> "open", size |-> <<size>>, known |-> <<FALSE>>,
              parts |-> <<<<>>>>, fly |-> 0, eof |-> FALSE]
    /\ Sends(Now, <<Request("open", <<1>>)>>, TRUE)

OneOpened(a) ==
    /\ op.kind = "one" /\ op.pc = "open"
    /\ IF a.ok
       THEN /\ op' = [op EXCEPT !.pc = "read", !.known = <<TRUE>>, !.fly = Depth]
            /\ Sends(a, Segs(1, Depth), TRUE)
       ELSE /\ op' = Ended(op, FALSE)
            /\ Sends(a, <<>>, FALSE)

TopUpNever(o, a) == 0

\* The window is topped up until the end is seen; then it runs empty.
TopUp(o, a) == IF o.eof \/ a.eof THEN 0 ELSE 1

OneSegment(a) ==
    /\ op.kind = "one" /\ op.pc = "read" /\ a.ok
    /\ LET more == TopUp(op, a)
           o == [op EXCEPT !.fly = @ - 1 + more, !.eof = @ \/ a.eof,
                           !.parts[1] = IF op.eof THEN @ ELSE @ \o a.data]
       IN IF o.fly > 0
          THEN op' = o /\ Sends(a, Segs(1, more), more > 0)
          ELSE op' = Ended(o, TRUE) /\ SendsLazily(a, CloseDeferred(1))

\* What is still in flight is read whatever it is; then the blob is closed.
OneDrains(a) ==
    /\ op.kind = "one" /\ (op.pc = "drain" \/ (op.pc = "read" /\ ~a.ok))
    /\ IF op.fly > 1
       THEN op' = [op EXCEPT !.pc = "drain", !.fly = @ - 1] /\ Sends(a, <<>>, FALSE)
       ELSE op' = Ended(op, FALSE) /\ SendsLazily(a, CloseDeferred(1))

-----------------------------------------------------------------------------
(* readBlobs(): a window over many blobs. `pending` are the requests sent,   *)
(* `unflushed` those in the writer, `current` the one whose answer is        *)
(* awaited, already shifted from `pending`.                                  *)

Index(r) == IF r.kind = "open" THEN r.on[1] ELSE r.on[2]
InFlight(o) == Len(SelectSeq(o.pending \o o.unflushed, LAMBDA r : r.kind = "seg"))
First(o) == LET left == {i \in DOMAIN o.eof : ~o.eof[i]}
            IN IF left = {} THEN Len(o.eof) + 1 ELSE CHOOSE i \in left : \A j \in left : i <= j

Put(o, rs) == [o EXCEPT !.unflushed = @ \o rs, !.wrote = @ \o rs]

AskEach(o, i) ==
    IF o.eof[i] \/ ~o.known[i] \/ InFlight(o) >= Depth \/ o.fly[i] >= o.cap[i] THEN o
    ELSE Put([o EXCEPT !.fly[i] = o.cap[i]], Segs(i, o.cap[i] - o.fly[i]))

\* The loop over the blobs from the first unfinished one, blob i's turn.
Ask(o, i) ==
    IF o.eof[i] \/ ~o.known[i] \/ InFlight(o) >= Depth THEN o ELSE
    LET cap == Least(o.cap[i], o.fly[i] + (Depth - InFlight(o)))
        more == IF o.fly[i] < cap THEN cap - o.fly[i] ELSE 0
    IN Put([o EXCEPT !.fly[i] = @ + more], Segs(i, more))

AheadAll(o) == Len(o.size)
Ahead(o) == Least(Len(o.size), First(o) + OpenAhead - 1)

Pump(o) ==
    LET opens == [k \in 1..(Ahead(o) - o.opened) |-> Request("open", <<o.opened + k>>)]
        p == IF Ahead(o) > o.opened THEN [Put(o, opens) EXCEPT !.opened = Ahead(o)] ELSE o
    IN FoldLeft(Ask, p, [k \in 1..(Len(o.size) + 1 - First(o)) |-> First(o) + k - 1])

\* Requests are held back until there is a packet's worth of them, unless
\* nothing is outstanding.
FlushNow(p) == Len(p.unflushed) >= FlushAt \/ p.pending = <<>>

\* One turn of the loop: pump, flush, and await the next answer or return.
Loop(o, a) ==
    LET p == Pump(o)
        flush == FlushNow(p)
        sent == IF flush THEN p.pending \o p.unflushed ELSE p.pending
    IN IF sent = <<>>
       THEN op' = Ended(p, TRUE) /\ Sends(a, p.wrote, FALSE)
       ELSE /\ op' = [p EXCEPT !.pc = "read", !.current = Head(sent), !.pending = Tail(sent),
                               !.unflushed = IF flush THEN <<>> ELSE @, !.wrote = <<>>]
            /\ Sends(a, p.wrote, flush)

ReadBlobs(size) ==
    LET n == DOMAIN size IN
    /\ Loop([kind |-> "many", pc |-> "read", size |-> size,
             known |-> [i \in n |-> FALSE], eof |-> [i \in n |-> FALSE],
             parts |-> [i \in n |-> <<>>], fly |-> [i \in n |-> 0],
             cap |-> [i \in n |-> RampStart], segs |-> [i \in n |-> 0],
             pending |-> <<>>, unflushed |-> <<>>, current |-> Request("none", <<>>),
             opened |-> 0, wrote |-> <<>>], Now)

ManyOpened(a) ==
    /\ op.kind = "many" /\ op.pc = "read" /\ op.current.kind = "open" /\ a.ok
    /\ Loop([op EXCEPT !.known[Index(op.current)] = TRUE], a)

\* Errors of a close are dropped.
ManyClosed(a) ==
    /\ op.kind = "many" /\ op.pc = "read" /\ op.current.kind = "close"
    /\ Loop(op, a)

\* The cap of a blob doubles when a whole window of it came back as data.
Ramped(o, i) ==
    IF o.segs[i] >= o.cap[i] THEN [o EXCEPT !.cap[i] = Least(2 * @, Depth)] ELSE o

CloseUntracked(o, i) == [o EXCEPT !.wrote = Append(@, Request("close", HandleOf(i)))]

\* Not closeBlobDeferred(): other answers are outstanding.
CloseInOrder(o, i) == Put(o, <<Request("close", HandleOf(i))>>)

Received(o, i, a) ==
    IF o.eof[i] THEN o ELSE
    LET p == [o EXCEPT !.parts[i] = @ \o a.data, !.eof[i] = a.eof]
    IN IF a.eof THEN CloseInOrder(p, i) ELSE Ramped([p EXCEPT !.segs[i] = @ + 1], i)

ManySegment(a) ==
    /\ op.kind = "many" /\ op.pc = "read" /\ op.current.kind = "seg" /\ a.ok
    /\ LET i == Index(op.current)
       IN Loop(Received([op EXCEPT !.fly[i] = @ - 1], i, a), a)

LeftOpen(o) ==
    LET open == {i \in DOMAIN o.eof : o.known[i] /\ ~o.eof[i]}
    IN FoldLeft(LAMBDA s, i : s \o CloseDeferred(i), <<>>, SetToSortSeq(open, <))

ToDrain(o) == o.pending \o o.unflushed

\* The first error: what the writer holds is sent, and every answer awaited.
ManyFails(a) ==
    /\ op.kind = "many" /\ op.pc = "read" /\ op.current.kind # "close" /\ ~a.ok
    /\ LET left == ToDrain(op) IN
       IF left = <<>>
       THEN op' = Ended(op, FALSE) /\ SendsLazily(a, LeftOpen(op))
       ELSE /\ op' = [op EXCEPT !.pc = "drain", !.pending = left, !.unflushed = <<>>]
            /\ Sends(a, <<>>, op.unflushed # <<>>)

ManyDrains(a) ==
    /\ op.kind = "many" /\ op.pc = "drain"
    /\ IF Len(op.pending) > 1
       THEN op' = [op EXCEPT !.pending = Tail(@)] /\ Sends(a, <<>>, FALSE)
       ELSE op' = Ended(op, FALSE) /\ SendsLazily(a, LeftOpen(op))

-----------------------------------------------------------------------------
(* writeBlob() and writeBlobStream(): `fly` counts the answers outstanding   *)
(* besides the one awaited; `then` is the batch a blob is uploaded for.      *)

StartWrite(o, i, segs, then) ==
    [kind |-> "write", pc |-> "open", i |-> i, left |-> segs, fly |-> 0, closing |-> FALSE,
     size |-> o.size, parts |-> o.parts, known |-> o.known, then |-> then]

WriteBlob(segs) ==
    /\ op' = StartWrite([size |-> <<>>, parts |-> <<>>, known |-> <<FALSE>>], 1, segs, Idle)
    /\ Sends(Now, <<Request("create", <<1>>)>>, TRUE)

BatchEnded(b, ok) ==
    [Ended(b, ok) EXCEPT !.asked = [given |-> b.given, bad |-> b.bad, multi |-> b.multi],
                         !.got = [done |-> b.done, counts |-> b.counts, errors |-> b.errors]]

\* What was created is released whatever happened, lazily.
ReleasesBatch(b) == IF b.created THEN <<Request("release", <<>>)>> ELSE <<>>

\* The blob a batch was waiting for goes into the row; if it could not be
\* written the batch ends, releasing what it created.
WriteEnds(o, a, ok, lazily) ==
    IF o.then.kind = "batch"
    THEN IF ok
         THEN op' = [o.then EXCEPT !.pc = "bound"] /\ SendsLazily(a, lazily)
         ELSE op' = BatchEnded(o.then, FALSE) /\ SendsLazily(a, lazily \o ReleasesBatch(o.then))
    ELSE op' = Ended(o, ok) /\ SendsLazily(a, lazily)

WriteCreated(a) ==
    /\ op.kind = "write" /\ op.pc = "open"
    /\ IF a.ok THEN op' = [op EXCEPT !.pc = "fill"] /\ Sends(a, <<>>, FALSE)
       ELSE WriteEnds(op, a, FALSE, <<>>)

\* The next segment; when the window is full the oldest answer is awaited.
SendSegment ==
    /\ op.kind = "write" /\ op.pc = "fill" /\ op.left > 0
    /\ LET full == op.fly + 1 >= Depth IN
       /\ op' = [op EXCEPT !.left = @ - 1, !.pc = IF full THEN "read" ELSE "fill",
                           !.fly = IF full THEN @ ELSE @ + 1]
       /\ Sends(Now, <<Request("put", HandleOf(op.i))>>, full)
    /\ UNCHANGED server

SendClose ==
    /\ op.kind = "write" /\ op.pc = "fill" /\ op.left = 0
    /\ op' = [op EXCEPT !.closing = TRUE, !.pc = "read"]
    /\ Sends(Now, <<Request("close", HandleOf(op.i))>>, TRUE)
    /\ UNCHANGED server

WriteAnswered(a) ==
    /\ op.kind = "write" /\ op.pc = "read" /\ a.ok
    /\ IF ~op.closing THEN op' = [op EXCEPT !.pc = "fill"] /\ Sends(a, <<>>, FALSE)
       ELSE IF op.fly > 0 THEN op' = [op EXCEPT !.fly = @ - 1] /\ Sends(a, <<>>, FALSE)
       ELSE WriteEnds(op, a, TRUE, <<>>)

AbandonedOpen(o) == <<>>
Abandoned(o) == IF o.closing THEN <<>> ELSE CloseDeferred(o.i)

WriteDrains(a) ==
    /\ op.kind = "write" /\ (op.pc = "drain" \/ (op.pc = "read" /\ ~a.ok))
    /\ IF op.fly > 0
       THEN op' = [op EXCEPT !.pc = "drain", !.fly = @ - 1] /\ Sends(a, <<>>, FALSE)
       ELSE WriteEnds(op, a, FALSE, Abandoned(op))

SourceThrowsUnflushed ==
    /\ "source" \in Faults
    /\ op.kind = "write" /\ op.pc = "fill"
    /\ IF op.fly > 0
       THEN op' = [op EXCEPT !.pc = "drain", !.fly = @ - 1] /\ Sends(Now, <<>>, FALSE)
       ELSE WriteEnds(op, Now, FALSE, Abandoned(op))
    /\ UNCHANGED server

\* The source can throw with segments written and not sent: they are sent, so
\* that what is drained will be answered.
SourceThrows ==
    /\ "source" \in Faults
    /\ op.kind = "write" /\ op.pc = "fill"
    /\ IF op.fly > 0
       THEN op' = [op EXCEPT !.pc = "drain", !.fly = @ - 1] /\ Sends(Now, <<>>, TRUE)
       ELSE WriteEnds(op, Now, FALSE, Abandoned(op))
    /\ UNCHANGED server

-----------------------------------------------------------------------------
(* runBatch(): rows are collected into cycles. `rows` and `ids` are those of *)
(* the cycle, `expect` the requests of the cycle still to be answered,       *)
(* `counts` and `errors` the combined result, `done` its rowCount.           *)

ExecuteBatch(kinds, bad, multi) ==
    /\ op' = [kind |-> "batch", pc |-> "rows", given |-> kinds, bad |-> bad, multi |-> multi,
              next |-> 1, rows |-> <<>>, ids |-> <<>>, created |-> FALSE, expect |-> <<>>,
              done |-> 0, counts |-> <<>>, errors |-> {},
              size |-> <<>>, parts |-> <<>>, known |-> <<FALSE>>]
    /\ UNCHANGED <<out, line, deferred>>

\* Rows carry no blob, one blob the caller uploaded, or one of their own.
RefId == MaxRows + 1
IdOf(b) == CASE b.given[b.next] = "plain" -> 0
             [] b.given[b.next] = "ref" -> RefId
             [] b.given[b.next] = "upload" -> b.next

RequestsOf(b) ==
    (IF b.created THEN <<>> ELSE <<Request("bcreate", <<IF b.multi THEN 1 ELSE 0>>)>>)
    \o [k \in DOMAIN b.ids |-> Request("reg", <<b.ids[k]>>)]
    \o <<[Request("msg", <<>>) EXCEPT !.rows = b.rows], Request("exec", <<>>)>>

ExecCycle(b) ==
    /\ op' = [b EXCEPT !.created = TRUE, !.expect = RequestsOf(b), !.pc = "read"]
    /\ Sends(Now, RequestsOf(b), TRUE)

Registering(b) == IF IdOf(b) \in {0} \cup Range(b.ids) THEN b.ids ELSE Append(b.ids, IdOf(b))

\* prepareParams() uploads a blob before the row is encoded.
UploadRow ==
    /\ op.kind = "batch" /\ op.pc = "rows" /\ op.next <= Len(op.given)
    /\ op.given[op.next] = "upload"
    /\ op' = StartWrite(op, op.next, 1, op)
    /\ Sends(Now, <<Request("create", <<op.next>>)>>, TRUE)
    /\ UNCHANGED server

AddRow ==
    /\ op.kind = "batch" /\ op.next <= Len(op.given)
    /\ op.pc = IF op.given[op.next] = "upload" THEN "bound" ELSE "rows"
    /\ LET row == [n |-> op.next, id |-> IdOf(op), bad |-> op.next \in op.bad]
           b == [op EXCEPT !.rows = Append(@, row), !.ids = Registering(op), !.next = @ + 1, !.pc = "rows"]
       IN IF Len(b.rows) >= RowsPerCycle THEN ExecCycle(b)
          ELSE op' = b /\ UNCHANGED <<out, line, deferred>>
    /\ UNCHANGED server

LastCycle ==
    /\ op.kind = "batch" /\ op.pc = "rows" /\ op.next > Len(op.given) /\ op.rows # <<>>
    /\ ExecCycle(op)
    /\ UNCHANGED server

BatchEnds(b, a, ok, inbound) ==
    /\ op' = BatchEnded(b, ok)
    /\ out' = out \o ReleasesBatch(b)
    /\ line' = a.rest
    /\ deferred' = a.deferred + inbound + Len(ReleasesBatch(b))

BatchReturns ==
    /\ op.kind = "batch" /\ op.pc = "rows" /\ op.next > Len(op.given) /\ op.rows = <<>>
    /\ BatchEnds(op, Now, TRUE, 0)
    /\ UNCHANGED server

\* A row cannot be bound or encoded, or the source of rows throws.
RowThrows ==
    /\ "source" \in Faults
    /\ op.kind = "batch" /\ op.pc \in {"rows", "bound"} /\ op.next <= Len(op.given)
    /\ BatchEnds(op, Now, FALSE, 0)
    /\ UNCHANGED server

CycleAnswered(a) ==
    /\ op.kind = "batch" /\ op.pc = "read" /\ a.ok
    /\ op' = [op EXCEPT !.expect = Tail(@), !.pc = IF Len(op.expect) = 2 THEN "completion" ELSE "read"]
    /\ Sends(a, <<>>, FALSE)

\* What follows a failed answer, the reply to the execution included.
Inbound(b) == Len(b.expect) - 1

CycleFails(a) ==
    /\ op.kind = "batch" /\ op.pc \in {"read", "completion"} /\ ~a.ok
    /\ BatchEnds(op, a, FALSE, Inbound(op))

CompletedCountsFirst(b, data) ==
    [b EXCEPT !.done = @ + Len(b.rows), !.counts = @ \o data,
              !.errors = @ \cup {b.done + Len(b.rows) + k : k \in {j \in DOMAIN data : ~data[j]}},
              !.rows = <<>>, !.ids = <<>>, !.expect = <<>>, !.pc = "rows"]

\* Rows are numbered from where the cycle began.
Completed(b, data) ==
    [b EXCEPT !.done = @ + Len(b.rows), !.counts = @ \o data,
              !.errors = @ \cup {b.done + k : k \in {j \in DOMAIN data : ~data[j]}},
              !.rows = <<>>, !.ids = <<>>, !.expect = <<>>, !.pc = "rows"]

CycleCompleted(a) ==
    /\ op.kind = "batch" /\ op.pc = "completion" /\ a.ok
    /\ LET b == Completed(op, a.data)
       IN IF ~b.multi /\ b.errors # {}
          THEN BatchEnds(b, a, FALSE, 0)
          ELSE op' = b /\ Sends(a, <<>>, FALSE)

-----------------------------------------------------------------------------
(* Reading. *)

DrainsUncounted(x) == ~x.completion

\* readOp() takes an op_response for a deferred one's while it counts any.
Drains(x) == deferred > 0 /\ ~x.completion

Drain(x) ==
    /\ Drains(x) /\ x.ok
    /\ line' = Tail(line)
    /\ deferred' = deferred - 1
    /\ UNCHANGED <<out, op>>

\* The operation gets its answer, or what it awaits throws: because the answer
\* is an error, or is another operation's completion, or because an answer to
\* be drained is an error.
Taken(x) ==
    [ok |-> x.ok /\ (x.completion => op.pc = "completion"), eof |-> x.eof, data |-> x.data,
     rest |-> Tail(line), deferred |-> IF Drains(x) THEN deferred - 1 ELSE deferred]

Handle(a) ==
    \/ OneOpened(a) \/ OneSegment(a) \/ OneDrains(a)
    \/ ManyOpened(a) \/ ManySegment(a) \/ ManyClosed(a) \/ ManyFails(a) \/ ManyDrains(a)
    \/ WriteCreated(a) \/ WriteAnswered(a) \/ WriteDrains(a)
    \/ CycleAnswered(a) \/ CycleFails(a) \/ CycleCompleted(a)

Read ==
    /\ Reading /\ line # <<>>
    /\ \E x \in Answers(Head(line)) :
        /\ server' = x.server
        /\ Drain(x) \/ (~(Drains(x) /\ x.ok) /\ Handle(Taken(x)))
    /\ UNCHANGED ops

Begin ==
    /\ op.kind = "idle" /\ ops < MaxOps
    /\ ops' = ops + 1
    /\ \/ "one" \in Kinds /\ \E n \in 0..MaxSegs : ReadBlob(n)
       \/ "many" \in Kinds /\ \E n \in 2..MaxBlobs : \E size \in [1..n -> 0..MaxSegs] : ReadBlobs(size)
       \/ "write" \in Kinds /\ \E n \in 0..MaxSegs : WriteBlob(n)
       \/ /\ "batch" \in Kinds
          /\ \E n \in 1..MaxRows : \E kinds \in [1..n -> AllRows], bad \in SUBSET (1..n), multi \in BOOLEAN :
                ExecuteBatch(kinds, bad, multi)
    /\ UNCHANGED server

Proceed ==
    /\ \/ SendSegment \/ SendClose \/ SourceThrows
       \/ UploadRow \/ AddRow \/ LastCycle \/ BatchReturns \/ RowThrows
    /\ UNCHANGED ops

Next == Begin \/ Proceed \/ Read

\* The server answers what it was sent, and callbacks run.
Spec == Init /\ [][Next]_vars /\ WF_vars(Proceed) /\ WF_vars(Read)

-----------------------------------------------------------------------------
(* Properties. *)

TypeOK ==
    /\ op.kind \in AllKinds \cup {"idle"} /\ ops \in 0..MaxOps /\ deferred \in Nat
    /\ \A k \in DOMAIN (line \o out) :
        (line \o out)[k].kind \in (AllFaults \cup {"free"}) \ {"source"}

\* The answers the operation that runs is going to read, in its own books.
Awaited ==
    CASE op.kind = "idle" -> <<>>
      [] op.kind = "one" -> IF op.pc = "open" THEN <<Request("open", <<1>>)>> ELSE Segs(1, op.fly)
      [] op.kind = "many" ->
            (IF op.pc = "drain" THEN <<>> ELSE <<op.current>>) \o op.pending \o op.unflushed
      [] op.kind = "write" ->
            IF op.pc = "open" THEN <<Request("create", <<op.i>>)>> ELSE
            LET close == IF op.closing THEN <<Request("close", HandleOf(op.i))>> ELSE <<>>
                n == op.fly + IF Reading THEN 1 ELSE 0
            IN [k \in 1..(n - Len(close)) |-> Request("put", HandleOf(op.i))] \o close
      [] op.kind = "batch" -> op.expect

\* The counter and the books of the operation account for every request, in
\* order: whatever failed, the answer read next is the one taken for it.
InStep ==
    LET all == line \o out
    IN /\ Len(all) = deferred + Len(Awaited)
       /\ \A k \in DOMAIN Awaited : all[deferred + k] = Awaited[k]

\* A read that succeeds returns each blob's segments, all of them and in order.
ReadsWhole ==
    op.kind = "idle" /\ op.ok /\ op.of \in {"one", "many"} =>
        \A i \in DOMAIN op.asked : op.got[i] = [k \in 1..op.asked[i] |-> <<i, k>>]

\* "Total in-flight stays <= PIPELINE_DEPTH segment requests plus OPEN_AHEAD
\* opens" (blob.ts:207).
WithinWindow ==
    LET Sent(kinds) == Len(SelectSeq(line, LAMBDA r : r.kind \in kinds))
    IN Sent({"seg", "put"}) <= Depth /\ Sent({"open"}) <= OpenAhead

\* The line between writer and reader: in step, and never with more on it than the
\* windows allow.
LineExact == TypeOK /\ InStep /\ WithinWindow

\* An operation that has ended, however it did, has closed what it opened at
\* the server or the request is on its way. The exception are blobs whose
\* handle readBlobs() threw away while draining.
Releases ==
    op.kind = "idle" =>
        /\ \A h \in DOMAIN server.blobs :
            h[1] = ops /\ (op.of = "many" => op.known[h[2]]) =>
                \E k \in DOMAIN (line \o out) :
                    (line \o out)[k] \in {Request("free", h), Request("close", h)}
        /\ server.batch.open => Contains(line \o out, Request("release", <<>>))

\* A batch reports the rows the server refused and no others, under the number
\* they had among the rows given; without continueOnError, the first of them.
BatchReports ==
    op.kind = "idle" /\ op.of = "batch" =>
        LET bad == op.asked.bad
            first == {n \in bad : \A m \in bad : n <= m}
        IN /\ op.got.errors \subseteq bad
           /\ op.ok => op.got.errors = bad /\ op.got.done = Len(op.asked.given)
           /\ ~op.asked.multi => op.got.errors \subseteq first /\ (op.ok => bad = {})
           /\ \A n \in DOMAIN op.got.counts : op.got.counts[n] <=> n \notin bad

\* What an operation returns is what the server holds of it, row by row and segment
\* by segment.
ResultsRight == ReadsWhole /\ BatchReports

\* Every operation comes to an end: nobody waits for an answer to a request
\* that is still in the writer, or was never made.
Settles == op.kind # "idle" ~> op.kind = "idle"
=============================================================================
