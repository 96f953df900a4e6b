----------------------------- MODULE LazyBlobs ------------------------------
(***************************************************************************)
(* Lazy blobs of one transaction: the handles of api/blob.ts with their    *)
(* cursors and streams, the read-ahead of api/blob-prefetch.ts that a      *)
(* query stream runs behind the consumer's back, and the blobs the server  *)
(* ships inline (api/inline-cache.ts). They share a connection through its *)
(* op-lock; between the await of a job and the next, and between two jobs, *)
(* anybody may change what the next step reads.                            *)
(*                                                                         *)
(* A step is the code between two awaits. An exchange with the server is   *)
(* two steps, request and answer, since others run in between; reading a   *)
(* whole blob is one exchange here and many in Pipeline. A deferred close  *)
(* reaches the server before anything written after it, so its effect is   *)
(* shown when it is written. A blob is a sequence of segments of size one. *)
(*                                                                         *)
(* ReleaseKeepsBudget, ForgottenKeepsHandle, DestroyLeaks,                 *)
(* ResumeCountsSpan, ResumeFromStart and SettledUnkicked are what a slip   *)
(* would make of the definition they precede.                              *)
(***************************************************************************)
EXTENDS Naturals, Sequences, FiniteSets, SequencesExt

CONSTANTS
    Blobs,          \* the blob of row k is k: a subset 1..n of the numbers
    Size,           \* segments of a blob
    Span,           \* segments of one window (32, and 8 for the read-ahead)
    Heads,          \* the n of head(n)
    Callers,        \* who calls head(), buffer(), prefetch() and close()
    Ops,            \* what is called, a subset of AllOps
    Habits,         \* what callers may do besides, a subset of AllHabits
    MaxCalls,       \* bound on calls
    Handles,        \* names of open blobs at the server
    Ahead,          \* read-ahead depth in rows
    MaxBytes,       \* budget of the read-ahead
    Capacity,       \* budget of the inline cache
    Faults          \* "read": the server may refuse to read

AllOps == {"head", "buffer", "close", "prefetch", "stream"}

\* overlap: a blob is used by two calls at once that are not both head(); late: a
\* query stream is left under who waits for a blob of its read-ahead, or a blob is
\* asked for whose fetch is being abandoned; early: the transaction ends under a
\* call or a stream.
AllHabits == {"overlap", "late", "early"}

ASSUME LazyBlobsAssumption ==
    /\ IsFiniteSet(Blobs) /\ Blobs = 1..Cardinality(Blobs) /\ Size \in Nat \ {0} /\ Heads \subseteq 1..(Size + 1)
    /\ Ops \subseteq AllOps /\ Habits \subseteq AllHabits
    /\ Handles \subseteq Nat \ {0} /\ {Span, MaxCalls, Ahead, MaxBytes, Capacity} \subseteq Nat

VARIABLES
    blob,       \* the fields of each Blob
    call,       \* what each caller is doing
    stream,     \* the Readable of each Blob
    ahead,      \* the BlobPrefetcher
    inline,     \* the InlineBlobCache: blobs held, and its usedBytes
    chain,      \* opChain: jobs, the first one running
    busy,       \* the exchange the running job awaits
    rows,       \* the query stream: rows yielded, and whether it was left
    alive,      \* the transaction is not finished
    open,       \* the server's open blobs of the transaction
    stray,      \* a close was sent for a blob that was not open
    calls       \* calls made

client == <<blob, call, stream>>
vars == <<client, ahead, inline, chain, busy, rows, alive, open, stray, calls>>

Content == [k \in 1..Size |-> k]
NoHandle == 0
Segments(from, n) == SubSeq(Content, from, from + n - 1)

Job(kind, b, who) == [kind |-> kind, b |-> b, who |-> who, h |-> NoHandle]
Nobody == 0

Fresh == [has |-> FALSE, cached |-> <<>>, consumed |-> <<>>, bytes |-> 0,
          handle |-> NoHandle, eof |-> FALSE]
NoCall == [op |-> "none", n |-> 0, pc |-> "idle", data |-> <<>>, group |-> {}]
NoStream == [on |-> FALSE, lead |-> <<>>, handle |-> NoHandle, finished |-> FALSE,
             pulling |-> FALSE, given |-> <<>>, ended |-> FALSE]
Untracked == [state |-> "none", bytes |-> <<>>, claimed |-> FALSE]

Init ==
    /\ blob = [b \in Blobs |-> Fresh]
    /\ call = [c \in Callers |-> NoCall]
    /\ stream = [b \in Blobs |-> NoStream]
    /\ ahead = [entry |-> [b \in Blobs |-> Untracked], used |-> 0, mark |-> 0,
                running |-> Nobody, handle |-> NoHandle, closed |-> FALSE]
    /\ inline = [held |-> {}, used |-> 0]
    /\ chain = <<>> /\ busy = "no"
    /\ rows = [at |-> 0, state |-> "reading"]
    /\ alive = TRUE /\ open = <<>> /\ stray = FALSE /\ calls = 0

-----------------------------------------------------------------------------
(* The server's blobs. *)

FreeHandles == Handles \ DOMAIN open
NewHandle == CHOOSE h \in FreeHandles : TRUE
Opened(b) == [h \in DOMAIN open \cup {NewHandle} |-> IF h = NewHandle THEN [b |-> b, at |-> 1] ELSE open[h]]

\* A window of n segments on handle h: those left, and whether the end was seen,
\* which a window that stops at the last segment may not have.
Window(h, n) ==
    LET left == Size + 1 - open[h].at
    IN [data |-> Segments(open[h].at, IF n < left THEN n ELSE left), eof |-> n > left]

Moved(h, w) == [open EXCEPT ![h].at = @ + Len(w.data)]

\* closeBlobDeferred(). Closing what is not open is answered with an error,
\* which the next reader on the connection is given (see Wire).
Closes(o, h) ==
    /\ open' = [g \in DOMAIN o \ {h} |-> o[g]]
    /\ stray' = (stray \/ h \notin DOMAIN o)

-----------------------------------------------------------------------------
(* Inline blobs. *)

\* What would exceed the capacity is dropped.
Fits == inline.used + Size <= Capacity

\* The server volunteers a blob ahead of the rows of a fetch.
StoreInline(b) ==
    /\ rows.at = 0 /\ Fits
    /\ inline' = [held |-> inline.held \cup {b},
                  used |-> inline.used + Size - IF b \in inline.held THEN Size ELSE 0]
    /\ UNCHANGED <<client, ahead, chain, busy, rows, alive, open, stray, calls>>

\* Blobs are handed over once.
Taken(g) == [held |-> inline.held \ g, used |-> inline.used - Size * Cardinality(inline.held \cap g)]

-----------------------------------------------------------------------------
(* The read-ahead. One blob is fetched at a time, a slice of the op-lock per *)
(* window. The steps below compute the prefetcher's fields, what is left of  *)
(* the inline cache, and the jobs that are put on the lock.                  *)

Eligible(p, b) ==
    LET e == p.entry[b] IN
    /\ e.state = "queued"
    /\ e.claimed \/ (~p.closed /\ b <= p.mark /\ p.used < MaxBytes)

Nxt(p) == LET q == {b \in Blobs : Eligible(p, b)} IN
          IF q = {} THEN Nobody ELSE CHOOSE b \in q : \A d \in q : b <= d

Slice(b) == <<Job("slice", b, Nobody)>>

\* kick() starts the first eligible fetch. A blob that is inline is done at once;
\* `running` is reset, and the next one kicked, when the fetch has settled.
Kick(p) ==
    LET b == Nxt(p) IN
    IF p.running # Nobody \/ b = Nobody
    THEN /\ ahead' = p
         /\ UNCHANGED inline
    ELSE IF b \in inline.held
    THEN /\ ahead' = [p EXCEPT !.running = b, !.entry[b].state = "done",
                               !.entry[b].bytes = Content, !.used = @ + Size]
         /\ inline' = Taken({b})
    ELSE /\ ahead' = [p EXCEPT !.running = b, !.handle = NoHandle, !.entry[b].state = "fetching"]
         /\ UNCHANGED inline

Kicks(p) == p.running = Nobody /\ Nxt(p) # Nobody /\ Nxt(p) \notin inline.held
JobsOf(p) == IF Kicks(p) THEN Slice(Nxt(p)) ELSE <<>>

ReleaseKeepsBudget(p, b) == [p EXCEPT !.entry[b] = Untracked]

\* release(): the entry goes and its bytes leave the budget.
Release(p, b) == [p EXCEPT !.entry[b] = Untracked, !.used = @ - Len(p.entry[b].bytes)]

-----------------------------------------------------------------------------
(* The query stream and its consumer. *)

\* The consumer takes the next row: addRow() when it was fetched, then advance().
Advance ==
    /\ rows.state = "reading" /\ rows.at < Cardinality(Blobs) /\ alive
    /\ rows' = [rows EXCEPT !.at = @ + 1]
    /\ LET p == [ahead EXCEPT !.mark = rows.at + 1 + Ahead,
                    !.entry = [b \in Blobs |->
                        IF rows.at = 0 THEN [@[b] EXCEPT !.state = "queued"] ELSE @[b]]]
       IN Kick(p) /\ chain' = chain \o JobsOf(p)
    /\ UNCHANGED <<client, busy, alive, open, stray, calls>>

\* The loop ends or is left: the read-ahead is closed, and a job closes the
\* cursor; iteration is over when that has run.
Leave ==
    /\ rows.state = "reading"
    /\ "late" \in Habits \/ \A b \in Blobs : ahead.entry[b].claimed => ahead.entry[b].state # "queued"
    /\ rows' = [rows EXCEPT !.state = "leaving"]
    /\ ahead' = [ahead EXCEPT !.closed = TRUE,
            !.entry = [b \in Blobs |->
                IF @[b].state = "queued" \/ (@[b].state = "done" /\ ~@[b].claimed)
                THEN Untracked ELSE @[b]]]
    /\ chain' = Append(chain, Job("leave", 0, Nobody))
    /\ UNCHANGED <<client, inline, busy, alive, open, stray, calls>>

\* commit() or rollback(): the transaction is finished from the call on.
End ==
    /\ alive /\ rows.state = "left"
    /\ "early" \in Habits \/
        /\ \A c \in Callers : call[c].pc = "idle"
        /\ \A b \in Blobs : stream[b].on => stream[b].finished
    /\ alive' = FALSE
    /\ chain' = Append(chain, Job("end", 0, Nobody))
    /\ UNCHANGED <<client, ahead, inline, busy, rows, open, stray, calls>>

-----------------------------------------------------------------------------
(* Calls on a Blob, up to their first await. *)

Concat(chunks, total) == [k \in 1..total |-> IF k <= Len(chunks) THEN chunks[k] ELSE 0]

\* promoteIfComplete(): a cursor that read to the end becomes the cache.
Promoted(r) ==
    IF r.eof /\ ~r.has
    THEN [r EXCEPT !.has = TRUE, !.cached = Concat(r.consumed, r.bytes), !.consumed = <<>>]
    ELSE r

Caches(r, data) == [r EXCEPT !.has = TRUE, !.cached = data, !.consumed = <<>>]
FirstOf(n, s) == SubSeq(s, 1, IF n < Len(s) THEN n ELSE Len(s))

\* One use of a blob at a time, but for heads, which go on where another stopped.
Unused(b, op) ==
    /\ \A c \in Callers : b \in call[c].group => op = "head" /\ call[c].op = "head"
    /\ stream[b].on => stream[b].finished

\* Who may call what: on the blobs of rows it was given, in a live transaction. Of
\* callers that are free any will do, as nothing tells them apart.
May(c, op, g) ==
    /\ op \in Ops /\ call[c].pc = "idle" /\ c = CHOOSE d \in Callers : call[d].pc = "idle"
    /\ calls < MaxCalls /\ alive
    /\ g # {} /\ g \subseteq 1..rows.at
    /\ "overlap" \in Habits \/ \A b \in g : Unused(b, op)
    /\ "late" \in Habits \/ \A b \in g : ahead.closed => ahead.entry[b].state # "fetching"

Calling(c, op, g, n, pc, data) ==
    /\ call' = [call EXCEPT ![c] = [op |-> op, n |-> n, pc |-> pc, data |-> data, group |-> g]]
    /\ calls' = calls + 1

\* Every read looks for the blob among the inline ones first.
ReadInline(c, op, b, n) ==
    /\ May(c, op, {b}) /\ ~blob[b].has /\ b \in inline.held
    /\ blob' = [blob EXCEPT ![b] = [@ EXCEPT !.has = TRUE, !.cached = Content]]
    /\ inline' = Taken({b})
    /\ Calling(c, op, {b}, n, "done", FirstOf(n, Content))
    /\ UNCHANGED <<stream, ahead, chain, busy, rows, alive, open, stray>>

\* The blob is the read-ahead's: take(). What is fetched is handed over, a
\* failure thrown, and otherwise the caller waits for the promise.
Claim(c, op, b, n) ==
    LET e == ahead.entry[b]
        settled == e.state \in {"done", "error"}
        p == IF e.state = "done" THEN Release(ahead, b)
             ELSE IF e.state = "error" THEN [ahead EXCEPT !.entry[b] = Untracked]
             ELSE [ahead EXCEPT !.entry[b].claimed = TRUE]
    IN
    /\ May(c, op, {b}) /\ ~blob[b].has /\ b \notin inline.held /\ e.state # "none"
    /\ IF e.state = "error"
       THEN /\ ahead' = p
            /\ UNCHANGED <<inline, chain>>
       ELSE Kick(p) /\ chain' = chain \o JobsOf(p)
    /\ blob' = IF e.state = "done" THEN [blob EXCEPT ![b] = [@ EXCEPT !.has = TRUE, !.cached = e.bytes]] ELSE blob
    /\ IF e.state = "error" THEN call' = call /\ calls' = calls + 1
       ELSE Calling(c, op, {b}, n, IF settled THEN "done" ELSE "take", FirstOf(n, e.bytes))
    /\ UNCHANGED <<stream, busy, rows, alive, open, stray>>

OnDemand(b) == ~blob[b].has /\ b \notin inline.held /\ ahead.entry[b].state = "none"

\* What was read before is enough for n segments.
Enough(b, n) == blob[b].eof \/ blob[b].bytes >= n

\* head(n) and buffer() go to the server, unless enough was read before.
ReadLocked(c, op, b, n) ==
    /\ May(c, op, {b}) /\ OnDemand(b)
    /\ IF op = "head" /\ Enough(b, n)
       THEN /\ blob' = [blob EXCEPT ![b] = Promoted(@)]
            /\ Calling(c, op, {b}, n, "done",
                       FirstOf(n, IF blob[b].eof THEN blob'[b].cached ELSE Concat(blob[b].consumed, blob[b].bytes)))
            /\ UNCHANGED chain
       ELSE /\ chain' = Append(chain, Job(op, b, c))
            /\ Calling(c, op, {b}, n, "job", <<>>)
            /\ UNCHANGED blob
    /\ UNCHANGED <<stream, ahead, inline, busy, rows, alive, open, stray>>

ForgottenKeepsHandle(r) == [r EXCEPT !.consumed = <<>>, !.bytes = 0, !.eof = FALSE]
Forgotten(r) == [r EXCEPT !.handle = NoHandle, !.consumed = <<>>, !.bytes = 0, !.eof = FALSE]

\* close(): the cursor is forgotten now, its handle closed under the lock.
Close(c, b) ==
    /\ May(c, "close", {b}) /\ blob[b].bytes > 0
    /\ blob' = [blob EXCEPT ![b] = Forgotten(@)]
    /\ IF blob[b].handle = NoHandle
       THEN Calling(c, "close", {b}, 0, "done", <<>>) /\ UNCHANGED chain
       ELSE /\ Calling(c, "close", {b}, 0, "job", <<>>)
            /\ chain' = Append(chain, [Job("close", b, c) EXCEPT !.h = blob[b].handle])
    /\ UNCHANGED <<stream, ahead, inline, busy, rows, alive, open, stray>>

\* Blob.prefetch(): blobs that are read, begun or tracked are skipped.
Bulk(c) ==
    LET fresh == {b \in 1..rows.at : ~blob[b].has /\ blob[b].handle = NoHandle /\ blob[b].bytes = 0}
        local == fresh \cap inline.held
        group == {b \in fresh \ local : ahead.entry[b].state = "none"}
    IN
    /\ May(c, "prefetch", 1..rows.at)
    /\ blob' = [b \in Blobs |-> IF b \in local THEN [blob[b] EXCEPT !.has = TRUE, !.cached = Content] ELSE blob[b]]
    /\ inline' = Taken(local)
    /\ Calling(c, "prefetch", group, 0, IF group = {} THEN "done" ELSE "job", <<>>)
    /\ chain' = IF group = {} THEN chain ELSE Append(chain, Job("prefetch", 0, c))
    /\ UNCHANGED <<stream, ahead, busy, rows, alive, open, stray>>

\* stream() of what is not in memory takes the cursor over; what is in memory is
\* a buffer() when it is first read.
Stream(c, b) ==
    LET r == Promoted(blob[b]) IN
    /\ May(c, "stream", {b}) /\ OnDemand(b) /\ ~stream[b].on
    /\ calls' = calls + 1
    /\ IF r.has
       THEN blob' = [blob EXCEPT ![b] = r] /\ UNCHANGED stream
       ELSE /\ blob' = [blob EXCEPT ![b] = Fresh]
            /\ stream' = [stream EXCEPT ![b] = [NoStream EXCEPT !.on = TRUE, !.handle = r.handle,
                                                   !.lead = Concat(r.consumed, r.bytes)]]
    /\ UNCHANGED <<call, ahead, inline, chain, busy, rows, alive, open, stray>>

\* read(): the consumer wants more. The bytes the cursor had read come first.
Read(b) ==
    LET s == stream[b] IN
    /\ s.on /\ ~s.pulling /\ ~s.finished
    /\ stream' = [stream EXCEPT ![b] = [s EXCEPT !.given = @ \o s.lead, !.lead = <<>>, !.pulling = TRUE]]
    /\ chain' = Append(chain, Job("pull", b, Nobody))
    /\ UNCHANGED <<blob, call, ahead, inline, busy, rows, alive, open, stray, calls>>

DestroyLeaks(b) == <<>>

\* destroy() of an unfinished stream has the handle closed under the lock, after
\* a pull in flight.
Destroys(b) == <<Job("destroy", b, Nobody)>>

Destroy(b) ==
    /\ stream[b].on /\ ~stream[b].finished
    /\ stream' = [stream EXCEPT ![b].finished = TRUE]
    /\ chain' = chain \o Destroys(b)
    /\ UNCHANGED <<blob, call, ahead, inline, busy, rows, alive, open, stray, calls>>

\* The caller goes on with what it was given.
Return(c) ==
    /\ call[c].pc = "done"
    /\ call' = [call EXCEPT ![c] = NoCall]
    /\ UNCHANGED <<blob, stream, ahead, inline, chain, busy, rows, alive, open, stray, calls>>

-----------------------------------------------------------------------------
(* The op-lock. A job runs to its first exchange, and from each answer to the *)
(* next exchange or its end; what awaited it goes on before the next job.     *)

job == Head(chain)
Ends(jobs) == chain' = Tail(chain) \o jobs /\ busy' = "no"
Awaits(what, h) == chain' = [chain EXCEPT ![1].h = h] /\ busy' = what

Settles(c, data) == call' = [call EXCEPT ![c].pc = "done", ![c].data = data]
Throws(c) == call' = [call EXCEPT ![c] = NoCall]

Running(kinds) == chain # <<>> /\ busy = "no" /\ job.kind \in kinds

\* The first step of a job that reads through the handle h it may have to open.
Reads(h) ==
    /\ Awaits(IF h = NoHandle THEN "open" ELSE "read", h)
    /\ UNCHANGED <<client, ahead, inline, rows, alive, open, stray, calls>>

StartHead ==
    /\ Running({"head"}) /\ ~Enough(job.b, call[job.who].n)
    /\ Reads(blob[job.b].handle)

\* buffer() without a cursor reads the whole blob; readBlobs() reads a group.
Whole(b) == blob[b].handle = NoHandle /\ blob[b].bytes = 0 /\ ~blob[b].eof

StartWhole ==
    /\ Running({"buffer", "prefetch"})
    /\ job.kind = "buffer" => Whole(job.b)
    /\ Awaits("whole", NoHandle)
    /\ UNCHANGED <<client, ahead, inline, rows, alive, open, stray, calls>>

StartResume ==
    /\ Running({"buffer"}) /\ ~Whole(job.b) /\ ~blob[job.b].eof
    /\ Awaits("read", blob[job.b].handle)
    /\ UNCHANGED <<client, ahead, inline, rows, alive, open, stray, calls>>

StartSlice == Running({"slice"}) /\ Reads(ahead.handle)
StartPull ==
    /\ Running({"pull"}) /\ ~stream[job.b].finished /\ alive
    /\ Reads(stream[job.b].handle)

\* What the caller of a head() or buffer() is given once its job is through.
HeadOf(c, r) == LET q == Promoted(r) IN
    FirstOf(call[c].n, IF q.has THEN q.cached ELSE Concat(q.consumed, q.bytes))

\* An earlier job has read as far as is wanted.
AtEnd ==
    /\ Running({"head", "buffer"}) /\ Enough(job.b, call[job.who].n)
    /\ LET r == blob[job.b]
           all == Concat(r.consumed, r.bytes)
       IN IF job.kind = "head"
          THEN Settles(job.who, HeadOf(job.who, r)) /\ blob' = [blob EXCEPT ![job.b] = Promoted(r)]
          ELSE Settles(job.who, all) /\ blob' = [blob EXCEPT ![job.b] = Caches(r, all)]
    /\ Ends(<<>>)
    /\ UNCHANGED <<stream, ahead, inline, rows, alive, open, stray, calls>>

\* openBlob() answered: the handle is kept, and the first window asked for.
AnswerOpen ==
    /\ busy = "open" /\ FreeHandles # {}
    /\ open' = Opened(job.b)
    /\ Awaits("read", NewHandle)
    /\ blob' = IF job.kind = "head" THEN [blob EXCEPT ![job.b].handle = NewHandle] ELSE blob
    /\ stream' = IF job.kind = "pull" THEN [stream EXCEPT ![job.b].handle = NewHandle] ELSE stream
    /\ ahead' = IF job.kind = "slice" THEN [ahead EXCEPT !.handle = NewHandle] ELSE ahead
    /\ UNCHANGED <<call, inline, rows, alive, stray, calls>>

\* A window came in: finishCursor() at the end, else the loop goes round.
ResumeCountsSpan(r, w) == [r EXCEPT !.consumed = @ \o w.data, !.bytes = @ + Span, !.eof = w.eof]
ResumeFromStart(r, w) == [r EXCEPT !.consumed = w.data, !.bytes = @ + Len(w.data), !.eof = w.eof]
Resume(r, w) == [r EXCEPT !.consumed = @ \o w.data, !.bytes = @ + Len(w.data), !.eof = w.eof]

AnswerCursor ==
    LET c == job.who
        b == job.b
        least == IF job.kind = "head" THEN call[c].n - blob[b].bytes ELSE Span
        w == Window(job.h, IF least < Span THEN least ELSE Span)
        r == [Resume(blob[b], w) EXCEPT !.handle = IF w.eof THEN NoHandle ELSE @]
        full == job.kind = "head" /\ r.bytes >= call[c].n
    IN
    /\ busy = "read" /\ job.kind \in {"head", "buffer"} /\ job.h \in DOMAIN open
    /\ IF w.eof THEN Closes(Moved(job.h, w), job.h) ELSE open' = Moved(job.h, w) /\ UNCHANGED stray
    /\ IF ~w.eof /\ ~full
       THEN /\ blob' = [blob EXCEPT ![b] = r]
            /\ UNCHANGED <<call, chain>> /\ busy' = "no"
       ELSE /\ Ends(<<>>)
            /\ IF job.kind = "head"
               THEN blob' = [blob EXCEPT ![b] = Promoted(r)] /\ Settles(c, HeadOf(c, r))
               ELSE LET all == Concat(r.consumed, r.bytes) IN
                    blob' = [blob EXCEPT ![b] = Caches(r, all)] /\ Settles(c, all)
    /\ UNCHANGED <<stream, ahead, inline, rows, alive, calls>>

AnswerWhole ==
    LET c == job.who IN
    /\ busy = "whole"
    /\ blob' = [b \in Blobs |-> IF b \in call[c].group THEN Caches(blob[b], Content) ELSE blob[b]]
    /\ Settles(c, IF job.kind = "buffer" THEN Content ELSE <<>>)
    /\ Ends(<<>>)
    /\ UNCHANGED <<stream, ahead, inline, rows, alive, open, stray, calls>>

AnswerPull ==
    LET b == job.b
        w == Window(job.h, 1)
        s == stream[b]
        got == [s EXCEPT !.given = @ \o w.data, !.pulling = FALSE, !.finished = w.eof, !.ended = w.eof]
    IN
    /\ busy = "read" /\ job.kind = "pull"
    /\ open' = Moved(job.h, w)
    /\ IF s.finished    \* destroyed meanwhile, which closes the handle
       THEN UNCHANGED stream /\ Ends(<<>>)
       ELSE /\ stream' = [stream EXCEPT ![b] = got]
            /\ Ends(IF w.eof THEN <<[Job("eof", b, Nobody) EXCEPT !.h = job.h]>> ELSE <<>>)
    /\ UNCHANGED <<blob, call, ahead, inline, rows, alive, stray, calls>>

\* The server refuses, or the stream is pulled after the end of its transaction.
Fails ==
    /\ \/ "read" \in Faults /\ busy # "no"
       \/ Running({"pull"}) /\ ~alive /\ ~stream[job.b].finished
    /\ CASE job.kind \in {"head", "buffer", "prefetch"} ->
              Throws(job.who) /\ Ends(<<>>) /\ UNCHANGED stream
         [] job.kind = "slice" -> Ends(<<Job("giveUp", job.b, Nobody)>>) /\ UNCHANGED <<call, stream>>
         [] job.kind = "pull" ->
              /\ stream' = [stream EXCEPT ![job.b].finished = TRUE]
              /\ Ends(IF stream[job.b].finished THEN <<>> ELSE Destroys(job.b))
              /\ UNCHANGED call
    /\ UNCHANGED <<blob, ahead, inline, rows, alive, open, stray, calls>>

\* A pull that finds its stream destroyed while it waited for the lock.
SkipPull ==
    /\ Running({"pull"}) /\ stream[job.b].finished
    /\ Ends(<<>>)
    /\ UNCHANGED <<client, ahead, inline, rows, alive, open, stray, calls>>

\* The jobs that only close. Those of Blob look whether the transaction lives, a
\* stream read to its end does not.
CloseJob ==
    LET h == IF job.kind = "destroy" THEN stream[job.b].handle ELSE job.h IN
    /\ Running({"close", "destroy", "eof"})
    /\ IF h # NoHandle /\ (alive \/ job.kind = "eof") THEN Closes(open, h) ELSE UNCHANGED <<open, stray>>
    /\ IF job.kind = "close" THEN Settles(job.who, <<>>) ELSE UNCHANGED call
    /\ Ends(<<>>)
    /\ UNCHANGED <<blob, stream, ahead, inline, rows, alive, calls>>

SettledUnkicked(p) == ahead' = [p EXCEPT !.running = Nobody] /\ Ends(<<>>) /\ UNCHANGED inline

\* A fetch has settled: running is reset and the next one kicked.
Settled(p) ==
    LET q == [p EXCEPT !.running = Nobody, !.handle = NoHandle] IN
    Kick(q) /\ Ends(JobsOf(q))

Claimants(b) == {c \in Callers : call[c].pc = "take" /\ b \in call[c].group}

\* A slice came in. The blob that is complete is handed to who claimed it; a
\* fetch nobody waits for is abandoned once the query stream was left.
AnswerSlice ==
    LET b == job.b
        e == ahead.entry[b]
        w == Window(job.h, Span)
        more == [ahead EXCEPT !.entry[b].bytes = @ \o w.data, !.used = @ + Len(w.data),
                              !.handle = IF w.eof THEN NoHandle ELSE @]
        done == [more EXCEPT !.entry[b].state = "done"]
        all == more.entry[b].bytes
    IN
    /\ busy = "read" /\ job.kind = "slice"
    /\ IF w.eof THEN Closes(Moved(job.h, w), job.h) ELSE open' = Moved(job.h, w) /\ UNCHANGED stray
    /\ IF ~w.eof
       THEN /\ ahead' = more
            /\ Ends(<<Job(IF ahead.closed /\ ~e.claimed THEN "abandon" ELSE "slice", b, Nobody)>>)
            /\ UNCHANGED <<blob, call, inline>>
       ELSE IF ~e.claimed
       THEN Settled(done) /\ UNCHANGED <<blob, call>>
       ELSE /\ Settled(Release(done, b))
            /\ blob' = IF Claimants(b) = {} THEN blob ELSE [blob EXCEPT ![b] = [@ EXCEPT !.has = TRUE, !.cached = all]]
            /\ call' = [c \in Callers |-> IF c \in Claimants(b)
                    THEN [call[c] EXCEPT !.pc = "done", !.data = IF call[c].op = "head" THEN FirstOf(call[c].n, all) ELSE all]
                    ELSE call[c]]
    /\ UNCHANGED <<stream, rows, alive, calls>>

\* The job in which an abandoned or failed fetch closes its handle, and what the
\* fetch does after it: a failure is kept for who asks, or thrown at who waits.
StopFetch ==
    LET b == job.b
        claimed == ahead.entry[b].claimed
        failed == job.kind = "giveUp"
        p == Release(ahead, b)
    IN
    /\ Running({"abandon", "giveUp"})
    /\ IF ahead.handle # NoHandle THEN Closes(open, ahead.handle) ELSE UNCHANGED <<open, stray>>
    /\ Settled(IF failed /\ ~claimed THEN [p EXCEPT !.entry[b].state = "error"] ELSE p)
    /\ call' = [c \in Callers |-> IF failed /\ c \in Claimants(b) THEN NoCall ELSE call[c]]
    /\ UNCHANGED <<blob, stream, rows, alive, calls>>

\* The rest of a fetch that found its blob inline.
Rekick ==
    /\ ahead.running # Nobody /\ ahead.entry[ahead.running].state \notin {"fetching", "queued"}
    /\ LET q == [ahead EXCEPT !.running = Nobody] IN Kick(q) /\ chain' = chain \o JobsOf(q)
    /\ UNCHANGED <<client, busy, rows, alive, open, stray, calls>>

\* The cursor is closed and iteration over; the server frees what was open.
LastJob ==
    /\ Running({"leave", "end"})
    /\ rows' = IF job.kind = "leave" THEN [rows EXCEPT !.state = "left"] ELSE rows
    /\ open' = IF job.kind = "end" THEN <<>> ELSE open
    /\ inline' = IF job.kind = "end" THEN Taken(inline.held) ELSE inline
    /\ Ends(<<>>)
    /\ UNCHANGED <<client, ahead, alive, stray, calls>>

-----------------------------------------------------------------------------
Turn ==
    \/ StartHead \/ StartWhole \/ StartResume \/ StartSlice \/ StartPull
    \/ AtEnd \/ AnswerOpen \/ AnswerCursor \/ AnswerWhole \/ AnswerPull \/ AnswerSlice
    \/ Fails \/ SkipPull \/ CloseJob \/ StopFetch \/ LastJob

Next ==
    \/ Advance \/ Leave \/ End \/ Turn \/ Rekick
    \/ \E b \in Blobs : StoreInline(b) \/ Read(b) \/ Destroy(b)
    \/ \E c \in Callers :
        \/ Return(c) \/ Bulk(c)
        \/ \E b \in Blobs :
            \/ Close(c, b) \/ Stream(c, b)
            \/ \E o \in {"head", "buffer"} : \E n \in IF o = "head" THEN Heads ELSE {Size + 1} :
                ReadInline(c, o, b, n) \/ Claim(c, o, b, n) \/ ReadLocked(c, o, b, n)

\* The event loop runs what is ready: answers come in or the operation fails.
Spec == Init /\ [][Next]_vars /\ WF_vars(Turn) /\ WF_vars(Rekick)

-----------------------------------------------------------------------------
TypeOK ==
    /\ \A b \in Blobs :
        /\ blob[b].handle \in Handles \cup {NoHandle} /\ blob[b].bytes \in 0..Size
        /\ stream[b].handle \in Handles \cup {NoHandle}
        /\ ahead.entry[b].state \in {"none", "queued", "fetching", "done", "error"}
    /\ \A c \in Callers : call[c].pc \in {"idle", "job", "take", "done"} /\ call[c].group \subseteq Blobs
    /\ ahead.running \in Blobs \cup {Nobody} /\ inline.held \subseteq Blobs
    /\ busy \in {"no", "open", "read", "whole"} /\ rows.state \in {"reading", "leaving", "left"}
    /\ DOMAIN open \subseteq Handles /\ calls \in 0..MaxCalls

\* A blob is its bytes, whichever way they came: a cursor resumed, the read-ahead,
\* the inline blobs or a whole read leave nothing out and nothing twice, in what
\* is cached, in what a call is given, and in a stream that takes a cursor over.
BytesRight ==
    /\ \A b \in Blobs :
        /\ blob[b].has => blob[b].cached = Content
        /\ IsPrefix(stream[b].given \o stream[b].lead, Content)
        /\ stream[b].ended => stream[b].given = Content
    /\ \A c \in Callers : call[c].pc = "done" =>
        /\ call[c].op = "buffer" => call[c].data = Content
        /\ call[c].op = "head" => call[c].data = FirstOf(call[c].n, Content)

\* The read-ahead's budget is the bytes it holds, so that a consumer who takes
\* them frees it; and the inline cache's is what it holds, never over capacity.
BudgetsExact ==
    /\ ~ahead.closed => ahead.used = FoldFunctionOnSet(LAMBDA e, n : n + Len(e.bytes), 0, ahead.entry, Blobs)
    /\ inline.used = Size * Cardinality(inline.held) /\ inline.used <= Capacity

\* Whoever will close an open blob: its cursor, its stream, the fetch that reads
\* it, a job on the lock, or the end
\* of the transaction, with which the server frees them all.
Owned(h) ==
    \/ \E b \in Blobs :
        \/ blob[b].handle = h
        \/ stream[b].handle = h /\ (stream[b].finished => \E k \in 1..Len(chain) : chain[k].kind = "destroy" /\ chain[k].b = b)
    \/ ahead.handle = h
    \/ \E k \in 1..Len(chain) : chain[k].h = h \/ chain[k].kind = "end"

\* No blob stays open at the server that nobody will close: what an abandoned
\* fetch, a destroyed stream or a closed cursor had open is closed by it.
HandlesOwned == \A h \in DOMAIN open : Owned(h)

\* No blob is closed twice, nor after its transaction: the server's error would
\* be the answer to somebody else's request.
ClosesLive == ~stray

\* Who would read on with a handle, as long as the transaction lives, has one of
\* his own blob, and open.
HandlesOpen == alive => \A b \in Blobs :
    \A h \in {blob[b].handle} \cup (IF stream[b].finished THEN {} ELSE {stream[b].handle})
              \cup (IF ahead.running = b THEN {ahead.handle} ELSE {}) :
        h # NoHandle => h \in DOMAIN open /\ open[h].b = b

\* An open blob is read by the one who has it, and closed by him, once, and in time.
HandlesExact == TypeOK /\ HandlesOwned /\ HandlesOpen /\ ClosesLive

\* Whoever asks for a blob is answered, by its bytes or an error.
CallsSettle == \A c \in Callers : call[c].pc # "idle" ~> call[c].pc \in {"idle", "done"}
=============================================================================
