-------------------------------- MODULE Wire --------------------------------
(***************************************************************************)
(* The wire of one connection, packages/core/src/protocol/wire.ts and      *)
(* statement.ts, under the op-lock of api/attachment.ts: operations take   *)
(* turns; each sends packets of requests and reads the answers, which the  *)
(* server gives in the order of the requests. A statement is freed lazily: *)
(* the request waits in the writer for the next packet, and whoever reads  *)
(* next drains its answer first, the counter saying how many to drain.     *)
(*                                                                         *)
(* An execute that fails leaves the answers of what rode behind it to be   *)
(* drained in the same way.                                                *)
(*                                                                         *)
(* What an operation does between taking and leaving the lock is left      *)
(* open: any sequence of packets and lazy frees. A packet's answer is one  *)
(* step of the server; bytes, blobs sent inline and op_dummy are not shown.*)
(*                                                                         *)
(* Operators named ...Mutant, ...Unmarked and ...Uncounted are what a slip *)
(* would make of the definition that follows; no specification uses them.  *)
(***************************************************************************)
EXTENDS Naturals, Sequences, SequencesExt

CONSTANTS
    Tasks,          \* callers of withLock()
    Ids, NoId,      \* names of packets, to tell whose answer an answer is
    Packets,        \* what operations send in one flush, a subset of AllPackets
    MayFail,        \* requests the server may answer with an error
    Events,         \* what else may happen, a subset of AllEvents
    MaxDeferred,    \* bound on lazy requests outstanding
    MaxUnread       \* bound on answers left unread when an operation sends

AllPackets == {
    <<"call">>, <<"fetch">>,
    <<"allocate", "prepare">>,
    <<"execute">>, <<"execute", "fetch">>, <<"execute", "info">>,
    <<"execute2">>, <<"execute2", "info">> }

AllEvents == {"die", "clear", "clearIdle"}

Ops == {"call", "fetch", "allocate", "prepare", "execute", "execute2", "info", "free"}

ASSUME WireAssumption ==
    /\ Packets \subseteq AllPackets /\ MayFail \subseteq Ops /\ Events \subseteq AllEvents
    /\ NoId \notin Ids /\ MaxDeferred \in Nat /\ MaxUnread \in Nat

VARIABLES
    chain,      \* opChain: the operation that runs and those behind it
    pipe,       \* requests written whose answers nobody has read, oldest first
    deferred,   \* deferredResponses
    expect,     \* the requests whose answers the running operation will read
    answer,     \* what its last read returned or threw
    up,         \* the transport has no error
    failed,     \* the server's last answer was an error
    slipped     \* history: an answer was left behind that nobody counts, or one
                \* was counted that its reader awaits

vars == <<chain, pipe, deferred, expect, answer, up, failed, slipped>>

States == {"written", "sent", "ok", "rows", "row", "error"}
Requests == [id : Ids, op : Ops]
Entries == [id : Ids, op : Ops, state : States, place : 1..2]

NoAnswer == [req |-> [id |-> NoId, op |-> "none"], ok |-> TRUE]
Lost == [NoAnswer EXCEPT !.ok = FALSE]

TypeOK ==
    /\ chain \in Seq(Tasks) /\ pipe \in Seq(Entries) /\ expect \in Seq(Requests)
    /\ deferred \in Nat /\ up \in BOOLEAN /\ failed \in BOOLEAN /\ slipped \in BOOLEAN
    /\ answer \in {NoAnswer, Lost} \cup [req : Requests, ok : BOOLEAN]

Init ==
    /\ chain = <<>> /\ pipe = <<>> /\ expect = <<>> /\ deferred = 0
    /\ answer = NoAnswer /\ up = TRUE /\ failed = FALSE /\ slipped = FALSE

-----------------------------------------------------------------------------
(* The op-lock: withLock() chains each operation behind the one before it. *)

Enter(t) ==
    /\ t \notin Range(chain)
    /\ chain' = Append(chain, t)
    /\ UNCHANGED <<pipe, deferred, expect, answer, up, failed, slipped>>

\* The running operation between two exchanges.
Running == chain # <<>> /\ expect = <<>>

Leave ==
    /\ Running
    /\ chain' = Tail(chain)
    /\ answer' = NoAnswer
    /\ UNCHANGED <<pipe, deferred, expect, up, failed, slipped>>

-----------------------------------------------------------------------------
(* Requests. *)

RequestOf(x) == [id |-> x.id, op |-> x.op]
Unused == Ids \ ({pipe[k].id : k \in DOMAIN pipe} \cup {expect[k].id : k \in DOMAIN expect})
NewId == CHOOSE i \in Unused : TRUE

FlushedMutant == pipe

\* flush() sends what was written lazily ahead of the packet.
Flushed == [k \in DOMAIN pipe |->
              IF pipe[k].state = "written" THEN [pipe[k] EXCEPT !.state = "sent"] ELSE pipe[k]]

\* A request that is not the first of its packet needs what the first does: a
\* handle, a cursor.
Send(p) ==
    /\ Running /\ up /\ p \in Packets /\ Unused # {} /\ Len(pipe) <= MaxUnread
    /\ pipe' = Flushed \o [k \in DOMAIN p |->
                  [id |-> NewId, op |-> p[k], state |-> "sent", place |-> k]]
    /\ expect' = [k \in DOMAIN p |-> [id |-> NewId, op |-> p[k]]]
    /\ answer' = NoAnswer
    /\ UNCHANGED <<chain, deferred, up, failed, slipped>>

Call == Send(<<"call">>)
AllocateAndPrepare == Send(<<"allocate", "prepare">>)
ExecuteStatement == \E p \in Packets : Head(p) \in {"execute", "execute2"} /\ Send(p)
FetchRows == Send(<<"fetch">>)

\* On a transport that has failed, flush() empties the writer and throws.
SendLost ==
    /\ Running /\ ~up
    /\ \E n \in 0..Len(pipe) :
        /\ \A k \in DOMAIN pipe : pipe[k].state = "written" <=> k > n
        /\ pipe' = SubSeq(pipe, 1, n)
    /\ answer' = Lost
    /\ UNCHANGED <<chain, deferred, expect, up, failed, slipped>>

FreeUnmarked ==
    /\ Unused # {} /\ deferred < MaxDeferred
    /\ pipe' = Append(pipe, [id |-> NewId, op |-> "free", state |-> "written", place |-> 1])
    /\ UNCHANGED <<chain, deferred, expect, answer, up, failed>>

Free ==
    /\ Unused # {} /\ deferred < MaxDeferred
    /\ pipe' = Append(pipe, [id |-> NewId, op |-> "free", state |-> "written", place |-> 1])
    /\ deferred' = deferred + 1
    /\ UNCHANGED <<chain, expect, answer, up, failed>>

\* An operation frees a statement, evicts one from the cache or closes a blob.
FreeStatement == Running /\ Free /\ UNCHANGED slipped

\* clearStatementCaches() of the pool frees a borrowed connection's statements
\* without its lock; its borrower may or may not be in the middle of an exchange.
\* In the middle of one the counter covers an answer that the reader awaits.
ClearInUse ==
    /\ "clear" \in Events \/ ("clearIdle" \in Events /\ expect = <<>>)
    /\ Free
    /\ slipped' = (slipped \/ expect # <<>>)

-----------------------------------------------------------------------------
(* The server answers in order; what needs a request that failed fails too. *)

Normal(op) == CASE op = "fetch" -> "rows" [] op = "execute2" -> "row" [] OTHER -> "ok"

Answers(x) ==
    IF x.place > 1 /\ failed THEN {"error"}
    ELSE {Normal(x.op)} \cup {s \in {"error"} : x.op \in MayFail}

Answered(x) == x.state \notin {"written", "sent"}

Respond ==
    /\ up
    /\ \E k \in DOMAIN pipe :
        /\ pipe[k].state = "sent"
        /\ \A j \in 1..(k - 1) : Answered(pipe[j])
        /\ \E s \in Answers(pipe[k]) :
            /\ pipe' = [pipe EXCEPT ![k].state = s]
            /\ failed' = (s = "error")
    /\ UNCHANGED <<chain, deferred, expect, answer, up, slipped>>

Die ==
    /\ "die" \in Events /\ up
    /\ up' = FALSE
    /\ UNCHANGED <<chain, pipe, deferred, expect, answer, failed, slipped>>

-----------------------------------------------------------------------------
(* Reading. *)

CanRead == expect # <<>> /\ pipe # <<>> /\ Answered(Head(pipe))

DrainsMutant == FALSE

\* readOp() takes an op_response for a deferred one's while it counts any.
Drains == deferred > 0 /\ Head(pipe).state \in {"ok", "error"}

\* What the reading function of a request lets through; the others it throws at.
Accepted(op) ==
    CASE op = "fetch" -> {"rows", "ok"} [] op = "execute2" -> {"row", "ok"} [] OTHER -> {"ok"}

DrainUncounted ==
    /\ CanRead /\ Head(pipe).state = "ok"
    /\ pipe' = Tail(pipe)
    /\ deferred' = deferred - 1
    /\ UNCHANGED <<chain, expect, answer, up, failed, slipped>>

Drain ==
    /\ CanRead /\ Drains /\ Head(pipe).state = "ok"
    /\ pipe' = Tail(pipe)
    /\ deferred' = deferred - 1
    /\ UNCHANGED <<chain, expect, answer, up, failed, slipped>>

Take ==
    /\ CanRead /\ ~Drains
    /\ Head(pipe).state \in Accepted(Head(expect).op) \ {"row"}
    /\ pipe' = Tail(pipe)
    /\ expect' = Tail(expect)
    /\ answer' = [req |-> RequestOf(Head(pipe)), ok |-> TRUE]
    /\ UNCHANGED <<chain, deferred, up, failed, slipped>>

\* The row of op_execute2 comes first, in an op_sql_response, then its op_response.
TakeRow ==
    /\ CanRead
    /\ Head(pipe).state = "row" /\ "row" \in Accepted(Head(expect).op)
    /\ pipe' = [pipe EXCEPT ![1].state = "ok"]
    /\ UNCHANGED <<chain, deferred, expect, answer, up, failed, slipped>>

LeftDeferredMutant == IF Head(expect).op \in {"execute", "execute2"} THEN Len(expect) ELSE 0

\* executeStatement() marks what its packet carried behind the execute deferred
\* when a read throws; the other operations leave what they still expected.
LeftDeferred == IF Head(expect).op \in {"execute", "execute2"} THEN Len(expect) - 1 ELSE 0

\* readOp() throws the error of a deferred answer at whoever reads: what that
\* one awaited stays on the wire. So does the answer to the prepare when the
\* allocate ahead of it is refused.
LeavesBehind == Drains \/ Head(expect).op = "allocate"

Throw ==
    /\ CanRead
    /\ \/ Drains /\ Head(pipe).state = "error"
       \/ ~Drains /\ Head(pipe).state \notin Accepted(Head(expect).op)
    /\ pipe' = Tail(pipe)
    /\ deferred' = (IF Drains THEN deferred - 1 ELSE deferred) + LeftDeferred
    /\ expect' = <<>>
    /\ answer' = [req |-> RequestOf(Head(pipe)), ok |-> FALSE]
    /\ slipped' = (slipped \/ LeavesBehind)
    /\ UNCHANGED <<chain, up, failed>>

ReadLost ==
    /\ ~up /\ expect # <<>> /\ ~CanRead
    /\ deferred' = deferred + LeftDeferred
    /\ expect' = <<>>
    /\ answer' = Lost
    /\ UNCHANGED <<chain, pipe, up, failed, slipped>>

Read == Drain \/ Take \/ TakeRow \/ Throw \/ ReadLost

Next ==
    \/ \E t \in Tasks : Enter(t)
    \/ Leave \/ Call \/ AllocateAndPrepare \/ ExecuteStatement \/ FetchRows \/ SendLost
    \/ FreeStatement \/ ClearInUse \/ Respond \/ Die \/ Read

Spec == Init /\ [][Next]_vars

\* The server answers, what has arrived is read, and an operation makes
\* finitely many exchanges before it leaves.
FairSpec == Spec /\ WF_vars(Respond) /\ WF_vars(Read) /\ SF_vars(Leave)
-----------------------------------------------------------------------------
\* As long as nothing has slipped, the answers counted as deferred are those of
\* lazy frees and of what rode behind an execute that failed; they are on the
\* wire ahead of what the running operation awaits, and what it awaits is there
\* in the order in which it will read.
InSync ==
    ~slipped /\ (up \/ expect # <<>>) =>
        /\ Len(pipe) = deferred + Len(expect)
        /\ \A k \in 1..deferred : pipe[k].op \in {"free", "fetch", "info"}
        /\ \A k \in DOMAIN expect : RequestOf(pipe[deferred + k]) = expect[k]

\* The reader then drains an answer exactly when it is not the one it waits for.
ReadsRight == CanRead /\ ~slipped => (Drains <=> RequestOf(Head(pipe)) # Head(expect))

\* Operations see the connection that Exchange describes: whatever lazy frees
\* and failed executes leave in front, each gets its own answers, in order, and
\* its own errors, until an answer slips; and then still one at a time.
Abstract == INSTANCE Exchange WITH asked <- expect, broken <- slipped
ImplementsExchange == Abstract!ExSpec

\* Every operation that waits for its turn or for an answer comes to an end, as
\* long as nothing has slipped. (An answer of another kind than the reader knows
\* is thrown at with its bytes unread, which this model does not follow.)
Finishes == \A t \in Tasks : t \in Range(chain) ~> t \notin Range(chain) \/ slipped

-----------------------------------------------------------------------------
(* What the comments say, and the code does not do. *)

\* Every operation comes to an end (in-use connections clear lazily, their
\* deferred frees ride the next packet: pool.ts).
Settles == \A t \in Tasks : t \in Range(chain) ~> t \notin Range(chain)

\* An operation is told the answer it waits for, never the error of a deferred
\* request (such errors are dropped by design: readOp() in wire.ts).
OwnErrors == [][answer' # answer /\ answer'.req.id # NoId => answer'.req = Head(expect)]_vars
=============================================================================
