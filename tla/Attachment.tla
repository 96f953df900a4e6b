----------------------------- MODULE Attachment -----------------------------
(***************************************************************************)
(* One Attachment (packages/core/src/api/attachment.ts), the Transaction   *)
(* objects of its callers (transaction.ts) and the transactions the server *)
(* keeps for its connection. Every operation is a job on the op-lock's     *)
(* chain; what a job works on, above all the transaction's handle, is read *)
(* when its turn comes, while the checks are made when it is called.       *)
(*                                                                         *)
(* A job is one exchange: Wire shows how it is carried out. Handles are    *)
(* numbers of the server, which it gives out again once they are free.     *)
(* run(), transaction(), prepare() and executeBatch() of Attachment are    *)
(* StartTransaction, Run and Commit or Rollback in the caller's order.     *)
(*                                                                         *)
(* Operators named ...Mutant and the like are what a slip would make of    *)
(* the definition that follows; no specification uses them.                *)
(***************************************************************************)
EXTENDS Naturals, Sequences

CONSTANTS
    Txs,            \* Transaction objects the program can have at one time
    NoTx,
    Handles,        \* transaction handles of the server
    NoHandle,
    MaxGeneration,  \* bound on reconnects
    MaxQueue,       \* bound on jobs in the chain
    Events          \* what may happen, and what callers do, a subset of AllEvents

\* "attachFail": reconnecting may fail, with "attachRefused" also after an orderly
\* detach; "restartFail": the second half of restart() may be refused; "overlap"
\* and "busyReconnect" lift what Considerate and Reconnect ask of callers.
AllEvents == {"die", "endFail", "startFail", "restartFail", "upgrade", "disconnect",
              "attachFail", "attachRefused", "overlap", "busyReconnect"}

ASSUME AttachmentAssumption ==
    /\ NoTx \notin Txs /\ NoHandle \notin Handles
    /\ MaxGeneration \in Nat /\ MaxQueue \in Nat
    /\ Events \subseteq AllEvents

VARIABLES
    opChain,        \* the job that runs and those behind it
    phase,          \* of the first: not begun, sent, or lost on a closed socket
    sent,           \* the transaction handle it sent
    wire,           \* the transport: open, in error, or closed without one
    detached,
    generation,     \* currentGeneration
    status,         \* each Transaction: not there, being started, active, finished
    handle,         \* currentHandle
    attGeneration,
    readOnly,       \* options.readOnly, with autoUpgradeReadOnly
    server          \* which Transaction began the server's transaction at a handle

attVars == <<wire, detached, generation>>
txVars == <<status, handle, attGeneration, readOnly>>
vars == <<opChain, phase, sent, attVars, txVars, server>>

Starts == {"start", "begin", "upgradeBegin"}
Runs == {"run", "replay"}
Ends == {"commit", "rollback", "end", "upgradeEnd"}
Jobs == [tx : Txs, op : Starts \cup Runs \cup Ends] \cup [tx : {NoTx}, op : {"reconnect"}]

TypeOK ==
    /\ opChain \in Seq(Jobs) /\ phase \in {"queued", "sent", "lost"}
    /\ sent \in Handles \cup {NoHandle}
    /\ wire \in {"open", "error", "closed"} /\ detached \in BOOLEAN
    /\ generation \in 0..MaxGeneration
    /\ status \in [Txs -> {"none", "starting", "active", "finished"}]
    /\ handle \in [Txs -> Handles \cup {NoHandle}]
    /\ \A t \in Txs : status[t] \in {"active", "finished"} => handle[t] # NoHandle
    /\ attGeneration \in [Txs -> 0..MaxGeneration]
    /\ readOnly \in [Txs -> BOOLEAN]
    /\ server \in [Handles -> Txs \cup {NoTx}]

Init ==
    /\ opChain = <<>> /\ phase = "queued" /\ sent = NoHandle
    /\ wire = "open" /\ detached = FALSE /\ generation = 0
    /\ status = [t \in Txs |-> "none"] /\ handle = [t \in Txs |-> NoHandle]
    /\ attGeneration = [t \in Txs |-> 0] /\ readOnly = [t \in Txs |-> FALSE]
    /\ server = [h \in Handles |-> NoTx]

-----------------------------------------------------------------------------
(* Calls: each checks its Transaction and goes to the end of the chain. *)

Enqueue(t, op) == Len(opChain) < MaxQueue /\ opChain' = Append(opChain, [tx |-> t, op |-> op])

Pending(t, ops) == \E k \in DOMAIN opChain : opChain[k].tx = t /\ opChain[k].op \in ops
Restarting(t) == Pending(t, {"end", "begin", "upgradeEnd", "upgradeBegin"})
Ending(t) == Pending(t, {"commit", "rollback"})
ReconnectCalled == phase = "queued" /\ Pending(NoTx, {"reconnect"})

\* Callers may have several operations of one Transaction under way, but leave it
\* alone while it restarts or may upgrade, and await a reconnect they called for.
Considerate(t) ==
    /\ "busyReconnect" \in Events \/ ~ReconnectCalled
    /\ "overlap" \in Events \/ (~Restarting(t) /\ ~(readOnly[t] /\ Pending(t, Runs)))

ActiveMutant(t) == status[t] = "active"

\* assertActive()
Active(t) == status[t] = "active" /\ attGeneration[t] = generation

StartTransaction(t) ==
    /\ status[t] = "none"
    /\ status' = [status EXCEPT ![t] = "starting"]
    /\ \E ro \in {FALSE, "upgrade" \in Events} : readOnly' = [readOnly EXCEPT ![t] = ro]
    /\ Enqueue(t, "start")
    /\ UNCHANGED <<phase, sent, attVars, handle, attGeneration, server>>

\* run(), executeBatch(), commitRetaining(), rollbackRetaining()
Run(t) ==
    /\ Active(t) /\ Considerate(t)
    /\ Enqueue(t, "run")
    /\ UNCHANGED <<phase, sent, attVars, txVars, server>>

FinishStaysActive(t, op) ==
    /\ Active(t) /\ Considerate(t)
    /\ Enqueue(t, op)
    /\ UNCHANGED <<phase, sent, attVars, txVars, server>>

Finish(t, op) ==
    /\ Active(t) /\ Considerate(t)
    /\ status' = [status EXCEPT ![t] = "finished"]
    /\ Enqueue(t, op)
    /\ UNCHANGED <<phase, sent, attVars, handle, attGeneration, readOnly, server>>

Commit(t) == Finish(t, "commit")
Rollback(t) == Finish(t, "rollback")

\* restart() of a finished Transaction begins with its second half, which callers who
\* await their commit or rollback leave for when that is answered. Operations that are
\* out already end before its first half.
Restart(t) ==
    /\ status[t] \in {"active", "finished"} /\ attGeneration[t] = generation
    /\ Considerate(t)
    /\ "overlap" \in Events \/ ~Ending(t)
    /\ Enqueue(t, IF status[t] = "active" THEN "end" ELSE "begin")
    /\ UNCHANGED <<phase, sent, attVars, txVars, server>>

\* The program drops a Transaction that is of no more use.
Forget(t) ==
    /\ status[t] = "finished" \/ (status[t] = "active" /\ attGeneration[t] # generation)
    /\ \A k \in DOMAIN opChain : opChain[k].tx # t
    /\ status' = [status EXCEPT ![t] = "none"]
    /\ handle' = [handle EXCEPT ![t] = NoHandle]
    /\ UNCHANGED <<opChain, phase, sent, attVars, attGeneration, readOnly, server>>

-----------------------------------------------------------------------------
(* Jobs: the first of the chain is sent and answered. *)

Job == Head(opChain)
Idle == opChain # <<>> /\ phase = "queued"
Awaiting == opChain # <<>> /\ phase = "sent"

\* The job at the head is over; its caller goes on with `more` at once.
Done(more) == opChain' = Tail(opChain) \o more /\ phase' = "queued" /\ sent' = NoHandle

FollowUp(op) == <<[tx |-> Job.tx, op |-> op]>>

Send ==
    /\ Idle /\ Job.op # "reconnect" /\ wire = "open"
    /\ phase' = "sent"
    /\ sent' = IF Job.op \in Starts THEN NoHandle ELSE handle[Job.tx]
    /\ UNCHANGED <<opChain, attVars, txVars, server>>

\* On a socket closed without an error nothing is refused and nothing answered.
SendLost ==
    /\ Idle /\ Job.op # "reconnect" /\ wire = "closed"
    /\ phase' = "lost"
    /\ UNCHANGED <<opChain, sent, attVars, txVars, server>>

Started ==
    /\ Awaiting /\ wire = "open" /\ Job.op \in Starts
    /\ \E h \in Handles :
        /\ server[h] = NoTx
        /\ server' = [server EXCEPT ![h] = Job.tx]
        /\ handle' = [handle EXCEPT ![Job.tx] = h]
    /\ status' = [status EXCEPT ![Job.tx] = "active"]
    /\ attGeneration' = IF Job.op = "start" THEN [attGeneration EXCEPT ![Job.tx] = generation]
                                           ELSE attGeneration
    /\ Done(IF Job.op = "upgradeBegin" THEN FollowUp("replay") ELSE <<>>)
    /\ UNCHANGED <<attVars, readOnly>>

Executed ==
    /\ Awaiting /\ wire = "open" /\ Job.op \in Runs /\ server[sent] # NoTx
    /\ Done(<<>>)
    /\ UNCHANGED <<attVars, txVars, server>>

\* A write that the read-only transaction refused restarts it read-write and is
\* sent again, once.
Upgrade ==
    /\ Awaiting /\ wire = "open" /\ Job.op = "run" /\ server[sent] # NoTx
    /\ readOnly[Job.tx] /\ Active(Job.tx)
    /\ Done(FollowUp("upgradeEnd"))
    /\ UNCHANGED <<attVars, txVars, server>>

Ended ==
    /\ Awaiting /\ wire = "open" /\ Job.op \in Ends /\ server[sent] # NoTx
    /\ server' = [server EXCEPT ![sent] = NoTx]
    /\ CASE Job.op = "end" ->
              /\ \E ro \in {readOnly[Job.tx], FALSE} : readOnly' = [readOnly EXCEPT ![Job.tx] = ro]
              /\ Done(FollowUp("begin"))
         [] Job.op = "upgradeEnd" ->
              readOnly' = [readOnly EXCEPT ![Job.tx] = FALSE] /\ Done(FollowUp("upgradeBegin"))
         [] OTHER -> Done(<<>>) /\ UNCHANGED readOnly
    /\ UNCHANGED <<attVars, status, handle, attGeneration>>

StatusAfterErrorMakesObject ==
    IF Job.op \in {"start", "commit", "rollback"} THEN "active" ELSE status[Job.tx]


StatusAfterErrorMutant == IF Job.op = "start" THEN "none" ELSE status[Job.tx]

\* startTransaction() then made no object; commit() and rollback() take
\* `finished` back, so that the owner can still end the transaction.
StatusAfterError ==
    CASE Job.op = "start" -> "none"
      [] Job.op \in {"commit", "rollback"} -> "active"
      [] OTHER -> status[Job.tx]

JobFails ==
    /\ status' = [status EXCEPT ![Job.tx] = StatusAfterError]
    /\ Done(<<>>)
    /\ UNCHANGED <<attVars, handle, attGeneration, readOnly, server>>

\* The server answers with an error.
Refused ==
    /\ Awaiting /\ wire = "open" /\ Job.op # "reconnect"
    /\ \/ Job.op \in Ends \cup Runs /\ server[sent] = NoTx
       \/ Job.op \in Ends /\ "endFail" \in Events
       \/ Job.op = "start" /\ "startFail" \in Events
       \/ Job.op \in Starts \ {"start"} /\ "restartFail" \in Events
    /\ JobFails

BrokenUnnoticed ==
    /\ Idle /\ Job.op # "reconnect" /\ wire = "error"
    /\ JobFails

\* The transport's error is thrown at the job that waits for an answer, and at
\* every later one as it sends.
Broken ==
    /\ Idle \/ Awaiting
    /\ Job.op # "reconnect" /\ wire = "error"
    /\ JobFails

-----------------------------------------------------------------------------
NoTransactions == [h \in Handles |-> NoTx]

Die ==
    /\ "die" \in Events /\ wire = "open"
    /\ wire' = "error"
    /\ server' = NoTransactions
    /\ UNCHANGED <<opChain, phase, sent, detached, generation, txVars>>

Reconnect ==
    /\ ~detached /\ generation < MaxGeneration /\ ~Pending(NoTx, {"reconnect"})
    /\ "busyReconnect" \in Events \/ opChain = <<>>
    /\ Enqueue(NoTx, "reconnect")
    /\ UNCHANGED <<phase, sent, attVars, txVars, server>>

\* The job detaches, unless the connection is dead, and connects again.
Reattach ==
    /\ Idle /\ Job.op = "reconnect"
    /\ generation' = generation + 1
    /\ server' = NoTransactions
    /\ phase' = IF wire = "closed" THEN "lost" ELSE "sent"
    /\ UNCHANGED <<opChain, sent, wire, detached, txVars>>

Reattached ==
    /\ Awaiting /\ Job.op = "reconnect"
    /\ wire' = "open"
    /\ Done(<<>>)
    /\ UNCHANGED <<detached, generation, txVars, server>>

AttachFails ==
    /\ Awaiting /\ Job.op = "reconnect"
    /\ "attachFail" \in Events /\ (wire = "error" \/ "attachRefused" \in Events)
    /\ wire' = IF wire = "open" THEN "closed" ELSE wire
    /\ Done(<<>>)
    /\ UNCHANGED <<detached, generation, txVars, server>>

\* disconnect() does not queue: its read takes the place of the one in progress,
\* which is never resolved. A reconnect that is past its detach goes on.
Disconnect ==
    /\ "disconnect" \in Events /\ ~detached
    /\ detached' = TRUE
    /\ wire' = IF wire = "open" THEN "closed" ELSE wire
    /\ server' = NoTransactions
    /\ \/ phase' = IF phase = "sent" /\ wire = "open" THEN "lost" ELSE phase
       \/ Awaiting /\ Job.op = "reconnect" /\ UNCHANGED phase
    /\ UNCHANGED <<opChain, sent, generation, txVars>>

Reply == Started \/ Executed \/ Upgrade \/ Ended \/ Refused \/ Reattached \/ AttachFails

Next ==
    \/ \E t \in Txs :
        StartTransaction(t) \/ Run(t) \/ Commit(t) \/ Rollback(t) \/ Restart(t) \/ Forget(t)
    \/ Send \/ SendLost \/ Reply \/ Broken
    \/ Die \/ Reconnect \/ Reattach \/ Disconnect

Spec == Init /\ [][Next]_vars

\* A job whose turn has come is sent; the server answers or the connection is
\* lost; a lost connection is noticed. Nobody has to call anything.
Fairness == WF_vars(Send \/ Reattach) /\ WF_vars(Reply) /\ WF_vars(Broken)

FairSpec == Spec /\ Fairness
-----------------------------------------------------------------------------
\* "Statements always run on the one server transaction" (transaction.ts:168):
\* whatever was queued, restarted, upgraded or reconnected between the call of a
\* considerate caller and its turn, the handle a job sends is that of its own
\* Transaction, still alive.
OwnTransaction ==
    Awaiting /\ wire = "open" /\ sent # NoHandle => server[sent] = Job.tx

\* No transaction stays open on the server that nobody can end: a refused commit
\* leaves it to its Transaction, which is active again.
NoLeak ==
    wire = "open" => \A h \in Handles : server[h] # NoTx =>
        LET t == server[h] IN
        /\ handle[t] = h /\ attGeneration[t] = generation
        /\ status[t] = "active" \/ Ending(t)

\* An active Transaction that is not just restarting is alive on the server.
NoZombie ==
    wire = "open" => \A t \in Txs :
        Active(t) /\ ~Restarting(t) => server[handle[t]] = t

\* Server and objects agree: what is open at one is alive at the other, however
\* commits were refused, transactions restarted and connections lost.
ServerAgrees == TypeOK /\ NoLeak /\ NoZombie

\* The head of the chain gives way, so that every job gets its turn, as long as
\* nobody disconnects: a lost connection or a failed job blocks no one.
Served == opChain # <<>> /\ phase' = "queued" /\ opChain' # opChain
Settles == []~detached => []<>(opChain = <<>>) \/ []<><<Served>>_vars
=============================================================================
