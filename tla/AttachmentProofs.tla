-------------------------- MODULE AttachmentProofs --------------------------
(***************************************************************************)
(* Proofs about Attachment, for every set of Transactions and handles and  *)
(* every bound, of callers and servers that are Quiet. The invariant ties  *)
(* the jobs that wait in the chain to the state of their Transaction and   *)
(* to what is open at the server.                                          *)
(***************************************************************************)
EXTENDS Attachment, SequenceTheorems, TLAPS

\* What callers and the server do in the theorems below; section 4 of the README
\* says what happens without it.
Quiet == Events \cap {"restartFail", "attachRefused", "overlap", "busyReconnect"} = {}

Single == Starts \cup {"upgradeEnd"}
Lasts == {"commit", "rollback", "end"}

\* The jobs of a Transaction: one that starts it, or the second half of a restart, is
\* its only one, and so is one that may upgrade it; one that ends it is its last.
JobsApart ==
    \A i, j \in DOMAIN opChain : opChain[i].tx = opChain[j].tx =>
        /\ opChain[i].op \in Single => i = j
        /\ opChain[i].op \in Runs /\ readOnly[opChain[i].tx] => i = j
        /\ opChain[i].op \in Lasts => j <= i

\* What each job says of its Transaction. A reconnect was called for when there
\* was no job, and only new Transactions are begun behind it.
JobsFit ==
    \A i \in DOMAIN opChain :
        /\ opChain[i].op = "start" => status[opChain[i].tx] = "starting"
        /\ opChain[i].op \in {"commit", "rollback"} => status[opChain[i].tx] = "finished"
        /\ opChain[i].op \notin {"start", "reconnect"} => attGeneration[opChain[i].tx] = generation
        /\ opChain[i].op = "reconnect" => i = 1 /\ \A j \in DOMAIN opChain : j # 1 => opChain[j].op = "start"
        /\ \A t \in Txs : status[t] = "none" => opChain[i].tx # t

\* What the job at the head has sent, and what a reconnect has made of the rest.
HeadFits ==
    /\ phase = "queued" => sent = NoHandle
    /\ phase # "queued" => opChain # <<>>
    /\ Awaiting => sent = IF Job.op \in Starts \cup {"reconnect"} THEN NoHandle ELSE handle[Job.tx]
    /\ opChain # <<>> /\ phase = "queued" /\ Job.op = "reconnect" => generation < MaxGeneration
    /\ phase # "queued" /\ Job.op = "reconnect" =>
        /\ \A t \in Txs : attGeneration[t] < generation
        /\ server = NoTransactions

\* A Transaction is alive at the server.
AliveAt(t) == handle[t] \in Handles /\ server[handle[t]] = t

\* The transactions the jobs of the chain find at the server.
Alive ==
    /\ wire # "open" => server = NoTransactions
    /\ \A t \in Txs : attGeneration[t] <= generation
    /\ wire = "open" => \A i \in DOMAIN opChain :
        /\ opChain[i].op \in Runs \cup Ends => AliveAt(opChain[i].tx)
        /\ opChain[i].op \in Starts => \A h \in Handles : server[h] # opChain[i].tx

\* Whoever runs a statement is active, or has its end called behind it.
Owned ==
    \A i \in DOMAIN opChain : opChain[i].op \in Runs =>
        status[opChain[i].tx] = "active" \/ Ending(opChain[i].tx)

\* The inductive invariant, with Owned.
IInv == TypeOK /\ NoLeak /\ NoZombie
        /\ JobsApart /\ JobsFit /\ HeadFits /\ Alive

-----------------------------------------------------------------------------
(* The chain: jobs join at its end and leave at its head.                    *)

LEMMA JobsOfChain ==
    ASSUME TypeOK
    PROVE  /\ DOMAIN opChain = 1..Len(opChain) /\ Len(opChain) \in Nat
           /\ \A k \in DOMAIN opChain :
                /\ opChain[k] \in Jobs
                /\ opChain[k].op \in Starts \cup Runs \cup Ends \cup {"reconnect"}
                /\ opChain[k].op = "reconnect" <=> opChain[k].tx = NoTx
                /\ opChain[k].op # "reconnect" => opChain[k].tx \in Txs
           /\ opChain # <<>> => 1 \in DOMAIN opChain /\ Job = opChain[1]
<1>1. opChain \in Seq(Jobs)
  BY DEF TypeOK
<1>2. \A j \in Jobs : /\ j.op \in Starts \cup Runs \cup Ends \cup {"reconnect"}
                      /\ j.op = "reconnect" <=> j.tx = NoTx
                      /\ j.op # "reconnect" => j.tx \in Txs
  BY AttachmentAssumption DEF Jobs, Starts, Runs, Ends
<1> QED
  BY <1>1, <1>2 DEF Job

LEMMA Enqueued ==
    ASSUME TypeOK, NEW t, NEW op, [tx |-> t, op |-> op] \in Jobs, Enqueue(t, op)
    PROVE  /\ opChain' \in Seq(Jobs) /\ opChain' # <<>>
           /\ DOMAIN opChain' = 1..(Len(opChain) + 1)
           /\ \A k \in DOMAIN opChain : opChain'[k] = opChain[k]
           /\ opChain'[Len(opChain) + 1] = [tx |-> t, op |-> op]
           /\ Job' = IF opChain = <<>> THEN [tx |-> t, op |-> op] ELSE Job
<1> DEFINE j == [tx |-> t, op |-> op]
<1>1. opChain \in Seq(Jobs) /\ j \in Jobs /\ opChain' = Append(opChain, j)
  BY DEF TypeOK, Enqueue
<1> HIDE DEF j
<1>2. /\ opChain' \in Seq(Jobs) /\ Len(opChain') = Len(opChain) + 1
      /\ \A k \in 1..Len(opChain) : opChain'[k] = opChain[k]
      /\ opChain'[Len(opChain) + 1] = j
  BY <1>1
<1>3. /\ opChain' # <<>> /\ DOMAIN opChain' = 1..(Len(opChain) + 1)
      /\ DOMAIN opChain = 1..Len(opChain)
  BY <1>1, <1>2
<1>4. Head(opChain') = IF opChain = <<>> THEN j ELSE Head(opChain)
  BY <1>1, <1>2
<1> QED
  BY <1>2, <1>3, <1>4 DEF Job, j

\* What is left when the head is over, and what a step that goes on puts behind it.
LEMMA Over ==
    ASSUME TypeOK, opChain # <<>>, Done(<<>>)
    PROVE  /\ opChain' \in Seq(Jobs) /\ phase' = "queued" /\ sent' = NoHandle
           /\ DOMAIN opChain' = 1..(Len(opChain) - 1)
           /\ \A k \in DOMAIN opChain' : opChain'[k] = opChain[k + 1] /\ k + 1 \in DOMAIN opChain
<1>1. opChain \in Seq(Jobs) /\ opChain' = Tail(opChain)
  <2>1. opChain \in Seq(Jobs) /\ opChain' = Tail(opChain) \o <<>>
    BY DEF TypeOK, Done
  <2> QED
    BY <2>1
<1> QED
  BY <1>1 DEF Done

LEMMA GoesOn ==
    ASSUME TypeOK, opChain # <<>>, NEW op, [tx |-> Job.tx, op |-> op] \in Jobs, Done(FollowUp(op))
    PROVE  /\ opChain' \in Seq(Jobs) /\ phase' = "queued" /\ sent' = NoHandle
           /\ DOMAIN opChain' = 1..Len(opChain)
           /\ \A k \in 1..(Len(opChain) - 1) : opChain'[k] = opChain[k + 1] /\ k + 1 \in DOMAIN opChain
           /\ opChain'[Len(opChain)] = [tx |-> Job.tx, op |-> op]
<1> DEFINE j == [tx |-> Job.tx, op |-> op]
<1>1. opChain \in Seq(Jobs) /\ j \in Jobs /\ opChain' = Tail(opChain) \o <<j>>
  BY DEF TypeOK, Done, FollowUp
<1> HIDE DEF j
<1> DEFINE r == Tail(opChain)
           n == Len(opChain) - 1
<1>2. /\ r \in Seq(Jobs) /\ Len(r) = n /\ n \in Nat
      /\ \A k \in 1..n : r[k] = opChain[k + 1] /\ k + 1 \in DOMAIN opChain
  BY <1>1
<1>3. <<j>> \in Seq(Jobs) /\ Len(<<j>>) = 1 /\ <<j>>[1] = j
  BY <1>1
<1> HIDE DEF r, n
<1>4. /\ r \o <<j>> \in Seq(Jobs) /\ Len(r \o <<j>>) = n + 1
      /\ \A k \in 1..(n + 1) : (r \o <<j>>)[k] = IF k <= n THEN r[k] ELSE <<j>>[k - n]
  BY <1>2, <1>3, ConcatProperties
<1>5. opChain' = r \o <<j>>
  BY <1>1 DEF r
<1>6. opChain' \in Seq(Jobs) /\ DOMAIN opChain' = 1..(n + 1)
  BY <1>4, <1>5
<1>7. \A k \in 1..n : opChain'[k] = opChain[k + 1] /\ k + 1 \in DOMAIN opChain
  BY <1>2, <1>4, <1>5
<1>8. opChain'[n + 1] = j
  BY <1>2, <1>3, <1>4, <1>5
<1>9. n = Len(opChain) - 1 /\ Len(opChain) \in Nat
  BY <1>1 DEF n
<1> QED
  BY <1>6, <1>7, <1>8, <1>9 DEF Done, j

-----------------------------------------------------------------------------
(* Calls.                                                                    *)

\* Who may call for a Transaction meets no reconnect and no restart of it.
LEMMA Considered ==
    ASSUME IInv, Quiet, NEW t \in Txs, attGeneration[t] = generation, Considerate(t)
    PROVE  /\ \A i \in DOMAIN opChain : opChain[i].op # "reconnect"
           /\ ~Restarting(t)
           /\ ~(readOnly[t] /\ Pending(t, Runs))
<1>1. ~ReconnectCalled /\ ~Restarting(t) /\ ~(readOnly[t] /\ Pending(t, Runs))
  BY DEF Considerate, Quiet
<1>2. ASSUME NEW i \in DOMAIN opChain, opChain[i].op = "reconnect"
      PROVE  FALSE
  <2>1. opChain[i].tx = NoTx /\ i = 1 /\ opChain # <<>> /\ Job = opChain[1]
    BY <1>2, JobsOfChain DEF IInv, JobsFit
  <2>2. phase # "queued"
    BY <1>1, <1>2, <2>1 DEF ReconnectCalled, Pending
  <2>3. attGeneration[t] < generation
    BY <1>2, <2>1, <2>2 DEF IInv, HeadFits
  <2>4. generation \in Nat
    BY AttachmentAssumption DEF IInv, TypeOK
  <2> QED
    BY <2>3, <2>4
<1> QED
  BY <1>1, <1>2

\* What is active, and not just restarting, is alive.
LEMMA ActiveAlive ==
    ASSUME IInv, NEW t \in Txs, Active(t), ~Restarting(t), wire = "open"
    PROVE  AliveAt(t)
BY DEF IInv, TypeOK, NoZombie, Active, AliveAt

\* A job that joins the chain changes nothing for the head.
LEMMA CallKeepsHead ==
    ASSUME IInv, NEW t, NEW op, [tx |-> t, op |-> op] \in Jobs, op # "reconnect",
           Enqueue(t, op), phase' = phase, sent' = sent, handle' = handle,
           attGeneration' = attGeneration, generation' = generation, server' = server
    PROVE  HeadFits'
<1>1. opChain' # <<>> /\ (opChain # <<>> => Job' = Job) /\ (opChain = <<>> => Job'.op = op)
  BY Enqueued DEF IInv
<1> QED
  BY <1>1 DEF IInv, HeadFits, Awaiting, NoTransactions

\* It keeps the jobs apart if the Transaction's other jobs let it.
LEMMA CallKeepsApart ==
    ASSUME IInv, NEW t, NEW op, [tx |-> t, op |-> op] \in Jobs, Enqueue(t, op),
           \A i \in DOMAIN opChain : opChain[i].tx = t =>
                /\ opChain[i].op \notin Single \cup Lasts
                /\ ~(opChain[i].op \in Runs /\ readOnly'[t])
                /\ ~(op \in Single \/ (op \in Runs /\ readOnly'[t])),
           \A s \in Txs \ {t} : readOnly'[s] = readOnly[s]
    PROVE  JobsApart'
<1> DEFINE n == Len(opChain)
<1>1. /\ DOMAIN opChain' = 1..(n + 1) /\ DOMAIN opChain = 1..n /\ n \in Nat
      /\ \A k \in 1..n : opChain'[k] = opChain[k]
      /\ opChain'[n + 1].tx = t /\ opChain'[n + 1].op = op
  BY Enqueued, JobsOfChain DEF IInv
<1>2. \A i, j \in 1..n : opChain[i].tx = opChain[j].tx =>
        /\ opChain[i].op \in Single => i = j
        /\ opChain[i].op \in Runs /\ readOnly'[opChain[i].tx] => i = j
        /\ opChain[i].op \in Lasts => j <= i
  <2>1. \A i \in 1..n : opChain[i].op \in Runs => opChain[i].tx \in Txs
    BY <1>1, JobsOfChain DEF IInv, Runs
  <2> QED
    BY <1>1, <2>1 DEF IInv, JobsApart
<1> HIDE DEF n
<1>3. \A i \in 1..(n + 1) : i \in 1..n \/ i = n + 1
  BY <1>1
<1>4. \A i \in 1..n : i <= n + 1 /\ n + 1 <= n + 1
  BY <1>1
<1>5. ASSUME NEW i \in 1..(n + 1), NEW j \in 1..(n + 1), opChain'[i].tx = opChain'[j].tx
      PROVE  /\ opChain'[i].op \in Single => i = j
             /\ opChain'[i].op \in Runs /\ readOnly'[opChain'[i].tx] => i = j
             /\ opChain'[i].op \in Lasts => j <= i
  <2>1. CASE i \in 1..n /\ j \in 1..n
    BY <1>1, <1>2, <1>5, <2>1
  <2>2. CASE i \in 1..n /\ j = n + 1
    BY <1>1, <1>5, <2>2
  <2>3. CASE i = n + 1 /\ j \in 1..n
    BY <1>1, <1>4, <1>5, <2>3
  <2>4. CASE i = n + 1 /\ j = n + 1
    BY <1>1, <2>4
  <2> QED
    BY <1>3, <2>1, <2>2, <2>3, <2>4
<1> QED
  BY <1>1, <1>5 DEF JobsApart

LEMMA RunKeeps ==
    ASSUME IInv, Quiet, NEW t \in Txs, Run(t)
    PROVE  IInv'
<1> DEFINE n == Len(opChain)
<1>1. /\ status[t] = "active" /\ attGeneration[t] = generation /\ Considerate(t)
      /\ Enqueue(t, "run") /\ [tx |-> t, op |-> "run"] \in Jobs
  BY DEF Run, Active, Jobs, Runs
<1>2. /\ phase' = phase /\ sent' = sent /\ wire' = wire /\ detached' = detached
      /\ generation' = generation /\ status' = status /\ handle' = handle
      /\ attGeneration' = attGeneration /\ readOnly' = readOnly /\ server' = server
  BY DEF Run, attVars, txVars
<1>3. /\ opChain' \in Seq(Jobs)
      /\ DOMAIN opChain' = 1..(n + 1) /\ DOMAIN opChain = 1..n /\ n \in Nat
      /\ \A k \in 1..n : opChain'[k] = opChain[k]
      /\ opChain'[n + 1].tx = t /\ opChain'[n + 1].op = "run"
  BY <1>1, Enqueued, JobsOfChain DEF IInv
<1>4. /\ \A i \in 1..n : opChain[i].op # "reconnect"
      /\ ~Restarting(t)
      /\ ~(readOnly[t] /\ Pending(t, Runs))
  BY <1>1, <1>3, Considered
<1>5. \A i \in 1..n : opChain[i].tx = t =>
         /\ opChain[i].op \notin Single \cup Lasts
         /\ ~(opChain[i].op \in Runs /\ readOnly[t])
  BY <1>1, <1>3, <1>4 DEF IInv, JobsFit, Single, Starts, Lasts, Restarting, Pending
<1>6. \A i \in 1..n : opChain[i].tx = t /\ readOnly[t] => FALSE
  <2>1. \A i \in 1..n : opChain[i].op \in Single \cup Runs \cup Lasts \cup {"reconnect"}
    BY <1>3, JobsOfChain DEF IInv, Single, Starts, Runs, Ends, Lasts
  <2> QED
    BY <1>4, <1>5, <2>1
<1> HIDE DEF n
<1>7. TypeOK'
  BY <1>2, <1>3 DEF IInv, TypeOK
<1>8. JobsApart'
  <2>1. "run" \notin Single
    BY DEF Single, Starts
  <2> QED
    BY <1>1, <1>2, <1>3, <1>5, <1>6, <2>1, CallKeepsApart
<1>9. JobsFit'
  BY <1>1, <1>2, <1>3, <1>4 DEF IInv, JobsFit
<1>10. HeadFits'
  BY <1>1, <1>2, CallKeepsHead
<1>11. Alive'
  <2>1. wire = "open" => AliveAt(t)
    BY <1>1, <1>4, ActiveAlive DEF Active
  <2> QED
    BY <1>2, <1>3, <2>1 DEF IInv, Alive, AliveAt, Starts, NoTransactions
<1>12. NoLeak' /\ NoZombie'
  BY <1>2, <1>3 DEF IInv, NoLeak, NoZombie, Active, Ending, Restarting, Pending
<1> QED
  BY <1>7, <1>8, <1>9, <1>10, <1>11, <1>12 DEF IInv

\* commit() and rollback(): what was active is Ending until the job is over.
LEMMA FinishKeeps ==
    ASSUME IInv, Quiet, NEW t \in Txs, NEW op \in {"commit", "rollback"}, Finish(t, op)
    PROVE  IInv'
<1> DEFINE n == Len(opChain)
<1>1. /\ status[t] = "active" /\ attGeneration[t] = generation /\ Considerate(t)
      /\ Enqueue(t, op) /\ [tx |-> t, op |-> op] \in Jobs
      /\ status' = [status EXCEPT ![t] = "finished"]
  BY DEF Finish, Active, Jobs, Ends
<1>2. /\ phase' = phase /\ sent' = sent /\ wire' = wire /\ detached' = detached
      /\ generation' = generation /\ handle' = handle /\ attGeneration' = attGeneration /\ readOnly' = readOnly
      /\ server' = server
  BY DEF Finish, attVars
<1>3. /\ opChain' \in Seq(Jobs)
      /\ DOMAIN opChain' = 1..(n + 1) /\ DOMAIN opChain = 1..n /\ n \in Nat
      /\ \A k \in 1..n : opChain'[k] = opChain[k]
      /\ opChain'[n + 1].tx = t /\ opChain'[n + 1].op = op
  BY <1>1, Enqueued, JobsOfChain DEF IInv
<1>4. /\ \A i \in 1..n : opChain[i].op # "reconnect"
      /\ ~Restarting(t)
      /\ ~(readOnly[t] /\ Pending(t, Runs))
  BY <1>1, <1>3, Considered
<1>5. \A i \in 1..n : opChain[i].tx = t =>
         /\ opChain[i].op \notin Single \cup Lasts
         /\ ~(opChain[i].op \in Runs /\ readOnly[t])
  BY <1>1, <1>3, <1>4 DEF IInv, JobsFit, Single, Starts, Lasts, Restarting, Pending
<1> HIDE DEF n
<1>6. status' \in [Txs -> {"none", "starting", "active", "finished"}] /\ status'[t] = "finished"
      /\ \A s \in Txs \ {t} : status'[s] = status[s]
  BY <1>1 DEF IInv, TypeOK
<1>7. TypeOK'
  <2>1. handle[t] # NoHandle
    BY <1>1 DEF IInv, TypeOK
  <2> QED
    BY <1>2, <1>3, <1>6, <2>1 DEF IInv, TypeOK
<1>8. JobsApart'
  <2>1. op \notin Single \cup Runs
    BY DEF Single, Starts, Runs
  <2> QED
    BY <1>1, <1>2, <1>3, <1>5, <2>1, CallKeepsApart
<1>9. JobsFit'
  <2>1. \A i \in 1..n : opChain[i].op = "start" => opChain[i].tx # t
    BY <1>5 DEF Single, Starts
  <2>2. \A i \in 1..n : opChain[i].op # "reconnect" => opChain[i].tx \in Txs
    BY <1>3, JobsOfChain DEF IInv
  <2> QED
    BY <1>1, <1>2, <1>3, <1>4, <1>6, <2>1, <2>2 DEF IInv, JobsFit
<1>10. HeadFits'
  BY <1>1, <1>2, CallKeepsHead
<1>11. Alive'
  <2>1. wire = "open" => AliveAt(t)
    BY <1>1, <1>4, ActiveAlive DEF Active
  <2> QED
    BY <1>2, <1>3, <2>1 DEF IInv, Alive, AliveAt, Starts, NoTransactions
<1>12. NoLeak'
  <2>1. Ending(t)'
    BY <1>3 DEF Ending, Pending
  <2>2. \A s \in Txs : Ending(s) => Ending(s)'
    BY <1>3 DEF Ending, Pending
  <2>3. \A h \in Handles : server[h] # NoTx => server[h] \in Txs
    BY DEF IInv, TypeOK
  <2> QED
    BY <1>2, <1>6, <2>1, <2>2, <2>3 DEF IInv, NoLeak
<1>13. NoZombie'
  <2>1. \A s \in Txs : Restarting(s) => Restarting(s)'
    BY <1>3 DEF Restarting, Pending
  <2> QED
    BY <1>2, <1>6, <2>1 DEF IInv, NoZombie, Active
<1> QED
  BY <1>7, <1>8, <1>9, <1>10, <1>11, <1>12, <1>13 DEF IInv

\* restart(): statements of the Transaction may be ahead of its first half; of the
\* second half it is the only job.
LEMMA RestartKeeps ==
    ASSUME IInv, Owned, Quiet, NEW t \in Txs, Restart(t)
    PROVE  IInv'
<1> DEFINE n == Len(opChain)
           op == IF status[t] = "active" THEN "end" ELSE "begin"
<1>1. /\ status[t] \in {"active", "finished"} /\ attGeneration[t] = generation /\ Considerate(t)
      /\ ~Ending(t)
      /\ Enqueue(t, op) /\ [tx |-> t, op |-> op] \in Jobs
  BY DEF Restart, Quiet, Jobs, Starts, Ends
<1>2. /\ phase' = phase /\ sent' = sent /\ wire' = wire /\ detached' = detached
      /\ generation' = generation /\ status' = status /\ handle' = handle /\ attGeneration' = attGeneration
      /\ readOnly' = readOnly /\ server' = server
  BY DEF Restart, attVars, txVars
<1>3. /\ opChain' \in Seq(Jobs)
      /\ DOMAIN opChain' = 1..(n + 1) /\ DOMAIN opChain = 1..n /\ n \in Nat
      /\ \A k \in 1..n : opChain'[k] = opChain[k]
      /\ opChain'[n + 1].tx = t /\ opChain'[n + 1].op = op
  BY <1>1, Enqueued, JobsOfChain DEF IInv
<1>4. /\ \A i \in 1..n : opChain[i].op # "reconnect"
      /\ ~Restarting(t)
      /\ ~(readOnly[t] /\ Pending(t, Runs))
  BY <1>1, <1>3, Considered
<1>5. \A i \in 1..n : opChain[i].tx = t => opChain[i].op \in Runs /\ ~readOnly[t] /\ status[t] = "active"
  <2>1. \A i \in 1..n : opChain[i].op \in {"start", "begin", "upgradeBegin", "reconnect"} \cup Runs
                                             \cup {"commit", "rollback", "end", "upgradeEnd"}
    BY <1>3, JobsOfChain DEF IInv, Starts, Ends
  <2>2. \A i \in 1..n : opChain[i].tx = t => opChain[i].op # "start"
    BY <1>1, <1>3 DEF IInv, JobsFit
  <2>3. \A i \in 1..n : opChain[i].tx = t => opChain[i].op \in Runs
    BY <1>1, <1>3, <1>4, <2>1, <2>2 DEF Restarting, Ending, Pending
  <2>4. \A i \in 1..n : opChain[i].tx = t => ~readOnly[t]
    BY <1>3, <1>4, <2>3 DEF Pending
  <2>5. \A i \in 1..n : opChain[i].tx = t => status[t] = "active"
    BY <1>1, <1>3, <2>3 DEF Owned
  <2> QED
    BY <2>3, <2>4, <2>5
<1>6. op \in {"end", "begin"} /\ (op = "end" <=> status[t] = "active")
  OBVIOUS
<1> HIDE DEF n, op
<1>7. TypeOK'
  BY <1>2, <1>3 DEF IInv, TypeOK
<1>8. JobsApart'
  <2>1. Runs \cap (Single \cup Lasts) = {} /\ "end" \notin Single \cup Runs
    BY DEF Runs, Single, Starts, Lasts
  <2>2. \A i \in 1..n : opChain[i].tx = t => op = "end"
    BY <1>5, <1>6
  <2> QED
    BY <1>1, <1>2, <1>3, <1>5, <2>1, <2>2, CallKeepsApart
<1>9. JobsFit'
  BY <1>1, <1>2, <1>3, <1>4, <1>6 DEF IInv, JobsFit
<1>10. HeadFits'
  BY <1>1, <1>2, <1>6, CallKeepsHead
<1>11. Alive'
  <2>1. wire = "open" /\ op = "end" => AliveAt(t)
    BY <1>1, <1>4, <1>6, ActiveAlive DEF Active
  <2>3. wire = "open" /\ op = "begin" => \A h \in Handles : server[h] # t
    BY <1>1, <1>6, AttachmentAssumption DEF IInv, NoLeak
  <2>4. "end" \notin Starts /\ "begin" \notin Runs \cup Ends
    BY DEF Starts, Runs, Ends
  <2> QED
    BY <1>2, <1>3, <1>6, <2>1, <2>3, <2>4 DEF IInv, Alive, AliveAt, NoTransactions
<1>12. NoLeak' /\ NoZombie'
  BY <1>2, <1>3 DEF IInv, NoLeak, NoZombie, Active, Ending, Restarting, Pending
<1> QED
  BY <1>7, <1>8, <1>9, <1>10, <1>11, <1>12 DEF IInv

\* startTransaction(), which may be called behind a reconnect.
LEMMA StartTransactionKeeps ==
    ASSUME IInv, NEW t \in Txs, StartTransaction(t)
    PROVE  IInv'
<1> DEFINE n == Len(opChain)
<1>1. /\ status[t] = "none" /\ Enqueue(t, "start") /\ [tx |-> t, op |-> "start"] \in Jobs
      /\ status' = [status EXCEPT ![t] = "starting"]
      /\ \E ro \in BOOLEAN : readOnly' = [readOnly EXCEPT ![t] = ro]
  <2>1. ("upgrade" \in Events) \in BOOLEAN
    OBVIOUS
  <2>2. \E ro \in {FALSE, "upgrade" \in Events} : readOnly' = [readOnly EXCEPT ![t] = ro]
    BY DEF StartTransaction
  <2>3. \E ro \in BOOLEAN : readOnly' = [readOnly EXCEPT ![t] = ro]
    BY <2>1, <2>2, Zenon
  <2> QED
    BY <2>3 DEF StartTransaction, Jobs, Starts
<1>2. /\ phase' = phase /\ sent' = sent /\ wire' = wire /\ detached' = detached
      /\ generation' = generation /\ handle' = handle /\ attGeneration' = attGeneration /\ server' = server
  BY DEF StartTransaction, attVars
<1>3. /\ opChain' \in Seq(Jobs)
      /\ DOMAIN opChain' = 1..(n + 1) /\ DOMAIN opChain = 1..n /\ n \in Nat
      /\ \A k \in 1..n : opChain'[k] = opChain[k]
      /\ opChain'[n + 1].tx = t /\ opChain'[n + 1].op = "start"
  BY <1>1, Enqueued, JobsOfChain DEF IInv
<1>4. \A i \in 1..n : opChain[i].tx # t
  BY <1>1, <1>3 DEF IInv, JobsFit
<1> HIDE DEF n
<1>5. /\ status' \in [Txs -> {"none", "starting", "active", "finished"}] /\ status'[t] = "starting"
      /\ readOnly' \in [Txs -> BOOLEAN]
      /\ \A s \in Txs \ {t} : status'[s] = status[s] /\ readOnly'[s] = readOnly[s]
  BY <1>1 DEF IInv, TypeOK
<1>6. TypeOK'
  BY <1>2, <1>3, <1>5 DEF IInv, TypeOK
<1>7. JobsApart'
  BY <1>1, <1>3, <1>4, <1>5, CallKeepsApart
<1>8. JobsFit'
  <2>1. \A i \in 1..n : opChain[i].op # "reconnect" => opChain[i].tx \in Txs \ {t}
    BY <1>3, <1>4, JobsOfChain DEF IInv
  <2>2. \A i \in 1..n : opChain[i].op = "reconnect" => i = 1 /\ \A j \in 1..(n + 1) : j # 1 => opChain'[j].op = "start"
    BY <1>3 DEF IInv, JobsFit
  <2>3. \A i \in 1..n :
            /\ opChain[i].op = "start" => status'[opChain[i].tx] = "starting"
            /\ opChain[i].op \in {"commit", "rollback"} => status'[opChain[i].tx] = "finished"
            /\ opChain[i].op \notin {"start", "reconnect"} => attGeneration[opChain[i].tx] = generation
    BY <1>3, <1>5, <2>1 DEF IInv, JobsFit
  <2>4. \A i \in 1..n : \A s \in Txs : status'[s] = "none" => opChain[i].tx # s
    BY <1>3, <1>4, <1>5 DEF IInv, JobsFit
  <2> QED
    BY <1>2, <1>3, <1>5, <2>2, <2>3, <2>4 DEF JobsFit
<1>9. HeadFits'
  BY <1>1, <1>2, CallKeepsHead
<1>10. Alive'
  <2>1. ~Ending(t)
    BY <1>3, <1>4 DEF Ending, Pending
  <2>2. wire = "open" => \A h \in Handles : server[h] # t
    BY <1>1, <2>1, AttachmentAssumption DEF IInv, NoLeak
  <2>3. "start" \notin Runs \cup Ends
    BY DEF Runs, Ends
  <2> QED
    BY <1>2, <1>3, <2>2, <2>3 DEF IInv, Alive, AliveAt, NoTransactions
<1>11. NoLeak' /\ NoZombie'
  <2>1. \A s \in Txs : (Ending(s) => Ending(s)') /\ (Restarting(s) => Restarting(s)')
    BY <1>3 DEF Ending, Restarting, Pending
  <2>2. \A h \in Handles : server[h] # NoTx => server[h] \in Txs /\ (wire = "open" => server[h] # t)
    <3>1. ~Ending(t)
      BY <1>3, <1>4 DEF Ending, Pending
    <3> QED
      BY <1>1, <3>1 DEF IInv, NoLeak, TypeOK
  <2> QED
    BY <1>2, <1>5, <2>1, <2>2 DEF IInv, NoLeak, NoZombie, Active
<1> QED
  BY <1>6, <1>7, <1>8, <1>9, <1>10, <1>11 DEF IInv

\* A Transaction is dropped when no job is left of it and it is not alive.
LEMMA ForgetKeeps ==
    ASSUME IInv, NEW t \in Txs, Forget(t)
    PROVE  IInv'
<1>1. /\ status[t] = "finished" \/ (status[t] = "active" /\ attGeneration[t] # generation)
      /\ \A k \in DOMAIN opChain : opChain[k].tx # t
      /\ status' = [status EXCEPT ![t] = "none"] /\ handle' = [handle EXCEPT ![t] = NoHandle]
  BY DEF Forget
<1>2. /\ opChain' = opChain /\ phase' = phase /\ sent' = sent /\ wire' = wire
      /\ detached' = detached /\ generation' = generation /\ attGeneration' = attGeneration /\ readOnly' = readOnly
      /\ server' = server
  BY DEF Forget, attVars
<1>3. /\ status' \in [Txs -> {"none", "starting", "active", "finished"}] /\ status'[t] = "none"
      /\ handle' \in [Txs -> Handles \cup {NoHandle}]
      /\ \A s \in Txs \ {t} : status'[s] = status[s] /\ handle'[s] = handle[s]
  BY <1>1 DEF IInv, TypeOK
<1>4. \A i \in DOMAIN opChain : opChain[i].op # "reconnect" => opChain[i].tx \in Txs \ {t}
  BY <1>1, JobsOfChain DEF IInv
<1>5. TypeOK'
  BY <1>2, <1>3 DEF IInv, TypeOK
<1>6. JobsApart'
  BY <1>2 DEF IInv, JobsApart
<1>7. JobsFit'
  BY <1>1, <1>2, <1>3, <1>4 DEF IInv, JobsFit
<1>8. HeadFits'
  <2>1. opChain # <<>> /\ Job.op # "reconnect" => handle'[Job.tx] = handle[Job.tx]
    BY <1>3, <1>4, JobsOfChain DEF IInv
  <2> QED
    BY <1>2, <2>1 DEF IInv, HeadFits, Awaiting, Job, NoTransactions
<1>9. Alive'
  <2>1. "reconnect" \notin Runs \cup Ends
    BY DEF Runs, Ends
  <2> QED
    BY <1>2, <1>3, <1>4, <2>1 DEF IInv, Alive, AliveAt, NoTransactions
<1>10. NoLeak' /\ NoZombie'
  <2>1. ~Ending(t)
    BY <1>1 DEF Ending, Pending
  <2>2. \A h \in Handles : server[h] # NoTx => server[h] \in Txs /\ (wire = "open" => server[h] # t)
    BY <1>1, <2>1 DEF IInv, NoLeak, TypeOK
  <2>3. \A s \in Txs : (Ending(s)' <=> Ending(s)) /\ (Restarting(s)' <=> Restarting(s))
    BY <1>2 DEF Ending, Restarting, Pending
  <2> QED
    BY <1>2, <1>3, <2>2, <2>3 DEF IInv, NoLeak, NoZombie, Active
<1> QED
  BY <1>5, <1>6, <1>7, <1>8, <1>9, <1>10 DEF IInv

-----------------------------------------------------------------------------
(* Jobs.                                                                     *)

\* Behind the head there is no reconnect, and what is left stays apart.
LEMMA OverLeaves ==
    ASSUME IInv, opChain # <<>>, Done(<<>>), \A s \in Txs : readOnly'[s] => readOnly[s]
    PROVE  /\ JobsApart'
           /\ \A k \in DOMAIN opChain' : opChain'[k].op # "reconnect" /\ opChain'[k].tx \in Txs
           /\ Job.op \in Single \cup Lasts => \A k \in DOMAIN opChain' : opChain'[k].tx # Job.tx
<1>1. /\ DOMAIN opChain' = 1..(Len(opChain) - 1) /\ Len(opChain) \in Nat
      /\ \A k \in DOMAIN opChain' : opChain'[k] = opChain[k + 1] /\ k + 1 \in DOMAIN opChain /\ k + 1 # 1
      /\ 1 \in DOMAIN opChain /\ Job = opChain[1]
  BY Over, JobsOfChain DEF IInv
<1>2. \A k \in DOMAIN opChain' : opChain'[k].op # "reconnect" /\ opChain'[k].tx \in Txs
  BY <1>1, JobsOfChain DEF IInv, JobsFit
<1>3. JobsApart'
  <2>1. ASSUME NEW i \in DOMAIN opChain', NEW j \in DOMAIN opChain', opChain'[i].tx = opChain'[j].tx
        PROVE  /\ opChain'[i].op \in Single => i = j
               /\ opChain'[i].op \in Runs /\ readOnly'[opChain'[i].tx] => i = j
               /\ opChain'[i].op \in Lasts => j <= i
    <3>1. /\ opChain[i + 1].op \in Single => i + 1 = j + 1
          /\ opChain[i + 1].op \in Runs /\ readOnly[opChain[i + 1].tx] => i + 1 = j + 1
          /\ opChain[i + 1].op \in Lasts => j + 1 <= i + 1
      BY <1>1, <2>1 DEF IInv, JobsApart
    <3>2. opChain'[i].tx \in Txs /\ opChain'[i] = opChain[i + 1] /\ i \in Nat /\ j \in Nat
      BY <1>1, <1>2
    <3> QED
      BY <3>1, <3>2
  <2> QED
    BY <2>1 DEF JobsApart
<1>4. ASSUME Job.op \in Single \cup Lasts, NEW k \in DOMAIN opChain', opChain'[k].tx = Job.tx
      PROVE  FALSE
  <2>1. opChain[1].tx = opChain[k + 1].tx /\ opChain[1].op = Job.op /\ k \in Nat /\ k >= 1
    BY <1>1, <1>4
  <2>2. (Job.op \in Single => 1 = k + 1) /\ (Job.op \in Lasts => k + 1 <= 1)
    BY <1>1, <2>1 DEF IInv, JobsApart
  <2> QED
    BY <1>4, <2>1, <2>2
<1> QED
  BY <1>2, <1>3, <1>4

\* The same of a head that goes on, which was the only job of its Transaction.
LEMMA GoesOnLeaves ==
    ASSUME IInv, opChain # <<>>, NEW op, [tx |-> Job.tx, op |-> op] \in Jobs, Done(FollowUp(op)),
           Job.op \in Single \cup {"end"} \/ (Job.op \in Runs /\ readOnly[Job.tx]),
           op \notin {"reconnect"} \cup Lasts,
           \A s \in Txs : readOnly'[s] => readOnly[s]
    PROVE  /\ JobsApart'
           /\ \A k \in DOMAIN opChain' : opChain'[k].op # "reconnect" /\ opChain'[k].tx \in Txs
           /\ \A k \in 1..(Len(opChain) - 1) : opChain'[k].tx # Job.tx
<1> DEFINE n == Len(opChain) - 1
<1>1. /\ DOMAIN opChain' = 1..(n + 1) /\ n \in Nat
      /\ \A k \in 1..n : opChain'[k] = opChain[k + 1] /\ k + 1 \in DOMAIN opChain /\ k + 1 # 1
      /\ 1 \in DOMAIN opChain /\ Job = opChain[1]
      /\ opChain'[n + 1].tx = Job.tx /\ opChain'[n + 1].op = op
  BY GoesOn, JobsOfChain DEF IInv
<1>2. \A j \in DOMAIN opChain : opChain[j].tx = Job.tx => j = 1
  <2>1. ASSUME NEW j \in DOMAIN opChain, opChain[j].tx = Job.tx
        PROVE  /\ Job.op \in Single => 1 = j
               /\ Job.op \in Runs /\ readOnly[Job.tx] => 1 = j
               /\ Job.op = "end" => j <= 1
    BY <1>1, <2>1 DEF IInv, JobsApart, Lasts
  <2>2. \A j \in DOMAIN opChain : j \in Nat /\ j >= 1
    BY JobsOfChain DEF IInv
  <2> QED
    BY <2>1, <2>2
<1>3. \A k \in 1..n : opChain'[k].tx # Job.tx
  BY <1>1, <1>2
<1>4. Job.tx \in Txs
  <2>1. "reconnect" \notin Single \cup Runs \cup {"end"}
    BY DEF Single, Starts, Runs
  <2> QED
    BY <1>1, <2>1, JobsOfChain DEF IInv
<1>5. \A k \in 1..n : opChain'[k].op # "reconnect" /\ opChain'[k].tx \in Txs
  BY <1>1, JobsOfChain DEF IInv, JobsFit
<1> HIDE DEF n
<1>6. \A i \in 1..(n + 1) : i \in 1..n \/ i = n + 1
  BY <1>1
<1>7. ASSUME NEW i \in 1..(n + 1), NEW j \in 1..(n + 1), opChain'[i].tx = opChain'[j].tx
      PROVE  /\ opChain'[i].op \in Single => i = j
             /\ opChain'[i].op \in Runs /\ readOnly'[opChain'[i].tx] => i = j
             /\ opChain'[i].op \in Lasts => j <= i
  <2>1. CASE i \in 1..n /\ j \in 1..n
    <3>1. /\ opChain[i + 1].op \in Single => i + 1 = j + 1
          /\ opChain[i + 1].op \in Runs /\ readOnly[opChain[i + 1].tx] => i + 1 = j + 1
          /\ opChain[i + 1].op \in Lasts => j + 1 <= i + 1
      BY <1>1, <1>7, <2>1 DEF IInv, JobsApart
    <3>2. opChain'[i].tx \in Txs /\ opChain'[i] = opChain[i + 1] /\ i \in Nat /\ j \in Nat
      BY <1>1, <1>5, <2>1
    <3> QED
      BY <3>1, <3>2
  <2>2. CASE i = n + 1 /\ j = n + 1
    BY <1>1, <2>2
  <2> QED
    BY <1>1, <1>3, <1>6, <1>7, <2>1, <2>2
<1>8. JobsApart'
  BY <1>1, <1>7 DEF JobsApart
<1>9. \A k \in DOMAIN opChain' : opChain'[k].op # "reconnect" /\ opChain'[k].tx \in Txs
  BY <1>1, <1>4, <1>5, <1>6
<1> QED
  BY <1>3, <1>8, <1>9 DEF n

\* What is pending before and after the head is over.
LEMMA OverPending ==
    ASSUME IInv, opChain # <<>>, Done(<<>>), NEW s, NEW ops
    PROVE  /\ Pending(s, ops)' => Pending(s, ops)
           /\ Pending(s, ops) => Pending(s, ops)' \/ (Job.tx = s /\ Job.op \in ops)
<1>1. /\ DOMAIN opChain' = 1..(Len(opChain) - 1) /\ Len(opChain) \in Nat
      /\ \A k \in DOMAIN opChain' : opChain'[k] = opChain[k + 1] /\ k + 1 \in DOMAIN opChain
      /\ DOMAIN opChain = 1..Len(opChain) /\ Job = opChain[1]
  BY Over, JobsOfChain DEF IInv
<1>2. Pending(s, ops)' => Pending(s, ops)
  BY <1>1 DEF Pending
<1>3. ASSUME NEW k \in DOMAIN opChain, opChain[k].tx = s, opChain[k].op \in ops, k # 1
      PROVE  Pending(s, ops)'
  <2>1. k - 1 \in DOMAIN opChain' /\ (k - 1) + 1 = k
    BY <1>1, <1>3
  <2> QED
    BY <1>1, <1>3, <2>1 DEF Pending
<1> QED
  BY <1>1, <1>2, <1>3 DEF Pending

LEMMA GoesOnPending ==
    ASSUME IInv, opChain # <<>>, NEW op, [tx |-> Job.tx, op |-> op] \in Jobs, Done(FollowUp(op)), NEW s, NEW ops
    PROVE  /\ s # Job.tx => (Pending(s, ops)' <=> Pending(s, ops))
           /\ s = Job.tx /\ op \in ops => Pending(s, ops)'
<1> DEFINE n == Len(opChain) - 1
<1>1. /\ DOMAIN opChain' = 1..(n + 1) /\ n \in Nat /\ DOMAIN opChain = 1..(n + 1)
      /\ \A k \in 1..n : opChain'[k] = opChain[k + 1] /\ k + 1 \in DOMAIN opChain
      /\ Job = opChain[1]
      /\ opChain'[n + 1].tx = Job.tx /\ opChain'[n + 1].op = op
  BY GoesOn, JobsOfChain DEF IInv
<1> HIDE DEF n
<1>2. n + 1 \in DOMAIN opChain'
  BY <1>1
<1>3. s = Job.tx /\ op \in ops => Pending(s, ops)'
  BY <1>1, <1>2 DEF Pending
<1>4. ASSUME s # Job.tx, Pending(s, ops)
      PROVE  Pending(s, ops)'
  <2>1. PICK k \in DOMAIN opChain : opChain[k].tx = s /\ opChain[k].op \in ops
    BY <1>4 DEF Pending
  <2>2. k # 1 /\ k \in 1..(n + 1)
    BY <1>1, <1>4, <2>1
  <2>3. k - 1 \in 1..n /\ (k - 1) + 1 = k /\ k - 1 \in 1..(n + 1)
    BY <1>1, <2>2
  <2> QED
    BY <1>1, <2>1, <2>3 DEF Pending
<1>5. ASSUME s # Job.tx, Pending(s, ops)'
      PROVE  Pending(s, ops)
  <2>1. PICK k \in DOMAIN opChain' : opChain'[k].tx = s /\ opChain'[k].op \in ops
    BY <1>5 DEF Pending
  <2>2. k \in 1..n
    BY <1>1, <1>5, <2>1
  <2> QED
    BY <1>1, <2>1, <2>2 DEF Pending
<1> QED
  BY <1>3, <1>4, <1>5

\* Nothing is sent any more when the next job becomes the head.
LEMMA DoneFitsHead ==
    ASSUME phase' = "queued", sent' = NoHandle, opChain' # <<>> => Job'.op # "reconnect"
    PROVE  HeadFits'
BY DEF HeadFits, Awaiting

LEMMA HeadOfRest ==
    ASSUME opChain' \in Seq(Jobs), \A k \in DOMAIN opChain' : opChain'[k].op # "reconnect"
    PROVE  opChain' # <<>> => Job'.op # "reconnect"
BY DEF Job

LEMMA SendKeeps ==
    ASSUME IInv, Send \/ SendLost
    PROVE  IInv'
<1>1. /\ opChain # <<>> /\ phase = "queued" /\ Job.op # "reconnect"
      /\ \/ phase' = "lost" /\ sent' = sent
         \/ phase' = "sent" /\ sent' = IF Job.op \in Starts THEN NoHandle ELSE handle[Job.tx]
  BY DEF Send, SendLost, Idle
<1>2. /\ opChain' = opChain /\ wire' = wire /\ detached' = detached /\ generation' = generation
      /\ status' = status /\ handle' = handle /\ attGeneration' = attGeneration /\ readOnly' = readOnly
      /\ server' = server
  BY DEF Send, SendLost, attVars, txVars
<1>3. TypeOK'
  <2>1. Job.tx \in Txs
    BY <1>1, JobsOfChain DEF IInv
  <2>2. sent' \in Handles \cup {NoHandle} /\ phase' \in {"sent", "lost"}
    BY <1>1, <2>1 DEF IInv, TypeOK
  <2> QED
    BY <1>2, <2>2 DEF IInv, TypeOK
<1>4. JobsApart' /\ JobsFit'
  BY <1>2 DEF IInv, JobsApart, JobsFit
<1>5. HeadFits'
  BY <1>1, <1>2 DEF IInv, HeadFits, Awaiting, Job
<1>6. Alive' /\ NoLeak' /\ NoZombie'
  BY <1>2 DEF IInv, Alive, AliveAt, NoTransactions, NoLeak, NoZombie, Active, Ending, Restarting, Pending
<1> QED
  BY <1>3, <1>4, <1>5, <1>6 DEF IInv

\* Executed: the head is over, and nothing else changes.
LEMMA ExecutedKeeps ==
    ASSUME IInv, Executed
    PROVE  IInv'
<1>1. /\ opChain # <<>> /\ Job.op \in Runs /\ Done(<<>>)
  BY DEF Executed, Awaiting
<1>2. /\ wire' = wire /\ detached' = detached /\ generation' = generation /\ status' = status
      /\ handle' = handle /\ attGeneration' = attGeneration /\ readOnly' = readOnly /\ server' = server
  BY DEF Executed, attVars, txVars
<1>3. /\ opChain' \in Seq(Jobs) /\ phase' = "queued" /\ sent' = NoHandle
      /\ \A k \in DOMAIN opChain' : opChain'[k] = opChain[k + 1] /\ k + 1 \in DOMAIN opChain
  BY <1>1, Over DEF IInv
<1>4. /\ JobsApart'
      /\ \A k \in DOMAIN opChain' : opChain'[k].op # "reconnect" /\ opChain'[k].tx \in Txs
  BY <1>1, <1>2, OverLeaves
<1>5. TypeOK'
  BY <1>2, <1>3 DEF IInv, TypeOK
<1>6. JobsFit'
  BY <1>2, <1>3, <1>4 DEF IInv, JobsFit
<1>7. HeadFits'
  BY <1>3, <1>4, HeadOfRest, DoneFitsHead
<1>8. Alive'
  BY <1>2, <1>3 DEF IInv, Alive, AliveAt, NoTransactions
<1>9. ASSUME NEW s \in Txs
      PROVE  (Ending(s)' <=> Ending(s)) /\ (Restarting(s)' <=> Restarting(s))
  <2>1. Job.op \notin {"commit", "rollback"} /\ Job.op \notin {"end", "begin", "upgradeEnd", "upgradeBegin"}
    BY <1>1 DEF Runs
  <2>2. Pending(s, {"commit", "rollback"})' <=> Pending(s, {"commit", "rollback"})
    BY <1>1, <2>1, OverPending
  <2>3. Pending(s, {"end", "begin", "upgradeEnd", "upgradeBegin"})' <=> Pending(s, {"end", "begin", "upgradeEnd", "upgradeBegin"})
    BY <1>1, <2>1, OverPending
  <2> QED
    BY <2>2, <2>3 DEF Ending, Restarting
<1>10. \A h \in Handles : server[h] # NoTx => server[h] \in Txs
  BY DEF IInv, TypeOK
<1>11. NoLeak' /\ NoZombie'
  BY <1>2, <1>9, <1>10 DEF IInv, NoLeak, NoZombie, Active
<1> QED
  BY <1>4, <1>5, <1>6, <1>7, <1>8, <1>11 DEF IInv

\* A Transaction begins, or begins anew, at a handle nobody has.
LEMMA StartedKeeps ==
    ASSUME IInv, Started
    PROVE  IInv'
<1> DEFINE t == Job.tx
<1>1. opChain # <<>> /\ wire = "open" /\ Job.op \in Starts /\ wire' = wire /\ detached' = detached
      /\ generation' = generation /\ readOnly' = readOnly
  BY DEF Started, Awaiting, attVars
<1>2. PICK h \in Handles : server[h] = NoTx /\ server' = [server EXCEPT ![h] = t] /\ handle' = [handle EXCEPT ![t] = h]
  BY DEF Started
<1>3. t \in Txs /\ Job = opChain[1] /\ 1 \in DOMAIN opChain
  <2>1. "reconnect" \notin Starts
    BY DEF Starts
  <2> QED
    BY <1>1, <2>1, JobsOfChain DEF IInv
<1>4. /\ status' = [status EXCEPT ![t] = "active"]
      /\ attGeneration' = IF Job.op = "start" THEN [attGeneration EXCEPT ![t] = generation] ELSE attGeneration
  BY DEF Started
<1>5. Done(<<>>) \/ (Done(FollowUp("replay")) /\ [tx |-> t, op |-> "replay"] \in Jobs)
  BY <1>3 DEF Started, Jobs, Runs
<1>6. /\ opChain' \in Seq(Jobs) /\ phase' = "queued" /\ sent' = NoHandle /\ JobsApart'
      /\ \A k \in DOMAIN opChain' :
            /\ opChain'[k].op # "reconnect" /\ opChain'[k].tx \in Txs
            /\ opChain'[k].tx = t => opChain'[k].op = "replay"
            /\ opChain'[k].tx # t => opChain'[k] = opChain[k + 1] /\ k + 1 \in DOMAIN opChain
  <2>1. Job.op \in Single
    BY <1>1 DEF Single
  <2>2. CASE Done(<<>>)
    <3>1. /\ JobsApart'
          /\ \A k \in DOMAIN opChain' : opChain'[k].op # "reconnect" /\ opChain'[k].tx \in Txs /\ opChain'[k].tx # t
      BY <1>1, <2>1, <2>2, OverLeaves
    <3> QED
      BY <1>1, <2>2, <3>1, Over DEF IInv
  <2>3. CASE Done(FollowUp("replay")) /\ [tx |-> t, op |-> "replay"] \in Jobs
    <3>1. /\ JobsApart'
          /\ \A k \in DOMAIN opChain' : opChain'[k].op # "reconnect" /\ opChain'[k].tx \in Txs
          /\ \A k \in 1..(Len(opChain) - 1) : opChain'[k].tx # t
      BY <1>1, <2>1, <2>3, GoesOnLeaves DEF Lasts
    <3>2. /\ opChain' \in Seq(Jobs) /\ phase' = "queued" /\ sent' = NoHandle
          /\ DOMAIN opChain' = 1..Len(opChain)
          /\ \A k \in 1..(Len(opChain) - 1) : opChain'[k] = opChain[k + 1] /\ k + 1 \in DOMAIN opChain
          /\ opChain'[Len(opChain)] = [tx |-> t, op |-> "replay"]
      BY <1>1, <2>3, GoesOn DEF IInv
    <3>3. Len(opChain) \in Nat
      BY JobsOfChain DEF IInv
    <3>4. \A k \in 1..Len(opChain) : k \in 1..(Len(opChain) - 1) \/ k = Len(opChain)
      BY <3>3
    <3> QED
      BY <3>1, <3>2, <3>4
  <2> QED
    BY <1>5, <2>2, <2>3
<1>7. \A i \in DOMAIN opChain : opChain[i].tx = t => i = 1
  BY <1>1, <1>3 DEF IInv, JobsApart, Single
<1>8. /\ \A s \in Txs \ {t} : Ending(s) => Ending(s)'
      /\ \A s \in Txs \ {t} : Restarting(s)' => Restarting(s)
      /\ \A s \in Txs \ {t} : Restarting(s) => Restarting(s)'
  <2>1. ASSUME NEW s \in Txs \ {t}, NEW ops
        PROVE  Pending(s, ops)' <=> Pending(s, ops)
    BY <1>1, <1>5, OverPending, GoesOnPending
  <2> QED
    BY <2>1 DEF Ending, Restarting
<1>9. /\ \A g \in Handles : server[g] # t
      /\ attGeneration'[t] = generation
      /\ generation \in 0..MaxGeneration
  <2>1. \A g \in Handles : server[g] # t
    BY <1>1, <1>3 DEF IInv, Alive
  <2>2. Job.op # "start" => attGeneration[t] = generation
    <3>1. Job.op # "reconnect"
      BY <1>1 DEF Starts
    <3> QED
      BY <1>3, <3>1 DEF IInv, JobsFit
  <2> QED
    BY <1>3, <1>4, <2>1, <2>2 DEF IInv, TypeOK
<1> HIDE DEF t
<1>10. /\ status' \in [Txs -> {"none", "starting", "active", "finished"}] /\ status'[t] = "active"
       /\ handle' \in [Txs -> Handles \cup {NoHandle}] /\ handle'[t] = h
       /\ attGeneration' \in [Txs -> 0..MaxGeneration]
       /\ server' \in [Handles -> Txs \cup {NoTx}] /\ server'[h] = t
       /\ \A s \in Txs \ {t} : status'[s] = status[s] /\ handle'[s] = handle[s] /\ attGeneration'[s] = attGeneration[s]
       /\ \A g \in Handles \ {h} : server'[g] = server[g]
  BY <1>2, <1>3, <1>4, <1>9 DEF IInv, TypeOK
<1>11. h # NoHandle
  BY AttachmentAssumption
<1>12. TypeOK'
  BY <1>1, <1>6, <1>10, <1>11 DEF IInv, TypeOK
<1>13. JobsFit'
  <2>1. ASSUME NEW k \in DOMAIN opChain', opChain'[k].tx # t
        PROVE  /\ opChain'[k].op = "start" => status'[opChain'[k].tx] = "starting"
               /\ opChain'[k].op \in {"commit", "rollback"} => status'[opChain'[k].tx] = "finished"
               /\ opChain'[k].op # "start" => attGeneration'[opChain'[k].tx] = generation
               /\ \A s \in Txs : status'[s] = "none" => opChain'[k].tx # s
    <3>1. opChain'[k] = opChain[k + 1] /\ k + 1 \in DOMAIN opChain
          /\ opChain[k + 1].tx \in Txs \ {t} /\ opChain[k + 1].op # "reconnect"
      BY <1>6, <2>1
    <3> QED
      BY <1>10, <3>1 DEF IInv, JobsFit
  <2>2. \A k \in DOMAIN opChain' : opChain'[k].tx = t => opChain'[k].op = "replay" /\ opChain'[k].op # "reconnect"
    BY <1>6
  <2> QED
    BY <1>1, <1>6, <1>9, <1>10, <2>1, <2>2 DEF JobsFit
<1>14. HeadFits'
  BY <1>6, HeadOfRest, DoneFitsHead
<1>15. Alive'
  <2>1. ASSUME NEW s \in Txs \ {t}, AliveAt(s)
        PROVE  AliveAt(s)'
    <3>1. s # NoTx /\ handle[s] # h /\ handle'[s] = handle[s]
      BY <1>2, <1>10, <2>1, AttachmentAssumption DEF AliveAt
    <3> QED
      BY <1>10, <2>1, <3>1 DEF AliveAt
  <2>2. handle'[t] \in Handles /\ server'[handle'[t]] = t
    BY <1>10
  <2>3. \A s \in Txs \ {t} : (\A g \in Handles : server[g] # s) => \A g \in Handles : server'[g] # s
    BY <1>10
  <2>4. ASSUME NEW k \in DOMAIN opChain'
        PROVE  /\ opChain'[k].op \in Runs \cup Ends =>
                    handle'[opChain'[k].tx] \in Handles /\ server'[handle'[opChain'[k].tx]] = opChain'[k].tx
               /\ opChain'[k].op \in Starts => \A g \in Handles : server'[g] # opChain'[k].tx
    <3>1. CASE opChain'[k].tx = t
      BY <1>6, <2>2, <3>1 DEF Starts
    <3>2. CASE opChain'[k].tx # t
      <4>1. opChain'[k] = opChain[k + 1] /\ k + 1 \in DOMAIN opChain /\ opChain[k + 1].tx \in Txs \ {t}
        BY <1>6, <3>2
      <4>2. /\ opChain[k + 1].op \in Runs \cup Ends => AliveAt(opChain[k + 1].tx)
            /\ opChain[k + 1].op \in Starts => \A g \in Handles : server[g] # opChain[k + 1].tx
        BY <1>1, <4>1 DEF IInv, Alive
      <4> QED
        BY <2>1, <2>3, <4>1, <4>2 DEF AliveAt
    <3> QED
      BY <3>1, <3>2
  <2>5. \A s \in Txs : attGeneration'[s] <= generation'
    <3>1. \A s \in Txs : attGeneration[s] <= generation
      BY DEF IInv, Alive
    <3>2. attGeneration'[t] <= generation
      BY <1>9
    <3> QED
      BY <1>1, <1>10, <3>1, <3>2
  <2> QED
    BY <1>1, <2>4, <2>5 DEF Alive, AliveAt
<1>16. NoLeak'
  <2>1. \A g \in Handles \ {h} : server[g] # NoTx => server[g] \in Txs \ {t}
    BY <1>9 DEF IInv, TypeOK
  <2> QED
    BY <1>1, <1>8, <1>9, <1>10, <2>1 DEF IInv, NoLeak
<1>17. NoZombie'
  <2>1. ASSUME NEW s \in Txs \ {t}, Active(s)', ~Restarting(s)'
        PROVE  server'[handle'[s]] = s
    <3>1. AliveAt(s)
      BY <1>1, <1>8, <1>10, <2>1, ActiveAlive DEF Active
    <3>2. s # NoTx /\ handle[s] # h /\ handle'[s] = handle[s]
      BY <1>2, <1>10, <2>1, <3>1, AttachmentAssumption DEF AliveAt
    <3> QED
      BY <1>10, <3>1, <3>2 DEF AliveAt
  <2> QED
    BY <1>10, <2>1 DEF NoZombie
<1> QED
  BY <1>6, <1>12, <1>13, <1>14, <1>15, <1>16, <1>17 DEF IInv

\* Whose job is at the head.
LEMMA HeadOwner ==
    ASSUME IInv, opChain # <<>>, Job.op # "reconnect"
    PROVE  /\ Job.tx \in Txs /\ Job = opChain[1] /\ 1 \in DOMAIN opChain
           /\ Job.op \in {"commit", "rollback"} => status[Job.tx] = "finished"
           /\ Job.op = "start" => status[Job.tx] = "starting"
           /\ Job.op # "start" => attGeneration[Job.tx] = generation
           /\ wire = "open" /\ Job.op \in Runs \cup Ends => AliveAt(Job.tx)
           /\ wire = "open" /\ Job.op \in Starts => \A h \in Handles : server[h] # Job.tx
BY JobsOfChain DEF IInv, JobsFit, Alive

\* A head that goes on and leaves the objects as they are, but for readOnly.
LEMMA GoesOnFits ==
    ASSUME IInv, opChain # <<>>, NEW op, [tx |-> Job.tx, op |-> op] \in Jobs, Done(FollowUp(op)),
           Job.op \in (Single \cup {"end"}) \ {"start"} \/ (Job.op \in Runs /\ readOnly[Job.tx]),
           op \notin {"reconnect", "start"} \cup Lasts, status[Job.tx] # "none",
           readOnly' \in [Txs -> BOOLEAN], \A s \in Txs : readOnly'[s] => readOnly[s],
           wire' = wire, detached' = detached, generation' = generation, status' = status,
           handle' = handle, attGeneration' = attGeneration, server' \in [Handles -> Txs \cup {NoTx}]
    PROVE  TypeOK' /\ JobsApart' /\ JobsFit' /\ HeadFits'
<1>1. /\ opChain' \in Seq(Jobs) /\ phase' = "queued" /\ sent' = NoHandle
      /\ DOMAIN opChain' = 1..Len(opChain) /\ Len(opChain) \in Nat
      /\ \A k \in 1..(Len(opChain) - 1) : opChain'[k] = opChain[k + 1] /\ k + 1 \in DOMAIN opChain
      /\ opChain'[Len(opChain)].tx = Job.tx /\ opChain'[Len(opChain)].op = op
  BY GoesOn, JobsOfChain DEF IInv
<1>2. /\ JobsApart'
      /\ \A k \in DOMAIN opChain' : opChain'[k].op # "reconnect" /\ opChain'[k].tx \in Txs
      /\ \A k \in 1..(Len(opChain) - 1) : opChain'[k].tx # Job.tx
  BY GoesOnLeaves
<1>3. Job.op # "reconnect" /\ Job.op # "start"
  BY DEF Single, Starts, Runs
<1>4. attGeneration[Job.tx] = generation
  BY <1>3, HeadOwner
<1>5. TypeOK'
  BY <1>1 DEF IInv, TypeOK
<1>6. JobsFit'
  <2>1. ASSUME NEW k \in 1..(Len(opChain) - 1)
        PROVE  /\ opChain'[k].op = "start" => status[opChain'[k].tx] = "starting"
               /\ opChain'[k].op \in {"commit", "rollback"} => status[opChain'[k].tx] = "finished"
               /\ opChain'[k].op # "start" => attGeneration[opChain'[k].tx] = generation
               /\ \A s \in Txs : status[s] = "none" => opChain'[k].tx # s
    <3>1. opChain'[k] = opChain[k + 1] /\ k + 1 \in DOMAIN opChain /\ k \in DOMAIN opChain'
      BY <1>1
    <3>2. opChain[k + 1].op # "reconnect"
      BY <1>2, <3>1
    <3> QED
      BY <3>1, <3>2 DEF IInv, JobsFit
  <2>2. \A k \in DOMAIN opChain' : k \in 1..(Len(opChain) - 1) \/ k = Len(opChain)
    BY <1>1
  <2> QED
    BY <1>1, <1>2, <1>4, <2>1, <2>2 DEF JobsFit, Lasts
<1>7. HeadFits'
  BY <1>1, <1>2, HeadOfRest, DoneFitsHead
<1> QED
  BY <1>2, <1>5, <1>6, <1>7

\* A write that upgrades its Transaction puts the restart behind what is queued.
LEMMA UpgradeKeeps ==
    ASSUME IInv, Upgrade
    PROVE  IInv'
<1>0. opChain # <<>> /\ wire = "open" /\ Job.op = "run" /\ Job.tx \in Txs
  BY HeadOwner DEF Upgrade, Awaiting
<1> PICK t \in Txs : t = Job.tx
  BY <1>0
<1>1. /\ opChain # <<>> /\ wire = "open" /\ Job.op = "run" /\ readOnly[t] /\ Active(t)
      /\ Done(FollowUp("upgradeEnd"))
  BY <1>0 DEF Upgrade
<1>2. /\ wire' = wire /\ detached' = detached /\ generation' = generation /\ status' = status
      /\ handle' = handle /\ attGeneration' = attGeneration /\ readOnly' = readOnly /\ server' = server
  BY DEF Upgrade, attVars, txVars
<1>3. t \in Txs /\ AliveAt(t) /\ "run" \in Runs /\ [tx |-> t, op |-> "upgradeEnd"] \in Jobs
  BY <1>1, HeadOwner DEF Runs, Ends, Jobs
<1>4. TypeOK' /\ JobsApart' /\ JobsFit' /\ HeadFits'
  <2>1. readOnly' \in [Txs -> BOOLEAN] /\ server' \in [Handles -> Txs \cup {NoTx}] /\ status[t] # "none"
    BY <1>1, <1>2 DEF IInv, TypeOK, Active
  <2> QED
    BY <1>1, <1>2, <1>3, <2>1, GoesOnFits DEF Lasts
<1>5. /\ DOMAIN opChain' = 1..Len(opChain)
      /\ \A k \in 1..(Len(opChain) - 1) : opChain'[k] = opChain[k + 1] /\ k + 1 \in DOMAIN opChain
      /\ opChain'[Len(opChain)].tx = t /\ opChain'[Len(opChain)].op = "upgradeEnd"
  BY <1>1, <1>3, GoesOn DEF IInv
<1>6. /\ \A s \in Txs \ {t} : (Ending(s)' <=> Ending(s)) /\ (Restarting(s)' <=> Restarting(s))
      /\ Restarting(t)'
  <2>1. ASSUME NEW s \in Txs, NEW ops
        PROVE  /\ s # t => (Pending(s, ops)' <=> Pending(s, ops))
               /\ s = t /\ "upgradeEnd" \in ops => Pending(s, ops)'
    BY <1>1, <1>3, GoesOnPending
  <2> QED
    BY <2>1 DEF Ending, Restarting
<1>7. Alive'
  <2>1. \A k \in DOMAIN opChain' : k \in 1..(Len(opChain) - 1) \/ k = Len(opChain)
    BY <1>5, JobsOfChain DEF IInv
  <2>2. "upgradeEnd" \notin Starts
    BY DEF Starts
  <2> QED
    BY <1>2, <1>3, <1>5, <2>1, <2>2 DEF IInv, Alive, AliveAt, NoTransactions
<1>8. NoLeak'
  <2>1. \A g \in Handles : server[g] # NoTx => server[g] \in Txs
    BY DEF IInv, TypeOK
  <2> QED
    BY <1>1, <1>2, <1>6, <2>1 DEF IInv, NoLeak, Active
<1>9. NoZombie'
  BY <1>1, <1>2, <1>6 DEF IInv, NoZombie, Active
<1> QED
  BY <1>4, <1>7, <1>8, <1>9 DEF IInv

\* A transaction ends: of commit() and rollback() nothing is left, a restart goes on.
LEMMA EndedKeeps ==
    ASSUME IInv, Ended
    PROVE  IInv'
<1>1. opChain # <<>> /\ phase = "sent" /\ wire = "open" /\ Job.op \in Ends
  BY DEF Ended, Awaiting
<1>2. /\ wire' = wire /\ detached' = detached /\ generation' = generation /\ status' = status
      /\ handle' = handle /\ attGeneration' = attGeneration
  BY DEF Ended, attVars
<1>12. Job.op \notin Starts \cup {"reconnect"}
  BY <1>1 DEF Ends, Starts
<1> PICK t \in Txs : t = Job.tx
  BY <1>1, <1>12, HeadOwner
<1>3. t = Job.tx /\ AliveAt(t) /\ Job.op \notin Starts \cup {"reconnect"}
  BY <1>1, <1>12, HeadOwner
<1>4. sent = handle[t] /\ server' = [server EXCEPT ![handle[t]] = NoTx]
  BY <1>1, <1>3 DEF IInv, HeadFits, Awaiting, Ended
<1>5. /\ server' \in [Handles -> Txs \cup {NoTx}] /\ server'[handle[t]] = NoTx
      /\ \A g \in Handles \ {handle[t]} : server'[g] = server[g]
      /\ \A g \in Handles : server'[g] # t
  BY <1>1, <1>3, <1>4, AttachmentAssumption DEF IInv, TypeOK, NoLeak, AliveAt
<1>6. ASSUME NEW s \in Txs \ {t}, AliveAt(s)
      PROVE  handle'[s] \in Handles /\ server'[handle'[s]] = s
  BY <1>2, <1>3, <1>5, <1>6 DEF AliveAt
<1>7. \A g \in Handles : server'[g] # NoTx => server'[g] = server[g] /\ server[g] \in Txs \ {t}
  BY <1>3, <1>5 DEF IInv, TypeOK
<1>8. CASE Job.op \in {"commit", "rollback"}
  <2>1. Done(<<>>) /\ readOnly' = readOnly
    BY <1>8 DEF Ended
  <2>2. /\ opChain' \in Seq(Jobs) /\ phase' = "queued" /\ sent' = NoHandle
        /\ \A k \in DOMAIN opChain' : opChain'[k] = opChain[k + 1] /\ k + 1 \in DOMAIN opChain
    BY <1>1, <2>1, Over DEF IInv
  <2>3. /\ JobsApart'
        /\ \A k \in DOMAIN opChain' : opChain'[k].op # "reconnect" /\ opChain'[k].tx \in Txs \ {t}
    BY <1>1, <1>8, <2>1, OverLeaves DEF Lasts
  <2>4. TypeOK'
    BY <1>2, <1>5, <2>1, <2>2 DEF IInv, TypeOK
  <2>5. JobsFit'
    BY <1>2, <2>2, <2>3 DEF IInv, JobsFit
  <2>6. HeadFits'
    BY <2>2, <2>3, HeadOfRest, DoneFitsHead
  <2>7. Alive'
    <3>1. ASSUME NEW k \in DOMAIN opChain'
          PROVE  /\ opChain'[k].op \in Runs \cup Ends =>
                        handle'[opChain'[k].tx] \in Handles /\ server'[handle'[opChain'[k].tx]] = opChain'[k].tx
                 /\ opChain'[k].op \in Starts => \A g \in Handles : server'[g] # opChain'[k].tx
      <4>1. opChain'[k] = opChain[k + 1] /\ k + 1 \in DOMAIN opChain /\ opChain[k + 1].tx \in Txs \ {t}
        BY <2>2, <2>3
      <4>2. /\ opChain[k + 1].op \in Runs \cup Ends => AliveAt(opChain[k + 1].tx)
            /\ opChain[k + 1].op \in Starts => \A g \in Handles : server[g] # opChain[k + 1].tx
        BY <1>1, <4>1 DEF IInv, Alive
      <4>3. opChain[k + 1].tx # NoTx
        BY <4>1, AttachmentAssumption
      <4> QED
        BY <1>3, <1>5, <1>6, <4>1, <4>2, <4>3
    <3> QED
      BY <1>1, <1>2, <2>2, <3>1 DEF IInv, Alive, AliveAt
  <2>8. \A s \in Txs \ {t} : (Ending(s)' <=> Ending(s)) /\ (Restarting(s)' <=> Restarting(s))
    <3>1. ASSUME NEW s \in Txs \ {t}, NEW ops
          PROVE  Pending(s, ops)' <=> Pending(s, ops)
      BY <1>1, <2>1, OverPending
    <3> QED
      BY <3>1 DEF Ending, Restarting
  <2>9. NoLeak'
    BY <1>1, <1>2, <1>7, <2>8 DEF IInv, NoLeak
  <2>10. status[t] = "finished"
    BY <1>1, <1>3, <1>8, HeadOwner
  <2>11. NoZombie'
    <3>1. ASSUME NEW s \in Txs, Active(s)', ~Restarting(s)'
          PROVE  server'[handle'[s]] = s
      <4>1. s # t /\ AliveAt(s)
        BY <1>1, <1>2, <2>8, <2>10, <3>1, ActiveAlive DEF Active
      <4> QED
        BY <1>6, <4>1
    <3> QED
      BY <3>1 DEF NoZombie
  <2> QED
    BY <2>3, <2>4, <2>5, <2>6, <2>7, <2>9, <2>11 DEF IInv
<1>9. ASSUME NEW op, op \in {"begin", "upgradeBegin"}, Done(FollowUp(op)), Job.op \in {"end", "upgradeEnd"},
             readOnly' \in [Txs -> BOOLEAN], \A s \in Txs : readOnly'[s] => readOnly[s]
      PROVE  IInv'
  <2>1. [tx |-> t, op |-> op] \in Jobs /\ op \in Starts \ {"start"} /\ op \notin Lasts /\ Job.op \in (Single \cup {"end"}) \ {"start"}
    BY <1>3, <1>9 DEF Jobs, Starts, Single, Lasts
  <2>2. status[t] # "none"
    BY <1>1, <1>3, HeadOwner DEF IInv, JobsFit
  <2>3. TypeOK' /\ JobsApart' /\ JobsFit' /\ HeadFits'
    BY <1>1, <1>2, <1>5, <1>9, <2>1, <2>2, GoesOnFits
  <2>4. /\ DOMAIN opChain' = 1..Len(opChain) /\ Len(opChain) \in Nat
        /\ \A k \in 1..(Len(opChain) - 1) : opChain'[k] = opChain[k + 1] /\ k + 1 \in DOMAIN opChain
        /\ opChain'[Len(opChain)].tx = t /\ opChain'[Len(opChain)].op = op
    <3>1. [tx |-> Job.tx, op |-> op] \in Jobs
      BY <1>3, <2>1
    <3>2. /\ DOMAIN opChain' = 1..Len(opChain)
          /\ \A k \in 1..(Len(opChain) - 1) : opChain'[k] = opChain[k + 1] /\ k + 1 \in DOMAIN opChain
          /\ opChain'[Len(opChain)] = [tx |-> Job.tx, op |-> op]
      BY <1>1, <1>9, <3>1, GoesOn DEF IInv
    <3> QED
      BY <1>3, <3>2, JobsOfChain DEF IInv
  <2>5. \A k \in 1..(Len(opChain) - 1) : opChain'[k].tx \in Txs \ {t}
    <3>1. /\ \A k \in DOMAIN opChain' : opChain'[k].tx \in Txs
          /\ \A k \in 1..(Len(opChain) - 1) : opChain'[k].tx # t
      BY <1>1, <1>9, <2>1, GoesOnLeaves
    <3> QED
      BY <2>4, <3>1
  <2>6. /\ \A s \in Txs \ {t} : (Ending(s)' <=> Ending(s)) /\ (Restarting(s)' <=> Restarting(s))
        /\ Restarting(t)'
    <3>1. ASSUME NEW s \in Txs, NEW ops
          PROVE  /\ s # t => (Pending(s, ops)' <=> Pending(s, ops))
                 /\ s = t /\ op \in ops => Pending(s, ops)'
      BY <1>1, <1>9, <2>1, GoesOnPending
    <3>2. Pending(t, {"end", "begin", "upgradeEnd", "upgradeBegin"})'
      BY <1>9, <3>1
    <3> QED
      BY <3>1, <3>2 DEF Ending, Restarting
  <2>7. Alive'
    <3>1. ASSUME NEW k \in 1..(Len(opChain) - 1)
          PROVE  /\ opChain'[k].op \in Runs \cup Ends =>
                        handle'[opChain'[k].tx] \in Handles /\ server'[handle'[opChain'[k].tx]] = opChain'[k].tx
                 /\ opChain'[k].op \in Starts => \A g \in Handles : server'[g] # opChain'[k].tx
      <4>1. opChain'[k] = opChain[k + 1] /\ k + 1 \in DOMAIN opChain /\ opChain[k + 1].tx \in Txs \ {t}
        BY <2>4, <2>5
      <4>2. /\ opChain[k + 1].op \in Runs \cup Ends => AliveAt(opChain[k + 1].tx)
            /\ opChain[k + 1].op \in Starts => \A g \in Handles : server[g] # opChain[k + 1].tx
        BY <1>1, <4>1 DEF IInv, Alive
      <4>3. opChain[k + 1].tx # NoTx
        BY <4>1, AttachmentAssumption
      <4> QED
        BY <1>3, <1>5, <1>6, <4>1, <4>2, <4>3
    <3>2. op \notin Runs \cup Ends
      BY <2>1 DEF Starts, Runs, Ends
    <3>3. \A k \in DOMAIN opChain' : k \in 1..(Len(opChain) - 1) \/ k = Len(opChain)
      BY <2>4
    <3> QED
      BY <1>1, <1>2, <1>5, <2>4, <3>1, <3>2, <3>3 DEF IInv, Alive, AliveAt
  <2>8. NoLeak'
    BY <1>1, <1>2, <1>7, <2>6 DEF IInv, NoLeak
  <2>9. NoZombie'
    <3>1. ASSUME NEW s \in Txs, Active(s)', ~Restarting(s)'
          PROVE  server'[handle'[s]] = s
      <4>1. s # t /\ AliveAt(s)
        BY <1>1, <1>2, <2>6, <3>1, ActiveAlive DEF Active
      <4> QED
        BY <1>6, <4>1
    <3> QED
      BY <3>1 DEF NoZombie
  <2> QED
    BY <2>3, <2>7, <2>8, <2>9 DEF IInv
<1>10. CASE Job.op = "end"
  <2>1. PICK ro \in {readOnly[t], FALSE} : readOnly' = [readOnly EXCEPT ![t] = ro]
    BY <1>10 DEF Ended
  <2>2. readOnly' \in [Txs -> BOOLEAN] /\ \A s \in Txs : readOnly'[s] => readOnly[s]
    BY <1>3, <2>1 DEF IInv, TypeOK
  <2>3. Done(FollowUp("begin"))
    BY <1>10 DEF Ended
  <2> QED
    BY <1>9, <1>10, <2>2, <2>3
<1>11. CASE Job.op = "upgradeEnd"
  <2>1. readOnly' = [readOnly EXCEPT ![t] = FALSE]
    BY <1>11 DEF Ended
  <2>2. readOnly' \in [Txs -> BOOLEAN] /\ \A s \in Txs : readOnly'[s] => readOnly[s]
    BY <1>3, <2>1 DEF IInv, TypeOK
  <2>3. Done(FollowUp("upgradeBegin"))
    BY <1>11 DEF Ended
  <2> QED
    BY <1>9, <1>11, <2>2, <2>3
<1> QED
  BY <1>1, <1>8, <1>10, <1>11 DEF Ends

\* A job that fails leaves its Transaction what it was; of commit() and rollback()
\* it takes `finished` back. Only on a dead connection can a restart fail halfway.
LEMMA JobFailsKeeps ==
    ASSUME IInv, opChain # <<>>, Job.op # "reconnect", JobFails,
           wire # "open" \/ Job.op \notin Starts \ {"start"}
    PROVE  IInv'
<1>2. /\ wire' = wire /\ detached' = detached /\ generation' = generation /\ handle' = handle
      /\ attGeneration' = attGeneration /\ readOnly' = readOnly /\ server' = server
  BY DEF JobFails, attVars
<1> PICK t \in Txs : t = Job.tx
  BY HeadOwner
<1>1. /\ Done(<<>>) /\ t = Job.tx
      /\ status' = [status EXCEPT ![t] = StatusAfterError]
  BY DEF JobFails
<1>3. /\ opChain' \in Seq(Jobs) /\ phase' = "queued" /\ sent' = NoHandle
      /\ \A k \in DOMAIN opChain' : opChain'[k] = opChain[k + 1] /\ k + 1 \in DOMAIN opChain
  BY <1>1, Over DEF IInv
<1>4. /\ JobsApart'
      /\ \A k \in DOMAIN opChain' : opChain'[k].op # "reconnect" /\ opChain'[k].tx \in Txs
      /\ Job.op \in Single \cup Lasts => \A k \in DOMAIN opChain' : opChain'[k].tx # t
  BY <1>1, <1>2, OverLeaves
<1>5. /\ Job.op = "start" => status[t] = "starting" /\ status'[t] = "none"
      /\ Job.op \in {"commit", "rollback"} => status[t] = "finished" /\ status'[t] = "active"
      /\ Job.op \notin {"start", "commit", "rollback"} => status'[t] = status[t]
      /\ status' \in [Txs -> {"none", "starting", "active", "finished"}]
      /\ \A s \in Txs \ {t} : status'[s] = status[s]
  <2>1. StatusAfterError = IF Job.op = "start" THEN "none"
                           ELSE IF Job.op \in {"commit", "rollback"} THEN "active" ELSE status[t]
    BY <1>1 DEF StatusAfterError
  <2>2. /\ Job.op = "start" => status[t] = "starting"
        /\ Job.op \in {"commit", "rollback"} => status[t] = "finished"
    BY HeadOwner
  <2> QED
    BY <1>1, <2>1, <2>2 DEF IInv, TypeOK
<1>6. TypeOK'
  BY <1>2, <1>3, <1>5 DEF IInv, TypeOK
<1>7. JobsFit'
  <2>1. Job.op \in {"start", "commit", "rollback"} => \A k \in DOMAIN opChain' : opChain'[k].tx # t
    BY <1>4 DEF Single, Starts, Lasts
  <2>2. \A k \in DOMAIN opChain' : status'[opChain'[k].tx] = status[opChain'[k].tx]
    BY <1>4, <1>5, <2>1
  <2>3. \A k \in DOMAIN opChain' : \A s \in Txs : opChain'[k].tx = s => status'[s] = status[s]
    BY <2>2
  <2> QED
    BY <1>2, <1>3, <1>4, <2>2, <2>3 DEF IInv, JobsFit
<1>8. HeadFits'
  BY <1>3, <1>4, HeadOfRest, DoneFitsHead
<1>9. Alive'
  BY <1>2, <1>3 DEF IInv, Alive, AliveAt, NoTransactions
<1>10. ASSUME NEW s \in Txs
       PROVE  /\ s # t \/ Job.op \notin {"commit", "rollback"} => (Ending(s) => Ending(s)')
              /\ s # t \/ Job.op \notin {"end", "begin", "upgradeEnd", "upgradeBegin"} => (Restarting(s) => Restarting(s)')
  <2>1. ASSUME NEW ops
        PROVE  Pending(s, ops) => Pending(s, ops)' \/ (t = s /\ Job.op \in ops)
    BY <1>1, OverPending
  <2> QED
    BY <2>1 DEF Ending, Restarting
<1>11. NoLeak'
  <2>1. \A g \in Handles : server[g] # NoTx => server[g] \in Txs
    BY DEF IInv, TypeOK
  <2>2. wire = "open" /\ Job.op = "start" => \A g \in Handles : server[g] # t
    BY HeadOwner DEF Starts
  <2> QED
    BY <1>2, <1>5, <1>10, <2>1, <2>2 DEF IInv, NoLeak
<1>12. NoZombie'
  <2>1. ASSUME NEW s \in Txs, wire = "open", Active(s)', ~Restarting(s)'
        PROVE  AliveAt(s)
    <3>1. CASE s # t
      BY <1>2, <1>5, <1>10, <2>1, <3>1, ActiveAlive DEF Active
    <3>2. CASE s = t /\ Job.op \in Runs \cup Ends
      BY <1>1, <2>1, <3>2, HeadOwner
    <3>3. CASE s = t /\ Job.op \notin Runs \cup Ends
      <4>1. Job.op = "start"
        BY <2>1, <3>3, JobsOfChain DEF IInv
      <4> QED
        BY <1>5, <2>1, <3>3, <4>1 DEF Active
    <3> QED
      BY <3>1, <3>2, <3>3
  <2> QED
    BY <1>2, <2>1 DEF NoZombie, AliveAt
<1> QED
  BY <1>4, <1>6, <1>7, <1>8, <1>9, <1>11, <1>12 DEF IInv

LEMMA RefusedKeeps ==
    ASSUME IInv, Quiet, Refused
    PROVE  IInv'
<1>1. /\ opChain # <<>> /\ phase = "sent" /\ wire = "open" /\ Job.op # "reconnect" /\ JobFails
  BY DEF Refused, Awaiting
<1>2. Job.op \notin Starts \ {"start"}
  <2>1. \/ Job.op \in Ends \cup Runs
        \/ Job.op = "start"
    BY DEF Refused, Quiet
  <2> QED
    BY <2>1 DEF Starts, Ends, Runs
<1> QED
  BY <1>1, <1>2, JobFailsKeeps

LEMMA BrokenKeeps ==
    ASSUME IInv, Broken
    PROVE  IInv'
<1>1. opChain # <<>> /\ Job.op # "reconnect" /\ wire # "open" /\ JobFails
  BY DEF Broken, Idle, Awaiting
<1> QED
  BY <1>1, JobFailsKeeps

-----------------------------------------------------------------------------
(* The connection.                                                           *)

\* With nothing at the server there is nothing to leak; what is active is not of
\* this generation, or the connection is down.
LEMMA NothingLeaks ==
    ASSUME server' = NoTransactions
    PROVE  NoLeak'
BY DEF NoLeak, NoTransactions

LEMMA DieKeeps ==
    ASSUME IInv, Die
    PROVE  IInv'
<1>1. wire' = "error" /\ server' = NoTransactions
  BY DEF Die
<1>2. /\ opChain' = opChain /\ phase' = phase /\ sent' = sent /\ detached' = detached
      /\ generation' = generation /\ status' = status /\ handle' = handle /\ attGeneration' = attGeneration
      /\ readOnly' = readOnly
  BY DEF Die, txVars
<1>3. TypeOK'
  BY <1>1, <1>2 DEF IInv, TypeOK, NoTransactions
<1>4. JobsApart' /\ JobsFit'
  BY <1>2 DEF IInv, JobsApart, JobsFit
<1>5. HeadFits'
  BY <1>1, <1>2 DEF IInv, HeadFits, Awaiting, Job, NoTransactions
<1>6. Alive' /\ NoZombie'
  BY <1>1, <1>2 DEF IInv, Alive, NoZombie, NoTransactions
<1> QED
  BY <1>1, <1>3, <1>4, <1>5, <1>6, NothingLeaks DEF IInv

LEMMA DisconnectKeeps ==
    ASSUME IInv, Disconnect
    PROVE  IInv'
<1>1. /\ wire' # "open" /\ wire' \in {"error", "closed"} /\ detached' = TRUE /\ server' = NoTransactions
  BY DEF Disconnect, IInv, TypeOK
<1>2. phase' = phase \/ (phase = "sent" /\ phase' = "lost")
  BY DEF Disconnect
<1>3. /\ opChain' = opChain /\ sent' = sent /\ generation' = generation /\ status' = status
      /\ handle' = handle /\ attGeneration' = attGeneration /\ readOnly' = readOnly
  BY DEF Disconnect, txVars
<1>4. TypeOK'
  BY <1>1, <1>2, <1>3 DEF IInv, TypeOK, NoTransactions
<1>5. JobsApart' /\ JobsFit'
  BY <1>3 DEF IInv, JobsApart, JobsFit
<1>6. HeadFits'
  BY <1>1, <1>2, <1>3 DEF IInv, HeadFits, Awaiting, Job, NoTransactions
<1>7. Alive' /\ NoZombie'
  BY <1>1, <1>3 DEF IInv, Alive, NoZombie, NoTransactions
<1> QED
  BY <1>1, <1>4, <1>5, <1>6, <1>7, NothingLeaks DEF IInv

LEMMA ReconnectKeeps ==
    ASSUME IInv, Quiet, Reconnect
    PROVE  IInv'
<1>1. /\ opChain = <<>> /\ generation < MaxGeneration /\ Enqueue(NoTx, "reconnect")
      /\ [tx |-> NoTx, op |-> "reconnect"] \in Jobs
  BY DEF Reconnect, Quiet, Jobs
<1>2. /\ phase' = phase /\ sent' = sent /\ wire' = wire /\ detached' = detached
      /\ generation' = generation /\ status' = status /\ handle' = handle /\ attGeneration' = attGeneration
      /\ readOnly' = readOnly /\ server' = server
  BY DEF Reconnect, attVars, txVars
<1>3. /\ opChain' \in Seq(Jobs) /\ DOMAIN opChain' = {1} /\ opChain' # <<>>
      /\ opChain'[1].tx = NoTx /\ opChain'[1].op = "reconnect"
  BY <1>1, Enqueued DEF IInv
<1>4. phase' = "queued"
  BY <1>1, <1>2 DEF IInv, HeadFits
<1>5. TypeOK'
  BY <1>2, <1>3 DEF IInv, TypeOK
<1>6. JobsApart' /\ JobsFit'
  BY <1>3, AttachmentAssumption DEF JobsApart, JobsFit
<1>7. HeadFits'
  BY <1>1, <1>2, <1>4 DEF IInv, HeadFits, Awaiting
<1>8. Alive'
  <2>1. "reconnect" \notin Runs \cup Ends \cup Starts
    BY DEF Runs, Ends, Starts
  <2> QED
    BY <1>2, <1>3, <2>1 DEF IInv, Alive, NoTransactions
<1>9. NoLeak' /\ NoZombie'
  <2>1. \A s \in Txs : ~Ending(s) /\ ~Restarting(s)
    BY <1>1 DEF Ending, Restarting, Pending
  <2> QED
    BY <1>2, <2>1 DEF IInv, TypeOK, NoLeak, NoZombie, Active
<1> QED
  BY <1>5, <1>6, <1>7, <1>8, <1>9 DEF IInv

\* What was of the generation before is no longer active, and behind the reconnect
\* wait only Transactions that are not begun.
LEMMA ReattachKeeps ==
    ASSUME IInv, Reattach
    PROVE  IInv'
<1>1. /\ opChain # <<>> /\ phase = "queued" /\ Job.op = "reconnect"
      /\ generation' = generation + 1 /\ server' = NoTransactions /\ phase' \in {"lost", "sent"}
  BY DEF Reattach, Idle
<1>2. /\ opChain' = opChain /\ sent' = sent /\ wire' = wire /\ detached' = detached
      /\ status' = status /\ handle' = handle /\ attGeneration' = attGeneration /\ readOnly' = readOnly
  BY DEF Reattach, txVars
<1>3. generation < MaxGeneration /\ generation \in Nat /\ MaxGeneration \in Nat /\ sent = NoHandle
  BY <1>1, AttachmentAssumption DEF IInv, TypeOK, HeadFits
<1>4. \A s \in Txs : attGeneration[s] \in Nat /\ attGeneration[s] < generation' /\ attGeneration[s] <= generation'
  BY <1>1, <1>3, AttachmentAssumption DEF IInv, TypeOK, Alive
<1>5. \A i \in DOMAIN opChain : opChain[i].op \in {"start", "reconnect"}
  BY <1>1, JobsOfChain DEF IInv, JobsFit
<1>6. TypeOK'
  <2>1. generation' \in 0..MaxGeneration
    BY <1>1, <1>3
  <2> QED
    BY <1>1, <1>2, <2>1 DEF IInv, TypeOK, NoTransactions
<1>7. JobsApart' /\ JobsFit'
  BY <1>2, <1>5 DEF IInv, JobsApart, JobsFit
<1>8. HeadFits'
  BY <1>1, <1>2, <1>3, <1>4 DEF HeadFits, Awaiting, Job, NoTransactions
<1>9. Alive'
  <2>1. {"start", "reconnect"} \cap (Runs \cup Ends) = {}
    BY DEF Runs, Ends
  <2>2. \A i \in DOMAIN opChain : opChain[i].op = "start" => opChain[i].tx # NoTx
    BY JobsOfChain DEF IInv
  <2>3. "reconnect" \notin Starts
    BY DEF Starts
  <2> QED
    BY <1>1, <1>2, <1>4, <1>5, <2>1, <2>2, <2>3 DEF Alive, NoTransactions
<1>10. NoZombie'
  BY <1>1, <1>2, <1>3, <1>4 DEF NoZombie, Active
<1> QED
  BY <1>1, <1>6, <1>7, <1>8, <1>9, <1>10, NothingLeaks DEF IInv

\* A reconnect is over, one way or the other.
LEMMA ReattachedKeeps ==
    ASSUME IInv, Quiet, Reattached \/ AttachFails
    PROVE  IInv'
<1>1. opChain # <<>> /\ phase = "sent" /\ Job.op = "reconnect" /\ Done(<<>>)
  BY DEF Reattached, AttachFails, Awaiting
<1>2. /\ detached' = detached /\ generation' = generation /\ status' = status /\ handle' = handle
      /\ attGeneration' = attGeneration /\ readOnly' = readOnly /\ server' = server
  BY DEF Reattached, AttachFails, txVars
<1>3. wire' \in {"open", "error", "closed"} /\ server = NoTransactions /\ \A s \in Txs : attGeneration[s] < generation
  BY <1>1 DEF Reattached, AttachFails, Quiet, IInv, TypeOK, HeadFits
<1>4. /\ opChain' \in Seq(Jobs) /\ phase' = "queued" /\ sent' = NoHandle
      /\ \A k \in DOMAIN opChain' : opChain'[k] = opChain[k + 1] /\ k + 1 \in DOMAIN opChain
  BY <1>1, Over DEF IInv
<1>5. /\ JobsApart'
      /\ \A k \in DOMAIN opChain' : opChain'[k].op # "reconnect" /\ opChain'[k].tx \in Txs
  BY <1>1, <1>2, OverLeaves
<1>6. \A k \in DOMAIN opChain' : opChain'[k].op = "start"
  <2>1. \A i \in DOMAIN opChain : opChain[i].op \in {"start", "reconnect"}
    BY <1>1, JobsOfChain DEF IInv, JobsFit
  <2> QED
    BY <1>4, <1>5, <2>1
<1>7. TypeOK'
  BY <1>2, <1>3, <1>4 DEF IInv, TypeOK
<1>8. JobsFit'
  BY <1>2, <1>4, <1>5, <1>6 DEF IInv, JobsFit
<1>9. HeadFits'
  BY <1>4, <1>5, HeadOfRest, DoneFitsHead
<1>10. Alive'
  <2>1. "start" \notin Runs \cup Ends
    BY DEF Runs, Ends
  <2>2. \A k \in DOMAIN opChain' : opChain'[k].tx # NoTx
    BY <1>5, AttachmentAssumption
  <2> QED
    BY <1>2, <1>3, <1>6, <2>1, <2>2 DEF IInv, Alive, NoTransactions
<1>11. NoLeak' /\ NoZombie'
  <2>1. \A s \in Txs : attGeneration[s] # generation
    BY <1>3, AttachmentAssumption DEF IInv, TypeOK
  <2> QED
    BY <1>2, <1>3, <2>1, NothingLeaks DEF NoZombie, Active
<1> QED
  BY <1>5, <1>7, <1>8, <1>9, <1>10, <1>11 DEF IInv

-----------------------------------------------------------------------------
LEMMA InitIInv == Init => IInv
<1> SUFFICES ASSUME Init
             PROVE  IInv
  OBVIOUS
<1>1. TypeOK
  <2>1. <<>> \in Seq(Jobs) /\ 0 \in 0..MaxGeneration
    BY AttachmentAssumption
  <2>2. /\ status \in [Txs -> {"none", "starting", "active", "finished"}]
        /\ handle \in [Txs -> Handles \cup {NoHandle}] /\ readOnly \in [Txs -> BOOLEAN]
        /\ server \in [Handles -> Txs \cup {NoTx}]
    BY DEF Init
  <2>3. attGeneration \in [Txs -> 0..MaxGeneration]
    BY <2>1 DEF Init
  <2>4. \A t \in Txs : status[t] \notin {"active", "finished"}
    BY DEF Init
  <2> QED
    BY <2>1, <2>2, <2>3, <2>4 DEF Init, TypeOK
<1>2. JobsApart /\ JobsFit /\ HeadFits
  BY DEF Init, JobsApart, JobsFit, HeadFits, Awaiting
<1>3. NoLeak /\ NoZombie
  BY DEF Init, NoLeak, NoZombie, Active
<1>4. Alive
  BY DEF Init, Alive, NoTransactions
<1> QED
  BY <1>1, <1>2, <1>3, <1>4 DEF IInv

-----------------------------------------------------------------------------
(* Who runs statements is active or ends: Owned.                             *)

\* A call changes only the Transaction it is for, and no run is of one not begun.
LEMMA CallOwned ==
    ASSUME IInv, Owned, NEW t, NEW op, [tx |-> t, op |-> op] \in Jobs, Enqueue(t, op),
           op \in Runs => status'[t] = "active",
           \A s \in Txs \ {t} : status'[s] = status[s],
           t \in Txs => status'[t] = status[t] \/ op \in {"commit", "rollback"} \/ status[t] = "none"
    PROVE  Owned'
<1> DEFINE n == Len(opChain)
<1>1. /\ DOMAIN opChain' = 1..(n + 1) /\ DOMAIN opChain = 1..n /\ n \in Nat
      /\ \A k \in 1..n : opChain'[k] = opChain[k]
      /\ opChain'[n + 1].tx = t /\ opChain'[n + 1].op = op
  BY Enqueued, JobsOfChain DEF IInv
<1> HIDE DEF n
<1>2. \A s : (Ending(s) => Ending(s)') /\ (op \in {"commit", "rollback"} => Ending(t)')
  BY <1>1 DEF Ending, Pending
<1>3. ASSUME NEW k \in 1..n, opChain[k].op \in Runs, NEW s, s = opChain[k].tx
      PROVE  status'[s] = "active" \/ Ending(s)'
  <2>1. opChain[k].tx \in Txs /\ status[opChain[k].tx] # "none"
    BY <1>1, <1>3, JobsOfChain DEF IInv, JobsFit, Runs
  <2>2. status[opChain[k].tx] = "active" \/ Ending(opChain[k].tx)
    BY <1>1, <1>3 DEF Owned
  <2> QED
    BY <1>2, <1>3, <2>1, <2>2
<1>4. \A k \in 1..(n + 1) : k \in 1..n \/ k = n + 1
  BY <1>1
<1> QED
  BY <1>1, <1>3, <1>4 DEF Owned

\* The head is over: if it changes its Transaction, no job of that is left.
LEMMA OverOwned ==
    ASSUME IInv, Owned, opChain # <<>>, Done(<<>>), \A s \in Txs : readOnly'[s] => readOnly[s],
           \A s \in Txs : status'[s] = status[s] \/ (s = Job.tx /\ Job.op \in Single \cup Lasts)
    PROVE  Owned'
<1>1. \A k \in DOMAIN opChain' : opChain'[k] = opChain[k + 1] /\ k + 1 \in DOMAIN opChain
  BY Over DEF IInv
<1>2. \A k \in DOMAIN opChain' : /\ opChain'[k].tx \in Txs
                                 /\ Job.op \in Single \cup Lasts => opChain'[k].tx # Job.tx
  BY OverLeaves
<1>3. \A s : Ending(s) => Ending(s)' \/ (Job.tx = s /\ Job.op \in Lasts)
  <2>1. ASSUME NEW s
        PROVE  Pending(s, {"commit", "rollback"}) =>
                    Pending(s, {"commit", "rollback"})' \/ (Job.tx = s /\ Job.op \in {"commit", "rollback"})
    BY OverPending
  <2> QED
    BY <2>1 DEF Ending, Lasts
<1> QED
  BY <1>1, <1>2, <1>3 DEF Owned

\* The head goes on: it was the only job of its Transaction.
LEMMA GoesOnOwned ==
    ASSUME IInv, Owned, opChain # <<>>, NEW op, [tx |-> Job.tx, op |-> op] \in Jobs, Done(FollowUp(op)),
           Job.op \in Single \cup {"end"} \/ (Job.op \in Runs /\ readOnly[Job.tx]),
           op \notin {"reconnect"} \cup Lasts,
           \A s \in Txs : readOnly'[s] => readOnly[s],
           op \in Runs => status'[Job.tx] = "active",
           \A s \in Txs : status'[s] = status[s] \/ s = Job.tx
    PROVE  Owned'
<1>1. /\ DOMAIN opChain' = 1..Len(opChain) /\ Len(opChain) \in Nat
      /\ \A k \in 1..(Len(opChain) - 1) : opChain'[k] = opChain[k + 1] /\ k + 1 \in DOMAIN opChain
      /\ opChain'[Len(opChain)].tx = Job.tx /\ opChain'[Len(opChain)].op = op
  BY GoesOn, JobsOfChain DEF IInv
<1>2. /\ \A k \in DOMAIN opChain' : opChain'[k].tx \in Txs
      /\ \A k \in 1..(Len(opChain) - 1) : opChain'[k].tx # Job.tx
  BY GoesOnLeaves
<1>3. ASSUME NEW k \in 1..(Len(opChain) - 1), opChain'[k].op \in Runs, NEW s, s = opChain'[k].tx
      PROVE  status'[s] = "active" \/ Ending(s)'
  <2>1. /\ k + 1 \in DOMAIN opChain /\ opChain[k + 1] = opChain'[k] /\ k \in DOMAIN opChain'
    BY <1>1
  <2>2. s \in Txs \ {Job.tx}
    BY <1>2, <1>3, <2>1
  <2>3. status[s] = "active" \/ Ending(s)
    BY <1>3, <2>1 DEF Owned
  <2>4. s # Job.tx => (Pending(s, {"commit", "rollback"})' <=> Pending(s, {"commit", "rollback"}))
    BY GoesOnPending
  <2> QED
    BY <2>2, <2>3, <2>4 DEF Ending
<1>4. \A k \in 1..Len(opChain) : k \in 1..(Len(opChain) - 1) \/ k = Len(opChain)
  BY <1>1
<1> QED
  BY <1>1, <1>3, <1>4 DEF Owned

\* Neither the chain nor what is active changes.
LEMMA SameOwned ==
    ASSUME Owned, opChain' = opChain,
           \A s \in Txs : status'[s] = status[s] \/ \A k \in DOMAIN opChain : opChain[k].tx # s,
           \A k \in DOMAIN opChain : opChain[k].op \in Runs => opChain[k].tx \in Txs
    PROVE  Owned'
BY DEF Owned, Ending, Pending

LEMMA OwnedKeeps ==
    ASSUME IInv, Owned, [Next]_vars
    PROVE  Owned'
<1>0. \A k \in DOMAIN opChain : opChain[k].op \in Runs => opChain[k].tx \in Txs
  BY JobsOfChain DEF IInv, Runs
<1>1. ASSUME NEW t \in Txs, StartTransaction(t)
      PROVE  Owned'
  <2>1. /\ [tx |-> t, op |-> "start"] \in Jobs /\ "start" \notin Runs
        /\ \A s \in Txs \ {t} : status'[s] = status[s]
    BY <1>1 DEF StartTransaction, Jobs, Starts, Runs, IInv, TypeOK
  <2> QED
    BY <1>1, <2>1, CallOwned DEF StartTransaction
<1>2. ASSUME NEW t \in Txs, Run(t)
      PROVE  Owned'
  <2>1. [tx |-> t, op |-> "run"] \in Jobs
    BY DEF Jobs, Runs
  <2>2. Enqueue(t, "run") /\ status'[t] = "active" /\ status'[t] = status[t] /\ \A s \in Txs \ {t} : status'[s] = status[s]
    BY <1>2 DEF Run, Active, txVars
  <2> QED
    BY <2>1, <2>2, CallOwned
<1>3. ASSUME NEW t \in Txs, NEW op \in {"commit", "rollback"}, Finish(t, op)
      PROVE  Owned'
  <2>1. /\ [tx |-> t, op |-> op] \in Jobs /\ op \notin Runs
        /\ \A s \in Txs \ {t} : status'[s] = status[s]
    BY <1>3 DEF Finish, Jobs, Ends, Runs, IInv, TypeOK
  <2> QED
    BY <1>3, <2>1, CallOwned DEF Finish
<1>4. ASSUME NEW t \in Txs, Restart(t)
      PROVE  Owned'
  <2>1. PICK op \in {"end", "begin"} : Enqueue(t, op)
    BY <1>4 DEF Restart
  <2>2. [tx |-> t, op |-> op] \in Jobs /\ op \notin Runs
    BY DEF Jobs, Starts, Ends, Runs
  <2>3. status'[t] = status[t] /\ \A s \in Txs \ {t} : status'[s] = status[s]
    BY <1>4 DEF Restart, txVars
  <2> QED
    BY <2>1, <2>2, <2>3, CallOwned
<1>5. ASSUME NEW t \in Txs, Forget(t)
      PROVE  Owned'
  <2>1. /\ opChain' = opChain /\ \A k \in DOMAIN opChain : opChain[k].tx # t
        /\ \A s \in Txs \ {t} : status'[s] = status[s]
    BY <1>5 DEF Forget, IInv, TypeOK
  <2> QED
    BY <1>0, <2>1, SameOwned
<1>6. CASE Send \/ SendLost \/ Die \/ Reattach \/ Disconnect \/ UNCHANGED vars
  <2>1. opChain' = opChain /\ status' = status
    BY <1>6 DEF Send, SendLost, Die, Reattach, Disconnect, vars, txVars
  <2> QED
    BY <1>0, <2>1, SameOwned
<1>7. CASE Reconnect
  <2>1. [tx |-> NoTx, op |-> "reconnect"] \in Jobs /\ "reconnect" \notin Runs
    BY DEF Jobs, Runs
  <2>2. Enqueue(NoTx, "reconnect") /\ NoTx \notin Txs /\ \A s \in Txs \ {NoTx} : status'[s] = status[s]
    BY <1>7, AttachmentAssumption DEF Reconnect, txVars
  <2> QED
    BY <2>1, <2>2, CallOwned
<1>8. CASE Executed \/ Reattached \/ AttachFails
  <2>1. opChain # <<>> /\ Done(<<>>) /\ status' = status /\ readOnly' = readOnly
    BY <1>8 DEF Executed, Reattached, AttachFails, Awaiting, txVars
  <2> QED
    BY <2>1, OverOwned
<1>9. CASE Refused \/ Broken
  <2>1. /\ opChain # <<>> /\ Job.op # "reconnect" /\ Done(<<>>) /\ readOnly' = readOnly
        /\ status' = [status EXCEPT ![Job.tx] = StatusAfterError]
    BY <1>9 DEF Refused, Broken, JobFails, Idle, Awaiting
  <2>2. Job.op \notin Single \cup Lasts => StatusAfterError = status[Job.tx]
    BY DEF StatusAfterError, Single, Starts, Lasts
  <2>3. \A s \in Txs : status'[s] = status[s] \/ (s = Job.tx /\ Job.op \in Single \cup Lasts)
    BY <2>1, <2>2 DEF IInv, TypeOK
  <2> QED
    BY <2>1, <2>3, OverOwned
<1>10. CASE Started
  <2>1. /\ opChain # <<>> /\ Job.op \in Starts /\ Job.op \in Single /\ readOnly' = readOnly
        /\ status' = [status EXCEPT ![Job.tx] = "active"]
    BY <1>10 DEF Started, Awaiting, Single
  <2>2. Job.tx \in Txs
    BY <2>1, HeadOwner DEF Starts
  <2>3. status'[Job.tx] = "active" /\ \A s \in Txs : status'[s] = status[s] \/ s = Job.tx
    BY <2>1, <2>2 DEF IInv, TypeOK
  <2>4. CASE Done(<<>>)
    BY <2>1, <2>3, <2>4, OverOwned
  <2>5. CASE Done(FollowUp("replay"))
    <3>1. [tx |-> Job.tx, op |-> "replay"] \in Jobs /\ "replay" \notin {"reconnect"} \cup Lasts
      BY <2>2 DEF Jobs, Runs, Lasts
    <3> QED
      BY <2>1, <2>3, <2>5, <3>1, GoesOnOwned
  <2> QED
    BY <1>10, <2>4, <2>5 DEF Started
<1>11. CASE Upgrade
  <2>1. /\ opChain # <<>> /\ Job.op = "run" /\ readOnly[Job.tx] /\ Done(FollowUp("upgradeEnd"))
        /\ status' = status /\ readOnly' = readOnly
    BY <1>11 DEF Upgrade, Awaiting, txVars
  <2>2. /\ "run" \in Runs /\ "upgradeEnd" \notin Runs \cup {"reconnect"} \cup Lasts
    BY DEF Runs, Lasts
  <2>3. [tx |-> Job.tx, op |-> "upgradeEnd"] \in Jobs
    BY <2>1, HeadOwner DEF Jobs, Ends
  <2> QED
    BY <2>1, <2>2, <2>3, GoesOnOwned
<1>12. CASE Ended
  <2>1. opChain # <<>> /\ Job.op \in Ends /\ status' = status
    BY <1>12 DEF Ended, Awaiting
  <2>2. Job.tx \in Txs
    BY <2>1, HeadOwner DEF Ends
  <2>3. \A s \in Txs : readOnly'[s] => readOnly[s]
    BY <1>12, <2>2 DEF Ended, IInv, TypeOK
  <2>4. CASE Job.op \in {"commit", "rollback"}
    <3>1. Done(<<>>)
      BY <1>12, <2>4 DEF Ended
    <3> QED
      BY <2>1, <2>3, <3>1, OverOwned
  <2>5. CASE Job.op = "end"
    <3>1. Done(FollowUp("begin")) /\ "begin" \notin {"reconnect"} \cup Lasts \cup Runs /\ [tx |-> Job.tx, op |-> "begin"] \in Jobs
      BY <1>12, <2>2, <2>5 DEF Ended, Lasts, Runs, Jobs, Starts
    <3> QED
      BY <2>1, <2>3, <2>5, <3>1, GoesOnOwned
  <2>6. CASE Job.op = "upgradeEnd"
    <3>1. /\ Done(FollowUp("upgradeBegin")) /\ "upgradeBegin" \notin {"reconnect"} \cup Lasts \cup Runs
          /\ [tx |-> Job.tx, op |-> "upgradeBegin"] \in Jobs /\ "upgradeEnd" \in Single
      BY <1>12, <2>2, <2>6 DEF Ended, Lasts, Runs, Jobs, Starts, Single
    <3> QED
      BY <2>1, <2>3, <2>6, <3>1, GoesOnOwned
  <2> QED
    BY <2>1, <2>4, <2>5, <2>6 DEF Ends
<1> QED
  BY <1>1, <1>2, <1>3, <1>4, <1>5, <1>6, <1>7, <1>8, <1>9, <1>10, <1>11, <1>12 DEF Next, Reply, Commit, Rollback

-----------------------------------------------------------------------------
LEMMA StutterKeeps ==
    ASSUME IInv, UNCHANGED vars
    PROVE  IInv'
<1>1. /\ opChain' = opChain /\ phase' = phase /\ sent' = sent /\ wire' = wire
      /\ detached' = detached /\ generation' = generation /\ status' = status /\ handle' = handle
      /\ attGeneration' = attGeneration /\ readOnly' = readOnly /\ server' = server
  BY DEF vars, attVars, txVars
<1>2. TypeOK' /\ JobsApart' /\ JobsFit'
  BY <1>1 DEF IInv, TypeOK, JobsApart, JobsFit
<1>3. HeadFits' /\ Alive'
  BY <1>1 DEF IInv, HeadFits, Awaiting, Job, Alive, AliveAt, NoTransactions
<1>4. NoLeak' /\ NoZombie'
  BY <1>1 DEF IInv, NoLeak, NoZombie, Active, Ending, Restarting, Pending
<1> QED
  BY <1>2, <1>3, <1>4 DEF IInv

LEMMA StepKeeps ==
    ASSUME Quiet, IInv, Owned, [Next]_vars
    PROVE  IInv' /\ Owned'
<1>1. ASSUME NEW t \in Txs,
             StartTransaction(t) \/ Run(t) \/ Commit(t) \/ Rollback(t) \/ Restart(t) \/ Forget(t)
      PROVE  IInv'
  BY <1>1, StartTransactionKeeps, RunKeeps, FinishKeeps, RestartKeeps, ForgetKeeps DEF Commit, Rollback
<1>2. ASSUME Send \/ SendLost \/ Broken
      PROVE  IInv'
  BY <1>2, SendKeeps, BrokenKeeps
<1>3. ASSUME Reply
      PROVE  IInv'
  BY <1>3, StartedKeeps, ExecutedKeeps, UpgradeKeeps, EndedKeeps, RefusedKeeps, ReattachedKeeps DEF Reply
<1>4. ASSUME Die \/ Reconnect \/ Reattach \/ Disconnect
      PROVE  IInv'
  BY <1>4, DieKeeps, ReconnectKeeps, ReattachKeeps, DisconnectKeeps
<1>5. ASSUME UNCHANGED vars
      PROVE  IInv'
  BY <1>5, StutterKeeps
<1> QED
  BY <1>1, <1>2, <1>3, <1>4, <1>5, OwnedKeeps DEF Next

LEMMA Invariance == Quiet => (Spec => []IInv)
<1> SUFFICES ASSUME Quiet
             PROVE  Spec => []IInv
  OBVIOUS
<1>1. IInv /\ Owned /\ [Next]_vars => IInv' /\ Owned'
  BY StepKeeps
<1>2. Init => IInv /\ Owned
  BY InitIInv DEF Init, Owned
<1> QED
  BY <1>1, <1>2, PTL DEF Spec

\* Server and objects agree (ServerAgrees): no transaction stays open that no object
\* can end, and what an object takes for active is alive, whatever is refused,
\* upgraded, restarted or lost, with any number of Transactions and handles.
THEOREM Agreement == Quiet => (Spec => []ServerAgrees)
<1>1. IInv => ServerAgrees
  BY DEF IInv, ServerAgrees
<1> QED
  BY <1>1, Invariance, PTL

\* Every job sends the handle of its own Transaction, alive (OwnTransaction), although
\* it reads it long after its call was checked.
THEOREM JobsOwnTransaction == Quiet => (Spec => []OwnTransaction)
<1>1. ASSUME IInv, Awaiting, wire = "open", sent # NoHandle
      PROVE  server[sent] = Job.tx
  <2>1. opChain # <<>> /\ Job.op \notin Starts \cup {"reconnect"} /\ sent = handle[Job.tx]
    BY <1>1 DEF IInv, HeadFits, Awaiting
  <2>2. Job.op \in Runs \cup Ends
    BY <1>1, <2>1, JobsOfChain DEF IInv
  <2> QED
    BY <1>1, <2>1, <2>2, HeadOwner DEF AliveAt
<1>2. IInv => OwnTransaction
  BY <1>1 DEF OwnTransaction
<1> QED
  BY <1>2, Invariance, PTL
=============================================================================
