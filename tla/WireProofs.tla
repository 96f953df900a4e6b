----------------------------- MODULE WireProofs -----------------------------
(***************************************************************************)
(* Proofs about Wire, for any operations, packets, failures and bounds.    *)
(***************************************************************************)
EXTENDS Wire, SequenceTheorems, TLAPS

\* An answer is one its reader knows, or an error.
Sane(x) == Answered(x) => x.state \in Accepted(x.op) \cup {"error"}

\* The server answers in order.
InTurn == \A k \in DOMAIN pipe : Answered(pipe[k]) => \A j \in 1..(k - 1) : Answered(pipe[j])

Base ==
    /\ TypeOK
    /\ Len(expect) <= 2
    /\ \A k \in DOMAIN pipe : Sane(pipe[k])
    /\ InTurn

\* What the counter covers: lazy frees, and what rode behind a failed execute.
Left(x) == \/ x.op = "free" /\ x.place = 1
           \/ x.op \in {"fetch", "info"} /\ x.place = 2

Order ==
    /\ Len(pipe) = deferred + Len(expect)
    /\ \A k \in 1..deferred : Left(pipe[k]) /\ \A j \in DOMAIN expect : pipe[k].id # expect[j].id
    /\ \A k \in DOMAIN expect : RequestOf(pipe[deferred + k]) = expect[k] /\ expect[k].op # "free"
    /\ Len(expect) = 2 =>
        /\ expect[1].op \in {"allocate", "execute", "execute2"}
        /\ expect[1].op # "allocate" => expect[2].op \in {"fetch", "info"}
        /\ pipe[deferred + 2].place = 2

\* A request behind one that failed fails too: its answer is an error already,
\* or the server's last answer was the one it depends on.
Behind(k) == pipe[k].place > 1 /\ (k <= deferred \/ (k > 1 /\ pipe[k - 1].state = "error"))
Fails(k) ==
    /\ \A j \in 1..(k - 1) : Answered(pipe[j])
    /\ Answered(pipe[k]) => pipe[k].state = "error"
    /\ ~Answered(pipe[k]) => failed
Fated == \A k \in DOMAIN pipe : Behind(k) => Fails(k)

InStep == ~slipped /\ (up \/ expect # <<>>) => Order /\ Fated

WireInv == Base /\ InStep

-----------------------------------------------------------------------------
LEMMA PacketShape ==
    ASSUME NEW p \in Packets
    PROVE  /\ Len(p) \in 1..2 /\ DOMAIN p = 1..Len(p) /\ p # <<>> /\ Head(p) = p[1]
           /\ \A k \in DOMAIN p : p[k] \in Ops \ {"free"}
           /\ Len(p) = 2 => /\ p[1] \in {"allocate", "execute", "execute2"}
                            /\ p[1] # "allocate" => p[2] \in {"fetch", "info"}
<1>1. p \in AllPackets
  BY WireAssumption
<1> QED
  BY <1>1 DEF AllPackets, Ops

LEMMA TailOf ==
    ASSUME NEW S, NEW s \in Seq(S), s # <<>>
    PROVE  /\ Tail(s) \in Seq(S) /\ Len(Tail(s)) = Len(s) - 1 /\ Head(s) = s[1] /\ Head(s) \in S
           /\ DOMAIN s = 1..Len(s) /\ Len(s) \in Nat \ {0}
           /\ DOMAIN Tail(s) = 1..(Len(s) - 1)
           /\ \A k \in 1..(Len(s) - 1) : Tail(s)[k] = s[k + 1]
OBVIOUS

LEMMA FlushedShape ==
    ASSUME TypeOK
    PROVE  /\ Flushed \in Seq(Entries) /\ Len(Flushed) = Len(pipe)
           /\ \A k \in DOMAIN pipe :
                /\ Flushed[k].id = pipe[k].id /\ Flushed[k].op = pipe[k].op
                /\ Flushed[k].place = pipe[k].place
                /\ Answered(Flushed[k]) <=> Answered(pipe[k])
                /\ Answered(pipe[k]) => Flushed[k] = pipe[k]
                /\ Flushed[k].state = "error" <=> pipe[k].state = "error"
<1>1. pipe \in Seq(Entries) /\ DOMAIN pipe = 1..Len(pipe) /\ Len(pipe) \in Nat
  BY DEF TypeOK
<1>2. ASSUME NEW k \in DOMAIN pipe
      PROVE  /\ Flushed[k] \in Entries
             /\ Flushed[k].id = pipe[k].id /\ Flushed[k].op = pipe[k].op
             /\ Flushed[k].place = pipe[k].place
             /\ Answered(Flushed[k]) <=> Answered(pipe[k])
             /\ Answered(pipe[k]) => Flushed[k] = pipe[k]
             /\ Flushed[k].state = "error" <=> pipe[k].state = "error"
  <2>1. pipe[k] \in Entries
    BY <1>1
  <2>2. [pipe[k] EXCEPT !.state = "sent"] \in Entries
    BY <2>1 DEF Entries, States
  <2>3. Flushed[k] = IF pipe[k].state = "written" THEN [pipe[k] EXCEPT !.state = "sent"] ELSE pipe[k]
    BY DEF Flushed
  <2> QED
    BY <2>1, <2>2, <2>3 DEF Entries, Answered
<1>3. Flushed \in Seq(Entries) /\ Len(Flushed) = Len(pipe)
  <2>1. Flushed = [k \in 1..Len(pipe) |-> Flushed[k]]
    BY <1>1 DEF Flushed
  <2> HIDE DEF Flushed
  <2> QED
    BY <1>1, <1>2, <2>1
<1> QED
  BY <1>2, <1>3

LEMMA NewIdUnused ==
    ASSUME Unused # {}
    PROVE  /\ NewId \in Ids
           /\ \A k \in DOMAIN pipe : pipe[k].id # NewId
BY DEF NewId, Unused

\* The invariant reads only these.
LEMMA Untouched ==
    ASSUME WireInv, TypeOK', UNCHANGED <<pipe, deferred, expect, up, failed, slipped>>
    PROVE  WireInv'
BY DEF WireInv, Base, InTurn, InStep, Order, Left, Fated, Behind, Fails, Sane, Answered,
       RequestOf, Accepted

-----------------------------------------------------------------------------
(* Sending. *)

LEMMA SendStep ==
    ASSUME WireInv, NEW p \in Packets, Send(p)
    PROVE  WireInv'
<1>0. PICK m \in 1..2 : Len(p) = m /\ DOMAIN p = 1..m /\ \A k \in 1..m : p[k] \in Ops \ {"free"}
  BY PacketShape
<1> DEFINE n == Len(pipe)
           new == [k \in DOMAIN p |-> [id |-> NewId, op |-> p[k], state |-> "sent", place |-> k]]
<1>1. /\ TypeOK /\ up /\ up' = up /\ deferred' = deferred /\ expect = <<>> /\ Len(expect) = 0
      /\ pipe' = Flushed \o new /\ NewId \in Ids /\ deferred \in Nat /\ n \in Nat
      /\ expect' = [k \in DOMAIN p |-> [id |-> NewId, op |-> p[k]]]
      /\ chain' = chain /\ answer' = NoAnswer /\ failed' = failed /\ slipped' = slipped
      /\ \A k \in DOMAIN pipe : pipe[k].id # NewId
  BY NewIdUnused DEF WireInv, Base, TypeOK, Send, Running
<1>2. /\ m \in 1..2 /\ m \in Nat /\ Len(p) = m /\ DOMAIN p = 1..m
      /\ \A k \in 1..m : p[k] \in Ops \ {"free"}
  BY <1>0
<1>3. m = 2 => /\ p[1] \in {"allocate", "execute", "execute2"}
               /\ p[1] # "allocate" => p[2] \in {"fetch", "info"}
  BY <1>2, PacketShape
<1>4. new \in Seq(Entries) /\ Len(new) = m
  <2>1. \A k \in 1..m : [id |-> NewId, op |-> p[k], state |-> "sent", place |-> k] \in Entries
    BY <1>1, <1>2 DEF Entries, States
  <2> QED
    BY <1>2, <2>1
<1>5. expect' \in Seq(Requests) /\ Len(expect') = m /\ DOMAIN expect' = 1..m
  <2>1. \A k \in 1..m : [id |-> NewId, op |-> p[k]] \in Requests
    BY <1>1, <1>2 DEF Requests
  <2> QED
    BY <1>1, <1>2, <2>1
<1>6. /\ pipe' \in Seq(Entries) /\ Len(pipe') = n + m /\ DOMAIN pipe' = 1..(n + m)
      /\ DOMAIN pipe = 1..n
      /\ \A k \in 1..n : pipe'[k] = Flushed[k]
      /\ \A k \in 1..m : pipe'[n + k] = new[k]
  <2>1. DOMAIN pipe = 1..n
    BY <1>1 DEF TypeOK
  <2> HIDE DEF new
  <2> QED
    BY <1>1, <1>2, <1>4, <2>1, FlushedShape, ConcatProperties
<1>7. \A k \in 1..m : pipe'[n + k] = [id |-> NewId, op |-> p[k], state |-> "sent", place |-> k]
  BY <1>2, <1>6
<1>8. ASSUME NEW k \in 1..n
      PROVE  /\ pipe'[k].id = pipe[k].id /\ pipe'[k].op = pipe[k].op
             /\ pipe'[k].place = pipe[k].place
             /\ Answered(pipe'[k]) <=> Answered(pipe[k])
             /\ Answered(pipe[k]) => pipe'[k] = pipe[k]
             /\ pipe'[k].state = "error" <=> pipe[k].state = "error"
  <2>1. pipe'[k] = Flushed[k] /\ k \in DOMAIN pipe
    BY <1>6
  <2> HIDE DEF n, new
  <2> QED
    BY <1>1, <2>1, FlushedShape
<1> HIDE DEF n, new
<1>9. ASSUME NEW k \in DOMAIN pipe', k \notin 1..n
      PROVE  /\ k - n \in 1..m /\ k = n + (k - n) /\ ~Answered(pipe'[k])
             /\ pipe'[k].place = k - n /\ pipe'[k].state = "sent"
  <2>1. k - n \in 1..m /\ k = n + (k - n)
    BY <1>1, <1>2, <1>6, <1>9
  <2>2. pipe'[n + (k - n)] = [id |-> NewId, op |-> p[k - n], state |-> "sent", place |-> k - n]
    BY <1>7, <2>1
  <2> QED
    BY <2>1, <2>2 DEF Answered
<1>10. TypeOK'
  BY <1>1, <1>5, <1>6 DEF TypeOK
<1>11. \A k \in DOMAIN pipe' : Sane(pipe'[k])
  <2> SUFFICES ASSUME NEW k \in DOMAIN pipe', Answered(pipe'[k]) PROVE Sane(pipe'[k])
    BY DEF Sane
  <2>1. k \in 1..n
    BY <1>9
  <2> QED
    BY <1>6, <1>8, <2>1 DEF WireInv, Base
<1>12. InTurn'
  <2> SUFFICES ASSUME NEW k \in DOMAIN pipe', Answered(pipe'[k]), NEW j \in 1..(k - 1)
               PROVE  Answered(pipe'[j])
    BY DEF InTurn, Answered
  <2>1. k \in 1..n
    BY <1>9
  <2>2. Answered(pipe[k]) /\ j \in 1..n
    BY <1>1, <1>8, <2>1
  <2>3. Answered(pipe[j])
    BY <1>6, <2>1, <2>2 DEF WireInv, Base, InTurn
  <2> QED
    BY <1>8, <2>2, <2>3
<1>13. ASSUME ~slipped PROVE Order' /\ Fated'
  <2>1. n = deferred /\ (\A k \in 1..n : Left(pipe[k])) /\ Fated
    <3>1. Order /\ Fated
      BY <1>1, <1>13 DEF WireInv, InStep
    <3>2. n = deferred + 0
      BY <1>1, <3>1 DEF Order, n
    <3> QED
      BY <1>1, <3>1, <3>2 DEF Order
  <2>2. Len(pipe') = deferred' + Len(expect')
    BY <1>1, <1>5, <1>6, <2>1
  <2>3. ASSUME NEW k \in 1..deferred'
        PROVE  Left(pipe'[k]) /\ \A j \in DOMAIN expect' : pipe'[k].id # expect'[j].id
    <3>1. k \in 1..n /\ k \in DOMAIN pipe
      BY <1>1, <1>6, <2>1
    <3>2. \A j \in DOMAIN expect' : expect'[j].id = NewId
      BY <1>1
    <3>3. pipe'[k].id = pipe[k].id /\ pipe'[k].op = pipe[k].op /\ pipe'[k].place = pipe[k].place
      BY <1>8, <3>1
    <3>4. Left(pipe[k])
      BY <2>1, <3>1
    <3>5. Left(pipe'[k])
      BY <3>3, <3>4 DEF Left
    <3> QED
      BY <1>1, <3>1, <3>2, <3>3, <3>5
  <2>4. ASSUME NEW k \in DOMAIN expect'
        PROVE  RequestOf(pipe'[deferred' + k]) = expect'[k] /\ expect'[k].op # "free"
    <3>1. k \in 1..m /\ deferred' + k = n + k
      BY <1>1, <1>5, <2>1
    <3>2. expect'[k] = [id |-> NewId, op |-> p[k]] /\ p[k] # "free"
      BY <1>1, <1>2, <3>1
    <3>3. pipe'[deferred' + k] = [id |-> NewId, op |-> p[k], state |-> "sent", place |-> k]
      BY <1>7, <3>1
    <3> QED
      BY <3>2, <3>3 DEF RequestOf
  <2>5. ASSUME Len(expect') = 2
        PROVE  /\ expect'[1].op \in {"allocate", "execute", "execute2"}
               /\ expect'[1].op # "allocate" => expect'[2].op \in {"fetch", "info"}
               /\ pipe'[deferred' + 2].place = 2
    <3>1. m = 2 /\ deferred' + 2 = n + 2
      BY <1>1, <1>5, <2>1, <2>5
    <3>2. expect'[1].op = p[1] /\ expect'[2].op = p[2]
      BY <1>1, <1>2, <3>1
    <3>3. pipe'[n + 2].place = 2
      BY <1>7, <3>1
    <3> QED
      BY <1>3, <3>1, <3>2, <3>3
  <2>6. Order'
    BY <2>2, <2>3, <2>4, <2>5 DEF Order, Left, RequestOf
  <2>7. ASSUME NEW k \in DOMAIN pipe', Behind(k)' PROVE Fails(k)'
    <3>1. CASE k \in 1..n
      <4>1. Behind(k)
        <5>1. k > 1 => k - 1 \in 1..n
          BY <1>1, <3>1
        <5> QED
          BY <1>1, <1>8, <2>7, <3>1, <5>1 DEF Behind
      <4>2. Fails(k)
        BY <1>6, <2>1, <3>1, <4>1 DEF Fated
      <4>3. \A j \in 1..(k - 1) : j \in 1..n
        BY <1>1, <3>1
      <4> QED
        BY <1>1, <1>8, <3>1, <4>2, <4>3 DEF Fails, Answered
    <3>2. CASE k \notin 1..n
      <4>1. k - n \in 1..m /\ pipe'[k].place = k - n /\ k \in Nat
        BY <1>6, <1>9, <3>2
      <4>2. pipe'[k].place > 1 /\ (k <= n \/ pipe'[k - 1].state = "error")
        BY <1>1, <2>1, <2>7 DEF Behind
      <4>3. k = n + 2 /\ m = 2
        BY <1>1, <1>2, <4>1, <4>2
      <4>4. pipe'[n + 1].state = "sent" /\ k - 1 = n + 1 /\ ~(k <= n)
        BY <1>1, <1>7, <4>3
      <4> QED
        BY <4>2, <4>4
    <3> QED
      BY <3>1, <3>2
  <2> QED
    BY <2>6, <2>7 DEF Fated
<1> QED
  BY <1>1, <1>2, <1>5, <1>10, <1>11, <1>12, <1>13 DEF WireInv, Base, InStep, Sane, Answered, Accepted

LEMMA FreeStep ==
    ASSUME WireInv, Free, slipped' \in BOOLEAN, ~slipped' => ~slipped /\ expect = <<>>
    PROVE  WireInv'
<1> DEFINE n == Len(pipe)
           x == [id |-> NewId, op |-> "free", state |-> "written", place |-> 1]
<1>1. /\ TypeOK /\ expect' = expect /\ up' = up /\ failed' = failed
      /\ deferred' = deferred + 1 /\ deferred \in Nat /\ n \in Nat /\ DOMAIN pipe = 1..n
      /\ pipe' = Append(pipe, x) /\ NewId \in Ids
      /\ chain' = chain /\ answer' = answer
  BY NewIdUnused DEF WireInv, Base, TypeOK, Free
<1>2. x \in Entries
  BY <1>1 DEF Entries, States, Ops
<1>3. /\ pipe' \in Seq(Entries) /\ Len(pipe') = n + 1 /\ DOMAIN pipe' = 1..(n + 1)
      /\ \A k \in 1..n : pipe'[k] = pipe[k]
      /\ pipe'[n + 1] = x
  BY <1>1, <1>2 DEF TypeOK
<1>5. Left(x) /\ Sane(x) /\ ~Answered(x) /\ x.place = 1
  BY DEF Left, Sane, Answered
<1> HIDE DEF x, n
<1>6. \A k \in 1..(n + 1) : k \in 1..n \/ k = n + 1
  BY <1>1
<1>7. \A k \in DOMAIN pipe' : Sane(pipe'[k])
  BY <1>1, <1>3, <1>5, <1>6 DEF WireInv, Base
<1>8. InTurn'
  <2> SUFFICES ASSUME NEW k \in DOMAIN pipe', Answered(pipe'[k]), NEW j \in 1..(k - 1)
               PROVE  Answered(pipe'[j])
    BY DEF InTurn, Answered
  <2>1. k \in 1..n
    BY <1>3, <1>5, <1>6
  <2>2. j \in 1..n
    BY <1>1, <2>1
  <2> QED
    BY <1>1, <1>3, <2>1, <2>2 DEF WireInv, Base, InTurn
<1>9. ASSUME ~slipped', up PROVE Order' /\ Fated'
  <2>1. ~slipped /\ expect = <<>> /\ expect' = <<>> /\ Len(expect) = 0 /\ DOMAIN expect = {}
    BY <1>1, <1>9
  <2>2. n = deferred /\ (\A k \in 1..n : Left(pipe[k])) /\ Fated
    <3>1. Order /\ Fated
      BY <1>9, <2>1 DEF WireInv, InStep
    <3>2. n = deferred + 0
      BY <2>1, <3>1 DEF Order, n
    <3> QED
      BY <1>1, <3>1, <3>2 DEF Order
  <2>3. Order'
    <3>1. \A k \in 1..deferred' : Left(pipe'[k])
      BY <1>1, <1>3, <1>5, <1>6, <2>2
    <3> QED
      BY <1>1, <1>3, <2>1, <2>2, <3>1 DEF Order, Left, RequestOf
  <2>4. ASSUME NEW k \in DOMAIN pipe', Behind(k)' PROVE Fails(k)'
    <3>1. k # n + 1
      BY <1>3, <1>5, <2>4 DEF Behind
    <3>2. k \in 1..n /\ (k > 1 => k - 1 \in 1..n) /\ \A j \in 1..(k - 1) : j \in 1..n
      BY <1>1, <1>3, <3>1
    <3>3. Behind(k)
      BY <1>3, <2>2, <2>4, <3>2 DEF Behind
    <3>4. Fails(k)
      BY <1>1, <2>2, <3>2, <3>3 DEF Fated
    <3> QED
      BY <1>1, <1>3, <3>2, <3>4 DEF Fails, Answered
  <2> QED
    BY <2>3, <2>4 DEF Fated
<1>10. TypeOK'
  BY <1>1, <1>3 DEF TypeOK
<1>11. Base'
  BY <1>1, <1>7, <1>8, <1>10 DEF WireInv, Base, Sane, Answered, Accepted
<1>12. InStep'
  BY <1>1, <1>9 DEF InStep
<1> QED
  BY <1>11, <1>12 DEF WireInv

-----------------------------------------------------------------------------
(* Answers. *)

\* A request gets its answer, or what is left of its answer is s.
LEMMA AnswerStep ==
    ASSUME WireInv, NEW k \in DOMAIN pipe, NEW s \in States \ {"written", "sent"},
           s \in Accepted(pipe[k].op) \cup {"error"},
           pipe' = [pipe EXCEPT ![k].state = s],
           \A j \in 1..(k - 1) : Answered(pipe[j]),
           \/ /\ ~Answered(pipe[k]) /\ failed' = (s = "error")
              /\ pipe[k].place > 1 /\ failed => s = "error"
           \/ pipe[k].state = "row" /\ s = "ok" /\ k = 1 /\ failed' = failed,
           UNCHANGED <<chain, deferred, expect, answer, up, slipped>>
    PROVE  WireInv'
<1>1. TypeOK /\ pipe \in Seq(Entries) /\ pipe[k] \in Entries /\ k \in Nat /\ deferred \in Nat
  BY DEF WireInv, Base, TypeOK
<1>2. /\ pipe' \in Seq(Entries) /\ Len(pipe') = Len(pipe) /\ DOMAIN pipe' = DOMAIN pipe
      /\ DOMAIN pipe = 1..Len(pipe) /\ Len(pipe) \in Nat
      /\ pipe'[k] = [pipe[k] EXCEPT !.state = s]
      /\ \A j \in DOMAIN pipe : j # k => pipe'[j] = pipe[j]
  <2>1. [pipe[k] EXCEPT !.state = s] \in Entries
    BY <1>1 DEF Entries
  <2> QED
    BY <1>1, <2>1
<1>3. /\ pipe'[k].op = pipe[k].op /\ pipe'[k].id = pipe[k].id
      /\ pipe'[k].place = pipe[k].place /\ pipe'[k].state = s /\ Answered(pipe'[k])
  BY <1>1, <1>2 DEF Entries, Answered
<1>4. TypeOK'
  <2>1. failed' \in BOOLEAN
    BY <1>1 DEF TypeOK
  <2> QED
    BY <1>1, <1>2, <2>1 DEF TypeOK
<1>5. ASSUME NEW j \in DOMAIN pipe' PROVE Sane(pipe'[j])
  <2>1. CASE j = k
    BY <1>3, <2>1 DEF Sane
  <2>2. CASE j # k
    BY <1>2, <2>2 DEF WireInv, Base
  <2> QED
    BY <2>1, <2>2
<1>6. \A j \in DOMAIN pipe : /\ pipe'[j].op = pipe[j].op /\ pipe'[j].id = pipe[j].id
                             /\ pipe'[j].place = pipe[j].place
                             /\ Answered(pipe[j]) => Answered(pipe'[j])
  BY <1>2, <1>3
<1>7. \A j \in DOMAIN pipe : \A i \in 1..(j - 1) : i \in DOMAIN pipe
  BY <1>2
<1>8. InTurn'
  <2> SUFFICES ASSUME NEW j \in DOMAIN pipe, Answered(pipe'[j]), NEW i \in 1..(j - 1)
               PROVE  Answered(pipe'[i])
    BY <1>2 DEF InTurn, Answered
  <2>1. CASE j = k
    BY <1>6, <1>7, <2>1
  <2>2. CASE j # k
    BY <1>2, <1>6, <1>7, <2>2 DEF WireInv, Base, InTurn
  <2> QED
    BY <2>1, <2>2
<1>9. ASSUME ~slipped, up \/ expect # <<>> PROVE Order'
  <2>1. Order
    BY <1>9 DEF WireInv, InStep
  <2>2. /\ Len(expect) \in Nat /\ DOMAIN expect = 1..Len(expect)
        /\ Len(pipe) = deferred + Len(expect)
    BY <1>1, <2>1 DEF TypeOK, Order
  <2>3. /\ \A j \in 1..deferred : j \in DOMAIN pipe
        /\ \A j \in DOMAIN expect : deferred + j \in DOMAIN pipe
        /\ Len(expect) = 2 => deferred + 2 \in DOMAIN pipe
    <3>1. PICK n \in Nat : n = Len(expect)
      BY <2>2
    <3>2. DOMAIN pipe = 1..(deferred + n) /\ DOMAIN expect = 1..n /\ n \in Nat
      BY <1>2, <2>2, <3>1
    <3>3. \A j \in 1..deferred : j \in 1..(deferred + n)
      BY <1>1, <3>2
    <3>4. \A j \in 1..n : deferred + j \in 1..(deferred + n)
      BY <1>1, <3>2
    <3>5. n = 2 => deferred + 2 \in 1..(deferred + n)
      BY <1>1
    <3> QED
      BY <3>1, <3>2, <3>3, <3>4, <3>5
  <2>4. ASSUME NEW j \in 1..deferred
        PROVE  Left(pipe'[j]) /\ \A i \in DOMAIN expect : pipe'[j].id # expect[i].id
    BY <1>6, <2>1, <2>3 DEF Order, Left
  <2>5. ASSUME NEW j \in DOMAIN expect
        PROVE  RequestOf(pipe'[deferred + j]) = expect[j] /\ expect[j].op # "free"
    BY <1>6, <2>1, <2>3 DEF Order, RequestOf
  <2>6. ASSUME Len(expect) = 2
        PROVE  /\ expect[1].op \in {"allocate", "execute", "execute2"}
               /\ expect[1].op # "allocate" => expect[2].op \in {"fetch", "info"}
               /\ pipe'[deferred + 2].place = 2
    BY <1>6, <2>1, <2>3, <2>6 DEF Order
  <2> QED
    BY <1>2, <2>2, <2>4, <2>5, <2>6 DEF Order, Left, RequestOf
<1>10. ASSUME ~slipped, up \/ expect # <<>>, NEW m \in DOMAIN pipe, Behind(m)' PROVE Fails(m)'
  <2>1. Fated
    BY <1>10 DEF WireInv, InStep
  <2>2. /\ pipe[m].place > 1 /\ (m <= deferred \/ (m > 1 /\ pipe'[m - 1].state = "error"))
        /\ m \in Nat /\ (m > 1 => m - 1 \in DOMAIN pipe)
    BY <1>2, <1>6, <1>10 DEF Behind
  <2>3. ASSUME Fails(m) PROVE \A j \in 1..(m - 1) : Answered(pipe'[j])
    BY <1>6, <1>7, <2>3 DEF Fails
  <2>4. CASE ~Answered(pipe[k])
    <3>1. CASE Behind(m)
      <4>1. Fails(m)
        BY <2>1, <3>1 DEF Fated
      <4>2. CASE Answered(pipe[m])
        <5>1. pipe'[m] = pipe[m] /\ pipe'[m].state = "error"
          BY <1>2, <2>4, <4>1, <4>2 DEF Fails
        <5> QED
          BY <2>3, <4>1, <4>2, <5>1 DEF Fails, Answered
      <4>3. CASE ~Answered(pipe[m])
        <5>1. ~(k < m) /\ ~(m < k)
          <6>1. k < m => k \in 1..(m - 1)
            BY <1>2
          <6>2. m < k => m \in 1..(k - 1)
            BY <1>2
          <6> QED
            BY <2>4, <4>1, <4>3, <6>1, <6>2 DEF Fails
        <5>2. m = k
          BY <1>1, <2>2, <5>1
        <5>3. s = "error"
          BY <2>2, <2>4, <4>1, <4>3, <5>2 DEF Fails, Answered
        <5> QED
          BY <1>3, <2>3, <4>1, <5>2, <5>3 DEF Fails, Answered
      <4> QED
        BY <4>2, <4>3
    <3>2. CASE ~Behind(m)
      <4>1. m > 1 /\ pipe'[m - 1].state = "error" /\ pipe[m - 1].state # "error"
        BY <2>2, <3>2 DEF Behind
      <4>2. m - 1 = k
        BY <1>2, <2>2, <4>1
      <4>0. m # k /\ k \in 1..(m - 1)
        BY <1>1, <2>2, <4>2
      <4>a. s = "error"
        BY <1>3, <4>1, <4>2
      <4>b. failed'
        BY <2>4, <4>a DEF Answered
      <4>3. m # k /\ k \in 1..(m - 1) /\ s = "error" /\ failed'
        BY <4>0, <4>a, <4>b
      <4>4. ~Answered(pipe[m])
        BY <2>4, <4>3 DEF WireInv, Base, InTurn
      <4>5. ~Answered(pipe'[m])
        BY <1>2, <4>3, <4>4
      <4>6. ASSUME NEW j \in 1..(m - 1) PROVE Answered(pipe'[j])
        <5>1. j = k \/ j \in 1..(k - 1)
          BY <1>1, <4>2
        <5> QED
          BY <1>3, <1>6, <1>7, <5>1
      <4> QED
        BY <4>3, <4>5, <4>6 DEF Fails, Answered
    <3> QED
      BY <3>1, <3>2
  <2>5. CASE Answered(pipe[k])
    <3>0. pipe[k].state = "row" /\ s = "ok" /\ k = 1 /\ failed' = failed
      BY <2>5 DEF Answered
    <3>1. Behind(m)
      <4>1. m > 1 /\ pipe'[m - 1].state = "error" => m - 1 # k
        BY <1>3, <3>0
      <4> QED
        BY <1>2, <2>2, <4>1 DEF Behind
    <3>2. Fails(m)
      BY <2>1, <3>1 DEF Fated
    <3>3. m # k
      BY <2>5, <3>0, <3>2 DEF Fails
    <3> QED
      BY <1>2, <2>3, <3>0, <3>2, <3>3 DEF Fails, Answered
  <2> QED
    BY <2>4, <2>5
<1>11. Base'
  BY <1>4, <1>5, <1>8 DEF WireInv, Base, Sane, Answered, Accepted
<1>12. InStep'
  BY <1>2, <1>9, <1>10 DEF InStep, Fated
<1> QED
  BY <1>11, <1>12 DEF WireInv
-----------------------------------------------------------------------------
(* Reading. *)

\* In step, the head of the wire is drained exactly while the counter says so,
\* and what is not drained is what the reader awaits.
LEMMA HeadOfPipe ==
    ASSUME WireInv, CanRead, ~slipped
    PROVE  /\ deferred > 0 => Drains
           /\ deferred = 0 => /\ ~Drains /\ RequestOf(Head(pipe)) = Head(expect)
                              /\ Head(pipe).state \in Accepted(Head(expect).op) \cup {"error"}
<1> DEFINE x == Head(pipe)
           e == Head(expect)
<1>1. /\ TypeOK /\ pipe \in Seq(Entries) /\ pipe # <<>> /\ expect \in Seq(Requests) /\ expect # <<>>
      /\ deferred \in Nat /\ Order /\ Fated
  BY DEF WireInv, Base, InStep, TypeOK, CanRead
<1>2. x = pipe[1] /\ x \in Entries /\ 1 \in DOMAIN pipe
  BY <1>1, TailOf
<1>3. e = expect[1] /\ 1 \in DOMAIN expect
  BY <1>1, TailOf
<1>4. Answered(x) /\ x.state \in Accepted(x.op) \cup {"error"}
  BY <1>2 DEF CanRead, WireInv, Base, Sane
<1> HIDE DEF x, e
<1>5. CASE deferred > 0
  <2>1. 1 \in 1..deferred
    BY <1>1, <1>5
  <2>2. Left(x)
    BY <1>1, <1>2, <2>1 DEF Order
  <2>3. CASE x.op = "free"
    BY <1>4, <1>5, <2>3 DEF Drains, Accepted, x
  <2>4. CASE x.place = 2
    <3>1. Behind(1)
      BY <1>1, <1>2, <1>5, <2>4 DEF Behind
    <3>2. x.state = "error"
      BY <1>1, <1>2, <1>4, <3>1 DEF Fated, Fails
    <3> QED
      BY <1>5, <3>2 DEF Drains, x
  <2> QED
    BY <1>5, <2>2, <2>3, <2>4 DEF Left
<1>6. CASE deferred = 0
  <2>1. RequestOf(pipe[0 + 1]) = e
    BY <1>1, <1>3, <1>6 DEF Order
  <2>2. RequestOf(x) = e
    BY <1>2, <2>1
  <2>3. x.op = e.op
    BY <2>2 DEF RequestOf
  <2> QED
    BY <1>4, <1>6, <2>2, <2>3 DEF Drains, x, e
<1> QED
  BY <1>1, <1>5, <1>6

LEMMA TailBase ==
    ASSUME Base, pipe # <<>>, pipe' = Tail(pipe), TypeOK', Len(expect') <= 2
    PROVE  Base'
<1>1. pipe \in Seq(Entries)
  BY DEF Base, TypeOK
<1>2. /\ DOMAIN pipe = 1..Len(pipe) /\ DOMAIN pipe' = 1..(Len(pipe) - 1)
      /\ Len(pipe) \in Nat \ {0}
      /\ \A k \in 1..(Len(pipe) - 1) : pipe'[k] = pipe[k + 1]
  BY <1>1, TailOf
<1>3. ASSUME NEW k \in DOMAIN pipe' PROVE Sane(pipe'[k])
  <2>1. pipe'[k] = pipe[k + 1] /\ k + 1 \in DOMAIN pipe
    BY <1>2
  <2> QED
    BY <2>1 DEF Base
<1>4. InTurn'
  <2> SUFFICES ASSUME NEW k \in DOMAIN pipe', Answered(pipe'[k]), NEW j \in 1..(k - 1)
               PROVE  Answered(pipe'[j])
    BY DEF InTurn, Answered
  <2>1. pipe'[k] = pipe[k + 1] /\ k + 1 \in DOMAIN pipe /\ k \in Nat
    BY <1>2
  <2>2. j \in 1..(Len(pipe) - 1) /\ j + 1 \in 1..((k + 1) - 1)
    BY <1>2
  <2>3. Answered(pipe[j + 1])
    BY <2>1, <2>2 DEF Base, InTurn
  <2> QED
    BY <1>2, <2>2, <2>3
<1> QED
  BY <1>3, <1>4 DEF Base, Sane, Answered, Accepted

LEMMA TailFated ==
    ASSUME pipe \in Seq(Entries), pipe # <<>>, pipe' = Tail(pipe), Fated, failed' = failed,
           \A k \in Nat \ {0} : k <= deferred' => k + 1 <= deferred
    PROVE  Fated'
<1>1. /\ DOMAIN pipe = 1..Len(pipe) /\ DOMAIN pipe' = 1..(Len(pipe) - 1)
      /\ Len(pipe) \in Nat \ {0}
      /\ \A k \in 1..(Len(pipe) - 1) : pipe'[k] = pipe[k + 1]
  BY TailOf
<1> SUFFICES ASSUME NEW k \in DOMAIN pipe', Behind(k)' PROVE Fails(k)'
  BY DEF Fated
<1>2. pipe'[k] = pipe[k + 1] /\ k + 1 \in DOMAIN pipe /\ k \in Nat \ {0}
  BY <1>1
<1>3. k > 1 => pipe'[k - 1] = pipe[k] /\ (k + 1) - 1 = k
  BY <1>1, <1>2
<1>4. Behind(k + 1)
  BY <1>2, <1>3 DEF Behind
<1>5. Fails(k + 1)
  BY <1>2, <1>4 DEF Fated
<1>6. ASSUME NEW j \in 1..(k - 1) PROVE Answered(pipe'[j])
  <2>1. j + 1 \in 1..((k + 1) - 1) /\ j \in 1..(Len(pipe) - 1)
    BY <1>1, <1>2
  <2> QED
    BY <1>1, <1>5, <2>1 DEF Fails
<1> QED
  BY <1>2, <1>5, <1>6 DEF Fails, Answered

\* Reading an answer that is counted leaves the others in order.
LEMMA DrainStep ==
    ASSUME WireInv, ~slipped, CanRead, failed' = failed, pipe' = Tail(pipe),
           deferred > 0, deferred' = deferred - 1, expect' = expect
    PROVE  Order' /\ Fated'
<1> DEFINE d == deferred - 1
           q == Len(expect)
<1>1. /\ pipe \in Seq(Entries) /\ pipe # <<>> /\ expect \in Seq(Requests) /\ Order /\ Fated
  BY DEF WireInv, Base, InStep, TypeOK, CanRead
<1>2. d \in Nat /\ deferred = d + 1 /\ deferred' = d /\ q \in Nat /\ DOMAIN expect = 1..q
  BY DEF WireInv, Base, TypeOK
<1>3. Len(pipe) = (d + 1) + q
  BY <1>1, <1>2 DEF Order
<1>4. /\ Len(pipe') = Len(pipe) - 1 /\ \A k \in 1..(Len(pipe) - 1) : pipe'[k] = pipe[k + 1]
  BY <1>1, TailOf
<1> HIDE DEF d, q
<1>5. Len(pipe') = d + q /\ \A k \in 1..(d + q) : pipe'[k] = pipe[k + 1]
  <2>1. Len(pipe) - 1 = d + q
    BY <1>2, <1>3
  <2> QED
    BY <1>4, <2>1
<1>6. ASSUME NEW k \in 1..deferred'
      PROVE  Left(pipe'[k]) /\ \A j \in DOMAIN expect' : pipe'[k].id # expect'[j].id
  <2>1. k + 1 \in 1..(d + 1) /\ k \in 1..(d + q)
    BY <1>2
  <2>2. pipe'[k] = pipe[k + 1]
    BY <1>5, <2>1
  <2>3. Left(pipe[k + 1]) /\ \A j \in DOMAIN expect : pipe[k + 1].id # expect[j].id
    BY <1>1, <1>2, <2>1 DEF Order
  <2> QED
    BY <2>2, <2>3
<1>7. ASSUME NEW k \in 1..q PROVE pipe'[deferred' + k] = pipe[deferred + k]
  <2>1. d + k \in 1..(d + q) /\ (d + k) + 1 = (d + 1) + k
    BY <1>2
  <2> QED
    BY <1>2, <1>5, <2>1
<1>8. ASSUME NEW k \in DOMAIN expect'
      PROVE  RequestOf(pipe'[deferred' + k]) = expect'[k] /\ expect'[k].op # "free"
  BY <1>1, <1>2, <1>7 DEF Order
<1>9. ASSUME Len(expect') = 2
      PROVE  /\ expect'[1].op \in {"allocate", "execute", "execute2"}
             /\ expect'[1].op # "allocate" => expect'[2].op \in {"fetch", "info"}
             /\ pipe'[deferred' + 2].place = 2
  <2>1. 2 \in 1..q /\ Len(expect) = 2
    BY <1>9 DEF q
  <2> QED
    BY <1>1, <1>7, <2>1 DEF Order
<1>10. Len(pipe') = deferred' + Len(expect')
  BY <1>2, <1>5 DEF q
<1>11. Order'
  BY <1>6, <1>8, <1>9, <1>10 DEF Order, Left, RequestOf
<1>12. \A k \in Nat \ {0} : k <= deferred' => k + 1 <= deferred
  BY <1>2
<1> QED
  BY <1>1, <1>11, <1>12, TailFated

\* So does reading one that is awaited.
LEMMA TakeStep ==
    ASSUME WireInv, ~slipped, CanRead, failed' = failed, pipe' = Tail(pipe),
           deferred = 0, deferred' = 0, expect' = Tail(expect)
    PROVE  Order' /\ Fated'
<1> DEFINE q == Len(expect) - 1
<1>1. /\ pipe \in Seq(Entries) /\ pipe # <<>> /\ expect \in Seq(Requests) /\ expect # <<>>
      /\ Order /\ Fated /\ Len(expect) <= 2
  BY DEF WireInv, Base, InStep, TypeOK, CanRead
<1>2. /\ q \in Nat /\ q # 2 /\ Len(expect) = q + 1 /\ DOMAIN expect = 1..(q + 1)
      /\ Len(expect') = q /\ DOMAIN expect' = 1..q
      /\ \A k \in 1..q : expect'[k] = expect[k + 1]
  <2>1. /\ Len(Tail(expect)) = Len(expect) - 1 /\ DOMAIN expect = 1..Len(expect)
        /\ Len(expect) \in Nat \ {0} /\ DOMAIN Tail(expect) = 1..(Len(expect) - 1)
        /\ \A k \in 1..(Len(expect) - 1) : Tail(expect)[k] = expect[k + 1]
    BY <1>1, TailOf
  <2>2. Len(expect) \in Nat \ {0} /\ Len(expect) <= 2
    BY <1>1, <2>1
  <2>3. ASSUME NEW n \in Nat \ {0}, n <= 2 PROVE n - 1 \in Nat /\ n - 1 # 2 /\ n = (n - 1) + 1
    BY <2>3
  <2>4. q \in Nat /\ q # 2 /\ Len(expect) = q + 1
    BY <2>2, <2>3
  <2> QED
    BY <2>1, <2>4
<1>3. Len(pipe) = q + 1
  <2>1. Len(pipe) = 0 + Len(expect)
    BY <1>1 DEF Order
  <2> QED
    BY <1>2, <2>1
<1>4. /\ Len(pipe') = Len(pipe) - 1 /\ \A k \in 1..(Len(pipe) - 1) : pipe'[k] = pipe[k + 1]
  BY <1>1, TailOf
<1> HIDE DEF q
<1>5. Len(pipe') = q /\ \A k \in 1..q : pipe'[k] = pipe[k + 1]
  <2>1. Len(pipe) - 1 = q
    BY <1>2, <1>3
  <2> QED
    BY <1>4, <2>1
<1>6. ASSUME NEW k \in DOMAIN expect'
      PROVE  RequestOf(pipe'[deferred' + k]) = expect'[k] /\ expect'[k].op # "free"
  <2>1. k \in 1..q /\ deferred' + k = k /\ deferred + (k + 1) = k + 1 /\ k + 1 \in DOMAIN expect
    BY <1>2
  <2>2. pipe'[deferred' + k] = pipe[deferred + (k + 1)] /\ expect'[k] = expect[k + 1]
    BY <1>2, <1>5, <2>1
  <2>3. RequestOf(pipe[deferred + (k + 1)]) = expect[k + 1] /\ expect[k + 1].op # "free"
    BY <1>1, <2>1 DEF Order
  <2> QED
    BY <2>2, <2>3
<1>7. Len(pipe') = deferred' + Len(expect') /\ Len(expect') # 2 /\ 1..deferred' = {}
  BY <1>2, <1>5
<1>8. Order'
  BY <1>6, <1>7 DEF Order, Left, RequestOf
<1>9. \A k \in Nat \ {0} : k <= deferred' => k + 1 <= deferred
  OBVIOUS
<1> QED
  BY <1>1, <1>8, <1>9, TailFated

\* A failed execute leaves the answer behind it to the counter; nothing is
\* behind any other request that fails, but for an allocate.
LEMMA ThrowStep ==
    ASSUME WireInv, Throw, ~slipped'
    PROVE  Order' /\ Fated'
<1>1. /\ CanRead /\ ~slipped /\ pipe' = Tail(pipe) /\ expect' = <<>> /\ failed' = failed
      /\ ~Drains /\ Head(expect).op # "allocate"
      /\ Head(pipe).state \notin Accepted(Head(expect).op) /\ deferred' = deferred + LeftDeferred
  BY DEF Throw, LeavesBehind
<1>2. /\ pipe \in Seq(Entries) /\ pipe # <<>> /\ expect \in Seq(Requests) /\ expect # <<>>
      /\ deferred \in Nat /\ Order /\ Fated /\ Len(expect) <= 2
  BY <1>1 DEF WireInv, Base, InStep, TypeOK, CanRead
<1>3. deferred = 0 /\ Head(pipe).state = "error"
  BY <1>1, <1>2, HeadOfPipe
<1>4. /\ Len(expect) \in 1..2 /\ Len(pipe) = Len(expect)
      /\ Head(expect) = expect[1] /\ Head(pipe) = pipe[1]
  <2>1. Len(expect) \in Nat \ {0}
    BY <1>2, TailOf
  <2>2. Len(pipe) = 0 + Len(expect)
    BY <1>2, <1>3 DEF Order
  <2> QED
    BY <1>2, <2>1, <2>2, TailOf
<1>5. Len(expect') = 0 /\ DOMAIN expect' = {}
  <2>1. expect' = <<>>
    BY <1>1
  <2> QED
    BY <2>1
<1>6. /\ Len(pipe') = Len(pipe) - 1 /\ DOMAIN pipe = 1..Len(pipe) /\ DOMAIN pipe' = 1..(Len(pipe) - 1)
      /\ \A k \in 1..(Len(pipe) - 1) : pipe'[k] = pipe[k + 1]
  <2>1. pipe' = Tail(pipe)
    BY <1>1
  <2> QED
    BY <1>2, <2>1, TailOf
<1>7. CASE Len(expect) = 1
  <2>1. deferred' = 0 /\ Len(pipe') = 0 /\ DOMAIN pipe' = {}
    BY <1>1, <1>3, <1>4, <1>6, <1>7 DEF LeftDeferred
  <2> QED
    BY <1>5, <2>1 DEF Order, Fated
<1>8. CASE Len(expect) = 2
  <2>1. /\ expect[1].op \in {"execute", "execute2"} /\ expect[2].op \in {"fetch", "info"}
        /\ pipe[2].place = 2 /\ 2 \in DOMAIN expect
    <3>1. deferred + 2 = 2
      BY <1>3
    <3> QED
      BY <1>1, <1>2, <1>4, <1>8, <3>1 DEF Order
  <2>2. deferred' = 1 /\ Len(pipe') = 1 /\ DOMAIN pipe' = 1..1 /\ pipe'[1] = pipe[2] /\ 2 \in DOMAIN pipe
    BY <1>1, <1>3, <1>4, <1>6, <1>8, <2>1 DEF LeftDeferred
  <2>3. RequestOf(pipe[2]) = expect[2]
    <3>1. RequestOf(pipe[0 + 2]) = expect[2]
      BY <1>2, <1>3, <2>1 DEF Order
    <3> QED
      BY <3>1
  <2>4. Left(pipe'[1])
    BY <2>1, <2>2, <2>3 DEF Left, RequestOf
  <2>5. Order'
    BY <1>5, <2>2, <2>4 DEF Order, Left, RequestOf
  <2>6. Fails(2)
    <3>1. Behind(2)
      BY <1>3, <1>4, <2>1 DEF Behind
    <3> QED
      BY <1>2, <2>2, <3>1 DEF Fated
  <2>7. Fated'
    <3> SUFFICES Fails(1)'
      BY <2>2 DEF Fated
    <3> QED
      BY <1>1, <2>2, <2>6 DEF Fails, Answered
  <2> QED
    BY <2>5, <2>7
<1> QED
  BY <1>4, <1>7, <1>8
-----------------------------------------------------------------------------
LEMMA WireStep ==
    ASSUME WireInv, [Next]_vars
    PROVE  WireInv'
<1>0. /\ TypeOK /\ chain \in Seq(Tasks) /\ pipe \in Seq(Entries) /\ expect \in Seq(Requests)
      /\ deferred \in Nat /\ Base /\ Len(expect) <= 2 /\ slipped \in BOOLEAN
      /\ expect # <<>> => LeftDeferred \in Nat
  <2>1. /\ TypeOK /\ chain \in Seq(Tasks) /\ pipe \in Seq(Entries) /\ expect \in Seq(Requests)
        /\ deferred \in Nat /\ Base /\ Len(expect) <= 2 /\ slipped \in BOOLEAN
    BY DEF WireInv, Base, TypeOK
  <2>2. expect # <<>> => Len(expect) \in Nat \ {0}
    BY <2>1, TailOf
  <2>3. expect # <<>> => LeftDeferred \in Nat
    BY <2>2 DEF LeftDeferred
  <2> QED
    BY <2>1, <2>3
<1>1. ASSUME NEW t \in Tasks, Enter(t) PROVE WireInv'
  <2>1. TypeOK'
    BY <1>0, <1>1 DEF Enter, TypeOK
  <2> QED
    BY <1>1, <2>1, Untouched DEF Enter
<1>2. CASE Leave
  <2>1. chain' \in Seq(Tasks)
    BY <1>0, <1>2 DEF Leave, Running
  <2>2. TypeOK'
    BY <1>0, <1>2, <2>1 DEF Leave, TypeOK
  <2> QED
    BY <1>2, <2>2, Untouched DEF Leave
<1>3. CASE Call \/ AllocateAndPrepare \/ ExecuteStatement \/ FetchRows
  <2>1. PICK p \in Packets : Send(p)
    BY <1>3 DEF Call, AllocateAndPrepare, ExecuteStatement, FetchRows, Send
  <2> QED
    BY <2>1, SendStep
<1>4. CASE SendLost
  <2>1. PICK n \in 0..Len(pipe) : pipe' = SubSeq(pipe, 1, n)
    BY <1>4 DEF SendLost
  <2>2. /\ pipe' \in Seq(Entries) /\ DOMAIN pipe' = 1..n
        /\ \A k \in 1..n : k \in DOMAIN pipe /\ pipe'[k] = pipe[k]
    BY <1>0, <2>1
  <2>3. /\ ~up' /\ expect' = <<>> /\ Len(expect') = 0 /\ answer' = Lost
        /\ UNCHANGED <<chain, deferred, expect, up, failed, slipped>>
    BY <1>4 DEF SendLost, Running
  <2>4. TypeOK'
    BY <1>0, <2>2, <2>3 DEF TypeOK
  <2>5. \A k \in DOMAIN pipe' : Sane(pipe'[k])
    BY <1>0, <2>2 DEF Base
  <2>6. InTurn'
    <3> SUFFICES ASSUME NEW k \in 1..n, Answered(pipe'[k]), NEW j \in 1..(k - 1)
                 PROVE  Answered(pipe'[j])
      BY <2>2 DEF InTurn, Answered
    <3>1. j \in 1..n
      BY <2>1
    <3> QED
      BY <1>0, <2>2, <3>1 DEF Base, InTurn
  <2> QED
    BY <2>3, <2>4, <2>5, <2>6 DEF WireInv, Base, InStep, Sane, Answered, Accepted
<1>5. CASE FreeStatement
  <2>1. Free /\ slipped' = slipped /\ expect = <<>>
    BY <1>5 DEF FreeStatement, Running
  <2> QED
    BY <1>0, <2>1, FreeStep
<1>6. CASE ClearInUse
  <2>1. Free /\ slipped' = (slipped \/ expect # <<>>)
    BY <1>6 DEF ClearInUse
  <2>2. slipped' \in BOOLEAN /\ (~slipped' => ~slipped /\ expect = <<>>)
    BY <1>0, <2>1
  <2> QED
    BY <2>1, <2>2, FreeStep
<1>7. CASE Respond
  <2>1. PICK k \in DOMAIN pipe :
            /\ pipe[k].state = "sent" /\ \A j \in 1..(k - 1) : Answered(pipe[j])
            /\ \E s \in Answers(pipe[k]) :
                 pipe' = [pipe EXCEPT ![k].state = s] /\ failed' = (s = "error")
    BY <1>7 DEF Respond
  <2>2. PICK s \in Answers(pipe[k]) :
            pipe' = [pipe EXCEPT ![k].state = s] /\ failed' = (s = "error")
    BY <2>1
  <2>3. UNCHANGED <<chain, deferred, expect, answer, up, slipped>>
    BY <1>7 DEF Respond
  <2>4. /\ s \in States \ {"written", "sent"} /\ s \in Accepted(pipe[k].op) \cup {"error"}
        /\ pipe[k].place > 1 /\ failed => s = "error"
    BY DEF Answers, States, Normal, Accepted
  <2>5. ~Answered(pipe[k])
    BY <2>1 DEF Answered
  <2> QED
    BY <2>1, <2>2, <2>3, <2>4, <2>5, AnswerStep
<1>8. CASE Die
  <2>1. TypeOK'
    BY <1>0, <1>8 DEF Die, TypeOK
  <2>2. up /\ UNCHANGED <<pipe, deferred, expect, failed, slipped>>
    BY <1>8 DEF Die
  <2>3. Base'
    BY <1>0, <2>1, <2>2 DEF Base, InTurn, Sane, Answered, Accepted
  <2>4. InStep'
    BY <2>2 DEF WireInv, InStep, Order, Left, RequestOf, Fated, Behind, Fails, Answered
  <2> QED
    BY <2>3, <2>4 DEF WireInv
<1>9. ASSUME CanRead
      PROVE  /\ expect # <<>> /\ pipe # <<>> /\ Tail(pipe) \in Seq(Entries)
             /\ Tail(expect) \in Seq(Requests) /\ Len(Tail(expect)) <= 2
             /\ RequestOf(Head(pipe)) \in Requests
             /\ Head(pipe) = pipe[1] /\ 1 \in DOMAIN pipe
  <2>1. expect # <<>> /\ pipe # <<>>
    BY <1>9 DEF CanRead
  <2>2. Head(pipe) \in Entries
    BY <1>0, <2>1, TailOf
  <2>3. Len(Tail(expect)) = Len(expect) - 1 /\ Len(expect) \in Nat
    BY <1>0, <2>1, TailOf
  <2>4. Len(Tail(expect)) <= 2
    BY <1>0, <2>3
  <2> QED
    BY <1>0, <2>1, <2>2, <2>4, TailOf DEF Entries, Requests, RequestOf
<1>10. CASE Drain
  <2>1. /\ CanRead /\ deferred > 0 /\ pipe' = Tail(pipe) /\ deferred' = deferred - 1
        /\ expect' = expect /\ UNCHANGED <<chain, answer, up, failed, slipped>>
    BY <1>10 DEF Drain, Drains
  <2>2. TypeOK'
    BY <1>0, <1>9, <2>1 DEF TypeOK
  <2>3. Base'
    BY <1>0, <1>9, <2>1, <2>2, TailBase
  <2>4. ~slipped => Order' /\ Fated'
    BY <2>1, DrainStep
  <2> QED
    BY <2>1, <2>3, <2>4 DEF WireInv, InStep
<1>11. CASE Take
  <2>1. /\ CanRead /\ ~Drains /\ pipe' = Tail(pipe) /\ expect' = Tail(expect) /\ deferred' = deferred
        /\ UNCHANGED <<chain, up, failed, slipped>>
        /\ answer' = [req |-> RequestOf(Head(pipe)), ok |-> TRUE]
    BY <1>11 DEF Take
  <2>2. TypeOK'
    BY <1>0, <1>9, <2>1 DEF TypeOK
  <2>3. Base'
    BY <1>0, <1>9, <2>1, <2>2, TailBase
  <2>4. ASSUME ~slipped PROVE Order' /\ Fated'
    <3>1. deferred = 0
      BY <1>0, <2>1, <2>4, HeadOfPipe
    <3> QED
      BY <2>1, <2>4, <3>1, TakeStep
  <2> QED
    BY <2>1, <2>3, <2>4 DEF WireInv, InStep
<1>12. CASE TakeRow
  <2>1. /\ CanRead /\ pipe[1].state = "row" /\ pipe' = [pipe EXCEPT ![1].state = "ok"]
        /\ UNCHANGED <<chain, deferred, expect, answer, up, failed, slipped>>
    BY <1>9, <1>12 DEF TakeRow
  <2>2. "ok" \in Accepted(pipe[1].op) /\ "ok" \in States \ {"written", "sent"}
    BY DEF Accepted, States
  <2>3. \A j \in 1..(1 - 1) : Answered(pipe[j])
    OBVIOUS
  <2> QED
    BY <1>9, <2>1, <2>2, <2>3, AnswerStep
<1>13. CASE Throw
  <2>1. /\ CanRead /\ pipe' = Tail(pipe) /\ expect' = <<>> /\ up' = up
        /\ deferred' = (IF Drains THEN deferred - 1 ELSE deferred) + LeftDeferred
        /\ answer' = [req |-> RequestOf(Head(pipe)), ok |-> FALSE]
        /\ slipped' = (slipped \/ LeavesBehind)
        /\ UNCHANGED <<chain, up, failed>>
    BY <1>13 DEF Throw
  <2>2. deferred' \in Nat
    <3>1. Drains => deferred - 1 \in Nat
      BY <1>0 DEF Drains
    <3> QED
      BY <1>0, <1>9, <2>1, <3>1
  <2>3. slipped' \in BOOLEAN
    BY <1>0, <2>1 DEF LeavesBehind, Drains
  <2>4. TypeOK'
    BY <1>0, <1>9, <2>1, <2>2, <2>3 DEF TypeOK
  <2>5. Base'
    <3>1. Len(expect') <= 2
      BY <2>1
    <3> QED
      BY <1>0, <1>9, <2>1, <2>4, <3>1, TailBase
  <2> QED
    BY <1>13, <2>5, ThrowStep DEF WireInv, InStep
<1>14. CASE ReadLost
  <2>1. /\ ~up' /\ expect # <<>> /\ expect' = <<>> /\ Len(expect') = 0 /\ answer' = Lost
        /\ deferred' = deferred + LeftDeferred /\ UNCHANGED <<chain, pipe, failed, up, slipped>>
    BY <1>14 DEF ReadLost
  <2>2. deferred' \in Nat
    BY <1>0, <2>1
  <2>3. TypeOK'
    BY <1>0, <2>1, <2>2 DEF TypeOK
  <2>4. Base'
    BY <1>0, <2>1, <2>3 DEF Base, InTurn, Sane, Answered, Accepted
  <2> QED
    BY <2>1, <2>4 DEF WireInv, InStep
<1>15. CASE UNCHANGED vars
  <2>1. TypeOK'
    BY <1>0, <1>15 DEF vars, TypeOK
  <2> QED
    BY <1>15, <2>1, Untouched DEF vars
<1> QED
  BY <1>1, <1>2, <1>3, <1>4, <1>5, <1>6, <1>7, <1>8, <1>10, <1>11, <1>12, <1>13, <1>14, <1>15
     DEF Next, Read

LEMMA WireStart == Init => WireInv
<1> SUFFICES ASSUME Init PROVE WireInv
  OBVIOUS
<1>1. /\ chain = <<>> /\ pipe = <<>> /\ expect = <<>> /\ deferred = 0 /\ answer = NoAnswer
      /\ up = TRUE /\ failed = FALSE /\ slipped = FALSE
  BY DEF Init
<1>2. Len(pipe) = 0 /\ Len(expect) = 0 /\ DOMAIN pipe = 1..0 /\ DOMAIN expect = 1..0
  BY <1>1
<1>3. TypeOK
  <2>1. chain \in Seq(Tasks) /\ pipe \in Seq(Entries) /\ expect \in Seq(Requests) /\ deferred \in Nat
    BY <1>1
  <2>2. /\ up \in BOOLEAN /\ failed \in BOOLEAN /\ slipped \in BOOLEAN
        /\ answer \in {NoAnswer, Lost}
    BY <1>1
  <2> QED
    BY <2>1, <2>2 DEF TypeOK
<1>4. Order /\ Fated /\ InTurn
  BY <1>1, <1>2 DEF Order, Fated, InTurn
<1> QED
  BY <1>2, <1>3, <1>4 DEF WireInv, Base, InStep

LEMMA WireInvariant == Spec => []WireInv
BY WireStart, WireStep, PTL DEF Spec

\* However operations, lazy requests, failures and the server interleave, and
\* over a connection that dies: until an answer slips, the reader drains exactly
\* the answers of lazy requests and of what rode behind a failed execute, and
\* reads every other in the order it was asked for.
THEOREM WireInSync == Spec => [](TypeOK /\ InSync /\ ReadsRight)
<1>1. WireInv => InSync
  BY DEF WireInv, InStep, Order, Left, InSync
<1>2. WireInv => ReadsRight
  <2> SUFFICES ASSUME WireInv, CanRead, ~slipped
               PROVE  Drains <=> RequestOf(Head(pipe)) # Head(expect)
    BY DEF ReadsRight
  <2>1. /\ deferred \in Nat /\ expect # <<>> /\ Head(expect) = expect[1] /\ 1 \in DOMAIN expect
        /\ pipe # <<>> /\ Head(pipe) = pipe[1] /\ Order
    <3>1. expect \in Seq(Requests) /\ pipe \in Seq(Entries) /\ expect # <<>> /\ pipe # <<>>
      BY DEF WireInv, Base, TypeOK, CanRead
    <3> QED
      BY <3>1, TailOf DEF WireInv, Base, InStep, TypeOK
  <2>2. CASE deferred > 0
    <3>1. Drains /\ 1 \in 1..deferred
      BY <2>1, <2>2, HeadOfPipe
    <3>2. pipe[1].id # expect[1].id
      BY <2>1, <3>1 DEF Order
    <3> QED
      BY <2>1, <3>1, <3>2 DEF RequestOf
  <2>3. CASE deferred = 0
    BY <2>3, HeadOfPipe
  <2> QED
    BY <2>1, <2>2, <2>3
<1>3. WireInv => TypeOK
  BY DEF WireInv, Base
<1> QED
  BY <1>1, <1>2, <1>3, WireInvariant, PTL

-----------------------------------------------------------------------------
\* Only the operation at the head of the chain awaits anything.
Ongoing == expect # <<>> => chain # <<>>

LEMMA OngoingInvariant == Spec => []Ongoing
<1>1. Init => Ongoing
  BY DEF Init, Ongoing
<1>2. TypeOK /\ Ongoing /\ [Next]_vars => Ongoing'
  <2> SUFFICES ASSUME TypeOK, Ongoing, [Next]_vars, expect' # <<>> PROVE chain' # <<>>
    BY DEF Ongoing
  <2>1. ASSUME NEW t \in Tasks, Enter(t) PROVE chain' # <<>>
    BY <2>1 DEF Enter, TypeOK
  <2>2. CASE Call \/ AllocateAndPrepare \/ ExecuteStatement \/ FetchRows
    BY <2>2 DEF Call, AllocateAndPrepare, ExecuteStatement, FetchRows, Send, Running
  <2>3. CASE Take
    BY <2>3 DEF Take, CanRead, Ongoing
  <2>4. CASE UNCHANGED <<chain, expect>>
    BY <2>4 DEF Ongoing
  <2>5. ASSUME Leave \/ SendLost \/ Throw \/ ReadLost PROVE expect' = <<>>
    BY <2>5 DEF Leave, SendLost, Throw, ReadLost, Running
  <2>6. ASSUME \/ FreeStatement \/ ClearInUse \/ Respond \/ Die \/ Drain \/ TakeRow
               \/ UNCHANGED vars
        PROVE  UNCHANGED <<chain, expect>>
    BY <2>6 DEF FreeStatement, ClearInUse, Free, Respond, Die, Drain, TakeRow, vars
  <2> QED
    BY <2>1, <2>2, <2>3, <2>4, <2>5, <2>6 DEF Next, Read
<1>3. Spec => []TypeOK
  BY WireInSync, PTL
<1> QED
  BY <1>1, <1>2, <1>3, PTL DEF Spec

\* Once an answer has slipped, operations still take turns.
LEMMA TurnsKept ==
    ASSUME TypeOK, Ongoing, [Next]_vars
    PROVE  \/ UNCHANGED chain
           \/ \E t \in Tasks : t \notin Range(chain) /\ chain' = Append(chain, t)
           \/ chain # <<>> /\ expect = <<>> /\ chain' = Tail(chain)
<1>1. ASSUME NEW t \in Tasks, Enter(t)
      PROVE  t \notin Range(chain) /\ chain' = Append(chain, t)
  BY <1>1 DEF Enter
<1>2. CASE Leave
  BY <1>2 DEF Leave, Running
<1>3. CASE Call \/ AllocateAndPrepare \/ ExecuteStatement \/ FetchRows \/ SendLost
  BY <1>3 DEF Call, AllocateAndPrepare, ExecuteStatement, FetchRows, Send, SendLost
<1>4. CASE FreeStatement \/ ClearInUse \/ Respond \/ Die \/ UNCHANGED vars
  BY <1>4 DEF FreeStatement, ClearInUse, Free, Respond, Die, vars
<1>5. CASE Read
  BY <1>5 DEF Read, Drain, Take, TakeRow, Throw, ReadLost
<1> QED
  BY <1>1, <1>2, <1>3, <1>4, <1>5 DEF Next

LEMMA StepRefines ==
    ASSUME WireInv, Ongoing, [Next]_vars
    PROVE  [Abstract!ExNext]_<<chain, expect, answer, slipped>>
<1> USE DEF Abstract!ExNext
<1>0. TypeOK /\ slipped \in BOOLEAN
  BY DEF WireInv, Base, TypeOK
<1>1. ASSUME NEW t \in Tasks, Enter(t), ~slipped PROVE Abstract!Promised
  <2>1. Abstract!Enter(t) /\ ~slipped'
    BY <1>1 DEF Enter, Range, Abstract!Enter, Abstract!Range
  <2> QED
    BY <1>1, <2>1 DEF Abstract!Promised
<1>2. CASE Leave /\ ~slipped
  <2>1. Abstract!Leave /\ ~slipped'
    BY <1>2 DEF Leave, Running, Abstract!Leave, NoAnswer, Abstract!NoAnswer
  <2> QED
    BY <1>2, <2>1 DEF Abstract!Promised
<1>3. CASE (Call \/ AllocateAndPrepare \/ ExecuteStatement \/ FetchRows) /\ ~slipped
  <2>1. PICK p \in Packets : Send(p)
    BY <1>3 DEF Call, AllocateAndPrepare, ExecuteStatement, FetchRows, Send
  <2>2. NewId \in Ids
    BY <2>1, NewIdUnused DEF Send
  <2>3. Abstract!Ask(NewId, p) /\ ~slipped'
    BY <1>3, <2>1 DEF Send, Running, Abstract!Ask, NoAnswer, Abstract!NoAnswer
  <2> QED
    BY <1>3, <2>2, <2>3 DEF Abstract!Promised
<1>4. CASE (SendLost \/ ReadLost) /\ ~slipped
  <2>1. Abstract!Lose /\ ~slipped'
    BY <1>4 DEF SendLost, ReadLost, Running, Ongoing, Abstract!Lose, Lost, NoAnswer,
               Abstract!Lost, Abstract!NoAnswer
  <2> QED
    BY <1>4, <2>1 DEF Abstract!Promised
<1>5. CASE Take /\ ~slipped
  <2>0. CanRead /\ ~Drains /\ expect # <<>> /\ deferred \in Nat
    BY <1>0, <1>5 DEF Take, CanRead, TypeOK
  <2>1. RequestOf(Head(pipe)) = Head(expect)
    BY <1>5, <2>0, HeadOfPipe
  <2>2. Abstract!Reply /\ ~slipped'
    BY <1>5, <2>0, <2>1 DEF Take, Abstract!Reply
  <2> QED
    BY <1>5, <2>2 DEF Abstract!Promised
<1>6. CASE Throw /\ ~slipped /\ ~slipped'
  <2>0. CanRead /\ ~Drains /\ expect # <<>> /\ deferred \in Nat
    BY <1>0, <1>6 DEF Throw, LeavesBehind, CanRead, TypeOK
  <2>1. RequestOf(Head(pipe)) = Head(expect)
    BY <1>6, <2>0, HeadOfPipe
  <2>2. Abstract!Refuse
    BY <1>6, <2>0, <2>1 DEF Throw, Abstract!Refuse
  <2> QED
    BY <1>6, <2>2 DEF Abstract!Promised
<1>7. CASE Throw /\ ~slipped /\ slipped'
  <2>1. expect # <<>> /\ expect' = <<>> /\ ~answer'.ok /\ chain' = chain
    BY <1>7 DEF Throw, CanRead
  <2> QED
    BY <1>7, <2>1 DEF Abstract!Break
<1>8. CASE ClearInUse /\ ~slipped
  <2>1. UNCHANGED <<chain, expect, answer>> /\ slipped' = (slipped \/ expect # <<>>)
    BY <1>8 DEF ClearInUse, Free
  <2>2. CASE expect = <<>>
    <3>1. slipped' = slipped
      BY <1>0, <1>8, <2>1, <2>2
    <3> QED
      BY <2>1, <3>1
  <2>3. CASE expect # <<>>
    <3>1. slipped'
      BY <2>1, <2>3
    <3> QED
      BY <1>8, <2>1, <2>3, <3>1 DEF Abstract!Break
  <2> QED
    BY <2>2, <2>3
<1>9. ASSUME FreeStatement \/ Respond \/ Die \/ Drain \/ TakeRow \/ UNCHANGED vars
      PROVE  UNCHANGED <<chain, expect, answer, slipped>>
  BY <1>9 DEF FreeStatement, Free, Respond, Die, Drain, TakeRow, vars
<1>10. CASE slipped
  <2>1. slipped'
    <3>1. ASSUME NEW t \in Tasks, Enter(t) PROVE slipped' = slipped
      BY <3>1 DEF Enter
    <3>2. CASE \/ Leave \/ Call \/ AllocateAndPrepare \/ ExecuteStatement \/ FetchRows \/ SendLost
               \/ Take \/ ReadLost
      BY <1>10, <3>2 DEF Leave, Call, AllocateAndPrepare, ExecuteStatement, FetchRows, Send,
                         SendLost, Take, ReadLost
    <3>3. CASE ClearInUse \/ Throw
      BY <1>10, <3>3 DEF ClearInUse, Throw
    <3> QED
      BY <1>9, <1>10, <3>1, <3>2, <3>3 DEF Next, Read
  <2> QED
    BY <1>0, <1>10, <2>1, TurnsKept DEF Abstract!TurnsOnly, Range, Abstract!Range
<1>11. CASE ~slipped
  BY <1>1, <1>2, <1>3, <1>4, <1>5, <1>6, <1>7, <1>8, <1>9, <1>11 DEF Next, Read
<1> QED
  BY <1>10, <1>11

\* Through the wire, its lazy requests and its counter, operations see what
\* Exchange promises: one at a time, each with its own answers and errors, until
\* an answer slips.
THEOREM WireImplements == Spec => ImplementsExchange
<1>1. Init => Abstract!ExInit
  BY DEF Init, Abstract!ExInit, NoAnswer, Abstract!NoAnswer
<1>2. WireInv /\ Ongoing /\ [Next]_vars => [Abstract!ExNext]_<<chain, expect, answer, slipped>>
  BY StepRefines
<1> QED
  BY <1>1, <1>2, WireInvariant, OngoingInvariant, PTL DEF Spec, ImplementsExchange, Abstract!ExSpec
=============================================================================
