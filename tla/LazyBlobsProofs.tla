--------------------------- MODULE LazyBlobsProofs ---------------------------
(***************************************************************************)
(* That the handles of lazily read blobs have one keeper each and are      *)
(* closed by him, once and in time (HandlesExact), that whichever way a    *)
(* blob is read its bytes are right (BytesRight), and that the budgets     *)
(* count what is held (BudgetsExact), for any number of blobs, callers and *)
(* handles, and any size, window, budget and depth of the read-ahead.      *)
(*                                                                         *)
(* Callers are considerate, Habits = {}: they use a blob for one thing at  *)
(* a time, do not wait for blobs of a query stream that was left, and do   *)
(* not end the transaction under a call or a stream. The inductive         *)
(* invariant IInv says of the op-lock which jobs there can be (Line,       *)
(* JobsFit), of every cursor, stream and fetch that it has read up to      *)
(* where its handle stands (Cursors, Streams, Entries), who keeps each     *)
(* handle (Kept), what the job that awaits an answer has asked for         *)
(* (BusyFits) and what callers considered (Tracked, CallsFit, Exclusive,   *)
(* Abandons). StillKept, OpenedKept and ClosedKept are the ways in which   *)
(* handles change keepers; KickedAdded and KickedEnds how the next fetch   *)
(* begins. Budgets is a second invariant on top of IInv; what it needs of  *)
(* a sum over the blobs is proved by least counterexample (LeastSet).      *)
(***************************************************************************)
EXTENDS LazyBlobs, FiniteSetTheorems, SequenceTheorems, WellFoundedInduction, Functions, TLAPS

\* What a read is given is the beginning of the blob.
Segs(m) == SubSeq(Content, 1, m)
Datas == {Segs(m) : m \in 0..Size}

Fetches == {"slice", "abandon", "giveUp"}
Calls == {"head", "buffer", "prefetch", "close"}
JobKinds == Calls \cup Fetches \cup {"pull", "destroy", "eof", "leave", "end"}
BlobKind == [has : BOOLEAN, cached : Datas, consumed : Datas, bytes : 0..Size,
             handle : Handles \cup {NoHandle}, eof : BOOLEAN]
CallKind == [op : AllOps \cup {"none"}, n : 0..(Size + 1), pc : {"idle", "job", "take", "done"},
             data : Datas, group : SUBSET Blobs]
StreamKind == [on : BOOLEAN, lead : Datas, handle : Handles \cup {NoHandle}, finished : BOOLEAN,
               pulling : BOOLEAN, given : Datas, ended : BOOLEAN]
EntryKind == [state : {"none", "queued", "fetching", "done", "error"}, bytes : Datas, claimed : BOOLEAN]
AheadKind == [entry : [Blobs -> EntryKind], used : Int, mark : Nat, running : Blobs \cup {Nobody},
              handle : Handles \cup {NoHandle}, closed : BOOLEAN]
JobKind == [kind : JobKinds, b : Blobs \cup {Nobody}, who : Callers \cup {Nobody}, h : Handles \cup {NoHandle}]
OpenKind == [b : Blobs, at : 1..(Size + 1)]

\* The kinds of the variables.
Kinds ==
    /\ blob \in [Blobs -> BlobKind] /\ call \in [Callers -> CallKind] /\ stream \in [Blobs -> StreamKind]
    /\ ahead \in AheadKind /\ inline.held \subseteq Blobs
    /\ chain \in Seq(JobKind) /\ busy \in {"no", "open", "read", "whole"}
    /\ rows \in [at : 0..Cardinality(Blobs), state : {"reading", "leaving", "left"}]
    /\ alive \in BOOLEAN /\ calls \in 0..MaxCalls
    /\ DOMAIN open \subseteq Handles /\ \A h \in DOMAIN open : open[h] \in OpenKind

-----------------------------------------------------------------------------
(* The blob's bytes. *)

\* What is assumed of the constants, and that no name is both a blob and nobody.
LEMMA Constants ==
    /\ Size \in Nat /\ Size > 0 /\ Span \in Nat /\ Ahead \in Nat /\ MaxCalls \in Nat
    /\ Heads \subseteq 1..(Size + 1) /\ Handles \subseteq Nat \ {0}
    /\ Cardinality(Blobs) \in Nat /\ Blobs = 1..Cardinality(Blobs) /\ Nobody \notin Blobs /\ NoHandle \notin Handles
<1>1. Cardinality(Blobs) \in Nat
  BY LazyBlobsAssumption, FS_CardinalityType
<1> QED
  BY <1>1, LazyBlobsAssumption DEF Nobody, NoHandle

\* A beginning of the blob: its length and its segments.
LEMMA SegmentsOf ==
    ASSUME NEW m \in 0..Size
    PROVE  /\ Segs(m) \in Seq(Nat) /\ Len(Segs(m)) = m
           /\ \A i \in 1..m : Segs(m)[i] = i
           /\ Segs(m) \in Datas
<1>0. Size \in Nat /\ m \in Nat
  BY Constants
<1>1. Content \in Seq(Nat) /\ Len(Content) = Size /\ \A i \in 1..Size : Content[i] = i
  BY <1>0 DEF Content
<1>2. \A i \in 1..m : Content[i] \in Nat
  BY <1>0, <1>1
<1>3. /\ Segs(m) \in Seq(Nat) /\ Len(Segs(m)) = IF 1 <= m THEN m - 1 + 1 ELSE 0
      /\ \A i \in 1..(m - 1 + 1) : Segs(m)[i] = Content[1 + i - 1]
  BY <1>0, <1>2, SubSeqProperties DEF Segs
<1>4. \A i \in 1..m : i \in 1..(m - 1 + 1) /\ 1 + i - 1 = i /\ i \in 1..Size
  BY <1>0
<1> QED
  BY <1>0, <1>1, <1>3, <1>4 DEF Datas

\* The shortest beginning and the longest.
LEMMA Whole0 == Segs(0) = <<>> /\ Segs(Size) = Content /\ <<>> \in Datas /\ Content \in Datas
<1>0. Size \in Nat /\ 0 \in 0..Size /\ Size \in 0..Size
  BY Constants
<1>1. Segs(0) = <<>>
  BY SubSeqEmpty DEF Segs
<1>2. Content \in Seq(Nat) /\ Len(Content) = Size
  BY <1>0 DEF Content
<1>3. Segs(Size) = Content
  BY <1>2, SubSeqFull DEF Segs
<1> QED
  BY <1>0, <1>1, <1>3, SegmentsOf

\* A beginning of the blob is known by its length.
LEMMA DataLen ==
    ASSUME NEW d \in Datas
    PROVE  Len(d) \in 0..Size /\ d = Segs(Len(d))
BY SegmentsOf DEF Datas

\* What a cursor has read, put together.
LEMMA Together ==
    ASSUME NEW m \in 0..Size
    PROVE  Concat(Segs(m), m) = Segs(m)
<1>0. m \in Nat
  BY Constants
<1>1. Segs(m) \in Seq(Nat) /\ Len(Segs(m)) = m
  BY SegmentsOf
<1>2. DOMAIN Segs(m) = 1..m /\ Segs(m) = [i \in 1..m |-> Segs(m)[i]]
  BY <1>0, <1>1
<1>3. Concat(Segs(m), m) = [i \in 1..m |-> Segs(m)[i]]
  BY <1>0, <1>1 DEF Concat
<1> QED
  BY <1>2, <1>3

\* The first segments of what was read.
LEMMA FirstSegs ==
    ASSUME NEW n \in Nat, NEW m \in 0..Size
    PROVE  FirstOf(n, Segs(m)) = Segs(IF n < m THEN n ELSE m)
<1>0. m \in Nat /\ Size \in Nat
  BY Constants
<1> DEFINE k == IF n < m THEN n ELSE m
<1>1. k \in 0..Size /\ k \in Nat /\ k <= m
  BY <1>0
<1>2. Len(Segs(m)) = m /\ \A i \in 1..m : Segs(m)[i] = i
  BY SegmentsOf
<1>3. FirstOf(n, Segs(m)) = SubSeq(Segs(m), 1, k)
  BY <1>2 DEF FirstOf
<1> HIDE DEF k
<1>4. /\ SubSeq(Segs(m), 1, k) \in Seq(Nat) /\ Len(SubSeq(Segs(m), 1, k)) = IF 1 <= k THEN k - 1 + 1 ELSE 0
      /\ \A i \in 1..(k - 1 + 1) : SubSeq(Segs(m), 1, k)[i] = Segs(m)[1 + i - 1]
  <2>1. \A i \in 1..k : Segs(m)[i] \in Nat
    BY <1>0, <1>1, <1>2
  <2> QED
    BY <1>1, <2>1, SubSeqProperties
<1>5. Segs(k) \in Seq(Nat) /\ Len(Segs(k)) = k /\ \A i \in 1..k : Segs(k)[i] = i
  BY <1>1, SegmentsOf
<1>6. Len(SubSeq(Segs(m), 1, k)) = k /\ \A i \in 1..k : SubSeq(Segs(m), 1, k)[i] = i
  <2>1. \A i \in 1..k : i \in 1..(k - 1 + 1) /\ 1 + i - 1 = i /\ i \in 1..m
    BY <1>0, <1>1
  <2> QED
    BY <1>1, <1>2, <1>4, <2>1
<1>7. SubSeq(Segs(m), 1, k) = Segs(k)
  BY <1>4, <1>5, <1>6, SeqEqual
<1> QED
  BY <1>3, <1>7 DEF k

\* The bytes that follow what was read.
LEMMA Onward ==
    ASSUME NEW m \in 0..Size, NEW k \in Nat, m + k <= Size
    PROVE  /\ Len(Segments(m + 1, k)) = k /\ m + k \in 0..Size
           /\ Segs(m) \o Segments(m + 1, k) = Segs(m + k)
<1>0. m \in Nat /\ Size \in Nat /\ m + k \in 0..Size
  BY Constants
<1>1. Content \in Seq(Nat) /\ Len(Content) = Size
  BY <1>0 DEF Content
<1>2. Segments(m + 1, k) = SubSeq(Content, m + 1, m + k)
  <2>1. m + 1 + k - 1 = m + k
    BY <1>0
  <2> QED
    BY <2>1 DEF Segments
<1>3. Len(Segments(m + 1, k)) = k
  <2>1. \A i \in (m + 1)..(m + k) : Content[i] \in Nat
    BY <1>0, <1>1
  <2>2. Len(SubSeq(Content, m + 1, m + k)) = IF m + 1 <= m + k THEN m + k - (m + 1) + 1 ELSE 0
    BY <1>0, <2>1, SubSeqProperties
  <2> QED
    BY <1>0, <1>2, <2>2
<1>4. SubSeq(Content, 1, m) \o SubSeq(Content, m + 1, m + k) = SubSeq(Content, 1, m + k)
  <2>1. 1 \in 1..(Len(Content) + 1) /\ m \in (1 - 1)..Len(Content) /\ m + k \in m..Len(Content)
    BY <1>0, <1>1
  <2> QED
    BY <1>1, <2>1, ConcatAdjacentSubSeq
<1> QED
  BY <1>0, <1>2, <1>3, <1>4 DEF Segs

\* A window goes on where the handle stands; it sees the end when nothing is left.
LEMMA WindowRight ==
    ASSUME NEW h, NEW n \in Nat, open[h].at \in 1..(Size + 1)
    PROVE  LET w == Window(h, n)
               m == open[h].at - 1
               k == Len(w.data)
           IN /\ m \in 0..Size /\ k \in Nat /\ m + k \in 0..Size /\ w.eof \in BOOLEAN
              /\ Segs(m) \o w.data = Segs(m + k)
              /\ open[h].at + k = m + k + 1
              /\ w.eof => m + k = Size
              /\ w.eof = (n > Size - m)
              /\ ~w.eof => k = n
<1> DEFINE m == open[h].at - 1
           left == Size + 1 - open[h].at
           k == IF n < left THEN n ELSE left
           w == Window(h, n)
<1>0. Size \in Nat
  BY Constants
<1>1. m \in 0..Size /\ k \in Nat /\ m + k <= Size /\ open[h].at = m + 1 /\ left = Size - m
  BY <1>0
<1>2. w.data = Segments(open[h].at, k) /\ w.eof = (n > left)
  BY DEF Window
<1>3. n > left => m + k = Size
  BY <1>0, <1>1
<1>4. ~(n > left) => k = n
  BY <1>0, <1>1
<1>5. open[h].at + k = m + k + 1
  BY <1>1
<1> HIDE DEF m, left, k, w
<1>6. Len(Segments(m + 1, k)) = k /\ m + k \in 0..Size /\ Segs(m) \o Segments(m + 1, k) = Segs(m + k)
  BY <1>1, Onward
<1>7. w.data = Segments(m + 1, k)
  BY <1>1, <1>2
<1>8. w.eof = (n > Size - m) /\ w.eof \in BOOLEAN
  BY <1>1, <1>2
<1>9. Len(w.data) = k /\ Segs(m) \o w.data = Segs(m + k)
  BY <1>6, <1>7
<1>10. /\ m \in 0..Size /\ Len(w.data) \in Nat /\ m + Len(w.data) \in 0..Size /\ w.eof \in BOOLEAN
       /\ Segs(m) \o w.data = Segs(m + Len(w.data))
       /\ open[h].at + Len(w.data) = m + Len(w.data) + 1
       /\ w.eof => m + Len(w.data) = Size
       /\ w.eof = (n > Size - m)
       /\ ~w.eof => Len(w.data) = n
  BY <1>1, <1>2, <1>3, <1>4, <1>5, <1>6, <1>8, <1>9
<1> QED
  BY <1>10 DEF m, w

-----------------------------------------------------------------------------
(* The read-ahead's choice. *)

\* Of some blobs one is the first.
LEMMA FirstExists ==
    ASSUME NEW S \in SUBSET Blobs, S # {}
    PROVE  \E b \in S : \A d \in S : b <= d
<1> SUFFICES ASSUME \A b \in S : \E d \in S : ~(b <= d) PROVE FALSE
  OBVIOUS
<1> DEFINE n == Cardinality(Blobs)
           U == {x \in 1..n : \E s \in S : s <= x}
           f == [x \in U |-> x - 1]
<1>0. n \in Nat /\ Blobs = 1..n
  BY Constants
<1> HIDE DEF n
<1>1. IsFiniteSet(U)
  <2>1. IsFiniteSet(1..n) /\ U \in SUBSET (1..n)
    BY <1>0, FS_Interval
  <2> QED
    BY <2>1, FS_Subset
<1>2. n \in U
  <2>1. PICK s \in S : TRUE
    OBVIOUS
  <2>2. s \in 1..n /\ s <= n /\ n \in 1..n
    BY <1>0
  <2> QED
    BY <2>2
<1>3. \A x \in U : x - 1 \in U
  <2> SUFFICES ASSUME NEW x \in U PROVE x - 1 \in U
    OBVIOUS
  <2>1. PICK s \in S : s <= x
    OBVIOUS
  <2>2. PICK t \in S : ~(s <= t)
    OBVIOUS
  <2>3. s \in 1..n /\ t \in 1..n /\ x \in 1..n
    BY <1>0
  <2>4. t <= x - 1 /\ x - 1 \in 1..n
    BY <1>0, <2>1, <2>2, <2>3
  <2> QED
    BY <2>4
<1>4. \A x \in U : x \in Int
  OBVIOUS
<1> HIDE DEF U
<1>5. f \in Injection(U, U)
  <2>1. f \in [U -> U]
    BY <1>3
  <2>2. \A x, y \in U : f[x] = f[y] => x = y
    BY <1>4
  <2> QED
    BY <2>1, <2>2 DEF Injection, IsInjective
<1>6. f \in Surjection(U, U)
  <2> HIDE DEF f
  <2> QED
    BY <1>1, <1>5, FS_Injection
<1>7. PICK x \in U : f[x] = n
  BY <1>2, <1>6 DEF Surjection
<1>8. x \in 1..n /\ x - 1 = n
  BY <1>7 DEF U
<1> QED
  BY <1>0, <1>8

\* The next to be fetched is one that may be.
LEMMA NextEligible ==
    ASSUME NEW p
    PROVE  Nxt(p) = Nobody \/ (Nxt(p) \in Blobs /\ p.entry[Nxt(p)].state = "queued")
<1> DEFINE q == {b \in Blobs : Eligible(p, b)}
<1>1. CASE q = {}
  BY <1>1 DEF Nxt
<1>2. CASE q # {}
  <2>1. \E b \in q : \A d \in q : b <= d
    BY <1>2, FirstExists
  <2>2. Nxt(p) = CHOOSE b \in q : \A d \in q : b <= d
    BY <1>2 DEF Nxt
  <2>3. Nxt(p) \in q
    BY <2>1, <2>2
  <2> QED
    BY <2>3 DEF Eligible
<1> QED
  BY <1>1, <1>2

\* p is a, with x for b.
WithEntry(p, a, b, x) ==
    /\ p \in AheadKind /\ p.handle = a.handle /\ p.running = a.running /\ p.closed = a.closed
    /\ p.entry[b] = x /\ \A d \in Blobs : d # b => p.entry[d] = a.entry[d]

\* What changes when one entry does,
LEMMA OneEntry ==
    ASSUME NEW a \in AheadKind, NEW b \in Blobs, NEW x \in EntryKind
    PROVE  WithEntry([a EXCEPT !.entry[b] = x], a, b, x)
<1> DEFINE f == [a.entry EXCEPT ![b] = x]
           p == [a EXCEPT !.entry[b] = x]
<1>1. f \in [Blobs -> EntryKind] /\ f[b] = x /\ \A d \in Blobs : d # b => f[d] = a.entry[d]
  BY DEF AheadKind
<1>2. p = [a EXCEPT !.entry = f]
  OBVIOUS
<1> SUFFICES WithEntry(p, a, b, x)
  OBVIOUS
<1> HIDE DEF f, p
<1>3. p \in AheadKind /\ p.handle = a.handle /\ p.running = a.running /\ p.closed = a.closed /\ p.entry = f
  BY <1>1, <1>2 DEF AheadKind
<1> QED
  BY <1>1, <1>3 DEF WithEntry

\* and what the read-ahead has in use.
LEMMA OneReleased ==
    ASSUME NEW a \in AheadKind, NEW b \in Blobs, NEW x \in EntryKind, NEW u \in Int
    PROVE  WithEntry([a EXCEPT !.entry[b] = x, !.used = u], a, b, x)
<1> DEFINE q == [a EXCEPT !.entry[b] = x]
           p == [a EXCEPT !.entry[b] = x, !.used = u]
<1>1. WithEntry(q, a, b, x)
  BY OneEntry
<1>2. p = [q EXCEPT !.used = u]
  OBVIOUS
<1> SUFFICES WithEntry(p, a, b, x)
  OBVIOUS
<1> HIDE DEF q, p
<1>3. /\ p \in AheadKind /\ p.handle = q.handle /\ p.running = q.running /\ p.closed = q.closed /\ p.entry = q.entry
  BY <1>1, <1>2 DEF WithEntry, AheadKind
<1> QED
  BY <1>1, <1>3 DEF WithEntry

\* What a kick comes to: nothing, a blob that is inline, or a slice of the op-lock.
LEMMA KickParts ==
    ASSUME NEW p \in AheadKind, Kick(p)
    PROVE  \/ ahead' = p /\ inline' = inline /\ JobsOf(p) = <<>>
           \/ \E b \in Blobs :
                /\ p.running = Nobody /\ p.entry[b].state = "queued"
                /\ ahead' \in AheadKind
                /\ ahead'.running = b /\ ahead'.closed = p.closed
                /\ ahead'.entry[b].claimed = p.entry[b].claimed
                /\ \A d \in Blobs : d # b => ahead'.entry[d] = p.entry[d]
                /\ \/ /\ ahead'.entry[b].state = "done" /\ ahead'.entry[b].bytes = Content
                      /\ ahead'.handle = p.handle /\ ahead'.used = p.used + Size
                      /\ b \in inline.held /\ inline' = Taken({b})
                      /\ inline'.held = inline.held \ {b} /\ JobsOf(p) = <<>>
                   \/ /\ ahead'.entry[b].state = "fetching" /\ ahead'.entry[b].bytes = p.entry[b].bytes
                      /\ ahead'.handle = NoHandle /\ ahead'.used = p.used
                      /\ inline' = inline /\ b \notin inline.held /\ JobsOf(p) = <<Job("slice", b, Nobody)>>
<1> DEFINE b == Nxt(p)
<1>1. CASE p.running # Nobody \/ b = Nobody
  BY <1>1 DEF Kick, JobsOf, Kicks
<1>2. CASE p.running = Nobody /\ b # Nobody
  <2>1. b \in Blobs /\ p.entry[b].state = "queued"
    BY <1>2, NextEligible
  <2> DEFINE e == p.entry[b]
  <2>0. e \in EntryKind /\ p.entry \in [Blobs -> EntryKind] /\ p.used \in Int
    BY <2>1 DEF AheadKind
  <2>3. Size \in Nat /\ Content \in Datas
    BY Constants, Whole0
  <2>2. CASE b \in inline.held
    <3>1. /\ ahead' = [p EXCEPT !.running = b, !.entry[b].state = "done",
                               !.entry[b].bytes = Content, !.used = @ + Size]
          /\ inline' = Taken({b})
      BY <1>2, <2>2 DEF Kick
    <3> DEFINE x == [[e EXCEPT !.state = "done"] EXCEPT !.bytes = Content]
    <3>2. x \in EntryKind /\ x.state = "done" /\ x.bytes = Content /\ x.claimed = e.claimed
      BY <2>0, <2>3 DEF EntryKind
    <3>3. ahead' = [p EXCEPT !.running = b, !.entry[b] = x, !.used = @ + Size]
      <4>1. [p.entry EXCEPT ![b] = [[p.entry[b] EXCEPT !.state = "done"] EXCEPT !.bytes = Content]] = [p.entry EXCEPT ![b] = x]
        OBVIOUS
      <4>2. ahead' = [[[p EXCEPT !.running = b] EXCEPT !.entry = [p.entry EXCEPT ![b] = x]] EXCEPT !.used = @ + Size]
        BY ZenonT(40), <2>0, <2>1, <3>1, <4>1 DEF AheadKind
      <4> QED
        BY <4>2
    <3> HIDE DEF x
    <3>4. /\ ahead' \in AheadKind /\ ahead'.running = b /\ ahead'.closed = p.closed /\ ahead'.handle = p.handle
          /\ ahead'.entry[b] = x /\ \A d \in Blobs : d # b => ahead'.entry[d] = p.entry[d]
      <4>1. /\ ahead'.running = b /\ ahead'.closed = p.closed /\ ahead'.handle = p.handle
            /\ ahead'.entry = [p.entry EXCEPT ![b] = x]
        BY <3>3 DEF AheadKind
      <4>2. ahead'.entry \in [Blobs -> EntryKind]
        BY <2>0, <2>1, <3>2, <4>1
      <4>3. p.used + Size \in Int
        BY <2>0, <2>3
      <4>4. [p EXCEPT !.running = b, !.used = @ + Size] \in AheadKind
        BY <2>1, <4>3 DEF AheadKind
      <4>5. ahead' = [[p EXCEPT !.running = b, !.used = @ + Size] EXCEPT !.entry = ahead'.entry]
        BY <3>3, <4>1 DEF AheadKind
      <4>6. ahead' \in AheadKind
        BY <4>2, <4>4, <4>5 DEF AheadKind
      <4> QED
        BY <2>0, <2>1, <4>1, <4>6
    <3>5. inline'.held = inline.held \ {b} /\ inline' = Taken({b})
      BY <3>1 DEF Taken
    <3>7. ahead'.used = p.used + Size
      BY <3>3 DEF AheadKind
    <3>6. JobsOf(p) = <<>>
      BY <2>2 DEF JobsOf, Kicks
    <3> QED
      BY <1>2, <2>1, <2>2, <3>2, <3>4, <3>5, <3>6, <3>7
  <2>4. CASE b \notin inline.held
    <3>1. /\ ahead' = [p EXCEPT !.running = b, !.handle = NoHandle, !.entry[b].state = "fetching"]
          /\ inline' = inline
      BY <1>2, <2>4 DEF Kick
    <3> DEFINE x == [e EXCEPT !.state = "fetching"]
    <3>2. x \in EntryKind /\ x.state = "fetching" /\ x.bytes = e.bytes /\ x.claimed = e.claimed
      BY <2>0 DEF EntryKind
    <3>3. ahead' = [p EXCEPT !.running = b, !.handle = NoHandle, !.entry[b] = x]
      BY <2>0, <2>1, <3>1 DEF AheadKind
    <3> HIDE DEF x
    <3>4. /\ ahead' \in AheadKind /\ ahead'.running = b /\ ahead'.closed = p.closed /\ ahead'.handle = NoHandle
          /\ ahead'.entry[b] = x /\ \A d \in Blobs : d # b => ahead'.entry[d] = p.entry[d]
      BY <2>0, <2>1, <3>2, <3>3 DEF AheadKind
    <3>6. JobsOf(p) = <<Job("slice", b, Nobody)>>
      BY <1>2, <2>4 DEF JobsOf, Kicks, Slice
    <3>7. ahead'.used = p.used
      BY <3>3 DEF AheadKind
    <3> QED
      BY <1>2, <2>1, <2>4, <3>1, <3>2, <3>4, <3>6, <3>7
  <2> QED
    BY <2>2, <2>4
<1> QED
  BY <1>1, <1>2

Jobs == {chain[k] : k \in 1..Len(chain)}

\* Two jobs of which the lock holds one at most: of one caller, of the fetch, and
\* of one kind for one blob.
Alike(x, y) ==
    \/ x.kind \in Fetches /\ y.kind \in Fetches
    \/ x.kind \in Calls /\ y.kind \in Calls /\ x.who = y.who
    \/ x.kind = y.kind /\ x.kind \notin Calls \cup Fetches /\ x.b = y.b

\* The op-lock: no two jobs are alike, and after that which ends the transaction
\* nothing comes.
Line ==
    /\ \A i, j \in 1..Len(chain) : Alike(chain[i], chain[j]) => i = j
    /\ \A k \in 1..Len(chain) : chain[k].kind = "end" => k = Len(chain) /\ ~alive
    /\ ~alive /\ chain # <<>> => chain[Len(chain)].kind = "end"

\* A slice that nobody waits for any more runs before the job that ends iteration.
Unwanted(b) == ahead.closed /\ ~ahead.entry[b].claimed
SliceFirst(b) ==
    \A i \in 1..Len(chain) : chain[i].kind = "slice" /\ chain[i].b = b =>
        \E j \in 1..Len(chain) : i < j /\ chain[j].kind = "leave"

-----------------------------------------------------------------------------
(* The op-lock. *)

\* The jobs on the lock are jobs, and the running one is the first.
LEMMA JobTypes ==
    ASSUME Kinds
    PROVE  /\ Len(chain) \in Nat /\ Jobs \subseteq JobKind
           /\ \A k \in 1..Len(chain) : chain[k] \in JobKind /\ chain[k] \in Jobs
           /\ chain # <<>> => 1 \in 1..Len(chain) /\ job = chain[1] /\ job \in Jobs /\ job \in JobKind
<1>1. chain \in Seq(JobKind)
  BY DEF Kinds
<1>2. Len(chain) \in Nat /\ \A k \in 1..Len(chain) : chain[k] \in JobKind
  BY <1>1
<1>3. chain # <<>> => 1 \in 1..Len(chain) /\ job = chain[1]
  BY <1>1, EmptySeq DEF job
<1> QED
  BY <1>2, <1>3 DEF Jobs

\* Jobs that are alike are one.
LEMMA OneOf ==
    ASSUME Kinds, Line
    PROVE  \A x, y \in Jobs : Alike(x, y) => x = y
BY DEF Line, Jobs

\* A job is put on the lock.
LEMMA Added ==
    ASSUME Kinds, Line, NEW j \in JobKind, \A x \in Jobs : ~Alike(x, j), alive,
           alive' = (j.kind # "end"), chain' = Append(chain, j)
    PROVE  /\ chain' \in Seq(JobKind) /\ Line' /\ Jobs' = Jobs \cup {j}
           /\ chain' # <<>> /\ (chain # <<>> => job' = job)
           /\ Len(chain') = Len(chain) + 1 /\ chain'[Len(chain) + 1] = j
           /\ \A i \in 1..Len(chain) : chain'[i] = chain[i]
<1> DEFINE n == Len(chain)
<1>1. /\ chain' \in Seq(JobKind) /\ n \in Nat /\ Len(chain') = n + 1 /\ chain' # <<>>
      /\ (\A i \in 1..n : chain'[i] = chain[i]) /\ chain'[n + 1] = j
  BY AppendProperties, LenProperties DEF Kinds
<1>2. chain # <<>> => job' = job
  BY HeadTailAppend DEF Kinds, job
<1>3. \A i \in 1..(n + 1) : i \in 1..n \/ i = n + 1
  BY <1>1
<1>4. \A i \in 1..n : i \in 1..(n + 1) /\ i # n + 1
  BY <1>1
<1>5. n + 1 \in 1..(n + 1)
  BY <1>1
<1>6. \A i \in 1..n : chain[i] \in Jobs
  BY DEF Jobs
<1> HIDE DEF n
<1>7. Jobs' = Jobs \cup {j}
  <2>1. ASSUME NEW x \in Jobs' PROVE x \in Jobs \cup {j}
    <3>1. PICK i \in 1..(n + 1) : x = chain'[i]
      BY <1>1, <2>1 DEF Jobs
    <3> QED
      BY <1>1, <1>3, <1>6, <3>1
  <2>2. ASSUME NEW x \in Jobs PROVE x \in Jobs'
    <3>1. PICK i \in 1..n : x = chain[i]
      BY <2>2 DEF Jobs, n
    <3> QED
      BY <1>1, <1>4, <3>1 DEF Jobs
  <2>3. j \in Jobs'
    BY <1>1, <1>5 DEF Jobs
  <2> QED
    BY <2>1, <2>2, <2>3
<1>8. \A x \in Jobs : ~Alike(j, x)
  BY DEF Alike
<1>9. ASSUME NEW i \in 1..(n + 1), NEW k \in 1..(n + 1), Alike(chain'[i], chain'[k])
      PROVE  i = k
  <2>1. CASE i \in 1..n /\ k \in 1..n
    BY <1>1, <1>9, <2>1 DEF Line, n
  <2>2. CASE i \in 1..n /\ k = n + 1
    BY <1>1, <1>6, <1>9, <2>2
  <2>3. CASE i = n + 1 /\ k \in 1..n
    BY <1>1, <1>6, <1>8, <1>9, <2>3
  <2> QED
    BY <1>3, <2>1, <2>2, <2>3
<1>10. \A i \in 1..n : chain[i].kind # "end"
  BY DEF Line, n
<1>11. Line'
  <2>1. \A k \in 1..(n + 1) : chain'[k].kind = "end" => k = n + 1 /\ ~alive'
    BY <1>1, <1>3, <1>10
  <2>2. ~alive' => chain'[n + 1].kind = "end"
    BY <1>1
  <2> QED
    BY <1>1, <1>9, <2>1, <2>2 DEF Line
<1> QED
  BY <1>1, <1>2, <1>7, <1>11 DEF n

\* The first job has run.
LEMMA Removed ==
    ASSUME Kinds, Line, chain # <<>>, chain' = Tail(chain), alive' = alive
    PROVE  /\ chain' \in Seq(JobKind) /\ Line' /\ Jobs' = Jobs \ {job}
           /\ job.kind = "end" => chain' = <<>>
           /\ ~alive /\ job.kind # "end" => chain' # <<>>
           /\ Len(chain) = Len(chain') + 1 /\ \A i \in 1..Len(chain') : chain'[i] = chain[i + 1]
<1> DEFINE n == Len(chain')
<1>1. /\ chain' \in Seq(JobKind) /\ n \in Nat /\ Len(chain) = n + 1
      /\ (\A i \in 1..n : chain'[i] = chain[i + 1])
  BY HeadTailProperties, LenProperties, EmptySeq DEF Kinds
<1>2. job = chain[1]
  BY JobTypes
<1>3. \A i \in 1..n : i + 1 \in 1..(n + 1) /\ i + 1 # 1 /\ i \in Nat
  BY <1>1
<1>4. \A k \in 1..(n + 1) : k = 1 \/ (k - 1 \in 1..n /\ k = (k - 1) + 1)
  BY <1>1
<1>5. 1 \in 1..(n + 1) /\ n + 1 \in 1..(n + 1) /\ (chain' = <<>> <=> n = 0)
  BY <1>1, EmptySeq
<1> HIDE DEF n
<1>6. \A i, k \in 1..(n + 1) : Alike(chain[i], chain[k]) => i = k
  BY <1>1 DEF Line
<1>7. \A x \in JobKind : Alike(x, x)
  BY DEF Alike
<1>8. Jobs' = Jobs \ {job}
  <2>1. ASSUME NEW x \in Jobs' PROVE x \in Jobs /\ x # job
    <3>1. PICK i \in 1..n : x = chain'[i]
      BY <2>1 DEF Jobs, n
    <3>2. x = chain[i + 1] /\ i + 1 \in 1..(n + 1) /\ i + 1 # 1
      BY <1>1, <1>3, <3>1
    <3>3. x \in Jobs /\ x \in JobKind
      BY <1>1, <3>2, JobTypes
    <3>4. x # job
      BY <1>2, <1>5, <1>6, <1>7, <3>2, <3>3
    <3> QED
      BY <3>3, <3>4
  <2>2. ASSUME NEW x \in Jobs, x # job PROVE x \in Jobs'
    <3>1. PICK k \in 1..(n + 1) : x = chain[k]
      BY <1>1, <2>2 DEF Jobs
    <3>2. k # 1
      BY <1>2, <2>2, <3>1
    <3>3. k - 1 \in 1..n /\ x = chain'[k - 1]
      BY <1>1, <1>4, <3>1, <3>2
    <3> QED
      BY <3>3 DEF Jobs, n
  <2> QED
    BY <2>1, <2>2
<1>9. ASSUME NEW i \in 1..n, NEW k \in 1..n, Alike(chain'[i], chain'[k])
      PROVE  i = k
  <2>1. i + 1 = k + 1
    BY <1>1, <1>3, <1>6, <1>9
  <2> QED
    BY <1>3, <2>1
<1>10. \A i \in 1..n : chain'[i].kind = "end" => i = n /\ ~alive'
  <2>1. \A i \in 1..n : chain[i + 1].kind = "end" => i + 1 = n + 1 /\ ~alive
    BY <1>1, <1>3 DEF Line
  <2> QED
    BY <1>1, <1>3, <2>1
<1>11. ~alive' /\ chain' # <<>> => chain'[n].kind = "end"
  <2>1. n # 0 => n \in 1..n
    BY <1>1
  <2>2. ~alive => chain[n + 1].kind = "end"
    BY <1>1 DEF Line
  <2> QED
    BY <1>1, <1>5, <2>1, <2>2
<1>12. Line'
  BY <1>9, <1>10, <1>11 DEF Line, n
<1>13. job.kind = "end" => chain' = <<>>
  <2>1. job.kind = "end" => 1 = n + 1
    BY <1>1, <1>2, <1>5 DEF Line
  <2> QED
    BY <1>1, <1>5, <2>1
<1>14. ~alive /\ job.kind # "end" => chain' # <<>>
  <2>1. ~alive => chain[n + 1].kind = "end"
    BY <1>1 DEF Line
  <2> QED
    BY <1>1, <1>2, <1>5, <2>1
<1> QED
  BY <1>1, <1>8, <1>12, <1>13, <1>14 DEF n

\* The first job asks: its handle is noted.
LEMMA Awaited ==
    ASSUME Kinds, Line, chain # <<>>, alive' = alive, NEW h \in Handles \cup {NoHandle},
           chain' = [chain EXCEPT ![1].h = h]
    PROVE  /\ chain' \in Seq(JobKind) /\ Line' /\ Jobs' = (Jobs \ {job}) \cup {[job EXCEPT !.h = h]}
           /\ job' = [job EXCEPT !.h = h] /\ job' \in JobKind /\ chain' # <<>>
           /\ Len(chain') = Len(chain) /\ chain'[1] = job'
           /\ \A i \in 1..Len(chain) : i # 1 => chain'[i] = chain[i]
<1> DEFINE n == Len(chain)
           x == [job EXCEPT !.h = h]
<1>1. n \in Nat /\ 1 \in 1..n /\ job = chain[1] /\ job \in JobKind /\ chain \in Seq(JobKind)
  BY JobTypes DEF Kinds
<1>2. x \in JobKind /\ x.kind = job.kind /\ x.b = job.b /\ x.who = job.who
  BY <1>1 DEF JobKind
<1>3. chain' = [chain EXCEPT ![1] = x]
  BY <1>1
<1> HIDE DEF x
<1>4. /\ chain' \in Seq(JobKind) /\ Len(chain') = n /\ chain'[1] = x
      /\ \A i \in 1..n : i # 1 => chain'[i] = chain[i]
  <2>1. 1 \in 1..Len(chain)
    BY <1>1
  <2> HIDE DEF n
  <2>2. /\ chain' \in Seq(JobKind) /\ Len(chain') = Len(chain)
        /\ \A i \in 1..Len(chain) : chain'[i] = IF i = 1 THEN x ELSE chain[i]
    BY <1>1, <1>2, <1>3, <2>1, ExceptSeq
  <2> QED
    BY <1>1, <2>1, <2>2 DEF n
<1> HIDE DEF n
<1>5. job' = x /\ chain' # <<>>
  <2>1. chain' # <<>>
    BY <1>1, <1>4, EmptySeq
  <2> QED
    BY <1>4, <2>1 DEF job
<1>6. \A i, k \in 1..n : Alike(chain[i], chain[k]) => i = k
  BY DEF Line, n
<1>7. \A y \in JobKind : Alike(y, y)
  BY DEF Alike
<1>8. Jobs' = (Jobs \ {job}) \cup {x}
  <2>1. ASSUME NEW y \in Jobs' PROVE y \in (Jobs \ {job}) \cup {x}
    <3>1. PICK i \in 1..n : y = chain'[i]
      BY <1>4, <2>1 DEF Jobs
    <3>2. CASE i = 1
      BY <1>4, <3>1, <3>2
    <3>3. CASE i # 1
      <4>1. y = chain[i] /\ y \in Jobs /\ y \in JobKind
        BY <1>4, <3>1, <3>3, JobTypes DEF n
      <4>2. y # job
        BY <1>1, <1>6, <1>7, <3>3, <4>1
      <4> QED
        BY <4>1, <4>2
    <3> QED
      BY <3>2, <3>3
  <2>2. ASSUME NEW y \in Jobs, y # job PROVE y \in Jobs'
    <3>1. PICK i \in 1..n : y = chain[i]
      BY <2>2 DEF Jobs, n
    <3> QED
      BY <1>1, <1>4, <2>2, <3>1 DEF Jobs
  <2>3. x \in Jobs'
    BY <1>1, <1>4 DEF Jobs
  <2> QED
    BY <2>1, <2>2, <2>3
<1>9. \A i \in 1..n : chain'[i].kind = chain[i].kind /\ chain'[i].b = chain[i].b /\ chain'[i].who = chain[i].who
  BY <1>1, <1>2, <1>4
<1>10. Line'
  <2>1. \A i, k \in 1..n : Alike(chain'[i], chain'[k]) => Alike(chain[i], chain[k])
    BY <1>9 DEF Alike
  <2> QED
    BY <1>1, <1>4, <1>6, <1>9, <2>1 DEF Line, n
<1> QED
  BY <1>2, <1>4, <1>5, <1>8, <1>10 DEF n, x

\* The first job has run and puts another on the lock.
LEMMA Replaced ==
    ASSUME Kinds, Line, chain # <<>>, alive, alive' = alive, NEW j \in JobKind, j.kind # "end",
           \A x \in Jobs : x # job => ~Alike(x, j), chain' = Tail(chain) \o <<j>>
    PROVE  /\ chain' \in Seq(JobKind) /\ Line' /\ Jobs' = (Jobs \ {job}) \cup {j} /\ chain' # <<>>
           /\ Len(chain') = Len(chain) /\ chain'[Len(chain)] = j
           /\ \A i \in 1..(Len(chain) - 1) : chain'[i] = chain[i + 1]
<1> DEFINE t == Tail(chain)
           n == Len(t)
<1>1. /\ t \in Seq(JobKind) /\ n \in Nat /\ Len(chain) = n + 1 /\ \A i \in 1..n : t[i] = chain[i + 1]
  BY HeadTailProperties, LenProperties, EmptySeq DEF Kinds
<1> HIDE DEF t
<1>2. chain' = Append(t, j)
  BY Zenon, <1>1, AppendIsConcat DEF t
<1>3. /\ chain' \in Seq(JobKind) /\ Len(chain') = n + 1 /\ chain' # <<>>
      /\ (\A i \in 1..n : chain'[i] = t[i]) /\ chain'[n + 1] = j
  <2>1. t \in Seq(JobKind) /\ n = Len(t)
    BY <1>1
  <2> HIDE DEF n
  <2>2. /\ Append(t, j) \in Seq(JobKind) /\ Append(t, j) # <<>> /\ Len(Append(t, j)) = Len(t) + 1
        /\ (\A i \in 1..Len(t) : Append(t, j)[i] = t[i]) /\ Append(t, j)[Len(t) + 1] = j
    BY <2>1, AppendProperties
  <2> QED
    BY <1>2, <2>1, <2>2
<1> HIDE DEF n
<1>4. \A i \in 1..n : chain'[i] = chain[i + 1] /\ i + 1 \in 1..(n + 1) /\ i + 1 # 1 /\ i \in 1..(n + 1) /\ i \in Nat
  BY <1>1, <1>3 DEF n
<1>5. \A i \in 1..(n + 1) : i \in 1..n \/ i = n + 1
  BY <1>1
<1>6. \A k \in 1..(n + 1) : k = 1 \/ (k - 1 \in 1..n /\ k = (k - 1) + 1)
  BY <1>1
<1>7. job = chain[1] /\ 1 \in 1..(n + 1) /\ n + 1 \in 1..(n + 1)
  BY <1>1, JobTypes
<1>8. \A i, k \in 1..(n + 1) : Alike(chain[i], chain[k]) => i = k
  BY <1>1 DEF Line
<1>9. \A y \in JobKind : Alike(y, y)
  BY DEF Alike
<1>10. ASSUME NEW i \in 1..n PROVE chain'[i] \in Jobs /\ chain'[i] # job
  <2>1. chain[i + 1] \in Jobs /\ chain[i + 1] \in JobKind
    BY <1>1, <1>4, JobTypes
  <2>2. chain[i + 1] # job
    BY <1>4, <1>7, <1>8, <1>9, <2>1
  <2> QED
    BY <1>4, <2>1, <2>2
<1>11. Jobs' = (Jobs \ {job}) \cup {j}
  <2>1. ASSUME NEW y \in Jobs' PROVE y \in (Jobs \ {job}) \cup {j}
    <3>1. PICK i \in 1..(n + 1) : y = chain'[i]
      BY <1>3, <2>1 DEF Jobs
    <3> QED
      BY <1>3, <1>5, <1>10, <3>1
  <2>2. ASSUME NEW y \in Jobs, y # job PROVE y \in Jobs'
    <3>1. PICK k \in 1..(n + 1) : y = chain[k]
      BY <1>1, <2>2 DEF Jobs
    <3>2. k # 1
      BY <1>7, <2>2, <3>1
    <3>3. k - 1 \in 1..n /\ y = chain'[k - 1] /\ k - 1 \in 1..(n + 1)
      BY <1>4, <1>6, <3>1, <3>2
    <3> QED
      BY <1>3, <3>3 DEF Jobs
  <2>3. j \in Jobs'
    BY <1>3, <1>7 DEF Jobs
  <2> QED
    BY <2>1, <2>2, <2>3
<1>12. \A x \in Jobs : x # job => ~Alike(j, x)
  BY DEF Alike
<1>13. ASSUME NEW i \in 1..(n + 1), NEW k \in 1..(n + 1), Alike(chain'[i], chain'[k])
       PROVE  i = k
  <2>1. CASE i \in 1..n /\ k \in 1..n
    <3>1. i + 1 = k + 1
      BY <1>4, <1>8, <1>13, <2>1
    <3> QED
      BY <1>4, <2>1, <3>1
  <2>2. CASE i \in 1..n /\ k = n + 1
    BY <1>3, <1>10, <1>13, <2>2
  <2>3. CASE i = n + 1 /\ k \in 1..n
    BY <1>3, <1>10, <1>12, <1>13, <2>3
  <2> QED
    BY <1>5, <2>1, <2>2, <2>3
<1>14. \A i \in 1..(n + 1) : chain'[i].kind # "end"
  <2>1. \A i \in 1..n : chain[i + 1].kind # "end"
    BY <1>1, <1>4 DEF Line
  <2> QED
    BY <1>3, <1>4, <1>5, <2>1
<1>15. Line'
  BY <1>3, <1>13, <1>14 DEF Line
<1>16. \A i \in 1..(Len(chain) - 1) : i \in 1..n
  BY <1>1
<1> QED
  BY <1>1, <1>3, <1>4, <1>11, <1>15, <1>16

-----------------------------------------------------------------------------
(* The slice that nobody waits for. *)

\* It still is when a job is put on the lock that is not its slice,
LEMMA SlicesAdded ==
    ASSUME Kinds, NEW j \in JobKind, chain' = Append(chain, j), NEW b,
           j.kind = "leave" \/ (SliceFirst(b) /\ ~(j.kind = "slice" /\ j.b = b))
    PROVE  SliceFirst(b)'
<1> DEFINE n == Len(chain)
<1>1. /\ n \in Nat /\ Len(chain') = n + 1 /\ chain'[n + 1] = j /\ \A i \in 1..n : chain'[i] = chain[i]
  BY AppendProperties, LenProperties DEF Kinds
<1>2. \A i \in 1..(n + 1) : i \in 1..n \/ i = n + 1
  BY <1>1
<1>3. \A i \in 1..n : i \in 1..(n + 1) /\ i < n + 1 /\ n + 1 \in 1..(n + 1)
  BY <1>1
<1> HIDE DEF n
<1> SUFFICES ASSUME NEW i \in 1..(n + 1), chain'[i].kind = "slice", chain'[i].b = b
             PROVE  \E k \in 1..(n + 1) : i < k /\ chain'[k].kind = "leave"
  <2>1. 1..Len(chain') = 1..(n + 1)
    BY <1>1
  <2> QED
    BY <2>1 DEF SliceFirst
<1>4. i \in 1..n
  BY <1>1, <1>2
<1>5. CASE j.kind = "leave"
  BY <1>1, <1>3, <1>4, <1>5
<1>6. CASE SliceFirst(b)
  <2>1. PICK k \in 1..n : i < k /\ chain[k].kind = "leave"
    BY <1>1, <1>4, <1>6 DEF SliceFirst, n
  <2> QED
    BY <1>1, <1>3, <2>1
<1>7. CASE ~(j.kind = "leave") /\ ~SliceFirst(b)
  BY <1>7
<1> QED
  BY <1>5, <1>6, <1>7

\* when the first job has run,
LEMMA SlicesRemoved ==
    ASSUME Kinds, chain # <<>>, chain' = Tail(chain), NEW b, SliceFirst(b)
    PROVE  SliceFirst(b)'
<1> DEFINE n == Len(chain')
<1>1. n \in Nat /\ Len(chain) = n + 1 /\ \A i \in 1..n : chain'[i] = chain[i + 1]
  BY HeadTailProperties, LenProperties, EmptySeq DEF Kinds
<1>2. \A i \in 1..n : i + 1 \in 1..(n + 1) /\ i \in Nat
  BY <1>1
<1> HIDE DEF n
<1> SUFFICES ASSUME NEW i \in 1..n, chain'[i].kind = "slice", chain'[i].b = b
             PROVE  \E k \in 1..n : i < k /\ chain'[k].kind = "leave"
  BY DEF SliceFirst, n
<1>3. PICK k \in 1..(n + 1) : i + 1 < k /\ chain[k].kind = "leave"
  BY <1>1, <1>2 DEF SliceFirst
<1>4. k - 1 \in 1..n /\ i < k - 1 /\ (k - 1) + 1 = k
  BY <1>1, <1>2, <1>3
<1> QED
  BY <1>1, <1>3, <1>4

\* when that has put another on the lock,
LEMMA SlicesReplaced ==
    ASSUME Kinds, chain # <<>>, NEW j \in JobKind, chain' = Tail(chain) \o <<j>>, NEW b,
           SliceFirst(b), ~(j.kind = "slice" /\ j.b = b)
    PROVE  SliceFirst(b)'
<1> DEFINE t == Tail(chain)
           n == Len(t)
<1>1. /\ t \in Seq(JobKind) /\ n \in Nat /\ Len(chain) = n + 1 /\ \A i \in 1..n : t[i] = chain[i + 1]
  BY HeadTailProperties, LenProperties, EmptySeq DEF Kinds
<1> HIDE DEF t
<1>2. chain' = Append(t, j)
  BY Zenon, <1>1, AppendIsConcat DEF t
<1>3. /\ Append(t, j) \in Seq(JobKind) /\ Append(t, j) # <<>> /\ Len(Append(t, j)) = Len(t) + 1
      /\ (\A i \in 1..Len(t) : Append(t, j)[i] = t[i]) /\ Append(t, j)[Len(t) + 1] = j
  BY <1>1, AppendProperties
<1>4. /\ Len(chain') = n + 1 /\ chain'[n + 1] = j /\ \A i \in 1..n : chain'[i] = chain[i + 1]
  BY <1>1, <1>2, <1>3
<1>5. \A i \in 1..(n + 1) : i \in 1..n \/ i = n + 1
  BY <1>1
<1>6. \A i \in 1..n : i + 1 \in 1..(n + 1) /\ i \in Nat /\ i \in 1..(n + 1)
  BY <1>1
<1> HIDE DEF n
<1>7. ASSUME NEW i \in 1..(n + 1), chain'[i].kind = "slice", chain'[i].b = b
      PROVE  \E k \in 1..(n + 1) : i < k /\ chain'[k].kind = "leave"
  <2>1. i \in 1..n
    BY <1>4, <1>5, <1>7
  <2>2. PICK k \in 1..(n + 1) : i + 1 < k /\ chain[k].kind = "leave"
    BY <1>1, <1>4, <1>6, <1>7, <2>1 DEF SliceFirst
  <2>3. k - 1 \in 1..n /\ i < k - 1 /\ (k - 1) + 1 = k
    BY <1>1, <1>6, <2>1, <2>2
  <2> QED
    BY <1>4, <1>6, <2>2, <2>3
<1>8. 1..Len(chain') = 1..(n + 1)
  BY <1>4
<1> SUFFICES ASSUME NEW i \in 1..Len(chain'), chain'[i].kind = "slice", chain'[i].b = b
             PROVE  \E k \in 1..Len(chain') : i < k /\ chain'[k].kind = "leave"
  BY DEF SliceFirst
<1> QED
  BY <1>7, <1>8

\* and when it asks.
LEMMA SlicesAwaited ==
    ASSUME Kinds, Line, chain # <<>>, alive' = alive, NEW h \in Handles \cup {NoHandle},
           chain' = [chain EXCEPT ![1].h = h], NEW b, SliceFirst(b)
    PROVE  SliceFirst(b)'
<1> DEFINE n == Len(chain)
<1>1. /\ Len(chain') = n /\ chain'[1] = [job EXCEPT !.h = h]
      /\ \A i \in 1..n : i # 1 => chain'[i] = chain[i]
  BY Awaited
<1>2. job = chain[1] /\ job \in JobKind
  BY JobTypes
<1> HIDE DEF n
<1>3. chain'[1].kind = chain[1].kind /\ chain'[1].b = chain[1].b
  BY <1>1, <1>2 DEF JobKind
<1>4. \A i \in 1..n : chain'[i].kind = chain[i].kind /\ chain'[i].b = chain[i].b
  BY <1>1, <1>3
<1> QED
  BY <1>1, <1>4 DEF SliceFirst, n

\* The transaction is not over at the server.
Live == alive \/ chain # <<>>

\* A job is that of a caller who waits for it, of a stream that has not ended before
\* it, or of the query stream.
JobFits(j) ==
    /\ j.kind \in Calls =>
        /\ j.who \in Callers /\ call[j.who].pc = "job" /\ call[j.who].op = j.kind
        /\ j.kind # "prefetch" => j.b \in Blobs /\ call[j.who].group = {j.b}
    /\ j.kind \in {"pull", "destroy", "eof"} => j.b \in Blobs /\ stream[j.b].on
    /\ j.kind = "pull" => stream[j.b].lead = <<>> /\ stream[j.b].pulling
    /\ j.kind = "destroy" => stream[j.b].finished /\ ~stream[j.b].ended
    /\ j.kind = "eof" => stream[j.b].finished /\ stream[j.b].ended
    /\ j.kind = "close" => j.h # NoHandle
    /\ j.kind = "leave" => rows.state = "leaving"
    /\ j.kind \in {"leave", "end"} => j.b = Nobody
JobsFit == \A j \in Jobs : JobFits(j)

\* What a cursor has read is the beginning of its blob, up to where its handle is.
CursorFits(b) ==
    /\ blob[b].has => blob[b].cached = Content /\ blob[b].handle = NoHandle
    /\ blob[b].eof => blob[b].has
    /\ ~blob[b].has => blob[b].consumed = Segs(blob[b].bytes)
    /\ ~blob[b].has /\ blob[b].handle = NoHandle => blob[b].bytes = 0
    /\ blob[b].handle # NoHandle /\ Live => open[blob[b].handle].at = blob[b].bytes + 1

\* What a stream was given, or has to give first, likewise.
Given(s) == Len(s.given) + Len(s.lead)
StreamFits(b) ==
    /\ ~stream[b].on => stream[b] = NoStream
    /\ stream[b].on /\ ~alive => stream[b].finished
    /\ stream[b].given = <<>> \/ stream[b].lead = <<>>
    /\ stream[b].ended => stream[b].finished /\ stream[b].given = Content
    /\ stream[b].on /\ ~stream[b].finished =>
        IF stream[b].handle = NoHandle THEN Given(stream[b]) = 0
        ELSE Live => open[stream[b].handle].at = Given(stream[b]) + 1

\* What the read-ahead knows of a blob.
EntryFits(b) ==
    /\ ahead.entry[b].state \in {"none", "queued", "error"} => ahead.entry[b].bytes = <<>>
    /\ ahead.entry[b].state = "none" => ~ahead.entry[b].claimed
    /\ ahead.entry[b].state = "done" => ahead.entry[b].bytes = Content
    /\ ahead.entry[b].state = "queued" => ~ahead.closed
    /\ ahead.entry[b].state = "fetching" => ahead.running = b /\
        IF ahead.handle = NoHandle THEN ahead.entry[b].bytes = <<>>
        ELSE Live => ahead.entry[b].bytes = Segs(open[ahead.handle].at - 1)
    /\ ahead.entry[b].claimed /\ ahead.entry[b].state \in {"queued", "fetching"} => Claimants(b) # {}
AheadFits ==
    /\ \A j \in Jobs : j.kind \in Fetches =>
        j.b \in Blobs /\ ahead.running = j.b /\ ahead.entry[j.b].state = "fetching" /\ (j.kind = "slice" => alive)
    /\ ahead.handle # NoHandle => ahead.running \in Blobs /\ ahead.entry[ahead.running].state = "fetching"
    /\ ahead.closed = (rows.state # "reading")
    /\ ~alive => rows.state = "left"
    /\ rows.at = 0 => \A b \in Blobs : ahead.entry[b].state = "none"

\* A blob that is inline or the read-ahead's has no cursor and no stream.
Quiet(b) ==
    /\ blob[b].handle = NoHandle /\ blob[b].bytes = 0 /\ ~stream[b].on
    /\ \A c \in Callers : call[c].pc = "job" => b \notin call[c].group
TrackedFits(b) == b \in inline.held \/ ahead.entry[b].state # "none" \/ rows.at = 0 => Quiet(b)

\* What a caller knows of its blobs while it waits, and what it is given.
CallFits(c) ==
    /\ ~alive \/ rows.at = 0 => call[c].pc = "idle"
    /\ call[c].op = "buffer" => call[c].n = Size + 1
    /\ call[c].op = "head" => call[c].n \in Heads
    /\ call[c].pc = "job" => \A b \in call[c].group :
        /\ call[c].op = "head" => (blob[b].has => blob[b].eof)
        /\ call[c].op \in {"buffer", "prefetch"} => ~blob[b].has
        /\ call[c].op \in {"prefetch", "close"} => blob[b].handle = NoHandle
        /\ call[c].op = "prefetch" => blob[b].bytes = 0
    /\ call[c].pc = "done" /\ call[c].op = "buffer" => call[c].data = Content
    /\ call[c].pc = "done" /\ call[c].op = "head" => call[c].data = FirstOf(call[c].n, Content)
    /\ call[c].pc = "take" => \E b \in Blobs : call[c].group = {b}

\* Only heads use a blob together.
Exclusive == \A c, d \in Callers : \A b \in Blobs :
    b \in call[c].group /\ b \in call[d].group => c = d \/ (call[c].op = "head" /\ call[d].op = "head")

\* What the job that awaits an answer has asked for.
HasJob(kind, b) == \E j \in Jobs : j.kind = kind /\ j.b = b
BusyFits ==
    /\ busy # "no" => chain # <<>>
    /\ busy = "whole" => job.kind \in {"buffer", "prefetch"} /\ (job.kind = "buffer" => Whole(job.b))
    /\ busy \in {"open", "read"} =>
        /\ job.kind \in {"head", "buffer", "pull", "slice"}
        /\ busy = "open" <=> job.h = NoHandle
        /\ job.kind \in {"head", "buffer"} => ~blob[job.b].has /\ blob[job.b].handle = job.h
        /\ job.kind = "head" => blob[job.b].bytes < call[job.who].n
        /\ job.kind = "buffer" => job.h # NoHandle
        /\ job.kind = "pull" => stream[job.b].handle = job.h /\ (stream[job.b].finished => HasJob("destroy", job.b))
        /\ job.kind = "slice" => ahead.handle = job.h

\* Who keeps a handle: the cursor of a blob or the job that closes it, a stream or the
\* job that closes what it read to the end, the fetch.
CursorHas(b, h) == blob[b].handle = h \/ \E j \in Jobs : j.kind = "close" /\ j.b = b /\ j.h = h
StreamHas(b, h) ==
    \/ stream[b].handle = h /\ (~stream[b].finished \/ HasJob("destroy", b))
    \/ \E j \in Jobs : j.kind = "eof" /\ j.b = b /\ j.h = h
AheadHas(b, h) == ahead.running = b /\ ahead.handle = h

\* Every handle that is kept is open, for the blob of its keeper, and kept once.
KeptFits(b, h) ==
    /\ Live /\ (CursorHas(b, h) \/ StreamHas(b, h) \/ AheadHas(b, h)) => h \in DOMAIN open /\ open[h].b = b
    /\ Live => ~(CursorHas(b, h) /\ StreamHas(b, h))
\* Every open one is kept.
OwnedFits ==
    /\ alive => \A h \in DOMAIN open : \E b \in Blobs : CursorHas(b, h) \/ StreamHas(b, h) \/ AheadHas(b, h)
    /\ ~alive /\ chain = <<>> => DOMAIN open = {}

Cursors == \A b \in Blobs : CursorFits(b)
Streams == \A b \in Blobs : StreamFits(b)
Entries == \A b \in Blobs : EntryFits(b)
Abandons == \A b \in Blobs : Unwanted(b) => SliceFirst(b)
Tracked == \A b \in Blobs : TrackedFits(b)
CallsFit == \A c \in Callers : CallFits(c)
Kept == (\A b \in Blobs : \A h \in Handles : KeptFits(b, h)) /\ OwnedFits /\ ~stray

IInv ==
    /\ Kinds /\ Line /\ JobsFit /\ Cursors /\ Streams /\ AheadFits /\ Entries /\ Abandons
    /\ Tracked /\ CallsFit /\ Exclusive /\ BusyFits /\ Kept

-----------------------------------------------------------------------------

\* A stream that a step leaves alone fits still,
LEMMA SameStream ==
    ASSUME NEW d \in Blobs, StreamFits(d), stream'[d] = stream[d], alive' = alive, Live' => Live,
           Live /\ stream[d].handle # NoHandle /\ ~stream[d].finished => open'[stream[d].handle] = open[stream[d].handle]
    PROVE  StreamFits(d)'
BY DEF StreamFits, Given

\* and so does what is inline or tracked, when nothing more is.
LEMMA SameTracked ==
    ASSUME IInv,
           \A d \in Blobs : d \in inline'.held \/ ahead'.entry[d].state # "none" \/ rows'.at = 0
                => d \in inline.held \/ ahead.entry[d].state # "none" \/ rows.at = 0,
           \A d \in Blobs : Quiet(d) => Quiet(d)'
    PROVE  Tracked'
BY DEF IInv, Tracked, TrackedFits

\* What the variables start from and are reset to.
LEMMA NewKinds == Fresh \in BlobKind /\ NoCall \in CallKind /\ NoStream \in StreamKind /\ Untracked \in EntryKind
<1>1. <<>> \in Datas /\ 0 \in 0..Size /\ 0 \in 0..(Size + 1)
  BY Whole0, Constants
<1> QED
  BY <1>1 DEF Fresh, NoCall, NoStream, Untracked, BlobKind, CallKind, StreamKind, EntryKind

\* The invariant holds at first.
LEMMA Init_IInv == Init => IInv
<1> SUFFICES ASSUME Init PROVE IInv
  OBVIOUS
<1>0. /\ blob = [b \in Blobs |-> Fresh] /\ call = [c \in Callers |-> NoCall] /\ stream = [b \in Blobs |-> NoStream]
      /\ ahead = [entry |-> [b \in Blobs |-> Untracked], used |-> 0, mark |-> 0,
                running |-> Nobody, handle |-> NoHandle, closed |-> FALSE]
      /\ inline.held = {} /\ chain = <<>> /\ busy = "no"
      /\ rows = [at |-> 0, state |-> "reading"] /\ alive = TRUE /\ open = <<>> /\ stray = FALSE /\ calls = 0
  BY DEF Init
<1>1. Len(chain) = 0 /\ chain \in Seq(JobKind) /\ Jobs = {} /\ DOMAIN open = {}
  BY <1>0, EmptySeq DEF Jobs
<1>2. Segs(0) = <<>> /\ Content \in Datas /\ 0 \in 0..Cardinality(Blobs) /\ 0 \in 0..MaxCalls
  BY Whole0, Constants
<1>3. ahead \in AheadKind
  <2>1. [b \in Blobs |-> Untracked] \in [Blobs -> EntryKind]
    BY NewKinds
  <2> QED
    BY <1>0, <2>1 DEF AheadKind
<1>4. Kinds
  BY <1>0, <1>1, <1>2, <1>3, NewKinds DEF Kinds
<1>5. Line /\ JobsFit
  BY <1>0, <1>1 DEF Line, JobsFit
<1>6. Cursors /\ Streams
  <2>1. Cursors
    BY <1>0, <1>2 DEF Cursors, CursorFits, Fresh
  <2>2. \A b \in Blobs : stream[b] = NoStream
    BY <1>0
  <2>3. ~NoStream.on /\ ~NoStream.ended /\ NoStream.given = <<>>
    BY DEF NoStream
  <2> QED
    BY <2>1, <2>2, <2>3 DEF Streams, StreamFits
<1>7. AheadFits /\ Entries /\ Abandons
  <2>1. \A b \in Blobs : SliceFirst(b)
    BY <1>1 DEF SliceFirst
  <2>2. \A b \in Blobs : ahead.entry[b] = Untracked
    BY <1>0
  <2>3. ahead.handle = NoHandle /\ ahead.closed = FALSE
    BY <1>0
  <2>4. AheadFits
    BY <1>0, <1>1, <2>2, <2>3 DEF AheadFits, Untracked
  <2> QED
    BY <2>1, <2>2, <2>4 DEF Entries, EntryFits, Untracked, Abandons
<1>8. Tracked /\ CallsFit /\ Exclusive /\ BusyFits
  BY <1>0 DEF Tracked, TrackedFits, Quiet, CallsFit, CallFits, Exclusive, BusyFits, Fresh, NoStream, NoCall
<1>9. Kept
  <2>1. \A b \in Blobs : \A h \in Handles : ~CursorHas(b, h) /\ ~StreamHas(b, h) /\ ~AheadHas(b, h)
    <3>1. NoHandle \notin Handles
      BY Constants
    <3> QED
      BY <1>0, <1>1, <3>1 DEF CursorHas, StreamHas, AheadHas, Fresh, NoStream
  <2> QED
    BY <1>0, <1>1, <2>1 DEF Kept, KeptFits, OwnedFits
<1> QED
  BY <1>4, <1>5, <1>6, <1>7, <1>8, <1>9 DEF IInv

-----------------------------------------------------------------------------
(* What the invariant gives. *)

\* The fetch's blob has no other keeper.
LEMMA AheadAlone ==
    ASSUME IInv, NEW b \in Blobs, ahead.entry[b].state # "none" \/ b \in inline.held
    PROVE  /\ Quiet(b) /\ stream[b] = NoStream
           /\ \A j \in Jobs : j.kind \in {"head", "buffer", "close", "pull", "destroy", "eof"} => j.b # b
           /\ \A h \in Handles : ~CursorHas(b, h) /\ ~StreamHas(b, h)
<1>1. Quiet(b)
  BY DEF IInv, Tracked, TrackedFits
<1>2. stream[b] = NoStream
  BY <1>1 DEF Quiet, IInv, Streams, StreamFits
<1>3. ASSUME NEW j \in Jobs, j.kind \in {"head", "buffer", "close", "pull", "destroy", "eof"} PROVE j.b # b
  <2>1. JobFits(j)
    BY DEF IInv, JobsFit
  <2>2. CASE j.kind \in {"pull", "destroy", "eof"}
    BY <1>1, <2>1, <2>2 DEF JobFits, Quiet
  <2>3. CASE j.kind \in {"head", "buffer", "close"}
    BY <1>1, <2>1, <2>3 DEF JobFits, Quiet, Calls
  <2> QED
    BY <1>3, <2>2, <2>3
<1>4. \A h \in Handles : h # NoHandle
  BY Constants
<1> QED
  BY <1>1, <1>2, <1>3, <1>4 DEF CursorHas, StreamHas, Quiet, NoStream, HasJob

\* A handle that is kept is open, and its keeper the only one.
LEMMA KeeperOf ==
    ASSUME IInv, Live, NEW b \in Blobs, NEW h \in Handles, CursorHas(b, h) \/ StreamHas(b, h) \/ AheadHas(b, h)
    PROVE  /\ h \in DOMAIN open /\ open[h].b = b /\ open[h] \in OpenKind
           /\ \A d \in Blobs : d # b => ~CursorHas(d, h) /\ ~StreamHas(d, h) /\ ~AheadHas(d, h)
           /\ CursorHas(b, h) => ~StreamHas(b, h) /\ ~AheadHas(b, h)
           /\ StreamHas(b, h) => ~CursorHas(b, h) /\ ~AheadHas(b, h)
           /\ AheadHas(b, h) => ~CursorHas(b, h) /\ ~StreamHas(b, h)
<1>1. \A d \in Blobs : KeptFits(d, h)
  BY DEF IInv, Kept
<1>2. h \in DOMAIN open /\ open[h].b = b /\ open[h] \in OpenKind
  BY <1>1 DEF KeptFits, IInv, Kinds
<1>3. ASSUME AheadHas(b, h) PROVE ~CursorHas(b, h) /\ ~StreamHas(b, h)
  <2>1. h # NoHandle
    BY Constants
  <2>2. ahead.entry[b].state # "none"
    BY <1>3, <2>1 DEF AheadHas, IInv, AheadFits
  <2> QED
    BY <2>2, AheadAlone
<1> QED
  BY <1>1, <1>2, <1>3 DEF KeptFits

-----------------------------------------------------------------------------
(* The ways in which handles change keepers. *)

KeeperJobs == {"close", "destroy", "eof"}

\* Jobs that close nothing come and go.
LEMMA SameJobs ==
    ASSUME \A j \in Jobs' \cup Jobs : j.kind \in KeeperJobs => j \in Jobs' /\ j \in Jobs
    PROVE  /\ \A b \in Blobs : HasJob("destroy", b)' = HasJob("destroy", b)
           /\ \A b \in Blobs, h \in Handles : blob'[b].handle = blob[b].handle => (CursorHas(b, h)' <=> CursorHas(b, h))
           /\ \A b \in Blobs, h \in Handles :
                stream'[b].handle = stream[b].handle /\ stream'[b].finished = stream[b].finished
                    => (StreamHas(b, h)' <=> StreamHas(b, h))
<1>1. \A k \in KeeperJobs : \A b : (\E j \in Jobs' : j.kind = k /\ j.b = b) = (\E j \in Jobs : j.kind = k /\ j.b = b)
  OBVIOUS
<1>2. \A k \in KeeperJobs : \A b, h : (\E j \in Jobs' : j.kind = k /\ j.b = b /\ j.h = h) = (\E j \in Jobs : j.kind = k /\ j.b = b /\ j.h = h)
  OBVIOUS
<1>3. \A b \in Blobs : HasJob("destroy", b)' = HasJob("destroy", b)
  BY <1>1 DEF HasJob, KeeperJobs
<1>4. \A b \in Blobs, h \in Handles : blob'[b].handle = blob[b].handle => (CursorHas(b, h)' <=> CursorHas(b, h))
  BY <1>2 DEF CursorHas, KeeperJobs
<1>5. ASSUME NEW b \in Blobs, NEW h \in Handles, stream'[b].handle = stream[b].handle, stream'[b].finished = stream[b].finished
      PROVE  StreamHas(b, h)' <=> StreamHas(b, h)
  <2>1. (\E j \in Jobs' : j.kind = "eof" /\ j.b = b /\ j.h = h) = (\E j \in Jobs : j.kind = "eof" /\ j.b = b /\ j.h = h)
    BY <1>2 DEF KeeperJobs
  <2>2. HasJob("destroy", b)' = HasJob("destroy", b)
    BY <1>3
  <2> HIDE DEF HasJob
  <2> QED
    BY <1>5, <2>1, <2>2 DEF StreamHas
<1> QED
  BY <1>3, <1>4, <1>5

\* Nobody opens or closes anything: keepers stay.
LEMMA StillKept ==
    ASSUME Kept, Live,
           \A b \in Blobs, h \in Handles : (CursorHas(b, h)' <=> CursorHas(b, h)) /\ (StreamHas(b, h)' <=> StreamHas(b, h))
                                            /\ (AheadHas(b, h)' <=> AheadHas(b, h)),
           DOMAIN open' = DOMAIN open, \A h \in DOMAIN open : open'[h].b = open[h].b, DOMAIN open \subseteq Handles,
           Live', alive' => alive, stray' = stray
    PROVE  Kept'
<1>1. \A b \in Blobs, h \in Handles : KeptFits(b, h)
  BY DEF Kept
<1>2. \A b \in Blobs, h \in Handles : KeptFits(b, h)'
  BY <1>1 DEF KeptFits
<1>3. OwnedFits'
  BY DEF Kept, OwnedFits, Live
<1> QED
  BY <1>2, <1>3 DEF Kept

\* A handle is closed by its keeper.
LEMMA ClosedKept ==
    ASSUME Kept, Live, NEW x \in Handles,
           \A b \in Blobs, h \in Handles \ {x} :
                (CursorHas(b, h)' <=> CursorHas(b, h)) /\ (StreamHas(b, h)' <=> StreamHas(b, h))
                /\ (AheadHas(b, h)' <=> AheadHas(b, h)),
           \A b \in Blobs : ~CursorHas(b, x)' /\ ~StreamHas(b, x)' /\ ~AheadHas(b, x)',
           DOMAIN open' = DOMAIN open \ {x}, \A h \in DOMAIN open' : open'[h].b = open[h].b, DOMAIN open \subseteq Handles,
           Live', alive' => alive, stray' => stray
    PROVE  Kept'
<1>1. \A b \in Blobs, h \in Handles : KeptFits(b, h)
  BY DEF Kept
<1>2. \A b \in Blobs, h \in Handles : KeptFits(b, h)'
  <2> SUFFICES ASSUME NEW b \in Blobs, NEW h \in Handles PROVE KeptFits(b, h)'
    OBVIOUS
  <2>1. CASE h = x
    BY <2>1 DEF KeptFits
  <2>2. CASE h # x
    BY <1>1, <2>2 DEF KeptFits
  <2> QED
    BY <2>1, <2>2
<1>3. OwnedFits'
  <2>1. \A h \in DOMAIN open' : h \in Handles \ {x} /\ h \in DOMAIN open
    OBVIOUS
  <2> QED
    BY <2>1 DEF Kept, OwnedFits, Live
<1> QED
  BY <1>2, <1>3 DEF Kept

(* What a step that leaves some variables alone keeps. *)

\* What a step leaves alone keeps its part of the invariant.
LEMMA Frames ==
    ASSUME IInv
    PROVE  /\ chain' = chain => Jobs' = Jobs /\ \A b : SliceFirst(b)' = SliceFirst(b)
           /\ chain' = chain /\ alive' = alive => Line' /\ Live' = Live
           /\ call' = call /\ stream' = stream /\ rows' = rows /\ Jobs' \subseteq Jobs => JobsFit'
           /\ blob' = blob /\ open' = open /\ (Live' => Live) => Cursors'
           /\ stream' = stream /\ open' = open /\ alive' = alive /\ (Live' => Live) => Streams'
           /\ ahead' = ahead /\ open' = open /\ call' = call /\ (Live' => Live) => Entries'
           /\ ahead' = ahead /\ (\A b : SliceFirst(b) => SliceFirst(b)') => Abandons'
           /\ ahead' = ahead /\ rows' = rows /\ alive' = alive
                /\ (\A j \in Jobs' : j.kind \in Fetches => j \in Jobs) => AheadFits'
           /\ blob' = blob /\ stream' = stream /\ call' = call /\ ahead' = ahead /\ rows' = rows
                /\ inline'.held \subseteq inline.held => Tracked'
           /\ alive' = alive /\ rows' = rows /\ call' = call /\ blob' = blob => CallsFit'
           /\ call' = call => Exclusive'
           /\ busy' = "no" => BusyFits'
           /\ (blob' = blob /\ call' = call /\ stream' = stream /\ ahead' = ahead /\ busy' = busy
                /\ chain' = chain) => BusyFits'
<1>1. chain' = chain => Jobs' = Jobs /\ \A b : SliceFirst(b)' = SliceFirst(b)
  BY DEF Jobs, SliceFirst
<1>2. chain' = chain /\ alive' = alive => Line' /\ Live' = Live
  BY DEF IInv, Line, Live
<1>3. call' = call /\ stream' = stream /\ rows' = rows /\ Jobs' \subseteq Jobs => JobsFit'
  BY DEF IInv, JobsFit, JobFits
<1>4. blob' = blob /\ open' = open /\ (Live' => Live) => Cursors'
  BY DEF IInv, Cursors, CursorFits
<1>5. stream' = stream /\ open' = open /\ alive' = alive /\ (Live' => Live) => Streams'
  <2> SUFFICES ASSUME stream' = stream, open' = open, alive' = alive, Live' => Live, NEW b \in Blobs
               PROVE  StreamFits(b)'
    BY DEF Streams
  <2>1. StreamFits(b)
    BY DEF IInv, Streams
  <2> QED
    BY <2>1 DEF StreamFits, Given
<1>6. ahead' = ahead /\ open' = open /\ call' = call /\ (Live' => Live) => Entries'
  BY DEF IInv, Entries, EntryFits, Claimants
<1>7. ahead' = ahead /\ (\A b : SliceFirst(b) => SliceFirst(b)') => Abandons'
  BY DEF IInv, Abandons, Unwanted
<1>8. ahead' = ahead /\ rows' = rows /\ alive' = alive
        /\ (\A j \in Jobs' : j.kind \in Fetches => j \in Jobs) => AheadFits'
  BY DEF IInv, AheadFits
<1>9. blob' = blob /\ stream' = stream /\ call' = call /\ ahead' = ahead /\ rows' = rows
        /\ inline'.held \subseteq inline.held => Tracked'
  BY DEF IInv, Tracked, TrackedFits, Quiet
<1>10. alive' = alive /\ rows' = rows /\ call' = call /\ blob' = blob => CallsFit'
  BY DEF IInv, CallsFit, CallFits
<1>11. call' = call => Exclusive'
  BY DEF IInv, Exclusive
<1>12. busy' = "no" => BusyFits'
  BY DEF BusyFits
<1>13. (blob' = blob /\ call' = call /\ stream' = stream /\ ahead' = ahead /\ busy' = busy
                /\ chain' = chain) => BusyFits'
  BY <1>1 DEF IInv, BusyFits, HasJob, Whole, job
<1> QED
  BY <1>1, <1>2, <1>3, <1>4, <1>5, <1>6, <1>7, <1>8, <1>9, <1>10, <1>11, <1>12, <1>13

\* Handles stay where they are.
LEMMA NothingKept ==
    ASSUME IInv, Live, \A b \in Blobs : blob'[b].handle = blob[b].handle,
           \A b \in Blobs : stream'[b].handle = stream[b].handle /\ stream'[b].finished = stream[b].finished,
           ahead'.handle = ahead.handle,
           ahead'.handle = NoHandle \/ ahead'.running = ahead.running,
           \A j \in Jobs' \cup Jobs : j.kind \in KeeperJobs => j \in Jobs' /\ j \in Jobs,
           open' = open, Live', alive' => alive, stray' = stray
    PROVE  Kept'
<1>1. Kept /\ DOMAIN open \subseteq Handles
  BY DEF IInv, Kinds
<1>2. \A b \in Blobs, h \in Handles : (CursorHas(b, h)' <=> CursorHas(b, h)) /\ (StreamHas(b, h)' <=> StreamHas(b, h))
  BY SameJobs
<1>3. \A b \in Blobs, h \in Handles : AheadHas(b, h)' <=> AheadHas(b, h)
  BY Constants DEF AheadHas
<1> QED
  BY <1>1, <1>2, <1>3, StillKept

-----------------------------------------------------------------------------

\* The invariant is kept when the server volunteers a blob.
LEMMA StoreInline_IInv ==
    ASSUME IInv, NEW b \in Blobs, StoreInline(b)
    PROVE  IInv'
<1>1. /\ rows.at = 0 /\ inline'.held = inline.held \cup {b}
      /\ blob' = blob /\ call' = call /\ stream' = stream /\ ahead' = ahead /\ chain' = chain /\ busy' = busy
      /\ rows' = rows /\ alive' = alive /\ open' = open /\ stray' = stray /\ calls' = calls
  BY DEF StoreInline, client
<1>2. Kinds'
  BY <1>1 DEF IInv, Kinds
<1>3. Tracked'
  BY <1>1 DEF IInv, Tracked, TrackedFits, Quiet
<1>4. Kept'
  BY <1>1, Frames DEF IInv, Kept, KeptFits, OwnedFits, CursorHas, StreamHas, AheadHas, HasJob
<1>5. \A b1 : SliceFirst(b1)' = SliceFirst(b1)
  BY <1>1, Frames
<1> QED
  BY <1>1, <1>2, <1>3, <1>4, <1>5, Frames DEF IInv

\* A caller that goes on keeps it.
LEMMA Return_IInv ==
    ASSUME IInv, NEW c \in Callers, Return(c)
    PROVE  IInv'
<1>1. /\ call[c].pc = "done" /\ call' = [call EXCEPT ![c] = NoCall] /\ inline' = inline
      /\ blob' = blob /\ stream' = stream /\ ahead' = ahead /\ chain' = chain /\ busy' = busy
      /\ rows' = rows /\ alive' = alive /\ open' = open /\ stray' = stray /\ calls' = calls
  BY DEF Return
<1>2. call \in [Callers -> CallKind] /\ Kinds'
  BY <1>1, NewKinds DEF IInv, Kinds
<1>3. /\ call'[c] = NoCall /\ NoCall.op = "none" /\ NoCall.pc = "idle" /\ NoCall.group = {}
      /\ \A d \in Callers : d # c => call'[d] = call[d]
  BY <1>1, <1>2 DEF NoCall
<1>4. Jobs' = Jobs /\ Line' /\ (\A b : SliceFirst(b)' = SliceFirst(b)) /\ Live' = Live
  BY <1>1, Frames
<1>5. JobsFit'
  BY <1>1, <1>3, <1>4 DEF IInv, JobsFit, JobFits
<1>6. \A b : Claimants(b)' = Claimants(b)
  BY <1>1, <1>3 DEF Claimants
<1>7. Entries'
  BY <1>1, <1>4, <1>6 DEF IInv, Entries, EntryFits
<1>8. Tracked'
  BY <1>1, <1>3 DEF IInv, Tracked, TrackedFits, Quiet
<1>9. CallsFit' /\ Exclusive'
  BY <1>1, <1>3 DEF IInv, CallsFit, CallFits, Exclusive
<1>10. BusyFits'
  <2>1. chain # <<>> => JobFits(job)
    BY JobTypes DEF IInv, JobsFit
  <2>2. chain # <<>> /\ job.kind = "head" => call'[job.who] = call[job.who]
    BY <1>1, <1>3, <2>1 DEF JobFits, Calls
  <2> QED
    BY <1>1, <1>4, <2>2 DEF IInv, BusyFits, job, HasJob, Whole
<1>11. Kept'
  BY <1>1, <1>4 DEF IInv, Kept, KeptFits, OwnedFits, CursorHas, StreamHas, AheadHas, HasJob
<1> QED
  BY <1>1, <1>2, <1>4, <1>5, <1>7, <1>8, <1>9, <1>10, <1>11, Frames DEF IInv

\* What is put on the lock behind other jobs.
LEMMA AddedFrames ==
    ASSUME IInv, NEW j \in JobKind, \A x \in Jobs : ~Alike(x, j), alive, alive' = (j.kind # "end"),
           chain' = Append(chain, j)
    PROVE  /\ chain' \in Seq(JobKind) /\ Line' /\ Jobs' = Jobs \cup {j} /\ chain' # <<>> /\ Live /\ Live'
           /\ chain # <<>> => job' = job
           /\ \A b : j.kind # "slice" \/ j.b # b => (SliceFirst(b) => SliceFirst(b)')
           /\ \A b : j.kind = "leave" => SliceFirst(b)'
<1>2. /\ chain' \in Seq(JobKind) /\ Line' /\ Jobs' = Jobs \cup {j} /\ chain' # <<>>
      /\ (chain # <<>> => job' = job)
  BY Added DEF IInv
<1>3. Live /\ Live'
  BY <1>2 DEF Live
<1>4. \A b : j.kind # "slice" \/ j.b # b => (SliceFirst(b) => SliceFirst(b)')
  BY SlicesAdded DEF IInv
<1>5. \A b : j.kind = "leave" => SliceFirst(b)'
  BY SlicesAdded DEF IInv
<1> QED
  BY <1>2, <1>3, <1>4, <1>5

\* A job and its fields.
LEMMA JobIs ==
    ASSUME NEW kind \in JobKinds, NEW b \in Blobs \cup {Nobody}, NEW who \in Callers \cup {Nobody}
    PROVE  /\ Job(kind, b, who) \in JobKind /\ Job(kind, b, who).kind = kind /\ Job(kind, b, who).b = b
           /\ Job(kind, b, who).who = who /\ Job(kind, b, who).h = NoHandle
BY DEF Job, JobKind

\* A stream that is read keeps the invariant.
LEMMA Read_IInv ==
    ASSUME IInv, NEW b \in Blobs, Read(b)
    PROVE  IInv'
<1> DEFINE s == stream[b]
           t == [s EXCEPT !.given = @ \o s.lead, !.lead = <<>>, !.pulling = TRUE]
           j == Job("pull", b, Nobody)
<1>1. /\ s.on /\ ~s.pulling /\ ~s.finished /\ stream' = [stream EXCEPT ![b] = t] /\ chain' = Append(chain, j)
      /\ blob' = blob /\ call' = call /\ ahead' = ahead /\ inline' = inline /\ busy' = busy
      /\ rows' = rows /\ alive' = alive /\ open' = open /\ stray' = stray /\ calls' = calls
  BY DEF Read
<1>2. s \in StreamKind /\ stream \in [Blobs -> StreamKind]
  BY DEF IInv, Kinds
<1>3. StreamFits(b)
  BY DEF IInv, Streams
<1>4. alive /\ ~s.ended
  BY <1>1, <1>3 DEF StreamFits, IInv, Kinds
<1>5. /\ t \in StreamKind /\ Len(t.given) + Len(t.lead) = Len(s.given) + Len(s.lead) /\ t.lead = <<>>
      /\ t.pulling /\ t.on = s.on /\ t.handle = s.handle /\ t.finished = s.finished /\ t.ended = s.ended
  <2>1. s.given \in Datas /\ s.lead \in Datas /\ <<>> \in Datas
    BY <1>2, Whole0 DEF StreamKind
  <2>2. s.given \in Seq(Nat) /\ s.lead \in Seq(Nat) /\ Len(<<>>) = 0
    BY <2>1, SegmentsOf, EmptySeq DEF Datas
  <2>3. s.given \o s.lead \in Datas /\ Len(s.given \o s.lead) = Len(s.given) + Len(s.lead)
    <3>1. CASE s.given = <<>>
      BY <2>1, <2>2, <3>1, ConcatEmptySeq, LenProperties
    <3>2. CASE s.lead = <<>>
      BY <2>1, <2>2, <3>2, ConcatEmptySeq, LenProperties
    <3> QED
      BY <1>3, <3>1, <3>2 DEF StreamFits
  <2>4. /\ t.given = s.given \o s.lead /\ t.lead = <<>> /\ t.pulling = TRUE
        /\ t.on = s.on /\ t.handle = s.handle /\ t.finished = s.finished /\ t.ended = s.ended
    BY <1>2 DEF StreamKind
  <2>5. t \in StreamKind
    <3>1. [s EXCEPT !.given = s.given \o s.lead] \in StreamKind
      BY <1>2, <2>3 DEF StreamKind
    <3>2. [[[s EXCEPT !.given = s.given \o s.lead] EXCEPT !.lead = <<>>] EXCEPT !.pulling = TRUE] \in StreamKind
      BY <2>1, <3>1 DEF StreamKind
    <3> QED
      BY <3>2
  <2>6. Len(t.given) + Len(t.lead) = Len(s.given) + Len(s.lead)
    <3>1. Len(s.given) \in 0..Size /\ Len(s.lead) \in 0..Size
      BY <2>1, DataLen
    <3>2. Size \in Nat
      BY Constants
    <3> QED
      BY <2>2, <2>3, <2>4, <3>1, <3>2
  <2> QED
    BY <2>4, <2>5, <2>6
<1>6. j \in JobKind /\ j.kind = "pull" /\ j.b = b
  BY JobIs DEF JobKinds
<1> HIDE DEF j, t
<1>7. stream'[b] = t /\ \A d \in Blobs : d # b => stream'[d] = stream[d]
  BY <1>1, <1>2
<1>8. \A x \in Jobs : ~Alike(x, j)
  BY <1>1, <1>6 DEF Alike, IInv, JobsFit, JobFits, Calls, Fetches
<1>9. /\ chain' \in Seq(JobKind) /\ Line' /\ Jobs' = Jobs \cup {j} /\ chain' # <<>> /\ Live /\ Live'
      /\ (chain # <<>> => job' = job) /\ \A d : SliceFirst(d) => SliceFirst(d)'
  BY <1>1, <1>4, <1>6, <1>8, AddedFrames
<1>10. Kinds'
  BY <1>1, <1>2, <1>5, <1>9 DEF IInv, Kinds
<1>11. \A d \in Blobs : stream'[d].on = stream[d].on /\ stream'[d].handle = stream[d].handle
                /\ stream'[d].finished = stream[d].finished /\ stream'[d].ended = stream[d].ended
  BY <1>5, <1>7
<1>12. JobsFit'
  <2>1. JobFits(j)'
    BY <1>1, <1>5, <1>6, <1>7 DEF JobFits, Calls
  <2>2. ASSUME NEW x \in Jobs PROVE JobFits(x)'
    <3>1. JobFits(x)
      BY DEF IInv, JobsFit
    <3>2. x.kind = "pull" => x.b # b
      BY <1>1, <3>1 DEF JobFits
    <3> QED
      BY <1>1, <1>7, <1>11, <3>1, <3>2 DEF JobFits
  <2> QED
    BY <1>9, <2>1, <2>2 DEF JobsFit
<1>13. Streams'
  <2>1. stream'[b].given # <<>> => stream'[b].lead = <<>>
    BY <1>5, <1>7
  <2>2. Given(stream'[b]) = Given(stream[b])
    BY <1>5, <1>7 DEF Given
  <2>3. StreamFits(b)'
    <3>1. stream'[b].on = stream[b].on /\ stream'[b].handle = stream[b].handle /\ open' = open /\ alive' = alive
      BY <1>1, <1>11
    <3>2. ~stream'[b].ended /\ ~stream'[b].finished /\ ~stream[b].finished /\ stream[b].on
      BY <1>1, <1>3, <1>4, <1>11 DEF StreamFits
    <3> HIDE DEF Given
    <3> QED
      BY <1>3, <1>4, <1>9, <2>1, <2>2, <3>1, <3>2 DEF StreamFits
  <2>4. ASSUME NEW d \in Blobs, d # b PROVE StreamFits(d)'
    BY <1>1, <1>7, <1>9, <2>4, SameStream DEF IInv, Streams
  <2> QED
    BY <2>3, <2>4 DEF Streams
<1>14. AheadFits'
  BY <1>1, <1>6, <1>9, Frames DEF Fetches
<1>15. Tracked'
  BY <1>1, <1>11 DEF IInv, Tracked, TrackedFits, Quiet
<1>16. BusyFits'
  BY <1>1, <1>9, <1>11, JobTypes DEF IInv, BusyFits, HasJob, Whole, JobsFit, JobFits
<1>17. Kept'
  BY <1>1, <1>6, <1>9, <1>11, NothingKept DEF KeeperJobs
<1> QED
  BY <1>1, <1>9, <1>10, <1>12, <1>13, <1>14, <1>15, <1>16, <1>17, Frames DEF IInv

\* So does one that is destroyed.
LEMMA Destroy_IInv ==
    ASSUME IInv, NEW b \in Blobs, Destroy(b)
    PROVE  IInv'
<1> DEFINE s == stream[b]
           t == [s EXCEPT !.finished = TRUE]
           j == Job("destroy", b, Nobody)
<1>1. /\ s.on /\ ~s.finished /\ stream' = [stream EXCEPT ![b].finished = TRUE] /\ chain' = chain \o <<j>>
      /\ blob' = blob /\ call' = call /\ ahead' = ahead /\ inline' = inline /\ busy' = busy
      /\ rows' = rows /\ alive' = alive /\ open' = open /\ stray' = stray /\ calls' = calls
  BY DEF Destroy, Destroys
<1>2. s \in StreamKind /\ stream \in [Blobs -> StreamKind] /\ chain \in Seq(JobKind)
  BY DEF IInv, Kinds
<1>3. StreamFits(b)
  BY DEF IInv, Streams
<1>4. alive /\ ~s.ended
  BY <1>1, <1>3 DEF StreamFits, IInv, Kinds
<1>5. /\ t \in StreamKind /\ t.on = s.on /\ t.lead = s.lead /\ t.handle = s.handle /\ t.finished
      /\ t.pulling = s.pulling /\ t.given = s.given /\ t.ended = s.ended
  BY <1>2 DEF StreamKind
<1>6. j \in JobKind /\ j.kind = "destroy" /\ j.b = b
  BY JobIs DEF JobKinds
<1>7. stream' = [stream EXCEPT ![b] = t]
  BY <1>1
<1> HIDE DEF j, t
<1>8. stream'[b] = t /\ \A d \in Blobs : d # b => stream'[d] = stream[d]
  BY <1>2, <1>7
<1>9. \A x \in Jobs : ~Alike(x, j)
  BY <1>1, <1>6 DEF Alike, IInv, JobsFit, JobFits, Calls, Fetches
<1>10. chain' = Append(chain, j)
  BY <1>1, <1>2, <1>6, AppendIsConcat
<1>11. /\ chain' \in Seq(JobKind) /\ Line' /\ Jobs' = Jobs \cup {j} /\ chain' # <<>> /\ Live /\ Live'
       /\ (chain # <<>> => job' = job) /\ \A d : SliceFirst(d) => SliceFirst(d)'
  BY <1>1, <1>4, <1>6, <1>9, <1>10, AddedFrames
<1>12. Kinds'
  BY <1>1, <1>2, <1>5, <1>7, <1>11 DEF IInv, Kinds
<1>13. JobsFit'
  <2>1. JobFits(j)'
    BY <1>1, <1>4, <1>5, <1>6, <1>8 DEF JobFits, Calls
  <2>2. ASSUME NEW x \in Jobs PROVE JobFits(x)'
    <3>1. JobFits(x)
      BY DEF IInv, JobsFit
    <3> QED
      BY <1>1, <1>5, <1>8, <3>1 DEF JobFits
  <2> QED
    BY <1>11, <2>1, <2>2 DEF JobsFit
<1>14. Streams'
  <2>1. StreamFits(b)'
    BY <1>1, <1>3, <1>4, <1>5, <1>8 DEF StreamFits, Given
  <2> QED
    <3> SUFFICES ASSUME NEW d \in Blobs, d # b PROVE StreamFits(d)'
      BY <2>1 DEF Streams
    <3> QED
      BY <1>1, <1>8, <1>11, SameStream DEF IInv, Streams
<1>15. AheadFits'
  BY <1>1, <1>6, <1>11, Frames DEF Fetches
<1>16. Tracked'
  BY <1>1, <1>5, <1>8 DEF IInv, Tracked, TrackedFits, Quiet
<1>17. \A d \in Blobs : HasJob("destroy", d)' <=> HasJob("destroy", d) \/ d = b
  BY <1>6, <1>11 DEF HasJob
<1>18. BusyFits'
  <2>1. chain # <<>> => JobFits(job)
    BY JobTypes DEF IInv, JobsFit
  <2>2. CASE busy = "no"
    BY <1>1, <2>2 DEF BusyFits
  <2>3. CASE busy # "no"
    <3>1. chain # <<>> /\ job' = job
      BY <1>11, <2>3 DEF IInv, BusyFits
    <3>2. job.kind = "pull" => job.b \in Blobs /\ (job.b = b => stream'[job.b] = t)
      BY <1>8, <2>1, <3>1 DEF JobFits
    <3>3. job.kind = "pull" /\ job.b # b => stream'[job.b] = stream[job.b]
      BY <1>8, <3>2
    <3> HIDE DEF job, HasJob
    <3> QED
      BY <1>1, <1>5, <1>11, <1>17, <3>1, <3>2, <3>3 DEF IInv, BusyFits, Whole
  <2> QED
    BY <2>2, <2>3
<1>19. Kept'
  <2>1. \A d \in Blobs, h \in Handles : CursorHas(d, h)' <=> CursorHas(d, h)
    BY <1>1, <1>6, <1>11 DEF CursorHas
  <2>2. \A d \in Blobs, h \in Handles : AheadHas(d, h)' <=> AheadHas(d, h)
    BY <1>1 DEF AheadHas
  <2>3. ASSUME NEW d \in Blobs, NEW h \in Handles PROVE StreamHas(d, h)' <=> StreamHas(d, h)
    <3>1. (\E x \in Jobs' : x.kind = "eof" /\ x.b = d /\ x.h = h) <=> (\E x \in Jobs : x.kind = "eof" /\ x.b = d /\ x.h = h)
      BY <1>6, <1>11
    <3>2. CASE d = b
      BY <1>1, <1>5, <1>8, <1>17, <3>1, <3>2 DEF StreamHas
    <3>3. CASE d # b
      BY <1>8, <1>17, <3>1, <3>3 DEF StreamHas
    <3> QED
      BY <3>2, <3>3
  <2>4. Kept /\ DOMAIN open \subseteq Handles
    BY DEF IInv, Kinds
  <2> QED
    BY <1>1, <1>11, <2>1, <2>2, <2>3, <2>4, StillKept
<1> QED
  BY <1>1, <1>11, <1>12, <1>13, <1>14, <1>15, <1>16, <1>18, <1>19, Frames DEF IInv

\* So does a query stream that is left: the slice that is on the lock runs before the
\* job that ends iteration.
LEMMA Leave_IInv ==
    ASSUME IInv, Habits = {}, Leave
    PROVE  IInv'
<1> DEFINE j == Job("leave", 0, Nobody)
           f == [b \in Blobs |->
                IF ahead.entry[b].state = "queued" \/ (ahead.entry[b].state = "done" /\ ~ahead.entry[b].claimed)
                THEN Untracked ELSE ahead.entry[b]]
<1>1. /\ rows.state = "reading" /\ rows' = [rows EXCEPT !.state = "leaving"]
      /\ (\A b \in Blobs : ahead.entry[b].claimed => ahead.entry[b].state # "queued")
      /\ ahead' = [ahead EXCEPT !.closed = TRUE, !.entry = f] /\ chain' = Append(chain, j)
      /\ blob' = blob /\ call' = call /\ stream' = stream /\ inline' = inline /\ busy' = busy
      /\ alive' = alive /\ open' = open /\ stray' = stray /\ calls' = calls
  BY DEF Leave, client
<1>2. alive /\ ahead \in AheadKind /\ ahead.entry \in [Blobs -> EntryKind] /\ rows \in [at : 0..Cardinality(Blobs), state : {"reading", "leaving", "left"}]
  BY <1>1 DEF IInv, Kinds, AheadFits, AheadKind
<1>3. f \in [Blobs -> EntryKind]
  BY <1>2, NewKinds
<1>4. \A b \in Blobs : f[b] = Untracked \/ (f[b] = ahead.entry[b] /\ ahead.entry[b].state # "queued")
  OBVIOUS
<1>20. \A b \in Blobs : ahead.entry[b].state = "fetching" => f[b] = ahead.entry[b]
  OBVIOUS
<1>5. j \in JobKind /\ j.kind = "leave" /\ j.b = Nobody
  BY JobIs DEF JobKinds, Nobody
<1> HIDE DEF j, f
<1>6. /\ ahead' \in AheadKind /\ ahead'.entry = f /\ ahead'.closed = TRUE /\ ahead'.handle = ahead.handle
      /\ ahead'.running = ahead.running
  BY <1>1, <1>2, <1>3 DEF AheadKind
<1>7. \A x \in Jobs : ~Alike(x, j)
  BY <1>1, <1>5 DEF Alike, IInv, JobsFit, JobFits, Calls, Fetches
<1>8. /\ chain' \in Seq(JobKind) /\ Line' /\ Jobs' = Jobs \cup {j} /\ chain' # <<>> /\ Live /\ Live'
      /\ (chain # <<>> => job' = job) /\ \A b : SliceFirst(b)'
  BY <1>1, <1>2, <1>5, <1>7, AddedFrames
<1>9. rows'.state = "leaving" /\ rows'.at = rows.at /\ Kinds'
  BY <1>1, <1>2, <1>6, <1>8 DEF IInv, Kinds
<1>10. Untracked.state = "none" /\ Untracked.bytes = <<>> /\ ~Untracked.claimed
  BY DEF Untracked
<1>11. JobsFit'
  <2>1. JobFits(j)'
    BY <1>5, <1>9 DEF JobFits, Calls
  <2>2. ASSUME NEW x \in Jobs PROVE JobFits(x)'
    BY <1>1, <1>9 DEF IInv, JobsFit, JobFits
  <2> QED
    BY <1>8, <2>1, <2>2 DEF JobsFit
<1>12. AheadFits'
  <2>1. AheadFits
    BY DEF IInv
  <2>2. \A x \in Jobs' : x.kind \in Fetches => x \in Jobs
    BY <1>5, <1>8 DEF Fetches
  <2>3. \A x \in Jobs' : x.kind \in Fetches =>
            x.b \in Blobs /\ ahead'.running = x.b /\ ahead'.entry[x.b].state = "fetching" /\ (x.kind = "slice" => alive')
    BY <1>1, <1>6, <1>20, <2>1, <2>2 DEF AheadFits
  <2>4. ahead'.handle # NoHandle => ahead'.running \in Blobs /\ ahead'.entry[ahead'.running].state = "fetching"
    BY <1>6, <1>20, <2>1 DEF AheadFits
  <2>5. rows'.at = 0 => \A b \in Blobs : ahead'.entry[b].state = "none"
    BY <1>4, <1>6, <1>9, <1>10, <2>1 DEF AheadFits
  <2> QED
    BY <1>1, <1>2, <1>6, <1>9, <2>3, <2>4, <2>5 DEF AheadFits
<1>13. Entries'
  <2> SUFFICES ASSUME NEW b \in Blobs PROVE EntryFits(b)'
    BY DEF Entries
  <2>1. EntryFits(b)
    BY DEF IInv, Entries
  <2>2. Claimants(b)' = Claimants(b)
    BY <1>1 DEF Claimants
  <2> QED
    BY <1>1, <1>4, <1>6, <1>8, <1>10, <2>1, <2>2 DEF EntryFits
<1>14. Abandons'
  BY <1>8 DEF Abandons
<1>15. Tracked'
  BY <1>1, <1>4, <1>6, <1>9, <1>10 DEF IInv, Tracked, TrackedFits, Quiet
<1>16. CallsFit'
  BY <1>1, <1>9 DEF IInv, CallsFit, CallFits
<1>17. BusyFits'
  BY <1>1, <1>6, <1>8 DEF IInv, BusyFits, HasJob, Whole
<1>18. Kept'
  BY <1>1, <1>5, <1>6, <1>8, NothingKept DEF KeeperJobs
<1> QED
  BY <1>1, <1>8, <1>9, <1>11, <1>12, <1>13, <1>14, <1>15, <1>16, <1>17, <1>18, Frames DEF IInv

\* So does the end of the transaction, which nobody is in the way of.
LEMMA End_IInv ==
    ASSUME IInv, Habits = {}, End
    PROVE  IInv'
<1> DEFINE j == Job("end", 0, Nobody)
<1>1. /\ alive /\ rows.state = "left" /\ alive' = FALSE /\ chain' = Append(chain, j)
      /\ (\A c \in Callers : call[c].pc = "idle") /\ (\A b \in Blobs : stream[b].on => stream[b].finished)
      /\ blob' = blob /\ call' = call /\ stream' = stream /\ ahead' = ahead /\ inline' = inline /\ busy' = busy
      /\ rows' = rows /\ open' = open /\ stray' = stray /\ calls' = calls
  BY DEF End, client
<1>2. j \in JobKind /\ j.kind = "end" /\ j.b = Nobody
  BY JobIs DEF JobKinds, Nobody
<1> HIDE DEF j
<1>3. \A x \in Jobs : x.kind # "end"
  BY <1>1 DEF IInv, Line, Jobs
<1>4. \A x \in Jobs : ~Alike(x, j)
  BY <1>2, <1>3 DEF Alike, Calls, Fetches
<1>5. /\ chain' \in Seq(JobKind) /\ Line' /\ Jobs' = Jobs \cup {j} /\ chain' # <<>> /\ Live /\ Live'
      /\ (chain # <<>> => job' = job) /\ \A d : SliceFirst(d) => SliceFirst(d)'
  BY <1>1, <1>2, <1>4, AddedFrames
<1>6. Kinds'
  BY <1>1, <1>5 DEF IInv, Kinds
<1>7. JobsFit'
  <2>1. JobFits(j)'
    BY <1>2 DEF JobFits, Calls
  <2> QED
    BY <1>1, <1>5, <2>1 DEF IInv, JobsFit, JobFits
<1>8. Streams'
  <2> SUFFICES ASSUME NEW b \in Blobs PROVE StreamFits(b)'
    BY DEF Streams
  <2> QED
    BY <1>1, <1>5 DEF IInv, Streams, StreamFits, Given
<1>9. Entries'
  BY <1>1, <1>5, Frames
<1>10. \A x \in Jobs : x.kind # "slice"
  <2> SUFFICES ASSUME NEW x \in Jobs, x.kind = "slice" PROVE FALSE
    OBVIOUS
  <2>1. x.b \in Blobs /\ ahead.entry[x.b].state = "fetching" /\ ahead.closed
    BY <1>1 DEF IInv, AheadFits, Fetches
  <2>2. ~ahead.entry[x.b].claimed
    BY <1>1, <2>1 DEF IInv, Entries, EntryFits, Claimants
  <2>3. SliceFirst(x.b)
    BY <2>1, <2>2 DEF IInv, Abandons, Unwanted
  <2>4. \E y \in Jobs : y.kind = "leave"
    BY <2>3 DEF SliceFirst, Jobs
  <2> QED
    BY <1>1, <2>4 DEF IInv, JobsFit, JobFits
<1>11. AheadFits'
  BY <1>1, <1>2, <1>5, <1>10 DEF IInv, AheadFits, Fetches
<1>12. CallsFit'
  BY <1>1 DEF IInv, CallsFit, CallFits
<1>13. BusyFits'
  BY <1>1, <1>5 DEF IInv, BusyFits, HasJob, Whole
<1>14. Kept'
  BY <1>1, <1>2, <1>5, NothingKept DEF KeeperJobs
<1> QED
  BY <1>1, <1>5, <1>6, <1>7, <1>8, <1>9, <1>11, <1>12, <1>13, <1>14, Frames DEF IInv

\* No call waits for a job of b.
Unasked(b) == \A d \in Callers : call[d].pc = "job" => b \notin call[d].group

\* A call that may be made.
LEMMA MayParts ==
    ASSUME IInv, Habits = {}, NEW c \in Callers, NEW op \in AllOps, NEW g, May(c, op, g)
    PROVE  /\ call[c].pc = "idle" /\ alive /\ Live /\ calls < MaxCalls /\ calls + 1 \in 0..MaxCalls
           /\ rows.at # 0 /\ g \in SUBSET Blobs
           /\ \A b \in g : Unused(b, op) /\ (ahead.closed => ahead.entry[b].state # "fetching")
           /\ op # "head" => \A b \in g : Unasked(b)
<1>1. /\ call[c].pc = "idle" /\ alive /\ calls < MaxCalls /\ g # {} /\ g \subseteq 1..rows.at
      /\ \A b \in g : Unused(b, op) /\ (ahead.closed => ahead.entry[b].state # "fetching")
  BY DEF May
<1>2. rows.at \in 0..Cardinality(Blobs) /\ calls \in 0..MaxCalls
  BY DEF IInv, Kinds
<1>3. calls + 1 \in 0..MaxCalls
  BY <1>1, <1>2, Constants
<1>4. g \in SUBSET Blobs
  <2>1. 1..rows.at \subseteq 1..Cardinality(Blobs)
    BY <1>2, Constants
  <2> QED
    BY <1>1, <2>1, Constants
<1>5. rows.at # 0
  <2>1. \A k \in 1..0 : FALSE
    OBVIOUS
  <2> QED
    BY <1>1, <2>1
<1> QED
  BY <1>1, <1>3, <1>4, <1>5 DEF Live, Unused, Unasked

\* A call is made, which touches a blob nobody waits for.
LEMMA Called ==
    ASSUME IInv, NEW c \in Callers, call[c].pc = "idle", NEW r \in CallKind, call' = [call EXCEPT ![c] = r]
    PROVE  /\ call' \in [Callers -> CallKind] /\ call'[c] = r /\ \A d \in Callers : d # c => call'[d] = call[d]
           /\ (\A b \in r.group : Unused(b, r.op)) => Exclusive'
           /\ stream' = stream /\ rows' = rows => \A x \in Jobs : JobFits(x)'
           /\ \A b : Claimants(b) \subseteq Claimants(b)'
           /\ ahead' = ahead /\ open' = open /\ (Live' => Live) => Entries'
           /\ alive' = alive /\ rows' = rows /\ (\A b \in Blobs : blob'[b] = blob[b] \/ Unasked(b)) => \A d \in Callers \ {c} : CallFits(d)'
           /\ busy' = busy /\ ahead' = ahead /\ stream' = stream /\ (\A b \in Blobs : blob'[b] = blob[b] \/ Unasked(b))
                /\ Jobs \subseteq Jobs' /\ (chain # <<>> => chain' # <<>> /\ job' = job) => BusyFits'
<1>1. call \in [Callers -> CallKind]
  BY DEF IInv, Kinds
<1>2. call' \in [Callers -> CallKind] /\ call'[c] = r /\ \A d \in Callers : d # c => call'[d] = call[d]
  BY <1>1
<1>3. (\A b \in r.group : Unused(b, r.op)) => Exclusive'
  BY <1>2 DEF IInv, Exclusive, Unused
<1>4. ASSUME stream' = stream, rows' = rows, NEW x \in Jobs PROVE JobFits(x)'
  BY <1>2, <1>4 DEF IInv, JobsFit, JobFits
<1>5. \A b : Claimants(b) \subseteq Claimants(b)'
  BY <1>2 DEF Claimants
<1>6. ahead' = ahead /\ open' = open /\ (Live' => Live) => Entries'
  <2> SUFFICES ASSUME ahead' = ahead, open' = open, Live' => Live, NEW b \in Blobs PROVE EntryFits(b)'
    BY DEF Entries
  <2>1. EntryFits(b)
    BY DEF IInv, Entries
  <2>2. Claimants(b) # {} => Claimants(b)' # {}
    BY <1>5
  <2> QED
    BY <2>1, <2>2 DEF EntryFits
<1>7. ASSUME alive' = alive, rows' = rows, \A b \in Blobs : blob'[b] = blob[b] \/ Unasked(b), NEW d \in Callers \ {c} PROVE CallFits(d)'
  <2>1. CallFits(d) /\ call'[d] = call[d] /\ call[d].group \subseteq Blobs
    BY <1>1, <1>2 DEF IInv, CallsFit, CallKind
  <2>2. \A b \in call[d].group : call[d].pc = "job" => blob'[b] = blob[b]
    BY <1>7, <2>1 DEF Unasked
  <2> QED
    BY <1>7, <2>1, <2>2 DEF CallFits
<1>8. ASSUME busy' = busy, ahead' = ahead, stream' = stream, \A b \in Blobs : blob'[b] = blob[b] \/ Unasked(b),
             Jobs \subseteq Jobs', chain # <<>> => chain' # <<>> /\ job' = job
      PROVE  BusyFits'
  <2>1. CASE busy = "no"
    BY <1>8, <2>1 DEF BusyFits
  <2>2. CASE busy # "no"
    <3>1. chain # <<>> /\ job' = job
      BY <1>8, <2>2 DEF IInv, BusyFits
    <3>2. JobFits(job)
      BY <3>1, JobTypes DEF IInv, JobsFit
    <3>3. job.kind \in {"head", "buffer"} => blob'[job.b] = blob[job.b] /\ call'[job.who] = call[job.who]
      BY <1>2, <1>8, <3>2 DEF JobFits, Calls, Unasked
    <3>4. HasJob("destroy", job.b) => HasJob("destroy", job.b)'
      BY <1>8, <3>1 DEF HasJob
    <3> HIDE DEF HasJob, job
    <3> QED
      BY <1>8, <3>1, <3>3, <3>4 DEF IInv, BusyFits, Whole
  <2> QED
    BY <2>1, <2>2
<1> QED
  BY <1>2, <1>3, <1>4, <1>5, <1>6, <1>7, <1>8

\* Among the callers it disturbs nobody,
LEMMA CalledOthers ==
    ASSUME IInv, NEW c \in Callers, call[c].pc = "idle", NEW r \in CallKind, call' = [call EXCEPT ![c] = r],
           \A b \in r.group : Unused(b, r.op), stream' = stream, rows' = rows, alive' = alive,
           \A b \in Blobs : blob'[b] = blob[b] \/ Unasked(b)
    PROVE  /\ call' \in [Callers -> CallKind] /\ call'[c] = r /\ (\A d \in Callers : d # c => call'[d] = call[d])
           /\ Exclusive' /\ (\A y \in Jobs : JobFits(y)') /\ (\A d : Claimants(d) \subseteq Claimants(d)')
           /\ (\A d \in Callers \ {c} : CallFits(d)')
<1>1. call' \in [Callers -> CallKind] /\ call'[c] = r /\ (\A d \in Callers : d # c => call'[d] = call[d])
  BY Called
<1>2. (\A b \in r.group : Unused(b, r.op)) => Exclusive'
  BY Called
<1>3. stream' = stream /\ rows' = rows => \A x \in Jobs : JobFits(x)'
  BY Called
<1>4. \A b : Claimants(b) \subseteq Claimants(b)'
  BY Called
<1>5. alive' = alive /\ rows' = rows /\ (\A b \in Blobs : blob'[b] = blob[b] \/ Unasked(b)) => \A d \in Callers \ {c} : CallFits(d)'
  BY Called
<1> QED
  BY Zenon, <1>1, <1>2, <1>3, <1>4, <1>5

\* nor the read-ahead and the job that waits, when it leaves these alone.
LEMMA CalledKeeps ==
    ASSUME IInv, NEW c \in Callers, call[c].pc = "idle", NEW r \in CallKind, call' = [call EXCEPT ![c] = r],
           \A b \in r.group : Unused(b, r.op), stream' = stream, rows' = rows, alive' = alive,
           \A b \in Blobs : blob'[b] = blob[b] \/ Unasked(b),
           ahead' = ahead, open' = open, Live' => Live, busy' = busy,
           Jobs \subseteq Jobs', chain # <<>> => chain' # <<>> /\ job' = job
    PROVE  /\ call' \in [Callers -> CallKind] /\ call'[c] = r /\ (\A d \in Callers : d # c => call'[d] = call[d])
           /\ Exclusive' /\ (\A y \in Jobs : JobFits(y)') /\ Entries' /\ (\A d \in Callers \ {c} : CallFits(d)')
           /\ BusyFits'
<1>1. ahead' = ahead /\ open' = open /\ (Live' => Live) => Entries'
  BY Called
<1>2. busy' = busy /\ ahead' = ahead /\ stream' = stream /\ (\A b \in Blobs : blob'[b] = blob[b] \/ Unasked(b))
        /\ Jobs \subseteq Jobs' /\ (chain # <<>> => chain' # <<>> /\ job' = job) => BusyFits'
  BY Called
<1>3. /\ call' \in [Callers -> CallKind] /\ call'[c] = r /\ (\A d \in Callers : d # c => call'[d] = call[d])
      /\ Exclusive' /\ (\A y \in Jobs : JobFits(y)') /\ (\A d \in Callers \ {c} : CallFits(d)')
  BY CalledOthers
<1> QED
  BY Zenon, <1>1, <1>2, <1>3

\* A call and its fields.
LEMMA CallIs ==
    ASSUME NEW op \in AllOps, NEW n \in 0..(Size + 1), NEW pc \in {"job", "take", "done"}, NEW data \in Datas, NEW g \in SUBSET Blobs
    PROVE  [op |-> op, n |-> n, pc |-> pc, data |-> data, group |-> g] \in CallKind
BY DEF CallKind

\* What a head(n), or a buffer(), is given of a whole blob.
LEMMA FirstData ==
    ASSUME NEW n \in 0..(Size + 1)
    PROVE  FirstOf(n, Content) \in Datas /\ (n = Size + 1 => FirstOf(n, Content) = Content)
<1>1. Size \in Nat /\ n \in Nat /\ Size \in 0..Size
  BY Constants
<1>2. FirstOf(n, Content) = Segs(IF n < Size THEN n ELSE Size)
  BY <1>1, FirstSegs, Whole0
<1>3. (IF n < Size THEN n ELSE Size) \in 0..Size
  BY <1>1
<1>4. n = Size + 1 => ~(n < Size)
  BY <1>1
<1> QED
  BY <1>2, <1>3, <1>4, SegmentsOf, Whole0

\* What callers ask for.
LEMMA Asked ==
    ASSUME NEW op \in {"head", "buffer"}, NEW n \in IF op = "head" THEN Heads ELSE {Size + 1}
    PROVE  op \in AllOps /\ n \in 0..(Size + 1) /\ n > 0 /\ n \in Nat /\ (op = "head" => n \in Heads) /\ (op = "buffer" => n = Size + 1)
BY Constants DEF AllOps

\* The invariant is kept by a read that finds its blob inline,
LEMMA ReadInline_IInv ==
    ASSUME IInv, Habits = {}, NEW c \in Callers, NEW b \in Blobs, NEW op \in {"head", "buffer"},
           NEW n \in IF op = "head" THEN Heads ELSE {Size + 1}, ReadInline(c, op, b, n)
    PROVE  IInv'
<1> DEFINE r == [op |-> op, n |-> n, pc |-> "done", data |-> FirstOf(n, Content), group |-> {b}]
           x == [[blob[b] EXCEPT !.has = TRUE] EXCEPT !.cached = Content]
<1>1. /\ May(c, op, {b}) /\ ~blob[b].has /\ b \in inline.held
      /\ inline' = Taken({b}) /\ call' = [call EXCEPT ![c] = r] /\ calls' = calls + 1
      /\ stream' = stream /\ ahead' = ahead /\ chain' = chain /\ busy' = busy
      /\ rows' = rows /\ alive' = alive /\ open' = open /\ stray' = stray
  BY DEF ReadInline, Calling
<1>2. blob \in [Blobs -> BlobKind] /\ call \in [Callers -> CallKind]
  BY DEF IInv, Kinds
<1>3. blob' = [blob EXCEPT ![b] = x]
  BY DEF ReadInline
<1>4. /\ x \in BlobKind /\ x.has = TRUE /\ x.cached = Content /\ x.consumed = blob[b].consumed
      /\ x.bytes = blob[b].bytes /\ x.handle = blob[b].handle /\ x.eof = blob[b].eof
  BY <1>2, Whole0 DEF BlobKind
<1>5. op \in AllOps /\ n \in 0..(Size + 1) /\ (op = "head" => n \in Heads) /\ (op = "buffer" => n = Size + 1)
  BY Asked
<1>6. /\ call[c].pc = "idle" /\ alive /\ Live /\ calls + 1 \in 0..MaxCalls /\ rows.at # 0 /\ \A d \in {b} : Unused(d, op)
  BY <1>1, <1>5, MayParts
<1>7. r \in CallKind /\ r.op = op /\ r.n = n /\ r.pc = "done" /\ r.data = FirstOf(n, Content) /\ r.group = {b}
  BY <1>5, FirstData DEF CallKind
<1> HIDE DEF r, x
<1>8. blob'[b] = x /\ \A d \in Blobs : d # b => blob'[d] = blob[d]
  BY <1>2, <1>3
<1>9. Quiet(b)
  BY <1>1 DEF IInv, Tracked, TrackedFits
<1>10. \A d \in Blobs : blob'[d] = blob[d] \/ Unasked(d)
  BY <1>8, <1>9 DEF Quiet, Unasked
<1>11. Jobs' = Jobs /\ Line' /\ (\A d : SliceFirst(d)' = SliceFirst(d)) /\ Live' = Live /\ job' = job
  BY <1>1, Frames DEF job
<1>12. /\ call' \in [Callers -> CallKind] /\ call'[c] = r /\ (\A d \in Callers : d # c => call'[d] = call[d])
       /\ Exclusive' /\ (\A y \in Jobs : JobFits(y)') /\ Entries' /\ (\A d \in Callers \ {c} : CallFits(d)')
       /\ BusyFits'
  <2>1. \A d \in r.group : Unused(d, r.op)
    BY <1>6, <1>7
  <2> QED
    BY <1>1, <1>6, <1>7, <1>10, <1>11, <2>1, CalledKeeps
<1>13. inline'.held \subseteq inline.held
  BY <1>1 DEF Taken
<1>14. Kinds'
  BY <1>1, <1>2, <1>3, <1>4, <1>6, <1>12, <1>13 DEF IInv, Kinds
<1>15. JobsFit'
  BY <1>11, <1>12 DEF JobsFit
<1>16. Cursors'
  BY <1>1, <1>4, <1>8, <1>9, <1>11 DEF IInv, Cursors, CursorFits, Quiet
<1>17. Tracked'
  <2> SUFFICES ASSUME NEW d \in Blobs, Quiet(d) PROVE Quiet(d)'
    BY <1>1, <1>13, SameTracked
  <2>1. blob'[d].handle = blob[d].handle /\ blob'[d].bytes = blob[d].bytes
    BY <1>4, <1>8
  <2> QED
    BY <1>1, <1>7, <1>12, <2>1 DEF Quiet
<1>18. CallsFit'
  <2>1. CallFits(c)'
    BY <1>1, <1>5, <1>6, <1>7, <1>12, FirstData DEF CallFits
  <2> QED
    BY <1>12, <2>1 DEF CallsFit
<1>19. Kept'
  BY <1>1, <1>4, <1>6, <1>8, <1>11, NothingKept DEF IInv, AheadFits
<1> QED
  BY <1>1, <1>11, <1>12, <1>14, <1>15, <1>16, <1>17, <1>18, <1>19, Frames DEF IInv

\* What a cursor has read is enough, or not.
LEMMA ReadSoFar ==
    ASSUME IInv, NEW b \in Blobs, ~blob[b].has
    PROVE  /\ ~blob[b].eof /\ Promoted(blob[b]) = blob[b] /\ blob[b].bytes \in 0..Size
           /\ Concat(blob[b].consumed, blob[b].bytes) = Segs(blob[b].bytes)
           /\ \A n \in Nat : blob[b].bytes >= n => FirstOf(n, Segs(blob[b].bytes)) = FirstOf(n, Content)
<1>1. CursorFits(b) /\ blob[b].bytes \in 0..Size
  BY DEF IInv, Cursors, Kinds, BlobKind
<1>2. ~blob[b].eof /\ Promoted(blob[b]) = blob[b]
  BY <1>1 DEF CursorFits, Promoted
<1>3. Concat(blob[b].consumed, blob[b].bytes) = Segs(blob[b].bytes)
  BY <1>1, Together DEF CursorFits
<1>4. ASSUME NEW n \in Nat, NEW m \in 0..Size, m >= n PROVE FirstOf(n, Segs(m)) = FirstOf(n, Content)
  <2>1. Size \in Nat /\ Size \in 0..Size
    BY Constants
  <2>2. FirstOf(n, Segs(m)) = Segs(IF n < m THEN n ELSE m) /\ FirstOf(n, Segs(Size)) = Segs(IF n < Size THEN n ELSE Size)
    BY <2>1, FirstSegs
  <2>3. (IF n < m THEN n ELSE m) = n /\ (IF n < Size THEN n ELSE Size) = n
    BY <1>4, <2>1
  <2> QED
    BY <2>2, <2>3, Whole0
<1> QED
  BY <1>1, <1>2, <1>3, <1>4

\* A call that waits for its job.
LEMMA JobCalled ==
    ASSUME IInv, NEW c \in Callers, call[c].pc = "idle", alive, alive' = alive,
           NEW j \in JobKind, j.who = c, j.kind \in Calls, chain' = Append(chain, j)
    PROVE  /\ chain' \in Seq(JobKind) /\ Line' /\ Jobs' = Jobs \cup {j} /\ chain' # <<>> /\ Live /\ Live'
           /\ (chain # <<>> => job' = job) /\ (\A b : SliceFirst(b) => SliceFirst(b)')
           /\ (ahead' = ahead /\ rows' = rows => AheadFits')
<1>1. \A x \in Jobs : ~Alike(x, j)
  BY DEF Alike, IInv, JobsFit, JobFits, Calls, Fetches
<1>2. j.kind # "end" /\ j.kind # "slice" /\ j.kind \notin Fetches
  BY DEF Calls, Fetches
<1>3. /\ chain' \in Seq(JobKind) /\ Line' /\ Jobs' = Jobs \cup {j} /\ chain' # <<>> /\ Live /\ Live'
      /\ (chain # <<>> => job' = job) /\ (\A b : SliceFirst(b) => SliceFirst(b)')
  BY <1>1, <1>2, AddedFrames
<1> QED
  BY <1>2, <1>3, Frames

\* by a read that goes to the server, or has enough,
LEMMA ReadLocked_IInv ==
    ASSUME IInv, Habits = {}, NEW c \in Callers, NEW b \in Blobs, NEW op \in {"head", "buffer"},
           NEW n \in IF op = "head" THEN Heads ELSE {Size + 1}, ReadLocked(c, op, b, n)
    PROVE  IInv'
<1>1. /\ May(c, op, {b}) /\ ~blob[b].has /\ b \notin inline.held /\ ahead.entry[b].state = "none"
      /\ inline' = inline /\ stream' = stream /\ ahead' = ahead /\ busy' = busy
      /\ rows' = rows /\ alive' = alive /\ open' = open /\ stray' = stray
  BY DEF ReadLocked, OnDemand
<1>2. /\ op \in AllOps /\ n \in 0..(Size + 1) /\ n \in Nat /\ n > 0
      /\ (op = "head" => n \in Heads) /\ (op = "buffer" => n = Size + 1)
  BY Asked
<1>3. /\ call[c].pc = "idle" /\ alive /\ Live /\ calls + 1 \in 0..MaxCalls /\ rows.at # 0 /\ \A d \in {b} : Unused(d, op)
  BY <1>1, <1>2, MayParts
<1>4. ~blob[b].eof /\ Promoted(blob[b]) = blob[b] /\ Concat(blob[b].consumed, blob[b].bytes) = Segs(blob[b].bytes)
  BY <1>1, ReadSoFar
<1>5. blob \in [Blobs -> BlobKind]
  BY DEF IInv, Kinds
<1>6. CASE op = "head" /\ Enough(b, n)
  <2> DEFINE r == [op |-> op, n |-> n, pc |-> "done", data |-> FirstOf(n, Content), group |-> {b}]
  <2>1. FirstOf(n, Segs(blob[b].bytes)) = FirstOf(n, Content)
    BY <1>1, <1>2, <1>4, <1>6, ReadSoFar DEF Enough
  <2>2. /\ blob' = [blob EXCEPT ![b] = Promoted(@)] /\ chain' = chain
        /\ Calling(c, op, {b}, n, "done", FirstOf(n, Segs(blob[b].bytes)))
    BY <1>4, <1>6 DEF ReadLocked
  <2>3. blob' = blob /\ call' = [call EXCEPT ![c] = r] /\ calls' = calls + 1
    BY <1>4, <1>5, <2>1, <2>2 DEF Calling
  <2>4. r \in CallKind /\ r.op = op /\ r.n = n /\ r.pc = "done" /\ r.data = FirstOf(n, Content) /\ r.group = {b}
    BY <1>2, FirstData DEF CallKind
  <2> HIDE DEF r
  <2>5. Jobs' = Jobs /\ Line' /\ (\A d : SliceFirst(d)' = SliceFirst(d)) /\ Live' = Live /\ job' = job
    BY <1>1, <2>2, Frames DEF job
  <2>6. /\ call' \in [Callers -> CallKind] /\ call'[c] = r /\ (\A d \in Callers : d # c => call'[d] = call[d])
        /\ Exclusive' /\ (\A y \in Jobs : JobFits(y)') /\ Entries' /\ (\A d \in Callers \ {c} : CallFits(d)')
        /\ BusyFits'
    <3>1. (\A d \in r.group : Unused(d, r.op)) /\ (\A d \in Blobs : blob'[d] = blob[d])
      BY <1>3, <2>3, <2>4
    <3> QED
      BY <1>1, <1>3, <2>2, <2>3, <2>4, <2>5, <3>1, CalledKeeps
  <2>7. Kinds'
    BY <1>1, <1>3, <2>2, <2>3, <2>6 DEF IInv, Kinds
  <2>8. JobsFit'
    BY <2>5, <2>6 DEF JobsFit
  <2>9. Tracked'
    BY <1>1, <2>3, <2>4, <2>6 DEF IInv, Tracked, TrackedFits, Quiet
  <2>10. CallsFit'
    <3>1. CallFits(c)'
      BY <1>1, <1>2, <1>3, <2>4, <2>6, FirstData DEF CallFits
    <3> QED
      BY <2>6, <3>1 DEF CallsFit
  <2>11. Kept'
    BY <1>1, <1>3, <2>3, <2>5, NothingKept DEF IInv, AheadFits
  <2> QED
    BY <1>1, <2>2, <2>3, <2>5, <2>6, <2>7, <2>8, <2>9, <2>10, <2>11, Frames DEF IInv
<1>7. CASE ~(op = "head" /\ Enough(b, n))
  <2> DEFINE r == [op |-> op, n |-> n, pc |-> "job", data |-> <<>>, group |-> {b}]
             j == Job(op, b, c)
  <2>1. blob' = blob /\ chain' = Append(chain, j) /\ call' = [call EXCEPT ![c] = r] /\ calls' = calls + 1
    BY <1>7 DEF ReadLocked, Calling
  <2>2. r \in CallKind /\ r.op = op /\ r.n = n /\ r.pc = "job" /\ r.group = {b}
    BY <1>2, Whole0 DEF CallKind
  <2>3. j \in JobKind /\ j.kind = op /\ j.b = b /\ j.who = c
    <3>1. op \in JobKinds /\ b \in Blobs \cup {Nobody} /\ c \in Callers \cup {Nobody}
      BY DEF JobKinds, Calls
    <3> QED
      BY <3>1, JobIs
  <2> HIDE DEF r, j
  <2>4. /\ chain' \in Seq(JobKind) /\ Line' /\ Jobs' = Jobs \cup {j} /\ chain' # <<>> /\ Live /\ Live'
        /\ (chain # <<>> => job' = job) /\ (\A d : SliceFirst(d) => SliceFirst(d)') /\ AheadFits'
    BY <1>1, <1>3, <2>1, <2>3, JobCalled DEF Calls
  <2>6. /\ call' \in [Callers -> CallKind] /\ call'[c] = r /\ (\A d \in Callers : d # c => call'[d] = call[d])
        /\ Exclusive' /\ (\A y \in Jobs : JobFits(y)') /\ Entries' /\ (\A d \in Callers \ {c} : CallFits(d)')
        /\ BusyFits'
    <3>1. (\A d \in r.group : Unused(d, r.op)) /\ (\A d \in Blobs : blob'[d] = blob[d]) /\ Jobs \subseteq Jobs'
      BY <1>3, <2>1, <2>2, <2>4
    <3> QED
      BY <1>1, <1>3, <2>1, <2>2, <2>4, <3>1, CalledKeeps
  <2>7. Kinds'
    BY <1>1, <1>3, <2>1, <2>4, <2>6 DEF IInv, Kinds
  <2>8. JobsFit'
    <3>1. JobFits(j)'
      BY <2>2, <2>3, <2>6 DEF JobFits, Calls
    <3> QED
      BY <2>4, <2>6, <3>1 DEF JobsFit
  <2>9. Tracked'
    <3>1. \A d \in Blobs : ~(d \in inline.held \/ ahead.entry[d].state # "none" \/ rows.at = 0) \/ d # b
      BY <1>1, <1>3
    <3> QED
      BY <1>1, <2>1, <2>2, <2>6, <3>1 DEF IInv, Tracked, TrackedFits, Quiet
  <2>10. CallsFit'
    <3>1. CallFits(c)'
      BY <1>1, <1>2, <1>3, <2>1, <2>2, <2>6 DEF CallFits
    <3> QED
      BY <2>6, <3>1 DEF CallsFit
  <2>11. \A y \in Jobs' \cup Jobs : y.kind \in KeeperJobs => y \in Jobs' /\ y \in Jobs
    BY <2>3, <2>4 DEF KeeperJobs
  <2>12. Kept'
    BY <1>1, <2>1, <2>4, <2>11, NothingKept
  <2> QED
    BY <1>1, <2>1, <2>4, <2>6, <2>7, <2>8, <2>9, <2>10, <2>12, Frames DEF IInv
<1> QED
  BY <1>6, <1>7

\* by the close of a cursor, whose handle passes to the job that closes it.
LEMMA Close_IInv ==
    ASSUME IInv, Habits = {}, NEW c \in Callers, NEW b \in Blobs, Close(c, b)
    PROVE  IInv'
<1> SUFFICES ASSUME NEW h, h = blob[b].handle PROVE IInv'
  OBVIOUS
<1> DEFINE x == Forgotten(blob[b])
           j == [Job("close", b, c) EXCEPT !.h = h]
           pc == IF h = NoHandle THEN "done" ELSE "job"
           r == [op |-> "close", n |-> 0, pc |-> pc, data |-> <<>>, group |-> {b}]
<1>1. /\ May(c, "close", {b}) /\ blob[b].bytes > 0 /\ blob' = [blob EXCEPT ![b] = x]
      /\ call' = [call EXCEPT ![c] = r] /\ calls' = calls + 1
      /\ chain' = (IF h = NoHandle THEN chain ELSE Append(chain, j))
      /\ inline' = inline /\ stream' = stream /\ ahead' = ahead /\ busy' = busy
      /\ rows' = rows /\ alive' = alive /\ open' = open /\ stray' = stray
  BY DEF Close, Calling
<1>2. /\ call[c].pc = "idle" /\ alive /\ Live /\ calls + 1 \in 0..MaxCalls /\ rows.at # 0
      /\ (\A d \in {b} : Unused(d, "close")) /\ \A d \in {b} : Unasked(d)
  BY <1>1, MayParts DEF AllOps
<1>3. blob \in [Blobs -> BlobKind] /\ CursorFits(b)
  BY DEF IInv, Kinds, Cursors
<1>4. /\ x \in BlobKind /\ x.has = blob[b].has /\ x.cached = blob[b].cached /\ x.consumed = <<>>
      /\ x.bytes = 0 /\ x.handle = NoHandle /\ x.eof = FALSE
  <2>1. blob[b] \in BlobKind /\ <<>> \in Datas /\ 0 \in 0..Size
    BY <1>3, Whole0, Constants
  <2>2. /\ x.has = blob[b].has /\ x.cached = blob[b].cached /\ x.consumed = <<>>
        /\ x.bytes = 0 /\ x.handle = NoHandle /\ x.eof = FALSE
    BY <2>1 DEF Forgotten, BlobKind
  <2>3. [[blob[b] EXCEPT !.handle = NoHandle] EXCEPT !.consumed = <<>>] \in BlobKind
    BY <2>1 DEF BlobKind
  <2>4. [[[[blob[b] EXCEPT !.handle = NoHandle] EXCEPT !.consumed = <<>>] EXCEPT !.bytes = 0] EXCEPT !.eof = FALSE] \in BlobKind
    BY <2>1, <2>3 DEF BlobKind
  <2> QED
    BY <2>2, <2>4 DEF Forgotten
<1>5. h \in Handles \cup {NoHandle} /\ (pc = "done" <=> h = NoHandle) /\ pc \in {"done", "job"}
  BY <1>3 DEF BlobKind
<1>6. r \in CallKind /\ r.op = "close" /\ r.n = 0 /\ r.pc = pc /\ r.group = {b}
  BY <1>5, Whole0, Constants DEF CallKind, AllOps
<1>7. j \in JobKind /\ j.kind = "close" /\ j.b = b /\ j.who = c /\ j.h = h
  <2>1. Job("close", b, c) \in JobKind /\ Job("close", b, c).kind = "close" /\ Job("close", b, c).b = b /\ Job("close", b, c).who = c
    <3>1. "close" \in JobKinds /\ b \in Blobs \cup {Nobody} /\ c \in Callers \cup {Nobody}
      BY DEF JobKinds, Calls
    <3> QED
      BY <3>1, JobIs
  <2> QED
    BY <1>5, <2>1 DEF JobKind
<1> HIDE DEF r, j, x, pc
<1>8. blob'[b] = x /\ \A d \in Blobs : d # b => blob'[d] = blob[d]
  BY <1>1, <1>3
<1>9. \A d \in Blobs : blob'[d] = blob[d] \/ Unasked(d)
  BY <1>2, <1>8
<1>10. /\ chain' \in Seq(JobKind) /\ Line' /\ Jobs' = Jobs \cup (IF h = NoHandle THEN {} ELSE {j}) /\ Live'
       /\ (chain # <<>> => chain' # <<>> /\ job' = job) /\ (\A d : SliceFirst(d) => SliceFirst(d)') /\ AheadFits'
  <2>1. CASE h = NoHandle
    <3>1. chain' = chain
      BY <1>1, <2>1
    <3>2. Jobs' = Jobs /\ Line' /\ (\A d : SliceFirst(d)' = SliceFirst(d)) /\ Live' = Live /\ job' = job
      BY <1>1, <3>1, Frames DEF job
    <3>3. AheadFits' /\ chain \in Seq(JobKind)
      BY <1>1, <3>2, Frames DEF IInv, Kinds
    <3> QED
      BY <1>2, <2>1, <3>1, <3>2, <3>3
  <2>2. CASE h # NoHandle
    <3>1. chain' = Append(chain, j)
      BY <1>1, <2>2
    <3>2. /\ chain' \in Seq(JobKind) /\ Line' /\ Jobs' = Jobs \cup {j} /\ chain' # <<>> /\ Live'
          /\ (chain # <<>> => job' = job) /\ (\A d : SliceFirst(d) => SliceFirst(d)') /\ AheadFits'
      BY <1>1, <1>2, <1>7, <3>1, JobCalled DEF Calls
    <3> QED
      BY <2>2, <3>2
  <2> QED
    BY <2>1, <2>2
<1>11. /\ call' \in [Callers -> CallKind] /\ call'[c] = r /\ (\A d \in Callers : d # c => call'[d] = call[d])
       /\ Exclusive' /\ (\A y \in Jobs : JobFits(y)') /\ Entries' /\ (\A d \in Callers \ {c} : CallFits(d)')
       /\ BusyFits'
  <2>1. Jobs \subseteq Jobs'
    BY <1>10
  <2> QED
    <3>1. \A d \in r.group : Unused(d, r.op)
      BY <1>2, <1>6
    <3> QED
      BY <1>1, <1>2, <1>6, <1>9, <1>10, <2>1, <3>1, CalledKeeps
<1>12. Kinds'
  BY <1>1, <1>2, <1>3, <1>4, <1>10, <1>11 DEF IInv, Kinds
<1>13. JobsFit'
  <2>1. ASSUME h # NoHandle PROVE JobFits(j)'
    <3>1. call'[c].pc = "job" /\ call'[c].op = "close" /\ call'[c].group = {b}
      BY <1>5, <1>6, <1>11, <2>1
    <3> QED
      BY <1>7, <2>1, <3>1 DEF JobFits, Calls
  <2>2. \A y \in Jobs' : y \in Jobs \/ (h # NoHandle /\ y = j)
    BY <1>10
  <2>3. \A y \in Jobs' : JobFits(y)'
    BY <1>11, <2>1, <2>2
  <2> QED
    BY <2>3 DEF JobsFit
<1>14. Cursors'
  <2>1. CursorFits(b)'
    BY <1>3, <1>4, <1>8, Whole0 DEF CursorFits
  <2>2. \A d \in Blobs : d # b => CursorFits(d)'
    BY <1>1, <1>2, <1>8 DEF IInv, Cursors, CursorFits
  <2> QED
    BY <2>1, <2>2 DEF Cursors
<1>15. Tracked'
  <2>1. ~Quiet(b)
    BY <1>1, <1>3, Constants DEF Quiet
  <2>2. ~(b \in inline.held \/ ahead.entry[b].state # "none" \/ rows.at = 0)
    BY <2>1 DEF IInv, Tracked, TrackedFits
  <2> QED
    BY <1>1, <1>6, <1>8, <1>11, <2>2 DEF IInv, Tracked, TrackedFits, Quiet
<1>16. CallsFit'
  <2>1. CallFits(c)'
    BY <1>1, <1>2, <1>4, <1>6, <1>8, <1>11 DEF CallFits
  <2> QED
    BY <1>11, <2>1 DEF CallsFit
<1>17. Kept'
  <2>1. \A k \in Handles : k # NoHandle
    BY Constants
  <2>2. \A y \in Jobs : ~(y.kind = "close" /\ y.b = b)
    BY <1>2 DEF IInv, JobsFit, JobFits, Calls, Unasked
  <2>3. ASSUME NEW d \in Blobs, NEW k \in Handles PROVE CursorHas(d, k)' <=> CursorHas(d, k)
    <3>1. CASE d = b
      BY <1>4, <1>7, <1>8, <1>10, <2>1, <2>2, <3>1 DEF CursorHas
    <3>2. CASE d # b
      BY <1>7, <1>8, <1>10, <3>2 DEF CursorHas
    <3> QED
      BY <3>1, <3>2
  <2>4. ASSUME NEW d \in Blobs, NEW k \in Handles PROVE (StreamHas(d, k)' <=> StreamHas(d, k)) /\ (AheadHas(d, k)' <=> AheadHas(d, k))
    BY <1>1, <1>7, <1>10 DEF StreamHas, AheadHas, HasJob
  <2>5. Kept /\ DOMAIN open \subseteq Handles
    BY DEF IInv, Kinds
  <2> QED
    BY <1>1, <1>2, <1>10, <2>3, <2>4, <2>5, StillKept
<1>18. Streams' /\ Abandons'
  BY <1>1, <1>2, <1>10, Frames
<1> QED
  BY <1>10, <1>11, <1>12, <1>13, <1>14, <1>15, <1>16, <1>17, <1>18 DEF IInv

\* A blob's bytes are known.
LEMMA CachedIs ==
    ASSUME NEW x \in BlobKind
    PROVE  LET y == [x EXCEPT !.has = TRUE, !.cached = Content]
           IN /\ y \in BlobKind /\ y.has = TRUE /\ y.cached = Content /\ y.consumed = x.consumed
              /\ y.bytes = x.bytes /\ y.handle = x.handle /\ y.eof = x.eof
<1>1. Content \in Datas
  BY Whole0
<1>2. [x EXCEPT !.has = TRUE] \in BlobKind
  BY DEF BlobKind
<1>3. [[x EXCEPT !.has = TRUE] EXCEPT !.cached = Content] \in BlobKind
  BY <1>1, <1>2 DEF BlobKind
<1> QED
  BY <1>3 DEF BlobKind

\* by the prefetch of the blobs of all rows,
LEMMA Bulk_IInv ==
    ASSUME IInv, Habits = {}, NEW c \in Callers, Bulk(c)
    PROVE  IInv'
<1> DEFINE fresh == {b \in 1..rows.at : ~blob[b].has /\ blob[b].handle = NoHandle /\ blob[b].bytes = 0}
<1> SUFFICES ASSUME NEW local, local = fresh \cap inline.held,
                    NEW g, g = {b \in fresh \ local : ahead.entry[b].state = "none"}
             PROVE  IInv'
  OBVIOUS
<1> DEFINE pc == IF g = {} THEN "done" ELSE "job"
           j == Job("prefetch", 0, c)
           r == [op |-> "prefetch", n |-> 0, pc |-> pc, data |-> <<>>, group |-> g]
<1>1. /\ May(c, "prefetch", 1..rows.at)
      /\ call' = [call EXCEPT ![c] = r] /\ calls' = calls + 1
      /\ chain' = (IF g = {} THEN chain ELSE Append(chain, j))
      /\ inline' = Taken(local) /\ stream' = stream /\ ahead' = ahead /\ busy' = busy
      /\ rows' = rows /\ alive' = alive /\ open' = open /\ stray' = stray
  BY Zenon DEF Bulk, Calling
<1>b. blob' = [b \in Blobs |-> IF b \in local THEN [blob[b] EXCEPT !.has = TRUE, !.cached = Content] ELSE blob[b]]
  BY Zenon DEF Bulk
<1>2. /\ call[c].pc = "idle" /\ alive /\ Live /\ calls + 1 \in 0..MaxCalls /\ rows.at # 0 /\ 1..rows.at \in SUBSET Blobs
      /\ (\A d \in 1..rows.at : Unused(d, "prefetch")) /\ \A d \in 1..rows.at : Unasked(d)
  <2> DEFINE all == 1..rows.at
  <2>1. May(c, "prefetch", all)
    BY <1>1
  <2>2. "prefetch" \in AllOps /\ "prefetch" # "head"
    BY DEF AllOps
  <2> HIDE DEF all
  <2>3. /\ call[c].pc = "idle" /\ alive /\ Live /\ calls + 1 \in 0..MaxCalls /\ rows.at # 0 /\ all \in SUBSET Blobs
        /\ (\A d \in all : Unused(d, "prefetch")) /\ \A d \in all : Unasked(d)
    BY <2>1, <2>2, MayParts
  <2> QED
    BY <2>3 DEF all
<1>3. blob \in [Blobs -> BlobKind]
  BY DEF IInv, Kinds
<1>4. /\ g \in SUBSET Blobs /\ g \subseteq 1..rows.at /\ local \subseteq 1..rows.at /\ local \subseteq inline.held
      /\ \A b \in g : ~blob[b].has /\ blob[b].handle = NoHandle /\ blob[b].bytes = 0 /\ b \notin local
                        /\ b \notin inline.held /\ ahead.entry[b].state = "none"
  BY <1>2
<1> HIDE DEF fresh
<1>5. pc \in {"done", "job"} /\ (pc = "done" <=> g = {})
  OBVIOUS
<1>6. r \in CallKind /\ r.op = "prefetch" /\ r.pc = pc /\ r.group = g
  BY <1>4, <1>5, Whole0, Constants DEF CallKind, AllOps
<1>7. j \in JobKind /\ j.kind = "prefetch" /\ j.b = Nobody /\ j.who = c
  <2>1. "prefetch" \in JobKinds /\ 0 \in Blobs \cup {Nobody} /\ c \in Callers \cup {Nobody} /\ 0 = Nobody
    BY DEF JobKinds, Calls, Nobody
  <2> QED
    BY <2>1, JobIs
<1> HIDE DEF r, j, pc
<1>8. \A b \in Blobs : /\ blob'[b] \in BlobKind /\ blob'[b].consumed = blob[b].consumed /\ blob'[b].bytes = blob[b].bytes
                       /\ blob'[b].handle = blob[b].handle /\ blob'[b].eof = blob[b].eof
                       /\ (b \in local /\ blob'[b].has /\ blob'[b].cached = Content) \/ (b \notin local /\ blob'[b] = blob[b])
  <2> SUFFICES ASSUME NEW b \in Blobs
               PROVE  /\ blob'[b] \in BlobKind /\ blob'[b].consumed = blob[b].consumed /\ blob'[b].bytes = blob[b].bytes
                      /\ blob'[b].handle = blob[b].handle /\ blob'[b].eof = blob[b].eof
                      /\ (b \in local /\ blob'[b].has /\ blob'[b].cached = Content) \/ (b \notin local /\ blob'[b] = blob[b])
    OBVIOUS
  <2>1. blob[b] \in BlobKind
    BY <1>3
  <2>2. CASE b \in local
    <3>1. blob'[b] = [blob[b] EXCEPT !.has = TRUE, !.cached = Content]
      BY Zenon, <1>b, <2>2
    <3> QED
      BY Zenon, <2>1, <2>2, <3>1, CachedIs
  <2>3. CASE b \notin local
    BY Zenon, <1>b, <2>1, <2>3
  <2> QED
    BY <2>2, <2>3
<1>9. blob' \in [Blobs -> BlobKind]
  BY Zenon, <1>b, <1>8
<1>10. \A d \in Blobs : blob'[d] = blob[d] \/ Unasked(d)
  BY <1>2, <1>4, <1>8
<1>11. /\ chain' \in Seq(JobKind) /\ Line' /\ (Jobs' = Jobs \/ (g # {} /\ Jobs' = Jobs \cup {j})) /\ Live'
       /\ (chain # <<>> => chain' # <<>> /\ job' = job) /\ (\A d : SliceFirst(d) => SliceFirst(d)') /\ AheadFits'
  <2>1. CASE g = {}
    <3>1. chain' = chain
      BY <1>1, <2>1
    <3>2. Jobs' = Jobs /\ Line' /\ (\A d : SliceFirst(d)' = SliceFirst(d)) /\ Live' = Live /\ job' = job
      BY <1>1, <3>1, Frames DEF job
    <3>3. AheadFits' /\ chain \in Seq(JobKind)
      BY <1>1, <3>2, Frames DEF IInv, Kinds
    <3> QED
      BY <1>2, <2>1, <3>1, <3>2, <3>3
  <2>2. CASE g # {}
    <3>1. chain' = Append(chain, j)
      BY <1>1, <2>2
    <3>2. /\ chain' \in Seq(JobKind) /\ Line' /\ Jobs' = Jobs \cup {j} /\ chain' # <<>> /\ Live'
          /\ (chain # <<>> => job' = job) /\ (\A d : SliceFirst(d) => SliceFirst(d)') /\ AheadFits'
      BY <1>1, <1>2, <1>7, <3>1, JobCalled DEF Calls
    <3> QED
      BY <2>2, <3>2
  <2> QED
    BY <2>1, <2>2
<1>12. /\ call' \in [Callers -> CallKind] /\ call'[c] = r /\ (\A d \in Callers : d # c => call'[d] = call[d])
       /\ Exclusive' /\ (\A y \in Jobs : JobFits(y)') /\ Entries' /\ (\A d \in Callers \ {c} : CallFits(d)')
       /\ BusyFits'
  <2>1. Jobs \subseteq Jobs' /\ \A b \in r.group : Unused(b, r.op)
    BY <1>2, <1>4, <1>6, <1>11
  <2> QED
    BY <1>1, <1>2, <1>6, <1>10, <1>11, <2>1, Called
<1>13. inline'.held \subseteq inline.held
  BY <1>1 DEF Taken
<1>14. Kinds'
  BY <1>1, <1>2, <1>9, <1>11, <1>12, <1>13 DEF IInv, Kinds
<1>15. JobsFit'
  <2>1. ASSUME g # {} PROVE JobFits(j)'
    <3>1. call'[c].pc = "job" /\ call'[c].op = "prefetch"
      BY <1>5, <1>6, <1>12, <2>1
    <3> QED
      BY <1>7, <3>1 DEF JobFits, Calls
  <2>2. \A y \in Jobs' : y \in Jobs \/ (g # {} /\ y = j)
    BY <1>11
  <2>3. \A y \in Jobs' : JobFits(y)'
    BY <1>12, <2>1, <2>2
  <2> QED
    BY <2>3 DEF JobsFit
<1>16. Cursors'
  <2> SUFFICES ASSUME NEW b \in Blobs PROVE CursorFits(b)'
    BY DEF Cursors
  <2>1. CursorFits(b)
    BY DEF IInv, Cursors
  <2>2. b \in local => blob[b].handle = NoHandle
    BY <1>4 DEF IInv, Tracked, TrackedFits, Quiet
  <2> QED
    BY <1>1, <1>2, <1>8, <2>1, <2>2 DEF CursorFits
<1>17. Tracked'
  <2> SUFFICES ASSUME NEW b \in Blobs, b \in inline'.held \/ ahead'.entry[b].state # "none" \/ rows'.at = 0 PROVE Quiet(b)'
    BY DEF Tracked, TrackedFits
  <2>1. Quiet(b) /\ b \notin g
    BY <1>1, <1>2, <1>4, <1>13 DEF IInv, Tracked, TrackedFits
  <2> QED
    BY <1>1, <1>6, <1>8, <1>12, <2>1 DEF Quiet
<1>18. CallsFit'
  <2>1. CallFits(c)'
    <3>1. \A b \in g : ~blob'[b].has /\ blob'[b].handle = NoHandle /\ blob'[b].bytes = 0
      BY <1>4, <1>8
    <3>2. call'[c].pc \in {"job", "done"} /\ call'[c].op = "prefetch" /\ call'[c].group = g
      BY <1>5, <1>6, <1>12
    <3> QED
      BY <1>1, <1>2, <3>1, <3>2 DEF CallFits
  <2> QED
    BY <1>12, <2>1 DEF CallsFit
<1>19. Kept'
  <2>1. \A y \in Jobs' \cup Jobs : y.kind \in KeeperJobs => y \in Jobs' /\ y \in Jobs
    BY <1>7, <1>11 DEF KeeperJobs
  <2> QED
    BY <1>1, <1>2, <1>8, <1>11, <2>1, NothingKept
<1>20. Streams' /\ Abandons'
  BY <1>1, <1>2, <1>11, Frames
<1> QED
  BY <1>11, <1>12, <1>14, <1>15, <1>16, <1>17, <1>18, <1>19, <1>20 DEF IInv

\* and by a stream that takes a cursor over, with what that had read.
LEMMA Stream_IInv ==
    ASSUME IInv, Habits = {}, NEW c \in Callers, NEW b \in Blobs, Stream(c, b)
    PROVE  IInv'
<1> DEFINE x == blob[b]
           t == [NoStream EXCEPT !.on = TRUE, !.handle = x.handle, !.lead = Concat(x.consumed, x.bytes)]
<1>1. /\ May(c, "stream", {b}) /\ ~x.has /\ b \notin inline.held /\ ahead.entry[b].state = "none"
      /\ ~stream[b].on /\ calls' = calls + 1
      /\ call' = call /\ inline' = inline /\ ahead' = ahead /\ busy' = busy /\ chain' = chain
      /\ rows' = rows /\ alive' = alive /\ open' = open /\ stray' = stray
  BY DEF Stream, OnDemand
<1>2. /\ call[c].pc = "idle" /\ alive /\ Live /\ calls + 1 \in 0..MaxCalls /\ rows.at # 0
      /\ (\A d \in {b} : Unused(d, "stream")) /\ \A d \in {b} : Unasked(d)
  BY <1>1, MayParts DEF AllOps
<1>3. ~x.eof /\ Promoted(x) = x /\ x.bytes \in 0..Size /\ Concat(x.consumed, x.bytes) = Segs(x.bytes)
  BY <1>1, ReadSoFar
<1>4. blob' = [blob EXCEPT ![b] = Fresh] /\ stream' = [stream EXCEPT ![b] = t]
  BY <1>1, <1>3 DEF Stream
<1>5. /\ blob \in [Blobs -> BlobKind] /\ stream \in [Blobs -> StreamKind] /\ CursorFits(b)
      /\ StreamFits(b) /\ x \in BlobKind
  BY DEF IInv, Kinds, Cursors, Streams
<1>6. /\ t \in StreamKind /\ t.on /\ t.lead = Segs(x.bytes) /\ t.handle = x.handle /\ ~t.finished /\ ~t.pulling
      /\ t.given = <<>> /\ ~t.ended
  <2>2. Segs(x.bytes) \in Datas /\ <<>> \in Datas /\ x.handle \in Handles \cup {NoHandle}
    BY <1>3, <1>5, SegmentsOf, Whole0 DEF BlobKind
  <2>3. t = [on |-> TRUE, lead |-> Segs(x.bytes), handle |-> x.handle, finished |-> FALSE,
             pulling |-> FALSE, given |-> <<>>, ended |-> FALSE]
    <3> DEFINE lead == Concat(x.consumed, x.bytes)
               h == x.handle
    <3>1. t = [NoStream EXCEPT !.on = TRUE, !.handle = h, !.lead = lead]
      OBVIOUS
    <3> HIDE DEF t, x, h, lead
    <3>2. t = [on |-> TRUE, lead |-> lead, handle |-> h, finished |-> FALSE,
             pulling |-> FALSE, given |-> <<>>, ended |-> FALSE]
      BY <3>1 DEF NoStream
    <3> QED
      BY <1>3, <3>2 DEF h, lead
  <2> HIDE DEF t, x
  <2>1. /\ t.on /\ t.lead = Segs(x.bytes) /\ t.handle = x.handle /\ ~t.finished /\ ~t.pulling
        /\ t.given = <<>> /\ ~t.ended
    BY <2>3
  <2>4. t \in StreamKind
    BY <2>2, <2>3 DEF StreamKind
  <2> QED
    BY <2>1, <2>4
<1> HIDE DEF t
<1>7. /\ blob'[b] = Fresh /\ (\A d \in Blobs : d # b => blob'[d] = blob[d])
      /\ stream'[b] = t /\ (\A d \in Blobs : d # b => stream'[d] = stream[d])
  BY <1>4, <1>5
<1>8. Jobs' = Jobs /\ Line' /\ (\A d : SliceFirst(d)' = SliceFirst(d)) /\ Live' = Live /\ job' = job
  BY <1>1, Frames DEF job
<1>9. Kinds'
  BY <1>1, <1>2, <1>4, <1>5, <1>6, NewKinds DEF IInv, Kinds
<1>10. /\ Fresh.has = FALSE /\ Fresh.consumed = <<>> /\ Fresh.bytes = 0 /\ Fresh.handle = NoHandle /\ Fresh.eof = FALSE
  BY DEF Fresh
<1>11. \A y \in Jobs : JobFits(y) /\ (y.kind \in {"pull", "destroy", "eof", "head", "buffer", "close"} => y.b \in Blobs /\ y.b # b)
  <2> SUFFICES ASSUME NEW y \in Jobs PROVE JobFits(y) /\ (y.kind \in {"pull", "destroy", "eof", "head", "buffer", "close"} => y.b \in Blobs /\ y.b # b)
    OBVIOUS
  <2>1. JobFits(y)
    BY DEF IInv, JobsFit
  <2> QED
    BY <1>1, <1>2, <2>1 DEF JobFits, Unasked, Calls
<1>12. JobsFit'
  <2> SUFFICES ASSUME NEW y \in Jobs PROVE JobFits(y)'
    BY <1>8 DEF JobsFit
  <2> QED
    BY <1>1, <1>7, <1>11 DEF JobFits
<1>13. Cursors'
  <2>1. CursorFits(b)'
    BY <1>7, <1>10, Whole0 DEF CursorFits
  <2> QED
    BY <1>1, <1>7, <1>8, <2>1 DEF IInv, Cursors, CursorFits
<1>14. Streams'
  <2>1. Len(t.given) + Len(t.lead) = x.bytes
    <3>1. Len(t.given) = 0 /\ Len(t.lead) = x.bytes
      BY <1>3, <1>6, SegmentsOf, EmptySeq
    <3> QED
      BY <1>3, <3>1, Constants
  <2>2. StreamFits(b)'
    <3> HIDE DEF x
    <3>1. x.handle = NoHandle => x.bytes = 0
      BY <1>1, <1>5 DEF CursorFits, x
    <3>2. x.handle # NoHandle => open[x.handle].at = x.bytes + 1
      BY <1>2, <1>5 DEF CursorFits, x
    <3> QED
      BY <1>1, <1>2, <1>6, <1>7, <1>8, <2>1, <3>1, <3>2 DEF StreamFits, Given
  <2> QED
    <3> SUFFICES ASSUME NEW d \in Blobs, d # b PROVE StreamFits(d)'
      BY <2>2 DEF Streams
    <3> QED
      BY <1>1, <1>7, <1>8, SameStream DEF IInv, Streams
<1>15. Tracked'
  <2>1. \A d \in Blobs : ~(d \in inline.held \/ ahead.entry[d].state # "none" \/ rows.at = 0) \/ d # b
    BY <1>1, <1>2
  <2> QED
    BY <1>1, <1>7, <2>1 DEF IInv, Tracked, TrackedFits, Quiet
<1>16. CallsFit'
  <2> SUFFICES ASSUME NEW d \in Callers PROVE CallFits(d)'
    BY DEF CallsFit
  <2>1. CallFits(d) /\ (call[d].pc = "job" => \A e \in call[d].group : e \in Blobs /\ e # b)
    BY <1>2 DEF IInv, CallsFit, Kinds, CallKind, Unasked
  <2> QED
    BY <1>1, <1>7, <2>1 DEF CallFits
<1>17. BusyFits'
  <2>1. CASE busy = "no"
    BY <1>1, <2>1 DEF BusyFits
  <2>2. CASE busy # "no"
    <3>1. chain # <<>> /\ job \in Jobs
      BY <2>2, JobTypes DEF IInv, BusyFits
    <3>2. job.kind \in {"pull", "head", "buffer"} => blob'[job.b] = blob[job.b] /\ stream'[job.b] = stream[job.b]
      BY <1>7, <1>11, <3>1
    <3>3. HasJob("destroy", job.b)' = HasJob("destroy", job.b)
      BY <1>8 DEF HasJob
    <3> HIDE DEF HasJob, job
    <3> QED
      BY <1>1, <1>8, <3>1, <3>2, <3>3 DEF IInv, BusyFits, Whole
  <2> QED
    BY <2>1, <2>2
<1>18. Kept'
  <2>1. \A k \in Handles : k # NoHandle
    BY Constants
  <2>2. Kept
    BY DEF IInv
  <2>3. ASSUME NEW d \in Blobs, NEW h \in Handles, d # b PROVE (CursorHas(d, h)' <=> CursorHas(d, h)) /\ (StreamHas(d, h)' <=> StreamHas(d, h))
    BY <1>7, <1>8, <2>3 DEF CursorHas, StreamHas, HasJob
  <2>4. ASSUME NEW h \in Handles
        PROVE  ~CursorHas(b, h)' /\ (StreamHas(b, h)' <=> CursorHas(b, h)) /\ ~StreamHas(b, h)
    <3>1. ~CursorHas(b, h)'
      BY <1>7, <1>8, <1>10, <1>11, <2>1 DEF CursorHas
    <3>2. CursorHas(b, h) <=> x.handle = h
      BY <1>11 DEF CursorHas
    <3>3. StreamHas(b, h)' <=> x.handle = h
      BY <1>6, <1>7, <1>8, <1>11 DEF StreamHas, HasJob
    <3>4. ~StreamHas(b, h)
      BY <1>1, <1>5, <1>11, <2>1 DEF StreamHas, HasJob, StreamFits, NoStream
    <3> QED
      BY <3>1, <3>2, <3>3, <3>4
  <2>5. \A d \in Blobs, h \in Handles : AheadHas(d, h)' <=> AheadHas(d, h)
    BY <1>1 DEF AheadHas
  <2>6. ASSUME NEW d \in Blobs, NEW h \in Handles PROVE KeptFits(d, h)'
    <3>1. KeptFits(d, h)
      BY <2>2 DEF Kept
    <3> QED
      BY <1>1, <1>8, <2>3, <2>4, <2>5, <3>1 DEF KeptFits
  <2>7. OwnedFits'
    <3>1. DOMAIN open \subseteq Handles /\ OwnedFits
      BY <2>2 DEF IInv, Kinds, Kept
    <3>2. ASSUME NEW h \in DOMAIN open PROVE \E d \in Blobs : CursorHas(d, h)' \/ StreamHas(d, h)' \/ AheadHas(d, h)'
      <4>1. PICK d \in Blobs : CursorHas(d, h) \/ StreamHas(d, h) \/ AheadHas(d, h)
        BY <1>2, <3>1 DEF OwnedFits
      <4> QED
        BY <2>3, <2>4, <2>5, <3>1, <4>1
    <3> QED
      BY <1>1, <1>2, <3>2 DEF OwnedFits
  <2> QED
    BY <1>1, <2>2, <2>6, <2>7 DEF Kept
<1> QED
  BY <1>1, <1>8, <1>9, <1>12, <1>13, <1>14, <1>15, <1>16, <1>17, <1>18, Frames DEF IInv

\* What holds of a read-ahead that is about to be kicked.
EntryOk(p, b) ==
    /\ p.entry[b].state \in {"none", "queued", "error"} => p.entry[b].bytes = <<>>
    /\ p.entry[b].state = "none" => ~p.entry[b].claimed
    /\ p.entry[b].state = "done" => p.entry[b].bytes = Content
    /\ p.entry[b].state = "queued" => ~p.closed
    /\ p.entry[b].state = "fetching" => p.running = b /\
        IF p.handle = NoHandle THEN p.entry[b].bytes = <<>>
        ELSE Live => p.entry[b].bytes = Segs(open[p.handle].at - 1)
    /\ p.entry[b].claimed /\ p.entry[b].state \in {"queued", "fetching"} => Claimants(b) # {}
FetchOk(p) == p.handle # NoHandle => p.running \in Blobs /\ p.entry[p.running].state = "fetching"

\* A kick leaves the read-ahead in order.
LEMMA Kicked ==
    ASSUME NEW p \in AheadKind, Kick(p), FetchOk(p), \A b \in Blobs : EntryOk(p, b)'
    PROVE  /\ ahead' \in AheadKind /\ ahead'.closed = p.closed /\ ahead'.handle = p.handle
           /\ inline'.held \subseteq inline.held
           /\ Entries' /\ FetchOk(ahead)'
           /\ ahead'.handle = NoHandle \/ ahead'.running = p.running
           /\ \A d \in Blobs : /\ ahead'.entry[d].claimed = p.entry[d].claimed
                               /\ (ahead'.entry[d].state = "none" <=> p.entry[d].state = "none")
                               /\ (p.entry[d].state = "fetching" => ahead'.entry[d].state = "fetching")
           /\ p.running # Nobody => ahead'.running = p.running
           /\ \/ JobsOf(p) = <<>>
              \/ \E b \in Blobs : /\ p.running = Nobody /\ ahead'.running = b /\ ahead'.entry[b].state = "fetching" /\ ~p.closed
                                  /\ JobsOf(p) = <<Job("slice", b, Nobody)>>
<1>1. CASE ahead' = p /\ inline' = inline /\ JobsOf(p) = <<>>
  <2>1. Entries'
    BY <1>1 DEF Entries, EntryFits, EntryOk
  <2>2. FetchOk(ahead)'
    BY <1>1 DEF FetchOk
  <2> QED
    BY <1>1, <2>1, <2>2
<1>2. ASSUME NEW b \in Blobs, p.running = Nobody, p.entry[b].state = "queued",
             ahead' \in AheadKind, ahead'.running = b, ahead'.closed = p.closed,
             ahead'.entry[b].claimed = p.entry[b].claimed,
             \A d \in Blobs : d # b => ahead'.entry[d] = p.entry[d],
             \/ /\ ahead'.entry[b].state = "done" /\ ahead'.entry[b].bytes = Content
                /\ ahead'.handle = p.handle
                /\ inline'.held = inline.held \ {b} /\ JobsOf(p) = <<>>
             \/ /\ ahead'.entry[b].state = "fetching" /\ ahead'.entry[b].bytes = p.entry[b].bytes
                /\ ahead'.handle = NoHandle
                /\ inline' = inline /\ b \notin inline.held /\ JobsOf(p) = <<Job("slice", b, Nobody)>>
      PROVE  /\ ahead' \in AheadKind /\ ahead'.closed = p.closed /\ ahead'.handle = p.handle
             /\ inline'.held \subseteq inline.held
             /\ Entries' /\ FetchOk(ahead)'
             /\ ahead'.handle = NoHandle \/ ahead'.running = p.running
             /\ \A d \in Blobs : /\ ahead'.entry[d].claimed = p.entry[d].claimed
                                 /\ (ahead'.entry[d].state = "none" <=> p.entry[d].state = "none")
                                 /\ (p.entry[d].state = "fetching" => ahead'.entry[d].state = "fetching")
             /\ p.running # Nobody => ahead'.running = p.running
             /\ \/ JobsOf(p) = <<>>
                \/ \E c \in Blobs : /\ p.running = Nobody /\ ahead'.running = c /\ ahead'.entry[c].state = "fetching" /\ ~p.closed
                                    /\ JobsOf(p) = <<Job("slice", c, Nobody)>>
  <2>1. p.handle = NoHandle /\ ahead'.handle = NoHandle
    BY <1>2, Constants DEF FetchOk
  <2>2. ~p.closed /\ p.entry[b].bytes = <<>>
    BY <1>2 DEF EntryOk
  <2>3. Entries'
    <3> SUFFICES ASSUME NEW d \in Blobs PROVE EntryFits(d)'
      BY DEF Entries
    <3>1. EntryOk(p, d)'
      OBVIOUS
    <3>2. CASE d # b
      <4>1. p.entry[d].state # "fetching"
        BY <1>2, <3>1, Constants DEF EntryOk
      <4>2. ahead'.entry[d] = p.entry[d]
        BY <1>2, <3>2
      <4> QED
        BY <1>2, <3>1, <4>1, <4>2 DEF EntryFits, EntryOk
    <3>3. CASE d = b
      <4>1. ahead'.entry[b].state \in {"done", "fetching"}
        BY <1>2
      <4> QED
        BY <1>2, <2>1, <2>2, <3>1, <3>3, <4>1 DEF EntryFits, EntryOk
    <3> QED
      BY <3>2, <3>3
  <2>4. FetchOk(ahead)'
    BY <2>1 DEF FetchOk
  <2>5. inline'.held \subseteq inline.held
    BY <1>2
  <2>6. \A d \in Blobs : /\ ahead'.entry[d].claimed = p.entry[d].claimed
                         /\ (ahead'.entry[d].state = "none" <=> p.entry[d].state = "none")
                         /\ (p.entry[d].state = "fetching" => ahead'.entry[d].state = "fetching")
    BY <1>2
  <2> QED
    BY <1>2, <2>1, <2>2, <2>3, <2>4, <2>5, <2>6
<1> QED
  BY <1>1, <1>2, KickParts

\* A blob with no slice on the lock.
LEMMA NoSlice ==
    ASSUME NEW b, \A j \in Jobs : ~(j.kind = "slice" /\ j.b = b)
    PROVE  SliceFirst(b)
BY DEF SliceFirst, Jobs

\* The read-ahead is kicked, and the slice it asks for put on the lock.
LEMMA KickedAdded ==
    ASSUME IInv, NEW p \in AheadKind, Kick(p), FetchOk(p), \A b \in Blobs : EntryOk(p, b)',
           chain' = chain \o JobsOf(p), alive' = alive,
           \A j \in Jobs : j.kind \in Fetches => p.running = j.b /\ p.entry[j.b].state = "fetching",
           p.closed = (rows'.state # "reading"), ~alive => rows'.state = "left",
           rows'.at = 0 => \A b \in Blobs : p.entry[b].state = "none",
           \A b \in Blobs : p.closed /\ ~p.entry[b].claimed /\ p.entry[b].state = "fetching" => SliceFirst(b)
    PROVE  /\ ahead' \in AheadKind /\ ahead'.handle = p.handle
           /\ ahead'.handle = NoHandle \/ ahead'.running = p.running
           /\ inline'.held \subseteq inline.held
           /\ \A d \in Blobs : ahead'.entry[d].state = "none" <=> p.entry[d].state = "none"
           /\ Entries' /\ AheadFits' /\ Abandons' /\ Line' /\ Live' = Live
           /\ chain' \in Seq(JobKind) /\ (chain # <<>> => chain' # <<>> /\ job' = job)
           /\ Jobs \subseteq Jobs' /\ \A j \in Jobs' : j \in Jobs \/ (j.kind = "slice" /\ JobFits(j)')
<1>1. /\ ahead' \in AheadKind /\ ahead'.closed = p.closed /\ ahead'.handle = p.handle
      /\ inline'.held \subseteq inline.held
      /\ Entries' /\ FetchOk(ahead)'
      /\ (ahead'.handle = NoHandle \/ ahead'.running = p.running)
      /\ \A d \in Blobs : /\ ahead'.entry[d].claimed = p.entry[d].claimed
                          /\ (ahead'.entry[d].state = "none" <=> p.entry[d].state = "none")
                          /\ (p.entry[d].state = "fetching" => ahead'.entry[d].state = "fetching")
      /\ (p.running # Nobody => ahead'.running = p.running)
      /\ \/ JobsOf(p) = <<>>
         \/ \E b \in Blobs : /\ p.running = Nobody /\ ahead'.running = b /\ ahead'.entry[b].state = "fetching" /\ ~p.closed
                             /\ JobsOf(p) = <<Job("slice", b, Nobody)>>
  BY Kicked
<1>2. \A j \in Jobs : j.kind \in Fetches => j.b \in Blobs /\ (j.kind = "slice" => alive)
  BY DEF IInv, AheadFits
<1>3. \A j \in Jobs : j.kind \in Fetches =>
        j.b \in Blobs /\ ahead'.running = j.b /\ ahead'.entry[j.b].state = "fetching" /\ (j.kind = "slice" => alive')
  BY <1>1, <1>2, Constants
<1>4. \A b \in Blobs : p.closed /\ ~p.entry[b].claimed => SliceFirst(b)
  <2> SUFFICES ASSUME NEW b \in Blobs, p.closed, ~p.entry[b].claimed, p.entry[b].state # "fetching" PROVE SliceFirst(b)
    OBVIOUS
  <2>1. \A j \in Jobs : ~(j.kind = "slice" /\ j.b = b)
    BY DEF Fetches
  <2> QED
    BY <2>1, NoSlice
<1>5. chain \in Seq(JobKind)
  BY DEF IInv, Kinds
<1>6. ASSUME \A j \in Jobs' : j.kind \in Fetches =>
                j.b \in Blobs /\ ahead'.running = j.b /\ ahead'.entry[j.b].state = "fetching" /\ (j.kind = "slice" => alive')
      PROVE  AheadFits'
  <2>1. ahead'.handle # NoHandle => ahead'.running \in Blobs /\ ahead'.entry[ahead'.running].state = "fetching"
    BY <1>1 DEF FetchOk
  <2>2. rows'.at = 0 => \A b \in Blobs : ahead'.entry[b].state = "none"
    BY <1>1
  <2> QED
    BY <1>1, <1>6, <2>1, <2>2 DEF AheadFits
<1>7. CASE JobsOf(p) = <<>>
  <2>1. chain' = chain
    BY <1>5, <1>7, ConcatEmptySeq
  <2>2. Jobs' = Jobs /\ Line' /\ (\A d : SliceFirst(d)' = SliceFirst(d)) /\ Live' = Live /\ job' = job
    BY <2>1, Frames DEF job
  <2>3. AheadFits'
    BY <1>3, <1>6, <2>2
  <2>4. Abandons'
    BY <1>1, <1>4, <2>2 DEF Abandons, Unwanted
  <2> QED
    BY <1>1, <1>5, <2>1, <2>2, <2>3, <2>4
<1>8. ASSUME NEW b \in Blobs, p.running = Nobody, ahead'.running = b, ahead'.entry[b].state = "fetching", ~p.closed,
             JobsOf(p) = <<Job("slice", b, Nobody)>>
      PROVE  /\ AheadFits' /\ Abandons' /\ Line' /\ Live' = Live
             /\ chain' \in Seq(JobKind) /\ (chain # <<>> => chain' # <<>> /\ job' = job)
             /\ Jobs \subseteq Jobs' /\ \A j \in Jobs' : j \in Jobs \/ (j.kind = "slice" /\ JobFits(j)')
  <2> DEFINE j == Job("slice", b, Nobody)
  <2>1. j \in JobKind /\ j.kind = "slice" /\ j.b = b
    BY JobIs DEF JobKinds, Fetches
  <2>2. chain' = chain \o <<j>>
    BY <1>8
  <2> HIDE DEF j
  <2>3. chain' = Append(chain, j)
    BY <1>5, <2>1, <2>2, AppendIsConcat
  <2>4. \A x \in Jobs : x.kind \notin Fetches
    BY <1>2, <1>8, Constants
  <2>5. alive /\ alive' = (j.kind # "end")
    BY <1>8, <2>1 DEF IInv, Kinds
  <2>6. \A x \in Jobs : ~Alike(x, j)
    BY <2>1, <2>4 DEF Alike, Calls, Fetches
  <2>7. /\ chain' \in Seq(JobKind) /\ Line' /\ Jobs' = Jobs \cup {j} /\ chain' # <<>> /\ Live /\ Live'
        /\ (chain # <<>> => job' = job)
    BY <2>1, <2>3, <2>5, <2>6, AddedFrames
  <2>8. AheadFits'
    BY <1>3, <1>6, <1>8, <2>1, <2>5, <2>7
  <2>9. Abandons'
    BY <1>1, <1>8 DEF Abandons, Unwanted
  <2>10. JobFits(j)'
    BY <2>1 DEF JobFits, Calls
  <2>11. Live' = Live
    BY <2>7
  <2> QED
    BY <2>1, <2>7, <2>8, <2>9, <2>10, <2>11
<1> QED
  BY <1>1, <1>7, <1>8

\* The invariant is kept by the consumer who takes a row,
LEMMA Advance_IInv ==
    ASSUME IInv, Advance
    PROVE  IInv'
<1> DEFINE f == [b \in Blobs |-> IF rows.at = 0 THEN [ahead.entry[b] EXCEPT !.state = "queued"] ELSE ahead.entry[b]]
<1> SUFFICES ASSUME NEW p, p = [ahead EXCEPT !.mark = rows.at + 1 + Ahead, !.entry = f] PROVE IInv'
  BY Zenon
<1>1. /\ rows.state = "reading" /\ rows.at < Cardinality(Blobs) /\ alive /\ rows' = [rows EXCEPT !.at = @ + 1]
      /\ Kick(p) /\ chain' = chain \o JobsOf(p)
      /\ blob' = blob /\ call' = call /\ stream' = stream /\ busy' = busy
      /\ alive' = alive /\ open' = open /\ stray' = stray /\ calls' = calls
  BY Zenon DEF Advance, client
<1>2. /\ ahead \in AheadKind /\ ahead.entry \in [Blobs -> EntryKind] /\ AheadFits
      /\ rows \in [at : 0..Cardinality(Blobs), state : {"reading", "leaving", "left"}]
  BY DEF IInv, Kinds, AheadKind
<1>3. rows'.at = rows.at + 1 /\ rows'.state = rows.state /\ rows'.at \in 0..Cardinality(Blobs) /\ rows'.at # 0
      /\ rows.at + 1 + Ahead \in Nat
  <2>1. rows'.at = rows.at + 1 /\ rows'.state = rows.state /\ rows.at \in 0..Cardinality(Blobs)
    BY Zenon, <1>1, <1>2
  <2>2. Cardinality(Blobs) \in Nat /\ Ahead \in Nat
    BY Constants
  <2>3. rows.at < Cardinality(Blobs)
    BY Zenon, <1>1
  <2>4. \A k, n, a \in Nat : k < n => k + 1 \in 0..n /\ k + 1 # 0 /\ k + 1 + a \in Nat
    OBVIOUS
  <2>5. rows.at \in Nat
    BY <2>1, <2>2
  <2>6. rows.at + 1 \in 0..Cardinality(Blobs) /\ rows.at + 1 # 0 /\ rows.at + 1 + Ahead \in Nat
    BY <2>2, <2>3, <2>4, <2>5
  <2> QED
    BY <2>1, <2>6
<1>4. rows' \in [at : 0..Cardinality(Blobs), state : {"reading", "leaving", "left"}]
  BY Zenon, <1>1, <1>2, <1>3
<1>5. f \in [Blobs -> EntryKind]
  <2> SUFFICES ASSUME NEW b \in Blobs PROVE f[b] \in EntryKind
    OBVIOUS
  <2>1. ahead.entry[b] \in EntryKind
    BY <1>2
  <2> QED
    BY <2>1 DEF EntryKind
<1>6. \A b \in Blobs : /\ f[b].bytes = ahead.entry[b].bytes /\ f[b].claimed = ahead.entry[b].claimed
                       /\ f[b].state = IF rows.at = 0 THEN "queued" ELSE ahead.entry[b].state
  <2> SUFFICES ASSUME NEW b \in Blobs
               PROVE  /\ f[b].bytes = ahead.entry[b].bytes /\ f[b].claimed = ahead.entry[b].claimed
                      /\ f[b].state = IF rows.at = 0 THEN "queued" ELSE ahead.entry[b].state
    OBVIOUS
  <2>1. ahead.entry[b] \in EntryKind
    BY <1>2
  <2> QED
    BY <2>1 DEF EntryKind
<1> HIDE DEF f
<1>7. /\ p \in AheadKind /\ p.entry = f /\ p.handle = ahead.handle /\ p.running = ahead.running /\ p.closed = ahead.closed
  <2>1. [ahead EXCEPT !.mark = rows.at + 1 + Ahead] \in AheadKind
    BY <1>2, <1>3 DEF AheadKind
  <2>2. p = [[ahead EXCEPT !.mark = rows.at + 1 + Ahead] EXCEPT !.entry = f]
    OBVIOUS
  <2> QED
    BY <1>5, <2>1, <2>2 DEF AheadKind
<1>8. ~p.closed
  BY <1>1, <1>2, <1>7 DEF AheadFits
<1>9. rows.at = 0 => \A b \in Blobs : ahead.entry[b].state = "none"
  BY <1>2 DEF AheadFits
<1>10. FetchOk(p)
  BY <1>2, <1>6, <1>7, <1>9, Constants DEF FetchOk, AheadFits
<1>11. Live /\ Live'
  BY <1>1 DEF Live
<1>12. \A b \in Blobs : EntryOk(p, b)'
  <2> SUFFICES ASSUME NEW b \in Blobs PROVE EntryOk(p, b)'
    OBVIOUS
  <2>1. EntryFits(b)
    BY DEF IInv, Entries
  <2>2. Claimants(b)' = Claimants(b)
    BY <1>1 DEF Claimants
  <2> QED
    BY <1>1, <1>6, <1>7, <1>8, <1>9, <1>11, <2>1, <2>2 DEF EntryOk, EntryFits
<1>13. \A j \in Jobs : j.kind \in Fetches => p.running = j.b /\ p.entry[j.b].state = "fetching"
  BY <1>2, <1>6, <1>7, <1>9 DEF AheadFits
<1>14. /\ ahead' \in AheadKind /\ ahead'.handle = p.handle
       /\ (ahead'.handle = NoHandle \/ ahead'.running = p.running)
       /\ inline'.held \subseteq inline.held
       /\ \A d \in Blobs : ahead'.entry[d].state = "none" <=> p.entry[d].state = "none"
       /\ Entries' /\ AheadFits' /\ Abandons' /\ Line' /\ Live' = Live
       /\ chain' \in Seq(JobKind) /\ (chain # <<>> => chain' # <<>> /\ job' = job)
       /\ Jobs \subseteq Jobs' /\ \A j \in Jobs' : j \in Jobs \/ (j.kind = "slice" /\ JobFits(j)')
  <2>1. p.closed = (rows'.state # "reading") /\ (~alive => rows'.state = "left") /\ (rows'.at = 0 => \A b \in Blobs : p.entry[b].state = "none")
    BY <1>1, <1>2, <1>3, <1>7 DEF AheadFits
  <2> QED
    BY <1>1, <1>7, <1>8, <1>10, <1>12, <1>13, <2>1, KickedAdded
<1>15. Kinds'
  BY <1>1, <1>4, <1>14 DEF IInv, Kinds
<1>16. JobsFit'
  <2> SUFFICES ASSUME NEW j \in Jobs' PROVE JobFits(j)'
    BY DEF JobsFit
  <2>1. CASE j \in Jobs
    <3>1. JobFits(j)
      BY <2>1 DEF IInv, JobsFit
    <3> QED
      BY <1>1, <1>3, <3>1 DEF JobFits
  <2> QED
    BY <1>14, <2>1
<1>17. Tracked'
  <2> SUFFICES ASSUME NEW b \in Blobs, b \in inline'.held \/ ahead'.entry[b].state # "none" PROVE Quiet(b)'
    BY <1>3 DEF Tracked, TrackedFits
  <2>1. Quiet(b)
    BY <1>6, <1>7, <1>14 DEF IInv, Tracked, TrackedFits
  <2> QED
    BY <1>1, <2>1 DEF Quiet
<1>18. CallsFit'
  BY <1>1, <1>3 DEF IInv, CallsFit, CallFits
<1>19. BusyFits'
  <2>1. CASE busy = "no"
    BY <1>1, <2>1 DEF BusyFits
  <2>2. CASE busy # "no"
    <3>1. chain # <<>> /\ job' = job /\ chain' # <<>>
      BY <1>14, <2>2 DEF IInv, BusyFits
    <3>2. HasJob("destroy", job.b) => HasJob("destroy", job.b)'
      BY <1>14, <3>1 DEF HasJob
    <3> HIDE DEF HasJob, job
    <3> QED
      BY <1>1, <1>7, <1>14, <3>1, <3>2 DEF IInv, BusyFits, Whole
  <2> QED
    BY <2>1, <2>2
<1>20. Kept'
  <2>1. \A y \in Jobs' \cup Jobs : y.kind \in KeeperJobs => y \in Jobs' /\ y \in Jobs
    BY <1>14 DEF KeeperJobs
  <2> QED
    BY <1>1, <1>7, <1>11, <1>14, <2>1, NothingKept
<1>21. Cursors' /\ Streams' /\ Exclusive'
  BY <1>1, <1>14, Frames
<1> QED
  BY <1>14, <1>15, <1>16, <1>17, <1>18, <1>19, <1>20, <1>21 DEF IInv

\* and by the rest of a fetch that found its blob inline.
LEMMA Rekick_IInv ==
    ASSUME IInv, Rekick
    PROVE  IInv'
<1> SUFFICES ASSUME NEW p, p = [ahead EXCEPT !.running = Nobody] PROVE IInv'
  OBVIOUS
<1>1. /\ ahead.running # Nobody /\ ahead.entry[ahead.running].state \notin {"fetching", "queued"}
      /\ Kick(p) /\ chain' = chain \o JobsOf(p)
      /\ blob' = blob /\ call' = call /\ stream' = stream /\ busy' = busy /\ rows' = rows
      /\ alive' = alive /\ open' = open /\ stray' = stray /\ calls' = calls
  BY DEF Rekick, client
<1>2. ahead \in AheadKind /\ AheadFits
  BY DEF IInv, Kinds
<1>3. ahead.handle = NoHandle /\ \A j \in Jobs : j.kind \notin Fetches
  BY <1>1, <1>2 DEF AheadFits
<1>4. p \in AheadKind /\ p.running = Nobody /\ p.handle = NoHandle /\ p.entry = ahead.entry /\ p.closed = ahead.closed
  BY <1>2, <1>3 DEF AheadKind
<1>5. FetchOk(p)
  BY <1>4 DEF FetchOk
<1>6. \A b \in Blobs : EntryOk(p, b)' /\ p.entry[b].state # "fetching"
  <2> SUFFICES ASSUME NEW b \in Blobs PROVE EntryOk(p, b)' /\ p.entry[b].state # "fetching"
    OBVIOUS
  <2>1. EntryFits(b)
    BY DEF IInv, Entries
  <2>2. Claimants(b)' = Claimants(b)
    BY <1>1 DEF Claimants
  <2>3. p.entry[b].state # "fetching"
    BY <1>1, <1>4, <2>1 DEF EntryFits
  <2> QED
    BY <1>4, <2>1, <2>2, <2>3 DEF EntryOk, EntryFits
<1>7. p.closed = (rows'.state # "reading") /\ (~alive => rows'.state = "left") /\ (rows'.at = 0 => \A b \in Blobs : p.entry[b].state = "none")
  BY <1>1, <1>2, <1>4 DEF AheadFits
<1>8. /\ ahead' \in AheadKind /\ ahead'.handle = p.handle
      /\ (ahead'.handle = NoHandle \/ ahead'.running = p.running)
      /\ inline'.held \subseteq inline.held
      /\ \A d \in Blobs : ahead'.entry[d].state = "none" <=> p.entry[d].state = "none"
      /\ Entries' /\ AheadFits' /\ Abandons' /\ Line' /\ Live' = Live
      /\ chain' \in Seq(JobKind) /\ (chain # <<>> => chain' # <<>> /\ job' = job)
      /\ Jobs \subseteq Jobs' /\ \A j \in Jobs' : j \in Jobs \/ (j.kind = "slice" /\ JobFits(j)')
  BY <1>1, <1>3, <1>4, <1>5, <1>6, <1>7, KickedAdded
<1>9. Kinds'
  BY <1>1, <1>8 DEF IInv, Kinds
<1>10. JobsFit'
  <2> SUFFICES ASSUME NEW j \in Jobs' PROVE JobFits(j)'
    BY DEF JobsFit
  <2>1. CASE j \in Jobs
    <3>1. JobFits(j)
      BY <2>1 DEF IInv, JobsFit
    <3> QED
      BY <1>1, <3>1 DEF JobFits
  <2> QED
    BY <1>8, <2>1
<1>11. Tracked'
  <2> SUFFICES ASSUME NEW b \in Blobs, b \in inline'.held \/ ahead'.entry[b].state # "none" \/ rows'.at = 0 PROVE Quiet(b)'
    BY DEF Tracked, TrackedFits
  <2>1. Quiet(b)
    BY <1>1, <1>4, <1>8 DEF IInv, Tracked, TrackedFits
  <2> QED
    BY <1>1, <2>1 DEF Quiet
<1>12. BusyFits'
  <2>1. CASE busy = "no"
    BY <1>1, <2>1 DEF BusyFits
  <2>2. CASE busy # "no"
    <3>1. chain # <<>> /\ job' = job /\ chain' # <<>>
      BY <1>8, <2>2 DEF IInv, BusyFits
    <3>2. HasJob("destroy", job.b) => HasJob("destroy", job.b)'
      BY <1>8, <3>1 DEF HasJob
    <3> HIDE DEF HasJob, job
    <3> QED
      BY <1>1, <1>3, <1>4, <1>8, <3>1, <3>2 DEF IInv, BusyFits, Whole
  <2> QED
    BY <2>1, <2>2
<1>13. Kept'
  <2>1. \A y \in Jobs' \cup Jobs : y.kind \in KeeperJobs => y \in Jobs' /\ y \in Jobs
    BY <1>8 DEF KeeperJobs
  <2>2. CASE Live
    BY <1>1, <1>3, <1>4, <1>8, <2>1, <2>2, NothingKept
  <2>3. CASE ~Live
    <3>1. ~Live' /\ ~alive /\ chain = <<>>
      BY <1>8, <2>3 DEF Live
    <3> QED
      BY <1>1, <2>3, <3>1 DEF IInv, Kept, KeptFits, OwnedFits
  <2> QED
    BY <2>2, <2>3
<1>14. Cursors' /\ Streams' /\ Exclusive' /\ CallsFit'
  BY <1>1, <1>8, Frames
<1> QED
  BY <1>8, <1>9, <1>10, <1>11, <1>12, <1>13, <1>14 DEF IInv

\* The same when a blob is claimed first.
LEMMA ClaimKicks ==
    ASSUME IInv, NEW b \in Blobs, NEW p \in AheadKind, NEW c \in Callers, alive,
           ahead.entry[b].state \in {"queued", "fetching", "done"},
           p.handle = ahead.handle, p.running = ahead.running, p.closed = ahead.closed,
           \A d \in Blobs : d # b => p.entry[d] = ahead.entry[d],
           \/ ahead.entry[b].state = "done" /\ p.entry[b] = Untracked
           \/ /\ ahead.entry[b].state # "done" /\ p.entry[b] = [ahead.entry[b] EXCEPT !.claimed = TRUE]
              /\ Claimants(b)' # {},
           \A d : Claimants(d) \subseteq Claimants(d)',
           Kick(p), chain' = chain \o JobsOf(p), alive' = alive, open' = open, rows' = rows
    PROVE  /\ ahead' \in AheadKind /\ ahead'.handle = ahead.handle
           /\ ahead'.handle = NoHandle \/ ahead'.running = ahead.running
           /\ inline'.held \subseteq inline.held
           /\ \A d \in Blobs : ahead'.entry[d].state # "none" => ahead.entry[d].state # "none"
           /\ Entries' /\ AheadFits' /\ Abandons' /\ Line' /\ Live' = Live
           /\ chain' \in Seq(JobKind) /\ (chain # <<>> => chain' # <<>> /\ job' = job)
           /\ Jobs \subseteq Jobs' /\ \A j \in Jobs' : j \in Jobs \/ (j.kind = "slice" /\ JobFits(j)')
<1>1. AheadFits /\ ahead \in AheadKind /\ ahead.entry[b] \in EntryKind
  BY DEF IInv, Kinds, AheadKind
<1>2. Untracked.state = "none" /\ Untracked.bytes = <<>> /\ ~Untracked.claimed
  BY DEF Untracked
<1>3. /\ p.entry[b] = Untracked \/ (/\ p.entry[b].state = ahead.entry[b].state /\ p.entry[b].bytes = ahead.entry[b].bytes
                                    /\ p.entry[b].claimed /\ Claimants(b)' # {} /\ ahead.entry[b].state # "done")
      /\ ahead.entry[b].state = "fetching" => p.entry[b].state = "fetching"
  BY <1>1, <1>2 DEF EntryKind
<1>4. \A d \in Blobs : ahead.entry[d].state = "fetching" => p.entry[d].state = "fetching"
  BY <1>3
<1>5. FetchOk(p)
  BY <1>1, <1>4 DEF FetchOk, AheadFits
<1>6. \A d \in Blobs : EntryOk(p, d)'
  <2> SUFFICES ASSUME NEW d \in Blobs PROVE EntryOk(p, d)'
    OBVIOUS
  <2>1. EntryFits(d)
    BY DEF IInv, Entries
  <2>2. Live /\ Live' /\ (Claimants(d) # {} => Claimants(d)' # {})
    BY DEF Live
  <2>3. CASE d # b
    BY <2>1, <2>2, <2>3 DEF EntryOk, EntryFits
  <2>4. CASE d = b
    BY <1>2, <1>3, <2>1, <2>2, <2>4 DEF EntryOk, EntryFits
  <2> QED
    BY <2>3, <2>4
<1>7. \A j \in Jobs : j.kind \in Fetches => p.running = j.b /\ p.entry[j.b].state = "fetching"
  BY <1>1, <1>4 DEF AheadFits
<1>8. p.closed = (rows'.state # "reading") /\ (~alive => rows'.state = "left")
  BY <1>1 DEF AheadFits
<1>9. \A d \in Blobs : p.entry[d].state # "none" => ahead.entry[d].state # "none"
  BY <1>2, <1>3
<1>10. rows'.at = 0 => \A d \in Blobs : p.entry[d].state = "none"
  BY <1>1, <1>9 DEF AheadFits
<1>11. \A d \in Blobs : p.closed /\ ~p.entry[d].claimed /\ p.entry[d].state = "fetching" => SliceFirst(d)
  BY <1>2, <1>3 DEF IInv, Abandons, Unwanted
<1>12. /\ ahead' \in AheadKind /\ ahead'.handle = p.handle
       /\ (ahead'.handle = NoHandle \/ ahead'.running = p.running)
       /\ inline'.held \subseteq inline.held
       /\ \A d \in Blobs : ahead'.entry[d].state = "none" <=> p.entry[d].state = "none"
       /\ Entries' /\ AheadFits' /\ Abandons' /\ Line' /\ Live' = Live
       /\ chain' \in Seq(JobKind) /\ (chain # <<>> => chain' # <<>> /\ job' = job)
       /\ Jobs \subseteq Jobs' /\ \A j \in Jobs' : j \in Jobs \/ (j.kind = "slice" /\ JobFits(j)')
  BY <1>5, <1>6, <1>7, <1>8, <1>10, <1>11, KickedAdded
<1> QED
  BY <1>9, <1>12

\* The invariant is kept by a read that turns to the read-ahead.
LEMMA Claim_IInv ==
    ASSUME IInv, Habits = {}, NEW c \in Callers, NEW b \in Blobs, NEW op \in {"head", "buffer"},
           NEW n \in IF op = "head" THEN Heads ELSE {Size + 1}, Claim(c, op, b, n)
    PROVE  IInv'
<1> SUFFICES ASSUME NEW e, e = ahead.entry[b],
                    NEW p, p = IF e.state = "done" THEN Release(ahead, b)
                               ELSE IF e.state = "error" THEN [ahead EXCEPT !.entry[b] = Untracked]
                               ELSE [ahead EXCEPT !.entry[b].claimed = TRUE]
             PROVE  IInv'
  OBVIOUS
<1>1. /\ May(c, op, {b}) /\ ~blob[b].has /\ b \notin inline.held /\ e.state # "none"
      /\ stream' = stream /\ busy' = busy
      /\ rows' = rows /\ alive' = alive /\ open' = open /\ stray' = stray
  BY DEF Claim
<1>2. /\ op \in AllOps /\ n \in 0..(Size + 1) /\ n \in Nat /\ n > 0
      /\ (op = "head" => n \in Heads) /\ (op = "buffer" => n = Size + 1)
  BY Asked
<1>3. /\ call[c].pc = "idle" /\ alive /\ Live /\ calls + 1 \in 0..MaxCalls /\ rows.at # 0
      /\ (\A d \in {b} : Unused(d, op)) /\ (ahead.closed => e.state # "fetching")
  BY <1>1, <1>2, MayParts
<1>4. ahead \in AheadKind /\ e \in EntryKind /\ EntryFits(b) /\ AheadFits /\ blob \in [Blobs -> BlobKind] /\ Quiet(b)
  BY <1>1 DEF IInv, Kinds, AheadKind, Entries, Tracked, TrackedFits
<1>5. Untracked \in EntryKind /\ Untracked.state = "none" /\ Untracked.bytes = <<>> /\ ~Untracked.claimed
  BY NewKinds DEF Untracked
<1>6. CASE e.state = "error"
  <2>1. ahead' = p /\ inline' = inline /\ chain' = chain /\ blob' = blob /\ call' = call /\ calls' = calls + 1
    BY <1>6 DEF Claim
  <2>2. p = [ahead EXCEPT !.entry[b] = Untracked]
    BY <1>6
  <2>3. /\ p \in AheadKind /\ p.handle = ahead.handle /\ p.running = ahead.running /\ p.closed = ahead.closed
        /\ p.entry[b] = Untracked /\ \A d \in Blobs : d # b => p.entry[d] = ahead.entry[d]
    <3>1. WithEntry([ahead EXCEPT !.entry[b] = Untracked], ahead, b, Untracked)
      BY <1>4, <1>5, OneEntry
    <3> QED
      BY <2>2, <3>1 DEF WithEntry
  <2>4. Kinds'
    BY <1>1, <1>3, <2>1, <2>3 DEF IInv, Kinds
  <2>5. Jobs' = Jobs /\ Line' /\ (\A d : SliceFirst(d)' = SliceFirst(d)) /\ Live' = Live /\ job' = job
    BY <1>1, <2>1, Frames DEF job
  <2>6. Entries'
    <3> SUFFICES ASSUME NEW d \in Blobs PROVE EntryFits(d)'
      BY DEF Entries
    <3>1. EntryFits(d) /\ Claimants(d)' = Claimants(d)
      BY <2>1 DEF IInv, Entries, Claimants
    <3>2. CASE d = b
      <4>1. ahead'.entry[d] = Untracked
        BY <2>1, <2>3, <3>2
      <4> QED
        BY <1>5, <4>1 DEF EntryFits
    <3>3. CASE d # b
      <4>1. ahead'.entry[d] = ahead.entry[d]
        BY <2>1, <2>3, <3>3
      <4> QED
        BY ZenonT(30), <1>1, <2>1, <2>3, <2>5, <3>1, <4>1 DEF EntryFits
    <3> QED
      BY <3>2, <3>3
  <2>7. AheadFits'
    <3>1. \A j \in Jobs : j.kind \in Fetches => j.b # b
      BY <1>4, <1>6 DEF AheadFits
    <3>2. ahead.handle # NoHandle => ahead.running # b
      BY <1>4, <1>6 DEF AheadFits
    <3> QED
      BY <1>1, <1>4, <1>5, <2>1, <2>3, <2>5, <3>1, <3>2 DEF AheadFits
  <2>8. Abandons'
    <3> SUFFICES ASSUME NEW d \in Blobs, Unwanted(d)' PROVE SliceFirst(d)
      BY <2>5 DEF Abandons
    <3>1. CASE d = b
      <4>1. \A j \in Jobs : ~(j.kind = "slice" /\ j.b = b)
        BY <1>4, <1>6 DEF AheadFits, Fetches
      <4> QED
        BY <3>1, <4>1, NoSlice
    <3>2. CASE d # b
      BY <2>1, <2>3, <3>2 DEF IInv, Abandons, Unwanted
    <3> QED
      BY <3>1, <3>2
  <2>9. Tracked'
    BY <1>1, <1>5, <2>1, <2>3 DEF IInv, Tracked, TrackedFits, Quiet
  <2>10. BusyFits'
    BY <1>1, <2>1, <2>3, <2>5 DEF IInv, BusyFits, HasJob, Whole
  <2>11. Kept'
    BY <1>1, <1>3, <2>1, <2>3, <2>5, NothingKept
  <2>12. JobsFit' /\ Cursors' /\ Streams' /\ CallsFit' /\ Exclusive'
    BY <1>1, <2>1, <2>5, Frames
  <2> QED
    BY <2>4, <2>5, <2>6, <2>7, <2>8, <2>9, <2>10, <2>11, <2>12 DEF IInv
<1>7. CASE e.state # "error"
  <2> DEFINE pc == IF e.state = "done" THEN "done" ELSE "take"
             r == [op |-> op, n |-> n, pc |-> pc, data |-> FirstOf(n, e.bytes), group |-> {b}]
  <2>1. /\ Kick(p) /\ chain' = chain \o JobsOf(p) /\ call' = [call EXCEPT ![c] = r] /\ calls' = calls + 1
        /\ blob' = IF e.state = "done" THEN [blob EXCEPT ![b] = [@ EXCEPT !.has = TRUE, !.cached = e.bytes]] ELSE blob
    BY <1>7 DEF Claim, Calling
  <2>2. e.state \in {"queued", "fetching", "done"} /\ (e.state = "done" => e.bytes = Content)
    BY <1>1, <1>4, <1>7 DEF EntryKind, EntryFits
  <2>3. FirstOf(n, e.bytes) \in Datas
    <3>1. PICK m \in 0..Size : e.bytes = Segs(m)
      BY <1>4 DEF EntryKind, Datas
    <3>2. (IF n < m THEN n ELSE m) \in 0..Size
      BY <1>2, Constants
    <3> QED
      BY <1>2, <3>1, <3>2, FirstSegs, SegmentsOf
  <2>4. pc \in {"take", "done"} /\ (pc = "done" <=> e.state = "done")
    OBVIOUS
  <2>5. r \in CallKind /\ r.op = op /\ r.n = n /\ r.pc = pc /\ r.data = FirstOf(n, e.bytes) /\ r.group = {b}
    BY <1>2, <2>3, <2>4 DEF CallKind
  <2> HIDE DEF r, pc
  <2>6. /\ blob'[b] \in BlobKind /\ blob'[b].consumed = blob[b].consumed /\ blob'[b].bytes = blob[b].bytes
        /\ blob'[b].handle = blob[b].handle /\ blob'[b].eof = blob[b].eof
        /\ blob'[b] = blob[b] \/ (blob'[b].has /\ blob'[b].cached = Content)
        /\ \A d \in Blobs : d # b => blob'[d] = blob[d]
        /\ blob' \in [Blobs -> BlobKind]
    <3>0. blob[b] \in BlobKind
      BY <1>4
    <3>1. CASE e.state = "done"
      <4>1. blob' = [blob EXCEPT ![b] = [blob[b] EXCEPT !.has = TRUE, !.cached = Content]]
        BY <2>1, <2>2, <3>1
      <4>2. blob'[b] = [blob[b] EXCEPT !.has = TRUE, !.cached = Content] /\ \A d \in Blobs : d # b => blob'[d] = blob[d]
        BY <1>4, <4>1
      <4>3. blob'[b] \in BlobKind
        BY Zenon, <3>0, <4>2, CachedIs
      <4>4. blob' \in [Blobs -> BlobKind]
        BY <1>4, <4>1, <4>2, <4>3
      <4> QED
        BY ZenonT(30), <3>0, <4>2, <4>4, CachedIs
    <3>2. CASE e.state # "done"
      BY <1>4, <2>1, <3>0, <3>2
    <3> QED
      BY <3>1, <3>2
  <2>7. \A d \in Blobs : blob'[d] = blob[d] \/ Unasked(d)
    BY <1>4, <2>6 DEF Quiet, Unasked
  <2>8. /\ call' \in [Callers -> CallKind] /\ call'[c] = r /\ (\A d \in Callers : d # c => call'[d] = call[d])
        /\ Exclusive' /\ (\A y \in Jobs : JobFits(y)') /\ (\A d : Claimants(d) \subseteq Claimants(d)')
        /\ (\A d \in Callers \ {c} : CallFits(d)')
    <3>1. \A d \in r.group : Unused(d, r.op)
      BY <1>3, <2>5
    <3> QED
      BY <1>1, <1>3, <2>1, <2>5, <2>7, <3>1, CalledOthers
  <2>9. p \in AheadKind /\ p.handle = ahead.handle /\ p.running = ahead.running /\ p.closed = ahead.closed
        /\ (\A d \in Blobs : d # b => p.entry[d] = ahead.entry[d])
        /\ \/ e.state = "done" /\ p.entry[b] = Untracked
           \/ e.state # "done" /\ p.entry[b] = [e EXCEPT !.claimed = TRUE] /\ Claimants(b)' # {}
    <3>1. CASE e.state = "done"
      <4> DEFINE u == ahead.used - Len(ahead.entry[b].bytes)
      <4>1. u \in Int
        BY <1>4, DataLen, Constants DEF AheadKind, EntryKind
      <4>2. p = [ahead EXCEPT !.entry[b] = Untracked, !.used = u]
        BY <3>1 DEF Release
      <4> HIDE DEF u
      <4>3. p \in AheadKind /\ p.handle = ahead.handle /\ p.running = ahead.running /\ p.closed = ahead.closed
            /\ p.entry[b] = Untracked /\ \A d \in Blobs : d # b => p.entry[d] = ahead.entry[d]
        <5>1. WithEntry([ahead EXCEPT !.entry[b] = Untracked, !.used = u], ahead, b, Untracked)
          BY Zenon, <1>4, <1>5, <4>1, OneReleased
        <5>2. WithEntry(p, ahead, b, Untracked)
          BY <4>2, <5>1
        <5> QED
          BY <5>2 DEF WithEntry
      <4> QED
        BY <3>1, <4>3
    <3>2. CASE e.state # "done"
      <4>1. [e EXCEPT !.claimed = TRUE] \in EntryKind
        BY <1>4 DEF EntryKind
      <4>2. p = [ahead EXCEPT !.entry[b] = [e EXCEPT !.claimed = TRUE]]
        BY <1>4, <1>7, <3>2 DEF AheadKind
      <4>3. c \in Claimants(b)'
        BY <2>4, <2>5, <2>8, <3>2 DEF Claimants
      <4> DEFINE x == [e EXCEPT !.claimed = TRUE]
      <4>4. p = [ahead EXCEPT !.entry[b] = x] /\ x \in EntryKind
        BY <4>1, <4>2
      <4> HIDE DEF x
      <4>5. p \in AheadKind /\ p.handle = ahead.handle /\ p.running = ahead.running /\ p.closed = ahead.closed
            /\ p.entry[b] = x /\ \A d \in Blobs : d # b => p.entry[d] = ahead.entry[d]
        <5>1. WithEntry([ahead EXCEPT !.entry[b] = x], ahead, b, x)
          BY <1>4, <4>4, OneEntry
        <5>2. WithEntry(p, ahead, b, x)
          BY <4>4, <5>1
        <5> QED
          BY <5>2 DEF WithEntry
      <4>6. p.entry[b] = [e EXCEPT !.claimed = TRUE]
        BY <4>5 DEF x
      <4> QED
        BY <3>2, <4>3, <4>5, <4>6
    <3> QED
      BY <3>1, <3>2
  <2>10. /\ ahead' \in AheadKind /\ ahead'.handle = ahead.handle
         /\ (ahead'.handle = NoHandle \/ ahead'.running = ahead.running)
         /\ inline'.held \subseteq inline.held
         /\ (\A d \in Blobs : ahead'.entry[d].state # "none" => ahead.entry[d].state # "none")
         /\ Entries' /\ AheadFits' /\ Abandons' /\ Line' /\ Live' = Live
         /\ chain' \in Seq(JobKind) /\ (chain # <<>> => chain' # <<>> /\ job' = job)
         /\ Jobs \subseteq Jobs' /\ \A j \in Jobs' : j \in Jobs \/ (j.kind = "slice" /\ JobFits(j)')
    BY <1>1, <1>3, <2>1, <2>2, <2>8, <2>9, ClaimKicks
  <2>11. Kinds'
    BY <1>1, <1>3, <2>1, <2>6, <2>8, <2>10 DEF IInv, Kinds
  <2>12. JobsFit'
    BY <2>8, <2>10 DEF JobsFit
  <2>13. Cursors'
    <3>1. CursorFits(b)'
      BY <1>1, <1>4, <2>6, <2>10 DEF IInv, Cursors, CursorFits, Quiet
    <3> QED
      BY <1>1, <2>6, <2>10, <3>1 DEF IInv, Cursors, CursorFits
  <2>14. Tracked'
    <3> SUFFICES ASSUME NEW d \in Blobs, d \in inline'.held \/ ahead'.entry[d].state # "none" \/ rows'.at = 0 PROVE Quiet(d)'
      BY DEF Tracked, TrackedFits
    <3>1. Quiet(d)
      BY <1>1, <2>10 DEF IInv, Tracked, TrackedFits
    <3>2. blob'[d].handle = blob[d].handle /\ blob'[d].bytes = blob[d].bytes
      BY <2>6
    <3> QED
      BY <1>1, <2>4, <2>5, <2>8, <3>1, <3>2 DEF Quiet
  <2>15. CallsFit'
    <3>1. CallFits(c)'
      BY <1>1, <1>2, <1>3, <2>2, <2>4, <2>5, <2>8, FirstData DEF CallFits
    <3> QED
      BY <2>8, <3>1 DEF CallsFit
  <2>16. BusyFits'
    <3>1. CASE busy = "no"
      BY <1>1, <3>1 DEF BusyFits
    <3>2. CASE busy # "no"
      <4>1. chain # <<>> /\ job' = job /\ chain' # <<>>
        BY <2>10, <3>2 DEF IInv, BusyFits
      <4>2. HasJob("destroy", job.b) => HasJob("destroy", job.b)'
        BY <2>10, <4>1 DEF HasJob
      <4>3. JobFits(job)
        BY <4>1, JobTypes DEF IInv, JobsFit
      <4>4. job.kind \in {"head", "buffer"} => blob'[job.b] = blob[job.b] /\ call'[job.who] = call[job.who]
        BY <1>3, <2>7, <2>8, <4>3 DEF JobFits, Calls, Unasked
      <4> HIDE DEF HasJob, job
      <4> QED
        BY <1>1, <2>10, <4>1, <4>2, <4>4 DEF IInv, BusyFits, Whole
    <3> QED
      BY <3>1, <3>2
  <2>17. Kept'
    <3>1. \A y \in Jobs' \cup Jobs : y.kind \in KeeperJobs => y \in Jobs' /\ y \in Jobs
      BY <2>10 DEF KeeperJobs
    <3>2. \A d \in Blobs : blob'[d].handle = blob[d].handle
      BY <2>6
    <3> QED
      BY <1>1, <1>3, <2>10, <3>1, <3>2, NothingKept
  <2>18. Streams'
    BY <1>1, <2>10, Frames
  <2> QED
    BY <2>8, <2>10, <2>11, <2>12, <2>13, <2>14, <2>15, <2>16, <2>17, <2>18 DEF IInv
<1> QED
  BY <1>6, <1>7

\* The first job asks for something: it keeps its place, and what it is.
LEMMA Awaiting ==
    ASSUME IInv, chain # <<>>, job.kind \notin KeeperJobs, NEW h \in Handles \cup {NoHandle},
           chain' = [chain EXCEPT ![1].h = h], alive' = alive
    PROVE  /\ chain' \in Seq(JobKind) /\ Line' /\ chain' # <<>> /\ Live /\ Live' /\ job \in Jobs /\ JobFits(job)
           /\ job'.kind = job.kind /\ job'.b = job.b /\ job'.who = job.who /\ job'.h = h /\ job' \in JobKind
           /\ Jobs' = (Jobs \ {job}) \cup {job'}
           /\ \A b : SliceFirst(b) => SliceFirst(b)'
           /\ \A k, b : HasJob(k, b)' = HasJob(k, b)
           /\ \A y \in Jobs' \cup Jobs : y.kind \in KeeperJobs => y \in Jobs' /\ y \in Jobs
           /\ \A y \in Jobs' : \E x \in Jobs : y.kind = x.kind /\ y.b = x.b /\ y.who = x.who /\ (y.kind \in KeeperJobs => y.h = x.h)
<1>1. /\ chain' \in Seq(JobKind) /\ Line' /\ Jobs' = (Jobs \ {job}) \cup {[job EXCEPT !.h = h]}
      /\ job' = [job EXCEPT !.h = h] /\ job' \in JobKind /\ chain' # <<>>
  BY Awaited DEF IInv
<1>2. job \in JobKind /\ job \in Jobs /\ JobFits(job)
  BY JobTypes DEF IInv, JobsFit
<1>3. job'.kind = job.kind /\ job'.b = job.b /\ job'.who = job.who /\ job'.h = h
  BY <1>1, <1>2 DEF JobKind
<1>4. Jobs' = (Jobs \ {job}) \cup {job'}
  BY <1>1
<1>5. \A b : SliceFirst(b) => SliceFirst(b)'
  BY SlicesAwaited DEF IInv
<1> HIDE DEF job, Jobs
<1>6. \A k, b : HasJob(k, b)' = HasJob(k, b)
  BY <1>2, <1>3, <1>4 DEF HasJob
<1>7. \A y \in Jobs' \cup Jobs : y.kind \in KeeperJobs => y \in Jobs' /\ y \in Jobs
  BY <1>2, <1>3, <1>4
<1>8. \A y \in Jobs' : \E x \in Jobs : y.kind = x.kind /\ y.b = x.b /\ y.who = x.who /\ (y.kind \in KeeperJobs => y.h = x.h)
  BY <1>2, <1>3, <1>4
<1> QED
  BY <1>1, <1>2, <1>3, <1>4, <1>5, <1>6, <1>7, <1>8 DEF Live

\* What a job may ask for.
Asks(what, h) ==
    /\ what = "whole" => job.kind \in {"buffer", "prefetch"} /\ (job.kind = "buffer" => Whole(job.b))
    /\ what \in {"open", "read"} =>
        /\ job.kind \in {"head", "buffer", "pull", "slice"}
        /\ what = "open" <=> h = NoHandle
        /\ job.kind \in {"head", "buffer"} => ~blob[job.b].has /\ blob[job.b].handle = h
        /\ job.kind = "head" => blob[job.b].bytes < call[job.who].n
        /\ job.kind = "buffer" => h # NoHandle
        /\ job.kind = "pull" => stream[job.b].handle = h /\ ~stream[job.b].finished
        /\ job.kind = "slice" => ahead.handle = h

\* A job that asks keeps the invariant.
LEMMA Waits ==
    ASSUME IInv, chain # <<>>, job.kind \in {"head", "buffer", "prefetch", "pull", "slice"},
           NEW what \in {"open", "read", "whole"}, NEW h \in Handles \cup {NoHandle}, Asks(what, h),
           Awaits(what, h), UNCHANGED <<client, ahead, inline, rows, alive, open, stray, calls>>
    PROVE  IInv'
<1>1. /\ chain' = [chain EXCEPT ![1].h = h] /\ busy' = what
      /\ blob' = blob /\ call' = call /\ stream' = stream /\ ahead' = ahead /\ inline' = inline
      /\ rows' = rows /\ alive' = alive /\ open' = open /\ stray' = stray /\ calls' = calls
  BY DEF Awaits, client
<1>2. /\ chain' \in Seq(JobKind) /\ Line' /\ chain' # <<>> /\ Live /\ Live' /\ job \in Jobs /\ JobFits(job)
      /\ job'.kind = job.kind /\ job'.b = job.b /\ job'.who = job.who /\ job'.h = h
      /\ (\A b : SliceFirst(b) => SliceFirst(b)')
      /\ (\A y \in Jobs' \cup Jobs : y.kind \in KeeperJobs => y \in Jobs' /\ y \in Jobs)
      /\ \A y \in Jobs' : \E x \in Jobs : y.kind = x.kind /\ y.b = x.b /\ y.who = x.who /\ (y.kind \in KeeperJobs => y.h = x.h)
  BY <1>1, Awaiting DEF KeeperJobs
<1>3. Kinds'
  BY <1>1, <1>2 DEF IInv, Kinds
<1>4. JobsFit'
  BY <1>1, <1>2 DEF IInv, JobsFit, JobFits, KeeperJobs
<1>5. AheadFits'
  BY <1>1, <1>2 DEF IInv, AheadFits
<1>6. BusyFits'
  <2> HIDE DEF job
  <2> QED
    BY <1>1, <1>2 DEF BusyFits, Asks, Whole
<1>7. Kept'
  BY <1>1, <1>2, NothingKept DEF IInv, AheadFits
<1> QED
  BY <1>1, <1>2, <1>3, <1>4, <1>5, <1>6, <1>7, Frames DEF IInv

\* So it is kept by a head() that begins,
LEMMA StartHead_IInv ==
    ASSUME IInv, StartHead
    PROVE  IInv'
<1>1. /\ chain # <<>> /\ job.kind = "head" /\ ~Enough(job.b, call[job.who].n) /\ Reads(blob[job.b].handle)
  BY DEF StartHead, Running
<1>2. JobFits(job)
  BY <1>1, JobTypes DEF IInv, JobsFit
<1>3. /\ job.who \in Callers /\ job.b \in Blobs /\ call[job.who].op = "head" /\ call[job.who].pc = "job"
      /\ call[job.who].group = {job.b}
  BY <1>1, <1>2 DEF JobFits, Calls
<1>4. CallFits(job.who) /\ blob[job.b] \in BlobKind /\ call[job.who] \in CallKind
  BY <1>3 DEF IInv, CallsFit, Kinds
<1>5. ~blob[job.b].has /\ blob[job.b].bytes < call[job.who].n /\ blob[job.b].handle \in Handles \cup {NoHandle}
  <2>1. ~blob[job.b].eof /\ ~(blob[job.b].bytes >= call[job.who].n)
    BY <1>1 DEF Enough
  <2>2. ~blob[job.b].has
    BY <1>3, <1>4, <2>1 DEF CallFits
  <2>3. blob[job.b].bytes \in 0..Size /\ call[job.who].n \in 0..(Size + 1)
    BY <1>4 DEF BlobKind, CallKind
  <2> QED
    BY <1>4, <2>1, <2>2, <2>3, Constants DEF BlobKind
<1> DEFINE h == blob[job.b].handle
           what == IF h = NoHandle THEN "open" ELSE "read"
<1>6. Awaits(what, h) /\ UNCHANGED <<client, ahead, inline, rows, alive, open, stray, calls>>
  BY <1>1 DEF Reads
<1>7. what \in {"open", "read", "whole"} /\ Asks(what, h)
  BY <1>1, <1>5 DEF Asks
<1> HIDE DEF h, what
<1>8. h \in Handles \cup {NoHandle}
  BY <1>5 DEF h
<1> QED
  BY <1>1, <1>6, <1>7, <1>8, Waits

\* by the read of whole blobs,
LEMMA StartWhole_IInv ==
    ASSUME IInv, StartWhole
    PROVE  IInv'
<1>1. /\ chain # <<>> /\ job.kind \in {"buffer", "prefetch"} /\ (job.kind = "buffer" => Whole(job.b))
      /\ Awaits("whole", NoHandle) /\ UNCHANGED <<client, ahead, inline, rows, alive, open, stray, calls>>
  BY DEF StartWhole, Running
<1>2. Asks("whole", NoHandle)
  BY <1>1 DEF Asks
<1> QED
  BY <1>1, <1>2, Waits

\* by a buffer() that goes on where a head() stopped,
LEMMA StartResume_IInv ==
    ASSUME IInv, StartResume
    PROVE  IInv'
<1>1. /\ chain # <<>> /\ job.kind = "buffer" /\ ~Whole(job.b) /\ ~blob[job.b].eof /\ Awaits("read", blob[job.b].handle)
      /\ UNCHANGED <<client, ahead, inline, rows, alive, open, stray, calls>>
  BY DEF StartResume, Running
<1>2. JobFits(job)
  BY <1>1, JobTypes DEF IInv, JobsFit
<1>3. /\ job.who \in Callers /\ job.b \in Blobs /\ call[job.who].op = "buffer" /\ call[job.who].pc = "job"
      /\ call[job.who].group = {job.b}
  BY <1>1, <1>2 DEF JobFits, Calls
<1>4. CallFits(job.who) /\ CursorFits(job.b) /\ blob[job.b] \in BlobKind
  BY <1>3 DEF IInv, CallsFit, Kinds, Cursors
<1>5. ~blob[job.b].has
  BY <1>3, <1>4 DEF CallFits
<1>6. blob[job.b].handle # NoHandle
  BY <1>1, <1>4, <1>5 DEF CursorFits, Whole
<1> DEFINE h == blob[job.b].handle
<1>7. Asks("read", h)
  BY <1>1, <1>5, <1>6 DEF Asks
<1>8. h \in Handles \cup {NoHandle}
  BY <1>4 DEF BlobKind
<1> HIDE DEF h
<1> QED
  BY <1>1, <1>7, <1>8, Waits DEF h

\* by a slice of the read-ahead,
LEMMA StartSlice_IInv ==
    ASSUME IInv, StartSlice
    PROVE  IInv'
<1> DEFINE h == ahead.handle
           what == IF h = NoHandle THEN "open" ELSE "read"
<1>1. chain # <<>> /\ job.kind = "slice" /\ Awaits(what, h) /\ UNCHANGED <<client, ahead, inline, rows, alive, open, stray, calls>>
  BY DEF StartSlice, Running, Reads
<1>2. what \in {"open", "read", "whole"} /\ Asks(what, h)
  BY <1>1 DEF Asks
<1>3. h \in Handles \cup {NoHandle}
  BY DEF IInv, Kinds, AheadKind
<1> HIDE DEF h, what
<1> QED
  BY <1>1, <1>2, <1>3, Waits

\* and by the pull of a stream.
LEMMA StartPull_IInv ==
    ASSUME IInv, StartPull
    PROVE  IInv'
<1> DEFINE h == stream[job.b].handle
           what == IF h = NoHandle THEN "open" ELSE "read"
<1>1. /\ chain # <<>> /\ job.kind = "pull" /\ ~stream[job.b].finished
      /\ Awaits(what, h) /\ UNCHANGED <<client, ahead, inline, rows, alive, open, stray, calls>>
  BY DEF StartPull, Running, Reads
<1>2. what \in {"open", "read", "whole"} /\ Asks(what, h)
  BY <1>1 DEF Asks
<1>3. job.b \in Blobs
  BY <1>1, JobTypes DEF IInv, JobsFit, JobFits
<1>4. h \in Handles \cup {NoHandle}
  BY <1>3 DEF IInv, Kinds, StreamKind
<1> HIDE DEF h, what
<1> QED
  BY <1>1, <1>2, <1>4, Waits

-----------------------------------------------------------------------------
\* A handle that is opened has one keeper.
LEMMA OpenedKept ==
    ASSUME Kept, Live, NEW x \in Handles, x \notin DOMAIN open, NEW b \in Blobs,
           \A d \in Blobs, h \in Handles \ {x} :
                (CursorHas(d, h)' <=> CursorHas(d, h)) /\ (StreamHas(d, h)' <=> StreamHas(d, h))
                /\ (AheadHas(d, h)' <=> AheadHas(d, h)),
           \A d \in Blobs : d # b => ~CursorHas(d, x)' /\ ~StreamHas(d, x)' /\ ~AheadHas(d, x)',
           CursorHas(b, x)' \/ StreamHas(b, x)' \/ AheadHas(b, x)', ~(CursorHas(b, x)' /\ StreamHas(b, x)'),
           DOMAIN open' = DOMAIN open \cup {x}, open'[x].b = b, \A h \in DOMAIN open : open'[h].b = open[h].b,
           DOMAIN open \subseteq Handles, alive \/ chain' # <<>>, alive' = alive, stray' = stray
    PROVE  Kept'
<1>1. \A d \in Blobs, h \in Handles : KeptFits(d, h)
  BY DEF Kept
<1>2. \A d \in Blobs, h \in Handles : KeptFits(d, h)'
  <2> SUFFICES ASSUME NEW d \in Blobs, NEW h \in Handles PROVE KeptFits(d, h)'
    OBVIOUS
  <2>1. CASE h = x
    BY <2>1 DEF KeptFits
  <2>2. CASE h # x
    BY <1>1, <2>2 DEF KeptFits
  <2> QED
    BY <2>1, <2>2
<1>3. OwnedFits'
  <2>1. alive => \A h \in DOMAIN open : \E d \in Blobs : CursorHas(d, h)' \/ StreamHas(d, h)' \/ AheadHas(d, h)'
    BY DEF Kept, OwnedFits
  <2> QED
    BY <2>1 DEF OwnedFits
<1> QED
  BY <1>2, <1>3 DEF Kept

\* A new handle is of no open blob.
LEMMA NewHandleIs ==
    ASSUME FreeHandles # {}
    PROVE  NewHandle \in Handles /\ NewHandle \notin DOMAIN open /\ NewHandle # NoHandle
<1>1. NewHandle \in FreeHandles
  BY DEF NewHandle
<1> QED
  BY <1>1, Constants DEF FreeHandles

\* Who reads with a handle has one that is open.
LEMMA Known ==
    ASSUME IInv, Live
    PROVE  /\ \A d \in Blobs : blob[d].handle # NoHandle => CursorHas(d, blob[d].handle) /\ blob[d].handle \in DOMAIN open
           /\ \A d \in Blobs : stream[d].handle # NoHandle /\ ~stream[d].finished =>
                StreamHas(d, stream[d].handle) /\ stream[d].handle \in DOMAIN open
           /\ ahead.handle # NoHandle => ahead.running \in Blobs /\ AheadHas(ahead.running, ahead.handle) /\ ahead.handle \in DOMAIN open
<1>1. \A d \in Blobs, h \in Handles : KeptFits(d, h)
  BY DEF IInv, Kept
<1>2. \A d \in Blobs : blob[d].handle \in Handles \cup {NoHandle} /\ stream[d].handle \in Handles \cup {NoHandle}
  BY DEF IInv, Kinds, BlobKind, StreamKind
<1>3. ahead.handle \in Handles \cup {NoHandle} /\ (ahead.handle # NoHandle => ahead.running \in Blobs)
  BY DEF IInv, Kinds, AheadKind, AheadFits
<1> QED
  BY <1>1, <1>2, <1>3 DEF KeptFits, CursorHas, StreamHas, AheadHas

\* The invariant is kept when a blob was opened: its handle goes to who asked.
LEMMA AnswerOpen_IInv ==
    ASSUME IInv, AnswerOpen
    PROVE  IInv'
<1> SUFFICES ASSUME NEW x, x = NewHandle, NEW b, b = job.b PROVE IInv'
  OBVIOUS
<1>1. /\ busy = "open" /\ FreeHandles # {} /\ open' = Opened(b)
      /\ chain' = [chain EXCEPT ![1].h = x] /\ busy' = "read"
      /\ blob' = (IF job.kind = "head" THEN [blob EXCEPT ![b].handle = x] ELSE blob)
      /\ stream' = (IF job.kind = "pull" THEN [stream EXCEPT ![b].handle = x] ELSE stream)
      /\ ahead' = (IF job.kind = "slice" THEN [ahead EXCEPT !.handle = x] ELSE ahead)
      /\ call' = call /\ inline' = inline /\ rows' = rows /\ alive' = alive /\ stray' = stray /\ calls' = calls
  BY DEF AnswerOpen, Awaits
<1>2. chain # <<>> /\ job.h = NoHandle /\ job.kind \in {"head", "pull", "slice"} /\ job \in Jobs
  BY <1>1, JobTypes DEF IInv, BusyFits
<1>3. x \in Handles /\ x \notin DOMAIN open /\ x # NoHandle
  BY <1>1, NewHandleIs
<1>4. /\ chain' \in Seq(JobKind) /\ Line' /\ chain' # <<>> /\ Live /\ Live' /\ job \in Jobs /\ JobFits(job)
      /\ job'.kind = job.kind /\ job'.b = job.b /\ job'.who = job.who /\ job'.h = x
      /\ (\A d : SliceFirst(d) => SliceFirst(d)')
      /\ (\A k, d : HasJob(k, d)' = HasJob(k, d))
      /\ (\A y \in Jobs' \cup Jobs : y.kind \in KeeperJobs => y \in Jobs' /\ y \in Jobs)
      /\ \A y \in Jobs' : \E z \in Jobs : y.kind = z.kind /\ y.b = z.b /\ y.who = z.who /\ (y.kind \in KeeperJobs => y.h = z.h)
  BY <1>1, <1>2, <1>3, Awaiting DEF KeeperJobs
<1>5. b \in Blobs
  BY <1>2, <1>4 DEF IInv, JobFits, Calls, AheadFits, Fetches
<1>6. /\ DOMAIN open' = DOMAIN open \cup {x} /\ open'[x] = [b |-> b, at |-> 1]
      /\ (\A h \in DOMAIN open : open'[h] = open[h]) /\ DOMAIN open' \subseteq Handles
      /\ \A h \in DOMAIN open' : open'[h] \in OpenKind
  <2>1. [b |-> b, at |-> 1] \in OpenKind
    BY <1>5, Constants DEF OpenKind
  <2>2. DOMAIN open \subseteq Handles /\ \A h \in DOMAIN open : open[h] \in OpenKind
    BY DEF IInv, Kinds
  <2> QED
    BY <1>1, <1>3, <2>1, <2>2 DEF Opened
<1>7. Kept /\ DOMAIN open \subseteq Handles
  BY DEF IInv, Kinds
<1>8. \A d \in Blobs : ~CursorHas(d, x) /\ ~StreamHas(d, x) /\ ~AheadHas(d, x)
  BY <1>3, <1>4, <1>7 DEF Kept, KeptFits
<1>9. /\ blob \in [Blobs -> BlobKind] /\ stream \in [Blobs -> StreamKind] /\ ahead \in AheadKind
  BY DEF IInv, Kinds
<1>10. AheadFits' /\ Entries' /\ ahead' \in AheadKind /\ ahead'.running = ahead.running /\ ahead'.entry = ahead.entry /\ ahead'.closed = ahead.closed
       /\ ahead'.handle = IF job.kind = "slice" THEN x ELSE ahead.handle
  <2>1. /\ ahead' \in AheadKind /\ ahead'.running = ahead.running /\ ahead'.entry = ahead.entry /\ ahead'.closed = ahead.closed
        /\ ahead'.handle = IF job.kind = "slice" THEN x ELSE ahead.handle
    BY <1>1, <1>3, <1>9 DEF AheadKind
  <2>2. job.kind = "slice" => ahead.running = b /\ ahead.entry[b].state = "fetching" /\ ahead.handle = NoHandle
    BY <1>1, <1>2 DEF IInv, AheadFits, Fetches, BusyFits
  <2>3. AheadFits'
    BY <1>1, <1>4, <1>5, <2>1, <2>2 DEF IInv, AheadFits
  <2>4. Entries'
    <3> SUFFICES ASSUME NEW d \in Blobs PROVE EntryFits(d)'
      BY DEF Entries
    <3>1. EntryFits(d) /\ Claimants(d)' = Claimants(d)
      BY <1>1 DEF IInv, Entries, Claimants
    <3>2. ahead.handle # NoHandle => open'[ahead.handle] = open[ahead.handle]
      BY <1>4, <1>6, Known
    <3>3. open'[x].at - 1 = 0
      BY <1>6
    <3> QED
      BY <1>3, <1>4, <2>1, <2>2, <3>1, <3>2, <3>3, Whole0 DEF EntryFits
  <2> QED
    BY <2>1, <2>3, <2>4
<1>11. Abandons'
  BY <1>4, <1>10 DEF IInv, Abandons, Unwanted
<1>12. \A d \in Blobs, h \in Handles : AheadHas(d, h)' <=> AheadHas(d, h) \/ (job.kind = "slice" /\ d = b /\ h = x)
  <2>1. job.kind = "slice" => ahead.running = b /\ ahead.handle = NoHandle
    BY <1>1, <1>2 DEF IInv, AheadFits, Fetches, BusyFits
  <2>2. \A h \in Handles : h # NoHandle
    BY Constants
  <2> QED
    BY <1>10, <2>1, <2>2 DEF AheadHas
<1>13. CASE job.kind = "head"
  <2>1. blob' = [blob EXCEPT ![b].handle = x] /\ stream' = stream
    BY <1>1, <1>13
  <2> DEFINE y == [blob[b] EXCEPT !.handle = x]
  <2>2. /\ y \in BlobKind /\ y.has = blob[b].has /\ y.cached = blob[b].cached /\ y.consumed = blob[b].consumed
        /\ y.bytes = blob[b].bytes /\ y.handle = x /\ y.eof = blob[b].eof
    BY <1>3, <1>5, <1>9 DEF BlobKind
  <2>3. blob' = [blob EXCEPT ![b] = y]
    BY <2>1
  <2> HIDE DEF y
  <2>4. blob'[b] = y /\ (\A d \in Blobs : d # b => blob'[d] = blob[d]) /\ blob' \in [Blobs -> BlobKind]
    BY <1>5, <1>9, <2>2, <2>3
  <2>5. /\ job.who \in Callers /\ call[job.who].pc = "job" /\ call[job.who].op = "head" /\ call[job.who].group = {b}
    BY <1>4, <1>13 DEF JobFits, Calls
  <2>6. ~blob[b].has /\ blob[b].handle = NoHandle /\ blob[b].bytes < call[job.who].n
    BY <1>1, <1>2, <1>13 DEF IInv, BusyFits
  <2>7. Kinds'
    BY <1>1, <1>4, <1>6, <1>10, <2>1, <2>4 DEF IInv, Kinds
  <2>8. JobsFit'
    <3> SUFFICES ASSUME NEW w \in Jobs' PROVE JobFits(w)'
      BY DEF JobsFit
    <3>1. PICK z \in Jobs : w.kind = z.kind /\ w.b = z.b /\ w.who = z.who /\ (w.kind \in KeeperJobs => w.h = z.h)
      BY <1>4
    <3>2. JobFits(z)
      BY DEF IInv, JobsFit
    <3> QED
      BY <1>1, <2>1, <3>1, <3>2 DEF JobFits, KeeperJobs
  <2>9. Cursors'
    <3>1. CursorFits(b)
      BY <1>5 DEF IInv, Cursors
    <3>2. CursorFits(b)'
      BY <1>3, <1>6, <2>2, <2>4, <2>6, <3>1 DEF CursorFits
    <3>3. ASSUME NEW d \in Blobs, d # b PROVE CursorFits(d)'
      <4>1. blob[d].handle # NoHandle => open'[blob[d].handle] = open[blob[d].handle]
        BY <1>4, <1>6, Known
      <4> QED
        BY <1>4, <2>4, <3>3, <4>1 DEF IInv, Cursors, CursorFits
    <3> QED
      BY <3>2, <3>3 DEF Cursors
  <2>10. Streams'
    <3> SUFFICES ASSUME NEW d \in Blobs PROVE StreamFits(d)'
      BY DEF Streams
    <3>1. stream[d].handle # NoHandle /\ ~stream[d].finished => open'[stream[d].handle] = open[stream[d].handle]
      BY <1>4, <1>6, Known
    <3>2. StreamFits(d)
      BY DEF IInv, Streams
    <3> QED
      BY <1>1, <1>4, <2>1, <3>1, <3>2, SameStream
  <2>11. Tracked'
    <3>1. ~Quiet(b)
      BY <2>5 DEF Quiet
    <3>2. ~(b \in inline.held \/ ahead.entry[b].state # "none" \/ rows.at = 0)
      BY <1>5, <3>1 DEF IInv, Tracked, TrackedFits
    <3> QED
      BY <1>1, <1>10, <2>1, <2>4, <3>2 DEF IInv, Tracked, TrackedFits, Quiet
  <2>12. CallsFit'
    <3> SUFFICES ASSUME NEW d \in Callers PROVE CallFits(d)'
      BY DEF CallsFit
    <3>1. CallFits(d) /\ call[d].group \subseteq Blobs
      BY DEF IInv, CallsFit, Kinds, CallKind
    <3>2. b \in call[d].group => call[d].op = "head" \/ d = job.who
      BY <1>5, <2>5 DEF IInv, Exclusive
    <3>3. b \in call[d].group => call[d].op = "head"
      BY <2>5, <3>2
    <3> QED
      BY <1>1, <2>2, <2>4, <3>1, <3>3 DEF CallFits
  <2>13. BusyFits'
    <3> HIDE DEF job, HasJob
    <3> QED
      BY <1>1, <1>3, <1>4, <1>13, <2>2, <2>4, <2>6 DEF BusyFits
  <2>14. Kept'
    <3>1. \A d \in Blobs, h \in Handles : CursorHas(d, h)' <=> CursorHas(d, h) \/ (d = b /\ h = x)
      <4>1. \A h \in Handles : h # NoHandle
        BY Constants
      <4>2. \A d \in Blobs, h \in Handles : (\E z \in Jobs' : z.kind = "close" /\ z.b = d /\ z.h = h)
                                    <=> (\E z \in Jobs : z.kind = "close" /\ z.b = d /\ z.h = h)
        BY <1>4 DEF KeeperJobs
      <4> HIDE DEF Jobs
      <4> QED
        BY <2>2, <2>4, <2>6, <4>1, <4>2 DEF CursorHas
    <3>2. \A d \in Blobs, h \in Handles : StreamHas(d, h)' <=> StreamHas(d, h)
      BY <1>4, <2>1, SameJobs
    <3> QED
      BY SMTT(30), <1>1, <1>3, <1>4, <1>5, <1>6, <1>7, <1>8, <1>12, <1>13, <3>1, <3>2, OpenedKept
  <2> QED
    BY <1>1, <1>4, <1>10, <1>11, <2>7, <2>8, <2>9, <2>10, <2>11, <2>12, <2>13, <2>14, Frames DEF IInv
<1>14. CASE job.kind = "pull"
  <2>1. blob' = blob /\ stream' = [stream EXCEPT ![b].handle = x]
    BY <1>1, <1>14
  <2> DEFINE y == [stream[b] EXCEPT !.handle = x]
  <2>2. /\ y \in StreamKind /\ y.on = stream[b].on /\ y.lead = stream[b].lead /\ y.handle = x /\ y.finished = stream[b].finished
        /\ y.pulling = stream[b].pulling /\ y.given = stream[b].given /\ y.ended = stream[b].ended
    BY <1>3, <1>5, <1>9 DEF StreamKind
  <2>3. stream' = [stream EXCEPT ![b] = y]
    BY <2>1
  <2> HIDE DEF y
  <2>4. stream'[b] = y /\ (\A d \in Blobs : d # b => stream'[d] = stream[d]) /\ stream' \in [Blobs -> StreamKind]
    BY <1>5, <1>9, <2>2, <2>3
  <2>5. stream[b].on /\ stream[b].handle = NoHandle /\ (stream[b].finished => HasJob("destroy", b))
    BY <1>1, <1>2, <1>4, <1>14 DEF JobFits, IInv, BusyFits
  <2>6. \A d \in Blobs : /\ stream'[d].on = stream[d].on /\ stream'[d].lead = stream[d].lead
                         /\ stream'[d].finished = stream[d].finished /\ stream'[d].pulling = stream[d].pulling
                         /\ stream'[d].given = stream[d].given /\ stream'[d].ended = stream[d].ended
    BY <2>2, <2>4
  <2>7. Kinds'
    BY <1>1, <1>4, <1>6, <1>10, <2>1, <2>4 DEF IInv, Kinds
  <2>8. JobsFit'
    <3> SUFFICES ASSUME NEW w \in Jobs' PROVE JobFits(w)'
      BY DEF JobsFit
    <3>1. PICK z \in Jobs : w.kind = z.kind /\ w.b = z.b /\ w.who = z.who /\ (w.kind \in KeeperJobs => w.h = z.h)
      BY <1>4
    <3>2. JobFits(z)
      BY DEF IInv, JobsFit
    <3> QED
      BY <1>1, <2>6, <3>1, <3>2 DEF JobFits, KeeperJobs
  <2>9. Cursors'
    <3> SUFFICES ASSUME NEW d \in Blobs PROVE CursorFits(d)'
      BY DEF Cursors
    <3>1. blob[d].handle # NoHandle => open'[blob[d].handle] = open[blob[d].handle]
      BY <1>4, <1>6, Known
    <3> QED
      BY <1>4, <2>1, <3>1 DEF IInv, Cursors, CursorFits
  <2>10. Streams'
    <3>1. StreamFits(b)'
      <4>1. StreamFits(b)
        BY <1>5 DEF IInv, Streams
      <4>2. Len(stream'[b].given) + Len(stream'[b].lead) = Len(stream[b].given) + Len(stream[b].lead)
        BY <2>2, <2>4
      <4>3. open'[x].at = 1
        BY <1>6
      <4>4. ~stream[b].finished => Len(stream[b].given) + Len(stream[b].lead) = 0
        BY <2>5, <4>1 DEF StreamFits, Given
      <4>5. stream'[b].on /\ stream'[b].handle = x /\ alive' = alive
        BY <1>1, <2>2, <2>4, <2>5
      <4>6. ~stream'[b].finished => open'[stream'[b].handle].at = Given(stream'[b]) + 1
        <5>1. stream'[b].finished = stream[b].finished
          BY <2>6, <1>5
        <5>2. ~stream[b].finished => Len(stream'[b].given) + Len(stream'[b].lead) = 0
          BY <4>2, <4>4
        <5>3. open'[stream'[b].handle].at = 1
          BY <4>3, <4>5
        <5>4. ~stream[b].finished => Given(stream'[b]) = 0
          BY <5>2 DEF Given
        <5> HIDE DEF Given
        <5> QED
          BY <5>1, <5>3, <5>4
      <4> HIDE DEF Given
      <4> QED
        BY <1>3, <1>5, <2>6, <4>1, <4>5, <4>6 DEF StreamFits
    <3>2. ASSUME NEW d \in Blobs, d # b PROVE StreamFits(d)'
      <4>1. stream[d].handle # NoHandle /\ ~stream[d].finished => open'[stream[d].handle] = open[stream[d].handle]
        BY <1>4, <1>6, Known
      <4>2. StreamFits(d)
        BY DEF IInv, Streams
      <4> QED
        <5>1. stream'[d] = stream[d] /\ alive' = alive /\ (Live' => Live)
          BY <1>1, <1>4, <2>4, <3>2
        <5> QED
          BY <4>1, <4>2, <5>1, SameStream
    <3> QED
      BY <3>1, <3>2 DEF Streams
  <2>11. Tracked'
    <3> SUFFICES ASSUME NEW d \in Blobs, Quiet(d) PROVE Quiet(d)'
      BY <1>1, <1>10, <2>1, SameTracked
    <3> QED
      BY <1>1, <1>10, <2>1, <2>6 DEF Quiet
  <2>12. BusyFits'
    <3> SUFFICES ASSUME NEW o, o = HasJob("destroy", job.b)' PROVE BusyFits'
      OBVIOUS
    <3>1. job'.b = b /\ (stream[b].finished => HasJob("destroy", b)')
      BY <1>4, <2>5
    <3>2. stream'[b].finished => HasJob("destroy", b)'
      BY <2>6, <1>5, <3>1
    <3> HIDE DEF job
    <3> QED
      BY <1>1, <1>3, <1>4, <1>14, <2>2, <2>4, <3>1, <3>2 DEF BusyFits, HasJob
  <2>13. Kept'
    <3>1. \A d \in Blobs, h \in Handles : CursorHas(d, h)' <=> CursorHas(d, h)
      BY <1>4, <2>1, SameJobs
    <3>2. ASSUME NEW d \in Blobs, NEW h \in Handles PROVE StreamHas(d, h)' <=> StreamHas(d, h) \/ (d = b /\ h = x)
      <4>1. h # NoHandle
        BY Constants
      <4>2. (\E z \in Jobs' : z.kind = "eof" /\ z.b = d /\ z.h = h) <=> (\E z \in Jobs : z.kind = "eof" /\ z.b = d /\ z.h = h)
        BY <1>4 DEF KeeperJobs
      <4>3. HasJob("destroy", d)' = HasJob("destroy", d)
        BY <1>4
      <4> HIDE DEF Jobs, HasJob
      <4>4. CASE d # b
        BY <2>4, <4>2, <4>3, <4>4 DEF StreamHas
      <4>5. CASE d = b
        BY <2>2, <2>4, <2>5, <4>1, <4>2, <4>3, <4>5 DEF StreamHas
      <4> QED
        BY <4>4, <4>5
    <3> QED
      BY SMTT(30), <1>1, <1>3, <1>4, <1>5, <1>6, <1>7, <1>8, <1>12, <1>14, <3>1, <3>2, OpenedKept
  <2> QED
    BY <1>1, <1>4, <1>10, <1>11, <2>1, <2>7, <2>8, <2>9, <2>10, <2>11, <2>12, <2>13, Frames DEF IInv
<1>15. CASE job.kind = "slice"
  <2>1. blob' = blob /\ stream' = stream
    BY <1>1, <1>15
  <2>7. Kinds'
    BY <1>1, <1>4, <1>6, <1>10, <2>1 DEF IInv, Kinds
  <2>8. JobsFit'
    <3> SUFFICES ASSUME NEW w \in Jobs' PROVE JobFits(w)'
      BY DEF JobsFit
    <3>1. PICK z \in Jobs : w.kind = z.kind /\ w.b = z.b /\ w.who = z.who /\ (w.kind \in KeeperJobs => w.h = z.h)
      BY <1>4
    <3>2. JobFits(z)
      BY DEF IInv, JobsFit
    <3> QED
      BY <1>1, <2>1, <3>1, <3>2 DEF JobFits, KeeperJobs
  <2>9. Cursors'
    <3> SUFFICES ASSUME NEW d \in Blobs PROVE CursorFits(d)'
      BY DEF Cursors
    <3>1. blob[d].handle # NoHandle => open'[blob[d].handle] = open[blob[d].handle]
      BY <1>4, <1>6, Known
    <3> QED
      BY <1>4, <2>1, <3>1 DEF IInv, Cursors, CursorFits
  <2>10. Streams'
    <3> SUFFICES ASSUME NEW d \in Blobs PROVE StreamFits(d)'
      BY DEF Streams
    <3>1. stream[d].handle # NoHandle /\ ~stream[d].finished => open'[stream[d].handle] = open[stream[d].handle]
      BY <1>4, <1>6, Known
    <3>2. StreamFits(d)
      BY DEF IInv, Streams
    <3> QED
      BY <1>1, <1>4, <2>1, <3>1, <3>2, SameStream
  <2>11. Tracked'
    BY <1>1, <1>10, <2>1 DEF IInv, Tracked, TrackedFits, Quiet
  <2>12. BusyFits'
    <3> HIDE DEF job, HasJob
    <3> QED
      BY <1>1, <1>3, <1>4, <1>10, <1>15 DEF BusyFits
  <2>13. Kept'
    <3>1. \A d \in Blobs, h \in Handles : (CursorHas(d, h)' <=> CursorHas(d, h)) /\ (StreamHas(d, h)' <=> StreamHas(d, h))
      BY <1>4, <2>1, SameJobs
    <3> QED
      BY <1>1, <1>3, <1>4, <1>5, <1>6, <1>7, <1>8, <1>12, <1>15, <3>1, OpenedKept
  <2> QED
    BY <1>1, <1>4, <1>10, <1>11, <2>1, <2>7, <2>8, <2>9, <2>10, <2>11, <2>12, <2>13, Frames DEF IInv
<1> QED
  BY <1>2, <1>13, <1>14, <1>15

\* A job has run.
LEMMA Ended ==
    ASSUME IInv, chain # <<>>, Ends(<<>>), alive' = alive
    PROVE  /\ chain' \in Seq(JobKind) /\ Line' /\ Jobs' = Jobs \ {job} /\ busy' = "no" /\ BusyFits'
           /\ job \in Jobs /\ job \in JobKind /\ JobFits(job) /\ Live /\ (job.kind # "end" => Live')
           /\ \A b : SliceFirst(b) => SliceFirst(b)'
           /\ \A y \in Jobs' : y \in Jobs /\ ~Alike(y, job)
           /\ job.kind \notin KeeperJobs => \A y \in Jobs' \cup Jobs : y.kind \in KeeperJobs => y \in Jobs' /\ y \in Jobs
<1>1. chain \in Seq(JobKind) /\ chain' = Tail(chain) /\ busy' = "no"
  <2>1. Tail(chain) \in Seq(JobKind)
    BY HeadTailProperties DEF IInv, Kinds
  <2> QED
    BY <2>1, ConcatEmptySeq DEF Ends, IInv, Kinds
<1>2. /\ chain' \in Seq(JobKind) /\ Line' /\ Jobs' = Jobs \ {job} /\ (job.kind = "end" => chain' = <<>>)
      /\ (~alive /\ job.kind # "end" => chain' # <<>>)
  BY <1>1, Removed DEF IInv
<1>3. job \in Jobs /\ job \in JobKind /\ JobFits(job)
  BY JobTypes DEF IInv, JobsFit
<1>4. Live /\ (job.kind # "end" => Live')
  BY <1>2 DEF Live, IInv, Kinds
<1>5. \A b : SliceFirst(b) => SliceFirst(b)'
  BY <1>1, SlicesRemoved DEF IInv
<1>6. \A y \in Jobs' : y \in Jobs /\ ~Alike(y, job)
  BY <1>2, <1>3, OneOf DEF IInv
<1>7. BusyFits'
  BY <1>1 DEF BusyFits
<1> QED
  BY <1>1, <1>2, <1>3, <1>4, <1>5, <1>6, <1>7

\* A job has run and puts another on the lock.
LEMMA Followed ==
    ASSUME IInv, chain # <<>>, alive, alive' = alive, NEW j \in JobKind, j.kind # "end", Ends(<<j>>),
           \A x \in Jobs : x # job => ~Alike(x, j)
    PROVE  /\ chain' \in Seq(JobKind) /\ Line' /\ Jobs' = (Jobs \ {job}) \cup {j} /\ busy' = "no" /\ BusyFits'
           /\ job \in Jobs /\ job \in JobKind /\ JobFits(job) /\ Live /\ Live'
           /\ \A b : SliceFirst(b) /\ ~(j.kind = "slice" /\ j.b = b) => SliceFirst(b)'
           /\ \A y \in Jobs : y # job => ~Alike(y, job)
<1>1. chain' = Tail(chain) \o <<j>> /\ busy' = "no"
  BY DEF Ends
<1>2. chain' \in Seq(JobKind) /\ Line' /\ Jobs' = (Jobs \ {job}) \cup {j} /\ chain' # <<>>
  BY <1>1, Replaced DEF IInv
<1>3. job \in Jobs /\ job \in JobKind /\ JobFits(job)
  BY JobTypes DEF IInv, JobsFit
<1>4. \A b : SliceFirst(b) /\ ~(j.kind = "slice" /\ j.b = b) => SliceFirst(b)'
  BY <1>1, SlicesReplaced DEF IInv
<1>5. \A y \in Jobs : y # job => ~Alike(y, job)
  BY <1>3, OneOf DEF IInv
<1>6. BusyFits'
  BY <1>1 DEF BusyFits
<1> QED
  BY <1>1, <1>2, <1>3, <1>4, <1>5, <1>6 DEF Live

\* What keeps its handle, and the handle its place.
LEMMA OthersFit ==
    ASSUME IInv, Live
    PROVE  /\ ahead' = ahead /\ (\A b : Claimants(b)' = Claimants(b))
                /\ (ahead.handle # NoHandle => open'[ahead.handle] = open[ahead.handle]) => Entries'
           /\ \A d \in Blobs : blob'[d] = blob[d] /\ (blob[d].handle # NoHandle => open'[blob[d].handle] = open[blob[d].handle])
                => CursorFits(d)'
           /\ \A d \in Blobs : stream'[d] = stream[d] /\ alive' = alive
                /\ (stream[d].handle # NoHandle /\ ~stream[d].finished => open'[stream[d].handle] = open[stream[d].handle])
                => StreamFits(d)'
<1>1. ASSUME ahead' = ahead, \A b : Claimants(b)' = Claimants(b),
             ahead.handle # NoHandle => open'[ahead.handle] = open[ahead.handle], NEW b \in Blobs
      PROVE  EntryFits(b)'
  <2>1. EntryFits(b)
    BY DEF IInv, Entries
  <2> QED
    BY <1>1, <2>1 DEF EntryFits
<1>2. ASSUME NEW d \in Blobs, blob'[d] = blob[d], blob[d].handle # NoHandle => open'[blob[d].handle] = open[blob[d].handle]
      PROVE  CursorFits(d)'
  <2>1. CursorFits(d)
    BY DEF IInv, Cursors
  <2> QED
    BY <1>2, <2>1 DEF CursorFits
<1>3. ASSUME NEW d \in Blobs, stream'[d] = stream[d], alive' = alive,
             stream[d].handle # NoHandle /\ ~stream[d].finished => open'[stream[d].handle] = open[stream[d].handle]
      PROVE  StreamFits(d)'
  <2>1. StreamFits(d)
    BY DEF IInv, Streams
  <2> QED
    BY <1>3, <2>1 DEF StreamFits
<1> QED
  BY <1>1, <1>2, <1>3 DEF Entries

\* A call is through with its job, or has failed.
LEMMA Settling ==
    ASSUME IInv, chain # <<>>, Ends(<<>>), alive' = alive, rows' = rows, stream' = stream, ahead' = ahead, inline' = inline,
           NEW c, c = job.who, job.kind \in Calls, NEW r \in CallKind, r.pc \in {"idle", "done"},
           r = NoCall \/ (r.op = call[c].op /\ r.group = call[c].group), call' = [call EXCEPT ![c] = r],
           \A d \in Blobs : blob'[d] = blob[d] \/ (d \in call[c].group /\ (job.kind = "head" => (blob'[d].has => blob'[d].eof)))
    PROVE  /\ JobsFit' /\ AheadFits' /\ Abandons' /\ Tracked' /\ Exclusive'
           /\ call' \in [Callers -> CallKind] /\ call'[c] = r /\ c \in Callers
           /\ \A d \in Callers : d # c => CallFits(d)'
           /\ \A b : Claimants(b)' = Claimants(b)
<1>1. /\ chain' \in Seq(JobKind) /\ Line' /\ Jobs' = Jobs \ {job} /\ job \in Jobs /\ JobFits(job)
      /\ (\A b : SliceFirst(b) => SliceFirst(b)') /\ (\A y \in Jobs' : y \in Jobs /\ ~Alike(y, job))
  BY Ended
<1>2. c \in Callers /\ call[c].pc = "job" /\ call[c].op = job.kind
  BY <1>1 DEF JobFits
<1>3. call \in [Callers -> CallKind]
  BY DEF IInv, Kinds
<1>4. call' \in [Callers -> CallKind] /\ call'[c] = r /\ \A d \in Callers : d # c => call'[d] = call[d]
  BY <1>2, <1>3
<1>5. JobsFit'
  <2> SUFFICES ASSUME NEW y \in Jobs' PROVE JobFits(y)'
    BY DEF JobsFit
  <2>1. JobFits(y) /\ (y.kind \in Calls => y.who # c)
    BY <1>1 DEF IInv, JobsFit, Alike
  <2> QED
    BY <1>4, <2>1 DEF JobFits
<1>6. AheadFits' /\ Abandons'
  BY <1>1, Frames
<1>7. \A b \in call[c].group : b \in Blobs /\ ~Quiet(b) /\ ~(b \in inline.held \/ ahead.entry[b].state # "none" \/ rows.at = 0)
  <2> SUFFICES ASSUME NEW b \in call[c].group
               PROVE  b \in Blobs /\ ~Quiet(b) /\ ~(b \in inline.held \/ ahead.entry[b].state # "none" \/ rows.at = 0)
    OBVIOUS
  <2>1. b \in Blobs
    BY <1>2, <1>3 DEF CallKind
  <2>2. ~Quiet(b)
    BY <1>2 DEF Quiet
  <2> QED
    BY <2>1, <2>2 DEF IInv, Tracked, TrackedFits
<1>8. Tracked'
  <2> SUFFICES ASSUME NEW b \in Blobs, b \in inline.held \/ ahead.entry[b].state # "none" \/ rows.at = 0 PROVE Quiet(b)'
    BY DEF Tracked, TrackedFits
  <2>1. Quiet(b) /\ b \notin call[c].group
    BY <1>7 DEF IInv, Tracked, TrackedFits
  <2>2. blob'[b] = blob[b]
    BY <2>1
  <2> QED
    BY <1>4, <2>1, <2>2 DEF Quiet
<1>9. Exclusive'
  <2>1. r.group \subseteq call[c].group /\ (r.group # {} => r.op = call[c].op)
    BY DEF NoCall
  <2>2. \A d \in Callers : call'[d].group \subseteq call[d].group /\ (call'[d].group # {} => call'[d].op = call[d].op)
    BY <1>4, <2>1
  <2>3. \A d \in Callers : \A b \in Blobs : b \in call'[d].group => b \in call[d].group /\ call'[d].op = call[d].op
    BY <2>2
  <2> QED
    BY <2>3 DEF IInv, Exclusive
<1>10. ASSUME NEW d \in Callers, d # c PROVE CallFits(d)'
  <2>1. CallFits(d) /\ call[d].group \subseteq Blobs /\ call'[d] = call[d]
    BY <1>3, <1>4, <1>10 DEF IInv, CallsFit, CallKind
  <2>2. \A b \in call[d].group : b \in call[c].group => call[d].op = "head" /\ job.kind = "head"
    BY <1>2, <1>10, <2>1 DEF IInv, Exclusive
  <2>3. \A b \in call[d].group : blob'[b] = blob[b] \/ (call[d].op = "head" /\ (blob'[b].has => blob'[b].eof))
    BY <2>1, <2>2
  <2> QED
    BY <2>1, <2>3 DEF CallFits
<1>11. \A b : Claimants(b)' = Claimants(b)
  <2>1. call'[c].pc # "take" /\ call[c].pc # "take"
    BY <1>2, <1>4
  <2> QED
    BY <1>4, <2>1 DEF Claimants
<1> QED
  BY <1>2, <1>4, <1>5, <1>6, <1>8, <1>9, <1>10, <1>11

\* What a caller is given when his job is through.
LEMMA SettlesIs ==
    ASSUME Kinds, NEW c \in Callers, NEW data \in Datas, Settles(c, data)
    PROVE  LET r == [op |-> call[c].op, n |-> call[c].n, pc |-> "done", data |-> data, group |-> call[c].group]
           IN call' = [call EXCEPT ![c] = r] /\ r \in CallKind
<1> DEFINE r == [op |-> call[c].op, n |-> call[c].n, pc |-> "done", data |-> data, group |-> call[c].group]
           x == [call[c] EXCEPT !.pc = "done"]
           y == [x EXCEPT !.data = data]
<1>1. call \in [Callers -> CallKind] /\ call[c] \in CallKind
  BY DEF Kinds
<1>2. r \in CallKind
  BY <1>1 DEF CallKind
<1>3. x \in CallKind /\ x = [op |-> call[c].op, n |-> call[c].n, pc |-> "done", data |-> call[c].data, group |-> call[c].group]
  BY <1>1 DEF CallKind
<1>4. y = r
  <2> HIDE DEF x
  <2>1. y = [[op |-> call[c].op, n |-> call[c].n, pc |-> "done", data |-> call[c].data, group |-> call[c].group] EXCEPT !.data = data]
    BY <1>3
  <2> QED
    BY <2>1
<1>5. call' = [[call EXCEPT ![c] = x] EXCEPT ![c] = [[call EXCEPT ![c] = x][c] EXCEPT !.data = data]]
  BY DEF Settles
<1> HIDE DEF x
<1>6. [call EXCEPT ![c] = x][c] = x
  BY <1>1
<1>7. call' = [[call EXCEPT ![c] = x] EXCEPT ![c] = y]
  BY <1>5, <1>6
<1> HIDE DEF y, r
<1>8. call' = [call EXCEPT ![c] = y]
  BY <1>1, <1>7
<1> QED
  BY <1>2, <1>4, <1>8 DEF r

\* The invariant is kept when an earlier job has read enough,
LEMMA AtEnd_IInv ==
    ASSUME IInv, AtEnd
    PROVE  IInv'
<1> SUFFICES ASSUME NEW c, c = job.who, NEW b, b = job.b PROVE IInv'
  OBVIOUS
<1>1. /\ chain # <<>> /\ busy = "no" /\ job.kind \in {"head", "buffer"} /\ Enough(b, call[c].n) /\ Ends(<<>>)
      /\ stream' = stream /\ ahead' = ahead /\ inline' = inline /\ rows' = rows /\ alive' = alive /\ open' = open
      /\ stray' = stray /\ calls' = calls
  BY DEF AtEnd, Running
<1>2. /\ chain' \in Seq(JobKind) /\ Line' /\ Jobs' = Jobs \ {job} /\ busy' = "no" /\ BusyFits'
      /\ job \in Jobs /\ JobFits(job) /\ Live /\ Live' /\ (\A b1 : SliceFirst(b1) => SliceFirst(b1)')
      /\ \A y \in Jobs' \cup Jobs : y.kind \in KeeperJobs => y \in Jobs' /\ y \in Jobs
  BY <1>1, Ended DEF KeeperJobs
<1>3. c \in Callers /\ b \in Blobs /\ call[c].pc = "job" /\ call[c].op = job.kind /\ call[c].group = {b}
  BY <1>1, <1>2 DEF JobFits, Calls
<1>4. CallFits(c) /\ CursorFits(b) /\ blob[b] \in BlobKind /\ call[c] \in CallKind
  BY <1>3 DEF IInv, CallsFit, Cursors, Kinds
<1>5. call[c].n \in Nat /\ call[c].n \in 0..(Size + 1) /\ blob[b].bytes \in 0..Size /\ Size \in Nat
  BY <1>4, Constants DEF CallKind, BlobKind
<1>6. job.kind = "head"
  <2>1. SUFFICES ASSUME job.kind = "buffer" PROVE FALSE
    BY <1>1
  <2>2. call[c].n = Size + 1 /\ ~blob[b].eof
    BY <1>3, <1>4, <2>1 DEF CallFits, CursorFits
  <2>3. ~(blob[b].bytes >= Size + 1)
    BY <1>5
  <2> QED
    BY <1>1, <2>2, <2>3 DEF Enough
<1>7. Promoted(blob[b]) = blob[b]
  BY <1>4 DEF Promoted, CursorFits
<1>8. blob' = blob /\ Settles(c, HeadOf(c, blob[b]))
  <2>1. blob' = [blob EXCEPT ![b] = Promoted(blob[b])] /\ Settles(c, HeadOf(c, blob[b]))
    BY <1>1, <1>6 DEF AtEnd
  <2>2. blob \in [Blobs -> BlobKind]
    BY DEF IInv, Kinds
  <2> QED
    BY <1>3, <1>7, <2>1, <2>2
<1>9. HeadOf(c, blob[b]) = FirstOf(call[c].n, Content)
  <2>1. HeadOf(c, blob[b]) = FirstOf(call[c].n, IF blob[b].has THEN blob[b].cached ELSE Concat(blob[b].consumed, blob[b].bytes))
    BY <1>7 DEF HeadOf
  <2>2. CASE blob[b].has
    BY <1>4, <2>1, <2>2 DEF CursorFits
  <2>3. CASE ~blob[b].has
    <3>1. blob[b].bytes >= call[c].n
      BY <1>1, <1>4, <2>3 DEF Enough, CursorFits
    <3> QED
      BY <1>3, <1>5, <2>1, <2>3, <3>1, ReadSoFar
  <2> QED
    BY <2>2, <2>3
<1>10. FirstOf(call[c].n, Content) \in Datas
  BY <1>5, FirstData
<1> DEFINE r == [op |-> call[c].op, n |-> call[c].n, pc |-> "done", data |-> FirstOf(call[c].n, Content), group |-> call[c].group]
<1>11. call' = [call EXCEPT ![c] = r] /\ r \in CallKind
  BY <1>3, <1>8, <1>9, <1>10, SettlesIs DEF IInv
<1>12. r.op = call[c].op /\ r.n = call[c].n /\ r.pc = "done" /\ r.data = FirstOf(call[c].n, Content) /\ r.group = call[c].group
  OBVIOUS
<1> HIDE DEF r
<1>13. /\ JobsFit' /\ AheadFits' /\ Abandons' /\ Tracked' /\ Exclusive'
       /\ call' \in [Callers -> CallKind] /\ call'[c] = r
       /\ (\A d \in Callers : d # c => CallFits(d)') /\ (\A b1 : Claimants(b1)' = Claimants(b1))
  BY <1>1, <1>3, <1>6, <1>8, <1>11, <1>12, Settling DEF Calls
<1>14. Kinds'
  BY <1>1, <1>2, <1>8, <1>13 DEF IInv, Kinds
<1>15. CallsFit'
  <2>1. CallFits(c)'
    BY <1>1, <1>3, <1>4, <1>6, <1>12, <1>13 DEF CallFits
  <2> QED
    BY <1>13, <2>1 DEF CallsFit
<1>16. Cursors' /\ Streams' /\ Entries'
  BY <1>1, <1>2, <1>8, <1>13, OthersFit DEF Cursors, Streams
<1>17. Kept'
  BY <1>1, <1>2, <1>8, NothingKept
<1> QED
  BY <1>2, <1>13, <1>14, <1>15, <1>16, <1>17 DEF IInv

\* What a head is given of a blob that was read whole.
LEMMA HeadIs ==
    ASSUME NEW c, NEW r, Promoted(r).has = TRUE
    PROVE  HeadOf(c, r) = FirstOf(call[c].n, Promoted(r).cached)
BY DEF HeadOf

\* A blob that was read whole.
LEMMA CachesIs ==
    ASSUME NEW x \in BlobKind, NEW data \in Datas
    PROVE  LET y == Caches(x, data)
           IN /\ y \in BlobKind /\ y.has = TRUE /\ y.cached = data /\ y.consumed = <<>>
              /\ y.bytes = x.bytes /\ y.handle = x.handle /\ y.eof = x.eof
<1>1. <<>> \in Datas
  BY Whole0
<1> DEFINE v == [x EXCEPT !.has = TRUE]
           w == [v EXCEPT !.cached = data]
           y == [w EXCEPT !.consumed = <<>>]
<1>2. v \in BlobKind /\ v.has = TRUE /\ v.bytes = x.bytes /\ v.handle = x.handle /\ v.eof = x.eof
  BY DEF BlobKind
<1> HIDE DEF v
<1>3. w \in BlobKind /\ w.has = TRUE /\ w.cached = data /\ w.bytes = x.bytes /\ w.handle = x.handle /\ w.eof = x.eof
  BY <1>2 DEF BlobKind
<1> HIDE DEF w
<1>4. /\ y \in BlobKind /\ y.has = TRUE /\ y.cached = data /\ y.consumed = <<>>
      /\ y.bytes = x.bytes /\ y.handle = x.handle /\ y.eof = x.eof
  BY <1>1, <1>3 DEF BlobKind
<1>5. Caches(x, data) = y
  BY DEF Caches, w, v
<1> QED
  BY <1>4, <1>5

\* when whole blobs were read,
LEMMA AnswerWhole_IInv ==
    ASSUME IInv, AnswerWhole
    PROVE  IInv'
<1> SUFFICES ASSUME NEW c, c = job.who, NEW b, b = job.b PROVE IInv'
  OBVIOUS
<1> DEFINE data == IF job.kind = "buffer" THEN Content ELSE <<>>
<1>1. /\ busy = "whole" /\ Settles(c, data) /\ Ends(<<>>)
      /\ blob' = [d \in Blobs |-> IF d \in call[c].group THEN Caches(blob[d], Content) ELSE blob[d]]
      /\ stream' = stream /\ ahead' = ahead /\ inline' = inline /\ rows' = rows /\ alive' = alive /\ open' = open
      /\ stray' = stray /\ calls' = calls
  BY DEF AnswerWhole
<1>2. chain # <<>> /\ job.kind \in {"buffer", "prefetch"} /\ (job.kind = "buffer" => Whole(b))
  BY <1>1 DEF IInv, BusyFits
<1>3. /\ chain' \in Seq(JobKind) /\ Line' /\ Jobs' = Jobs \ {job} /\ busy' = "no" /\ BusyFits'
      /\ job \in Jobs /\ JobFits(job) /\ Live /\ Live' /\ (\A b1 : SliceFirst(b1) => SliceFirst(b1)')
      /\ \A y \in Jobs' \cup Jobs : y.kind \in KeeperJobs => y \in Jobs' /\ y \in Jobs
  BY <1>1, <1>2, Ended DEF KeeperJobs
<1>4. /\ c \in Callers /\ call[c].pc = "job" /\ call[c].op = job.kind
      /\ job.kind = "buffer" => b \in Blobs /\ call[c].group = {b}
  BY <1>2, <1>3 DEF JobFits, Calls
<1>5. CallFits(c) /\ call[c] \in CallKind /\ data \in Datas
  BY <1>4, Whole0 DEF IInv, CallsFit, Kinds
<1>6. ASSUME NEW d \in call[c].group
      PROVE  d \in Blobs /\ ~blob[d].has /\ blob[d].handle = NoHandle /\ blob[d].bytes = 0
  <2>1. d \in Blobs
    BY <1>5 DEF CallKind
  <2> QED
    BY <1>2, <1>4, <1>5, <2>1 DEF CallFits, Whole
<1>7. \A d \in Blobs : blob[d] \in BlobKind
  BY DEF IInv, Kinds
<1>8. \A d \in call[c].group : /\ blob'[d] \in BlobKind /\ blob'[d].has /\ blob'[d].cached = Content
                               /\ blob'[d].handle = NoHandle /\ blob'[d].bytes = 0
  <2> SUFFICES ASSUME NEW d \in call[c].group
               PROVE  /\ blob'[d] \in BlobKind /\ blob'[d].has /\ blob'[d].cached = Content
                      /\ blob'[d].handle = NoHandle /\ blob'[d].bytes = 0
    OBVIOUS
  <2>1. blob'[d] = Caches(blob[d], Content)
    BY <1>1, <1>6
  <2>2. blob[d] \in BlobKind /\ Content \in Datas
    BY <1>6, <1>7, Whole0
  <2> DEFINE x == blob[d]
             y == Caches(x, Content)
  <2>3. x \in BlobKind
    BY <2>2
  <2> HIDE DEF x
  <2>4. y \in BlobKind /\ y.has = TRUE /\ y.cached = Content /\ y.bytes = x.bytes /\ y.handle = x.handle
    BY <2>2, <2>3, CachesIs
  <2>5. blob'[d] = y
    BY <2>1 DEF x
  <2> HIDE DEF y
  <2> QED
    BY <1>6, <2>4, <2>5 DEF x
<1>9. \A d \in Blobs : d \notin call[c].group => blob'[d] = blob[d]
  BY <1>1
<1>10. blob' \in [Blobs -> BlobKind]
  <2>1. \A d \in Blobs : blob'[d] \in BlobKind
    BY <1>7, <1>8, <1>9
  <2>2. blob' = [d \in Blobs |-> blob'[d]]
    BY <1>1
  <2> QED
    BY <2>1, <2>2
<1> DEFINE r == [op |-> call[c].op, n |-> call[c].n, pc |-> "done", data |-> data, group |-> call[c].group]
<1> HIDE DEF data
<1>11. call' = [call EXCEPT ![c] = r] /\ r \in CallKind
  BY <1>1, <1>4, <1>5, SettlesIs DEF IInv
<1>12. r.op = call[c].op /\ r.n = call[c].n /\ r.pc = "done" /\ r.data = data /\ r.group = call[c].group
  OBVIOUS
<1> HIDE DEF r
<1>13. /\ JobsFit' /\ AheadFits' /\ Abandons' /\ Tracked' /\ Exclusive'
       /\ call' \in [Callers -> CallKind] /\ call'[c] = r
       /\ (\A d \in Callers : d # c => CallFits(d)') /\ (\A b1 : Claimants(b1)' = Claimants(b1))
  <2>1. job.kind \in Calls /\ job.kind # "head"
    BY <1>2 DEF Calls
  <2>2. \A d \in Blobs : blob'[d] = blob[d] \/ (d \in call[c].group /\ (job.kind = "head" => (blob'[d].has => blob'[d].eof)))
    BY <1>9, <2>1
  <2> QED
    BY <1>1, <1>3, <1>2, <1>11, <1>12, <2>1, <2>2, Settling
<1>14. Kinds'
  BY <1>1, <1>3, <1>10, <1>13 DEF IInv, Kinds
<1>15. CallsFit'
  <2>1. CallFits(c)'
    BY <1>1, <1>2, <1>4, <1>5, <1>12, <1>13 DEF CallFits, data
  <2> QED
    BY <1>13, <2>1 DEF CallsFit
<1>16. Cursors'
  <2>1. ASSUME NEW d \in call[c].group PROVE CursorFits(d)'
    BY <1>8 DEF CursorFits
  <2>2. ASSUME NEW d \in Blobs, d \notin call[c].group PROVE CursorFits(d)'
    BY <1>1, <1>3, <1>9, <2>2, OthersFit
  <2> QED
    BY <2>1, <2>2 DEF Cursors
<1>17. Streams' /\ Entries'
  BY <1>1, <1>3, <1>13, OthersFit DEF Streams
<1>18. Kept'
  <2>1. \A d \in Blobs : blob'[d].handle = blob[d].handle
    BY <1>6, <1>8, <1>9
  <2> QED
    BY <1>1, <1>3, <2>1, NothingKept
<1> QED
  BY <1>3, <1>13, <1>14, <1>15, <1>16, <1>17, <1>18 DEF IInv

\* when a pull finds its stream destroyed,
LEMMA SkipPull_IInv ==
    ASSUME IInv, SkipPull
    PROVE  IInv'
<1>1. /\ chain # <<>> /\ job.kind = "pull" /\ Ends(<<>>) /\ blob' = blob /\ call' = call /\ stream' = stream
      /\ ahead' = ahead /\ inline' = inline /\ rows' = rows /\ alive' = alive /\ open' = open
      /\ stray' = stray /\ calls' = calls
  BY DEF SkipPull, Running, client
<1>2. /\ chain' \in Seq(JobKind) /\ Line' /\ Jobs' = Jobs \ {job} /\ busy' = "no" /\ BusyFits'
      /\ job \in Jobs /\ JobFits(job) /\ Live /\ Live' /\ (\A b1 : SliceFirst(b1) => SliceFirst(b1)')
      /\ \A y \in Jobs' \cup Jobs : y.kind \in KeeperJobs => y \in Jobs' /\ y \in Jobs
  BY <1>1, Ended DEF KeeperJobs
<1>3. Kinds'
  BY <1>1, <1>2 DEF IInv, Kinds
<1>4. Kept'
  BY <1>1, <1>2, NothingKept
<1>5. JobsFit' /\ Cursors' /\ Streams' /\ AheadFits' /\ Entries' /\ Abandons' /\ Tracked' /\ CallsFit' /\ Exclusive'
  BY <1>1, <1>2, Frames
<1> QED
  BY <1>2, <1>3, <1>4, <1>5 DEF IInv

\* and when iteration or the transaction is over at the server.
LEMMA LastJob_IInv ==
    ASSUME IInv, LastJob
    PROVE  IInv'
<1>1. /\ chain # <<>> /\ job.kind \in {"leave", "end"} /\ Ends(<<>>) /\ blob' = blob /\ call' = call /\ stream' = stream
      /\ ahead' = ahead /\ alive' = alive /\ stray' = stray /\ calls' = calls
      /\ rows' = (IF job.kind = "leave" THEN [rows EXCEPT !.state = "left"] ELSE rows)
      /\ open' = (IF job.kind = "end" THEN <<>> ELSE open)
      /\ inline' = (IF job.kind = "end" THEN Taken(inline.held) ELSE inline)
  BY DEF LastJob, Running, client
<1>2. /\ chain' \in Seq(JobKind) /\ Line' /\ Jobs' = Jobs \ {job} /\ busy' = "no" /\ BusyFits'
      /\ job \in Jobs /\ JobFits(job) /\ Live /\ (job.kind # "end" => Live') /\ (\A b1 : SliceFirst(b1) => SliceFirst(b1)')
      /\ \A y \in Jobs' \cup Jobs : y.kind \in KeeperJobs => y \in Jobs' /\ y \in Jobs
  BY <1>1, Ended DEF KeeperJobs
<1>3. CASE job.kind = "leave"
  <2>1. rows' = [rows EXCEPT !.state = "left"] /\ open' = open /\ inline' = inline /\ rows.state = "leaving" /\ Live'
    BY <1>1, <1>2, <1>3 DEF JobFits
  <2>2. rows'.at = rows.at /\ rows'.state = "left" /\ rows' \in [at : 0..Cardinality(Blobs), state : {"reading", "leaving", "left"}]
    BY <2>1 DEF IInv, Kinds
  <2>3. Kinds'
    BY <1>1, <1>2, <2>1, <2>2 DEF IInv, Kinds
  <2>4. JobsFit'
    <3> SUFFICES ASSUME NEW y \in Jobs' PROVE JobFits(y)'
      BY DEF JobsFit
    <3>1. y \in Jobs /\ ~Alike(y, job) /\ JobFits(y)
      BY <1>1, Ended DEF IInv, JobsFit
    <3>2. y.kind # "leave"
      <4>1. y.kind = "leave" => y.b = Nobody
        BY <3>1 DEF JobFits
      <4>2. job.b = Nobody
        BY <1>2, <1>3 DEF JobFits
      <4> QED
        BY <1>3, <3>1, <4>1, <4>2 DEF Alike, Calls, Fetches
    <3> QED
      BY <1>1, <3>1, <3>2 DEF JobFits
  <2>5. AheadFits'
    <3>1. (\A j \in Jobs' : j \in Jobs) /\ AheadFits
      BY <1>2 DEF IInv
    <3> QED
      BY <1>1, <2>1, <2>2, <3>1 DEF AheadFits
  <2>6. Kept'
    BY <1>1, <1>2, <2>1, NothingKept
  <2>7. Tracked' /\ CallsFit'
    BY <1>1, <2>1, <2>2 DEF IInv, Tracked, TrackedFits, Quiet, CallsFit, CallFits
  <2>8. Cursors' /\ Streams' /\ Entries' /\ Abandons' /\ Exclusive'
    BY <1>1, <1>2, <2>1, Frames
  <2> QED
    BY <1>2, <2>3, <2>4, <2>5, <2>6, <2>7, <2>8 DEF IInv
<1>4. CASE job.kind = "end"
  <2>1. rows' = rows /\ open' = <<>> /\ inline'.held = {} /\ ~alive /\ chain' = <<>>
    <3>1. chain' = <<>>
      <4>1. chain' = Tail(chain)
        BY <1>1, ConcatEmptySeq, HeadTailProperties DEF Ends, IInv, Kinds
      <4> QED
        BY <1>1, <1>4, <4>1, Removed DEF IInv
    <3>2. ~alive
      BY <1>1, <1>4, JobTypes DEF Line, IInv
    <3> QED
      BY <1>1, <1>4, <3>1, <3>2 DEF Taken
  <2>2. Jobs' = {} /\ ~Live' /\ DOMAIN open' = {}
    <3>1. Len(chain') = 0
      BY <2>1, EmptySeq
    <3> QED
      BY <1>1, <2>1, <3>1, EmptySeq DEF Jobs, Live
  <2>3. Kinds'
    BY <1>1, <1>2, <2>1, <2>2 DEF IInv, Kinds
  <2>4. Cursors'
    <3> SUFFICES ASSUME NEW d \in Blobs PROVE CursorFits(d)'
      BY DEF Cursors
    <3>1. CursorFits(d)
      BY DEF IInv, Cursors
    <3> QED
      BY <1>1, <2>2, <3>1 DEF CursorFits
  <2>5. Streams'
    <3> SUFFICES ASSUME NEW d \in Blobs PROVE StreamFits(d)'
      BY DEF Streams
    <3>1. StreamFits(d)
      BY DEF IInv, Streams
    <3> QED
      BY <1>1, <2>1, <2>2, <3>1 DEF StreamFits
  <2>6. Entries'
    <3> SUFFICES ASSUME NEW d \in Blobs PROVE EntryFits(d)'
      BY DEF Entries
    <3>1. EntryFits(d) /\ Claimants(d)' = Claimants(d)
      BY <1>1 DEF IInv, Entries, Claimants
    <3> QED
      BY <1>1, <2>2, <3>1 DEF EntryFits
  <2>7. Kept'
    BY <1>1, <2>2 DEF Kept, KeptFits, OwnedFits, IInv
  <2>8. JobsFit' /\ AheadFits' /\ Abandons' /\ Tracked' /\ CallsFit' /\ Exclusive'
    <3>1. inline'.held \subseteq inline.held
      BY <2>1
    <3> QED
      BY <1>1, <1>2, <2>1, <2>2, <3>1, Frames
  <2> QED
    BY <1>2, <2>3, <2>4, <2>5, <2>6, <2>7, <2>8 DEF IInv
<1> QED
  BY <1>1, <1>3, <1>4

\* A step at one handle leaves alone who has another.
LEMMA Untouched ==
    ASSUME IInv, Live, NEW x \in Handles, \A g \in DOMAIN open : g # x => g \in DOMAIN open' /\ open'[g] = open[g]
    PROVE  /\ ahead' = ahead /\ (\A b : Claimants(b)' = Claimants(b)) /\ ahead.handle # x => Entries'
           /\ \A d \in Blobs : blob'[d] = blob[d] /\ blob[d].handle # x => CursorFits(d)'
           /\ \A d \in Blobs : stream'[d] = stream[d] /\ alive' = alive /\ (stream[d].handle # x \/ stream[d].finished)
                => StreamFits(d)'
<1>1. /\ \A d \in Blobs : blob[d].handle # NoHandle => blob[d].handle \in DOMAIN open
      /\ \A d \in Blobs : stream[d].handle # NoHandle /\ ~stream[d].finished => stream[d].handle \in DOMAIN open
      /\ ahead.handle # NoHandle => ahead.handle \in DOMAIN open
  BY Known
<1>2. ahead.handle # x /\ ahead.handle # NoHandle => open'[ahead.handle] = open[ahead.handle]
  BY <1>1
<1>3. \A d \in Blobs : blob[d].handle # x /\ blob[d].handle # NoHandle => open'[blob[d].handle] = open[blob[d].handle]
  BY <1>1
<1>4. \A d \in Blobs : (stream[d].handle # x \/ stream[d].finished) /\ stream[d].handle # NoHandle /\ ~stream[d].finished
                        => open'[stream[d].handle] = open[stream[d].handle]
  BY <1>1
<1> QED
  BY <1>2, <1>3, <1>4, OthersFit

\* The invariant is kept by the jobs that close: who had the handle has it no more.
LEMMA CloseJob_IInv ==
    ASSUME IInv, CloseJob
    PROVE  IInv'
<1> SUFFICES ASSUME NEW c, c = job.who, NEW b, b = job.b,
                    NEW h, h = IF job.kind = "destroy" THEN stream[b].handle ELSE job.h
             PROVE  IInv'
  OBVIOUS
<1>1. /\ chain # <<>> /\ job.kind \in KeeperJobs /\ Ends(<<>>) /\ blob' = blob /\ stream' = stream
      /\ ahead' = ahead /\ inline' = inline /\ rows' = rows /\ alive' = alive /\ calls' = calls
      /\ (IF h # NoHandle /\ (alive \/ job.kind = "eof") THEN Closes(open, h) ELSE open' = open /\ stray' = stray)
      /\ (IF job.kind = "close" THEN Settles(c, <<>>) ELSE call' = call)
  BY DEF CloseJob, Running, KeeperJobs
<1>2. /\ chain' \in Seq(JobKind) /\ Line' /\ Jobs' = Jobs \ {job} /\ busy' = "no" /\ BusyFits'
      /\ job \in Jobs /\ job \in JobKind /\ JobFits(job) /\ Live /\ Live' /\ (\A b1 : SliceFirst(b1) => SliceFirst(b1)')
      /\ \A y \in Jobs' : y \in Jobs /\ ~Alike(y, job)
  BY <1>1, Ended DEF KeeperJobs
<1>3. b \in Blobs /\ h \in Handles \cup {NoHandle}
  <2>1. b \in Blobs
    BY <1>1, <1>2 DEF JobFits, Calls, KeeperJobs
  <2> QED
    BY <1>2, <2>1 DEF JobKind, IInv, Kinds, StreamKind
<1>4. /\ JobsFit' /\ AheadFits' /\ Abandons' /\ Tracked' /\ Exclusive' /\ CallsFit'
      /\ call' \in [Callers -> CallKind] /\ \A b1 : Claimants(b1)' = Claimants(b1)
  <2>1. CASE job.kind = "close"
    <3> DEFINE r == [op |-> call[c].op, n |-> call[c].n, pc |-> "done", data |-> <<>>, group |-> call[c].group]
    <3>1. c \in Callers /\ call[c].op = "close" /\ call[c].pc = "job" /\ <<>> \in Datas
      BY <1>2, <2>1, Whole0 DEF JobFits, Calls
    <3>2. call' = [call EXCEPT ![c] = r] /\ r \in CallKind
      BY <1>1, <2>1, <3>1, SettlesIs DEF IInv
    <3>3. r.op = call[c].op /\ r.n = call[c].n /\ r.pc = "done" /\ r.data = <<>> /\ r.group = call[c].group
      OBVIOUS
    <3> HIDE DEF r
    <3>4. /\ JobsFit' /\ AheadFits' /\ Abandons' /\ Tracked' /\ Exclusive'
          /\ call' \in [Callers -> CallKind] /\ call'[c] = r
          /\ (\A d \in Callers : d # c => CallFits(d)') /\ (\A b1 : Claimants(b1)' = Claimants(b1))
      BY <1>1, <2>1, <3>2, <3>3, Settling DEF Calls
    <3>5. CallFits(c)'
      BY <1>1, <3>1, <3>3, <3>4 DEF CallFits, IInv, CallsFit
    <3> QED
      BY <3>4, <3>5 DEF CallsFit
  <2>2. CASE job.kind # "close"
    <3>1. call' = call
      BY <1>1, <2>2
    <3>2. call \in [Callers -> CallKind] /\ \A b1 : Claimants(b1)' = Claimants(b1)
      BY <3>1 DEF Claimants, IInv, Kinds
    <3> QED
      BY <1>1, <1>2, <3>1, <3>2, Frames
  <2> QED
    BY <2>1, <2>2
<1>5. \A d \in Blobs, g \in Handles : /\ (CursorHas(d, g)' => CursorHas(d, g)) /\ (StreamHas(d, g)' => StreamHas(d, g))
                                       /\ (AheadHas(d, g)' <=> AheadHas(d, g))
  <2>1. Jobs' \subseteq Jobs
    BY <1>2
  <2> HIDE DEF Jobs
  <2> QED
    BY <1>1, <2>1 DEF CursorHas, StreamHas, AheadHas, HasJob
<1>6. /\ job.kind = "close" => h # NoHandle /\ h = job.h /\ blob[b].handle = NoHandle
                                /\ \A y \in Jobs' : ~(y.kind = "close" /\ y.b = b)
      /\ job.kind = "destroy" => stream[b].finished /\ h = stream[b].handle /\ ~HasJob("destroy", b)'
                                /\ \A y \in Jobs' : ~(y.kind = "eof" /\ y.b = b)
      /\ job.kind = "eof" => stream[b].finished /\ h = job.h /\ ~HasJob("destroy", b)'
                                /\ \A y \in Jobs' : ~(y.kind = "eof" /\ y.b = b)
  <2>1. \A y \in Jobs' : JobFits(y) /\ ~Alike(y, job)
    BY <1>2 DEF IInv, JobsFit
  <2>2. CASE job.kind = "close"
    <3>1. c \in Callers /\ call[c].op = "close" /\ call[c].pc = "job" /\ call[c].group = {b}
      BY <1>2, <2>2 DEF JobFits, Calls
    <3>2. blob[b].handle = NoHandle
      BY <3>1 DEF IInv, CallsFit, CallFits
    <3>3. \A y \in Jobs' : ~(y.kind = "close" /\ y.b = b)
      <4> SUFFICES ASSUME NEW y \in Jobs', y.kind = "close", y.b = b PROVE FALSE
        OBVIOUS
      <4>1. y.who \in Callers /\ b \in call[y.who].group
        BY <2>1 DEF JobFits, Calls
      <4>2. y.who # c
        BY <2>1, <2>2 DEF Alike, Calls
      <4> QED
        BY <1>3, <3>1, <4>1, <4>2 DEF IInv, Exclusive
    <3> QED
      BY <1>2, <2>2, <3>2, <3>3 DEF JobFits
  <2>3. CASE job.kind = "destroy"
    <3>1. stream[b].finished /\ ~stream[b].ended
      BY <1>2, <2>3 DEF JobFits
    <3> QED
      BY <2>1, <2>3, <3>1 DEF JobFits, Alike, Calls, Fetches, HasJob
  <2>4. CASE job.kind = "eof"
    <3>1. stream[b].finished /\ stream[b].ended
      BY <1>2, <2>4 DEF JobFits
    <3> QED
      BY <1>1, <2>1, <2>4, <3>1 DEF JobFits, Alike, Calls, Fetches, HasJob
  <2> QED
    BY <2>2, <2>3, <2>4
<1>7. ASSUME NEW d \in Blobs, NEW g \in Handles, g # h PROVE (CursorHas(d, g)' <=> CursorHas(d, g)) /\ (StreamHas(d, g)' <=> StreamHas(d, g))
  <2>1. CursorHas(d, g) => CursorHas(d, g)'
    <3>1. ASSUME NEW y \in Jobs, y.kind = "close", y.h = g PROVE y \in Jobs'
      BY <1>2, <1>6, <1>7, <3>1
    <3> HIDE DEF Jobs
    <3> QED
      BY <1>1, <3>1 DEF CursorHas
  <2>2. StreamHas(d, g) => StreamHas(d, g)'
    <3>1. ASSUME NEW y \in Jobs, y.kind = "eof", y.h = g PROVE y \in Jobs'
      BY <1>2, <1>6, <1>7, <3>1
    <3>2. ASSUME NEW y \in Jobs, y.kind = "destroy", y.b = d, stream[d].handle = g PROVE y \in Jobs'
      BY <1>2, <1>6, <1>7, <3>2
    <3> HIDE DEF Jobs
    <3> QED
      BY <1>1, <3>1, <3>2 DEF StreamHas, HasJob
  <2> QED
    BY <1>5, <2>1, <2>2
<1>8. Kept /\ DOMAIN open \subseteq Handles /\ \A d \in Blobs, g \in Handles : KeptFits(d, g)
  BY DEF IInv, Kinds, Kept
<1>9. CASE h # NoHandle /\ (alive \/ job.kind = "eof")
  <2>1. h \in Handles /\ Closes(open, h)
    BY <1>1, <1>3, <1>9
  <2>2. CursorHas(b, h) \/ StreamHas(b, h)
    <3>1. job.kind = "close" => CursorHas(b, h)
      BY <1>2, <1>6 DEF CursorHas
    <3>2. job.kind = "eof" => StreamHas(b, h)
      BY <1>2, <1>6 DEF StreamHas
    <3>3. job.kind = "destroy" => StreamHas(b, h)
      BY <1>2, <1>6 DEF StreamHas, HasJob
    <3> QED
      BY <1>1, <3>1, <3>2, <3>3 DEF KeeperJobs
  <2>3. /\ h \in DOMAIN open
        /\ (\A d \in Blobs : d # b => ~CursorHas(d, h) /\ ~StreamHas(d, h) /\ ~AheadHas(d, h)) /\ ~AheadHas(b, h)
        /\ (CursorHas(b, h) => ~StreamHas(b, h)) /\ (StreamHas(b, h) => ~CursorHas(b, h))
    BY <1>2, <1>3, <2>1, <2>2, KeeperOf
  <2>4. /\ stray' => stray
        /\ DOMAIN open' = DOMAIN open \ {h} /\ \A g \in DOMAIN open : g # h => g \in DOMAIN open' /\ open'[g] = open[g]
    BY <2>1, <2>3 DEF Closes
  <2>5. ~CursorHas(b, h)' /\ ~StreamHas(b, h)'
    <3>1. CASE job.kind = "close"
      <4>1. CursorHas(b, h) /\ ~StreamHas(b, h)
        BY <1>2, <1>6, <2>3, <3>1 DEF CursorHas
      <4>2. ~CursorHas(b, h)'
        BY <1>1, <1>6, <3>1 DEF CursorHas
      <4> QED
        BY <1>3, <1>5, <2>1, <4>1, <4>2
    <3>2. CASE job.kind \in {"destroy", "eof"}
      <4>1. StreamHas(b, h)
        BY <1>2, <1>6, <3>2 DEF StreamHas, HasJob
      <4>2. ~StreamHas(b, h)'
        <5>1. stream'[b].finished /\ ~HasJob("destroy", b)' /\ \A y \in Jobs' : ~(y.kind = "eof" /\ y.b = b)
          BY <1>1, <1>6, <3>2
        <5> HIDE DEF HasJob
        <5> QED
          BY <5>1 DEF StreamHas
      <4> QED
        BY <1>3, <1>5, <2>1, <2>3, <4>1, <4>2
    <3> QED
      BY <1>1, <3>1, <3>2 DEF KeeperJobs
  <2>6. \A d \in Blobs : ~CursorHas(d, h)' /\ ~StreamHas(d, h)' /\ ~AheadHas(d, h)'
    BY <1>5, <2>1, <2>3, <2>5
  <2>7. Kept'
    BY <1>1, <1>2, <1>5, <1>7, <1>8, <2>1, <2>4, <2>6, ClosedKept
  <2>8. Cursors' /\ Streams' /\ Entries'
    <3>1. \A d \in Blobs : blob[d].handle # h /\ (stream[d].handle # h \/ stream[d].finished)
      BY <1>1, <2>6 DEF CursorHas, StreamHas
    <3>2. ahead.handle # h
      <4>1. ahead.handle = h => h # NoHandle
        BY <2>1, Constants
      <4>2. ahead.handle # NoHandle => ahead.running \in Blobs /\ AheadHas(ahead.running, ahead.handle)
        BY <1>2, Known
      <4>3. \A d \in Blobs : ~AheadHas(d, h)
        BY <1>5, <2>1, <2>6
      <4> QED
        BY <4>1, <4>2, <4>3
    <3> QED
      BY <1>1, <1>2, <1>4, <2>1, <2>4, <3>1, <3>2, Untouched DEF Cursors, Streams
  <2>9. Kinds'
    BY <1>1, <1>2, <1>4, <2>4 DEF IInv, Kinds
  <2> QED
    BY <1>2, <1>4, <2>7, <2>8, <2>9 DEF IInv
<1>10. CASE ~(h # NoHandle /\ (alive \/ job.kind = "eof"))
  <2>1. open' = open /\ stray' = stray
    BY <1>1, <1>10
  <2>2. Kept'
    <3>1. CASE h = NoHandle
      <4>1. \A g \in Handles : g # h
        BY <3>1, Constants
      <4> QED
        BY <1>1, <1>2, <1>5, <1>7, <1>8, <2>1, <4>1, StillKept
    <3>2. CASE h # NoHandle
      <4>1. ~alive /\ ~alive' /\ chain' # <<>>
        BY <1>1, <1>2, <1>10, <3>2 DEF Live
      <4>2. \A d \in Blobs, g \in Handles : KeptFits(d, g)'
        BY <1>2, <1>5, <1>8, <2>1 DEF KeptFits
      <4> QED
        BY <1>8, <2>1, <4>1, <4>2 DEF Kept, OwnedFits
    <3> QED
      BY <3>1, <3>2
  <2>3. Cursors' /\ Streams' /\ Entries'
    BY <1>1, <1>2, <1>4, <2>1, OthersFit DEF Cursors, Streams
  <2>4. Kinds'
    BY <1>1, <1>2, <1>4, <2>1 DEF IInv, Kinds
  <2> QED
    BY <1>2, <1>4, <2>2, <2>3, <2>4 DEF IInv
<1> QED
  BY <1>9, <1>10

\* A stream that fails, and is destroyed.
LEMMA FinishedIs ==
    ASSUME NEW s \in StreamKind
    PROVE  LET t == [s EXCEPT !.finished = TRUE]
           IN /\ t \in StreamKind /\ t.finished = TRUE /\ t.on = s.on /\ t.lead = s.lead /\ t.handle = s.handle
              /\ t.pulling = s.pulling /\ t.given = s.given /\ t.ended = s.ended /\ (s.finished => t = s)
BY DEF StreamKind

\* The invariant is kept when the server refuses: a fetch gives up, and a stream closes
\* its handle.
LEMMA Fails_IInv ==
    ASSUME IInv, Fails
    PROVE  IInv'
<1> SUFFICES ASSUME NEW c, c = job.who, NEW b, b = job.b PROVE IInv'
  OBVIOUS
<1>1. /\ busy # "no" \/ (chain # <<>> /\ job.kind = "pull" /\ ~alive /\ ~stream[b].finished)
      /\ blob' = blob /\ ahead' = ahead /\ inline' = inline /\ rows' = rows /\ alive' = alive /\ open' = open
      /\ stray' = stray /\ calls' = calls
  BY DEF Fails, Running
<1>2. chain # <<>> /\ job.kind \in {"head", "buffer", "prefetch", "pull", "slice"}
  BY <1>1 DEF IInv, BusyFits, Kinds
<1>3. job \in Jobs /\ JobFits(job) /\ \A y \in Jobs : y # job => ~Alike(y, job)
  BY <1>2, JobTypes, OneOf DEF IInv, JobsFit
<1>4. CASE job.kind \in {"head", "buffer", "prefetch"}
  <2>1. call' = [call EXCEPT ![c] = NoCall] /\ Ends(<<>>) /\ stream' = stream
    BY <1>4 DEF Fails, Throws
  <2>2. /\ chain' \in Seq(JobKind) /\ Line' /\ Jobs' = Jobs \ {job} /\ busy' = "no" /\ BusyFits'
        /\ Live /\ Live' /\ (\A b1 : SliceFirst(b1) => SliceFirst(b1)')
        /\ \A y \in Jobs' \cup Jobs : y.kind \in KeeperJobs => y \in Jobs' /\ y \in Jobs
    BY <1>1, <1>2, <1>4, <2>1, Ended DEF KeeperJobs
  <2>3. NoCall.pc = "idle" /\ NoCall.op = "none" /\ NoCall \in CallKind
    BY NewKinds DEF NoCall
  <2>4. /\ JobsFit' /\ AheadFits' /\ Abandons' /\ Tracked' /\ Exclusive'
        /\ call' \in [Callers -> CallKind] /\ call'[c] = NoCall
        /\ (\A d \in Callers : d # c => CallFits(d)') /\ (\A b1 : Claimants(b1)' = Claimants(b1))
    BY <1>1, <1>2, <1>4, <2>1, <2>3, Settling DEF Calls
  <2>5. CallsFit'
    <3>1. CallFits(c)'
      BY <2>3, <2>4 DEF CallFits
    <3> QED
      BY <2>4, <3>1 DEF CallsFit
  <2>6. Kinds'
    BY <1>1, <2>1, <2>2, <2>4 DEF IInv, Kinds
  <2>7. Cursors' /\ Streams' /\ Entries'
    BY <1>1, <2>1, <2>2, <2>4, OthersFit DEF Cursors, Streams
  <2>8. Kept'
    BY <1>1, <2>1, <2>2, NothingKept
  <2> QED
    BY <2>2, <2>4, <2>5, <2>6, <2>7, <2>8 DEF IInv
<1>5. CASE job.kind = "slice"
  <2> DEFINE j == Job("giveUp", b, Nobody)
  <2>1. Ends(<<j>>) /\ call' = call /\ stream' = stream
    BY <1>5 DEF Fails
  <2>2. b \in Blobs /\ alive /\ ahead.running = b /\ ahead.entry[b].state = "fetching"
    BY <1>3, <1>5 DEF IInv, AheadFits, Fetches
  <2>3. j \in JobKind /\ j.kind = "giveUp" /\ j.b = b
    BY <2>2, JobIs DEF JobKinds, Fetches
  <2> HIDE DEF j
  <2>4. \A x \in Jobs : x # job => ~Alike(x, j)
    BY <1>3, <1>5, <2>3 DEF Alike, Fetches, Calls
  <2>5. /\ chain' \in Seq(JobKind) /\ Line' /\ Jobs' = (Jobs \ {job}) \cup {j} /\ busy' = "no" /\ BusyFits'
        /\ Live /\ Live' /\ \A b1 : SliceFirst(b1) => SliceFirst(b1)'
    BY <1>1, <1>2, <2>1, <2>2, <2>3, <2>4, Followed
  <2>6. Kinds'
    BY <1>1, <2>1, <2>5 DEF IInv, Kinds
  <2>7. JobsFit'
    <3> SUFFICES ASSUME NEW y \in Jobs' PROVE JobFits(y)'
      BY DEF JobsFit
    <3>1. CASE y = j
      BY <2>3, <3>1 DEF JobFits, Calls
    <3>2. CASE y \in Jobs
      BY <1>1, <2>1, <3>2 DEF IInv, JobsFit, JobFits
    <3> QED
      BY <2>5, <3>1, <3>2
  <2>8. AheadFits'
    BY <1>1, <2>2, <2>3, <2>5 DEF IInv, AheadFits
  <2>9. Kept'
    <3>1. \A y \in Jobs' \cup Jobs : y.kind \in KeeperJobs => y \in Jobs' /\ y \in Jobs
      BY <1>5, <2>3, <2>5 DEF KeeperJobs
    <3> QED
      BY <1>1, <2>1, <2>5, <3>1, NothingKept
  <2>10. Cursors' /\ Streams' /\ Entries' /\ Abandons' /\ Tracked' /\ CallsFit' /\ Exclusive'
    BY <1>1, <2>1, <2>5, Frames
  <2> QED
    BY <2>5, <2>6, <2>7, <2>8, <2>9, <2>10 DEF IInv
<1>6. CASE job.kind = "pull"
  <2> DEFINE t == [stream[b] EXCEPT !.finished = TRUE]
  <2>1. b \in Blobs /\ stream[b].on /\ stream \in [Blobs -> StreamKind] /\ StreamFits(b)
    BY <1>3, <1>6 DEF JobFits, IInv, Kinds, Streams
  <2>2. /\ stream' = [stream EXCEPT ![b] = t] /\ call' = call
        /\ Ends(IF stream[b].finished THEN <<>> ELSE <<Job("destroy", b, Nobody)>>)
    BY <1>6 DEF Fails, Destroys
  <2>3. /\ t \in StreamKind /\ t.finished = TRUE /\ t.on = stream[b].on /\ t.lead = stream[b].lead /\ t.handle = stream[b].handle
        /\ t.pulling = stream[b].pulling /\ t.given = stream[b].given /\ t.ended = stream[b].ended /\ (stream[b].finished => t = stream[b])
    BY <2>1, FinishedIs
  <2> HIDE DEF t
  <2>4. stream' \in [Blobs -> StreamKind] /\ stream'[b] = t /\ \A d \in Blobs : d # b => stream'[d] = stream[d]
    BY <2>1, <2>2, <2>3
  <2>5. CASE stream[b].finished
    <3>1. stream' = stream /\ Ends(<<>>)
      BY <2>1, <2>2, <2>3, <2>5
    <3>2. /\ chain' \in Seq(JobKind) /\ Line' /\ Jobs' = Jobs \ {job} /\ busy' = "no" /\ BusyFits'
          /\ Live /\ Live' /\ (\A b1 : SliceFirst(b1) => SliceFirst(b1)')
          /\ \A y \in Jobs' \cup Jobs : y.kind \in KeeperJobs => y \in Jobs' /\ y \in Jobs
      BY <1>1, <1>2, <1>6, <3>1, Ended DEF KeeperJobs
    <3>3. Kinds'
      BY <1>1, <2>2, <3>1, <3>2 DEF IInv, Kinds
    <3>4. Kept'
      BY <1>1, <3>1, <3>2, NothingKept
    <3>5. JobsFit' /\ Cursors' /\ Streams' /\ AheadFits' /\ Entries' /\ Abandons' /\ Tracked' /\ CallsFit' /\ Exclusive'
      BY <1>1, <2>2, <3>1, <3>2, Frames
    <3> QED
      BY <3>2, <3>3, <3>4, <3>5 DEF IInv
  <2>6. CASE ~stream[b].finished
    <3> DEFINE j == Job("destroy", b, Nobody)
    <3>1. Ends(<<j>>)
      BY <2>2, <2>6
    <3>2. alive
      BY <2>1, <2>6 DEF StreamFits, IInv, Kinds
    <3>3. j \in JobKind /\ j.kind = "destroy" /\ j.b = b
      BY <2>1, JobIs DEF JobKinds
    <3> HIDE DEF j
    <3>4. \A x \in Jobs : ~(x.kind \in {"destroy", "eof"} /\ x.b = b)
      BY <2>6 DEF IInv, JobsFit, JobFits
    <3>5. \A x \in Jobs : x # job => ~Alike(x, j)
      BY <3>3, <3>4 DEF Alike, Fetches, Calls
    <3>6. /\ chain' \in Seq(JobKind) /\ Line' /\ Jobs' = (Jobs \ {job}) \cup {j} /\ busy' = "no" /\ BusyFits'
          /\ Live /\ Live' /\ \A b1 : SliceFirst(b1) => SliceFirst(b1)'
      BY <1>1, <1>2, <3>1, <3>2, <3>3, <3>5, Followed
    <3>7. \A d \in Blobs : /\ stream'[d].on = stream[d].on /\ stream'[d].lead = stream[d].lead /\ stream'[d].handle = stream[d].handle
                           /\ (stream[d].finished => stream'[d].finished) /\ stream'[d].pulling = stream[d].pulling
                           /\ stream'[d].given = stream[d].given /\ stream'[d].ended = stream[d].ended
      BY <2>3, <2>4
    <3>8. Kinds'
      BY <1>1, <2>2, <2>4, <3>6 DEF IInv, Kinds
    <3>9. JobsFit'
      <4> SUFFICES ASSUME NEW y \in Jobs' PROVE JobFits(y)'
        BY DEF JobsFit
      <4>1. CASE y = j
        <5>1. ~stream[b].ended
          BY <2>1, <2>6 DEF StreamFits
        <5> QED
          BY <2>1, <2>3, <2>4, <3>3, <4>1, <5>1 DEF JobFits, Calls
      <4>2. CASE y \in Jobs
        <5>1. JobFits(y)
          BY <4>2 DEF IInv, JobsFit
        <5> QED
          BY <1>1, <2>2, <3>7, <5>1 DEF JobFits
      <4> QED
        BY <3>6, <4>1, <4>2
    <3>10. Streams'
      <4>1. StreamFits(b)'
        BY <1>1, <2>1, <2>3, <2>4, <2>6 DEF StreamFits
      <4>2. ASSUME NEW d \in Blobs, d # b PROVE StreamFits(d)'
        BY <1>1, <2>4, <3>6, <4>2, OthersFit
      <4> QED
        BY <4>1, <4>2 DEF Streams
    <3>11. AheadFits'
      <4>1. \A y \in Jobs' : y.kind \in Fetches => y \in Jobs
        BY <3>3, <3>6 DEF Fetches
      <4> QED
        BY <1>1, <4>1, Frames
    <3>12. Tracked'
      BY <1>1, <2>2, <3>7 DEF IInv, Tracked, TrackedFits, Quiet
    <3>13. Kept'
      <4>1. \A y \in Jobs' \cup Jobs : y.kind = "close" => y \in Jobs' /\ y \in Jobs
        BY <1>6, <3>3, <3>6
      <4>2. \A y \in Jobs' \cup Jobs : y.kind = "eof" => y \in Jobs' /\ y \in Jobs
        BY <1>6, <3>3, <3>6
      <4>3. \A y \in Jobs' \cup Jobs : y.kind = "destroy" /\ y.b # b => y \in Jobs' /\ y \in Jobs
        BY <1>6, <3>3, <3>6
      <4>4. j \in Jobs'
        BY <3>6
      <4>5. \A d \in Blobs, g \in Handles : CursorHas(d, g)' <=> CursorHas(d, g)
        <5> HIDE DEF Jobs
        <5> QED
          BY <1>1, <4>1 DEF CursorHas
      <4>6. \A d \in Blobs, g \in Handles : StreamHas(d, g)' <=> StreamHas(d, g)
        <5> SUFFICES ASSUME NEW d \in Blobs, NEW g \in Handles PROVE StreamHas(d, g)' <=> StreamHas(d, g)
          OBVIOUS
        <5> HIDE DEF Jobs
        <5>1. CASE d = b
          <6>1. HasJob("destroy", b)'
            BY <3>3, <4>4 DEF HasJob
          <6>2. (\E y \in Jobs' : y.kind = "eof" /\ y.b = d /\ y.h = g) <=> (\E y \in Jobs : y.kind = "eof" /\ y.b = d /\ y.h = g)
            BY <4>2
          <6> HIDE DEF HasJob
          <6> QED
            BY <2>3, <2>4, <2>6, <5>1, <6>1, <6>2 DEF StreamHas
        <5>2. CASE d # b
          <6>1. stream'[d] = stream[d]
            BY <2>4, <5>2
          <6>2. HasJob("destroy", d)' <=> HasJob("destroy", d)
            BY <4>3, <5>2 DEF HasJob
          <6>3. (\E y \in Jobs' : y.kind = "eof" /\ y.b = d /\ y.h = g) <=> (\E y \in Jobs : y.kind = "eof" /\ y.b = d /\ y.h = g)
            BY <4>2
          <6> HIDE DEF HasJob
          <6> QED
            BY <6>1, <6>2, <6>3 DEF StreamHas
        <5> QED
          BY <5>1, <5>2
      <4>7. \A d \in Blobs, g \in Handles : AheadHas(d, g)' <=> AheadHas(d, g)
        BY <1>1 DEF AheadHas
      <4>8. Kept /\ DOMAIN open \subseteq Handles
        BY DEF IInv, Kinds
      <4> QED
        BY <1>1, <3>6, <4>5, <4>6, <4>7, <4>8, StillKept
    <3>14. Cursors' /\ Entries' /\ Abandons' /\ CallsFit' /\ Exclusive'
      BY <1>1, <2>2, <3>6, Frames
    <3> QED
      BY <3>6, <3>8, <3>9, <3>10, <3>11, <3>12, <3>13, <3>14 DEF IInv
  <2> QED
    BY <2>5, <2>6
<1> QED
  BY <1>2, <1>4, <1>5, <1>6

\* A window moves the handle it is read with.
LEMMA MovedIs ==
    ASSUME NEW h \in DOMAIN open, open[h] \in OpenKind, NEW w, open[h].at + Len(w.data) \in 1..(Size + 1)
    PROVE  LET o == Moved(h, w)
           IN /\ DOMAIN o = DOMAIN open /\ o[h].at = open[h].at + Len(w.data) /\ o[h].b = open[h].b /\ o[h] \in OpenKind
              /\ \A g \in DOMAIN open : g # h => o[g] = open[g]
<1> DEFINE y == [open[h] EXCEPT !.at = open[h].at + Len(w.data)]
<1>1. y \in OpenKind /\ y.at = open[h].at + Len(w.data) /\ y.b = open[h].b
  BY DEF OpenKind
<1>2. Moved(h, w) = [open EXCEPT ![h] = y]
  BY DEF Moved
<1> HIDE DEF y
<1> QED
  BY <1>1, <1>2

\* The invariant is kept when a window of a stream comes in. One read to its end leaves
\* the handle to the job that closes it.
LEMMA AnswerPull_IInv ==
    ASSUME IInv, AnswerPull
    PROVE  IInv'
<1> SUFFICES ASSUME NEW b, b = job.b, NEW h, h = job.h, NEW w, w = Window(h, 1) PROVE IInv'
  OBVIOUS
<1> DEFINE s == stream[b]
           t == [s EXCEPT !.given = s.given \o w.data, !.pulling = FALSE, !.finished = w.eof, !.ended = w.eof]
           j == [Job("eof", b, Nobody) EXCEPT !.h = h]
<1>1. /\ busy = "read" /\ job.kind = "pull" /\ open' = Moved(h, w)
      /\ (IF s.finished THEN stream' = stream /\ Ends(<<>>)
          ELSE stream' = [stream EXCEPT ![b] = t] /\ Ends(IF w.eof THEN <<j>> ELSE <<>>))
      /\ blob' = blob /\ call' = call /\ ahead' = ahead /\ inline' = inline /\ rows' = rows /\ alive' = alive
      /\ stray' = stray /\ calls' = calls
  BY DEF AnswerPull
<1>2. /\ chain # <<>> /\ s.handle = h /\ h # NoHandle /\ (s.finished => HasJob("destroy", b))
  BY <1>1 DEF IInv, BusyFits
<1>3. job \in Jobs /\ job \in JobKind /\ JobFits(job) /\ (\A y \in Jobs : y # job => ~Alike(y, job)) /\ Live
  BY <1>2, JobTypes, OneOf DEF IInv, JobsFit, Live
<1>4. b \in Blobs /\ s.on /\ s.lead = <<>> /\ s.pulling /\ h \in Handles
  BY <1>1, <1>2, <1>3 DEF JobFits, JobKind
<1>5. stream \in [Blobs -> StreamKind] /\ s \in StreamKind /\ StreamFits(b)
  BY <1>4 DEF IInv, Kinds, Streams
<1>6. StreamHas(b, h)
  BY <1>2 DEF StreamHas
<1>7. /\ h \in DOMAIN open /\ open[h].b = b /\ open[h] \in OpenKind
      /\ (\A d \in Blobs : d # b => ~CursorHas(d, h) /\ ~StreamHas(d, h) /\ ~AheadHas(d, h))
      /\ ~CursorHas(b, h) /\ ~AheadHas(b, h)
  BY <1>3, <1>4, <1>6, KeeperOf
<1> DEFINE m == open[h].at - 1
           k == Len(w.data)
<1>8. /\ m \in 0..Size /\ k \in Nat /\ m + k \in 0..Size /\ w.eof \in BOOLEAN /\ Segs(m) \o w.data = Segs(m + k)
      /\ open[h].at + k = m + k + 1 /\ (w.eof => m + k = Size)
  <2>1. open[h].at \in 1..(Size + 1)
    BY <1>7 DEF OpenKind
  <2> QED
    BY ZenonT(30), <2>1, WindowRight
<1>9. open[h].at + k \in 1..(Size + 1)
  BY <1>8, Constants
<1>10. /\ DOMAIN open' = DOMAIN open /\ open'[h].at = m + k + 1 /\ open'[h].b = open[h].b /\ open'[h] \in OpenKind
       /\ \A g \in DOMAIN open : g # h => open'[g] = open[g]
  BY <1>1, <1>7, <1>8, <1>9, MovedIs
<1> HIDE DEF m, k
<1>11. /\ \A d \in Blobs : blob[d].handle # h /\ (d # b => stream[d].handle # h \/ stream[d].finished)
       /\ ahead.handle # h
  <2>1. ahead.handle = h => \E d \in Blobs : AheadHas(d, h)
    BY <1>2, <1>3, Known
  <2> QED
    BY <1>7, <2>1 DEF CursorHas, StreamHas
<1>12. \A b1 : Claimants(b1)' = Claimants(b1)
  BY <1>1 DEF Claimants
<1>13. /\ Cursors' /\ Entries' /\ (\A d \in Blobs : stream'[d] = stream[d] /\ (d # b \/ s.finished) => StreamFits(d)')
  BY <1>1, <1>3, <1>4, <1>10, <1>11, <1>12, Untouched DEF Cursors
<1>14. Kept /\ DOMAIN open \subseteq Handles /\ (\A g \in DOMAIN open : open[g] \in OpenKind)
  BY DEF IInv, Kinds
<1>15. /\ (\A g \in DOMAIN open' : open'[g] \in OpenKind) /\ (\A g \in DOMAIN open : open'[g].b = open[g].b)
  BY <1>1, <1>10, <1>14 DEF CursorHas
<1>16. CASE s.finished
  <2>1. stream' = stream /\ Ends(<<>>)
    BY <1>1, <1>16
  <2>2. /\ chain' \in Seq(JobKind) /\ Line' /\ Jobs' = Jobs \ {job} /\ busy' = "no" /\ BusyFits'
        /\ Live' /\ (\A b1 : SliceFirst(b1) => SliceFirst(b1)')
        /\ \A y \in Jobs' \cup Jobs : y.kind \in KeeperJobs => y \in Jobs' /\ y \in Jobs
    BY <1>1, <1>2, <2>1, Ended DEF KeeperJobs
  <2>3. Kinds'
    BY <1>1, <1>10, <1>14, <1>15, <2>1, <2>2 DEF IInv, Kinds
  <2>4. Streams'
    BY <1>13, <1>16, <2>1 DEF Streams
  <2>5. Kept'
    <3>1. \A d \in Blobs, g \in Handles : (CursorHas(d, g)' <=> CursorHas(d, g)) /\ (StreamHas(d, g)' <=> StreamHas(d, g))
      BY <1>1, <2>1, <2>2, SameJobs
    <3>2. \A d \in Blobs, g \in Handles : AheadHas(d, g)' <=> AheadHas(d, g)
      BY <1>1 DEF AheadHas
    <3> QED
      BY <1>1, <1>3, <1>10, <1>14, <1>15, <2>2, <3>1, <3>2, StillKept
  <2>6. JobsFit' /\ AheadFits' /\ Abandons' /\ Tracked' /\ CallsFit' /\ Exclusive'
    BY <1>1, <2>1, <2>2, Frames
  <2> QED
    BY <1>13, <2>2, <2>3, <2>4, <2>5, <2>6 DEF IInv
<1>17. CASE ~s.finished
  <2>1. stream' = [stream EXCEPT ![b] = t] /\ Ends(IF w.eof THEN <<j>> ELSE <<>>)
    BY <1>1, <1>17
  <2>2. s.given = Segs(m) /\ m = Len(s.given)
    <3>1. open[h].at = Len(s.given) + Len(s.lead) + 1 /\ Len(s.lead) = 0 /\ s.given = Segs(Len(s.given)) /\ Len(s.given) \in 0..Size
      BY <1>2, <1>3, <1>4, <1>5, <1>17, DataLen, EmptySeq DEF StreamFits, Given, StreamKind
    <3>2. Len(s.given) \in Nat
      BY <3>1, Constants
    <3>3. m = Len(s.given)
      BY <3>1, <3>2 DEF m
    <3> QED
      BY <3>1, <3>3
  <2>3. s.given \o w.data = Segs(m + k) /\ Segs(m + k) \in Datas /\ Len(Segs(m + k)) = m + k /\ (w.eof => Segs(m + k) = Content)
    BY <1>8, <2>2, SegmentsOf, Whole0
  <2>4. /\ t \in StreamKind /\ t.on = s.on /\ t.lead = <<>> /\ t.handle = h /\ t.finished = w.eof /\ t.ended = w.eof
        /\ t.pulling = FALSE /\ t.given = Segs(m + k)
    <3> DEFINE t1 == [s EXCEPT !.given = s.given \o w.data]
               t2 == [t1 EXCEPT !.pulling = FALSE]
               t3 == [t2 EXCEPT !.finished = w.eof]
    <3>1. t1 \in StreamKind /\ t1.given = Segs(m + k) /\ t1.on = s.on /\ t1.lead = s.lead /\ t1.handle = s.handle
      BY <1>5, <2>3 DEF StreamKind
    <3>2. t = [t3 EXCEPT !.ended = w.eof]
      OBVIOUS
    <3> HIDE DEF t1, t
    <3>3. t2 \in StreamKind /\ t2.given = Segs(m + k) /\ t2.on = s.on /\ t2.lead = s.lead /\ t2.handle = s.handle /\ t2.pulling = FALSE
      BY <3>1 DEF StreamKind
    <3> HIDE DEF t2
    <3>4. /\ t3 \in StreamKind /\ t3.given = Segs(m + k) /\ t3.on = s.on /\ t3.lead = s.lead /\ t3.handle = s.handle
          /\ t3.pulling = FALSE /\ t3.finished = w.eof
      BY <1>8, <3>3 DEF StreamKind
    <3> HIDE DEF t3
    <3> QED
      BY <1>2, <1>4, <1>8, <3>2, <3>4 DEF StreamKind
  <2>5. alive /\ ~HasJob("destroy", b) /\ \A y \in Jobs : ~(y.kind \in {"destroy", "eof"} /\ y.b = b)
    <3>1. alive
      BY <1>4, <1>5, <1>17 DEF StreamFits, IInv, Kinds
    <3>2. \A y \in Jobs : ~(y.kind \in {"destroy", "eof"} /\ y.b = b)
      BY <1>17 DEF IInv, JobsFit, JobFits
    <3> QED
      BY <3>1, <3>2 DEF HasJob
  <2>6. j \in JobKind /\ j.kind = "eof" /\ j.b = b /\ j.h = h
    <3>1. /\ Job("eof", b, Nobody) \in JobKind /\ Job("eof", b, Nobody).kind = "eof" /\ Job("eof", b, Nobody).b = b
      <4>1. "eof" \in JobKinds /\ b \in Blobs \cup {Nobody} /\ Nobody \in Callers \cup {Nobody}
        BY <1>4 DEF JobKinds
      <4> QED
        BY <4>1, JobIs
    <3> QED
      BY <1>4, <3>1 DEF JobKind
  <2> HIDE DEF t, j
  <2>7. /\ chain' \in Seq(JobKind) /\ Line' /\ busy' = "no" /\ BusyFits' /\ Live'
        /\ Jobs' = (Jobs \ {job}) \cup (IF w.eof THEN {j} ELSE {})
        /\ (\A b1 : SliceFirst(b1) => SliceFirst(b1)')
    <3>1. CASE w.eof
      <4>1. \A x \in Jobs : x # job => ~Alike(x, j)
        BY <2>5, <2>6 DEF Alike, Calls, Fetches
      <4>2. Ends(<<j>>)
        BY <2>1, <3>1
      <4> QED
        BY <1>1, <1>2, <2>5, <2>6, <3>1, <4>1, <4>2, Followed
    <3>2. CASE ~w.eof
      BY <1>1, <1>2, <2>1, <3>2, Ended
    <3> QED
      BY <3>1, <3>2
  <2>8. stream' \in [Blobs -> StreamKind] /\ stream'[b] = t /\ \A d \in Blobs : d # b => stream'[d] = stream[d]
    BY <1>4, <1>5, <2>1, <2>4
  <2>9. \A y \in Jobs' : (y = j /\ w.eof) \/ (y \in Jobs /\ (y.kind \in {"pull", "destroy", "eof"} => y.b # b))
    <3>1. \A y \in Jobs : y # job /\ y.kind = "pull" => y.b # b
      BY <1>1, <1>3 DEF Alike, Calls, Fetches
    <3> QED
      BY <2>5, <2>7, <3>1
  <2>10. Kinds'
    BY <1>1, <1>10, <1>14, <1>15, <2>7, <2>8 DEF IInv, Kinds
  <2>11. JobsFit'
    <3> SUFFICES ASSUME NEW y \in Jobs' PROVE JobFits(y)'
      BY DEF JobsFit
    <3>1. CASE y = j /\ w.eof
      BY <1>4, <2>4, <2>6, <2>8, <3>1 DEF JobFits, Calls
    <3>2. CASE y \in Jobs /\ (y.kind \in {"pull", "destroy", "eof"} => y.b # b)
      <4>1. JobFits(y)
        BY <3>2 DEF IInv, JobsFit
      <4> QED
        BY <1>1, <2>8, <3>2, <4>1 DEF JobFits
    <3> QED
      BY <2>9, <3>1, <3>2
  <2>12. Streams'
    <3>1. StreamFits(b)'
      <4>1. Given(t) = m + k
        BY <1>8, <2>3, <2>4, EmptySeq, Constants DEF Given
      <4>2. alive' /\ t.on /\ (t.ended => t.finished /\ t.given = Content)
        BY <1>1, <1>4, <2>3, <2>4, <2>5
      <4> QED
        BY <1>2, <1>10, <2>4, <2>8, <4>1, <4>2 DEF StreamFits
    <3> QED
      BY <1>13, <2>8, <3>1 DEF Streams
  <2>13. AheadFits'
    <3>1. \A y \in Jobs' : y.kind \in Fetches => y \in Jobs
      BY <2>6, <2>9 DEF Fetches
    <3> QED
      BY <1>1, <3>1, Frames
  <2>14. Tracked'
    <3>1. \A d \in Blobs : stream'[d].on = stream[d].on
      BY <2>4, <2>8
    <3> QED
      BY <1>1, <3>1 DEF IInv, Tracked, TrackedFits, Quiet
  <2>15. Kept'
    <3>1. \A d \in Blobs, g \in Handles : CursorHas(d, g)' <=> CursorHas(d, g)
      <4>1. \A y \in Jobs' \cup Jobs : y.kind = "close" => y \in Jobs' /\ y \in Jobs
        BY <1>1, <2>6, <2>7
      <4> HIDE DEF Jobs
      <4> QED
        BY <1>1, <4>1 DEF CursorHas
    <3>2. ASSUME NEW d \in Blobs, NEW g \in Handles PROVE StreamHas(d, g)' <=> StreamHas(d, g)
      <4>1. CASE d = b
        <5>1. StreamHas(b, g) <=> g = h
          BY <1>2, <1>17, <2>5 DEF StreamHas
        <5>2. CASE w.eof
          <6>1. \A y \in Jobs' : y.kind = "eof" /\ y.b = b => y = j
            BY <2>9
          <6>2. ~HasJob("destroy", b)'
            BY <2>6, <2>9 DEF HasJob
          <6>3. j \in Jobs'
            BY <2>7, <5>2
          <6>4. (\E y \in Jobs' : y.kind = "eof" /\ y.b = b /\ y.h = g) <=> g = h
            BY <2>6, <6>1, <6>3
          <6> HIDE DEF HasJob
          <6> QED
            BY <2>4, <2>8, <4>1, <5>1, <5>2, <6>2, <6>4 DEF StreamHas
        <5>3. CASE ~w.eof
          <6>1. \A y \in Jobs' : ~(y.kind = "eof" /\ y.b = b)
            BY <2>9, <5>3
          <6> QED
            BY <1>8, <2>4, <2>8, <4>1, <5>1, <5>3, <6>1 DEF StreamHas
        <5> QED
          BY <5>2, <5>3
      <4>2. CASE d # b
        <5>1. \A y \in Jobs' \cup Jobs : y.b = d /\ y.kind \in {"destroy", "eof"} => y \in Jobs' /\ y \in Jobs
          BY <1>1, <2>6, <2>7, <4>2
        <5>2. stream'[d] = stream[d]
          BY <2>8, <4>2
        <5>3. HasJob("destroy", d)' <=> HasJob("destroy", d)
          <6> HIDE DEF Jobs
          <6> QED
            BY <5>1 DEF HasJob
        <5>4. (\E y \in Jobs' : y.kind = "eof" /\ y.b = d /\ y.h = g) <=> (\E y \in Jobs : y.kind = "eof" /\ y.b = d /\ y.h = g)
          BY <5>1
        <5> HIDE DEF Jobs, HasJob
        <5> QED
          BY <5>2, <5>3, <5>4 DEF StreamHas
      <4> QED
        BY <4>1, <4>2
    <3>3. \A d \in Blobs, g \in Handles : AheadHas(d, g)' <=> AheadHas(d, g)
      BY <1>1 DEF AheadHas
    <3> QED
      BY <1>1, <1>3, <1>10, <1>14, <1>15, <2>7, <3>1, <3>2, <3>3, StillKept
  <2>16. Abandons' /\ CallsFit' /\ Exclusive'
    BY <1>1, <2>7, Frames
  <2> QED
    BY <1>13, <2>7, <2>10, <2>11, <2>12, <2>13, <2>14, <2>15, <2>16 DEF IInv
<1> QED
  BY <1>16, <1>17

\* Enough of a blob's beginning is as good as the blob.
LEMMA FirstEnough ==
    ASSUME NEW n \in Nat, NEW l \in 0..Size, l >= n \/ l = Size
    PROVE  FirstOf(n, Segs(l)) = FirstOf(n, Content)
<1>1. Size \in Nat /\ l \in Nat /\ Size \in 0..Size
  BY Constants
<1>2. FirstOf(n, Segs(l)) = Segs(IF n < l THEN n ELSE l) /\ FirstOf(n, Content) = Segs(IF n < Size THEN n ELSE Size)
  BY <1>1, FirstSegs, Whole0
<1> DEFINE p == IF n < l THEN n ELSE l
           q == IF n < Size THEN n ELSE Size
<1>3. p = q
  BY <1>1
<1>4. FirstOf(n, Segs(l)) = Segs(p) /\ FirstOf(n, Content) = Segs(q)
  BY <1>2
<1> HIDE DEF p, q
<1> QED
  BY <1>3, <1>4

\* A cursor that a window has come in for.
WithWindow(s, x, w) == s = [Resume(x, w) EXCEPT !.handle = IF w.eof THEN NoHandle ELSE @]

GoesOn(x, w, data, size) ==
    /\ x \in BlobKind /\ w.eof \in BOOLEAN /\ data \in Datas /\ size \in 0..Size
    /\ x.consumed \o w.data = data /\ x.bytes + Len(w.data) = size

WentOn(s, x, w, data, size) ==
    /\ s \in BlobKind /\ s.has = x.has /\ s.consumed = data /\ s.bytes = size /\ s.eof = w.eof
    /\ s.handle = IF w.eof THEN NoHandle ELSE x.handle

\* What the window makes of the cursor.
LEMMA ResumedIs ==
    ASSUME NEW x, NEW w, NEW data, NEW size, NEW s, GoesOn(x, w, data, size), WithWindow(s, x, w)
    PROVE  WentOn(s, x, w, data, size)
<1> DEFINE u == [x EXCEPT !.consumed = data]
           v == [u EXCEPT !.bytes = size]
           z == [v EXCEPT !.eof = w.eof]
           r == [z EXCEPT !.handle = IF w.eof THEN NoHandle ELSE z.handle]
<1>0. /\ x \in BlobKind /\ w.eof \in BOOLEAN /\ data \in Datas /\ size \in 0..Size
      /\ x.consumed \o w.data = data /\ x.bytes + Len(w.data) = size
  BY DEF GoesOn
<1>1. u \in BlobKind /\ u.has = x.has /\ u.cached = x.cached /\ u.consumed = data /\ u.bytes = x.bytes /\ u.handle = x.handle
  BY <1>0 DEF BlobKind
<1>2. Resume(x, w) = z
  BY <1>0 DEF Resume
<1> HIDE DEF u
<1>3. /\ v \in BlobKind /\ v.has = x.has /\ v.cached = x.cached /\ v.consumed = data /\ v.bytes = size
      /\ v.handle = x.handle
  BY <1>0, <1>1 DEF BlobKind
<1> HIDE DEF v
<1>4. /\ z \in BlobKind /\ z.has = x.has /\ z.cached = x.cached /\ z.consumed = data /\ z.bytes = size
      /\ z.eof = w.eof /\ z.handle = x.handle
  BY <1>0, <1>3 DEF BlobKind
<1> HIDE DEF z
<1>5. /\ r \in BlobKind /\ r.has = x.has /\ r.cached = x.cached /\ r.consumed = data /\ r.bytes = size
      /\ r.eof = w.eof /\ r.handle = IF w.eof THEN NoHandle ELSE x.handle
  BY <1>0, <1>4 DEF BlobKind
<1>6. s = r
  BY <1>2 DEF WithWindow
<1> HIDE DEF r
<1> QED
  BY <1>5, <1>6 DEF WentOn

\* What is left of a cursor that a job has done with.
ReadTo(x, data, size, done, h) ==
    /\ x \in BlobKind /\ x.has = done /\ x.eof = done /\ x.bytes = size /\ x.handle = h
    /\ IF done THEN x.cached = Content /\ h = NoHandle ELSE x.consumed = data

\* The invariant is kept when a window of a cursor comes in.
LEMMA AnswerCursor_IInv ==
    ASSUME IInv, AnswerCursor
    PROVE  IInv'
<1> DEFINE c0 == job.who
           b0 == job.b
           h0 == job.h
           n0 == call[c0].n
           least0 == IF job.kind = "head" THEN n0 - blob[b0].bytes ELSE Span
           sz0 == IF least0 < Span THEN least0 ELSE Span
           w0 == Window(h0, sz0)
           r0 == [Resume(blob[b0], w0) EXCEPT !.handle = IF w0.eof THEN NoHandle ELSE @]
           final == ~(~w0.eof /\ ~(job.kind = "head" /\ r0.bytes >= n0))
<1>a. /\ busy = "read" /\ job.kind \in {"head", "buffer"}
      /\ (w0.eof => Closes(Moved(h0, w0), h0))
      /\ (~w0.eof => open' = Moved(h0, w0) /\ stray' = stray)
      /\ (~final => blob' = [blob EXCEPT ![b0] = r0] /\ call' = call /\ chain' = chain /\ busy' = "no")
      /\ (final => Ends(<<>>))
      /\ (final /\ job.kind = "head" => blob' = [blob EXCEPT ![b0] = Promoted(r0)] /\ Settles(c0, HeadOf(c0, r0)))
      /\ (final /\ job.kind # "head" => /\ blob' = [blob EXCEPT ![b0] = Caches(r0, Concat(r0.consumed, r0.bytes))]
                                        /\ Settles(c0, Concat(r0.consumed, r0.bytes)))
      /\ stream' = stream /\ ahead' = ahead /\ inline' = inline /\ rows' = rows /\ alive' = alive /\ calls' = calls
  BY DEF AnswerCursor
<1>b. r0 = [Resume(blob[b0], w0) EXCEPT !.handle = IF w0.eof THEN NoHandle ELSE @]
  OBVIOUS
<1>c. w0 = Window(h0, sz0) /\ (sz0 = least0 \/ sz0 = Span) /\ (job.kind # "head" => least0 = Span)
      /\ (job.kind = "head" => least0 = n0 - blob[b0].bytes)
  OBVIOUS
<1>d. c0 = job.who /\ b0 = job.b /\ h0 = job.h /\ n0 = call[c0].n /\ (final <=> w0.eof \/ (job.kind = "head" /\ r0.bytes >= n0))
  OBVIOUS
<1> HIDE DEF c0, b0, h0, n0, least0, sz0, w0, r0, final
<1> SUFFICES ASSUME NEW c, c = c0, NEW b, b = b0, NEW h, h = h0, NEW n, n = n0, NEW w, w = w0, NEW r, r = r0, NEW fin, fin = final
             PROVE  IInv'
  OBVIOUS
<1>1. /\ busy = "read" /\ job.kind \in {"head", "buffer"}
      /\ c = job.who /\ b = job.b /\ h = job.h /\ n = call[c].n /\ (fin <=> w.eof \/ (job.kind = "head" /\ r.bytes >= n))
      /\ (w.eof => Closes(Moved(h, w), h))
      /\ (~w.eof => open' = Moved(h, w) /\ stray' = stray)
      /\ (~fin => blob' = [blob EXCEPT ![b] = r] /\ call' = call /\ chain' = chain /\ busy' = "no")
      /\ (fin => Ends(<<>>))
      /\ (fin /\ job.kind = "head" => blob' = [blob EXCEPT ![b] = Promoted(r)] /\ Settles(c, HeadOf(c, r)))
      /\ (fin /\ job.kind # "head" => /\ blob' = [blob EXCEPT ![b] = Caches(r, Concat(r.consumed, r.bytes))]
                                      /\ Settles(c, Concat(r.consumed, r.bytes)))
      /\ stream' = stream /\ ahead' = ahead /\ inline' = inline /\ rows' = rows /\ alive' = alive /\ calls' = calls
  BY <1>a, <1>d
<1>2. /\ chain # <<>> /\ h # NoHandle /\ ~blob[b].has /\ blob[b].handle = h /\ (job.kind = "head" => blob[b].bytes < n)
  BY <1>1 DEF IInv, BusyFits
<1>3. job \in Jobs /\ job \in JobKind /\ JobFits(job) /\ Live
  BY <1>2, JobTypes DEF IInv, JobsFit, Live
<1>4. /\ c \in Callers /\ b \in Blobs /\ h \in Handles /\ call[c].pc = "job" /\ call[c].op = job.kind /\ call[c].group = {b}
      /\ job.kind \in Calls
  BY <1>1, <1>2, <1>3 DEF JobFits, JobKind, Calls
<1>5. blob \in [Blobs -> BlobKind] /\ blob[b] \in BlobKind /\ CursorFits(b) /\ CallFits(c) /\ call[c] \in CallKind
  BY <1>4 DEF IInv, Kinds, Cursors, CallsFit
<1>6. /\ h \in DOMAIN open /\ open[h].b = b /\ open[h] \in OpenKind
      /\ (\A d \in Blobs : d # b => ~CursorHas(d, h) /\ ~StreamHas(d, h) /\ ~AheadHas(d, h))
      /\ ~StreamHas(b, h) /\ ~AheadHas(b, h)
  <2>1. CursorHas(b, h)
    BY <1>2 DEF CursorHas
  <2> QED
    BY <1>3, <1>4, <2>1, KeeperOf
<1> SUFFICES ASSUME NEW m, m = blob[b].bytes, NEW k, k = Len(w.data) PROVE IInv'
  OBVIOUS
<1>7. /\ m \in 0..Size /\ m \in Nat /\ n \in Nat /\ n \in 0..(Size + 1) /\ open[h].at = m + 1 /\ open[h].at - 1 = m
      /\ blob[b].consumed = Segs(m) /\ (job.kind = "buffer" => n = Size + 1) /\ (job.kind = "head" => n \in Heads)
  <2>1. m \in 0..Size /\ n \in 0..(Size + 1) /\ Size \in Nat
    BY <1>1, <1>5, Constants DEF BlobKind, CallKind
  <2>2. open[h].at = m + 1 /\ blob[b].consumed = Segs(m)
    BY <1>2, <1>3, <1>5 DEF CursorFits
  <2>3. (job.kind = "buffer" => n = Size + 1) /\ (job.kind = "head" => n \in Heads)
    BY <1>1, <1>4, <1>5 DEF CallFits
  <2> QED
    BY <2>1, <2>2, <2>3
<1>8. /\ k \in Nat /\ m + k \in 0..Size /\ w.eof \in BOOLEAN /\ Segs(m) \o w.data = Segs(m + k)
      /\ open[h].at + k = m + k + 1 /\ (w.eof => m + k = Size)
  <2>1. sz0 \in Nat /\ w = Window(h, sz0)
    <3>1. Span \in Nat
      BY Constants
    <3>2. job.kind = "head" => n - m \in Nat
      BY <1>2, <1>7
    <3>3. least0 \in Nat
      BY <1>c, <3>1, <3>2
    <3> QED
      BY <1>c, <3>1, <3>3
  <2>2. open[h].at \in 1..(Size + 1)
    BY <1>6 DEF OpenKind
  <2> DEFINE p == open[h].at - 1
  <2> DEFINE v == Window(h, sz0)
             i == Len(v.data)
  <2>5. /\ p \in 0..Size /\ i \in Nat /\ p + i \in 0..Size /\ v.eof \in BOOLEAN /\ Segs(p) \o v.data = Segs(p + i)
        /\ open[h].at + i = p + i + 1 /\ (v.eof => p + i = Size)
    BY <2>1, <2>2, WindowRight
  <2>6. v = w /\ i = k
    BY <2>1
  <2> HIDE DEF v, i
  <2>3. /\ p \in 0..Size /\ k \in Nat /\ p + k \in 0..Size /\ w.eof \in BOOLEAN /\ Segs(p) \o w.data = Segs(p + k)
        /\ open[h].at + k = p + k + 1 /\ (w.eof => p + k = Size)
    BY <2>5, <2>6
  <2>4. p = m
    BY <1>7
  <2> HIDE DEF p
  <2> QED
    BY <2>3, <2>4
<1> SUFFICES ASSUME NEW l, l = m + k, NEW dat, dat = Segs(l) PROVE IInv'
  OBVIOUS
<1>9. l \in 0..Size /\ l \in Nat /\ dat \in Datas /\ Concat(dat, l) = dat /\ (w.eof => l = Size /\ dat = Content)
  <2>1. l \in 0..Size /\ l \in Nat /\ (w.eof => l = Size)
    BY <1>7, <1>8
  <2>2. dat \in Datas
    BY <2>1, SegmentsOf
  <2>3. Concat(dat, l) = dat
    BY <2>1, Together
  <2> QED
    BY <2>1, <2>2, <2>3, Whole0
<1>10. /\ r \in BlobKind /\ ~r.has /\ r.consumed = dat /\ r.bytes = l /\ r.eof = w.eof
       /\ r.handle = IF w.eof THEN NoHandle ELSE h
  <2>1. blob[b].bytes + Len(w.data) = l /\ blob[b].consumed \o w.data = dat
    BY <1>7, <1>8
  <2>2. /\ r \in BlobKind /\ r.has = blob[b].has /\ r.consumed = dat /\ r.bytes = l /\ r.eof = w.eof
        /\ r.handle = IF w.eof THEN NoHandle ELSE blob[b].handle
    <3>1. GoesOn(blob[b], w, dat, l)
      BY <1>5, <1>8, <1>9, <2>1 DEF GoesOn
    <3>2. WithWindow(r, blob[b], w)
      BY <1>b DEF WithWindow
    <3>3. WentOn(r, blob[b], w, dat, l)
      BY <3>1, <3>2, ResumedIs
    <3> QED
      BY <3>3 DEF WentOn
  <2> QED
    BY <1>2, <1>7, <1>8, <2>2
<1>11. /\ DOMAIN Moved(h, w) = DOMAIN open /\ Moved(h, w)[h].at = l + 1 /\ Moved(h, w)[h].b = b /\ Moved(h, w)[h] \in OpenKind
       /\ \A g \in DOMAIN open : g # h => Moved(h, w)[g] = open[g]
  <2>1. open[h].at + Len(w.data) = l + 1 /\ l + 1 \in 1..(Size + 1)
    BY <1>8, <1>9, Constants
  <2> QED
    BY <1>6, <1>8, <2>1, MovedIs
<1>12. Kept /\ DOMAIN open \subseteq Handles /\ (\A g \in DOMAIN open : open[g] \in OpenKind)
  BY DEF IInv, Kinds
<1>13. /\ (\A g \in DOMAIN open : g # h => g \in DOMAIN open' /\ open'[g] = open[g])
       /\ IF w.eof THEN DOMAIN open' = DOMAIN open \ {h} /\ (stray' => stray)
          ELSE DOMAIN open' = DOMAIN open /\ open'[h].at = l + 1 /\ open'[h].b = b /\ open'[h] \in OpenKind /\ stray' = stray
  <2>1. CASE w.eof
    <3>1. Closes(Moved(h, w), h)
      BY <1>1, <2>1
    <3> QED
      BY <1>6, <1>11, <2>1, <3>1 DEF Closes
  <2>2. CASE ~w.eof
    <3>1. open' = Moved(h, w) /\ stray' = stray
      BY <1>1, <2>2
    <3> QED
      BY <1>11, <2>2, <3>1
  <2> QED
    BY <2>1, <2>2
<1>14. /\ (\A d \in Blobs : (d # b => blob[d].handle # h) /\ (stream[d].handle # h \/ stream[d].finished))
       /\ ahead.handle # h
  <2>1. ahead.handle = h => \E d \in Blobs : AheadHas(d, h)
    BY <1>2, <1>3, Known
  <2> QED
    BY <1>6, <2>1 DEF CursorHas, StreamHas
<1>15. \A d \in Callers : b \in call[d].group => d = c \/ (call[d].op = "head" /\ job.kind = "head")
  BY <1>4 DEF IInv, Exclusive
<1>16. \A y \in Jobs : ~(y.kind = "close" /\ y.b = b)
  <2> SUFFICES ASSUME NEW y \in Jobs, y.kind = "close", y.b = b PROVE FALSE
    OBVIOUS
  <2>1. y.who \in Callers /\ call[y.who].op = "close" /\ b \in call[y.who].group
    BY DEF IInv, JobsFit, JobFits, Calls
  <2> QED
    BY <1>1, <1>4, <1>15, <2>1
<1>17. ASSUME NEW z, ReadTo(z, dat, l, w.eof, IF w.eof THEN NoHandle ELSE h), blob' = [blob EXCEPT ![b] = z],
              Line', chain' \in Seq(JobKind), Live', busy' = "no", Jobs' \subseteq Jobs,
              \A b1 : SliceFirst(b1) => SliceFirst(b1)', call' \in [Callers -> CallKind],
              \A y \in Jobs' \cup Jobs : y.kind \in KeeperJobs => y \in Jobs' /\ y \in Jobs,
              \A b1 : Claimants(b1)' = Claimants(b1),
              JobsFit', AheadFits', Abandons', Tracked', Exclusive', CallsFit'
       PROVE  IInv'
  <2>1. z \in BlobKind /\ blob' \in [Blobs -> BlobKind] /\ blob'[b] = z /\ \A d \in Blobs : d # b => blob'[d] = blob[d]
    BY <1>4, <1>5, <1>17 DEF ReadTo
  <2>2. \A g \in DOMAIN open' : open'[g] \in OpenKind /\ g \in Handles
    BY <1>12, <1>13
  <2>3. Kinds'
    BY <1>1, <1>17, <2>1, <2>2 DEF IInv, Kinds
  <2>4. Cursors'
    <3>1. CursorFits(b)'
      BY <1>2, <1>13, <1>17, <2>1 DEF CursorFits, ReadTo
    <3>2. ASSUME NEW d \in Blobs, d # b PROVE CursorFits(d)'
      BY <1>3, <1>4, <1>13, <1>14, <2>1, <3>2, Untouched
    <3> QED
      BY <3>1, <3>2 DEF Cursors
  <2>5. Streams' /\ Entries'
    BY <1>1, <1>3, <1>4, <1>13, <1>14, <1>17, Untouched DEF Streams
  <2>6. \A d \in Blobs, g \in Handles : AheadHas(d, g)' <=> AheadHas(d, g)
    BY <1>1 DEF AheadHas
  <2>7. \A d \in Blobs, g \in Handles : StreamHas(d, g)' <=> StreamHas(d, g)
    BY <1>1, <1>17, SameJobs
  <2>8. Kept'
    <3>1. CASE ~w.eof
      <4>1. \A d \in Blobs : blob'[d].handle = blob[d].handle
        BY <1>2, <1>17, <2>1, <3>1 DEF ReadTo
      <4>2. \A d \in Blobs, g \in Handles : CursorHas(d, g)' <=> CursorHas(d, g)
        BY <1>17, <4>1, SameJobs
      <4>3. DOMAIN open' = DOMAIN open /\ stray' = stray /\ \A g \in DOMAIN open : open'[g].b = open[g].b
        BY <1>6, <1>13, <3>1
      <4> QED
        BY <1>1, <1>3, <1>12, <1>17, <2>6, <2>7, <4>2, <4>3, StillKept
    <3>2. CASE w.eof
      <4>1. blob'[b].handle = NoHandle
        BY <1>17, <2>1, <3>2 DEF ReadTo
      <4>2. \A y \in Jobs' : ~(y.kind = "close" /\ y.b = b)
        BY <1>16, <1>17
      <4>3. \A g \in Handles : g # NoHandle
        BY Constants
      <4>4. \A g \in Handles : ~CursorHas(b, g)' /\ (g # h => ~CursorHas(b, g))
        <5> HIDE DEF Jobs
        <5> QED
          BY <1>2, <1>16, <4>1, <4>2, <4>3 DEF CursorHas
      <4>5. \A d \in Blobs, g \in Handles : d # b => (CursorHas(d, g)' <=> CursorHas(d, g))
        BY <1>17, <2>1, SameJobs
      <4>6. \A d \in Blobs, g \in Handles \ {h} : CursorHas(d, g)' <=> CursorHas(d, g)
        BY <1>4, <4>4, <4>5
      <4>7. \A d \in Blobs : ~CursorHas(d, h)' /\ ~StreamHas(d, h)' /\ ~AheadHas(d, h)'
        BY <1>4, <1>6, <2>6, <2>7, <4>4, <4>5
      <4>8. DOMAIN open' = DOMAIN open \ {h} /\ (stray' => stray) /\ \A g \in DOMAIN open' : open'[g].b = open[g].b
        BY <1>13, <3>2
      <4> QED
        BY <1>1, <1>3, <1>4, <1>12, <1>17, <2>6, <2>7, <4>6, <4>7, <4>8, ClosedKept
    <3> QED
      BY <3>1, <3>2
  <2>9. BusyFits'
    BY <1>17 DEF BusyFits
  <2> QED
    BY <1>17, <2>3, <2>4, <2>5, <2>8, <2>9 DEF IInv
<1>18. CASE ~fin
  <2>1. blob' = [blob EXCEPT ![b] = r] /\ call' = call /\ chain' = chain /\ busy' = "no"
    BY <1>1, <1>18
  <2>2. ReadTo(r, dat, l, w.eof, IF w.eof THEN NoHandle ELSE h)
    BY <1>1, <1>10, <1>18 DEF ReadTo, BlobKind
  <2>3. blob'[b] = r /\ \A d \in Blobs : d # b => blob'[d] = blob[d]
    BY <1>4, <1>5, <2>1
  <2>4. /\ Line' /\ Live' /\ Jobs' = Jobs /\ (\A b1 : SliceFirst(b1)' = SliceFirst(b1)) /\ chain' \in Seq(JobKind)
    BY <1>1, <1>3, <2>1, Frames DEF IInv, Kinds
  <2>5. JobsFit' /\ AheadFits' /\ Abandons' /\ Exclusive'
    BY <1>1, <2>1, <2>4, Frames
  <2>6. Tracked'
    <3>1. ~(b \in inline.held \/ ahead.entry[b].state # "none" \/ rows.at = 0)
      BY <1>4 DEF IInv, Tracked, TrackedFits, Quiet
    <3> QED
      BY <1>1, <2>1, <2>3, <3>1 DEF IInv, Tracked, TrackedFits, Quiet
  <2>7. CallsFit'
    <3> SUFFICES ASSUME NEW d \in Callers PROVE CallFits(d)'
      BY DEF CallsFit
    <3>1. CallFits(d) /\ call[d].group \subseteq Blobs
      BY DEF IInv, CallsFit, Kinds, CallKind
    <3>2. b \in call[d].group => call[d].op \in {"head", "buffer"} /\ call[d].op \notin {"prefetch", "close"}
      BY <1>1, <1>4, <1>15
    <3> QED
      BY <1>1, <1>10, <2>1, <2>3, <3>1, <3>2 DEF CallFits
  <2>8. \A b1 : Claimants(b1)' = Claimants(b1)
    BY <2>1 DEF Claimants
  <2> QED
    BY <1>17, <2>1, <2>2, <2>4, <2>5, <2>6, <2>7, <2>8 DEF IInv, Kinds
<1>19. CASE fin
  <2> DEFINE z == IF job.kind = "head" THEN Promoted(r) ELSE Caches(r, dat)
             data == IF job.kind = "head" THEN FirstOf(n, Content) ELSE Content
  <2>1. ReadTo(z, dat, l, w.eof, IF w.eof THEN NoHandle ELSE h)
    <3>1. Promoted(r) = IF w.eof THEN Caches(r, dat) ELSE r
      BY <1>9, <1>10 DEF Promoted, Caches
    <3>2. LET y == Caches(r, dat)
          IN y \in BlobKind /\ y.has = TRUE /\ y.cached = dat /\ y.bytes = r.bytes /\ y.handle = r.handle /\ y.eof = r.eof
      BY <1>9, <1>10, CachesIs
    <3>3. job.kind = "buffer" => w.eof
      BY <1>1, <1>19
    <3>4. CASE w.eof
      <4>1. z = Caches(r, dat)
        BY <3>1, <3>4
      <4>2. /\ z \in BlobKind /\ z.has = TRUE /\ z.cached = Content /\ z.bytes = l /\ z.handle = NoHandle /\ z.eof = TRUE
        BY Zenon, <1>9, <1>10, <3>2, <3>4, <4>1
      <4> HIDE DEF z, data
      <4> QED
        BY <3>4, <4>2 DEF ReadTo
    <3>5. CASE ~w.eof
      <4>1. z = r
        BY <1>1, <3>1, <3>3, <3>5
      <4> HIDE DEF z, data
      <4> QED
        BY <1>10, <3>5, <4>1 DEF ReadTo, BlobKind
    <3> QED
      BY <1>10, <3>4, <3>5 DEF BlobKind
  <2>2. Ends(<<>>) /\ blob' = [blob EXCEPT ![b] = z] /\ Settles(c, IF job.kind = "head" THEN HeadOf(c, r) ELSE dat)
    <3>1. CASE job.kind = "head"
      BY <1>1, <1>19, <3>1
    <3>2. CASE job.kind # "head"
      <4>1. Concat(r.consumed, r.bytes) = dat
        BY <1>9, <1>10
      <4> QED
        BY <1>1, <1>19, <3>2, <4>1
    <3> QED
      BY <3>1, <3>2
  <2>3. (IF job.kind = "head" THEN HeadOf(c, r) ELSE dat) = data /\ data \in Datas
    <3>1. job.kind = "head" => HeadOf(c, r) = FirstOf(n, dat)
      <4>1. CASE w.eof
        <5>1. Promoted(r) = Caches(r, dat)
          BY <1>9, <1>10, <4>1 DEF Promoted, Caches
        <5>2. Promoted(r).has = TRUE /\ Promoted(r).cached = dat
          <6>1. r \in BlobKind /\ dat \in Datas
            BY <1>9, <1>10
          <6>2. Caches(r, dat).has = TRUE /\ Caches(r, dat).cached = dat
            BY Zenon, <6>1, CachesIs
          <6> QED
            BY <5>1, <6>2
        <5> QED
          <6>1. n = call[c].n
            BY <1>1
          <6> QED
            BY <5>2, <6>1, HeadIs
      <4>2. CASE ~w.eof
        <5>1. Promoted(r) = r
          BY <1>10, <4>2 DEF Promoted
        <5> QED
          BY <1>1, <1>9, <1>10, <5>1 DEF HeadOf
      <4> QED
        BY <4>1, <4>2
    <3>2. job.kind = "head" => FirstOf(n, dat) = FirstOf(n, Content)
      <4>1. job.kind = "head" => l >= n \/ l = Size
        BY <1>1, <1>9, <1>10, <1>19
      <4> QED
        BY <1>7, <1>9, <4>1, FirstEnough
    <3>3. job.kind # "head" => w.eof
      BY <1>1, <1>19
    <3>4. FirstOf(n, Content) \in Datas
      BY <1>7, FirstData
    <3> QED
      BY <1>9, <3>1, <3>2, <3>3, <3>4, Whole0
  <2> HIDE DEF z, data
  <2> DEFINE q == [op |-> call[c].op, n |-> call[c].n, pc |-> "done", data |-> data, group |-> call[c].group]
  <2>4. call' = [call EXCEPT ![c] = q] /\ q \in CallKind
    BY <1>4, <2>2, <2>3, SettlesIs DEF IInv
  <2>5. q.op = call[c].op /\ q.n = n /\ q.pc = "done" /\ q.data = data /\ q.group = call[c].group
    BY <1>1
  <2> HIDE DEF q
  <2>6. z \in BlobKind /\ (z.has => z.eof) /\ blob'[b] = z /\ \A d \in Blobs : d # b => blob'[d] = blob[d]
    BY <1>4, <1>5, <2>1, <2>2 DEF ReadTo
  <2>7. /\ JobsFit' /\ AheadFits' /\ Abandons' /\ Tracked' /\ Exclusive'
        /\ call' \in [Callers -> CallKind] /\ call'[c] = q
        /\ (\A d \in Callers : d # c => CallFits(d)') /\ (\A b1 : Claimants(b1)' = Claimants(b1))
    <3>1. \A d \in Blobs : blob'[d] = blob[d] \/ (d \in call[c].group /\ (job.kind = "head" => (blob'[d].has => blob'[d].eof)))
      BY <1>4, <2>6
    <3> QED
      BY <1>1, <1>2, <1>4, <2>2, <2>4, <2>5, <3>1, Settling
  <2>8. /\ chain' \in Seq(JobKind) /\ Line' /\ Jobs' = Jobs \ {job} /\ busy' = "no" /\ Live'
        /\ (\A b1 : SliceFirst(b1) => SliceFirst(b1)')
        /\ \A y \in Jobs' \cup Jobs : y.kind \in KeeperJobs => y \in Jobs' /\ y \in Jobs
    BY <1>1, <1>2, <2>2, Ended DEF KeeperJobs
  <2>9. CallsFit'
    <3>1. CallFits(c)'
      BY <1>1, <1>4, <1>5, <1>7, <2>5, <2>7 DEF CallFits, data
    <3> QED
      BY <2>7, <3>1 DEF CallsFit
  <2> QED
    BY <1>17, <2>1, <2>2, <2>7, <2>8, <2>9
<1> QED
  BY <1>18, <1>19

\* The fetch has settled: the read-ahead is kicked, and the first job makes way.
LEMMA KickedEnds ==
    ASSUME IInv, chain # <<>>, job.kind \in Fetches, alive' = alive, rows' = rows,
           NEW p \in AheadKind, p.handle = NoHandle, p.running = Nobody, p.closed = ahead.closed,
           Kick(p), \A b \in Blobs : EntryOk(p, b)', Ends(JobsOf(p)),
           \A b \in Blobs : p.entry[b].state # "none" => ahead.entry[b].state # "none"
    PROVE  /\ ahead' \in AheadKind /\ ahead'.handle = NoHandle /\ inline'.held \subseteq inline.held
           /\ \A b \in Blobs : ahead'.entry[b].state # "none" => ahead.entry[b].state # "none"
           /\ Entries' /\ AheadFits' /\ Abandons' /\ Line' /\ Live' /\ busy' = "no" /\ BusyFits'
           /\ chain' \in Seq(JobKind) /\ \A j \in Jobs' : j \in Jobs \/ (j.kind = "slice" /\ JobFits(j)')
           /\ \A y \in Jobs' \cup Jobs : y.kind \in KeeperJobs => y \in Jobs' /\ y \in Jobs
<1>1. /\ ahead' \in AheadKind /\ ahead'.closed = p.closed /\ ahead'.handle = p.handle
      /\ inline'.held \subseteq inline.held
      /\ Entries'
      /\ \A d \in Blobs : ahead'.entry[d].state = "none" <=> p.entry[d].state = "none"
      /\ \/ JobsOf(p) = <<>>
         \/ \E b \in Blobs : /\ p.running = Nobody /\ ahead'.running = b /\ ahead'.entry[b].state = "fetching" /\ ~p.closed
                             /\ JobsOf(p) = <<Job("slice", b, Nobody)>>
  <2>1. FetchOk(p)
    BY DEF FetchOk
  <2> QED
    BY <2>1, Kicked
<1>2. AheadFits /\ alive \in BOOLEAN
  BY DEF IInv, Kinds
<1>3. ASSUME \A j \in Jobs' : j.kind \in Fetches =>
                j.b \in Blobs /\ ahead'.running = j.b /\ ahead'.entry[j.b].state = "fetching" /\ (j.kind = "slice" => alive')
      PROVE  AheadFits'
  BY <1>1, <1>2, <1>3 DEF AheadFits
<1>4. job.kind \notin KeeperJobs /\ job.kind # "end"
  BY DEF Fetches, KeeperJobs
<1>5. CASE JobsOf(p) = <<>>
  <2>1. Ends(<<>>)
    BY <1>5
  <2>2. /\ chain' \in Seq(JobKind) /\ Line' /\ Jobs' = Jobs \ {job} /\ busy' = "no" /\ BusyFits' /\ Live'
        /\ job \in Jobs /\ \A y \in Jobs' : y \in Jobs /\ ~Alike(y, job)
    BY <1>4, <2>1, Ended
  <2>3. \A y \in Jobs' \cup Jobs : y.kind \in KeeperJobs => y \in Jobs' /\ y \in Jobs
    BY <1>4, <2>2
  <2>4. \A j \in Jobs' : j.kind \notin Fetches
    BY <2>2 DEF Alike
  <2>5. AheadFits'
    BY <1>3, <2>4
  <2>6. Abandons'
    <3>1. ASSUME NEW b \in Blobs PROVE SliceFirst(b)'
      BY <2>4 DEF SliceFirst, Jobs, Fetches
    <3> QED
      BY <3>1 DEF Abandons
  <2> QED
    BY <1>1, <2>2, <2>3, <2>5, <2>6
<1>6. ASSUME NEW b \in Blobs, ahead'.running = b, ahead'.entry[b].state = "fetching", ~p.closed,
             JobsOf(p) = <<Job("slice", b, Nobody)>>
      PROVE  /\ AheadFits' /\ Abandons' /\ Line' /\ Live' /\ busy' = "no" /\ BusyFits'
             /\ chain' \in Seq(JobKind) /\ \A j \in Jobs' : j \in Jobs \/ (j.kind = "slice" /\ JobFits(j)')
             /\ \A y \in Jobs' \cup Jobs : y.kind \in KeeperJobs => y \in Jobs' /\ y \in Jobs
  <2> DEFINE j == Job("slice", b, Nobody)
  <2>1. j \in JobKind /\ j.kind = "slice" /\ j.b = b
    <3>1. "slice" \in JobKinds /\ b \in Blobs \cup {Nobody} /\ Nobody \in Callers \cup {Nobody}
      BY DEF JobKinds, Fetches
    <3> QED
      BY <3>1, JobIs
  <2>2. Ends(<<j>>)
    BY <1>6
  <2> HIDE DEF j
  <2>3. alive
    BY <1>2, <1>6 DEF AheadFits
  <2>4. \A x \in Jobs : x # job => ~Alike(x, job)
    BY JobTypes, OneOf DEF IInv
  <2>5. \A x \in Jobs : x # job => ~Alike(x, j) /\ x.kind \notin Fetches
    BY <2>1, <2>4 DEF Alike, Calls, Fetches
  <2>6. j.kind # "end"
    BY <2>1
  <2>7. /\ chain' \in Seq(JobKind) /\ Line' /\ Jobs' = (Jobs \ {job}) \cup {j} /\ busy' = "no" /\ BusyFits' /\ Live' /\ job \in Jobs
    BY <2>1, <2>2, <2>3, <2>5, <2>6, Followed
  <2>8. AheadFits'
    BY <1>3, <1>6, <2>1, <2>3, <2>5, <2>7
  <2>9. Abandons'
    BY <1>1, <1>6 DEF Abandons, Unwanted
  <2>10. JobFits(j)'
    BY <2>1 DEF JobFits, Calls
  <2>11. \A y \in Jobs' \cup Jobs : y.kind \in KeeperJobs => y \in Jobs' /\ y \in Jobs
    BY <1>4, <2>1, <2>7 DEF KeeperJobs
  <2> QED
    BY <2>1, <2>7, <2>8, <2>9, <2>10, <2>11
<1> QED
  BY <1>1, <1>5, <1>6

\* The read-ahead with another entry for a blob, and other bytes in its budget.
PutFor(s, a, b, x, u) == s = [a EXCEPT !.entry[b] = x, !.used = u]
SameBut(s, a, b, x) ==
    /\ s \in AheadKind /\ s.entry[b] = x /\ \A d \in Blobs : d # b => s.entry[d] = a.entry[d]
    /\ s.running = a.running /\ s.closed = a.closed /\ s.handle = a.handle

\* It differs in nothing else that counts.
LEMMA PutIs ==
    ASSUME NEW s, NEW a \in AheadKind, NEW b \in Blobs, NEW x \in EntryKind, NEW u \in Int, PutFor(s, a, b, x, u)
    PROVE  SameBut(s, a, b, x)
<1>1. a.entry \in [Blobs -> EntryKind]
  BY DEF AheadKind
<1> DEFINE f == [a.entry EXCEPT ![b] = x]
<1>2. f \in [Blobs -> EntryKind] /\ f[b] = x /\ \A d \in Blobs : d # b => f[d] = a.entry[d]
  BY <1>1
<1>3. s = [[a EXCEPT !.entry = f] EXCEPT !.used = u]
  BY DEF PutFor, AheadKind
<1> HIDE DEF f
<1>4. s \in AheadKind /\ s.entry = f /\ s.running = a.running /\ s.closed = a.closed /\ s.handle = a.handle
  BY <1>2, <1>3 DEF AheadKind
<1> QED
  BY <1>2, <1>4 DEF SameBut

\* A slice that has come in.
WithSlice(s, a, b, w) ==
    s = [a EXCEPT !.entry[b].bytes = @ \o w.data, !.used = @ + Len(w.data), !.handle = IF w.eof THEN NoHandle ELSE @]
SliceCame(s, a, b, w, x) ==
    /\ s \in AheadKind /\ s.entry[b] = x /\ \A d \in Blobs : d # b => s.entry[d] = a.entry[d]
    /\ s.running = a.running /\ s.closed = a.closed /\ s.handle = IF w.eof THEN NoHandle ELSE a.handle

\* What the slice makes of the read-ahead.
LEMMA SliceIs ==
    ASSUME NEW s, NEW a \in AheadKind, NEW b \in Blobs, NEW w, NEW data \in Datas, a.entry[b].bytes \o w.data = data,
           Len(w.data) \in Nat, NEW x, x = [a.entry[b] EXCEPT !.bytes = data], WithSlice(s, a, b, w)
    PROVE  SliceCame(s, a, b, w, x) /\ x \in EntryKind
<1> DEFINE u == a.used + Len(w.data)
           t == [a EXCEPT !.entry[b] = x, !.used = u]
<1>1. a.entry[b] \in EntryKind /\ a.used \in Int
  BY DEF AheadKind
<1>2. x \in EntryKind /\ u \in Int
  BY <1>1 DEF EntryKind
<1>3. PutFor(t, a, b, x, u)
  BY DEF PutFor
<1>4. SameBut(t, a, b, x)
  <2> HIDE DEF t, u
  <2> QED
    BY <1>2, <1>3, PutIs
<1>5. s = [t EXCEPT !.handle = IF w.eof THEN NoHandle ELSE t.handle]
  BY DEF WithSlice, AheadKind
<1> HIDE DEF t, u
<1>6. SliceCame(s, a, b, w, x)
  BY <1>4, <1>5 DEF SameBut, SliceCame, AheadKind
<1> QED
  BY <1>2, <1>6

\* The read-ahead with nothing running.
Idle(p) == [p EXCEPT !.running = Nobody, !.handle = NoHandle]

\* It has its entries still.
LEMMA IdleIs ==
    ASSUME NEW p \in AheadKind
    PROVE  /\ Idle(p) \in AheadKind /\ Idle(p).running = Nobody /\ Idle(p).handle = NoHandle
           /\ Idle(p).entry = p.entry /\ Idle(p).closed = p.closed
BY DEF Idle, AheadKind

\* A fetch that is done.
LEMMA DoneIs ==
    ASSUME NEW a \in AheadKind, NEW b \in Blobs, NEW x, x = [a.entry[b] EXCEPT !.state = "done"],
           NEW s, s = [a EXCEPT !.entry[b].state = "done"]
    PROVE  SameBut(s, a, b, x) /\ x \in EntryKind
<1>1. a.entry[b] \in EntryKind /\ a.used \in Int
  BY DEF AheadKind
<1>2. x \in EntryKind
  BY <1>1 DEF EntryKind
<1>3. PutFor(s, a, b, x, a.used)
  BY DEF PutFor, AheadKind
<1> QED
  BY <1>1, <1>2, <1>3, PutIs

\* An entry that is released.
LEMMA ReleaseIs ==
    ASSUME NEW a \in AheadKind, NEW b \in Blobs
    PROVE  SameBut(Release(a, b), a, b, Untracked)
<1> DEFINE u == a.used - Len(a.entry[b].bytes)
<1>1. a.entry[b] \in EntryKind /\ a.used \in Int
  BY DEF AheadKind
<1>2. Len(a.entry[b].bytes) \in Nat
  BY <1>1, DataLen, Constants DEF EntryKind
<1>3. u \in Int
  BY <1>1, <1>2
<1>4. PutFor(Release(a, b), a, b, Untracked, u)
  BY DEF PutFor, Release
<1> HIDE DEF u
<1> QED
  BY <1>3, <1>4, NewKinds, PutIs

\* The invariant is kept when a slice comes in: the bytes of a blob that nobody has asked
\* for stay, those of one that somebody has are handed over.
LEMMA AnswerSlice_IInv ==
    ASSUME IInv, AnswerSlice
    PROVE  IInv'
<1> DEFINE b0 == job.b
           h0 == job.h
           w0 == Window(h0, Span)
           more0 == [ahead EXCEPT !.entry[b0].bytes = @ \o w0.data, !.used = @ + Len(w0.data),
                                  !.handle = IF w0.eof THEN NoHandle ELSE @]
           done0 == [more0 EXCEPT !.entry[b0].state = "done"]
           all0 == more0.entry[b0].bytes
           kind0 == IF ahead.closed /\ ~ahead.entry[b0].claimed THEN "abandon" ELSE "slice"
<1>a. /\ busy = "read" /\ job.kind = "slice"
      /\ (w0.eof => Closes(Moved(h0, w0), h0))
      /\ (~w0.eof => open' = Moved(h0, w0) /\ stray' = stray)
      /\ (~w0.eof => ahead' = more0 /\ Ends(<<Job(kind0, b0, Nobody)>>) /\ blob' = blob /\ call' = call /\ inline' = inline)
      /\ (w0.eof /\ ~ahead.entry[b0].claimed => Settled(done0) /\ blob' = blob /\ call' = call)
      /\ (w0.eof /\ ahead.entry[b0].claimed =>
            /\ Settled(Release(done0, b0))
            /\ blob' = IF Claimants(b0) = {} THEN blob ELSE [blob EXCEPT ![b0] = [@ EXCEPT !.has = TRUE, !.cached = all0]]
            /\ call' = [c \in Callers |-> IF c \in Claimants(b0)
                    THEN [call[c] EXCEPT !.pc = "done", !.data = IF call[c].op = "head" THEN FirstOf(call[c].n, all0) ELSE all0]
                    ELSE call[c]])
      /\ stream' = stream /\ rows' = rows /\ alive' = alive /\ calls' = calls
  BY Zenon DEF AnswerSlice
<1>b. WithSlice(more0, ahead, b0, w0)
  BY DEF WithSlice
<1> HIDE DEF more0
<1>c. b0 = job.b /\ h0 = job.h /\ w0 = Window(h0, Span) /\ done0 = [more0 EXCEPT !.entry[b0].state = "done"] /\ all0 = more0.entry[b0].bytes
      /\ kind0 \in {"abandon", "slice"} /\ (kind0 = "slice" => ~(ahead.closed /\ ~ahead.entry[b0].claimed))
  OBVIOUS
<1> HIDE DEF b0, h0, w0, done0, all0, kind0
<1> SUFFICES ASSUME NEW b, b = b0, NEW h, h = h0, NEW w, w = w0, NEW more, more = more0, NEW done, done = done0,
                    NEW all, all = all0, NEW kind, kind = kind0
             PROVE  IInv'
  OBVIOUS
<1>1. /\ busy = "read" /\ job.kind = "slice" /\ b = job.b /\ h = job.h
      /\ (w.eof => Closes(Moved(h, w), h))
      /\ (~w.eof => open' = Moved(h, w) /\ stray' = stray)
      /\ (~w.eof => ahead' = more /\ Ends(<<Job(kind, b, Nobody)>>) /\ blob' = blob /\ call' = call /\ inline' = inline)
      /\ (w.eof /\ ~ahead.entry[b].claimed => Settled(done) /\ blob' = blob /\ call' = call)
      /\ stream' = stream /\ rows' = rows /\ alive' = alive /\ calls' = calls
  BY Zenon, <1>a, <1>c
<1>2. w.eof /\ ahead.entry[b].claimed =>
        /\ Settled(Release(done, b))
        /\ blob' = IF Claimants(b) = {} THEN blob ELSE [blob EXCEPT ![b] = [@ EXCEPT !.has = TRUE, !.cached = all]]
        /\ call' = [c \in Callers |-> IF c \in Claimants(b)
                THEN [call[c] EXCEPT !.pc = "done", !.data = IF call[c].op = "head" THEN FirstOf(call[c].n, all) ELSE all]
                ELSE call[c]]
  BY Zenon, <1>a
<1>3. /\ WithSlice(more, ahead, b, w) /\ w = Window(h, Span) /\ done = [more EXCEPT !.entry[b].state = "done"] /\ all = more.entry[b].bytes
      /\ kind \in {"abandon", "slice"} /\ (kind = "slice" => ~Unwanted(b))
  BY <1>b, <1>c DEF Unwanted
<1>4. chain # <<>> /\ h # NoHandle /\ ahead.handle = h
  BY <1>1 DEF IInv, BusyFits
<1>5. /\ job \in Jobs /\ job \in JobKind /\ Live /\ alive /\ b \in Blobs /\ ahead.running = b /\ ahead.entry[b].state = "fetching"
      /\ (\A y \in Jobs : y # job => ~Alike(y, job)) /\ job.kind \in Fetches /\ h \in Handles
  <2>1. job \in Jobs /\ job \in JobKind /\ Live /\ \A y \in Jobs : y # job => ~Alike(y, job)
    BY <1>4, JobTypes, OneOf DEF IInv, Live
  <2>2. job.kind \in Fetches
    BY <1>1 DEF Fetches
  <2> QED
    BY <1>1, <1>4, <2>1, <2>2 DEF IInv, AheadFits, JobKind
<1>6. /\ h \in DOMAIN open /\ open[h].b = b /\ open[h] \in OpenKind
      /\ (\A d \in Blobs : ~CursorHas(d, h) /\ ~StreamHas(d, h) /\ (d # b => ~AheadHas(d, h)))
  <2>1. AheadHas(b, h)
    BY <1>4, <1>5 DEF AheadHas
  <2> QED
    BY <1>5, <2>1, KeeperOf
<1>7. /\ ahead \in AheadKind /\ ahead.entry[b] \in EntryKind /\ EntryFits(b) /\ AheadFits /\ Quiet(b)
      /\ blob \in [Blobs -> BlobKind] /\ blob[b] \in BlobKind /\ call \in [Callers -> CallKind]
      /\ (\A d \in Blobs : EntryFits(d) /\ (d # b => ahead.entry[d].state # "fetching"))
  <2>1. ahead \in AheadKind /\ AheadFits /\ blob \in [Blobs -> BlobKind] /\ call \in [Callers -> CallKind]
    BY DEF IInv, Kinds
  <2>2. \A d \in Blobs : EntryFits(d) /\ (d # b => ahead.entry[d].state # "fetching")
    BY <1>5 DEF IInv, Entries, EntryFits
  <2> QED
    BY <1>5, <2>1, <2>2 DEF AheadKind, IInv, Tracked, TrackedFits
<1> SUFFICES ASSUME NEW m, m = open[h].at - 1, NEW k, k = Len(w.data) PROVE IInv'
  OBVIOUS
<1>8. /\ m \in 0..Size /\ m \in Nat /\ ahead.entry[b].bytes = Segs(m)
      /\ k \in Nat /\ m + k \in 0..Size /\ w.eof \in BOOLEAN /\ Segs(m) \o w.data = Segs(m + k)
      /\ open[h].at + k = m + k + 1 /\ (w.eof => m + k = Size)
  <2>1. open[h].at \in 1..(Size + 1) /\ Span \in Nat /\ Size \in Nat
    BY <1>6, Constants DEF OpenKind
  <2> DEFINE p == open[h].at - 1
             v == Window(h, Span)
             i == Len(v.data)
  <2>2. /\ p \in 0..Size /\ i \in Nat /\ p + i \in 0..Size /\ v.eof \in BOOLEAN /\ Segs(p) \o v.data = Segs(p + i)
        /\ open[h].at + i = p + i + 1 /\ (v.eof => p + i = Size)
    BY <2>1, WindowRight
  <2>3. v = w /\ i = k
    BY <1>3
  <2>4. ahead.entry[b].bytes = Segs(m)
    BY <1>4, <1>5, <1>7 DEF EntryFits
  <2> HIDE DEF v, i
  <2>5. /\ p \in 0..Size /\ k \in Nat /\ p + k \in 0..Size /\ w.eof \in BOOLEAN /\ Segs(p) \o w.data = Segs(p + k)
        /\ open[h].at + k = p + k + 1 /\ (w.eof => p + k = Size)
    BY <2>2, <2>3
  <2>6. p = m
    OBVIOUS
  <2> HIDE DEF p
  <2>7. /\ m \in 0..Size /\ k \in Nat /\ m + k \in 0..Size /\ w.eof \in BOOLEAN /\ Segs(m) \o w.data = Segs(m + k)
        /\ open[h].at + k = m + k + 1 /\ (w.eof => m + k = Size)
    BY <2>5, <2>6
  <2>8. m \in Nat
    BY <2>1, <2>7
  <2> QED
    BY <2>4, <2>7, <2>8
<1> SUFFICES ASSUME NEW l, l = m + k, NEW dat, dat = Segs(l) PROVE IInv'
  OBVIOUS
<1>9. /\ l \in 0..Size /\ l \in Nat /\ dat \in Datas /\ (w.eof => l = Size /\ dat = Content) /\ Segs(m) \o w.data = dat
      /\ l + 1 - 1 = l
  <2>1. l \in 0..Size /\ l \in Nat /\ (w.eof => l = Size) /\ l + 1 - 1 = l
    BY <1>8
  <2>2. dat \in Datas
    BY <2>1, SegmentsOf
  <2> QED
    BY <1>8, <2>1, <2>2, Whole0
<1> DEFINE x == [ahead.entry[b] EXCEPT !.bytes = dat]
<1>10. /\ SliceCame(more, ahead, b, w, x) /\ x \in EntryKind /\ x.bytes = dat /\ x.state = "fetching"
       /\ x.claimed = ahead.entry[b].claimed
  <2>1. x.bytes = dat /\ x.state = "fetching" /\ x.claimed = ahead.entry[b].claimed
    BY <1>5, <1>7 DEF EntryKind
  <2>2. ahead.entry[b].bytes \o w.data = dat /\ Len(w.data) \in Nat
    BY <1>8, <1>9
  <2> DEFINE y == x
  <2>3. y = [ahead.entry[b] EXCEPT !.bytes = dat]
    OBVIOUS
  <2> HIDE DEF x
  <2>4. SliceCame(more, ahead, b, w, y) /\ y \in EntryKind
    BY <1>3, <1>5, <1>7, <1>9, <2>2, <2>3, SliceIs
  <2> QED
    BY <2>1, <2>4
<1> HIDE DEF x
<1>11. /\ DOMAIN Moved(h, w) = DOMAIN open /\ Moved(h, w)[h].at = l + 1 /\ Moved(h, w)[h].b = b /\ Moved(h, w)[h] \in OpenKind
       /\ \A g \in DOMAIN open : g # h => Moved(h, w)[g] = open[g]
  <2>1. open[h].at + Len(w.data) = l + 1 /\ l + 1 \in 1..(Size + 1)
    BY <1>8, <1>9, Constants
  <2> QED
    BY <1>6, <2>1, MovedIs
<1>12. Kept /\ DOMAIN open \subseteq Handles /\ (\A g \in DOMAIN open : open[g] \in OpenKind)
  BY DEF IInv, Kinds
<1>13. \A d \in Blobs : blob[d].handle # h /\ (stream[d].handle # h \/ stream[d].finished)
  BY <1>6 DEF CursorHas, StreamHas
<1>14. CASE ~w.eof
  <2> DEFINE j == Job(kind, b, Nobody)
  <2>1. /\ open' = Moved(h, w) /\ stray' = stray /\ ahead' = more /\ Ends(<<j>>)
        /\ blob' = blob /\ call' = call /\ inline' = inline
    BY <1>1, <1>14
  <2>2. /\ more \in AheadKind /\ more.entry[b] = x /\ (\A d \in Blobs : d # b => more.entry[d] = ahead.entry[d])
        /\ more.running = b /\ more.closed = ahead.closed /\ more.handle = h
    BY <1>4, <1>5, <1>10, <1>14 DEF SliceCame
  <2>3. j \in JobKind /\ j.kind = kind /\ j.b = b /\ kind \in Fetches /\ kind # "end"
    <3>1. kind \in JobKinds /\ b \in Blobs \cup {Nobody} /\ Nobody \in Callers \cup {Nobody} /\ kind \in Fetches /\ kind # "end"
      BY <1>3, <1>5 DEF JobKinds, Fetches
    <3> QED
      BY <3>1, JobIs
  <2> HIDE DEF j
  <2>4. \A y \in Jobs : y # job => ~Alike(y, j) /\ y.kind \notin Fetches
    BY <1>5, <2>3 DEF Alike, Fetches, Calls
  <2>5. /\ chain' \in Seq(JobKind) /\ Line' /\ Jobs' = (Jobs \ {job}) \cup {j} /\ busy' = "no" /\ BusyFits' /\ Live'
        /\ \A d : SliceFirst(d) /\ ~(j.kind = "slice" /\ j.b = d) => SliceFirst(d)'
    BY <1>1, <1>4, <1>5, <2>1, <2>3, <2>4, Followed
  <2>6. Kinds'
    <3>1. \A g \in DOMAIN open' : open'[g] \in OpenKind /\ g \in Handles
      BY <1>11, <1>12, <2>1
    <3> QED
      BY <1>1, <2>1, <2>2, <2>5, <3>1 DEF IInv, Kinds
  <2>7. JobsFit'
    <3> SUFFICES ASSUME NEW y \in Jobs' PROVE JobFits(y)'
      BY DEF JobsFit
    <3>1. CASE y = j
      BY <2>3, <3>1 DEF JobFits, Calls, Fetches
    <3>2. CASE y \in Jobs
      BY <1>1, <2>1, <3>2 DEF IInv, JobsFit, JobFits
    <3> QED
      BY <2>5, <3>1, <3>2
  <2>8. AheadFits'
    <3>1. \A y \in Jobs' : y.kind \in Fetches => y = j
      BY <2>4, <2>5
    <3>2. \A d \in Blobs : ahead'.entry[d].state = ahead.entry[d].state
      BY <1>5, <1>10, <2>1, <2>2
    <3> QED
      BY <1>1, <1>5, <1>7, <2>1, <2>2, <2>3, <3>1, <3>2 DEF AheadFits
  <2>9. Entries'
    <3> SUFFICES ASSUME NEW d \in Blobs PROVE EntryFits(d)'
      BY DEF Entries
    <3>1. Claimants(d)' = Claimants(d)
      BY <2>1 DEF Claimants
    <3>2. CASE d = b
      <4>1. /\ ahead'.entry[b].state = "fetching" /\ ahead'.entry[b].bytes = dat /\ ahead'.running = b /\ ahead'.handle = h
            /\ (ahead'.entry[b].claimed <=> ahead.entry[b].claimed)
        BY <1>10, <2>1, <2>2
      <4>2. open'[h].at - 1 = l
        BY <1>9, <1>11, <2>1
      <4>3. ahead.entry[b].claimed => Claimants(b)' # {}
        BY <1>5, <1>7, <3>1, <3>2 DEF EntryFits
      <4>4. dat = Segs(open'[ahead'.handle].at - 1)
        BY <4>1, <4>2
      <4> QED
        BY <1>4, <3>2, <4>1, <4>3, <4>4 DEF EntryFits
    <3>3. CASE d # b
      BY <1>7, <2>1, <2>2, <3>1, <3>3 DEF EntryFits
    <3> QED
      BY <3>2, <3>3
  <2>10. Cursors' /\ Streams'
    <3>1. \A g \in DOMAIN open : g # h => g \in DOMAIN open' /\ open'[g] = open[g]
      BY <1>11, <2>1
    <3>2. \A d \in Blobs : CursorFits(d)' /\ StreamFits(d)'
      BY <1>1, <1>5, <1>13, <2>1, <3>1, Untouched
    <3> QED
      BY <3>2 DEF Cursors, Streams
  <2>11. Abandons'
    <3> SUFFICES ASSUME NEW d \in Blobs, Unwanted(d)' PROVE SliceFirst(d)'
      BY DEF Abandons
    <3>1. Unwanted(d)
      BY <1>10, <2>1, <2>2 DEF Unwanted
    <3>2. SliceFirst(d)
      BY <3>1 DEF IInv, Abandons
    <3>3. ~(j.kind = "slice" /\ j.b = d)
      BY <1>3, <2>3, <3>1
    <3> QED
      BY <2>5, <3>2, <3>3
  <2>12. Tracked'
    <3>1. \A d \in Blobs : ahead'.entry[d].state = ahead.entry[d].state
      BY <1>5, <1>10, <2>1, <2>2
    <3> QED
      BY <1>1, <2>1, <3>1 DEF IInv, Tracked, TrackedFits, Quiet
  <2>13. Kept'
    <3>1. \A y \in Jobs' \cup Jobs : y.kind \in KeeperJobs => y \in Jobs' /\ y \in Jobs
      BY <1>5, <2>3, <2>5 DEF KeeperJobs, Fetches
    <3>2. \A d \in Blobs, g \in Handles : /\ CursorHas(d, g)' <=> CursorHas(d, g)
                                          /\ StreamHas(d, g)' <=> StreamHas(d, g)
      BY <1>1, <2>1, <3>1, SameJobs
    <3>3. \A d \in Blobs, g \in Handles : AheadHas(d, g)' <=> AheadHas(d, g)
      BY <1>4, <1>5, <2>1, <2>2 DEF AheadHas
    <3>4. DOMAIN open' = DOMAIN open /\ \A g \in DOMAIN open : open'[g].b = open[g].b
      BY <1>6, <1>11, <2>1
    <3> QED
      BY <1>1, <1>5, <1>12, <2>1, <2>5, <3>2, <3>3, <3>4, StillKept
  <2>14. CallsFit' /\ Exclusive'
    BY <1>1, <2>1, Frames
  <2> QED
    BY <2>5, <2>6, <2>7, <2>8, <2>9, <2>10, <2>11, <2>12, <2>13, <2>14 DEF IInv
<1>15. CASE w.eof
  <2>1. Closes(Moved(h, w), h)
    BY <1>1, <1>15
  <2>2. /\ DOMAIN open' = DOMAIN open \ {h} /\ (stray' => stray)
        /\ (\A g \in DOMAIN open : g # h => g \in DOMAIN open' /\ open'[g] = open[g])
        /\ (\A g \in DOMAIN open' : open'[g] \in OpenKind /\ g \in Handles /\ open'[g].b = open[g].b)
    <3>1. open' = [g \in DOMAIN open \ {h} |-> Moved(h, w)[g]] /\ (stray' => stray)
      BY <1>6, <1>11, <2>1 DEF Closes
    <3>2. DOMAIN open' = DOMAIN open \ {h} /\ \A g \in DOMAIN open : g # h => open'[g] = open[g]
      BY <1>11, <3>1
    <3> QED
      BY <1>12, <3>1, <3>2
  <2>3. /\ more \in AheadKind /\ more.entry[b] = x /\ (\A d \in Blobs : d # b => more.entry[d] = ahead.entry[d])
        /\ more.running = b /\ more.closed = ahead.closed
    BY <1>5, <1>10 DEF SliceCame
  <2> DEFINE y == [more.entry[b] EXCEPT !.state = "done"]
  <2>4. /\ SameBut(done, more, b, y) /\ y \in EntryKind /\ y.bytes = Content /\ y.state = "done"
    <3>1. y.bytes = Content /\ y.state = "done"
      BY <1>9, <1>10, <1>15, <2>3 DEF EntryKind
    <3> DEFINE v == y
    <3>2. v = [more.entry[b] EXCEPT !.state = "done"]
      OBVIOUS
    <3> HIDE DEF y
    <3>3. SameBut(done, more, b, v) /\ v \in EntryKind
      BY <1>3, <1>5, <2>3, <3>2, DoneIs
    <3> QED
      BY <3>1, <3>3
  <2> HIDE DEF y
  <2>5. ASSUME NEW p \in AheadKind, Settled(p), p.closed = ahead.closed, p.entry[b].state \in {"none", "done"},
               p.entry[b].state = "none" => ~p.entry[b].claimed /\ p.entry[b].bytes = <<>>,
               p.entry[b].state = "done" => p.entry[b].bytes = Content,
               \A d \in Blobs : d # b => p.entry[d] = ahead.entry[d],
               blob' = blob \/ (blob' = [blob EXCEPT ![b] = [blob[b] EXCEPT !.has = TRUE, !.cached = Content]]),
               call' \in [Callers -> CallKind],
               \A c \in Callers : call'[c].group = call[c].group /\ call'[c].op = call[c].op,
               \A c \in Callers : call'[c] = call[c] \/ (/\ call[c].pc = "take" /\ call'[c].pc = "done" /\ CallFits(c)'
                                                         /\ b \in call[c].group)
        PROVE  IInv'
    <3> DEFINE q == Idle(p)
    <3>1. /\ q \in AheadKind /\ q.running = Nobody /\ q.handle = NoHandle /\ q.entry = p.entry /\ q.closed = ahead.closed
          /\ Kick(q) /\ Ends(JobsOf(q))
      BY Zenon, <2>5, IdleIs DEF Settled, Idle
    <3> HIDE DEF q
    <3>2. \A d \in Blobs : d # b => Claimants(d) \subseteq Claimants(d)'
      <4> SUFFICES ASSUME NEW d \in Blobs, d # b, NEW c \in Claimants(d) PROVE c \in Claimants(d)'
        OBVIOUS
      <4>1. c \in Callers /\ call[c].pc = "take" /\ d \in call[c].group
        BY DEF Claimants
      <4>2. CallFits(c)
        BY <4>1 DEF IInv, CallsFit
      <4>3. b \notin call[c].group
        BY <4>1, <4>2 DEF CallFits
      <4>4. call'[c] = call[c]
        BY <2>5, <4>1, <4>3
      <4> QED
        BY <4>1, <4>4 DEF Claimants
    <3>3. \A d \in Blobs : EntryOk(q, d)'
      <4> SUFFICES ASSUME NEW d \in Blobs PROVE EntryOk(q, d)'
        OBVIOUS
      <4>1. CASE d = b
        BY <2>5, <3>1, <4>1 DEF EntryOk
      <4>2. CASE d # b
        BY <1>7, <2>5, <3>1, <3>2, <4>2 DEF EntryOk, EntryFits
      <4> QED
        BY <4>1, <4>2
    <3>4. \A d \in Blobs : q.entry[d].state # "none" => ahead.entry[d].state # "none"
      BY <1>5, <2>5, <3>1
    <3>5. /\ ahead' \in AheadKind /\ ahead'.handle = NoHandle /\ inline'.held \subseteq inline.held
          /\ (\A d \in Blobs : ahead'.entry[d].state # "none" => ahead.entry[d].state # "none")
          /\ Entries' /\ AheadFits' /\ Abandons' /\ Line' /\ Live' /\ busy' = "no" /\ BusyFits'
          /\ chain' \in Seq(JobKind) /\ (\A j \in Jobs' : j \in Jobs \/ (j.kind = "slice" /\ JobFits(j)'))
          /\ \A j \in Jobs' \cup Jobs : j.kind \in KeeperJobs => j \in Jobs' /\ j \in Jobs
      BY <1>1, <1>4, <1>5, <3>1, <3>3, <3>4, KickedEnds
    <3>6. /\ blob' \in [Blobs -> BlobKind] /\ (\A d \in Blobs : d # b => blob'[d] = blob[d])
          /\ blob'[b].handle = blob[b].handle /\ blob'[b].bytes = blob[b].bytes /\ blob'[b].eof = blob[b].eof
          /\ (blob'[b] = blob[b] \/ (blob'[b].has = TRUE /\ blob'[b].cached = Content))
      <4>1. CASE blob' = blob
        BY <1>7, <4>1
      <4>2. CASE blob' = [blob EXCEPT ![b] = [blob[b] EXCEPT !.has = TRUE, !.cached = Content]]
        <5> DEFINE z == [blob[b] EXCEPT !.has = TRUE, !.cached = Content]
        <5>1. /\ z \in BlobKind /\ z.has = TRUE /\ z.cached = Content /\ z.bytes = blob[b].bytes /\ z.handle = blob[b].handle
              /\ z.eof = blob[b].eof
          BY Zenon, <1>7, CachedIs
        <5>2. blob' = [blob EXCEPT ![b] = z]
          BY <4>2
        <5> HIDE DEF z
        <5> QED
          BY <1>5, <1>7, <5>1, <5>2
      <4> QED
        BY <2>5, <4>1, <4>2
    <3>7. Kinds'
      BY <1>1, <2>2, <2>5, <3>5, <3>6 DEF IInv, Kinds
    <3>8. JobsFit'
      <4> SUFFICES ASSUME NEW j \in Jobs PROVE JobFits(j)'
        BY <3>5 DEF JobsFit
      <4>1. JobFits(j)
        BY DEF IInv, JobsFit
      <4>2. j.kind \in Calls => call'[j.who] = call[j.who]
        BY <2>5, <4>1 DEF JobFits
      <4> QED
        BY <1>1, <4>1, <4>2 DEF JobFits
    <3>9. Cursors'
      <4>1. CursorFits(b)'
        <5>1. CursorFits(b) /\ blob'[b].handle = NoHandle /\ blob[b].handle = NoHandle
          BY <1>5, <1>7, <3>6 DEF IInv, Cursors, Quiet
        <5>2. CASE blob'[b] = blob[b]
          BY <5>1, <5>2 DEF CursorFits
        <5>3. CASE blob'[b].has = TRUE /\ blob'[b].cached = Content
          BY <5>1, <5>3 DEF CursorFits
        <5> QED
          BY <3>6, <5>2, <5>3
      <4>2. ASSUME NEW d \in Blobs, d # b PROVE CursorFits(d)'
        BY <1>5, <1>13, <2>2, <3>6, <4>2, Untouched
      <4> QED
        BY <4>1, <4>2 DEF Cursors
    <3>10. Streams'
      BY <1>1, <1>5, <1>13, <2>2, Untouched DEF Streams
    <3>11. Tracked'
      <4> SUFFICES ASSUME NEW d \in Blobs, d \in inline'.held \/ ahead'.entry[d].state # "none" \/ rows'.at = 0 PROVE Quiet(d)'
        BY DEF Tracked, TrackedFits
      <4>1. Quiet(d)
        BY <1>1, <3>5 DEF IInv, Tracked, TrackedFits
      <4>2. blob'[d].handle = blob[d].handle /\ blob'[d].bytes = blob[d].bytes
        BY <3>6
      <4>3. \A c \in Callers : call'[c].pc = "job" => call[c].pc = "job"
        BY <2>5
      <4> QED
        BY <1>1, <2>5, <4>1, <4>2, <4>3 DEF Quiet
    <3>12. CallsFit'
      <4> SUFFICES ASSUME NEW c \in Callers, call'[c] = call[c] PROVE CallFits(c)'
        BY <2>5 DEF CallsFit
      <4>1. CallFits(c) /\ call[c].group \subseteq Blobs
        BY <2>5 DEF IInv, CallsFit, Kinds, CallKind
      <4>2. call[c].pc = "job" => b \notin call[c].group
        BY <1>7 DEF Quiet
      <4>3. call[c].pc = "job" => \A d \in call[c].group : blob'[d] = blob[d]
        BY <3>6, <4>1, <4>2
      <4> QED
        BY <1>1, <4>1, <4>3 DEF CallFits
    <3>13. Exclusive'
      BY <2>5 DEF IInv, Exclusive
    <3>14. Kept'
      <4>1. \A d \in Blobs : blob'[d].handle = blob[d].handle
        BY <3>6
      <4>2. \A d \in Blobs, g \in Handles : /\ CursorHas(d, g)' <=> CursorHas(d, g)
                                            /\ StreamHas(d, g)' <=> StreamHas(d, g)
        BY <1>1, <3>5, <4>1, SameJobs
      <4>3. \A d \in Blobs, g \in Handles : ~AheadHas(d, g)' /\ (g # h => ~AheadHas(d, g))
        BY <1>4, <3>5, Constants DEF AheadHas
      <4>4. \A d \in Blobs : ~CursorHas(d, h)' /\ ~StreamHas(d, h)' /\ ~AheadHas(d, h)'
        BY <1>5, <1>6, <4>2, <4>3
      <4>5. \A d \in Blobs, g \in Handles \ {h} :
                (CursorHas(d, g)' <=> CursorHas(d, g)) /\ (StreamHas(d, g)' <=> StreamHas(d, g))
                /\ (AheadHas(d, g)' <=> AheadHas(d, g))
        BY <4>2, <4>3
      <4> QED
        BY <1>1, <1>5, <1>12, <2>2, <3>5, <4>4, <4>5, ClosedKept
    <3> QED
      BY <3>5, <3>7, <3>8, <3>9, <3>10, <3>11, <3>12, <3>13, <3>14 DEF IInv
  <2>6. CASE ~ahead.entry[b].claimed
    <3>1. Settled(done) /\ blob' = blob /\ call' = call
      BY <1>1, <1>15, <2>6
    <3>2. done \in AheadKind /\ done.closed = ahead.closed /\ done.entry[b] = y /\ \A d \in Blobs : d # b => done.entry[d] = ahead.entry[d]
      BY <2>3, <2>4 DEF SameBut
    <3> QED
      BY <1>7, <2>4, <2>5, <3>1, <3>2
  <2>7. CASE ahead.entry[b].claimed
    <3> DEFINE p == Release(done, b)
    <3>1. Claimants(b) # {}
      BY <1>5, <1>7, <2>7 DEF EntryFits
    <3>2. all = Content
      BY <1>3, <1>9, <1>10, <1>15, <2>3
    <3>3. /\ Settled(p)
          /\ blob' = [blob EXCEPT ![b] = [blob[b] EXCEPT !.has = TRUE, !.cached = Content]]
          /\ call' = [c \in Callers |-> IF c \in Claimants(b)
                    THEN [call[c] EXCEPT !.pc = "done", !.data = IF call[c].op = "head" THEN FirstOf(call[c].n, Content) ELSE Content]
                    ELSE call[c]]
      BY Zenon, <1>2, <1>15, <2>7, <3>1, <3>2
    <3>4. /\ p \in AheadKind /\ p.closed = ahead.closed /\ p.entry[b] = Untracked
          /\ \A d \in Blobs : d # b => p.entry[d] = ahead.entry[d]
      <4>1. done \in AheadKind /\ done.closed = ahead.closed /\ \A d \in Blobs : d # b => done.entry[d] = ahead.entry[d]
        BY <2>3, <2>4 DEF SameBut
      <4>2. SameBut(p, done, b, Untracked)
        BY <1>5, <4>1, ReleaseIs
      <4> QED
        BY <4>1, <4>2 DEF SameBut
    <3> HIDE DEF p
    <3>5. \A c \in Callers :
            /\ call'[c] \in CallKind /\ call'[c].group = call[c].group /\ call'[c].op = call[c].op
            /\ call'[c] = call[c] \/ (call[c].pc = "take" /\ call'[c].pc = "done" /\ CallFits(c)' /\ b \in call[c].group)
      <4> SUFFICES ASSUME NEW c \in Callers
                   PROVE  /\ call'[c] \in CallKind /\ call'[c].group = call[c].group /\ call'[c].op = call[c].op
                          /\ call'[c] = call[c] \/ (call[c].pc = "take" /\ call'[c].pc = "done" /\ CallFits(c)' /\ b \in call[c].group)
        OBVIOUS
      <4>0. call[c] \in CallKind /\ CallFits(c)
        BY <1>7 DEF IInv, CallsFit
      <4>1. CASE c \notin Claimants(b)
        BY Zenon, <3>3, <4>0, <4>1
      <4>2. CASE c \in Claimants(b)
        <5> DEFINE data == IF call[c].op = "head" THEN FirstOf(call[c].n, Content) ELSE Content
                   r == [call[c] EXCEPT !.pc = "done", !.data = data]
        <5>1. call'[c] = r
          BY Zenon, <3>3, <4>2
        <5>2. data \in Datas
          BY <4>0, FirstData, Whole0 DEF CallKind
        <5>3. (call[c].op = "head" => data = FirstOf(call[c].n, Content)) /\ (call[c].op # "head" => data = Content)
          OBVIOUS
        <5> HIDE DEF data
        <5>4. r \in CallKind /\ r.pc = "done" /\ r.data = data /\ r.op = call[c].op /\ r.n = call[c].n /\ r.group = call[c].group
          BY <4>0, <5>2 DEF CallKind
        <5> HIDE DEF r
        <5>5. call[c].pc = "take" /\ b \in call[c].group
          BY <4>2 DEF Claimants
        <5>6. CallFits(c)'
          BY <1>1, <4>0, <5>1, <5>3, <5>4, <5>5 DEF CallFits
        <5> QED
          BY <5>1, <5>4, <5>5, <5>6
      <4> QED
        BY <4>1, <4>2
    <3>6. call' \in [Callers -> CallKind]
      BY Zenon, <3>3, <3>5
    <3>7. Untracked.state = "none" /\ Untracked.bytes = <<>> /\ ~Untracked.claimed
      BY DEF Untracked
    <3> QED
      BY Zenon, <2>5, <3>3, <3>4, <3>5, <3>6, <3>7
  <2> QED
    BY <2>6, <2>7
<1> QED
  BY <1>8, <1>14, <1>15

\* The invariant is kept when a fetch that was abandoned or has failed closes its handle.
LEMMA StopFetch_IInv ==
    ASSUME IInv, StopFetch
    PROVE  IInv'
<1> SUFFICES ASSUME NEW b, b = job.b, NEW h, h = ahead.handle PROVE IInv'
  OBVIOUS
<1> DEFINE failed == job.kind = "giveUp"
           claimed == ahead.entry[b].claimed
           p == Release(ahead, b)
           s0 == IF failed /\ ~claimed THEN [p EXCEPT !.entry[b].state = "error"] ELSE p
<1>0. /\ chain # <<>> /\ job.kind \in {"abandon", "giveUp"}
      /\ IF h # NoHandle THEN Closes(open, h) ELSE open' = open /\ stray' = stray
      /\ Settled(s0)
      /\ call' = [c \in Callers |-> IF failed /\ c \in Claimants(b) THEN NoCall ELSE call[c]]
      /\ blob' = blob /\ stream' = stream /\ rows' = rows /\ alive' = alive /\ calls' = calls
  BY DEF StopFetch, Running
<1>b. s0 = p \/ s0 = [p EXCEPT !.entry[b].state = "error"]
  OBVIOUS
<1> HIDE DEF p, s0, failed, claimed
<1> SUFFICES ASSUME NEW s, s = s0 PROVE IInv'
  OBVIOUS
<1>1. /\ chain # <<>> /\ job.kind \in {"abandon", "giveUp"}
      /\ IF h # NoHandle THEN Closes(open, h) ELSE open' = open /\ stray' = stray
      /\ Settled(s)
      /\ call' = [c \in Callers |-> IF failed /\ c \in Claimants(b) THEN NoCall ELSE call[c]]
      /\ blob' = blob /\ stream' = stream /\ rows' = rows /\ alive' = alive /\ calls' = calls
  BY <1>0
<1>2. s = p \/ s = [p EXCEPT !.entry[b].state = "error"]
  BY <1>b
<1>3. /\ job \in Jobs /\ job \in JobKind /\ Live /\ b \in Blobs /\ ahead.running = b /\ ahead.entry[b].state = "fetching"
      /\ job.kind \in Fetches
  <2>1. job \in Jobs /\ job \in JobKind /\ Live
    BY <1>1, JobTypes DEF IInv, Live
  <2>2. job.kind \in Fetches
    BY <1>1 DEF Fetches
  <2> QED
    BY <2>1, <2>2 DEF IInv, AheadFits
<1>4. /\ ahead \in AheadKind /\ AheadFits /\ call \in [Callers -> CallKind]
      /\ (\A d \in Blobs : EntryFits(d) /\ (d # b => ahead.entry[d].state # "fetching"))
  <2>1. \A d \in Blobs : EntryFits(d) /\ (d # b => ahead.entry[d].state # "fetching")
    BY <1>3 DEF IInv, Entries, EntryFits
  <2> QED
    BY <2>1 DEF IInv, Kinds
<1>5. /\ s \in AheadKind /\ s.closed = ahead.closed /\ (\A d \in Blobs : d # b => s.entry[d] = ahead.entry[d])
      /\ s.entry[b].state \in {"none", "error"} /\ s.entry[b].bytes = <<>> /\ ~s.entry[b].claimed
  <2>1. SameBut(p, ahead, b, Untracked)
    BY <1>3, <1>4, ReleaseIs DEF p
  <2>2. Untracked.state = "none" /\ Untracked.bytes = <<>> /\ ~Untracked.claimed /\ Untracked \in EntryKind
    BY NewKinds DEF Untracked
  <2>3. p \in AheadKind /\ p.entry[b] = Untracked /\ p.closed = ahead.closed /\ \A d \in Blobs : d # b => p.entry[d] = ahead.entry[d]
    BY <2>1 DEF SameBut
  <2>4. CASE s = p
    BY <2>2, <2>3, <2>4
  <2>5. CASE s = [p EXCEPT !.entry[b].state = "error"]
    <3> DEFINE x == [Untracked EXCEPT !.state = "error"]
    <3>1. x \in EntryKind /\ x.state = "error" /\ x.bytes = <<>> /\ ~x.claimed
      BY <2>2 DEF EntryKind
    <3>2. PutFor(s, p, b, x, p.used)
      BY <1>3, <2>3, <2>5 DEF PutFor, AheadKind
    <3>3. p.used \in Int
      BY <2>3 DEF AheadKind
    <3> HIDE DEF x
    <3>4. SameBut(s, p, b, x)
      BY <1>3, <2>3, <3>1, <3>2, <3>3, PutIs
    <3> QED
      BY <2>3, <3>1, <3>4 DEF SameBut
  <2> QED
    BY <1>2, <2>4, <2>5
<1>6. /\ call' \in [Callers -> CallKind]
      /\ \A c \in Callers : call'[c] = call[c] \/ (/\ call'[c].pc = "idle" /\ call'[c].op = "none" /\ call'[c].group = {}
                                                   /\ call[c].pc = "take" /\ b \in call[c].group)
  <2>1. NoCall \in CallKind /\ NoCall.pc = "idle" /\ NoCall.op = "none" /\ NoCall.group = {}
    BY NewKinds DEF NoCall
  <2> QED
    BY <1>1, <1>4, <2>1 DEF Claimants
<1> DEFINE q == Idle(s)
<1>7. /\ q \in AheadKind /\ q.running = Nobody /\ q.handle = NoHandle /\ q.entry = s.entry /\ q.closed = ahead.closed
      /\ Kick(q) /\ Ends(JobsOf(q))
  BY Zenon, <1>1, <1>5, IdleIs DEF Settled, Idle
<1> HIDE DEF q
<1>8. \A d \in Blobs : d # b => Claimants(d) \subseteq Claimants(d)'
  <2> SUFFICES ASSUME NEW d \in Blobs, d # b, NEW c \in Claimants(d) PROVE c \in Claimants(d)'
    OBVIOUS
  <2>1. c \in Callers /\ call[c].pc = "take" /\ d \in call[c].group
    BY DEF Claimants
  <2>2. CallFits(c)
    BY <2>1 DEF IInv, CallsFit
  <2>3. b \notin call[c].group
    BY <2>1, <2>2 DEF CallFits
  <2>4. call'[c] = call[c]
    BY <1>6, <2>1, <2>3
  <2> QED
    BY <2>1, <2>4 DEF Claimants
<1>9. \A d \in Blobs : EntryOk(q, d)'
  <2> SUFFICES ASSUME NEW d \in Blobs PROVE EntryOk(q, d)'
    OBVIOUS
  <2>1. CASE d = b
    BY <1>5, <1>7, <2>1 DEF EntryOk
  <2>2. CASE d # b
    BY <1>4, <1>5, <1>7, <1>8, <2>2 DEF EntryOk, EntryFits
  <2> QED
    BY <2>1, <2>2
<1>10. \A d \in Blobs : q.entry[d].state # "none" => ahead.entry[d].state # "none"
  BY <1>3, <1>5, <1>7
<1>11. /\ ahead' \in AheadKind /\ ahead'.handle = NoHandle /\ inline'.held \subseteq inline.held
       /\ (\A d \in Blobs : ahead'.entry[d].state # "none" => ahead.entry[d].state # "none")
       /\ Entries' /\ AheadFits' /\ Abandons' /\ Line' /\ Live' /\ busy' = "no" /\ BusyFits'
       /\ chain' \in Seq(JobKind) /\ (\A j \in Jobs' : j \in Jobs \/ (j.kind = "slice" /\ JobFits(j)'))
       /\ \A j \in Jobs' \cup Jobs : j.kind \in KeeperJobs => j \in Jobs' /\ j \in Jobs
  BY <1>1, <1>3, <1>7, <1>9, <1>10, KickedEnds
<1>12. h # NoHandle => /\ h \in Handles /\ h \in DOMAIN open /\ AheadHas(b, h)
                       /\ \A d \in Blobs : ~CursorHas(d, h) /\ ~StreamHas(d, h) /\ (d # b => ~AheadHas(d, h))
  <2> SUFFICES ASSUME h # NoHandle
               PROVE  /\ h \in Handles /\ h \in DOMAIN open /\ AheadHas(b, h)
                      /\ \A d \in Blobs : ~CursorHas(d, h) /\ ~StreamHas(d, h) /\ (d # b => ~AheadHas(d, h))
    OBVIOUS
  <2>1. h \in Handles /\ AheadHas(b, h)
    BY <1>3, <1>4 DEF AheadKind, AheadHas
  <2> QED
    BY <1>3, <2>1, KeeperOf
<1>13. Kept /\ DOMAIN open \subseteq Handles /\ (\A g \in DOMAIN open : open[g] \in OpenKind)
  BY DEF IInv, Kinds
<1>14. /\ DOMAIN open' = DOMAIN open \ {h} /\ (stray' => stray)
       /\ (\A g \in DOMAIN open : g # h => g \in DOMAIN open' /\ open'[g] = open[g])
       /\ (\A g \in DOMAIN open' : open'[g] \in OpenKind /\ g \in Handles /\ open'[g].b = open[g].b)
  <2>1. CASE h # NoHandle
    BY <1>1, <1>12, <1>13, <2>1 DEF Closes
  <2>2. CASE h = NoHandle
    <3>1. h \notin DOMAIN open
      BY <1>13, <2>2, Constants
    <3> QED
      BY <1>1, <1>13, <2>2, <3>1
  <2> QED
    BY <2>1, <2>2
<1>15. \A d \in Blobs, g \in Handles : /\ CursorHas(d, g)' <=> CursorHas(d, g)
                                       /\ StreamHas(d, g)' <=> StreamHas(d, g)
  BY <1>1, <1>11, SameJobs
<1>16. \A d \in Blobs, g \in Handles : ~AheadHas(d, g)' /\ (g # h => ~AheadHas(d, g))
  BY <1>11, Constants DEF AheadHas
<1>17. Kept'
  <2>1. CASE h # NoHandle
    <3>1. \A d \in Blobs : ~CursorHas(d, h)' /\ ~StreamHas(d, h)' /\ ~AheadHas(d, h)'
      BY <1>12, <1>15, <1>16, <2>1
    <3>2. \A d \in Blobs, g \in Handles \ {h} :
              (CursorHas(d, g)' <=> CursorHas(d, g)) /\ (StreamHas(d, g)' <=> StreamHas(d, g))
              /\ (AheadHas(d, g)' <=> AheadHas(d, g))
      BY <1>15, <1>16
    <3> QED
      BY <1>1, <1>3, <1>11, <1>12, <1>13, <1>14, <2>1, <3>1, <3>2, ClosedKept
  <2>2. CASE h = NoHandle
    <3>1. open' = open /\ stray' = stray
      BY <1>1, <2>2
    <3>2. \A g \in Handles : g # h
      BY <2>2, Constants
    <3>3. \A d \in Blobs, g \in Handles :
              (CursorHas(d, g)' <=> CursorHas(d, g)) /\ (StreamHas(d, g)' <=> StreamHas(d, g))
              /\ (AheadHas(d, g)' <=> AheadHas(d, g))
      BY <1>15, <1>16, <3>2
    <3> QED
      BY <1>1, <1>3, <1>11, <1>13, <3>1, <3>3, StillKept
  <2> QED
    BY <2>1, <2>2
<1>18. Kinds'
  BY <1>1, <1>6, <1>11, <1>14 DEF IInv, Kinds
<1>19. JobsFit'
  <2> SUFFICES ASSUME NEW j \in Jobs PROVE JobFits(j)'
    BY <1>11 DEF JobsFit
  <2>1. JobFits(j)
    BY DEF IInv, JobsFit
  <2>2. j.kind \in Calls => call'[j.who] = call[j.who]
    BY <1>6, <2>1 DEF JobFits
  <2> QED
    BY <1>1, <2>1, <2>2 DEF JobFits
<1>20. Cursors' /\ Streams'
  <2>1. \A d \in Blobs : /\ blob[d].handle # NoHandle => CursorHas(d, blob[d].handle) /\ blob[d].handle \in DOMAIN open
                         /\ stream[d].handle # NoHandle /\ ~stream[d].finished =>
                                StreamHas(d, stream[d].handle) /\ stream[d].handle \in DOMAIN open
    BY <1>3, Known
  <2>2. \A d \in Blobs : /\ blob[d].handle # NoHandle => open'[blob[d].handle] = open[blob[d].handle]
                         /\ stream[d].handle # NoHandle /\ ~stream[d].finished => open'[stream[d].handle] = open[stream[d].handle]
    <3> SUFFICES ASSUME NEW d \in Blobs
                 PROVE  /\ blob[d].handle # NoHandle => open'[blob[d].handle] = open[blob[d].handle]
                        /\ stream[d].handle # NoHandle /\ ~stream[d].finished => open'[stream[d].handle] = open[stream[d].handle]
      OBVIOUS
    <3>1. blob[d].handle # NoHandle => blob[d].handle # h
      BY <1>12, <2>1
    <3>2. stream[d].handle # NoHandle /\ ~stream[d].finished => stream[d].handle # h
      BY <1>12, <2>1
    <3> QED
      BY <1>14, <2>1, <3>1, <3>2
  <2>3. \A d \in Blobs : CursorFits(d)' /\ StreamFits(d)'
    BY <1>1, <1>3, <2>2, OthersFit
  <2> QED
    BY <2>3 DEF Cursors, Streams
<1>21. Tracked'
  <2> SUFFICES ASSUME NEW d \in Blobs, d \in inline'.held \/ ahead'.entry[d].state # "none" \/ rows'.at = 0 PROVE Quiet(d)'
    BY DEF Tracked, TrackedFits
  <2>1. Quiet(d)
    BY <1>1, <1>11 DEF IInv, Tracked, TrackedFits
  <2>2. \A c \in Callers : call'[c].pc = "job" => call'[c] = call[c]
    BY <1>6
  <2> QED
    BY <1>1, <2>1, <2>2 DEF Quiet
<1>22. CallsFit' /\ Exclusive'
  <2>1. ASSUME NEW c \in Callers PROVE CallFits(c)'
    <3>1. CallFits(c)
      BY DEF IInv, CallsFit
    <3>2. CASE call'[c] = call[c]
      BY <1>1, <3>1, <3>2 DEF CallFits
    <3>3. CASE call'[c].pc = "idle" /\ call'[c].op = "none" /\ call'[c].group = {}
      BY <3>3 DEF CallFits
    <3> QED
      BY <1>6, <3>2, <3>3
  <2>2. Exclusive'
    BY <1>6 DEF IInv, Exclusive
  <2> QED
    BY <2>1, <2>2 DEF CallsFit
<1> QED
  BY <1>11, <1>17, <1>18, <1>19, <1>20, <1>21, <1>22 DEF IInv

\* Nothing happens.
LEMMA Idles_IInv ==
    ASSUME IInv, UNCHANGED vars
    PROVE  IInv'
<1>1. /\ blob' = blob /\ call' = call /\ stream' = stream /\ ahead' = ahead /\ inline' = inline /\ chain' = chain /\ busy' = busy
      /\ rows' = rows /\ alive' = alive /\ open' = open /\ stray' = stray /\ calls' = calls
  BY DEF vars, client
<1>2. Jobs' = Jobs /\ Line' /\ Live' = Live /\ JobsFit' /\ Cursors' /\ Streams' /\ Entries' /\ Abandons' /\ AheadFits'
      /\ Tracked' /\ CallsFit' /\ Exclusive' /\ BusyFits'
  BY <1>1, Frames DEF Jobs
<1>3. Kinds'
  BY <1>1 DEF IInv, Kinds
<1>4. Kept'
  BY <1>1 DEF IInv, Kept, KeptFits, OwnedFits, Live, CursorHas, StreamHas, AheadHas, HasJob, Jobs
<1> QED
  BY <1>2, <1>3, <1>4 DEF IInv

\* Every step keeps the invariant.
LEMMA Next_IInv ==
    ASSUME IInv, Habits = {}, [Next]_vars
    PROVE  IInv'
<1>1. CASE Turn
  <2>1. CASE StartHead
    BY <2>1, StartHead_IInv
  <2>2. CASE StartWhole
    BY <2>2, StartWhole_IInv
  <2>3. CASE StartResume
    BY <2>3, StartResume_IInv
  <2>4. CASE StartSlice
    BY <2>4, StartSlice_IInv
  <2>5. CASE StartPull
    BY <2>5, StartPull_IInv
  <2>6. CASE AtEnd
    BY <2>6, AtEnd_IInv
  <2>7. CASE AnswerOpen
    BY <2>7, AnswerOpen_IInv
  <2>8. CASE AnswerCursor
    BY <2>8, AnswerCursor_IInv
  <2>9. CASE AnswerWhole
    BY <2>9, AnswerWhole_IInv
  <2>10. CASE AnswerPull
    BY <2>10, AnswerPull_IInv
  <2>11. CASE AnswerSlice
    BY <2>11, AnswerSlice_IInv
  <2>12. CASE Fails
    BY <2>12, Fails_IInv
  <2>13. CASE SkipPull
    BY <2>13, SkipPull_IInv
  <2>14. CASE CloseJob
    BY <2>14, CloseJob_IInv
  <2>15. CASE StopFetch
    BY <2>15, StopFetch_IInv
  <2>16. CASE LastJob
    BY <2>16, LastJob_IInv
  <2> QED
    BY <1>1, <2>1, <2>2, <2>3, <2>4, <2>5, <2>6, <2>7, <2>8, <2>9, <2>10, <2>11, <2>12, <2>13, <2>14, <2>15, <2>16 DEF Turn
<1>2. CASE Advance
  BY <1>2, Advance_IInv
<1>3. CASE Leave
  BY <1>3, Leave_IInv
<1>4. CASE End
  BY <1>4, End_IInv
<1>5. CASE Rekick
  BY <1>5, Rekick_IInv
<1>6. ASSUME NEW b \in Blobs, StoreInline(b) \/ Read(b) \/ Destroy(b)
      PROVE  IInv'
  BY <1>6, StoreInline_IInv, Read_IInv, Destroy_IInv
<1>7. ASSUME NEW c \in Callers, Return(c) \/ Bulk(c)
      PROVE  IInv'
  BY <1>7, Return_IInv, Bulk_IInv
<1>8. ASSUME NEW c \in Callers, NEW b \in Blobs, Close(c, b) \/ Stream(c, b)
      PROVE  IInv'
  BY <1>8, Close_IInv, Stream_IInv
<1>9. ASSUME NEW c \in Callers, NEW b \in Blobs, NEW o \in {"head", "buffer"}, NEW n \in IF o = "head" THEN Heads ELSE {Size + 1},
             ReadInline(c, o, b, n) \/ Claim(c, o, b, n) \/ ReadLocked(c, o, b, n)
      PROVE  IInv'
  BY <1>9, ReadInline_IInv, Claim_IInv, ReadLocked_IInv
<1>10. CASE UNCHANGED vars
  BY <1>10, Idles_IInv
<1> QED
  BY <1>1, <1>2, <1>3, <1>4, <1>5, <1>6, <1>7, <1>8, <1>9, <1>10 DEF Next

\* The invariant implies that handles are exact,
LEMMA HandlesFollow == IInv => HandlesExact
<1> SUFFICES ASSUME IInv PROVE HandlesExact
  OBVIOUS
<1>1. Kinds
  BY DEF IInv
<1>2. TypeOK
  <2>1. /\ \A b \in Blobs :
            /\ blob[b].handle \in Handles \cup {NoHandle} /\ blob[b].bytes \in 0..Size
            /\ stream[b].handle \in Handles \cup {NoHandle}
    BY <1>1 DEF Kinds, BlobKind, StreamKind
  <2>2. \A b \in Blobs : ahead.entry[b].state \in {"none", "queued", "fetching", "done", "error"}
    BY <1>1 DEF Kinds, AheadKind, EntryKind
  <2>3. \A c \in Callers : call[c].pc \in {"idle", "job", "take", "done"} /\ call[c].group \subseteq Blobs
    BY <1>1 DEF Kinds, CallKind
  <2>4. ahead.running \in Blobs \cup {Nobody} /\ rows.state \in {"reading", "leaving", "left"}
    BY <1>1 DEF Kinds, AheadKind
  <2> QED
    BY <1>1, <2>1, <2>2, <2>3, <2>4 DEF TypeOK, Kinds
<1>3. HandlesOwned
  <2> SUFFICES ASSUME NEW h \in DOMAIN open PROVE Owned(h)
    BY DEF HandlesOwned
  <2>1. h \in Handles
    BY <1>1 DEF Kinds
  <2>2. CASE alive
    <3>1. PICK b \in Blobs : CursorHas(b, h) \/ StreamHas(b, h) \/ AheadHas(b, h)
      BY <2>2 DEF IInv, Kept, OwnedFits
    <3>2. CASE CursorHas(b, h)
      BY <3>2 DEF CursorHas, Owned, Jobs
    <3>3. CASE StreamHas(b, h)
      BY <3>3 DEF StreamHas, HasJob, Owned, Jobs
    <3>4. CASE AheadHas(b, h)
      BY <3>4 DEF AheadHas, Owned
    <3> QED
      BY <3>1, <3>2, <3>3, <3>4
  <2>3. CASE ~alive
    <3>1. chain # <<>>
      BY <2>3 DEF IInv, Kept, OwnedFits
    <3>2. Len(chain) \in 1..Len(chain)
      <4>1. Len(chain) \in Nat /\ 1 \in 1..Len(chain)
        BY <1>1, <3>1, JobTypes
      <4> QED
        BY <4>1
    <3>3. chain[Len(chain)].kind = "end"
      BY <2>3, <3>1 DEF IInv, Line
    <3> QED
      BY <3>2, <3>3 DEF Owned
  <2> QED
    BY <2>2, <2>3
<1>4. HandlesOpen
  <2> SUFFICES ASSUME alive, NEW b \in Blobs,
                      NEW h \in {blob[b].handle} \cup (IF stream[b].finished THEN {} ELSE {stream[b].handle})
                                    \cup (IF ahead.running = b THEN {ahead.handle} ELSE {}),
                      h # NoHandle
               PROVE  h \in DOMAIN open /\ open[h].b = b
    BY DEF HandlesOpen
  <2>1. Live
    BY DEF Live
  <2>2. CursorHas(b, h) \/ StreamHas(b, h) \/ AheadHas(b, h)
    BY <2>1, Known DEF AheadHas
  <2>3. h \in Handles
    BY <1>1 DEF Kinds, BlobKind, StreamKind, AheadKind
  <2> QED
    BY <2>1, <2>2, <2>3, KeeperOf
<1>5. ClosesLive
  BY DEF IInv, Kept, ClosesLive
<1> QED
  BY <1>2, <1>3, <1>4, <1>5 DEF HandlesExact

\* The beginning of a blob is one.
LEMMA Beginning ==
    ASSUME NEW d \in Datas
    PROVE  IsPrefix(d, Content)
<1>1. Size \in Nat /\ Len(d) \in 0..Size /\ d = Segs(Len(d))
  BY Constants, DataLen
<1>2. Len(Content) = Size
  BY <1>1 DEF Content
<1> SUFFICES ASSUME NEW m, m = Len(d) PROVE IsPrefix(d, Content)
  OBVIOUS
<1>3. m \in 0..Size /\ d = Segs(m) /\ m \in Nat
  BY <1>1
<1>4. SubSeq(d, 1, m) = d
  <2>1. d \in Seq(Nat) /\ Len(d) = m
    BY <1>3, SegmentsOf
  <2> QED
    BY <2>1, SubSeqFull
<1>5. SubSeq(Content, 1, m) = d
  BY <1>3 DEF Segs
<1>6. m <= Size
  BY <1>1, <1>3
<1> QED
  BY <1>2, <1>4, <1>5, <1>6 DEF IsPrefix

\* and that bytes are right.
LEMMA BytesFollow == IInv => BytesRight
<1> SUFFICES ASSUME IInv PROVE BytesRight
  OBVIOUS
<1>1. ASSUME NEW b \in Blobs
      PROVE  /\ blob[b].has => blob[b].cached = Content
             /\ IsPrefix(stream[b].given \o stream[b].lead, Content)
             /\ stream[b].ended => stream[b].given = Content
  <2>1. CursorFits(b) /\ StreamFits(b) /\ stream[b] \in StreamKind
    BY DEF IInv, Cursors, Streams, Kinds
  <2>2. stream[b].given \in Datas /\ stream[b].lead \in Datas
    BY <2>1 DEF StreamKind
  <2>3. stream[b].given \o stream[b].lead \in Datas
    <3>1. stream[b].given \in Seq(Nat) /\ stream[b].lead \in Seq(Nat)
      BY <2>2, SegmentsOf DEF Datas
    <3>2. CASE stream[b].given = <<>>
      <4>1. stream[b].given \o stream[b].lead = stream[b].lead
        BY <3>1, <3>2, ConcatEmptySeq
      <4> QED
        BY <2>2, <4>1
    <3>3. CASE stream[b].lead = <<>>
      <4>1. stream[b].given \o stream[b].lead = stream[b].given
        BY <3>1, <3>3, ConcatEmptySeq
      <4> QED
        BY <2>2, <4>1
    <3> QED
      BY <2>1, <3>2, <3>3 DEF StreamFits
  <2> QED
    BY <2>1, <2>3, Beginning DEF CursorFits, StreamFits
<1>2. ASSUME NEW c \in Callers, call[c].pc = "done"
      PROVE  /\ call[c].op = "buffer" => call[c].data = Content
             /\ call[c].op = "head" => call[c].data = FirstOf(call[c].n, Content)
  BY <1>2 DEF IInv, CallsFit, CallFits
<1> QED
  BY <1>1, <1>2 DEF BytesRight

-----------------------------------------------------------------------------
(* What a fold over the entries of the read-ahead sums up to. The library's  *)
(* induction theorems cannot be cited, for they take a predicate; that the   *)
(* finite subsets of a set are well founded can, and so an induction is over *)
(* a least set for which what is claimed is wrong.                           *)

\* A set of finite sets has one that contains no other of them,
LEMMA LeastSet ==
    ASSUME NEW S, NEW T, T \subseteq FiniteSubsetsOf(S), T # {}
    PROVE \E x \in T : \A y \in T : y \subseteq x => y = x
<1>1. \E x \in T : \A y \in T : ~(<<y, x>> \in StrictSubsetOrdering(S))
  BY FS_StrictSubsetOrderingWellFounded, WFMin
<1> QED
  BY <1>1 DEF StrictSubsetOrdering, FiniteSubsetsOf

\* and one of numbers a least.
LEMMA LeastNat ==
    ASSUME NEW T \in SUBSET Nat, T # {}
    PROVE \E n \in T : \A m \in T : n <= m
<1> DEFINE Initial == {0..n : n \in T}
<1>1. Initial \subseteq FiniteSubsetsOf(Nat)
  <2>1. \A n \in T : 0..n \in SUBSET Nat /\ IsFiniteSet(0..n)
    BY FS_Interval
  <2> QED
    BY <2>1 DEF FiniteSubsetsOf
<1>2. Initial # {}
  OBVIOUS
<1>3. PICK x \in Initial : \A y \in Initial : y \subseteq x => y = x
  <2> HIDE DEF Initial
  <2> QED
    BY <1>1, <1>2, LeastSet
<1>4. PICK n \in T : x = 0..n
  OBVIOUS
<1>5. ASSUME NEW m \in T PROVE n <= m
  <2> SUFFICES ASSUME m < n PROVE FALSE
    OBVIOUS
  <2>1. 0..m \in Initial /\ 0..m \subseteq 0..n
    OBVIOUS
  <2>2. 0..m = 0..n
    BY <2>1, <1>3, <1>4
  <2>3. n \in 0..n /\ n \notin 0..m
    OBVIOUS
  <2> QED
    BY <2>2, <2>3
<1> QED
  BY <1>5

\* What the entries for S hold, and the sums over its subsets that come to it.
Total(f, S) == FoldFunctionOnSet(LAMBDA e, n : n + Len(e.bytes), 0, f, S)
LastOf(s) == CHOOSE x \in s : TRUE
Sum(g, f, s) == IF s = {} THEN 0 ELSE g[s \ {LastOf(s)}] + Len(f[LastOf(s)].bytes)
IsIter(g, f, S) == g = [s \in SUBSET S |-> Sum(g, f, s)]
Sums(f, S) == CHOOSE g : IsIter(g, f, S)

\* The total is the sum over the whole set.
LEMMA TotalIs ==
    ASSUME NEW f, NEW S
    PROVE Total(f, S) = Sums(f, S)[S]
BY DEF Total, FoldFunctionOnSet, MapThenFoldSet, IsIter, Sum, LastOf, Sums

\* The member that is counted last is one,
LEMMA LastOfIn ==
    ASSUME NEW s, s # {}
    PROVE LastOf(s) \in s
BY DEF LastOf

\* and without it there is one less.
LEMMA Fewer ==
    ASSUME NEW s, IsFiniteSet(s), NEW x \in s
    PROVE /\ IsFiniteSet(s \ {x}) /\ Cardinality(s) \in Nat /\ Cardinality(s \ {x}) \in Nat
          /\ Cardinality(s \ {x}) = Cardinality(s) - 1
BY FS_RemoveElement, FS_CardinalityType

\* The recursion has a solution: one for the sets of less than n members gives one for
\* those of n.
LEMMA IterExists ==
    ASSUME NEW f, NEW S, IsFiniteSet(S)
    PROVE \E g : IsIter(g, f, S)
<1> DEFINE Up(n) == {s \in SUBSET S : Cardinality(s) <= n}
           Bad == {n \in Nat : ~ \E g : g = [s \in Up(n) |-> Sum(g, f, s)]}
<1>0. Cardinality(S) \in Nat
  BY FS_CardinalityType
<1>1. CASE Cardinality(S) \notin Bad
  <2>1. Up(Cardinality(S)) = SUBSET S
    BY FS_Subset
  <2> QED
    BY <1>0, <1>1, <2>1 DEF IsIter
<1>2. CASE Cardinality(S) \in Bad
  <2>2. PICK n \in Bad : \A m \in Bad : n <= m
    <3>1. Bad \in SUBSET Nat
      OBVIOUS
    <3> HIDE DEF Bad
    <3> QED
      BY <1>2, <3>1, LeastNat
  <2>a. n \in Nat /\ ~ \E g : g = [s \in Up(n) |-> Sum(g, f, s)]
    OBVIOUS
  <2>b. \A s \in SUBSET S : IsFiniteSet(s) /\ Cardinality(s) \in Nat
    BY FS_Subset, FS_CardinalityType
  <2>c. ASSUME NEW s \in SUBSET S, s # {}
        PROVE  s \ {LastOf(s)} \in SUBSET S /\ Cardinality(s \ {LastOf(s)}) = Cardinality(s) - 1 /\ Cardinality(s) > 0
    <3>1. LastOf(s) \in s
      BY <2>c, LastOfIn
    <3>2. /\ Cardinality(s) \in Nat /\ Cardinality(s \ {LastOf(s)}) \in Nat
          /\ Cardinality(s \ {LastOf(s)}) = Cardinality(s) - 1
      BY <2>b, <3>1, Fewer
    <3>3. s \ {LastOf(s)} \in SUBSET S
      OBVIOUS
    <3> HIDE DEF Bad, Up
    <3> QED
      BY <3>2, <3>3
  <2>3. n > 0
    <3>1. SUFFICES ASSUME n = 0 PROVE FALSE
      BY <2>a
    <3> DEFINE g == [s \in Up(n) |-> 0]
    <3>2. ASSUME NEW s \in Up(n) PROVE s = {}
      <4>1. s \in SUBSET S /\ Cardinality(s) <= 0
        BY <3>1
      <4>2. Cardinality(s) \in Nat
        BY <4>1, <2>b
      <4>3. s # {} => Cardinality(s) > 0
        BY <4>1, <2>c
      <4> HIDE DEF Up, Bad
      <4> QED
        BY <4>1, <4>2, <4>3
    <3>3. \A s \in Up(n) : Sum(g, f, s) = 0
      <4> HIDE DEF Up
      <4> QED
        BY <3>2 DEF Sum
    <3>4. g = [s \in Up(n) |-> Sum(g, f, s)]
      BY <3>3
    <3> QED
      BY <3>4, <2>a
  <2>4. n - 1 \in Nat /\ n - 1 \notin Bad
    <3>1. n - 1 \in Nat /\ ~(n <= n - 1)
      BY <2>a, <2>3
    <3> HIDE DEF Bad
    <3> QED
      BY <3>1, <2>2
  <2>5. PICK h : h = [s \in Up(n - 1) |-> Sum(h, f, s)]
    BY <2>4
  <2> DEFINE g == [s \in Up(n) |-> Sum(h, f, s)]
  <2>6. \A s \in Up(n - 1) : s \in Up(n) /\ h[s] = g[s]
    <3>1. \A s \in Up(n - 1) : s \in Up(n)
      BY <2>a, <2>b
    <3>2. \A s \in Up(n - 1) : h[s] = Sum(h, f, s)
      BY <2>5
    <3> HIDE DEF Up
    <3> QED
      BY <3>1, <3>2
  <2>7. ASSUME NEW s \in Up(n) PROVE Sum(h, f, s) = Sum(g, f, s)
    <3>1. CASE s = {}
      BY <3>1 DEF Sum
    <3>2. CASE s # {}
      <4>1. s \ {LastOf(s)} \in Up(n - 1)
        BY <3>2, <2>a, <2>b, <2>c
      <4>2. h[s \ {LastOf(s)}] = g[s \ {LastOf(s)}]
        BY <4>1, <2>6
      <4> HIDE DEF g, Up
      <4> QED
        BY <4>2, <3>2 DEF Sum
    <3> QED
      BY <3>1, <3>2
  <2>8. g = [s \in Up(n) |-> Sum(g, f, s)]
    BY <2>7
  <2> QED
    BY <2>8, <2>a
<1> QED
  BY <1>1, <1>2

\* The sums are that solution,
LEMMA SumsAre ==
    ASSUME NEW f, NEW S, IsFiniteSet(S), NEW s \in SUBSET S
    PROVE Sums(f, S)[s] = Sum(Sums(f, S), f, s)
<1>1. IsIter(Sums(f, S), f, S)
  BY IterExists DEF Sums
<1> DEFINE g == Sums(f, S)
<1>2. g = [t \in SUBSET S |-> Sum(g, f, t)]
  BY <1>1 DEF IsIter
<1> HIDE DEF g
<1>3. g[s] = Sum(g, f, s)
  BY <1>2
<1> QED
  BY <1>3 DEF g

\* What can be counted.
Lengths(f, S) == \A x \in S : Len(f[x].bytes) \in Nat

\* and what it says of one set.
LEMMA SumOf ==
    ASSUME NEW f, NEW S, IsFiniteSet(S), NEW s \in SUBSET S
    PROVE /\ s = {} => Sums(f, S)[s] = 0
          /\ s # {} => /\ LastOf(s) \in s
                       /\ Sums(f, S)[s] = Sums(f, S)[s \ {LastOf(s)}] + Len(f[LastOf(s)].bytes)
<1> DEFINE g == Sums(f, S)
<1>1. g[s] = Sum(g, f, s)
  BY SumsAre
<1> HIDE DEF g
<1>2. s = {} => g[s] = 0
  BY <1>1 DEF Sum
<1>3. s # {} => LastOf(s) \in s /\ g[s] = g[s \ {LastOf(s)}] + Len(f[LastOf(s)].bytes)
  BY <1>1, LastOfIn DEF Sum
<1> QED
  BY <1>2, <1>3 DEF g

\* The sums are numbers.
LEMMA SumsNat ==
    ASSUME NEW f, NEW S, IsFiniteSet(S), Lengths(f, S), NEW s \in SUBSET S
    PROVE Sums(f, S)[s] \in Nat
<1> DEFINE Bad == {t \in SUBSET S : Sums(f, S)[t] \notin Nat}
<1>1. SUFFICES ASSUME s \in Bad PROVE FALSE
  OBVIOUS
<1>2. PICK t \in Bad : \A u \in Bad : u \subseteq t => u = t
  <2>1. Bad \subseteq FiniteSubsetsOf(S)
    BY FS_FiniteSubsetsOfFinite
  <2> HIDE DEF Bad
  <2> QED
    BY <1>1, <2>1, LeastSet
<1>3. t \in SUBSET S /\ Sums(f, S)[t] \notin Nat
  OBVIOUS
<1>4. t # {}
  <2>1. t = {} => Sums(f, S)[t] = 0
    BY <1>3, SumOf
  <2> QED
    BY <1>3, <2>1
<1>5. LastOf(t) \in t /\ Sums(f, S)[t] = Sums(f, S)[t \ {LastOf(t)}] + Len(f[LastOf(t)].bytes)
  BY <1>3, <1>4, SumOf
<1>6. t \ {LastOf(t)} \in SUBSET S /\ t \ {LastOf(t)} \subseteq t /\ t \ {LastOf(t)} # t
  BY <1>3, <1>5
<1>7. t \ {LastOf(t)} \notin Bad
  <2> HIDE DEF Bad
  <2> QED
    BY <1>2, <1>6
<1>8. Sums(f, S)[t \ {LastOf(t)}] \in Nat
  BY <1>6, <1>7
<1>9. Len(f[LastOf(t)].bytes) \in Nat
  BY <1>3, <1>5 DEF Lengths
<1> QED
  BY <1>3, <1>5, <1>8, <1>9

\* It does not matter which member is counted last.
LEMMA SumWithout ==
    ASSUME NEW f, NEW S, IsFiniteSet(S), Lengths(f, S), NEW s \in SUBSET S, NEW b \in s
    PROVE Sums(f, S)[s] = Sums(f, S)[s \ {b}] + Len(f[b].bytes)
<1> DEFINE Splits(t, d) == Sums(f, S)[t] = Sums(f, S)[t \ {d}] + Len(f[d].bytes)
           Bad == {t \in SUBSET S : \E d \in t : ~Splits(t, d)}
<1>1. SUFFICES ASSUME s \in Bad PROVE FALSE
  OBVIOUS
<1>2. PICK t \in Bad : \A u \in Bad : u \subseteq t => u = t
  <2>1. Bad \subseteq FiniteSubsetsOf(S)
    BY FS_FiniteSubsetsOfFinite
  <2> HIDE DEF Bad
  <2> QED
    BY <1>1, <2>1, LeastSet
<1>3. t \in SUBSET S
  OBVIOUS
<1>4. PICK d \in t : ~Splits(t, d)
  OBVIOUS
<1> DEFINE a == LastOf(t)
<1>5. a \in t /\ Splits(t, a)
  BY <1>3, <1>4, SumOf
<1>6. a # d
  BY <1>4, <1>5
<1> HIDE DEF a
<1>7. \A x \in t : \A y \in t \ {x} : Splits(t \ {x}, y)
  <2> SUFFICES ASSUME NEW x \in t, NEW y \in t \ {x} PROVE Splits(t \ {x}, y)
    OBVIOUS
  <2>1. t \ {x} \in SUBSET S /\ t \ {x} \subseteq t /\ t \ {x} # t
    BY <1>3
  <2>2. t \ {x} \notin Bad
    <3> HIDE DEF Bad
    <3> QED
      BY <1>2, <2>1
  <2> HIDE DEF Splits
  <2> QED
    BY <2>1, <2>2
<1>8. Splits(t \ {a}, d) /\ Splits(t \ {d}, a)
  <2> HIDE DEF Splits, Bad
  <2> QED
    BY <1>5, <1>6, <1>7
<1> DEFINE rest == t \ {a, d}
<1>9. (t \ {a}) \ {d} = rest /\ (t \ {d}) \ {a} = rest
  OBVIOUS
<1>10. /\ Sums(f, S)[rest] \in Nat /\ Len(f[a].bytes) \in Nat /\ Len(f[d].bytes) \in Nat
  <2>1. rest \in SUBSET S
    BY <1>3
  <2> HIDE DEF rest
  <2> QED
    BY <2>1, <1>3, <1>5, <1>4, SumsNat DEF Lengths
<1> HIDE DEF Bad, rest
<1>11. /\ Sums(f, S)[t] = Sums(f, S)[t \ {a}] + Len(f[a].bytes)
       /\ Sums(f, S)[t \ {a}] = Sums(f, S)[rest] + Len(f[d].bytes)
       /\ Sums(f, S)[t \ {d}] = Sums(f, S)[rest] + Len(f[a].bytes)
       /\ Sums(f, S)[t] # Sums(f, S)[t \ {d}] + Len(f[d].bytes)
  BY <1>4, <1>5, <1>8, <1>9
<1> HIDE DEF Splits
<1> QED
  BY <1>10, <1>11

\* What is counted depends on the lengths alone.
LEMMA SameSums ==
    ASSUME NEW f, NEW h, NEW S, IsFiniteSet(S), NEW s \in SUBSET S,
           \A x \in s : Len(f[x].bytes) = Len(h[x].bytes)
    PROVE Sums(f, S)[s] = Sums(h, S)[s]
<1> DEFINE Bad == {t \in SUBSET s : Sums(f, S)[t] # Sums(h, S)[t]}
<1>1. SUFFICES ASSUME s \in Bad PROVE FALSE
  OBVIOUS
<1>2. PICK t \in Bad : \A u \in Bad : u \subseteq t => u = t
  <2>1. Bad \subseteq FiniteSubsetsOf(S)
    BY FS_FiniteSubsetsOfFinite
  <2> HIDE DEF Bad
  <2> QED
    BY <1>1, <2>1, LeastSet
<1>3. t \in SUBSET S /\ t \subseteq s /\ Sums(f, S)[t] # Sums(h, S)[t]
  OBVIOUS
<1>4. t # {}
  BY <1>3, SumOf
<1>5. /\ LastOf(t) \in t
      /\ Sums(f, S)[t] = Sums(f, S)[t \ {LastOf(t)}] + Len(f[LastOf(t)].bytes)
      /\ Sums(h, S)[t] = Sums(h, S)[t \ {LastOf(t)}] + Len(h[LastOf(t)].bytes)
  BY <1>3, <1>4, SumOf
<1>6. t \ {LastOf(t)} \in SUBSET s /\ t \ {LastOf(t)} \subseteq t /\ t \ {LastOf(t)} # t
  BY <1>3, <1>5
<1>7. t \ {LastOf(t)} \notin Bad
  <2> HIDE DEF Bad
  <2> QED
    BY <1>2, <1>6
<1>8. Sums(f, S)[t \ {LastOf(t)}] = Sums(h, S)[t \ {LastOf(t)}]
  BY <1>6, <1>7
<1>9. Len(f[LastOf(t)].bytes) = Len(h[LastOf(t)].bytes)
  BY <1>3, <1>5
<1> HIDE DEF Bad
<1> QED
  BY <1>3, <1>5, <1>8, <1>9

\* A total is what the others hold and what this one holds.
LEMMA TotalChanges ==
    ASSUME NEW f, NEW h, NEW S, IsFiniteSet(S), Lengths(f, S), Lengths(h, S), NEW b \in S,
           \A x \in S \ {b} : Len(f[x].bytes) = Len(h[x].bytes)
    PROVE /\ Total(f, S) \in Nat /\ Total(h, S) \in Nat
          /\ Total(h, S) = Total(f, S) - Len(f[b].bytes) + Len(h[b].bytes)
<1>1. /\ Sums(f, S)[S] = Sums(f, S)[S \ {b}] + Len(f[b].bytes)
      /\ Sums(h, S)[S] = Sums(h, S)[S \ {b}] + Len(h[b].bytes)
  BY SumWithout
<1>2. Sums(f, S)[S \ {b}] = Sums(h, S)[S \ {b}]
  BY SameSums
<1>3. Sums(f, S)[S \ {b}] \in Nat
  BY SumsNat
<1>4. Len(f[b].bytes) \in Nat /\ Len(h[b].bytes) \in Nat
  BY DEF Lengths
<1>5. Total(f, S) = Sums(f, S)[S] /\ Total(h, S) = Sums(h, S)[S]
  BY TotalIs
<1> HIDE DEF Lengths
<1> QED
  BY <1>1, <1>2, <1>3, <1>4, <1>5

\* It is the same when all hold as much,
LEMMA TotalSame ==
    ASSUME NEW f, NEW h, NEW S, IsFiniteSet(S),
           \A x \in S : Len(f[x].bytes) = Len(h[x].bytes)
    PROVE Total(f, S) = Total(h, S)
BY SameSums, TotalIs

\* and nothing when none holds any.
LEMMA TotalNone ==
    ASSUME NEW f, NEW S, IsFiniteSet(S), \A x \in S : Len(f[x].bytes) = 0
    PROVE Total(f, S) = 0
<1> DEFINE Bad == {t \in SUBSET S : Sums(f, S)[t] # 0}
<1>1. SUFFICES ASSUME S \in Bad PROVE FALSE
  BY TotalIs
<1>2. PICK t \in Bad : \A u \in Bad : u \subseteq t => u = t
  <2>1. Bad \subseteq FiniteSubsetsOf(S)
    BY FS_FiniteSubsetsOfFinite
  <2> HIDE DEF Bad
  <2> QED
    BY <1>1, <2>1, LeastSet
<1>3. t \in SUBSET S /\ Sums(f, S)[t] # 0
  OBVIOUS
<1>4. t # {}
  BY <1>3, SumOf
<1>5. LastOf(t) \in t /\ Sums(f, S)[t] = Sums(f, S)[t \ {LastOf(t)}] + Len(f[LastOf(t)].bytes)
  BY <1>3, <1>4, SumOf
<1>6. t \ {LastOf(t)} \in SUBSET S /\ t \ {LastOf(t)} \subseteq t /\ t \ {LastOf(t)} # t
  BY <1>3, <1>5
<1>7. t \ {LastOf(t)} \notin Bad
  <2> HIDE DEF Bad
  <2> QED
    BY <1>2, <1>6
<1>8. Sums(f, S)[t \ {LastOf(t)}] = 0
  BY <1>6, <1>7
<1> HIDE DEF Bad
<1> QED
  BY <1>3, <1>5, <1>8

-----------------------------------------------------------------------------
(* The budgets. *)

\* What is in use is what the entries hold, as long as it counts,
Counted(p) == ~p.closed => p.used = Total(p.entry, Blobs)

\* and the inline blobs have used what they are.
Held(i) == i.used = Size * Cardinality(i.held) /\ i.used <= Capacity

Budgets == Counted(ahead) /\ Held(inline)

\* Entries hold bytes that can be counted.
LEMMA EntryLengths ==
    ASSUME NEW p \in AheadKind
    PROVE  Lengths(p.entry, Blobs) /\ IsFiniteSet(Blobs)
<1>1. \A b \in Blobs : p.entry[b].bytes \in Datas
  BY DEF AheadKind, EntryKind
<1>2. \A d \in Datas : Len(d) \in Nat
  BY DataLen, Constants
<1> QED
  BY <1>1, <1>2, LazyBlobsAssumption DEF Lengths

\* The count follows an entry that changes,
LEMMA CountedChange ==
    ASSUME NEW a \in AheadKind, NEW p \in AheadKind, NEW b \in Blobs, \A d \in Blobs : d # b => p.entry[d] = a.entry[d],
           p.closed = a.closed, p.used = a.used - Len(a.entry[b].bytes) + Len(p.entry[b].bytes), Counted(a)
    PROVE  Counted(p)
<1> SUFFICES ASSUME ~p.closed PROVE p.used = Total(p.entry, Blobs)
  BY DEF Counted
<1>1. a.used = Total(a.entry, Blobs)
  BY DEF Counted
<1>2. Total(p.entry, Blobs) = Total(a.entry, Blobs) - Len(a.entry[b].bytes) + Len(p.entry[b].bytes)
  <2>1. \A d \in Blobs \ {b} : Len(a.entry[d].bytes) = Len(p.entry[d].bytes)
    OBVIOUS
  <2>2. Lengths(a.entry, Blobs) /\ Lengths(p.entry, Blobs) /\ IsFiniteSet(Blobs)
    BY EntryLengths
  <2> DEFINE f == a.entry
             h == p.entry
  <2>3. /\ IsFiniteSet(Blobs) /\ Lengths(f, Blobs) /\ Lengths(h, Blobs)
        /\ \A d \in Blobs \ {b} : Len(f[d].bytes) = Len(h[d].bytes)
    BY <2>1, <2>2
  <2> HIDE DEF f, h
  <2>4. Total(h, Blobs) = Total(f, Blobs) - Len(f[b].bytes) + Len(h[b].bytes)
    BY <2>3, TotalChanges
  <2> QED
    BY <2>4 DEF f, h
<1> QED
  BY <1>1, <1>2

\* and is the same when no entry has more bytes or fewer.
LEMMA CountedSame ==
    ASSUME NEW a \in AheadKind, NEW p \in AheadKind, \A d \in Blobs : Len(p.entry[d].bytes) = Len(a.entry[d].bytes),
           p.closed = a.closed, p.used = a.used, Counted(a)
    PROVE  Counted(p)
<1>1. Total(p.entry, Blobs) = Total(a.entry, Blobs)
  BY EntryLengths, TotalSame
<1> QED
  BY <1>1 DEF Counted

\* Inline blobs that are taken leave the cache.
LEMMA TakenHeld ==
    ASSUME inline.held \in SUBSET Blobs, Held(inline), NEW g
    PROVE  Held(Taken(g))
<1>1. IsFiniteSet(inline.held)
  BY LazyBlobsAssumption, FS_Subset
<1> DEFINE n == Cardinality(inline.held)
           m == Cardinality(inline.held \cap g)
<1>2. n \in Nat /\ m \in Nat /\ m <= n /\ Cardinality(inline.held \ g) = n - m
  <2>1. Cardinality(inline.held \ g) = n - m
    BY <1>1, FS_Difference
  <2>2. IsFiniteSet(inline.held \cap g) /\ m <= n
    BY <1>1, FS_Intersection
  <2> QED
    BY <1>1, <2>1, <2>2, FS_CardinalityType
<1>3. Taken(g).held = inline.held \ g /\ Taken(g).used = inline.used - Size * m
  BY DEF Taken
<1> HIDE DEF n, m
<1>4. Size \in Nat /\ Capacity \in Nat
  BY Constants, LazyBlobsAssumption
<1>5. inline.used = Size * n /\ inline.used <= Capacity
  BY DEF Held, n
<1>6. Size * n - Size * m = Size * (n - m)
  BY <1>2, <1>4
<1>7. Size * n \in Nat /\ Size * m \in Nat
  BY <1>2, <1>4
<1>8. Taken(g).used = Size * (n - m) /\ Taken(g).used <= Capacity
  BY <1>3, <1>4, <1>5, <1>6, <1>7
<1> QED
  BY <1>2, <1>3, <1>8 DEF Held

\* A kick counts what it takes from the cache.
LEMMA KickCounted ==
    ASSUME NEW p \in AheadKind, Kick(p), Counted(p), inline.held \in SUBSET Blobs, Held(inline),
           \A b \in Blobs : p.entry[b].state = "queued" => p.entry[b].bytes = <<>>
    PROVE  Budgets'
<1>1. CASE ahead' = p /\ inline' = inline
  BY <1>1 DEF Budgets
<1>2. ASSUME NEW b \in Blobs, p.entry[b].state = "queued", ahead' \in AheadKind, ahead'.closed = p.closed,
             \A d \in Blobs : d # b => ahead'.entry[d] = p.entry[d],
             ahead'.entry[b].bytes = Content, ahead'.used = p.used + Size, inline' = Taken({b})
      PROVE  Budgets'
  <2>1. Len(p.entry[b].bytes) = 0 /\ Len(Content) = Size /\ Size \in Nat
    BY <1>2, Whole0, SegmentsOf, Constants
  <2>2. p.used \in Int
    BY DEF AheadKind
  <2>3. ahead'.used = p.used - Len(p.entry[b].bytes) + Len(ahead'.entry[b].bytes)
    BY <1>2, <2>1, <2>2
  <2>4. Counted(ahead')
    BY <1>2, <2>3, CountedChange
  <2>5. Held(inline')
    BY <1>2, TakenHeld
  <2> QED
    BY <2>4, <2>5 DEF Budgets
<1>3. ASSUME NEW b \in Blobs, ahead' \in AheadKind, ahead'.closed = p.closed,
             \A d \in Blobs : d # b => ahead'.entry[d] = p.entry[d],
             ahead'.entry[b].bytes = p.entry[b].bytes, ahead'.used = p.used, inline' = inline
      PROVE  Budgets'
  <2>1. \A d \in Blobs : Len(ahead'.entry[d].bytes) = Len(p.entry[d].bytes)
    BY <1>3
  <2>2. Counted(ahead')
    BY <1>3, <2>1, CountedSame
  <2> QED
    BY <1>3, <2>2 DEF Budgets
<1> QED
  BY <1>1, <1>2, <1>3, KickParts

\* At first nothing is held.
LEMMA Init_Budgets == Init => Budgets
<1> SUFFICES ASSUME Init PROVE Budgets
  OBVIOUS
<1>1. ahead.entry = [b \in Blobs |-> Untracked] /\ ahead.used = 0 /\ inline.held = {} /\ inline.used = 0
  BY DEF Init
<1>2. \A b \in Blobs : Len(ahead.entry[b].bytes) = 0
  BY <1>1 DEF Untracked
<1>3. Total(ahead.entry, Blobs) = 0
  BY <1>2, TotalNone, LazyBlobsAssumption
<1>4. Size * 0 = 0 /\ Capacity \in Nat /\ Cardinality({}) = 0
  BY Constants, LazyBlobsAssumption, FS_EmptySet
<1> QED
  BY <1>1, <1>3, <1>4 DEF Budgets, Counted, Held

\* The steps that leave the read-ahead's bytes and the inline blobs alone keep the budgets,
LEMMA SameBudgets ==
    ASSUME Budgets, ahead' = ahead, inline' = inline
    PROVE  Budgets'
BY DEF Budgets

\* as do those that store an inline blob
LEMMA StoreInline_Budgets ==
    ASSUME IInv, Budgets, NEW b \in Blobs, StoreInline(b)
    PROVE  Budgets'
<1>1. /\ inline.used + Size <= Capacity /\ ahead' = ahead
      /\ inline'.held = inline.held \cup {b}
      /\ inline'.used = inline.used + Size - IF b \in inline.held THEN Size ELSE 0
  BY DEF StoreInline, Fits
<1> DEFINE n == Cardinality(inline.held)
<1>2. IsFiniteSet(inline.held) /\ n \in Nat /\ Size \in Nat /\ Capacity \in Nat
  <2>1. inline.held \in SUBSET Blobs
    BY DEF IInv, Kinds
  <2>2. IsFiniteSet(inline.held)
    BY <2>1, LazyBlobsAssumption, FS_Subset
  <2> QED
    BY <2>2, FS_CardinalityType, Constants, LazyBlobsAssumption
<1>3. Cardinality(inline'.held) = IF b \in inline.held THEN n ELSE n + 1
  BY <1>1, <1>2, FS_AddElement
<1>4. inline.used = Size * n /\ inline.used <= Capacity
  BY DEF Budgets, Held
<1> HIDE DEF n
<1>5. Size * (n + 1) = Size * n + Size /\ Size * n \in Nat
  BY <1>2
<1>6. inline'.used = Size * Cardinality(inline'.held) /\ inline'.used <= Capacity
  <2>1. CASE b \in inline.held
    BY <1>1, <1>2, <1>3, <1>4, <1>5, <2>1
  <2>2. CASE b \notin inline.held
    BY <1>1, <1>2, <1>3, <1>4, <1>5, <2>2
  <2> QED
    BY <2>1, <2>2
<1> QED
  BY <1>1, <1>6 DEF Budgets, Held

\* or take some,
LEMMA TakenBudgets ==
    ASSUME IInv, Budgets, ahead' = ahead, NEW g, inline' = Taken(g)
    PROVE  Budgets'
<1>1. inline.held \in SUBSET Blobs
  BY DEF IInv, Kinds
<1>2. Held(Taken(g))
  BY <1>1, TakenHeld DEF Budgets
<1> QED
  BY <1>2 DEF Budgets

\* A consumer's next row queues blobs that have no bytes yet.
LEMMA Advance_Budgets ==
    ASSUME IInv, Budgets, Advance
    PROVE  Budgets'
<1> DEFINE f == [b \in Blobs |-> IF rows.at = 0 THEN [ahead.entry[b] EXCEPT !.state = "queued"] ELSE ahead.entry[b]]
           p == [ahead EXCEPT !.mark = rows.at + 1 + Ahead, !.entry = f]
<1>1. Kick(p)
  BY Zenon DEF Advance
<1>2. ahead \in AheadKind /\ ahead.entry \in [Blobs -> EntryKind] /\ rows.at \in Nat /\ Ahead \in Nat
  <2>1. ahead \in AheadKind /\ rows.at \in 0..Cardinality(Blobs)
    BY DEF IInv, Kinds
  <2> QED
    BY <2>1, Constants DEF AheadKind
<1>3. /\ f \in [Blobs -> EntryKind]
      /\ \A b \in Blobs : f[b].bytes = ahead.entry[b].bytes /\ (f[b].state = "queued" => f[b].bytes = <<>>)
  <2> SUFFICES ASSUME NEW b \in Blobs
               PROVE  f[b] \in EntryKind /\ f[b].bytes = ahead.entry[b].bytes /\ (f[b].state = "queued" => f[b].bytes = <<>>)
    OBVIOUS
  <2>1. ahead.entry[b] \in EntryKind /\ EntryFits(b) /\ (rows.at = 0 => ahead.entry[b].state = "none")
    BY <1>2 DEF IInv, Entries, AheadFits
  <2>2. CASE rows.at = 0
    BY <2>1, <2>2 DEF EntryKind, EntryFits
  <2>3. CASE rows.at # 0
    BY <2>1, <2>3 DEF EntryFits
  <2> QED
    BY <2>2, <2>3
<1>4. rows.at + 1 + Ahead \in Nat
  BY <1>2
<1> HIDE DEF f
<1>5. p \in AheadKind /\ p.entry = f /\ p.closed = ahead.closed /\ p.used = ahead.used
  BY <1>2, <1>3, <1>4 DEF AheadKind
<1> HIDE DEF p
<1>6. Counted(p)
  <2>1. \A b \in Blobs : Len(p.entry[b].bytes) = Len(ahead.entry[b].bytes)
    BY <1>3, <1>5
  <2> QED
    BY <1>2, <1>5, <2>1, CountedSame DEF Budgets
<1>7. inline.held \in SUBSET Blobs /\ Held(inline)
  BY DEF IInv, Kinds, Budgets
<1> QED
  BY <1>1, <1>3, <1>5, <1>6, <1>7, KickCounted

\* A stream that is left has its read-ahead closed, whose budget nobody looks at.
LEMMA Leave_Budgets ==
    ASSUME IInv, Budgets, Leave
    PROVE  Budgets'
<1>1. ahead'.closed = TRUE /\ inline' = inline
  <2>1. ahead \in AheadKind
    BY DEF IInv, Kinds
  <2> QED
    BY <2>1 DEF Leave, AheadKind
<1> QED
  BY <1>1 DEF Budgets, Counted

\* A blob that is handed over is released.
LEMMA ReleaseCounted ==
    ASSUME NEW a \in AheadKind, NEW b \in Blobs, Counted(a)
    PROVE  Counted(Release(a, b))
<1> DEFINE p == Release(a, b)
<1>1. SameBut(p, a, b, Untracked)
  BY ReleaseIs
<1>2. p.used = a.used - Len(a.entry[b].bytes)
  BY DEF Release, AheadKind
<1> HIDE DEF p
<1>3. a.used \in Int /\ Len(a.entry[b].bytes) \in Nat
  BY EntryLengths DEF Lengths, AheadKind
<1>4. Len(Untracked.bytes) = 0
  BY DEF Untracked
<1>5. p \in AheadKind /\ p.entry[b] = Untracked /\ p.closed = a.closed /\ \A d \in Blobs : d # b => p.entry[d] = a.entry[d]
  BY <1>1 DEF SameBut
<1>6. p.used = a.used - Len(a.entry[b].bytes) + Len(p.entry[b].bytes)
  BY SMT, <1>2, <1>3, <1>4, <1>5
<1>7. Counted(p)
  BY <1>5, <1>6, CountedChange
<1> QED
  BY <1>7 DEF p

\* An entry that changes but for its bytes.
LEMMA PutCounted ==
    ASSUME NEW a \in AheadKind, NEW b \in Blobs, NEW x \in EntryKind, Len(x.bytes) = Len(a.entry[b].bytes), Counted(a),
           NEW p, p = [a EXCEPT !.entry[b] = x]
    PROVE  Counted(p) /\ WithEntry(p, a, b, x)
<1>1. WithEntry(p, a, b, x)
  BY OneEntry
<1>2. p.used = a.used
  BY DEF AheadKind
<1>3. Counted(p)
  <2>1. p \in AheadKind /\ p.closed = a.closed /\ \A d \in Blobs : Len(p.entry[d].bytes) = Len(a.entry[d].bytes)
    BY <1>1 DEF WithEntry
  <2> QED
    BY <1>2, <2>1, CountedSame
<1> QED
  BY <1>1, <1>3

\* Whoever asks for a blob that the read-ahead has fetched is handed its bytes.
LEMMA Claim_Budgets ==
    ASSUME IInv, Budgets, NEW c \in Callers, NEW b \in Blobs, NEW op, NEW n, Claim(c, op, b, n)
    PROVE  Budgets'
<1> SUFFICES ASSUME NEW e, e = ahead.entry[b],
                    NEW p, p = IF e.state = "done" THEN Release(ahead, b)
                               ELSE IF e.state = "error" THEN [ahead EXCEPT !.entry[b] = Untracked]
                               ELSE [ahead EXCEPT !.entry[b].claimed = TRUE]
             PROVE  Budgets'
  OBVIOUS
<1>1. IF e.state = "error" THEN ahead' = p /\ inline' = inline ELSE Kick(p)
  BY DEF Claim
<1>2. /\ ahead \in AheadKind /\ e \in EntryKind /\ \A d \in Blobs : EntryFits(d)
      /\ inline.held \in SUBSET Blobs /\ Held(inline) /\ Counted(ahead)
  BY DEF IInv, Kinds, AheadKind, Entries, Budgets
<1>3. Untracked \in EntryKind /\ Untracked.bytes = <<>> /\ Untracked.state = "none"
  BY NewKinds DEF Untracked
<1>4. CASE e.state = "error"
  <2>1. p = [ahead EXCEPT !.entry[b] = Untracked]
    BY <1>4
  <2>2. Len(Untracked.bytes) = Len(ahead.entry[b].bytes)
    BY <1>2, <1>3, <1>4 DEF EntryFits
  <2>3. Counted(p)
    BY <1>2, <1>3, <2>1, <2>2, PutCounted
  <2> QED
    BY <1>1, <1>4, <2>3 DEF Budgets
<1>5. CASE e.state # "error"
  <2>1. /\ p \in AheadKind /\ Counted(p)
        /\ \A d \in Blobs : p.entry[d].state = "queued" => p.entry[d].bytes = <<>>
    <3>1. CASE e.state = "done"
      <4>1. p = Release(ahead, b)
        BY <3>1
      <4>2. SameBut(p, ahead, b, Untracked) /\ Counted(p)
        BY <1>2, <4>1, ReleaseIs, ReleaseCounted
      <4> QED
        BY <1>2, <1>3, <4>2 DEF SameBut, EntryFits
    <3>2. CASE e.state # "done"
      <4> DEFINE x == [e EXCEPT !.claimed = TRUE]
      <4>1. x \in EntryKind /\ x.bytes = e.bytes /\ x.state = e.state
        BY <1>2 DEF EntryKind
      <4>2. p = [ahead EXCEPT !.entry[b] = x]
        BY <1>2, <1>5, <3>2 DEF AheadKind
      <4> HIDE DEF x
      <4>3. Counted(p) /\ WithEntry(p, ahead, b, x)
        BY <1>2, <4>1, <4>2, PutCounted
      <4> QED
        BY <1>2, <4>1, <4>3 DEF WithEntry, EntryFits
    <3> QED
      BY <3>1, <3>2
  <2>2. Kick(p)
    BY <1>1, <1>5
  <2> QED
    BY <1>2, <2>1, <2>2, KickCounted
<1> QED
  BY <1>4, <1>5

\* A fetch has its handle.
LEMMA AnswerOpen_Budgets ==
    ASSUME IInv, Budgets, AnswerOpen
    PROVE  Budgets'
<1>1. ahead' = (IF job.kind = "slice" THEN [ahead EXCEPT !.handle = NewHandle] ELSE ahead) /\ inline' = inline
  BY DEF AnswerOpen
<1>2. ahead'.used = ahead.used /\ ahead'.closed = ahead.closed /\ ahead'.entry = ahead.entry
  <2>1. ahead \in AheadKind
    BY DEF IInv, Kinds
  <2> QED
    BY <1>1, <2>1 DEF AheadKind
<1> QED
  BY <1>1, <1>2 DEF Budgets, Counted

\* The next fetch is kicked when one has settled.
LEMMA SettledBudgets ==
    ASSUME IInv, Budgets, NEW p \in AheadKind, Settled(p), Counted(p),
           \A b \in Blobs : p.entry[b].state = "queued" => p.entry[b].bytes = <<>>
    PROVE  Budgets'
<1> DEFINE q == [p EXCEPT !.running = Nobody, !.handle = NoHandle]
<1>1. Kick(q)
  BY DEF Settled
<1>2. q = Idle(p)
  BY DEF Idle
<1>3. q \in AheadKind /\ q.entry = p.entry /\ q.closed = p.closed /\ q.used = p.used
  BY <1>2, IdleIs DEF AheadKind
<1> HIDE DEF q
<1>4. Counted(q)
  BY <1>3 DEF Counted
<1>5. inline.held \in SUBSET Blobs /\ Held(inline)
  BY DEF IInv, Kinds, Budgets
<1> QED
  BY <1>1, <1>3, <1>4, <1>5, KickCounted

\* What a slice brings is in use, until the blob is handed over.
LEMMA AnswerSlice_Budgets ==
    ASSUME IInv, Budgets, AnswerSlice
    PROVE  Budgets'
<1> DEFINE b0 == job.b
           h0 == job.h
           w0 == Window(h0, Span)
           more0 == [ahead EXCEPT !.entry[b0].bytes = @ \o w0.data, !.used = @ + Len(w0.data),
                                  !.handle = IF w0.eof THEN NoHandle ELSE @]
           done0 == [more0 EXCEPT !.entry[b0].state = "done"]
<1>1. /\ busy = "read" /\ job.kind = "slice"
      /\ (~w0.eof => ahead' = more0 /\ inline' = inline)
      /\ (w0.eof => Settled(done0) \/ Settled(Release(done0, b0)))
  BY Zenon DEF AnswerSlice
<1>2. WithSlice(more0, ahead, b0, w0)
  BY DEF WithSlice
<1> HIDE DEF more0
<1> SUFFICES ASSUME NEW b, b = job.b, NEW h, h = job.h, NEW w, w = Window(h, Span), NEW more, WithSlice(more, ahead, b, w),
                    NEW done, done = [more EXCEPT !.entry[b].state = "done"],
                    ~w.eof => ahead' = more /\ inline' = inline,
                    w.eof => Settled(done) \/ Settled(Release(done, b))
             PROVE  Budgets'
  BY <1>1, <1>2
<1>3. chain # <<>> /\ h # NoHandle /\ ahead.handle = h
  BY <1>1 DEF IInv, BusyFits
<1>4. job \in Jobs /\ Live /\ b \in Blobs /\ ahead.running = b /\ ahead.entry[b].state = "fetching" /\ h \in Handles
  <2>1. job \in Jobs /\ job \in JobKind /\ Live
    BY <1>3, JobTypes DEF IInv, Live
  <2>2. job.kind \in Fetches
    BY <1>1 DEF Fetches
  <2> QED
    BY <1>3, <2>1, <2>2 DEF IInv, AheadFits, JobKind
<1>5. open[h] \in OpenKind
  <2>1. AheadHas(b, h)
    BY <1>3, <1>4 DEF AheadHas
  <2> QED
    BY <1>4, <2>1, KeeperOf
<1>6. ahead \in AheadKind /\ ahead.entry[b] \in EntryKind /\ Counted(ahead) /\ \A d \in Blobs : EntryFits(d)
  BY <1>4 DEF IInv, Kinds, AheadKind, Entries, Budgets
<1> SUFFICES ASSUME NEW m, m = open[h].at - 1, NEW k, k = Len(w.data) PROVE Budgets'
  OBVIOUS
<1>7. m \in 0..Size /\ k \in Nat /\ m + k \in 0..Size /\ ahead.entry[b].bytes = Segs(m) /\ Segs(m) \o w.data = Segs(m + k)
  <2>1. open[h].at \in 1..(Size + 1) /\ Span \in Nat
    BY <1>5, Constants DEF OpenKind
  <2>2. m \in 0..Size /\ k \in Nat /\ m + k \in 0..Size /\ Segs(m) \o w.data = Segs(m + k)
    BY ZenonT(30), <2>1, WindowRight
  <2> QED
    BY <1>3, <1>4, <1>6, <2>2 DEF EntryFits
<1> DEFINE x == [ahead.entry[b] EXCEPT !.bytes = Segs(m + k)]
<1>8. SliceCame(more, ahead, b, w, x) /\ x \in EntryKind
  BY <1>4, <1>6, <1>7, SegmentsOf, SliceIs
<1>9. x.bytes = Segs(m + k) /\ x.state = "fetching"
  BY <1>4, <1>6 DEF EntryKind
<1>10. more.used = ahead.used + k
  BY DEF WithSlice, AheadKind
<1> HIDE DEF x
<1>11. more \in AheadKind /\ more.closed = ahead.closed /\ more.entry[b] = x /\ \A d \in Blobs : d # b => more.entry[d] = ahead.entry[d]
  BY <1>8 DEF SliceCame
<1>12. Counted(more)
  <2>1. Len(ahead.entry[b].bytes) = m /\ Len(more.entry[b].bytes) = m + k
    BY <1>7, <1>9, <1>11, SegmentsOf
  <2>2. more.used = ahead.used - m + (m + k)
    <3>1. ahead.used \in Int /\ m \in Nat
      BY <1>6, <1>7, Constants DEF AheadKind
    <3> QED
      BY <1>7, <1>10, <3>1
  <2>3. more.used = ahead.used - Len(ahead.entry[b].bytes) + Len(more.entry[b].bytes)
    BY <2>1, <2>2
  <2> QED
    BY <1>4, <1>6, <1>11, <2>3, CountedChange
<1>13. CASE ~w.eof
  BY <1>12, <1>13 DEF Budgets
<1>14. CASE w.eof
  <2> DEFINE y == [x EXCEPT !.state = "done"]
  <2>1. SameBut(done, more, b, y) /\ y \in EntryKind
    BY <1>4, <1>11, DoneIs
  <2>2. y.bytes = x.bytes /\ y.state = "done"
    BY <1>8 DEF EntryKind
  <2> HIDE DEF y
  <2>3. done \in AheadKind /\ done.closed = more.closed /\ done.entry[b] = y /\ \A d \in Blobs : d # b => done.entry[d] = more.entry[d]
    BY <2>1 DEF SameBut
  <2>4. Counted(done)
    <3>1. done.used = more.used
      BY <1>11 DEF AheadKind
    <3>2. \A d \in Blobs : Len(done.entry[d].bytes) = Len(more.entry[d].bytes)
      BY <1>11, <2>2, <2>3
    <3> QED
      BY <1>11, <1>12, <2>3, <3>1, <3>2, CountedSame
  <2>5. \A d \in Blobs : done.entry[d].state = "queued" => done.entry[d].bytes = <<>>
    BY <1>6, <1>11, <2>2, <2>3 DEF EntryFits
  <2>6. CASE Settled(done)
    BY <2>3, <2>4, <2>5, <2>6, SettledBudgets
  <2>7. CASE Settled(Release(done, b))
    <3>1. Counted(Release(done, b)) /\ SameBut(Release(done, b), done, b, Untracked)
      BY <1>4, <2>3, <2>4, ReleaseIs, ReleaseCounted
    <3>2. Untracked.bytes = <<>>
      BY DEF Untracked
    <3> QED
      BY <2>5, <2>7, <3>1, <3>2, SettledBudgets DEF SameBut
  <2> QED
    BY <1>14, <2>6, <2>7
<1> QED
  BY <1>13, <1>14

\* What a fetch that stops had in use is released.
LEMMA StopFetch_Budgets ==
    ASSUME IInv, Budgets, StopFetch
    PROVE  Budgets'
<1> SUFFICES ASSUME NEW b, b = job.b, NEW p, p = Release(ahead, b) PROVE Budgets'
  OBVIOUS
<1>1. chain # <<>> /\ job.kind \in {"abandon", "giveUp"} /\ (Settled(p) \/ Settled([p EXCEPT !.entry[b].state = "error"]))
  <2> DEFINE s == IF job.kind = "giveUp" /\ ~ahead.entry[b].claimed THEN [p EXCEPT !.entry[b].state = "error"] ELSE p
  <2>1. chain # <<>> /\ job.kind \in {"abandon", "giveUp"} /\ Settled(s)
    BY DEF StopFetch, Running
  <2>2. s = p \/ s = [p EXCEPT !.entry[b].state = "error"]
    OBVIOUS
  <2> HIDE DEF s
  <2> QED
    BY Zenon, <2>1, <2>2
<1>2. b \in Blobs
  <2>1. job \in Jobs
    BY <1>1, JobTypes DEF IInv
  <2>2. job.kind \in Fetches
    BY <1>1 DEF Fetches
  <2> QED
    BY <2>1, <2>2 DEF IInv, AheadFits
<1>3. ahead \in AheadKind /\ Counted(ahead) /\ \A d \in Blobs : EntryFits(d)
  BY DEF IInv, Kinds, Entries, Budgets
<1>4. Counted(p) /\ SameBut(p, ahead, b, Untracked)
  BY <1>2, <1>3, ReleaseIs, ReleaseCounted
<1>5. Untracked.bytes = <<>> /\ Untracked \in EntryKind
  BY NewKinds DEF Untracked
<1>6. p \in AheadKind /\ p.entry[b] = Untracked /\ \A d \in Blobs : p.entry[d].state = "queued" => p.entry[d].bytes = <<>>
  BY <1>3, <1>4, <1>5 DEF SameBut, EntryFits
<1>7. CASE Settled(p)
  BY <1>4, <1>6, <1>7, SettledBudgets
<1>8. CASE Settled([p EXCEPT !.entry[b].state = "error"])
  <2> DEFINE x == [Untracked EXCEPT !.state = "error"]
             s == [p EXCEPT !.entry[b].state = "error"]
  <2>1. x \in EntryKind /\ x.bytes = <<>>
    BY <1>5 DEF EntryKind
  <2>2. s = [p EXCEPT !.entry[b] = x]
    BY <1>6
  <2>3. Settled(s)
    BY <1>8
  <2> HIDE DEF x, s
  <2>4. Counted(s) /\ WithEntry(s, p, b, x)
    BY <1>2, <1>4, <1>5, <1>6, <2>1, <2>2, PutCounted
  <2> QED
    BY <1>6, <2>1, <2>3, <2>4, SettledBudgets DEF WithEntry
<1> QED
  BY <1>1, <1>7, <1>8

\* The rest of a fetch that found its blob inline kicks the next.
LEMMA Rekick_Budgets ==
    ASSUME IInv, Budgets, Rekick
    PROVE  Budgets'
<1> DEFINE p == [ahead EXCEPT !.running = Nobody]
<1>1. Kick(p)
  BY DEF Rekick
<1>2. ahead \in AheadKind /\ Counted(ahead) /\ inline.held \in SUBSET Blobs /\ Held(inline) /\ \A d \in Blobs : EntryFits(d)
  BY DEF IInv, Kinds, Entries, Budgets
<1>3. p \in AheadKind /\ p.entry = ahead.entry /\ p.closed = ahead.closed /\ p.used = ahead.used
  BY <1>2 DEF AheadKind
<1> HIDE DEF p
<1>4. Counted(p)
  BY <1>2, <1>3 DEF Counted
<1> QED
  BY <1>1, <1>2, <1>3, <1>4, KickCounted DEF EntryFits

\* The end of the transaction forgets what is inline.
LEMMA LastJob_Budgets ==
    ASSUME IInv, Budgets, LastJob
    PROVE  Budgets'
<1>1. ahead' = ahead /\ (inline' = Taken(inline.held) \/ inline' = inline)
  BY DEF LastJob
<1> QED
  BY <1>1, SameBudgets, TakenBudgets

\* Every step keeps the budgets.
LEMMA Next_Budgets ==
    ASSUME IInv, Budgets, [Next]_vars
    PROVE  Budgets'
<1>1. CASE Turn
  <2>1. CASE AnswerOpen
    BY <2>1, AnswerOpen_Budgets
  <2>2. CASE AnswerSlice
    BY <2>2, AnswerSlice_Budgets
  <2>3. CASE StopFetch
    BY <2>3, StopFetch_Budgets
  <2>4. CASE LastJob
    BY <2>4, LastJob_Budgets
  <2>5. CASE StartHead \/ StartWhole \/ StartResume \/ StartSlice \/ StartPull \/ SkipPull
    BY <2>5, SameBudgets DEF StartHead, StartWhole, StartResume, StartSlice, StartPull, Reads, SkipPull
  <2>6. CASE AtEnd \/ AnswerCursor \/ AnswerWhole \/ AnswerPull \/ Fails \/ CloseJob
    <3>1. ahead' = ahead /\ inline' = inline
      BY Zenon, <2>6 DEF AtEnd, AnswerCursor, AnswerWhole, AnswerPull, Fails, CloseJob
    <3> QED
      BY <3>1, SameBudgets
  <2> QED
    BY <1>1, <2>1, <2>2, <2>3, <2>4, <2>5, <2>6 DEF Turn
<1>2. CASE Advance
  BY <1>2, Advance_Budgets
<1>3. CASE Leave
  BY <1>3, Leave_Budgets
<1>4. CASE End
  BY <1>4, SameBudgets DEF End
<1>5. CASE Rekick
  BY <1>5, Rekick_Budgets
<1>6. ASSUME NEW b \in Blobs, StoreInline(b) \/ Read(b) \/ Destroy(b)
      PROVE  Budgets'
  <2>1. CASE StoreInline(b)
    BY <2>1, StoreInline_Budgets
  <2>2. CASE Read(b) \/ Destroy(b)
    BY <2>2, SameBudgets DEF Read, Destroy
  <2> QED
    BY <1>6, <2>1, <2>2
<1>7. ASSUME NEW c \in Callers, Return(c) \/ Bulk(c)
      PROVE  Budgets'
  <2>1. CASE Return(c)
    BY <2>1, SameBudgets DEF Return
  <2>2. CASE Bulk(c)
    <3>1. ahead' = ahead /\ \E g : inline' = Taken(g)
      BY Zenon, <2>2 DEF Bulk
    <3> QED
      BY <3>1, TakenBudgets
  <2> QED
    BY <1>7, <2>1, <2>2
<1>8. ASSUME NEW c \in Callers, NEW b \in Blobs, Close(c, b) \/ Stream(c, b)
      PROVE  Budgets'
  BY <1>8, SameBudgets DEF Close, Stream
<1>9. ASSUME NEW c \in Callers, NEW b \in Blobs, NEW o, NEW n,
             ReadInline(c, o, b, n) \/ Claim(c, o, b, n) \/ ReadLocked(c, o, b, n)
      PROVE  Budgets'
  <2>1. CASE ReadInline(c, o, b, n)
    BY <2>1, TakenBudgets DEF ReadInline
  <2>2. CASE Claim(c, o, b, n)
    BY <2>2, Claim_Budgets
  <2>3. CASE ReadLocked(c, o, b, n)
    BY <2>3, SameBudgets DEF ReadLocked
  <2> QED
    BY <1>9, <2>1, <2>2, <2>3
<1>10. CASE UNCHANGED vars
  BY <1>10, SameBudgets DEF vars
<1> QED
  BY <1>1, <1>2, <1>3, <1>4, <1>5, <1>6, <1>7, <1>8, <1>9, <1>10 DEF Next

-----------------------------------------------------------------------------
\* An open blob is read by who has it and closed by him, once and while its transaction
\* lives, as long as callers are considerate: the cursors of api/blob.ts, its streams and the
\* read-ahead of api/blob-prefetch.ts leave no handle behind and use none that is closed.
THEOREM BlobsHold ==
    ASSUME Habits = {}
    PROVE  Spec => []HandlesExact
<1>1. Init => IInv
  BY Init_IInv
<1>2. IInv /\ [Next]_vars => IInv'
  BY Next_IInv
<1>3. IInv => HandlesExact
  BY HandlesFollow
<1> QED
  BY <1>1, <1>2, <1>3, PTL DEF Spec

\* Whichever way a blob was read, inline, by the read-ahead, in one go, or by a cursor that
\* others resume or a stream takes over, what the caller is given are its bytes.
THEOREM BlobsWhole ==
    ASSUME Habits = {}
    PROVE  Spec => []BytesRight
<1>1. Init => IInv
  BY Init_IInv
<1>2. IInv /\ [Next]_vars => IInv'
  BY Next_IInv
<1>3. IInv => BytesRight
  BY BytesFollow
<1> QED
  BY <1>1, <1>2, <1>3, PTL DEF Spec

\* The read-ahead's budget is what it holds, until its stream is left, and that of the
\* inline blobs what they are, never over their capacity.
THEOREM BudgetsHold ==
    ASSUME Habits = {}
    PROVE  Spec => []BudgetsExact
<1>1. Init => IInv /\ Budgets
  BY Init_IInv, Init_Budgets
<1>2. IInv /\ Budgets /\ [Next]_vars => IInv' /\ Budgets'
  BY Next_IInv, Next_Budgets
<1>3. Budgets => BudgetsExact
  BY DEF Budgets, Counted, Held, BudgetsExact, Total
<1> QED
  BY <1>1, <1>2, <1>3, PTL DEF Spec
=============================================================================
