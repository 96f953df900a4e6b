---------------------------- MODULE EventsProofs ----------------------------
(***************************************************************************)
(* That the server keeps no connection and no request of a listener that   *)
(* the client has forgotten (ServerExact), for any number of listeners,    *)
(* channels and posts, when starts and requests may be refused and         *)
(* connections may break.                                                  *)
(*                                                                         *)
(* Habits = {}: the run events shows it so, and what the habits break is   *)
(* in the README. ServerExact is not inductive: that a request belongs to  *)
(* a listener must be known already while it is queued (RequestsFit), and  *)
(* the jobs before it in the op-lock decide whether it does. So the        *)
(* invariant follows the whole chain (JobsFit): a cancellation comes once, *)
(* after every request of its listener.                                    *)
(***************************************************************************)
EXTENDS Events, FiniteSetTheorems, SequenceTheorems, TLAPS

Starts == {"no", "asking", "connecting", "done", "failed"}
Sockets == {"none", "open", "dead", "ended"}
Loops == {"off", "reading", "rearming"}
States == {"none", "starting", "queing", "live", "closing", "closed", "failed"}
Inboxes == Seq(Listeners \X Nat)
ChannelKind == [made : BOOLEAN, starting : Starts, socket : Sockets, closed : BOOLEAN,
                subs : SUBSET Listeners, loop : Loops, inbox : Inboxes]
ListenerKind == [state : States, channel : Channels \cup {None}, counts : Nat, baselined : BOOLEAN, told : Nat]
JobKind == [op : {"connect", "que", "cancel"}, c : Channels, l : Listeners \cup {None}, n : Nat]

\* The kinds of the variables.
Kinds ==
    /\ chan \in [Channels -> ChannelKind]
    /\ listener \in [Listeners -> ListenerKind]
    /\ opChain \in Seq(JobKind)
    /\ current \in Channels \cup {None} /\ aux \in Channels \cup {None}
    /\ DOMAIN armed \subseteq Listeners /\ count \in 1..(MaxPosts + 1) /\ detached \in BOOLEAN

\* A channel that starts, has subscriptions or a connection is the attachment's.
ChannelsFit ==
    /\ \A c \in Channels :
        /\ chan[c].starting \in {"asking", "connecting"} => c = current
        /\ chan[c].subs # {} => c = current /\ chan[c].starting = "done"
        /\ chan[c].socket = "open" => c = current
        /\ ~chan[c].made => chan[c].starting = "no"
        /\ chan[c].starting # "done" => chan[c].socket = "none"
    /\ current # None => chan[current].starting # "no"

\* What a listener has heard, and which channel knows it.
ListenersFit ==
    \A l \in Listeners :
        /\ listener[l].state = "none" => listener[l].counts = 0 /\ listener[l].channel = None
        /\ listener[l].state # "none" => listener[l].channel \in Channels
        /\ listener[l].told <= listener[l].counts /\ listener[l].counts <= count
        /\ \A c \in Channels : l \in chan[c].subs =>
            listener[l].state \in {"queing", "live", "failed"} /\ listener[l].channel = c

\* A channel is asked for once; a job is that of its listener's channel; who is
\* cancelled is closing and was subscribed, and is cancelled once.
JobFits(i) ==
    LET j == opChain[i] IN
    /\ j.op = "connect" => chan[j.c].starting = "asking" /\ \A k \in 1..Len(opChain) : opChain[k].op = "connect" => k = i
    /\ j.op # "connect" => j.l \in Listeners /\ listener[j.l].channel = j.c
    /\ j.op = "cancel" =>
        /\ j.n = 0 /\ listener[j.l].state = "closing"
        /\ chan[j.c].starting = "done" /\ current \in {None, j.c}
        /\ \A k \in 1..Len(opChain) : opChain[k].op = "cancel" /\ opChain[k].l = j.l => k = i
JobsFit == \A i \in 1..Len(opChain) : JobFits(i)

\* A job after the i-th cancels l.
CancelledAfter(l, i) == \E k \in 1..Len(opChain) : k > i /\ opChain[k].op = "cancel" /\ opChain[k].l = l

\* A request that is queued is of a listener that is subscribed, or cancelled later.
RequestsFit ==
    \A i \in 1..Len(opChain) : opChain[i].op = "que" =>
        opChain[i].l \in chan[opChain[i].c].subs \/ CancelledAfter(opChain[i].l, i)

\* So is one that is armed.
ArmedFit == \A l \in DOMAIN armed :
    listener[l].channel \in Channels /\ (l \in chan[listener[l].channel].subs \/ CancelledAfter(l, 0))

\* Counts arrive in order, and none arrives that was heard before.
InboxesFit ==
    \A c \in Channels : \A i \in 1..Len(chan[c].inbox) :
        /\ chan[c].inbox[i][2] <= count
        /\ \A k \in 1..Len(chan[c].inbox) : i <= k => chan[c].inbox[i][2] <= chan[c].inbox[k][2]
        /\ listener[chan[c].inbox[i][1]].channel = c => listener[chan[c].inbox[i][1]].counts <= chan[c].inbox[i][2]

\* disconnect() finds no job and leaves none.
DetachedFit == detached => opChain = <<>> /\ current = None /\ DOMAIN armed = {}

IInv == Kinds /\ ChannelsFit /\ ListenersFit /\ JobsFit /\ RequestsFit /\ ArmedFit /\ InboxesFit /\ DetachedFit

-----------------------------------------------------------------------------
\* What Init gives a channel and a listener is of their kinds.
LEMMA NewKinds == NewChannel \in ChannelKind /\ NewListener \in ListenerKind
<1>1. <<>> \in Inboxes
  BY EmptySeq DEF Inboxes
<1> QED
  BY <1>1 DEF NewChannel, NewListener, ChannelKind, ListenerKind, Starts, Sockets, Loops, States, None

\* Init: nothing is made, queued or armed.
LEMMA Init_IInv == Init => IInv
<1> SUFFICES ASSUME Init PROVE IInv
  OBVIOUS
<1>0. /\ chan = [c \in Channels |-> NewChannel] /\ current = None /\ listener = [l \in Listeners |-> NewListener]
      /\ opChain = <<>> /\ detached = FALSE /\ armed = <<>> /\ aux = None /\ count = 1
  BY DEF Init
<1>1. Len(opChain) = 0 /\ DOMAIN armed = {} /\ opChain \in Seq(JobKind)
  BY <1>0, EmptySeq
<1>2. Kinds
  <2>1. chan \in [Channels -> ChannelKind] /\ listener \in [Listeners -> ListenerKind]
    BY <1>0, NewKinds
  <2>2. count \in 1..(MaxPosts + 1)
    BY <1>0, EventsAssumption
  <2> QED
    BY <1>0, <1>1, <2>1, <2>2 DEF Kinds
<1>3. ChannelsFit
  BY <1>0, EventsAssumption DEF ChannelsFit, NewChannel
<1>4. ListenersFit
  BY <1>0 DEF ListenersFit, NewChannel, NewListener
<1>5. JobsFit /\ RequestsFit /\ ArmedFit /\ DetachedFit
  BY <1>0, <1>1 DEF JobsFit, RequestsFit, ArmedFit, DetachedFit
<1>6. InboxesFit
  BY <1>0 DEF InboxesFit, NewChannel
<1> QED
  BY <1>2, <1>3, <1>4, <1>5, <1>6 DEF IInv

\* What a job appended to the op-lock leaves of the others.
LEMMA Appended ==
    ASSUME Kinds, NEW j \in JobKind, opChain' = Append(opChain, j)
    PROVE  /\ opChain' \in Seq(JobKind) /\ Len(opChain) \in Nat
           /\ Len(opChain') = Len(opChain) + 1
           /\ \A i \in 1..Len(opChain) : opChain'[i] = opChain[i]
           /\ opChain'[Len(opChain) + 1] = j
BY AppendProperties, LenProperties DEF Kinds

\* What the first job leaves when it runs.
LEMMA Taken ==
    ASSUME Kinds, opChain # <<>>, opChain' = Tail(opChain)
    PROVE  /\ opChain' \in Seq(JobKind) /\ Len(opChain) \in Nat \ {0} /\ Len(opChain') = Len(opChain) - 1
           /\ \A i \in 1..Len(opChain') : opChain'[i] = opChain[i + 1]
           /\ job \in JobKind /\ job = opChain[1]
BY HeadTailProperties, EmptySeq DEF Kinds, job

\* An entry of an inbox is a listener and a count.
LEMMA Entries ==
    ASSUME Kinds, NEW c \in Channels
    PROVE  /\ Len(chan[c].inbox) \in Nat
           /\ \A i \in 1..Len(chan[c].inbox) : chan[c].inbox[i] \in Listeners \X Nat
<1>1. chan[c].inbox \in Seq(Listeners \X Nat)
  BY DEF Kinds, ChannelKind, Inboxes
<1> QED
  BY <1>1, LenProperties, ElementOfSeq

\* Every job in the op-lock is of the kind of jobs.
LEMMA JobKinds ==
    ASSUME Kinds, NEW i \in 1..Len(opChain)
    PROVE  opChain[i] \in JobKind
BY ElementOfSeq DEF Kinds

\* Who is subscribed, queued or armed has a listener that was made.
LEMMA KnownAreMade ==
    ASSUME IInv, NEW l \in Listeners, listener[l].state = "none"
    PROVE  /\ \A c \in Channels : l \notin chan[c].subs
           /\ \A i \in 1..Len(opChain) : opChain[i].op # "connect" => opChain[i].l # l
           /\ l \notin DOMAIN armed
<1>1. listener[l].channel = None /\ None \notin Channels
  BY EventsAssumption DEF IInv, ListenersFit
<1>2. \A i \in 1..Len(opChain) : opChain[i].op # "connect" => opChain[i].l # l
  BY <1>1, JobKinds DEF IInv, JobsFit, JobFits, JobKind
<1>3. l \notin DOMAIN armed
  BY <1>1 DEF IInv, ArmedFit
<1> QED
  BY <1>2, <1>3 DEF IInv, ListenersFit

\* The chain grows, and its jobs stay as they are.
LEMMA Grown ==
    ASSUME NEW l, NEW i \in Nat, CancelledAfter(l, i), Len(opChain') >= Len(opChain), Len(opChain) \in Nat, Len(opChain') \in Nat,
           \A k \in 1..Len(opChain) : opChain'[k] = opChain[k]
    PROVE  CancelledAfter(l, i)'
BY DEF CancelledAfter

\* A channel that is asked for is waited for, one that is up is used.
LEMMA SubscribeParts ==
    ASSUME IInv, Habits = {}, NEW l \in Listeners, Subscribe(l)
    PROVE  \E c \in Channels :
           /\ listener[l].state = "none" /\ ~detached /\ detached' = detached
           /\ current' = c /\ current \in {None, c}
           /\ armed' = armed /\ aux' = aux /\ count' = count
           /\ \E s \in {"failed", "queing", "starting"} :
                /\ listener' = [listener EXCEPT ![l].channel = c, ![l].state = s]
                /\ s = "queing" <=> chan[c].socket \in {"open", "dead"}
           /\ \A k \in Listeners : listener[k].state # "closing"
           /\ chan' = [chan EXCEPT ![c].made = TRUE,
                    ![c].starting = IF @ = "no" THEN "asking" ELSE @,
                    ![c].subs = IF chan[c].socket \in {"open", "dead"} THEN @ \cup {l} ELSE @]
           /\ opChain' = IF chan[c].socket \in {"open", "dead"} THEN Append(opChain, [Que(l, 0) EXCEPT !.c = c])
                  ELSE IF chan[c].starting = "no" THEN Append(opChain, Connect(c))
                  ELSE opChain
           /\ current = None => ~chan[c].made
<1> DEFINE c == IF current # None THEN current ELSE CHOOSE k \in Unmade : TRUE
<1>1. c \in Channels /\ (current = None => ~chan[c].made)
  BY DEF Subscribe, Unmade, IInv, Kinds
<1> QED
  BY <1>1 DEF Subscribe, server

\* Subscribe: events() begins the channel, waits for it, or queues a request.
LEMMA SubscribeStep ==
    ASSUME IInv, Habits = {}, NEW l \in Listeners, Subscribe(l)
    PROVE  IInv'
<1>1. PICK c \in Channels :
           /\ listener[l].state = "none" /\ ~detached /\ detached' = detached
           /\ current' = c /\ current \in {None, c}
           /\ armed' = armed /\ aux' = aux /\ count' = count
           /\ \E s \in {"failed", "queing", "starting"} :
                /\ listener' = [listener EXCEPT ![l].channel = c, ![l].state = s]
                /\ s = "queing" <=> chan[c].socket \in {"open", "dead"}
           /\ \A k \in Listeners : listener[k].state # "closing"
           /\ chan' = [chan EXCEPT ![c].made = TRUE,
                    ![c].starting = IF @ = "no" THEN "asking" ELSE @,
                    ![c].subs = IF chan[c].socket \in {"open", "dead"} THEN @ \cup {l} ELSE @]
           /\ opChain' = IF chan[c].socket \in {"open", "dead"} THEN Append(opChain, [Que(l, 0) EXCEPT !.c = c])
                  ELSE IF chan[c].starting = "no" THEN Append(opChain, Connect(c))
                  ELSE opChain
           /\ current = None => ~chan[c].made
  BY SubscribeParts
<1>2. PICK s \in {"failed", "queing", "starting"} :
           /\ listener' = [listener EXCEPT ![l].channel = c, ![l].state = s]
           /\ s = "queing" <=> chan[c].socket \in {"open", "dead"}
  BY <1>1
<1> DEFINE up == chan[c].socket \in {"open", "dead"}
<1>0. /\ Kinds /\ ChannelsFit /\ ListenersFit /\ JobsFit /\ RequestsFit /\ ArmedFit /\ InboxesFit /\ DetachedFit
      /\ None \notin Channels /\ c # None
  BY EventsAssumption DEF IInv
<1>3. /\ chan' \in [Channels -> ChannelKind]
      /\ chan'[c].made /\ chan'[c].starting = (IF chan[c].starting = "no" THEN "asking" ELSE chan[c].starting)
      /\ chan'[c].socket = chan[c].socket /\ chan'[c].inbox = chan[c].inbox
      /\ chan'[c].subs = IF up THEN chan[c].subs \cup {l} ELSE chan[c].subs
      /\ \A k \in Channels : k # c => chan'[k] = chan[k]
  <2> DEFINE g == IF chan[c].starting = "no" THEN "asking" ELSE chan[c].starting
             u == IF up THEN chan[c].subs \cup {l} ELSE chan[c].subs
             r == [made |-> TRUE, starting |-> g, socket |-> chan[c].socket, closed |-> chan[c].closed,
                   subs |-> u, loop |-> chan[c].loop, inbox |-> chan[c].inbox]
  <2>1. chan[c] \in ChannelKind /\ chan \in [Channels -> ChannelKind]
    BY <1>0 DEF Kinds
  <2>2. g \in Starts /\ u \in SUBSET Listeners
    BY <2>1 DEF ChannelKind, Starts
  <2>3. chan' = [chan EXCEPT ![c].made = TRUE, ![c].starting = g, ![c].subs = u]
    BY <1>1, <2>1
  <2> HIDE DEF g, u
  <2>4. r \in ChannelKind
    BY <2>1, <2>2 DEF ChannelKind
  <2>5. chan[c] = [made |-> chan[c].made, starting |-> chan[c].starting, socket |-> chan[c].socket,
                   closed |-> chan[c].closed, subs |-> chan[c].subs, loop |-> chan[c].loop, inbox |-> chan[c].inbox]
    BY <2>1 DEF ChannelKind
  <2>6. chan'[c] = r
    BY <2>1, <2>3, <2>5
  <2>7. DOMAIN chan' = Channels /\ chan' = [k \in Channels |-> chan'[k]] /\ \A k \in Channels : k # c => chan'[k] = chan[k]
    BY <2>1, <2>3
  <2>8. \A k \in Channels : chan'[k] \in ChannelKind
    BY <2>1, <2>4, <2>6, <2>7
  <2>9. chan' \in [Channels -> ChannelKind]
    BY <2>7, <2>8
  <2> QED
    BY <2>6, <2>7, <2>9 DEF g, u
<1>4. /\ listener' \in [Listeners -> ListenerKind]
      /\ listener'[l].state = s /\ listener'[l].channel = c /\ listener'[l].counts = listener[l].counts
      /\ listener'[l].told = listener[l].told
      /\ \A k \in Listeners : k # l => listener'[k] = listener[k]
  BY <1>0, <1>2 DEF Kinds, ListenerKind, States
<1>5. /\ \A k \in Channels : l \notin chan[k].subs
      /\ \A i \in 1..Len(opChain) : opChain[i].op # "connect" => opChain[i].l # l
      /\ l \notin DOMAIN armed /\ listener[l].counts = 0
  BY <1>0, <1>1, KnownAreMade DEF ListenersFit
<1>6. up => chan[c].starting = "done" /\ current = c
  BY <1>0, <1>1 DEF ChannelsFit
<1>7. \A i \in 1..Len(opChain) : opChain[i] \in JobKind /\ opChain[i].op # "cancel"
  BY <1>0, <1>1, JobKinds DEF JobsFit, JobFits
<1>8. /\ opChain' \in Seq(JobKind) /\ Len(opChain) \in Nat
      /\ \A i \in 1..Len(opChain) : opChain'[i] = opChain[i]
      /\ \/ opChain' = opChain /\ Len(opChain') = Len(opChain) /\ ~up
         \/ /\ Len(opChain') = Len(opChain) + 1
            /\ LET j == opChain'[Len(opChain) + 1] IN
               /\ j \in JobKind
               /\ \/ up /\ j.op = "que" /\ j.l = l /\ j.c = c
                  \/ ~up /\ chan[c].starting = "no" /\ j.op = "connect" /\ j.c = c
  <2>1. Que(l, 0) \in [op : {"que"}, c : Channels \cup {None}, l : Listeners, n : Nat]
    BY <1>0 DEF Kinds, ListenerKind, Que
  <2>2. [Que(l, 0) EXCEPT !.c = c] \in JobKind /\ [Que(l, 0) EXCEPT !.c = c].op = "que"
        /\ [Que(l, 0) EXCEPT !.c = c].l = l /\ [Que(l, 0) EXCEPT !.c = c].c = c
    <3>1. Que(l, 0).l = l
      BY DEF Que
    <3> HIDE DEF Que
    <3> QED
      BY <2>1, <3>1 DEF JobKind
  <2>3. Connect(c) \in JobKind /\ Connect(c).op = "connect" /\ Connect(c).c = c
    BY DEF Connect, JobKind
  <2>4. CASE up
    BY <1>0, <1>1, <2>2, <2>4, Appended
  <2>5. CASE ~up /\ chan[c].starting = "no"
    BY <1>0, <1>1, <2>3, <2>5, Appended
  <2>6. CASE ~up /\ chan[c].starting # "no"
    BY <1>0, <1>1, <2>6, LenProperties DEF Kinds
  <2> QED
    BY <2>4, <2>5, <2>6
<1> HIDE DEF up
<1>9. Kinds'
  BY <1>0, <1>1, <1>3, <1>4, <1>8 DEF Kinds
<1>10. ChannelsFit'
  <2>1. \A k \in Channels : k # c => /\ chan[k].starting \notin {"asking", "connecting"}
                                     /\ chan[k].subs = {} /\ chan[k].socket # "open"
    BY <1>0, <1>1 DEF ChannelsFit
  <2>2. chan'[c].starting # "no" /\ (chan'[c].starting = "done" <=> chan[c].starting = "done")
    BY <1>3
  <2> QED
    BY <1>0, <1>1, <1>3, <1>6, <2>1, <2>2 DEF ChannelsFit
<1>11. ListenersFit'
  BY <1>0, <1>1, <1>2, <1>3, <1>4, <1>5 DEF ListenersFit, up
<1>12. JobsFit'
  <2> SUFFICES ASSUME NEW i \in 1..Len(opChain')
               PROVE  JobFits(i)'
    BY DEF JobsFit
  <2>1. CASE i \in 1..Len(opChain)
    <3>1. opChain'[i] = opChain[i] /\ JobFits(i) /\ opChain[i].op # "cancel" /\ opChain[i] \in JobKind
      BY <1>0, <1>7, <1>8, <2>1 DEF JobsFit
    <3>2. opChain[i].op = "connect" => opChain[i].c = c /\ chan[c].starting = "asking" /\ current = c
      BY <1>0, <1>1, <3>1 DEF JobFits, ChannelsFit, JobKind
    <3>3. opChain[i].op = "connect" => chan'[c].starting = "asking" /\ ~(~up /\ chan[c].starting = "no") /\ ~up
      BY <1>3, <1>6, <3>2
    <3>4. opChain[i].op = "connect" => \A k \in 1..Len(opChain') : opChain'[k].op = "connect" => k = i
      BY <1>8, <3>1, <3>2, <3>3 DEF JobFits
    <3>5. opChain[i].op # "connect" => opChain[i].l \in Listeners /\ listener'[opChain[i].l].channel = opChain[i].c
      BY <1>4, <1>5, <2>1, <3>1 DEF JobFits
    <3> QED
      BY <3>1, <3>2, <3>3, <3>4, <3>5 DEF JobFits
  <2>2. CASE i \notin 1..Len(opChain)
    <3>1. i = Len(opChain) + 1 /\ opChain'[i] \in JobKind
          /\ \/ up /\ opChain'[i].op = "que" /\ opChain'[i].l = l /\ opChain'[i].c = c
             \/ ~up /\ chan[c].starting = "no" /\ opChain'[i].op = "connect" /\ opChain'[i].c = c
      BY <1>8, <2>2
    <3>2. CASE opChain'[i].op = "que"
      BY <1>4, <3>1, <3>2 DEF JobFits
    <3>3. CASE opChain'[i].op = "connect"
      <4>1. chan'[c].starting = "asking" /\ chan[c].starting = "no"
        BY <1>3, <3>1, <3>3
      <4>2. \A k \in 1..Len(opChain) : opChain[k].op # "connect"
        <5> SUFFICES ASSUME NEW k \in 1..Len(opChain), opChain[k].op = "connect" PROVE FALSE
          OBVIOUS
        <5>1. opChain[k].c \in Channels /\ chan[opChain[k].c].starting = "asking"
          BY <1>0, <1>7 DEF JobsFit, JobFits, JobKind
        <5>2. opChain[k].c = current /\ current = c
          BY <1>0, <1>1, <5>1 DEF ChannelsFit
        <5> QED
          BY <4>1, <5>1, <5>2
      <4>3. \A k \in 1..Len(opChain') : opChain'[k].op = "connect" => k = i
        BY <1>8, <3>1, <4>2
      <4> QED
        BY <3>1, <3>3, <4>1, <4>3 DEF JobFits
    <3> QED
      BY <3>1, <3>2, <3>3
  <2> QED
    BY <2>1, <2>2
<1>13. RequestsFit'
  <2> SUFFICES ASSUME NEW i \in 1..Len(opChain'), opChain'[i].op = "que"
               PROVE  opChain'[i].l \in chan'[opChain'[i].c].subs
    BY DEF RequestsFit
  <2>1. CASE i \in 1..Len(opChain)
    <3>1. opChain'[i] = opChain[i] /\ opChain[i] \in JobKind
      BY <1>7, <1>8, <2>1
    <3>2. ~CancelledAfter(opChain[i].l, i)
      BY <1>7 DEF CancelledAfter
    <3>3. opChain[i].l \in chan[opChain[i].c].subs
      BY <1>0, <2>1, <3>1, <3>2 DEF RequestsFit
    <3> QED
      BY <1>3, <3>1, <3>3 DEF JobKind
  <2>2. CASE i \notin 1..Len(opChain)
    <3>1. up /\ opChain'[i].l = l /\ opChain'[i].c = c
      BY <1>8, <2>2
    <3> QED
      BY <1>3, <3>1
  <2> QED
    BY <2>1, <2>2
<1>14. ArmedFit'
  <2> SUFFICES ASSUME NEW k \in DOMAIN armed
               PROVE  listener'[k].channel \in Channels /\ k \in chan'[listener'[k].channel].subs
    BY <1>1 DEF ArmedFit
  <2>1. k \in Listeners /\ k # l /\ listener'[k] = listener[k]
    BY <1>0, <1>4, <1>5 DEF Kinds
  <2>2. ~CancelledAfter(k, 0)
    BY <1>7 DEF CancelledAfter
  <2>3. listener[k].channel \in Channels /\ k \in chan[listener[k].channel].subs
    BY <1>0, <2>2 DEF ArmedFit
  <2> QED
    BY <1>3, <2>1, <2>3
<1>15. InboxesFit'
  <2> SUFFICES ASSUME NEW k \in Channels, NEW i \in 1..Len(chan'[k].inbox)
               PROVE  /\ chan'[k].inbox[i][2] <= count'
                      /\ \A j \in 1..Len(chan'[k].inbox) : i <= j => chan'[k].inbox[i][2] <= chan'[k].inbox[j][2]
                      /\ listener'[chan'[k].inbox[i][1]].channel = k => listener'[chan'[k].inbox[i][1]].counts <= chan'[k].inbox[i][2]
    BY DEF InboxesFit
  <2>1. chan'[k].inbox = chan[k].inbox
    BY <1>3
  <2>2. chan[k].inbox[i] \in Listeners \X Nat
    BY <1>0, <2>1, Entries
  <2>3. PICK w \in Listeners, n \in Nat : chan[k].inbox[i] = <<w, n>>
    BY <2>2
  <2>4. listener'[w].channel = k => listener'[w].counts <= n
    <3>1. CASE w = l
      BY <1>4, <1>5, <3>1
    <3>2. CASE w # l
      BY <1>0, <1>4, <2>1, <2>3, <3>2 DEF InboxesFit
    <3> QED
      BY <3>1, <3>2
  <2>5. /\ n <= count /\ chan[k].inbox[i][1] = w /\ chan[k].inbox[i][2] = n
        /\ \A j \in 1..Len(chan[k].inbox) : i <= j => chan[k].inbox[i][2] <= chan[k].inbox[j][2]
    BY <1>0, <2>1, <2>3 DEF InboxesFit
  <2> QED
    BY <1>1, <2>1, <2>4, <2>5
<1>16. DetachedFit'
  BY <1>1 DEF DetachedFit
<1> QED
  BY <1>9, <1>10, <1>11, <1>12, <1>13, <1>14, <1>15, <1>16 DEF IInv

\* Who is asked for stays so while nobody is unsubscribed.
LEMMA StillAsked ==
    ASSUME Kinds, ArmedFit, RequestsFit, opChain' = opChain, DOMAIN armed' \subseteq DOMAIN armed,
           \A l \in Listeners : listener'[l].channel = listener[l].channel,
           \A c \in Channels : chan[c].subs \subseteq chan'[c].subs
    PROVE  RequestsFit' /\ ArmedFit'
<1>1. RequestsFit'
  <2> SUFFICES ASSUME NEW i \in 1..Len(opChain), opChain[i].op = "que"
               PROVE  opChain[i].l \in chan'[opChain[i].c].subs \/ CancelledAfter(opChain[i].l, i)
    BY DEF RequestsFit, CancelledAfter
  <2>1. opChain[i].c \in Channels
    BY JobKinds DEF JobKind
  <2> QED
    BY <2>1 DEF RequestsFit
<1>2. ArmedFit'
  <2> SUFFICES ASSUME NEW l \in DOMAIN armed
               PROVE  /\ listener'[l].channel \in Channels
                      /\ l \in chan'[listener'[l].channel].subs \/ CancelledAfter(l, 0)
    BY DEF ArmedFit, CancelledAfter
  <2>1. l \in Listeners
    BY DEF Kinds
  <2> QED
    BY <2>1 DEF ArmedFit
<1> QED
  BY <1>1, <1>2

\* The first job is gone, and those behind it moved up.
LEMMA MovedUp ==
    ASSUME NEW l, NEW i \in Nat, CancelledAfter(l, i + 1), Len(opChain) \in Nat \ {0}, Len(opChain') = Len(opChain) - 1,
           \A k \in 1..Len(opChain') : opChain'[k] = opChain[k + 1]
    PROVE  CancelledAfter(l, i)'
<1>1. PICK k \in 1..Len(opChain) : k > i + 1 /\ opChain[k].op = "cancel" /\ opChain[k].l = l
  BY DEF CancelledAfter
<1>2. k - 1 \in 1..Len(opChain') /\ k - 1 > i /\ opChain'[k - 1] = opChain[k]
  BY <1>1
<1> QED
  BY <1>1, <1>2 DEF CancelledAfter

\* Post: the count exceeds all that was heard.
LEMMA PostStep ==
    ASSUME IInv, Post
    PROVE  IInv'
<1>0. /\ Kinds /\ ChannelsFit /\ ListenersFit /\ JobsFit /\ RequestsFit /\ ArmedFit /\ InboxesFit /\ DetachedFit
      /\ count' = count + 1 /\ count \in Nat /\ count <= MaxPosts /\ MaxPosts \in Nat
      /\ chan' = chan /\ current' = current /\ listener' = listener /\ opChain' = opChain
      /\ detached' = detached /\ armed' = armed /\ aux' = aux
  BY EventsAssumption DEF IInv, Kinds, Post, client
<1>1. Kinds'
  BY <1>0 DEF Kinds
<1>2. ListenersFit'
  <2> SUFFICES ASSUME NEW l \in Listeners PROVE listener[l].counts <= count'
    BY <1>0 DEF ListenersFit
  <2>1. listener[l].counts \in Nat /\ listener[l].counts <= count
    BY <1>0 DEF Kinds, ListenerKind, ListenersFit
  <2> QED
    BY <1>0, <2>1
<1>3. InboxesFit'
  <2> SUFFICES ASSUME NEW c \in Channels, NEW i \in 1..Len(chan[c].inbox)
               PROVE  chan[c].inbox[i][2] <= count'
    BY <1>0 DEF InboxesFit
  <2>1. chan[c].inbox[i] \in Listeners \X Nat /\ chan[c].inbox[i][2] <= count
    BY <1>0, Entries DEF InboxesFit
  <2>2. chan[c].inbox[i][2] \in Nat
    BY <2>1
  <2> QED
    BY <1>0, <2>1, <2>2
<1>4. ChannelsFit' /\ ArmedFit' /\ RequestsFit' /\ DetachedFit'
  BY <1>0 DEF ChannelsFit, ArmedFit, RequestsFit, DetachedFit, CancelledAfter
<1>5. JobsFit'
  BY <1>0 DEF JobsFit, JobFits
<1> QED
  BY <1>1, <1>2, <1>3, <1>4, <1>5 DEF IInv

\* AuxDies: the channel is no longer open, and its subscriptions stay.
LEMMA AuxDiesStep ==
    ASSUME IInv, NEW c \in Channels, AuxDies(c)
    PROVE  IInv'
<1>0. /\ Kinds /\ ChannelsFit /\ ListenersFit /\ JobsFit /\ RequestsFit /\ ArmedFit /\ InboxesFit /\ DetachedFit
      /\ chan[c].socket = "open"
      /\ chan' = [chan EXCEPT ![c].socket = "dead", ![c].loop = "off", ![c].inbox = <<>>]
      /\ count' = count /\ current' = current /\ listener' = listener /\ opChain' = opChain
      /\ detached' = detached /\ armed' = armed /\ aux' = aux
  BY DEF IInv, AuxDies, server
<1>1. /\ chan' \in [Channels -> ChannelKind]
      /\ chan'[c] = [chan[c] EXCEPT !.socket = "dead", !.loop = "off", !.inbox = <<>>]
      /\ \A k \in Channels : k # c => chan'[k] = chan[k]
  <2> DEFINE r == [chan[c] EXCEPT !.socket = "dead", !.loop = "off", !.inbox = <<>>]
  <2>1. chan \in [Channels -> ChannelKind] /\ chan[c] \in ChannelKind /\ <<>> \in Inboxes
    BY <1>0, EmptySeq DEF Kinds, Inboxes
  <2>2. r \in ChannelKind
    BY <2>1 DEF ChannelKind, Sockets, Loops
  <2>3. chan'[c] = r /\ chan' = [k \in Channels |-> chan'[k]] /\ \A k \in Channels : k # c => chan'[k] = chan[k]
    BY <1>0, <2>1
  <2> HIDE DEF r
  <2>4. \A k \in Channels : chan'[k] \in ChannelKind
    BY <2>1, <2>2, <2>3
  <2>5. chan' \in [Channels -> ChannelKind]
    BY <2>3, <2>4
  <2> QED
    BY <2>3, <2>5 DEF r
<1>2. /\ chan'[c].made = chan[c].made /\ chan'[c].starting = chan[c].starting /\ chan'[c].subs = chan[c].subs
      /\ chan'[c].socket = "dead" /\ chan'[c].inbox = <<>>
  <2>1. chan[c] \in ChannelKind
    BY <1>0 DEF Kinds
  <2> QED
    BY <1>1, <2>1 DEF ChannelKind
<1>3. Kinds'
  BY <1>0, <1>1 DEF Kinds
<1>4. ChannelsFit'
  BY <1>0, <1>1, <1>2 DEF ChannelsFit, Kinds
<1>5. ListenersFit'
  BY <1>0, <1>1, <1>2 DEF ListenersFit
<1>6. /\ \A i \in 1..Len(opChain) : opChain[i] \in JobKind
      /\ \A k \in Channels : chan'[k].starting = chan[k].starting /\ chan'[k].subs = chan[k].subs
  BY <1>0, <1>1, <1>2, JobKinds
<1>7. JobsFit'
  <2> SUFFICES ASSUME NEW i \in 1..Len(opChain) PROVE JobFits(i)'
    BY <1>0 DEF JobsFit
  <2>1. JobFits(i) /\ opChain[i].c \in Channels
    BY <1>0, <1>6 DEF JobsFit, JobKind
  <2> QED
    BY <1>0, <1>6, <2>1 DEF JobFits
<1>8. RequestsFit' /\ ArmedFit'
  BY <1>0, <1>6, StillAsked
<1>10. InboxesFit'
  BY <1>0, <1>1, <1>2, EmptySeq DEF InboxesFit
<1>11. DetachedFit'
  BY <1>0 DEF DetachedFit
<1> QED
  BY <1>3, <1>4, <1>5, <1>7, <1>8, <1>10, <1>11 DEF IInv

\* A channel whose start fails keeps all it has but that.
LEMMA StartLost ==
    ASSUME Kinds, NEW c \in Channels, NEW g \in Starts, chan' = [chan EXCEPT ![c].starting = g]
    PROVE  /\ chan' \in [Channels -> ChannelKind] /\ chan'[c].starting = g
           /\ \A k \in Channels : k # c => chan'[k].starting = chan[k].starting
           /\ \A k \in Channels : /\ chan'[k].made = chan[k].made /\ chan'[k].subs = chan[k].subs
                                  /\ chan'[k].socket = chan[k].socket /\ chan'[k].inbox = chan[k].inbox
<1>1. chan \in [Channels -> ChannelKind] /\ chan[c] \in ChannelKind
  BY DEF Kinds
<1>2. [chan[c] EXCEPT !.starting = g] \in ChannelKind
  BY <1>1 DEF ChannelKind
<1>3. chan' \in [Channels -> ChannelKind]
  BY <1>1, <1>2
<1>4. chan'[c] = [chan[c] EXCEPT !.starting = g] /\ \A k \in Channels : k # c => chan'[k] = chan[k]
  BY <1>1
<1>5. /\ chan'[c].made = chan[c].made /\ chan'[c].subs = chan[c].subs /\ chan'[c].starting = g
      /\ chan'[c].socket = chan[c].socket /\ chan'[c].inbox = chan[c].inbox
  BY <1>1, <1>4 DEF ChannelKind
<1> QED
  BY <1>3, <1>4, <1>5

\* Who waits for a start that fails was not subscribed.
LEMMA WaitingFail ==
    ASSUME Kinds, NEW c \in Channels, StartFails(c)
    PROVE  /\ listener' \in [Listeners -> ListenerKind]
           /\ \A l \in Listeners :
               /\ listener'[l].channel = listener[l].channel /\ listener'[l].counts = listener[l].counts
               /\ listener'[l].told = listener[l].told
               /\ listener'[l].state = listener[l].state \/ (listener[l].state = "starting" /\ listener'[l].state = "failed")
<1>1. listener' = [l \in Listeners |-> IF l \in Waiting(c) THEN [listener[l] EXCEPT !.state = "failed"] ELSE listener[l]]
  BY DEF StartFails
<1>2. ASSUME NEW l \in Listeners
      PROVE  /\ listener'[l] \in ListenerKind
             /\ listener'[l].channel = listener[l].channel /\ listener'[l].counts = listener[l].counts
             /\ listener'[l].told = listener[l].told
             /\ listener'[l].state = listener[l].state \/ (listener[l].state = "starting" /\ listener'[l].state = "failed")
  <2>1. listener[l] \in ListenerKind
    BY DEF Kinds
  <2>2. CASE l \in Waiting(c)
    BY <1>1, <2>1, <2>2 DEF Waiting, ListenerKind, States
  <2>3. CASE l \notin Waiting(c)
    <3>1. listener'[l] = listener[l]
      BY <1>1, <2>3
    <3> QED
      BY <2>1, <3>1
  <2> QED
    BY <2>2, <2>3
<1>3. listener' \in [Listeners -> ListenerKind]
  BY <1>1, <1>2
<1> QED
  BY <1>2, <1>3

\* AuxRefused: a channel that failed has no subscription to lose.
LEMMA AuxRefusedStep ==
    ASSUME IInv, NEW c \in Channels, AuxRefused(c)
    PROVE  IInv'
<1>0. /\ Kinds /\ ChannelsFit /\ ListenersFit /\ JobsFit /\ RequestsFit /\ ArmedFit /\ InboxesFit /\ DetachedFit
      /\ chan[c].starting = "connecting"
      /\ chan' = [chan EXCEPT ![c].starting = "failed"]
      /\ StartFails(c)
      /\ count' = count /\ current' = current /\ opChain' = opChain
      /\ detached' = detached /\ armed' = armed /\ aux' = aux
      /\ "failed" \in Starts
  BY DEF IInv, AuxRefused, server, Starts
<1>1. /\ chan' \in [Channels -> ChannelKind] /\ chan'[c].starting = "failed"
      /\ \A k \in Channels : k # c => chan'[k].starting = chan[k].starting
      /\ \A k \in Channels : /\ chan'[k].made = chan[k].made /\ chan'[k].subs = chan[k].subs
                             /\ chan'[k].socket = chan[k].socket /\ chan'[k].inbox = chan[k].inbox
  BY <1>0, StartLost
<1>2. /\ listener' \in [Listeners -> ListenerKind]
      /\ \A l \in Listeners :
          /\ listener'[l].channel = listener[l].channel /\ listener'[l].counts = listener[l].counts
          /\ listener'[l].told = listener[l].told
          /\ listener'[l].state = listener[l].state \/ (listener[l].state = "starting" /\ listener'[l].state = "failed")
  BY <1>0, WaitingFail
<1>3. Kinds'
  BY <1>0, <1>1, <1>2 DEF Kinds
<1>4. ChannelsFit'
  BY <1>0, <1>1 DEF ChannelsFit, Kinds
<1>5. ListenersFit'
  <2> SUFFICES ASSUME NEW l \in Listeners
               PROVE  /\ listener'[l].state = "none" => listener'[l].counts = 0 /\ listener'[l].channel = None
                      /\ listener'[l].state # "none" => listener'[l].channel \in Channels
                      /\ listener'[l].told <= listener'[l].counts /\ listener'[l].counts <= count'
                      /\ \A k \in Channels : l \in chan'[k].subs =>
                          listener'[l].state \in {"queing", "live", "failed"} /\ listener'[l].channel = k
    BY DEF ListenersFit
  <2> QED
    BY <1>0, <1>1, <1>2 DEF ListenersFit
<1>6. \A i \in 1..Len(opChain) : opChain[i] \in JobKind /\ JobFits(i)
  BY <1>0, JobKinds DEF JobsFit
<1>7. JobsFit'
  <2> SUFFICES ASSUME NEW i \in 1..Len(opChain) PROVE JobFits(i)'
    BY <1>0 DEF JobsFit
  <2>1. JobFits(i) /\ opChain[i].c \in Channels
    BY <1>6 DEF JobKind
  <2> QED
    BY <1>0, <1>1, <1>2, <2>1 DEF JobFits
<1>8. RequestsFit' /\ ArmedFit'
  BY <1>0, <1>1, <1>2, StillAsked
<1>10. InboxesFit'
  <2> SUFFICES ASSUME NEW k \in Channels, NEW i \in 1..Len(chan[k].inbox)
               PROVE  /\ chan[k].inbox[i][2] <= count
                      /\ \A j \in 1..Len(chan[k].inbox) : i <= j => chan[k].inbox[i][2] <= chan[k].inbox[j][2]
                      /\ listener'[chan[k].inbox[i][1]].channel = k => listener'[chan[k].inbox[i][1]].counts <= chan[k].inbox[i][2]
    BY <1>0, <1>1 DEF InboxesFit
  <2>1. chan[k].inbox[i][1] \in Listeners
    BY <1>0, Entries
  <2> QED
    BY <1>0, <1>2, <2>1 DEF InboxesFit
<1>11. DetachedFit'
  BY <1>0 DEF DetachedFit
<1> QED
  BY <1>3, <1>4, <1>5, <1>7, <1>8, <1>10, <1>11 DEF IInv

\* Fire: the count that is sent is the largest in the inbox.
LEMMA FireStep ==
    ASSUME IInv, NEW l \in Listeners, Fire(l)
    PROVE  IInv'
<1>0. /\ Kinds /\ ChannelsFit /\ ListenersFit /\ JobsFit /\ RequestsFit /\ ArmedFit /\ InboxesFit /\ DetachedFit
      /\ l \in DOMAIN armed /\ aux # None /\ aux \in Channels /\ chan[aux].socket = "open"
      /\ chan' = [chan EXCEPT ![aux].inbox = Append(chan[aux].inbox, <<l, count>>)]
      /\ armed' = Without(armed, l) /\ count \in Nat
      /\ count' = count /\ current' = current /\ listener' = listener /\ opChain' = opChain
      /\ detached' = detached /\ aux' = aux
  <2>1. Kinds
    BY DEF IInv
  <2>2. aux \in Channels /\ count \in Nat
    BY <2>1, EventsAssumption DEF Fire, Kinds
  <2> QED
    BY <2>2 DEF IInv, Fire
<1> DEFINE q == chan[aux].inbox
           e == <<l, count>>
<1>1. /\ q \in Seq(Listeners \X Nat) /\ e \in Listeners \X Nat /\ chan \in [Channels -> ChannelKind] /\ chan[aux] \in ChannelKind
  BY <1>0 DEF Kinds, ChannelKind, Inboxes
<1>2. /\ Append(q, e) \in Inboxes /\ Len(q) \in Nat /\ Len(Append(q, e)) = Len(q) + 1
      /\ \A i \in 1..Len(q) : Append(q, e)[i] = q[i]
      /\ Append(q, e)[Len(q) + 1] = e
  BY <1>1, AppendProperties, LenProperties DEF Inboxes
<1>3. /\ chan' \in [Channels -> ChannelKind]
      /\ \A k \in Channels : /\ chan'[k].made = chan[k].made /\ chan'[k].starting = chan[k].starting
                             /\ chan'[k].subs = chan[k].subs /\ chan'[k].socket = chan[k].socket
                             /\ k # aux => chan'[k].inbox = chan[k].inbox
      /\ chan'[aux].inbox = Append(q, e)
  <2> DEFINE q2 == Append(q, e)
  <2>1. chan' = [chan EXCEPT ![aux].inbox = q2] /\ q2 \in Inboxes
    BY <1>0, <1>2
  <2> HIDE DEF q2
  <2>2. [chan[aux] EXCEPT !.inbox = q2] \in ChannelKind
    BY <1>1, <2>1 DEF ChannelKind
  <2>3. chan' \in [Channels -> ChannelKind]
    BY <1>1, <2>1, <2>2
  <2>4. chan'[aux] = [chan[aux] EXCEPT !.inbox = q2] /\ \A k \in Channels : k # aux => chan'[k] = chan[k]
    BY <1>0, <1>1, <2>1
  <2>5. /\ chan'[aux].made = chan[aux].made /\ chan'[aux].starting = chan[aux].starting
        /\ chan'[aux].subs = chan[aux].subs /\ chan'[aux].socket = chan[aux].socket /\ chan'[aux].inbox = q2
    BY <1>1, <2>4 DEF ChannelKind
  <2>6. chan'[aux].inbox = Append(q, e)
    BY <2>5 DEF q2
  <2> QED
    BY <2>3, <2>4, <2>5, <2>6
<1>4. DOMAIN armed' = DOMAIN armed \ {l} /\ DOMAIN armed' \subseteq Listeners
  BY <1>0 DEF Without, Kinds
<1>5. Kinds'
  BY <1>0, <1>3, <1>4 DEF Kinds
<1>6. ChannelsFit'
  BY <1>0, <1>3 DEF ChannelsFit, Kinds
<1>7. ListenersFit'
  BY <1>0, <1>3 DEF ListenersFit
<1>8. \A i \in 1..Len(opChain) : opChain[i] \in JobKind /\ JobFits(i)
  BY <1>0, JobKinds DEF JobsFit
<1>9. JobsFit'
  <2> SUFFICES ASSUME NEW i \in 1..Len(opChain) PROVE JobFits(i)'
    BY <1>0 DEF JobsFit
  <2>1. JobFits(i) /\ opChain[i].c \in Channels
    BY <1>8 DEF JobKind
  <2> QED
    BY <1>0, <1>3, <2>1 DEF JobFits
<1>10. RequestsFit' /\ ArmedFit'
  BY <1>0, <1>3, <1>4, StillAsked
<1>11. InboxesFit'
  <2> SUFFICES ASSUME NEW k \in Channels, NEW i \in 1..Len(chan'[k].inbox)
               PROVE  /\ chan'[k].inbox[i][2] <= count
                      /\ \A j \in 1..Len(chan'[k].inbox) : i <= j => chan'[k].inbox[i][2] <= chan'[k].inbox[j][2]
                      /\ listener[chan'[k].inbox[i][1]].channel = k => listener[chan'[k].inbox[i][1]].counts <= chan'[k].inbox[i][2]
    BY <1>0 DEF InboxesFit
  <2>1. CASE k # aux
    BY <1>0, <1>3, <2>1 DEF InboxesFit
  <2>2. CASE k = aux /\ i \in 1..Len(q)
    <3>1. chan'[k].inbox[i] = q[i] /\ q[i] \in Listeners \X Nat /\ Len(chan'[k].inbox) = Len(q) + 1
      BY <1>0, <1>2, <1>3, <2>2, Entries
    <3>2. /\ q[i][2] <= count /\ \A j \in 1..Len(q) : i <= j => q[i][2] <= q[j][2]
          /\ listener[q[i][1]].channel = k => listener[q[i][1]].counts <= q[i][2]
      BY <1>0, <2>2 DEF InboxesFit
    <3>3. ASSUME NEW j \in 1..Len(chan'[k].inbox), i <= j
          PROVE  q[i][2] <= chan'[k].inbox[j][2]
      <4>1. CASE j \in 1..Len(q)
        BY <1>2, <1>3, <2>2, <3>2, <3>3, <4>1
      <4>2. CASE j \notin 1..Len(q)
        <5>1. j = Len(q) + 1
          BY <1>2, <3>1, <3>3, <4>2
        <5>2. chan'[k].inbox[j] = e /\ e[2] = count
          BY <1>2, <1>3, <2>2, <5>1
        <5> QED
          BY <3>2, <5>2
      <4> QED
        BY <4>1, <4>2
    <3> QED
      BY <3>1, <3>2, <3>3
  <2>3. CASE k = aux /\ i \notin 1..Len(q)
    <3>1. i = Len(q) + 1 /\ chan'[k].inbox[i] = e /\ Len(chan'[k].inbox) = Len(q) + 1
      BY <1>2, <1>3, <2>3
    <3>2. listener[l].counts <= count
      BY <1>0 DEF ListenersFit
    <3>3. \A j \in 1..Len(chan'[k].inbox) : i <= j => j = i
      BY <1>2, <3>1
    <3>4. e[1] = l /\ e[2] = count /\ count <= count
      BY <1>0
    <3> HIDE DEF e
    <3>5. \A j \in 1..Len(chan'[k].inbox) : i <= j => chan'[k].inbox[i][2] <= chan'[k].inbox[j][2]
      <4> SUFFICES ASSUME NEW j \in 1..Len(chan'[k].inbox), i <= j
                   PROVE  e[2] <= chan'[k].inbox[j][2]
        BY <3>1
      <4>1. chan'[k].inbox[j] = e
        BY <3>1, <3>3
      <4> QED
        BY <3>4, <4>1
    <3> QED
      BY <3>1, <3>2, <3>4, <3>5
  <2> QED
    BY <2>1, <2>2, <2>3
<1>12. DetachedFit'
  BY <1>0, <1>4 DEF DetachedFit
<1> QED
  BY <1>5, <1>6, <1>7, <1>9, <1>10, <1>11, <1>12 DEF IInv

\* A channel whose subscriptions change keeps the rest.
LEMMA SubsChanged ==
    ASSUME Kinds, NEW c \in Channels, NEW S \in SUBSET Listeners, chan' = [chan EXCEPT ![c].subs = S]
    PROVE  /\ chan' \in [Channels -> ChannelKind] /\ chan'[c].subs = S
           /\ \A k \in Channels : k # c => chan'[k].subs = chan[k].subs
           /\ \A k \in Channels : /\ chan'[k].made = chan[k].made /\ chan'[k].starting = chan[k].starting
                                  /\ chan'[k].socket = chan[k].socket /\ chan'[k].inbox = chan[k].inbox
<1>1. chan \in [Channels -> ChannelKind] /\ chan[c] \in ChannelKind
  BY DEF Kinds
<1>2. [chan[c] EXCEPT !.subs = S] \in ChannelKind
  BY <1>1 DEF ChannelKind
<1>3. chan' \in [Channels -> ChannelKind]
  BY <1>1, <1>2
<1>4. chan'[c] = [chan[c] EXCEPT !.subs = S] /\ \A k \in Channels : k # c => chan'[k] = chan[k]
  BY <1>1
<1>5. /\ chan'[c].made = chan[c].made /\ chan'[c].subs = S /\ chan'[c].starting = chan[c].starting
      /\ chan'[c].socket = chan[c].socket /\ chan'[c].inbox = chan[c].inbox
  BY <1>1, <1>4 DEF ChannelKind
<1> QED
  BY <1>3, <1>4, <1>5

\* A listener whose state changes keeps the rest.
LEMMA StateChanged ==
    ASSUME Kinds, NEW l \in Listeners, NEW s \in States, listener' = [listener EXCEPT ![l].state = s]
    PROVE  /\ listener' \in [Listeners -> ListenerKind] /\ listener'[l].state = s
           /\ \A k \in Listeners : k # l => listener'[k].state = listener[k].state
           /\ \A k \in Listeners : /\ listener'[k].channel = listener[k].channel /\ listener'[k].counts = listener[k].counts
                                   /\ listener'[k].told = listener[k].told
<1>1. listener \in [Listeners -> ListenerKind] /\ listener[l] \in ListenerKind
  BY DEF Kinds
<1>2. [listener[l] EXCEPT !.state = s] \in ListenerKind
  BY <1>1 DEF ListenerKind
<1>3. listener' \in [Listeners -> ListenerKind]
  BY <1>1, <1>2
<1>4. listener'[l] = [listener[l] EXCEPT !.state = s] /\ \A k \in Listeners : k # l => listener'[k] = listener[k]
  BY <1>1
<1>5. /\ listener'[l].channel = listener[l].channel /\ listener'[l].counts = listener[l].counts
      /\ listener'[l].told = listener[l].told /\ listener'[l].state = s
  BY <1>1, <1>4 DEF ListenerKind
<1> QED
  BY <1>3, <1>4, <1>5

\* What a step keeps of the counts, when no inbox grows.
LEMMA StillInOrder ==
    ASSUME Kinds, InboxesFit, count' = count,
           \A c \in Channels : chan'[c].inbox = chan[c].inbox \/ chan'[c].inbox = <<>>,
           \A l \in Listeners : listener'[l].channel = listener[l].channel /\ listener'[l].counts = listener[l].counts
    PROVE  InboxesFit'
<1> SUFFICES ASSUME NEW k \in Channels, NEW i \in 1..Len(chan'[k].inbox)
             PROVE  /\ chan'[k].inbox[i][2] <= count
                    /\ \A j \in 1..Len(chan'[k].inbox) : i <= j => chan'[k].inbox[i][2] <= chan'[k].inbox[j][2]
                    /\ listener'[chan'[k].inbox[i][1]].channel = k => listener'[chan'[k].inbox[i][1]].counts <= chan'[k].inbox[i][2]
  BY DEF InboxesFit
<1>1. chan'[k].inbox = chan[k].inbox
  BY EmptySeq
<1>2. chan[k].inbox[i][1] \in Listeners
  BY <1>1, Entries
<1> QED
  BY <1>1, <1>2 DEF InboxesFit

\* Closing a subscribed listener queues the cancellation that all its requests then precede.
LEMMA CloseAsks ==
    ASSUME IInv, NEW l \in Listeners, Close(l), l \in chan[listener[l].channel].subs
    PROVE  IInv'
<1> DEFINE c == listener[l].channel
<1>0. /\ Kinds /\ ChannelsFit /\ ListenersFit /\ JobsFit /\ RequestsFit /\ ArmedFit /\ InboxesFit /\ DetachedFit
      /\ listener[l].state = "live" /\ c \in Channels /\ l \in chan[c].subs
      /\ chan' = [chan EXCEPT ![c].subs = chan[c].subs \ {l}]
      /\ opChain' = Append(opChain, Cancel(l))
      /\ listener' = [listener EXCEPT ![l].state = "closing"]
      /\ count' = count /\ current' = current
      /\ detached' = detached /\ armed' = armed /\ aux' = aux
  <2>1. listener[l].state = "live" /\ ListenersFit
    BY DEF IInv, Close
  <2>2. c \in Channels
    BY <2>1 DEF ListenersFit
  <2> QED
    BY <2>1, <2>2 DEF IInv, Close, server
<1>1. c = current /\ chan[c].starting = "done" /\ ~detached /\ current \in Channels
  BY <1>0, EventsAssumption DEF ChannelsFit, DetachedFit
<1>2. /\ chan' \in [Channels -> ChannelKind] /\ chan'[c].subs = chan[c].subs \ {l}
      /\ \A k \in Channels : k # c => chan'[k].subs = chan[k].subs
      /\ \A k \in Channels : /\ chan'[k].made = chan[k].made /\ chan'[k].starting = chan[k].starting
                             /\ chan'[k].socket = chan[k].socket /\ chan'[k].inbox = chan[k].inbox
  <2>1. chan[c].subs \ {l} \in SUBSET Listeners
    BY <1>0 DEF Kinds, ChannelKind
  <2> QED
    BY <1>0, <2>1, SubsChanged
<1>3. /\ listener' \in [Listeners -> ListenerKind] /\ listener'[l].state = "closing"
      /\ \A k \in Listeners : k # l => listener'[k].state = listener[k].state
      /\ \A k \in Listeners : /\ listener'[k].channel = listener[k].channel /\ listener'[k].counts = listener[k].counts
                              /\ listener'[k].told = listener[k].told
  <2>1. "closing" \in States
    BY DEF States
  <2> QED
    BY <1>0, <2>1, StateChanged
<1>4. Cancel(l) \in JobKind /\ Cancel(l).op = "cancel" /\ Cancel(l).l = l /\ Cancel(l).c = c /\ Cancel(l).n = 0
  BY <1>0 DEF Cancel, JobKind
<1> DEFINE m == Len(opChain)
<1>5. /\ opChain' \in Seq(JobKind) /\ m \in Nat /\ Len(opChain') = m + 1
      /\ \A i \in 1..m : opChain'[i] = opChain[i]
      /\ opChain'[m + 1] = Cancel(l)
  BY <1>0, <1>4, Appended
<1> HIDE DEF c
<1>6. /\ opChain'[m + 1].op = "cancel" /\ opChain'[m + 1].l = l
      /\ opChain'[m + 1].c = c /\ opChain'[m + 1].n = 0
  BY <1>4, <1>5
<1>7. \A i \in 1..m : opChain[i] \in JobKind /\ JobFits(i) /\ (opChain[i].op = "cancel" => opChain[i].l # l)
  BY <1>0, JobKinds DEF JobsFit, JobFits
<1>8. Kinds'
  BY <1>0, <1>2, <1>3, <1>5 DEF Kinds
<1>9. ChannelsFit'
  BY <1>0, <1>1, <1>2 DEF ChannelsFit
<1>10. ListenersFit'
  <2> SUFFICES ASSUME NEW k \in Listeners
               PROVE  /\ listener'[k].state = "none" => listener'[k].counts = 0 /\ listener'[k].channel = None
                      /\ listener'[k].state # "none" => listener'[k].channel \in Channels
                      /\ listener'[k].told <= listener'[k].counts /\ listener'[k].counts <= count'
                      /\ \A j \in Channels : k \in chan'[j].subs =>
                          listener'[k].state \in {"queing", "live", "failed"} /\ listener'[k].channel = j
    BY DEF ListenersFit
  <2>1. CASE k # l
    BY <1>0, <1>2, <1>3, <2>1 DEF ListenersFit
  <2>2. CASE k = l
    <3>1. \A j \in Channels : l \notin chan'[j].subs
      BY <1>0, <1>2 DEF ListenersFit, c
    <3> QED
      BY <1>0, <1>3, <2>2, <3>1 DEF ListenersFit
  <2> QED
    BY <2>1, <2>2
<1>11. JobsFit'
  <2> SUFFICES ASSUME NEW i \in 1..Len(opChain') PROVE JobFits(i)'
    BY DEF JobsFit
  <2>1. CASE i \in 1..m
    <3>1. opChain'[i] = opChain[i] /\ JobFits(i) /\ opChain[i].c \in Channels
      BY <1>5, <1>7, <2>1 DEF JobKind
    <3>2. opChain[i].op = "connect" => \A k \in 1..Len(opChain') : opChain'[k].op = "connect" => k = i
      BY <1>5, <1>6, <3>1 DEF JobFits
    <3>3. opChain[i].op = "cancel" => \A k \in 1..Len(opChain') :
            opChain'[k].op = "cancel" /\ opChain'[k].l = opChain[i].l => k = i
      <4> SUFFICES ASSUME opChain[i].op = "cancel", NEW k \in 1..Len(opChain'),
                          opChain'[k].op = "cancel", opChain'[k].l = opChain[i].l
                   PROVE  k = i
        OBVIOUS
      <4>1. k # m + 1
        BY <1>6, <1>7, <2>1
      <4>2. k \in 1..m
        BY <1>5, <4>1
      <4> QED
        BY <1>5, <3>1, <4>2 DEF JobFits
    <3>4. opChain[i].op = "cancel" => listener'[opChain[i].l].state = "closing"
      BY <1>3, <1>7, <2>1, <3>1 DEF JobFits
    <3>5. opChain[i].op # "connect" => opChain[i].l \in Listeners /\ listener'[opChain[i].l].channel = opChain[i].c
      BY <1>3, <3>1 DEF JobFits
    <3> QED
      BY <1>0, <1>2, <3>1, <3>2, <3>3, <3>4, <3>5 DEF JobFits
  <2>2. CASE i \notin 1..m
    <3>1. i = m + 1
      BY <1>5, <2>2
    <3>2. \A k \in 1..Len(opChain') : opChain'[k].op = "cancel" /\ opChain'[k].l = l => k = i
      BY <1>5, <1>7, <3>1
    <3>3. listener'[l].channel = c
      BY <1>3 DEF c
    <3> QED
      BY <1>0, <1>1, <1>2, <1>3, <1>6, <3>1, <3>2, <3>3 DEF JobFits
  <2> QED
    BY <2>1, <2>2
<1>12. /\ \A i \in 0..m : CancelledAfter(l, i)'
       /\ \A k \in Listeners : \A i \in 0..m : CancelledAfter(k, i) => CancelledAfter(k, i)'
  <2>1. \A i \in 0..m : CancelledAfter(l, i)'
    BY <1>5, <1>6 DEF CancelledAfter
  <2>2. ASSUME NEW k \in Listeners, NEW i \in 0..m, CancelledAfter(k, i)
        PROVE  CancelledAfter(k, i)'
    BY <1>5, <2>2, Grown
  <2> QED
    BY <2>1, <2>2
<1>13. RequestsFit'
  <2> SUFFICES ASSUME NEW i \in 1..Len(opChain'), opChain'[i].op = "que", NEW w, w = opChain'[i].l
               PROVE  w \in chan'[opChain'[i].c].subs \/ CancelledAfter(w, i)'
    BY DEF RequestsFit, CancelledAfter
  <2>1. w = opChain[i].l /\ i \in 1..m /\ opChain'[i] = opChain[i] /\ opChain[i].c \in Channels /\ opChain[i].l \in Listeners /\ i \in 0..m
    BY <1>5, <1>6, <1>7 DEF JobFits, JobKind
  <2>2. CASE opChain[i].l = l
    BY <1>12, <2>1, <2>2
  <2>3. CASE opChain[i].l # l
    BY <1>0, <1>2, <1>12, <2>1, <2>3 DEF RequestsFit
  <2> QED
    BY <2>2, <2>3
<1>14. ArmedFit'
  <2> SUFFICES ASSUME NEW k \in DOMAIN armed
               PROVE  /\ listener'[k].channel \in Channels
                      /\ k \in chan'[listener'[k].channel].subs \/ CancelledAfter(k, 0)'
    BY <1>0 DEF ArmedFit
  <2>1. k \in Listeners /\ 0 \in 0..m /\ listener'[k].channel = listener[k].channel /\ listener[k].channel \in Channels
    BY <1>0, <1>3, <1>5 DEF Kinds, ArmedFit
  <2>2. CASE k = l
    BY <1>12, <2>1, <2>2
  <2>3. CASE k # l
    BY <1>0, <1>2, <1>12, <2>1, <2>3 DEF ArmedFit
  <2> QED
    BY <2>2, <2>3
<1>15. InboxesFit'
  BY <1>0, <1>2, <1>3, StillInOrder
<1>16. DetachedFit'
  BY <1>0, <1>1 DEF DetachedFit
<1> QED
  BY <1>8, <1>9, <1>10, <1>11, <1>13, <1>14, <1>15, <1>16 DEF IInv

\* A listener its channel forgot has nothing to cancel.
LEMMA CloseForgotten ==
    ASSUME IInv, NEW l \in Listeners, Close(l), l \notin chan[listener[l].channel].subs
    PROVE  IInv'
<1>0. /\ Kinds /\ ChannelsFit /\ ListenersFit /\ JobsFit /\ RequestsFit /\ ArmedFit /\ InboxesFit /\ DetachedFit
      /\ listener[l].state = "live" /\ chan' = chan /\ opChain' = opChain
      /\ listener' = [listener EXCEPT ![l].state = "closed"]
      /\ count' = count /\ current' = current
      /\ detached' = detached /\ armed' = armed /\ aux' = aux
  BY DEF IInv, Close, server
<1>1. /\ listener' \in [Listeners -> ListenerKind] /\ listener'[l].state = "closed"
      /\ \A k \in Listeners : k # l => listener'[k].state = listener[k].state
      /\ \A k \in Listeners : /\ listener'[k].channel = listener[k].channel /\ listener'[k].counts = listener[k].counts
                              /\ listener'[k].told = listener[k].told
  <2>1. "closed" \in States
    BY DEF States
  <2> QED
    BY <1>0, <2>1, StateChanged
<1>2. \A j \in Channels : l \notin chan[j].subs
  BY <1>0 DEF ListenersFit
<1>3. \A i \in 1..Len(opChain) : opChain[i] \in JobKind /\ JobFits(i) /\ (opChain[i].op = "cancel" => opChain[i].l # l)
  BY <1>0, JobKinds DEF JobsFit, JobFits
<1>4. Kinds' /\ ChannelsFit' /\ DetachedFit'
  BY <1>0, <1>1 DEF Kinds, ChannelsFit, DetachedFit
<1>5. ListenersFit'
  <2> SUFFICES ASSUME NEW k \in Listeners
               PROVE  /\ listener'[k].state = "none" => listener'[k].counts = 0 /\ listener'[k].channel = None
                      /\ listener'[k].state # "none" => listener'[k].channel \in Channels
                      /\ listener'[k].told <= listener'[k].counts /\ listener'[k].counts <= count'
                      /\ \A j \in Channels : k \in chan'[j].subs =>
                          listener'[k].state \in {"queing", "live", "failed"} /\ listener'[k].channel = j
    BY DEF ListenersFit
  <2> QED
    BY <1>0, <1>1, <1>2 DEF ListenersFit
<1>6. JobsFit'
  <2> SUFFICES ASSUME NEW i \in 1..Len(opChain) PROVE JobFits(i)'
    BY <1>0 DEF JobsFit
  <2>1. JobFits(i) /\ opChain[i].c \in Channels /\ (opChain[i].op = "cancel" => opChain[i].l # l)
    BY <1>3 DEF JobKind
  <2> QED
    BY <1>0, <1>1, <2>1 DEF JobFits
<1>7. RequestsFit' /\ ArmedFit'
  BY <1>0, <1>1, StillAsked
<1>8. InboxesFit'
  BY <1>0, <1>1, StillInOrder
<1> QED
  BY <1>4, <1>5, <1>6, <1>7, <1>8 DEF IInv

\* What a channel that takes an entry off its inbox keeps.
LEMMA EntryRead ==
    ASSUME Kinds, NEW c \in Channels, NEW g \in Loops, chan[c].inbox # <<>>,
           chan' = [chan EXCEPT ![c] = [chan[c] EXCEPT !.inbox = Tail(chan[c].inbox), !.loop = g]]
    PROVE  /\ chan' \in [Channels -> ChannelKind]
           /\ \A k \in Channels : /\ chan'[k].made = chan[k].made /\ chan'[k].starting = chan[k].starting
                                  /\ chan'[k].socket = chan[k].socket /\ chan'[k].subs = chan[k].subs
                                  /\ k # c => chan'[k].inbox = chan[k].inbox
           /\ Len(chan[c].inbox) \in Nat \ {0} /\ Len(chan'[c].inbox) = Len(chan[c].inbox) - 1
           /\ \A i \in 1..Len(chan'[c].inbox) : chan'[c].inbox[i] = chan[c].inbox[i + 1]
           /\ Head(chan[c].inbox) = chan[c].inbox[1]
<1> DEFINE q == chan[c].inbox
<1>1. chan \in [Channels -> ChannelKind] /\ chan[c] \in ChannelKind /\ q \in Seq(Listeners \X Nat) /\ q # <<>>
  BY DEF Kinds, ChannelKind, Inboxes
<1>2. /\ Tail(q) \in Inboxes /\ Len(q) \in Nat \ {0} /\ Len(Tail(q)) = Len(q) - 1
      /\ \A i \in 1..Len(Tail(q)) : Tail(q)[i] = q[i + 1]
      /\ Head(q) = q[1]
  BY <1>1, HeadTailProperties, EmptySeq DEF Inboxes
<1> DEFINE t == Tail(q)
           r == [chan[c] EXCEPT !.inbox = t, !.loop = g]
<1>3. chan' = [chan EXCEPT ![c] = r] /\ t \in Inboxes
  BY <1>2
<1> HIDE DEF t
<1>4. r \in ChannelKind
  BY <1>1, <1>3 DEF ChannelKind
<1>5. r.made = chan[c].made /\ r.starting = chan[c].starting /\ r.socket = chan[c].socket /\ r.subs = chan[c].subs /\ r.inbox = t
  BY <1>1 DEF ChannelKind
<1> HIDE DEF r
<1>6. chan' \in [Channels -> ChannelKind] /\ chan'[c] = r /\ \A k \in Channels : k # c => chan'[k] = chan[k]
  BY <1>1, <1>3, <1>4
<1> QED
  BY <1>2, <1>5, <1>6 DEF t

\* The counts still arrive in order when the first entry of an inbox is gone.
LEMMA RestInOrder ==
    ASSUME Kinds, InboxesFit, NEW c \in Channels, count' = count, Len(chan[c].inbox) \in Nat \ {0},
           Len(chan'[c].inbox) = Len(chan[c].inbox) - 1,
           \A i \in 1..Len(chan'[c].inbox) : chan'[c].inbox[i] = chan[c].inbox[i + 1],
           \A k \in Channels : k # c => chan'[k].inbox = chan[k].inbox,
           \A l \in Listeners : listener'[l].channel = listener[l].channel,
           \A l \in Listeners : listener'[l].counts = listener[l].counts
               \/ (listener[l].channel = c /\ listener'[l].counts = chan[c].inbox[1][2])
    PROVE  InboxesFit'
<1> SUFFICES ASSUME NEW k \in Channels, NEW i \in 1..Len(chan'[k].inbox)
             PROVE  /\ chan'[k].inbox[i][2] <= count
                    /\ \A j \in 1..Len(chan'[k].inbox) : i <= j => chan'[k].inbox[i][2] <= chan'[k].inbox[j][2]
                    /\ listener'[chan'[k].inbox[i][1]].channel = k => listener'[chan'[k].inbox[i][1]].counts <= chan'[k].inbox[i][2]
  BY DEF InboxesFit
<1>1. CASE k # c
  <2>1. chan'[k].inbox = chan[k].inbox
    BY <1>1
  <2>2. chan[k].inbox[i][1] \in Listeners
    BY <2>1, Entries
  <2>3. listener[chan[k].inbox[i][1]].channel = k => listener'[chan[k].inbox[i][1]].counts = listener[chan[k].inbox[i][1]].counts
    BY <1>1, <2>2
  <2> QED
    BY <2>1, <2>2, <2>3 DEF InboxesFit
<1>2. CASE k = c
  <2> DEFINE q == chan[c].inbox
  <2>1. i + 1 \in 1..Len(q) /\ 1 \in 1..Len(q) /\ chan'[c].inbox[i] = q[i + 1] /\ q[i + 1] \in Listeners \X Nat
    <3>1. i \in 1..Len(chan'[c].inbox)
      BY <1>2
    <3>2. i + 1 \in 1..Len(q) /\ 1 \in 1..Len(q)
      BY <3>1
    <3>3. chan'[c].inbox[i] = q[i + 1]
      BY <3>1
    <3>4. q[i + 1] \in Listeners \X Nat
      BY <3>2, Entries
    <3> QED
      BY <3>2, <3>3, <3>4
  <2>2. q[i + 1][2] <= count
    BY <2>1 DEF InboxesFit
  <2>3. ASSUME NEW j \in 1..Len(chan'[c].inbox), i <= j
        PROVE  q[i + 1][2] <= chan'[c].inbox[j][2]
    <3>1. j + 1 \in 1..Len(q) /\ chan'[c].inbox[j] = q[j + 1] /\ i + 1 <= j + 1
      BY <1>2, <2>3
    <3> QED
      BY <2>1, <3>1 DEF InboxesFit
  <2>4. PICK w \in Listeners : q[i + 1][1] = w
    BY <2>1
  <2>5. listener'[w].channel = c => listener'[w].counts <= q[i + 1][2]
    <3>1. listener[w].channel = c => listener[w].counts <= q[i + 1][2]
      BY <2>1, <2>4 DEF InboxesFit
    <3>2. 1 <= i + 1 => q[1][2] <= q[i + 1][2]
      BY <2>1 DEF InboxesFit
    <3>3. 1 <= i + 1
      BY <1>2
    <3> QED
      BY <2>4, <3>1, <3>2, <3>3
  <2> QED
    BY <1>2, <2>1, <2>2, <2>3, <2>4, <2>5
<1> QED
  BY <1>1, <1>2

\* An event for a listener that was closed is dropped.
LEMMA ReadForgotten ==
    ASSUME IInv, NEW c \in Channels, chan[c].inbox # <<>>, chan[c].loop = "reading",
           chan' = [chan EXCEPT ![c] = [chan[c] EXCEPT !.inbox = Tail(chan[c].inbox)]],
           listener' = listener, opChain' = opChain, current' = current, detached' = detached,
           armed' = armed, aux' = aux, count' = count
    PROVE  IInv'
<1>0. Kinds /\ ChannelsFit /\ ListenersFit /\ JobsFit /\ RequestsFit /\ ArmedFit /\ InboxesFit /\ DetachedFit
  BY DEF IInv
<1>1. chan' = [chan EXCEPT ![c] = [chan[c] EXCEPT !.inbox = Tail(chan[c].inbox), !.loop = "reading"]] /\ "reading" \in Loops
  <2>1. chan[c] \in ChannelKind
    BY <1>0 DEF Kinds
  <2>2. ASSUME NEW t PROVE [chan[c] EXCEPT !.inbox = t] = [chan[c] EXCEPT !.inbox = t, !.loop = "reading"]
    BY <2>1 DEF ChannelKind
  <2> QED
    BY <2>2 DEF Loops
<1>2. /\ chan' \in [Channels -> ChannelKind]
      /\ \A k \in Channels : /\ chan'[k].made = chan[k].made /\ chan'[k].starting = chan[k].starting
                             /\ chan'[k].socket = chan[k].socket /\ chan'[k].subs = chan[k].subs
                             /\ k # c => chan'[k].inbox = chan[k].inbox
      /\ Len(chan[c].inbox) \in Nat \ {0} /\ Len(chan'[c].inbox) = Len(chan[c].inbox) - 1
      /\ \A i \in 1..Len(chan'[c].inbox) : chan'[c].inbox[i] = chan[c].inbox[i + 1]
  BY <1>0, <1>1, EntryRead
<1>3. Kinds' /\ DetachedFit'
  BY <1>0, <1>2 DEF Kinds, DetachedFit
<1>4. ChannelsFit'
  BY <1>0, <1>2 DEF ChannelsFit, Kinds
<1>5. ListenersFit'
  BY <1>0, <1>2 DEF ListenersFit
<1>6. JobsFit'
  <2> SUFFICES ASSUME NEW i \in 1..Len(opChain) PROVE JobFits(i)'
    BY DEF JobsFit
  <2>1. JobFits(i) /\ opChain[i].c \in Channels
    BY <1>0, JobKinds DEF JobsFit, JobKind
  <2> QED
    BY <1>2, <2>1 DEF JobFits
<1>7. RequestsFit' /\ ArmedFit'
  BY <1>0, <1>2, StillAsked
<1>8. InboxesFit'
  BY <1>0, <1>2, RestInOrder
<1> QED
  BY <1>3, <1>4, <1>5, <1>6, <1>7, <1>8 DEF IInv

\* An event for a subscribed listener is told, and its request queued again.
LEMMA ReadTold ==
    ASSUME IInv, NEW c \in Channels, NEW l \in chan[c].subs, NEW n,
           chan[c].inbox # <<>>, Head(chan[c].inbox)[1] = l, Head(chan[c].inbox)[2] = n,
           chan' = [chan EXCEPT ![c] = [[chan[c] EXCEPT !.inbox = Tail(chan[c].inbox)] EXCEPT !.loop = "rearming"]],
           listener' = [listener EXCEPT ![l] = Deliver(listener[l], n)],
           opChain' = Append(opChain, Que(l, Deliver(listener[l], n).counts)),
           current' = current, detached' = detached, armed' = armed, aux' = aux, count' = count
    PROVE  IInv'
<1>0. Kinds /\ ChannelsFit /\ ListenersFit /\ JobsFit /\ RequestsFit /\ ArmedFit /\ InboxesFit /\ DetachedFit
  BY DEF IInv
<1>1. l \in Listeners /\ listener[l].channel = c /\ current = c /\ ~detached /\ listener[l] \in ListenerKind
  BY <1>0, EventsAssumption DEF Kinds, ChannelKind, ListenersFit, ChannelsFit, DetachedFit
<1>2. /\ chan' \in [Channels -> ChannelKind]
      /\ \A k \in Channels : /\ chan'[k].made = chan[k].made /\ chan'[k].starting = chan[k].starting
                             /\ chan'[k].socket = chan[k].socket /\ chan'[k].subs = chan[k].subs
                             /\ k # c => chan'[k].inbox = chan[k].inbox
      /\ Len(chan[c].inbox) \in Nat \ {0} /\ Len(chan'[c].inbox) = Len(chan[c].inbox) - 1
      /\ \A i \in 1..Len(chan'[c].inbox) : chan'[c].inbox[i] = chan[c].inbox[i + 1]
      /\ Head(chan[c].inbox) = chan[c].inbox[1]
  <2>1. chan[c] \in ChannelKind
    BY <1>0 DEF Kinds
  <2>2. ASSUME NEW t PROVE [[chan[c] EXCEPT !.inbox = t] EXCEPT !.loop = "rearming"] = [chan[c] EXCEPT !.inbox = t, !.loop = "rearming"]
    BY <2>1 DEF ChannelKind
  <2>3. chan' = [chan EXCEPT ![c] = [chan[c] EXCEPT !.inbox = Tail(chan[c].inbox), !.loop = "rearming"]]
    BY <2>2
  <2>4. "rearming" \in Loops
    BY DEF Loops
  <2> QED
    BY <1>0, <2>3, <2>4, EntryRead
<1>3. /\ 1 \in 1..Len(chan[c].inbox) /\ chan[c].inbox[1] \in Listeners \X Nat
      /\ n = chan[c].inbox[1][2] /\ n \in Nat /\ n <= count /\ listener[l].counts <= n
  <2>1. 1 \in 1..Len(chan[c].inbox)
    BY <1>2
  <2>2. chan[c].inbox[1] \in Listeners \X Nat
    BY <1>0, <2>1, Entries
  <2>3. /\ chan[c].inbox[1][2] <= count
        /\ listener[chan[c].inbox[1][1]].channel = c => listener[chan[c].inbox[1][1]].counts <= chan[c].inbox[1][2]
    BY <1>0, <2>1 DEF InboxesFit
  <2>4. chan[c].inbox[1][1] = l /\ chan[c].inbox[1][2] = n
    BY <1>2
  <2>5. n \in Nat
    BY <2>2, <2>4
  <2> QED
    BY <1>1, <2>1, <2>2, <2>3, <2>4, <2>5
<1>4. /\ Deliver(listener[l], n) \in ListenerKind /\ Deliver(listener[l], n).counts = n
      /\ Deliver(listener[l], n).channel = c /\ Deliver(listener[l], n).state = listener[l].state
      /\ Deliver(listener[l], n).told <= n
  <2>1. listener[l].told <= listener[l].counts
    BY <1>0, <1>1 DEF ListenersFit
  <2>2. listener[l].told \in Nat /\ listener[l].counts \in Nat
    BY <1>1 DEF ListenerKind
  <2> DEFINE t == IF listener[l].baselined /\ n > listener[l].counts THEN n ELSE listener[l].told
  <2>3. t \in Nat /\ t <= n
    BY <1>3, <2>1, <2>2
  <2>4. Deliver(listener[l], n) = [listener[l] EXCEPT !.counts = n, !.baselined = TRUE, !.told = t]
    BY DEF Deliver
  <2> HIDE DEF t
  <2> DEFINE d == [listener[l] EXCEPT !.counts = n, !.baselined = TRUE, !.told = t]
  <2>5. d \in ListenerKind
    BY <1>1, <1>3, <2>3 DEF ListenerKind
  <2>6. d.counts = n /\ d.channel = listener[l].channel /\ d.state = listener[l].state /\ d.told = t
    BY <1>1 DEF ListenerKind
  <2> QED
    BY <1>1, <2>3, <2>4, <2>5, <2>6
<1>5. /\ listener' \in [Listeners -> ListenerKind]
      /\ listener'[l].counts = n /\ listener'[l].told <= n
      /\ \A k \in Listeners : listener'[k].channel = listener[k].channel /\ listener'[k].state = listener[k].state
      /\ \A k \in Listeners : k # l => listener'[k] = listener[k]
  <2> DEFINE d == Deliver(listener[l], n)
  <2>1. /\ d \in ListenerKind /\ d.counts = n /\ d.channel = c /\ d.state = listener[l].state /\ d.told <= n
        /\ listener' = [listener EXCEPT ![l] = d]
    BY <1>4
  <2> HIDE DEF d
  <2>2. listener \in [Listeners -> ListenerKind]
    BY <1>0 DEF Kinds
  <2> QED
    BY <1>1, <2>1, <2>2
<1> DEFINE j == Que(l, Deliver(listener[l], n).counts)
           m == Len(opChain)
<1>6. j \in JobKind /\ j.op = "que" /\ j.l = l /\ j.c = c
  BY <1>1, <1>3, <1>4 DEF Que, JobKind
<1>7. /\ opChain' \in Seq(JobKind) /\ m \in Nat /\ Len(opChain') = m + 1
      /\ \A i \in 1..m : opChain'[i] = opChain[i]
      /\ opChain'[m + 1] = j
  BY <1>0, <1>6, Appended
<1>8. opChain'[m + 1].op = "que" /\ opChain'[m + 1].l = l /\ opChain'[m + 1].c = c
  BY <1>6, <1>7
<1> HIDE DEF j
<1>9. \A i \in 1..m : opChain[i] \in JobKind /\ JobFits(i)
  BY <1>0, JobKinds DEF JobsFit
<1>10. Kinds'
  BY <1>0, <1>2, <1>5, <1>7 DEF Kinds
<1>11. ChannelsFit'
  BY <1>0, <1>2 DEF ChannelsFit, Kinds
<1>12. ListenersFit'
  <2> SUFFICES ASSUME NEW k \in Listeners
               PROVE  /\ listener'[k].state = "none" => listener'[k].counts = 0 /\ listener'[k].channel = None
                      /\ listener'[k].state # "none" => listener'[k].channel \in Channels
                      /\ listener'[k].told <= listener'[k].counts /\ listener'[k].counts <= count'
                      /\ \A i \in Channels : k \in chan'[i].subs =>
                          listener'[k].state \in {"queing", "live", "failed"} /\ listener'[k].channel = i
    BY DEF ListenersFit
  <2>1. CASE k # l
    BY <1>0, <1>2, <1>5, <2>1 DEF ListenersFit
  <2>2. CASE k = l
    <3>1. listener[l].state \in {"queing", "live", "failed"} /\ \A i \in Channels : l \in chan[i].subs => i = c
      BY <1>0, <1>1 DEF ListenersFit
    <3>2. listener'[l].state = listener[l].state /\ listener'[l].channel = c
      BY <1>1, <1>5
    <3>3. \A i \in Channels : l \in chan'[i].subs => i = c
      BY <1>2, <3>1
    <3>4. listener'[l].told <= listener'[l].counts /\ listener'[l].counts <= count'
      BY <1>3, <1>5
    <3> QED
      BY <2>2, <3>1, <3>2, <3>3, <3>4
  <2> QED
    BY <2>1, <2>2
<1>13. JobsFit'
  <2> SUFFICES ASSUME NEW i \in 1..Len(opChain') PROVE JobFits(i)'
    BY DEF JobsFit
  <2>1. CASE i \in 1..m
    <3>1. opChain'[i] = opChain[i] /\ JobFits(i) /\ opChain[i].c \in Channels
      BY <1>7, <1>9, <2>1 DEF JobKind
    <3>2. opChain[i].op = "connect" => \A k \in 1..Len(opChain') : opChain'[k].op = "connect" => k = i
      BY <1>7, <1>8, <3>1 DEF JobFits
    <3>3. opChain[i].op = "cancel" => \A k \in 1..Len(opChain') :
            opChain'[k].op = "cancel" /\ opChain'[k].l = opChain[i].l => k = i
      BY <1>7, <1>8, <3>1 DEF JobFits
    <3>4. opChain[i].op = "cancel" => listener'[opChain[i].l].state = "closing"
      BY <1>5, <3>1 DEF JobFits
    <3>5. opChain[i].op # "connect" => opChain[i].l \in Listeners /\ listener'[opChain[i].l].channel = opChain[i].c
      BY <1>5, <3>1 DEF JobFits
    <3> QED
      BY <1>2, <3>1, <3>2, <3>3, <3>4, <3>5 DEF JobFits
  <2>2. CASE i \notin 1..m
    <3>1. i = m + 1
      BY <1>7, <2>2
    <3> QED
      BY <1>1, <1>5, <1>8, <3>1 DEF JobFits
  <2> QED
    BY <2>1, <2>2
<1>14. ASSUME NEW k, NEW i \in Nat, CancelledAfter(k, i)
       PROVE  CancelledAfter(k, i)'
  BY <1>7, <1>14, Grown
<1>15. RequestsFit'
  <2> SUFFICES ASSUME NEW i \in 1..Len(opChain'), opChain'[i].op = "que", NEW w, w = opChain'[i].l
               PROVE  w \in chan'[opChain'[i].c].subs \/ CancelledAfter(w, i)'
    BY DEF RequestsFit, CancelledAfter
  <2>1. CASE i \in 1..m
    <3>1. w = opChain[i].l /\ opChain'[i] = opChain[i] /\ opChain[i].c \in Channels /\ i \in Nat
      BY <1>7, <1>9, <2>1 DEF JobKind
    <3> QED
      BY <1>0, <1>2, <1>14, <2>1, <3>1 DEF RequestsFit
  <2>2. CASE i \notin 1..m
    <3>1. i = m + 1
      BY <1>7, <2>2
    <3> QED
      BY <1>2, <1>8, <3>1
  <2> QED
    BY <2>1, <2>2
<1>16. ArmedFit'
  <2> SUFFICES ASSUME NEW k \in DOMAIN armed
               PROVE  /\ listener'[k].channel \in Channels
                      /\ k \in chan'[listener'[k].channel].subs \/ CancelledAfter(k, 0)'
    BY DEF ArmedFit
  <2>1. k \in Listeners /\ 0 \in Nat /\ listener'[k].channel = listener[k].channel /\ listener[k].channel \in Channels
    BY <1>0, <1>5 DEF Kinds, ArmedFit
  <2> QED
    BY <1>0, <1>2, <1>14, <2>1 DEF ArmedFit
<1>17. InboxesFit'
  <2>1. \A k \in Listeners : listener'[k].channel = listener[k].channel
    BY <1>5
  <2>2. ASSUME NEW k \in Listeners
        PROVE  listener'[k].counts = listener[k].counts \/ (listener[k].channel = c /\ listener'[k].counts = chan[c].inbox[1][2])
    BY <1>1, <1>3, <1>5
  <2> QED
    BY <1>0, <1>2, <2>1, <2>2, RestInOrder
<1>18. DetachedFit'
  BY <1>1 DEF DetachedFit
<1> QED
  BY <1>10, <1>11, <1>12, <1>13, <1>15, <1>16, <1>17, <1>18 DEF IInv

\* ReadEvent: readLoop() drops the event or delivers it.
LEMMA ReadEventStep ==
    ASSUME IInv, Habits = {}, NEW c \in Channels, ReadEvent(c)
    PROVE  IInv'
<1> DEFINE l == Head(chan[c].inbox)[1]
           n == Head(chan[c].inbox)[2]
<1>0. /\ chan[c].loop = "reading" /\ chan[c].inbox # <<>>
      /\ current' = current /\ detached' = detached /\ armed' = armed /\ aux' = aux /\ count' = count
  BY DEF ReadEvent, server
<1>1. CASE l \notin chan[c].subs
  <2>1. chan' = [chan EXCEPT ![c] = [chan[c] EXCEPT !.inbox = Tail(chan[c].inbox)]] /\ listener' = listener /\ opChain' = opChain
    BY <1>1 DEF ReadEvent
  <2> QED
    BY <1>0, <2>1, ReadForgotten
<1>2. CASE l \in chan[c].subs
  <2>1. /\ chan' = [chan EXCEPT ![c] = [[chan[c] EXCEPT !.inbox = Tail(chan[c].inbox)] EXCEPT !.loop = "rearming"]]
        /\ listener' = [listener EXCEPT ![l] = Deliver(listener[l], n)]
        /\ opChain' = Append(opChain, Que(l, Deliver(listener[l], n).counts))
    BY <1>2 DEF ReadEvent, Rearm
  <2> QED
    BY <1>0, <1>2, <2>1, ReadTold
<1> QED
  BY <1>1, <1>2

\* What is known of the jobs behind the first when that is gone.
LEMMA Behind ==
    ASSUME IInv, opChain # <<>>, opChain' = Tail(opChain)
    PROVE  /\ opChain' \in Seq(JobKind) /\ ~detached /\ job \in JobKind /\ job = opChain[1] /\ 1 \in 1..Len(opChain) /\ JobFits(1)
           /\ \A i \in 1..Len(opChain') :
                /\ i + 1 \in 1..Len(opChain) /\ opChain'[i] = opChain[i + 1] /\ opChain[i + 1] \in JobKind /\ JobFits(i + 1)
                /\ opChain'[i].op = "connect" => job.op # "connect" /\ \A k \in 1..Len(opChain') : opChain'[k].op = "connect" => k = i
                /\ opChain'[i].op = "cancel" =>
                    /\ job.op = "cancel" => job.l # opChain'[i].l
                    /\ \A k \in 1..Len(opChain') : opChain'[k].op = "cancel" /\ opChain'[k].l = opChain'[i].l => k = i
           /\ \A w : \A i \in Nat : CancelledAfter(w, i + 1) => CancelledAfter(w, i)'
           /\ \A w : CancelledAfter(w, 0) /\ ~(job.op = "cancel" /\ job.l = w) => CancelledAfter(w, 0)'
<1>1. Kinds /\ JobsFit /\ DetachedFit
  BY DEF IInv
<1>2. /\ opChain' \in Seq(JobKind) /\ Len(opChain) \in Nat \ {0} /\ Len(opChain') = Len(opChain) - 1
      /\ \A i \in 1..Len(opChain') : opChain'[i] = opChain[i + 1]
      /\ job \in JobKind /\ job = opChain[1]
  BY <1>1, Taken
<1>3. 1 \in 1..Len(opChain) /\ JobFits(1) /\ ~detached
  BY <1>1, <1>2 DEF JobsFit, DetachedFit
<1>4. ASSUME NEW i \in 1..Len(opChain')
      PROVE  /\ i + 1 \in 1..Len(opChain) /\ opChain'[i] = opChain[i + 1] /\ opChain[i + 1] \in JobKind /\ JobFits(i + 1)
             /\ opChain'[i].op = "connect" => job.op # "connect" /\ \A k \in 1..Len(opChain') : opChain'[k].op = "connect" => k = i
             /\ opChain'[i].op = "cancel" =>
                 /\ job.op = "cancel" => job.l # opChain'[i].l
                 /\ \A k \in 1..Len(opChain') : opChain'[k].op = "cancel" /\ opChain'[k].l = opChain'[i].l => k = i
  <2>1. i + 1 \in 1..Len(opChain) /\ i + 1 # 1 /\ opChain'[i] = opChain[i + 1]
    BY <1>2
  <2>2. opChain[i + 1] \in JobKind /\ JobFits(i + 1)
    BY <1>1, <2>1, JobKinds DEF JobsFit
  <2>3. \A k \in 1..Len(opChain') : k + 1 \in 1..Len(opChain) /\ opChain'[k] = opChain[k + 1] /\ (k + 1 = i + 1 => k = i)
    BY <1>2
  <2>4. opChain'[i].op = "connect" => \A k \in 1..Len(opChain) : opChain[k].op = "connect" => k = i + 1
    BY <2>1, <2>2 DEF JobFits
  <2>5. opChain'[i].op = "cancel" => \A k \in 1..Len(opChain) : opChain[k].op = "cancel" /\ opChain[k].l = opChain[i + 1].l => k = i + 1
    BY <2>1, <2>2 DEF JobFits
  <2>6. opChain'[i].op = "connect" => job.op # "connect" /\ \A k \in 1..Len(opChain') : opChain'[k].op = "connect" => k = i
    BY <1>2, <1>3, <2>1, <2>3, <2>4
  <2>7. opChain'[i].op = "cancel" =>
          /\ job.op = "cancel" => job.l # opChain'[i].l
          /\ \A k \in 1..Len(opChain') : opChain'[k].op = "cancel" /\ opChain'[k].l = opChain'[i].l => k = i
    BY <1>2, <1>3, <2>1, <2>3, <2>5
  <2> QED
    BY <2>1, <2>2, <2>6, <2>7
<1>5. ASSUME NEW w, NEW i \in Nat, CancelledAfter(w, i + 1)
      PROVE  CancelledAfter(w, i)'
  BY <1>2, <1>5, MovedUp
<1>6. ASSUME NEW w, CancelledAfter(w, 0), ~(job.op = "cancel" /\ job.l = w)
      PROVE  CancelledAfter(w, 0)'
  <2>1. PICK k \in 1..Len(opChain) : k > 0 /\ opChain[k].op = "cancel" /\ opChain[k].l = w
    BY <1>6 DEF CancelledAfter
  <2>2. k # 1
    BY <1>2, <1>6, <2>1
  <2>3. k > 0 + 1
    BY <2>1, <2>2
  <2>4. CancelledAfter(w, 0 + 1)
    BY <2>1, <2>3 DEF CancelledAfter
  <2> QED
    BY <1>5, <2>4
<1> QED
  BY <1>2, <1>3, <1>4, <1>5, <1>6

\* What is behind the first job is still asked for, if nobody is unsubscribed.
LEMMA AskedBehind ==
    ASSUME IInv, opChain # <<>>, opChain' = Tail(opChain),
           \A c \in Channels : chan'[c].subs = chan[c].subs
    PROVE  RequestsFit'
<1> SUFFICES ASSUME NEW i \in 1..Len(opChain'), opChain'[i].op = "que", NEW w, w = opChain'[i].l
             PROVE  w \in chan'[opChain'[i].c].subs \/ CancelledAfter(w, i)'
  BY DEF RequestsFit, CancelledAfter
<1>1. i + 1 \in 1..Len(opChain) /\ opChain'[i] = opChain[i + 1] /\ opChain[i + 1].c \in Channels /\ i \in Nat
  BY Behind DEF JobKind
<1>2. w \in chan[opChain[i + 1].c].subs \/ CancelledAfter(w, i + 1)
  BY <1>1 DEF IInv, RequestsFit
<1>3. CancelledAfter(w, i + 1) => CancelledAfter(w, i)'
  BY <1>1, Behind
<1> QED
  BY <1>1, <1>2, <1>3

\* ConnectJob: the channel that was asked for is connecting, or failed.
LEMMA ConnectJobStep ==
    ASSUME IInv, ConnectJob
    PROVE  IInv'
<1>0. /\ Kinds /\ ChannelsFit /\ ListenersFit /\ JobsFit /\ RequestsFit /\ ArmedFit /\ InboxesFit /\ DetachedFit
      /\ opChain # <<>> /\ job.op = "connect" /\ opChain' = Tail(opChain)
      /\ current' = current /\ detached' = detached /\ armed' = armed /\ count' = count
  BY DEF IInv, ConnectJob, Runs
<1>1. job \in JobKind /\ job = opChain[1] /\ JobFits(1) /\ opChain' \in Seq(JobKind) /\ ~detached
  BY <1>0, Behind
<1> DEFINE c == job.c
<1>2. c \in Channels /\ chan[c].starting = "asking" /\ current = c
  BY <1>0, <1>1 DEF JobFits, JobKind, ChannelsFit
<1>3. \E g \in {"connecting", "failed"} :
        /\ chan' = [chan EXCEPT ![c].starting = g]
        /\ aux' \in {aux, c}
        /\ listener' = listener \/ StartFails(c)
  BY <1>1 DEF ConnectJob
<1> HIDE DEF c
<1>4. PICK g \in {"connecting", "failed"} :
        /\ chan' = [chan EXCEPT ![c].starting = g]
        /\ aux' \in {aux, c}
        /\ listener' = listener \/ StartFails(c)
  BY <1>3
<1>5. /\ chan' \in [Channels -> ChannelKind] /\ chan'[c].starting = g
      /\ \A k \in Channels : k # c => chan'[k].starting = chan[k].starting
      /\ \A k \in Channels : /\ chan'[k].made = chan[k].made /\ chan'[k].subs = chan[k].subs
                             /\ chan'[k].socket = chan[k].socket /\ chan'[k].inbox = chan[k].inbox
  <2>1. g \in Starts
    BY DEF Starts
  <2> QED
    BY <1>0, <1>2, <1>4, <2>1, StartLost
<1>6. /\ listener' \in [Listeners -> ListenerKind]
      /\ \A l \in Listeners :
          /\ listener'[l].channel = listener[l].channel /\ listener'[l].counts = listener[l].counts
          /\ listener'[l].told = listener[l].told
          /\ listener'[l].state = listener[l].state \/ (listener[l].state = "starting" /\ listener'[l].state = "failed")
  <2>1. CASE listener' = listener
    BY <1>0, <2>1 DEF Kinds
  <2>2. CASE StartFails(c)
    BY <1>0, <1>2, <2>2, WaitingFail
  <2> QED
    BY <1>4, <2>1, <2>2
<1>7. Kinds'
  <2>1. aux' \in Channels \cup {None}
    BY <1>0, <1>2, <1>4 DEF Kinds
  <2> QED
    BY <1>0, <1>1, <1>5, <1>6, <2>1 DEF Kinds
<1>8. ChannelsFit'
  <2>1. chan[c].subs = {} /\ chan[c].socket = "none" /\ chan[c].made
    BY <1>0, <1>2 DEF ChannelsFit
  <2> QED
    BY <1>0, <1>2, <1>5, <2>1 DEF ChannelsFit
<1>9. ListenersFit'
  <2> SUFFICES ASSUME NEW l \in Listeners
               PROVE  /\ listener'[l].state = "none" => listener'[l].counts = 0 /\ listener'[l].channel = None
                      /\ listener'[l].state # "none" => listener'[l].channel \in Channels
                      /\ listener'[l].told <= listener'[l].counts /\ listener'[l].counts <= count'
                      /\ \A k \in Channels : l \in chan'[k].subs =>
                          listener'[l].state \in {"queing", "live", "failed"} /\ listener'[l].channel = k
    BY DEF ListenersFit
  <2> QED
    BY <1>0, <1>5, <1>6 DEF ListenersFit
<1>10. JobsFit'
  <2> SUFFICES ASSUME NEW i \in 1..Len(opChain') PROVE JobFits(i)'
    BY DEF JobsFit
  <2>1. /\ i + 1 \in 1..Len(opChain) /\ opChain'[i] = opChain[i + 1] /\ opChain[i + 1] \in JobKind /\ JobFits(i + 1)
        /\ opChain'[i].op # "connect"
        /\ opChain'[i].op = "cancel" =>
             \A k \in 1..Len(opChain') : opChain'[k].op = "cancel" /\ opChain'[k].l = opChain'[i].l => k = i
    BY <1>0, Behind
  <2>2. opChain[i + 1].op = "cancel" => chan'[opChain[i + 1].c].starting = "done" /\ listener'[opChain[i + 1].l].state = "closing"
    <3>1. opChain[i + 1].op = "cancel" => /\ opChain[i + 1].c \in Channels /\ chan[opChain[i + 1].c].starting = "done"
                                          /\ opChain[i + 1].l \in Listeners /\ listener[opChain[i + 1].l].state = "closing"
      BY <2>1 DEF JobFits, JobKind
    <3> QED
      BY <1>2, <1>5, <1>6, <3>1
  <2>3. opChain[i + 1].l \in Listeners /\ listener'[opChain[i + 1].l].channel = opChain[i + 1].c
    BY <1>6, <2>1 DEF JobFits
  <2>4. opChain[i + 1].op = "cancel" => opChain[i + 1].n = 0 /\ current \in {None, opChain[i + 1].c}
    BY <2>1 DEF JobFits
  <2> QED
    BY <1>0, <2>1, <2>2, <2>3, <2>4 DEF JobFits
<1>11. RequestsFit'
  BY <1>0, <1>5, AskedBehind
<1>12. ArmedFit'
  <2> SUFFICES ASSUME NEW k \in DOMAIN armed
               PROVE  /\ listener'[k].channel \in Channels
                      /\ k \in chan'[listener'[k].channel].subs \/ CancelledAfter(k, 0)'
    BY <1>0 DEF ArmedFit
  <2>1. k \in Listeners /\ listener'[k].channel = listener[k].channel /\ listener[k].channel \in Channels
    BY <1>0, <1>6 DEF Kinds, ArmedFit
  <2>2. CancelledAfter(k, 0) => CancelledAfter(k, 0)'
    BY <1>0, Behind
  <2> QED
    BY <1>0, <1>5, <2>1, <2>2 DEF ArmedFit
<1>13. InboxesFit'
  BY <1>0, <1>5, <1>6, StillInOrder
<1>14. DetachedFit'
  BY <1>0, <1>1 DEF DetachedFit
<1> QED
  BY <1>7, <1>8, <1>9, <1>10, <1>11, <1>12, <1>13, <1>14 DEF IInv

\* QueJob: a request that runs is armed or refused, and still of a subscribed or
\* cancelled listener.
LEMMA QueJobStep ==
    ASSUME IInv, QueJob
    PROVE  IInv'
<1>0. /\ Kinds /\ ChannelsFit /\ ListenersFit /\ JobsFit /\ RequestsFit /\ ArmedFit /\ InboxesFit /\ DetachedFit
      /\ opChain # <<>> /\ job.op = "que" /\ opChain' = Tail(opChain)
      /\ current' = current /\ detached' = detached /\ aux' = aux /\ count' = count
  BY DEF IInv, QueJob, Runs
<1>1. job \in JobKind /\ job = opChain[1] /\ JobFits(1) /\ 1 \in 1..Len(opChain) /\ opChain' \in Seq(JobKind) /\ ~detached
  BY <1>0, Behind
<1> DEFINE l == job.l
           c == job.c
<1>2. c \in Channels /\ l \in Listeners /\ listener[l].channel = c
  BY <1>0, <1>1 DEF JobFits, JobKind
<1>3. l \in chan[c].subs \/ CancelledAfter(l, 1)
  BY <1>0, <1>1 DEF RequestsFit
<1>4. /\ DOMAIN armed' \subseteq DOMAIN armed \cup {l}
      /\ \/ listener' = listener
         \/ \E s \in {"live", "failed"} : listener[l].state = "queing" /\ listener' = [listener EXCEPT ![l].state = s]
      /\ \/ chan' = chan
         \/ \E g \in Loops : chan' = [chan EXCEPT ![c].loop = g]
  <2>1. PICK refused \in BOOLEAN :
            /\ armed' = IF refused THEN armed ELSE With(armed, l, job.n)
            /\ listener' = IF listener[l].state # "queing" THEN listener
                           ELSE [listener EXCEPT ![l].state = IF refused THEN "failed" ELSE "live"]
            /\ chan' = IF listener[l].state # "queing" /\ chan[c].loop = "rearming"
                       THEN [chan EXCEPT ![c].loop = IF refused \/ chan[c].closed THEN "off" ELSE "reading"]
                       ELSE chan
    <3>1. detached \in BOOLEAN
      BY <1>0 DEF Kinds
    <3>2. {detached, detached \/ "refuse" \in Faults} \subseteq BOOLEAN
      BY <3>1
    <3> QED
      BY <3>2, Zenon DEF QueJob
  <2>2. DOMAIN armed' \subseteq DOMAIN armed \cup {l}
    BY <2>1 DEF With
  <2>3. \/ listener' = listener
        \/ \E s \in {"live", "failed"} : listener[l].state = "queing" /\ listener' = [listener EXCEPT ![l].state = s]
    BY <2>1
  <2>4. chan' = chan \/ \E g \in Loops : chan' = [chan EXCEPT ![c].loop = g]
    BY <2>1 DEF Loops
  <2> QED
    BY <2>2, <2>3, <2>4
<1> HIDE DEF l, c
<1>5. /\ chan' \in [Channels -> ChannelKind]
      /\ \A k \in Channels : /\ chan'[k].made = chan[k].made /\ chan'[k].subs = chan[k].subs /\ chan'[k].starting = chan[k].starting
                             /\ chan'[k].socket = chan[k].socket /\ chan'[k].inbox = chan[k].inbox
  <2>1. chan \in [Channels -> ChannelKind] /\ chan[c] \in ChannelKind
    BY <1>0, <1>2 DEF Kinds
  <2>2. CASE chan' = chan
    BY <2>1, <2>2
  <2>3. ASSUME NEW g \in Loops, chan' = [chan EXCEPT ![c].loop = g]
        PROVE  <1>5!1 /\ <1>5!2
    <3>1. [chan[c] EXCEPT !.loop = g] \in ChannelKind
      BY <2>1 DEF ChannelKind
    <3>2. chan' \in [Channels -> ChannelKind]
      BY <2>1, <2>3, <3>1
    <3>3. chan'[c] = [chan[c] EXCEPT !.loop = g] /\ \A k \in Channels : k # c => chan'[k] = chan[k]
      BY <1>2, <2>1, <2>3
    <3>4. /\ chan'[c].made = chan[c].made /\ chan'[c].subs = chan[c].subs /\ chan'[c].starting = chan[c].starting
          /\ chan'[c].socket = chan[c].socket /\ chan'[c].inbox = chan[c].inbox
      BY <2>1, <3>3 DEF ChannelKind
    <3> QED
      BY <3>2, <3>3, <3>4
  <2> QED
    BY <1>4, <2>2, <2>3
<1>6. /\ listener' \in [Listeners -> ListenerKind]
      /\ \A k \in Listeners :
          /\ listener'[k].channel = listener[k].channel /\ listener'[k].counts = listener[k].counts
          /\ listener'[k].told = listener[k].told
          /\ listener'[k].state = listener[k].state \/ (listener[k].state = "queing" /\ listener'[k].state \in {"live", "failed"})
  <2>1. CASE listener' = listener
    BY <1>0, <2>1 DEF Kinds
  <2>2. ASSUME NEW s \in {"live", "failed"}, listener[l].state = "queing", listener' = [listener EXCEPT ![l].state = s]
        PROVE  <1>6!1 /\ <1>6!2
    <3>1. s \in States
      BY DEF States
    <3> QED
      BY <1>0, <1>2, <2>2, <3>1, StateChanged
  <2> QED
    BY <1>4, <2>1, <2>2
<1>7. Kinds'
  <2>1. DOMAIN armed' \subseteq Listeners
    BY <1>0, <1>2, <1>4 DEF Kinds
  <2> QED
    BY <1>0, <1>1, <1>5, <1>6, <2>1 DEF Kinds
<1>8. ChannelsFit'
  BY <1>0, <1>5 DEF ChannelsFit, Kinds
<1>9. ListenersFit'
  <2> SUFFICES ASSUME NEW w \in Listeners
               PROVE  /\ listener'[w].state = "none" => listener'[w].counts = 0 /\ listener'[w].channel = None
                      /\ listener'[w].state # "none" => listener'[w].channel \in Channels
                      /\ listener'[w].told <= listener'[w].counts /\ listener'[w].counts <= count'
                      /\ \A k \in Channels : w \in chan'[k].subs =>
                          listener'[w].state \in {"queing", "live", "failed"} /\ listener'[w].channel = k
    BY DEF ListenersFit
  <2> QED
    BY <1>0, <1>5, <1>6 DEF ListenersFit
<1>10. JobsFit'
  <2> SUFFICES ASSUME NEW i \in 1..Len(opChain') PROVE JobFits(i)'
    BY DEF JobsFit
  <2>1. /\ i + 1 \in 1..Len(opChain) /\ opChain'[i] = opChain[i + 1] /\ opChain[i + 1] \in JobKind /\ JobFits(i + 1)
        /\ opChain'[i].op = "connect" => \A k \in 1..Len(opChain') : opChain'[k].op = "connect" => k = i
        /\ opChain'[i].op = "cancel" =>
             \A k \in 1..Len(opChain') : opChain'[k].op = "cancel" /\ opChain'[k].l = opChain'[i].l => k = i
    BY <1>0, Behind
  <2>2. opChain[i + 1].op = "cancel" => listener'[opChain[i + 1].l].state = "closing"
    BY <1>6, <2>1 DEF JobFits
  <2>3. opChain[i + 1].op # "connect" => opChain[i + 1].l \in Listeners /\ listener'[opChain[i + 1].l].channel = opChain[i + 1].c
    BY <1>6, <2>1 DEF JobFits
  <2>4. opChain[i + 1].c \in Channels /\ chan'[opChain[i + 1].c].starting = chan[opChain[i + 1].c].starting
    BY <1>5, <2>1 DEF JobKind
  <2> QED
    BY <1>0, <2>1, <2>2, <2>3, <2>4 DEF JobFits
<1>11. RequestsFit'
  BY <1>0, <1>5, AskedBehind
<1>12. ArmedFit'
  <2> SUFFICES ASSUME NEW k \in DOMAIN armed'
               PROVE  /\ listener'[k].channel \in Channels
                      /\ k \in chan'[listener'[k].channel].subs \/ CancelledAfter(k, 0)'
    BY DEF ArmedFit
  <2>1. k \in Listeners /\ listener'[k].channel = listener[k].channel /\ listener[k].channel \in Channels
    BY <1>0, <1>2, <1>4, <1>6 DEF Kinds, ArmedFit
  <2>2. CASE k \in DOMAIN armed
    <3>1. CancelledAfter(k, 0) => CancelledAfter(k, 0)'
      BY <1>0, Behind
    <3> QED
      BY <1>0, <1>5, <2>1, <2>2, <3>1 DEF ArmedFit
  <2>3. CASE k = l
    <3>1. k \in chan[c].subs \/ CancelledAfter(k, 0 + 1)
      BY <1>3, <2>3 DEF CancelledAfter
    <3>2. CancelledAfter(k, 0 + 1) => CancelledAfter(k, 0)'
      BY <1>0, Behind
    <3> QED
      BY <1>2, <1>5, <2>1, <2>3, <3>1, <3>2
  <2> QED
    BY <1>4, <2>2, <2>3
<1>13. InboxesFit'
  BY <1>0, <1>5, <1>6, StillInOrder
<1>14. DetachedFit'
  BY <1>0, <1>1 DEF DetachedFit
<1> QED
  BY <1>7, <1>8, <1>9, <1>10, <1>11, <1>12, <1>13, <1>14 DEF IInv

\* A channel that is shut down has no connection, and keeps how it started.
LEMMA ShutDown ==
    ASSUME NEW r \in ChannelKind
    PROVE  /\ Shutdown(r) \in ChannelKind /\ Shutdown(r).made = r.made /\ Shutdown(r).starting = r.starting
           /\ Shutdown(r).subs = r.subs /\ Shutdown(r).inbox = <<>> /\ Shutdown(r).socket # "open"
           /\ r.socket = "none" => Shutdown(r).socket = "none"
<1> DEFINE k == IF r.socket \in {"open", "dead"} THEN "ended" ELSE r.socket
<1>1. k \in Sockets /\ k # "open" /\ (r.socket = "none" => k = "none")
  BY DEF ChannelKind, Sockets
<1>2. Shutdown(r) = [r EXCEPT !.closed = TRUE, !.loop = "off", !.inbox = <<>>, !.socket = k]
  BY DEF Shutdown
<1>3. <<>> \in Inboxes /\ "off" \in Loops
  BY EmptySeq DEF Inboxes, Loops
<1> DEFINE e == <<>>
<1>4. e \in Inboxes
  BY <1>3
<1> HIDE DEF k, e
<1> DEFINE d == [r EXCEPT !.closed = TRUE, !.loop = "off", !.inbox = e, !.socket = k]
<1>5. d \in ChannelKind
  BY <1>1, <1>3, <1>4 DEF ChannelKind
<1>6. d.made = r.made /\ d.starting = r.starting /\ d.subs = r.subs /\ d.inbox = e /\ d.socket = k
  BY DEF ChannelKind
<1>7. Shutdown(r) = d
  BY <1>2 DEF e
<1> HIDE DEF d
<1> QED
  BY <1>1, <1>5, <1>6, <1>7 DEF e

\* CancelJob: no request of the listener is behind its cancellation, and the last one shuts down.
LEMMA CancelJobStep ==
    ASSUME IInv, CancelJob
    PROVE  IInv'
<1>0. /\ Kinds /\ ChannelsFit /\ ListenersFit /\ JobsFit /\ RequestsFit /\ ArmedFit /\ InboxesFit /\ DetachedFit
      /\ opChain # <<>> /\ job.op = "cancel" /\ opChain' = Tail(opChain)
      /\ detached' = detached /\ aux' = aux /\ count' = count
  BY DEF IInv, CancelJob, Runs
<1>1. job \in JobKind /\ job = opChain[1] /\ JobFits(1) /\ 1 \in 1..Len(opChain) /\ opChain' \in Seq(JobKind) /\ ~detached
  BY <1>0, Behind
<1>2. PICK l \in Listeners, c \in Channels : l = job.l /\ c = job.c
  BY <1>0, <1>1 DEF JobFits, JobKind
<1>3. /\ listener[l].state = "closing" /\ listener[l].channel = c /\ chan[c].starting = "done" /\ current \in {None, c}
      /\ \A k \in 1..Len(opChain) : opChain[k].op = "cancel" /\ opChain[k].l = l => k = 1
  BY <1>0, <1>1, <1>2 DEF JobFits
<1>4. /\ DOMAIN armed' = DOMAIN armed \ {l}
      /\ listener' = [listener EXCEPT ![l].state = "closed"]
      /\ IF chan[c].subs = {}
         THEN chan' = [chan EXCEPT ![c] = Shutdown(chan[c])] /\ current' = None
         ELSE chan' = chan /\ current' = current
  BY <1>1, <1>2 DEF CancelJob, Cancelled, Without
<1>5. /\ listener' \in [Listeners -> ListenerKind] /\ listener'[l].state = "closed"
      /\ \A k \in Listeners : k # l => listener'[k].state = listener[k].state
      /\ \A k \in Listeners : /\ listener'[k].channel = listener[k].channel /\ listener'[k].counts = listener[k].counts
                              /\ listener'[k].told = listener[k].told
  <2>1. "closed" \in States
    BY DEF States
  <2> QED
    BY <1>0, <1>4, <2>1, StateChanged
<1>6. /\ chan' \in [Channels -> ChannelKind]
      /\ \A k \in Channels : /\ chan'[k].made = chan[k].made /\ chan'[k].subs = chan[k].subs /\ chan'[k].starting = chan[k].starting
                             /\ chan'[k].inbox = chan[k].inbox \/ chan'[k].inbox = <<>>
                             /\ chan'[k].socket = chan[k].socket \/ (k = c /\ chan[c].subs = {} /\ chan'[k].socket # "open")
      /\ chan[c].subs = {} => chan'[c].socket # "open"
  <2>1. chan \in [Channels -> ChannelKind] /\ chan[c] \in ChannelKind
    BY <1>0 DEF Kinds
  <2>2. CASE chan[c].subs # {}
    BY <1>4, <2>1, <2>2
  <2>3. CASE chan[c].subs = {}
    <3> DEFINE r == Shutdown(chan[c])
    <3>1. /\ r \in ChannelKind /\ r.made = chan[c].made /\ r.starting = chan[c].starting
          /\ r.subs = chan[c].subs /\ r.inbox = <<>> /\ r.socket # "open"
      BY <2>1, ShutDown
    <3>2. chan' = [chan EXCEPT ![c] = r]
      BY <1>4, <2>3
    <3> HIDE DEF r
    <3>3. chan' \in [Channels -> ChannelKind] /\ chan'[c] = r /\ \A k \in Channels : k # c => chan'[k] = chan[k]
      BY <2>1, <3>1, <3>2
    <3> QED
      BY <2>3, <3>1, <3>3
  <2> QED
    BY <2>2, <2>3
<1>7. Kinds'
  <2>1. DOMAIN armed' \subseteq Listeners /\ current' \in Channels \cup {None}
    BY <1>0, <1>4 DEF Kinds
  <2> QED
    BY <1>0, <1>1, <1>5, <1>6, <2>1 DEF Kinds
<1>8. ChannelsFit'
  <2>1. CASE chan[c].subs # {}
    BY <1>0, <1>4, <2>1 DEF ChannelsFit
  <2>2. CASE chan[c].subs = {}
    <3>1. \A k \in Channels : k # c => /\ chan[k].starting \notin {"asking", "connecting"}
                                       /\ chan[k].subs = {} /\ chan[k].socket # "open"
      BY <1>0, <1>3, EventsAssumption DEF ChannelsFit
    <3>2. current' = None
      BY <1>4, <2>2
    <3>3. ASSUME NEW k \in Channels
          PROVE  /\ chan'[k].starting \notin {"asking", "connecting"} /\ chan'[k].subs = {} /\ chan'[k].socket # "open"
                 /\ ~chan'[k].made => chan'[k].starting = "no"
                 /\ chan'[k].starting # "done" => chan'[k].socket = "none"
      <4>1. /\ chan'[k].starting = chan[k].starting /\ chan'[k].made = chan[k].made
            /\ ~chan[k].made => chan[k].starting = "no"
            /\ chan[k].starting # "done" => chan[k].socket = "none"
        BY <1>0, <1>6 DEF ChannelsFit
      <4>2. CASE k = c
        BY <1>3, <1>6, <2>2, <4>1, <4>2
      <4>3. CASE k # c
        BY <1>6, <3>1, <4>1, <4>3
      <4> QED
        BY <4>2, <4>3
    <3> QED
      BY <3>2, <3>3 DEF ChannelsFit
  <2> QED
    BY <2>1, <2>2
<1>9. ListenersFit'
  <2> SUFFICES ASSUME NEW w \in Listeners
               PROVE  /\ listener'[w].state = "none" => listener'[w].counts = 0 /\ listener'[w].channel = None
                      /\ listener'[w].state # "none" => listener'[w].channel \in Channels
                      /\ listener'[w].told <= listener'[w].counts /\ listener'[w].counts <= count'
                      /\ \A k \in Channels : w \in chan'[k].subs =>
                          listener'[w].state \in {"queing", "live", "failed"} /\ listener'[w].channel = k
    BY DEF ListenersFit
  <2> QED
    BY <1>0, <1>3, <1>5, <1>6 DEF ListenersFit
<1>10. JobsFit'
  <2> SUFFICES ASSUME NEW i \in 1..Len(opChain') PROVE JobFits(i)'
    BY DEF JobsFit
  <2>1. /\ i + 1 \in 1..Len(opChain) /\ opChain'[i] = opChain[i + 1] /\ opChain[i + 1] \in JobKind /\ JobFits(i + 1)
        /\ opChain'[i].op = "connect" => \A k \in 1..Len(opChain') : opChain'[k].op = "connect" => k = i
        /\ opChain'[i].op = "cancel" =>
             /\ job.op = "cancel" => job.l # opChain'[i].l
             /\ \A k \in 1..Len(opChain') : opChain'[k].op = "cancel" /\ opChain'[k].l = opChain'[i].l => k = i
    BY <1>0, Behind
  <2>2. opChain[i + 1].op = "cancel" => listener'[opChain[i + 1].l].state = "closing"
    BY <1>0, <1>2, <1>5, <2>1 DEF JobFits
  <2>3. opChain[i + 1].op # "connect" => opChain[i + 1].l \in Listeners /\ listener'[opChain[i + 1].l].channel = opChain[i + 1].c
    BY <1>5, <2>1 DEF JobFits
  <2>4. opChain[i + 1].c \in Channels /\ chan'[opChain[i + 1].c].starting = chan[opChain[i + 1].c].starting
    BY <1>6, <2>1 DEF JobKind
  <2>5. opChain[i + 1].op = "cancel" => current' \in {None, opChain[i + 1].c}
    BY <1>4, <2>1 DEF JobFits
  <2> QED
    BY <2>1, <2>2, <2>3, <2>4, <2>5 DEF JobFits
<1>11. RequestsFit'
  BY <1>0, <1>6, AskedBehind
<1>12. ArmedFit'
  <2> SUFFICES ASSUME NEW k \in DOMAIN armed'
               PROVE  /\ listener'[k].channel \in Channels
                      /\ k \in chan'[listener'[k].channel].subs \/ CancelledAfter(k, 0)'
    BY DEF ArmedFit
  <2>1. k \in DOMAIN armed /\ k # l /\ k \in Listeners
    BY <1>0, <1>4 DEF Kinds
  <2>2. listener'[k].channel = listener[k].channel /\ listener[k].channel \in Channels
    BY <1>0, <1>5, <2>1 DEF ArmedFit
  <2>3. CancelledAfter(k, 0) => CancelledAfter(k, 0)'
    BY <1>0, <1>2, <2>1, Behind
  <2> QED
    BY <1>0, <1>6, <2>1, <2>2, <2>3 DEF ArmedFit
<1>13. InboxesFit'
  BY <1>0, <1>5, <1>6, StillInOrder
<1>14. DetachedFit'
  BY <1>0, <1>1 DEF DetachedFit
<1> QED
  BY <1>7, <1>8, <1>9, <1>10, <1>11, <1>12, <1>13, <1>14 DEF IInv

\* CloseAll: disconnect() and reconnect() find the op-lock empty.
LEMMA CloseAllStep ==
    ASSUME IInv, Habits = {}, CloseAll
    PROVE  IInv'
<1>0. /\ Kinds /\ ChannelsFit /\ ListenersFit /\ InboxesFit
      /\ opChain = <<>> /\ opChain' = <<>> /\ ~Starting /\ current' = None /\ DOMAIN armed' = {} /\ aux' = None
      /\ detached' \in BOOLEAN /\ listener' = listener /\ count' = count
      /\ chan' = IF current = None THEN chan
                 ELSE [chan EXCEPT ![current] = [Shutdown(chan[current]) EXCEPT !.subs = {}]]
  BY DEF IInv, CloseAll
<1>1. /\ chan' \in [Channels -> ChannelKind]
      /\ \A k \in Channels : /\ chan'[k].made = chan[k].made /\ chan'[k].starting = chan[k].starting
                             /\ chan'[k].subs = {} /\ chan'[k].socket # "open"
                             /\ chan'[k].inbox = chan[k].inbox \/ chan'[k].inbox = <<>>
                             /\ chan[k].socket = "none" => chan'[k].socket = "none"
  <2>1. chan \in [Channels -> ChannelKind] /\ current \in Channels \cup {None}
    BY <1>0 DEF Kinds
  <2>2. \A k \in Channels : k # current => chan[k].subs = {} /\ chan[k].socket # "open"
    BY <1>0 DEF ChannelsFit
  <2>3. CASE current = None
    BY <1>0, <2>1, <2>2, <2>3, EventsAssumption
  <2>4. CASE current \in Channels
    <3> DEFINE r == Shutdown(chan[current])
               d == [r EXCEPT !.subs = {}]
    <3>1. chan[current] \in ChannelKind
      BY <2>1, <2>4
    <3>2. /\ r \in ChannelKind /\ r.made = chan[current].made /\ r.starting = chan[current].starting
          /\ r.inbox = <<>> /\ r.socket # "open" /\ (chan[current].socket = "none" => r.socket = "none")
      BY <3>1, ShutDown
    <3>3. chan' = [chan EXCEPT ![current] = d]
      BY <1>0, <2>4, EventsAssumption
    <3> HIDE DEF r
    <3>4. d \in ChannelKind
      BY <3>2 DEF ChannelKind
    <3>5. d.made = r.made /\ d.starting = r.starting /\ d.subs = {} /\ d.inbox = r.inbox /\ d.socket = r.socket
      BY <3>2 DEF ChannelKind
    <3> HIDE DEF d
    <3>6. chan' \in [Channels -> ChannelKind] /\ chan'[current] = d /\ \A k \in Channels : k # current => chan'[k] = chan[k]
      BY <2>1, <2>4, <3>3, <3>4
    <3> QED
      BY <2>2, <3>2, <3>5, <3>6
  <2> QED
    BY <2>1, <2>3, <2>4
<1>2. opChain' \in Seq(JobKind) /\ Len(opChain') = 0
  BY <1>0, EmptySeq
<1>3. Kinds'
  BY <1>0, <1>1, <1>2 DEF Kinds
<1>4. ChannelsFit'
  BY <1>0, <1>1 DEF ChannelsFit, Starting
<1>5. ListenersFit'
  BY <1>0, <1>1 DEF ListenersFit
<1>6. JobsFit' /\ RequestsFit' /\ ArmedFit' /\ DetachedFit'
  BY <1>0, <1>2 DEF JobsFit, RequestsFit, ArmedFit, DetachedFit
<1>7. InboxesFit'
  BY <1>0, <1>1, StillInOrder
<1> QED
  BY <1>3, <1>4, <1>5, <1>6, <1>7 DEF IInv

\* A finite set can be put in some order.
LEMMA Ordered ==
    ASSUME NEW S, IsFiniteSet(S)
    PROVE  LET order == CHOOSE s \in [1..Cardinality(S) -> S] : \A i, j \in DOMAIN s : i # j => s[i] # s[j] IN
           order \in [1..Cardinality(S) -> S] /\ Cardinality(S) \in Nat
<1>1. Cardinality(S) \in Nat
  BY FS_CardinalityType
<1>2. PICK f \in Bijection(1..Cardinality(S), S) : TRUE
  BY FS_CardinalityType DEF ExistsBijection
<1>3. f \in [1..Cardinality(S) -> S] /\ \A i, j \in DOMAIN f : i # j => f[i] # f[j]
  BY <1>2 DEF Bijection, Injection, IsInjective
<1> QED
  BY <1>1, <1>3

\* A function on 1..n is a sequence of length n.
LEMMA IsSequence ==
    ASSUME NEW S, NEW n \in Nat, NEW q \in [1..n -> S]
    PROVE  q \in Seq(S) /\ Len(q) = n
OBVIOUS

\* The subscriptions that waited are queued, one request each.
LEMMA WaitingQueued ==
    ASSUME Kinds, NEW c \in Channels,
           NEW order \in [1..Cardinality(Waiting(c)) -> Waiting(c)], Cardinality(Waiting(c)) \in Nat,
           opChain' = opChain \o [i \in DOMAIN order |-> Que(order[i], 0)]
    PROVE  /\ opChain' \in Seq(JobKind) /\ Len(opChain) \in Nat /\ Len(opChain') \in Nat /\ Len(opChain') >= Len(opChain)
           /\ \A i \in 1..Len(opChain) : opChain'[i] = opChain[i]
           /\ \A i \in 1..Len(opChain') : i \notin 1..Len(opChain) =>
                opChain'[i].op = "que" /\ opChain'[i].c = c /\ opChain'[i].l \in Waiting(c)
<1> DEFINE n == Cardinality(Waiting(c))
           q == [i \in DOMAIN order |-> Que(order[i], 0)]
<1>1. DOMAIN order = 1..n /\ n \in Nat
  OBVIOUS
<1>2. ASSUME NEW i \in 1..n
      PROVE  Que(order[i], 0) \in JobKind /\ Que(order[i], 0).op = "que" /\ Que(order[i], 0).c = c /\ Que(order[i], 0).l \in Waiting(c)
  BY DEF Que, JobKind, Waiting
<1>3. q = [i \in 1..n |-> Que(order[i], 0)] /\ \A i \in 1..n : q[i] = Que(order[i], 0)
  BY <1>1
<1>4. q \in [1..n -> JobKind]
  BY <1>2, <1>3
<1>5. q \in Seq(JobKind) /\ Len(q) = n
  BY <1>1, <1>4, IsSequence
<1> HIDE DEF q
<1>6. opChain' = opChain \o q /\ opChain \in Seq(JobKind)
  BY DEF Kinds, q
<1>7. /\ opChain' \in Seq(JobKind) /\ Len(opChain') = Len(opChain) + Len(q) /\ Len(opChain) \in Nat
      /\ \A i \in 1..Len(opChain) + Len(q) : opChain'[i] = IF i <= Len(opChain) THEN opChain[i] ELSE q[i - Len(opChain)]
  <2>1. Len(opChain) \in Nat
    BY <1>6, LenProperties
  <2>2. /\ opChain \o q \in Seq(JobKind) /\ Len(opChain \o q) = Len(opChain) + Len(q)
        /\ \A i \in 1..Len(opChain) + Len(q) : (opChain \o q)[i] = IF i <= Len(opChain) THEN opChain[i] ELSE q[i - Len(opChain)]
    BY <1>5, <1>6, ConcatProperties
  <2> QED
    BY <1>6, <2>1, <2>2
<1>8. \A i \in 1..Len(opChain) : opChain'[i] = opChain[i]
  BY <1>1, <1>5, <1>7
<1>9. ASSUME NEW i \in 1..Len(opChain'), i \notin 1..Len(opChain)
      PROVE  opChain'[i].op = "que" /\ opChain'[i].c = c /\ opChain'[i].l \in Waiting(c)
  <2>1. i - Len(opChain) \in 1..n /\ opChain'[i] = q[i - Len(opChain)]
    BY <1>1, <1>5, <1>7, <1>9
  <2>2. PICK k \in 1..n : opChain'[i] = q[k]
    BY <2>1
  <2> QED
    BY <1>2, <1>3, <2>2
<1> QED
  BY <1>1, <1>5, <1>7, <1>8, <1>9

\* AuxConnects: who waited is subscribed before its request is queued.
LEMMA AuxConnectsStep ==
    ASSUME IInv, NEW c \in Channels, AuxConnects(c)
    PROVE  IInv'
<1> DEFINE ready == Waiting(c)
<1>0. /\ Kinds /\ ChannelsFit /\ ListenersFit /\ JobsFit /\ RequestsFit /\ ArmedFit /\ InboxesFit /\ DetachedFit
      /\ chan[c].starting = "connecting" /\ current = c /\ c # None
      /\ current' = current /\ detached' = detached /\ armed' = armed /\ aux' = aux /\ count' = count
  BY EventsAssumption DEF IInv, AuxConnects, server, ChannelsFit
<1>1. PICK g \in Loops, s \in {"live", "queing"} :
        /\ chan' = [chan EXCEPT ![c].starting = "done", ![c].socket = "open", ![c].subs = chan[c].subs \cup ready, ![c].loop = g]
        /\ listener' = [l \in Listeners |-> IF l \in ready THEN [listener[l] EXCEPT !.state = s] ELSE listener[l]]
  BY DEF AuxConnects, Wake, Loops
<1>2. /\ opChain' \in Seq(JobKind) /\ Len(opChain) \in Nat /\ Len(opChain') \in Nat /\ Len(opChain') >= Len(opChain)
      /\ \A i \in 1..Len(opChain) : opChain'[i] = opChain[i]
      /\ \A i \in 1..Len(opChain') : i \notin 1..Len(opChain) =>
           opChain'[i].op = "que" /\ opChain'[i].c = c /\ opChain'[i].l \in ready
  <2>1. CASE chan[c].closed
    <3>1. opChain' = opChain
      BY <2>1 DEF AuxConnects
    <3>2. opChain \in Seq(JobKind) /\ Len(opChain) \in Nat
      BY <1>0, LenProperties DEF Kinds
    <3> QED
      BY <3>1, <3>2
  <2>2. CASE ~chan[c].closed
    <3> DEFINE order == CHOOSE o \in [1..Cardinality(ready) -> ready] : \A i, j \in DOMAIN o : i # j => o[i] # o[j]
    <3>1. IsFiniteSet(ready)
      BY EventsAssumption, FS_Subset DEF Waiting
    <3>2. order \in [1..Cardinality(ready) -> ready] /\ Cardinality(ready) \in Nat
      BY <3>1, Ordered
    <3>3. opChain' = opChain \o [i \in DOMAIN order |-> Que(order[i], 0)]
      BY <2>2 DEF AuxConnects, Wake
    <3> HIDE DEF order
    <3> QED
      BY <1>0, <3>2, <3>3, WaitingQueued
  <2> QED
    BY <2>1, <2>2
<1>3. ready \subseteq Listeners /\ \A l \in ready : listener[l].state = "starting" /\ listener[l].channel = c
  BY DEF Waiting
<1> HIDE DEF ready
<1>4. chan[c].subs = {} /\ chan[c].made /\ ~detached
  BY <1>0 DEF ChannelsFit, DetachedFit
<1>5. /\ chan' \in [Channels -> ChannelKind]
      /\ chan'[c].starting = "done" /\ chan'[c].socket = "open" /\ chan'[c].subs = ready
      /\ \A k \in Channels : k # c => chan'[k] = chan[k]
      /\ \A k \in Channels : chan'[k].made = chan[k].made /\ chan'[k].inbox = chan[k].inbox
  <2> DEFINE d == [chan[c] EXCEPT !.starting = "done", !.socket = "open", !.subs = ready, !.loop = g]
  <2>1. chan[c] \in ChannelKind /\ chan \in [Channels -> ChannelKind]
    BY <1>0 DEF Kinds
  <2>2. chan' = [chan EXCEPT ![c].starting = "done", ![c].socket = "open", ![c].subs = ready, ![c].loop = g]
    BY <1>1, <1>4
  <2>3. d \in ChannelKind
    BY <1>3, <2>1 DEF ChannelKind, Starts, Sockets
  <2>4. /\ d.starting = "done" /\ d.socket = "open" /\ d.subs = ready
        /\ d.made = chan[c].made /\ d.inbox = chan[c].inbox
    BY <2>1 DEF ChannelKind
  <2>5. chan'[c] = d /\ chan' = [k \in Channels |-> chan'[k]] /\ \A k \in Channels : k # c => chan'[k] = chan[k]
    BY <2>1, <2>2
  <2> HIDE DEF d
  <2>6. \A k \in Channels : chan'[k] \in ChannelKind
    BY <2>1, <2>3, <2>5
  <2>7. chan' \in [Channels -> ChannelKind]
    BY <2>5, <2>6
  <2> QED
    BY <2>4, <2>5, <2>7
<1>6. /\ listener' \in [Listeners -> ListenerKind]
      /\ \A l \in Listeners :
          /\ listener'[l].channel = listener[l].channel /\ listener'[l].counts = listener[l].counts
          /\ listener'[l].told = listener[l].told
          /\ IF l \in ready THEN listener'[l].state = s ELSE listener'[l].state = listener[l].state
  <2>1. ASSUME NEW l \in Listeners
        PROVE  /\ listener'[l] \in ListenerKind
               /\ listener'[l].channel = listener[l].channel /\ listener'[l].counts = listener[l].counts
               /\ listener'[l].told = listener[l].told
               /\ IF l \in ready THEN listener'[l].state = s ELSE listener'[l].state = listener[l].state
    <3>1. listener[l] \in ListenerKind
      BY <1>0 DEF Kinds
    <3>2. CASE l \in ready
      BY <1>1, <3>1, <3>2 DEF ListenerKind, States
    <3>3. CASE l \notin ready
      <4>1. listener'[l] = listener[l]
        BY <1>1, <3>3
      <4> QED
        BY <3>1, <3>3, <4>1
    <3> QED
      BY <3>2, <3>3
  <2>2. listener' \in [Listeners -> ListenerKind]
    BY <1>1, <2>1
  <2> QED
    BY <2>1, <2>2
<1>7. Kinds'
  BY <1>0, <1>2, <1>5, <1>6 DEF Kinds
<1>8. ChannelsFit'
  BY <1>0, <1>4, <1>5 DEF ChannelsFit
<1>9. ListenersFit'
  <2> SUFFICES ASSUME NEW l \in Listeners
               PROVE  /\ listener'[l].state = "none" => listener'[l].counts = 0 /\ listener'[l].channel = None
                      /\ listener'[l].state # "none" => listener'[l].channel \in Channels
                      /\ listener'[l].told <= listener'[l].counts /\ listener'[l].counts <= count'
                      /\ \A k \in Channels : l \in chan'[k].subs =>
                          listener'[l].state \in {"queing", "live", "failed"} /\ listener'[l].channel = k
    BY DEF ListenersFit
  <2>0. /\ listener[l].state = "none" => listener[l].counts = 0 /\ listener[l].channel = None
        /\ listener[l].state # "none" => listener[l].channel \in Channels
        /\ listener[l].told <= listener[l].counts /\ listener[l].counts <= count
        /\ \A k \in Channels : l \in chan[k].subs =>
            listener[l].state \in {"queing", "live", "failed"} /\ listener[l].channel = k
    BY <1>0 DEF ListenersFit
  <2>1. CASE l \in ready
    <3>1. \A k \in Channels : l \in chan'[k].subs => k = c
      BY <1>3, <1>5, <2>0, <2>1
    <3> QED
      BY <1>0, <1>3, <1>6, <2>0, <2>1, <3>1
  <2>2. CASE l \notin ready
    <3>1. \A k \in Channels : l \in chan'[k].subs => l \in chan[k].subs
      BY <1>5, <2>2
    <3> QED
      BY <1>0, <1>6, <2>0, <2>2, <3>1
  <2> QED
    BY <2>1, <2>2
<1>10. \A i \in 1..Len(opChain) : opChain[i] \in JobKind /\ JobFits(i)
  BY <1>0, JobKinds DEF JobsFit
<1>11. JobsFit'
  <2> SUFFICES ASSUME NEW i \in 1..Len(opChain') PROVE JobFits(i)'
    BY DEF JobsFit
  <2>1. CASE i \in 1..Len(opChain)
    <3>1. opChain'[i] = opChain[i] /\ JobFits(i) /\ opChain[i].c \in Channels
      BY <1>2, <1>10, <2>1 DEF JobKind
    <3>2. opChain[i].op = "connect" => \A k \in 1..Len(opChain') : opChain'[k].op = "connect" => k = i
      BY <1>2, <3>1 DEF JobFits
    <3>3. opChain[i].op = "cancel" => \A k \in 1..Len(opChain') :
            opChain'[k].op = "cancel" /\ opChain'[k].l = opChain[i].l => k = i
      BY <1>2, <3>1 DEF JobFits
    <3>4. opChain[i].op = "cancel" => listener'[opChain[i].l].state = "closing"
      <4>1. opChain[i].op = "cancel" => opChain[i].l \in Listeners /\ listener[opChain[i].l].state = "closing"
        BY <3>1 DEF JobFits
      <4> QED
        BY <1>3, <1>6, <4>1
    <3>5. opChain[i].op # "connect" => opChain[i].l \in Listeners /\ listener'[opChain[i].l].channel = opChain[i].c
      BY <1>6, <3>1 DEF JobFits
    <3>6. /\ opChain[i].op = "connect" => chan'[opChain[i].c].starting = "asking"
          /\ opChain[i].op = "cancel" => chan'[opChain[i].c].starting = "done"
      BY <1>0, <1>5, <3>1 DEF JobFits
    <3>7. opChain[i].op = "cancel" => opChain[i].n = 0 /\ current' \in {None, opChain[i].c}
      BY <1>0, <3>1 DEF JobFits
    <3> QED
      BY <3>1, <3>2, <3>3, <3>4, <3>5, <3>6, <3>7 DEF JobFits
  <2>2. CASE i \notin 1..Len(opChain)
    BY <1>2, <1>3, <1>6, <2>2 DEF JobFits
  <2> QED
    BY <2>1, <2>2
<1>12. ASSUME NEW k, NEW i \in Nat, CancelledAfter(k, i)
       PROVE  CancelledAfter(k, i)'
  BY <1>2, <1>12, Grown
<1>13. \A k \in Channels : chan[k].subs \subseteq chan'[k].subs
  BY <1>4, <1>5
<1>14. RequestsFit'
  <2> SUFFICES ASSUME NEW i \in 1..Len(opChain'), opChain'[i].op = "que", NEW w, w = opChain'[i].l
               PROVE  w \in chan'[opChain'[i].c].subs \/ CancelledAfter(w, i)'
    BY DEF RequestsFit, CancelledAfter
  <2>1. CASE i \in 1..Len(opChain)
    <3>1. w = opChain[i].l /\ opChain'[i] = opChain[i] /\ opChain[i].c \in Channels /\ i \in Nat
      BY <1>2, <1>10, <2>1 DEF JobKind
    <3> QED
      BY <1>0, <1>12, <1>13, <2>1, <3>1 DEF RequestsFit
  <2>2. CASE i \notin 1..Len(opChain)
    BY <1>2, <1>5, <2>2
  <2> QED
    BY <2>1, <2>2
<1>15. ArmedFit'
  <2> SUFFICES ASSUME NEW k \in DOMAIN armed
               PROVE  /\ listener'[k].channel \in Channels
                      /\ k \in chan'[listener'[k].channel].subs \/ CancelledAfter(k, 0)'
    BY <1>0 DEF ArmedFit
  <2>1. k \in Listeners /\ 0 \in Nat /\ listener'[k].channel = listener[k].channel /\ listener[k].channel \in Channels
    BY <1>0, <1>6 DEF Kinds, ArmedFit
  <2> QED
    BY <1>0, <1>12, <1>13, <2>1 DEF ArmedFit
<1>16. InboxesFit'
  BY <1>0, <1>5, <1>6, StillInOrder
<1>17. DetachedFit'
  BY <1>0, <1>4 DEF DetachedFit
<1> QED
  BY <1>7, <1>8, <1>9, <1>11, <1>14, <1>15, <1>16, <1>17 DEF IInv

\* Every step keeps the invariant.
LEMMA Next_IInv ==
    ASSUME IInv, Habits = {}, [Next]_vars
    PROVE  IInv'
<1>1. CASE UNCHANGED vars
  <2>1. /\ chan' = chan /\ current' = current /\ listener' = listener /\ opChain' = opChain
        /\ detached' = detached /\ armed' = armed /\ aux' = aux /\ count' = count
    BY <1>1 DEF vars, client, server
  <2>2. (Kinds /\ ChannelsFit /\ ListenersFit)' /\ (RequestsFit /\ ArmedFit /\ DetachedFit)'
    BY <2>1 DEF IInv, Kinds, ChannelsFit, ListenersFit, RequestsFit, CancelledAfter, ArmedFit, DetachedFit
  <2>3. JobsFit' /\ InboxesFit'
    BY <2>1 DEF IInv, JobsFit, JobFits, InboxesFit
  <2> QED
    BY <2>2, <2>3 DEF IInv
<1>2. ASSUME NEW l \in Listeners, Subscribe(l)
      PROVE  IInv'
  BY <1>2, SubscribeStep
<1>3. ASSUME NEW l \in Listeners, Close(l)
      PROVE  IInv'
  BY <1>3, CloseAsks, CloseForgotten
<1>4. ASSUME NEW l \in Listeners, Fire(l)
      PROVE  IInv'
  BY <1>4, FireStep
<1>5. ASSUME NEW c \in Channels, Arrives(c) \/ AuxDies(c)
      PROVE  IInv'
  BY <1>5, AuxConnectsStep, AuxRefusedStep, ReadEventStep, AuxDiesStep DEF Arrives
<1>6. CASE Jobs
  BY <1>6, ConnectJobStep, QueJobStep, CancelJobStep DEF Jobs
<1>7. CASE Post
  BY <1>7, PostStep
<1>8. CASE CloseAll
  BY <1>8, CloseAllStep
<1> QED
  BY <1>1, <1>2, <1>3, <1>4, <1>5, <1>6, <1>7, <1>8 DEF Next

\* The invariant holds what the run checks.
LEMMA IInv_ServerExact == IInv => ServerExact
<1> SUFFICES ASSUME IInv PROVE ServerExact
  OBVIOUS
<1>1. Kinds /\ ChannelsFit /\ ListenersFit /\ JobsFit /\ ArmedFit
  BY DEF IInv
<1>2. TypeOK
  <2>1. ASSUME NEW c \in Channels
        PROVE  chan[c].starting \in Starts /\ chan[c].socket \in Sockets /\ chan[c].loop \in Loops /\ chan[c].subs \subseteq Listeners
    BY <1>1 DEF Kinds, ChannelKind
  <2>2. ASSUME NEW l \in Listeners
        PROVE  listener[l].state \in States /\ listener[l].channel \in Channels \cup {None} /\ listener[l].told <= listener[l].counts
    BY <1>1 DEF Kinds, ListenerKind, ListenersFit
  <2> QED
    BY <1>1, <2>1, <2>2 DEF TypeOK, Kinds, Starts, Sockets, Loops, States
<1>3. OneChannel
  BY <1>1 DEF ChannelsFit, OneChannel
<1>4. ServerForgets
  <2> SUFFICES ASSUME NEW l \in DOMAIN armed, l \notin chan[listener[l].channel].subs
               PROVE  \E k \in 1..Len(opChain) : opChain[k] = Cancel(l)
    BY DEF ServerForgets
  <2>1. PICK k \in 1..Len(opChain) : opChain[k].op = "cancel" /\ opChain[k].l = l
    BY <1>1 DEF ArmedFit, CancelledAfter
  <2>2. opChain[k] \in JobKind /\ opChain[k].n = 0 /\ opChain[k].c = listener[l].channel
    BY <1>1, <2>1, JobKinds DEF JobsFit, JobFits
  <2>3. opChain[k] = [op |-> "cancel", c |-> listener[l].channel, l |-> l, n |-> 0]
    BY <2>1, <2>2 DEF JobKind
  <2> QED
    BY <2>3 DEF Cancel
<1> QED
  BY <1>2, <1>3, <1>4 DEF ServerExact

\* Whatever fails or breaks, there is no open auxiliary connection but the attachment's,
\* and every request at the server is of a subscribed listener or about to be cancelled:
\* close(), unsubscribe(), the read loop and disconnect() leave nothing behind.
THEOREM NothingLeftAtServer ==
    ASSUME Habits = {}
    PROVE  Spec => []ServerExact
<1>1. Init => IInv
  BY Init_IInv
<1>2. IInv /\ [Next]_vars => IInv'
  BY Next_IInv
<1>3. IInv => ServerExact
  BY IInv_ServerExact
<1> QED
  BY <1>1, <1>2, <1>3, PTL DEF Spec
=============================================================================
