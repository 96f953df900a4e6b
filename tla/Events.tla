------------------------------- MODULE Events -------------------------------
(***************************************************************************)
(* The event subscriptions of one Attachment (events/events.ts): its       *)
(* EventChannel, begun with the first subscription and shut down with the  *)
(* last, the listeners that share its auxiliary connection, and the        *)
(* one-shot requests the server holds for them. Requests go over the       *)
(* attachment's op-lock, events come in over the auxiliary connection.     *)
(*                                                                         *)
(* A job of the lock is one step, the code between two awaits another.     *)
(* There is one event name: the maps of counts are counts. After shutdown  *)
(* or closeAll() the next subscription makes a new channel.                *)
(*                                                                         *)
(* CancelUnasked, WakeFirst, ShutdownLeavesOpen, DeliverUncounted and      *)
(* RearmStale are what a slip would make of the definition they precede.   *)
(***************************************************************************)
EXTENDS Naturals, Sequences, FiniteSets

CONSTANTS
    Listeners,      \* every call of events() makes one
    Channels,       \* bound on channels made one after the other
    MaxPosts,       \* bound on posts
    Faults,         \* "refuse": starting and arming may fail; "die": the auxiliary connection may break
    Habits          \* what callers may do, a subset of AllHabits

\* inHandler: a listener is closed by the callback of a post; closes: events() is
\* called while listeners are being closed; busy: the attachment is disconnected or
\* reconnected while its channel is starting or requests are queued.
AllHabits == {"inHandler", "closes", "busy"}

None == 0

ASSUME EventsAssumption ==
    /\ None \notin Channels /\ IsFiniteSet(Listeners) /\ MaxPosts \in Nat
    /\ Faults \subseteq {"refuse", "die"} /\ Habits \subseteq AllHabits

VARIABLES
    chan,       \* each EventChannel
    current,    \* the attachment's eventChannel
    listener,   \* each EventListener and the call that made it
    opChain,    \* the attachment's op-lock
    detached,
    armed,      \* the server's requests: the count each waits to be exceeded
    aux,        \* the channel the server sends events to
    count       \* the server's count of posts

client == <<chan, current, listener, opChain>>
server == <<armed, aux, count>>
vars == <<client, detached, server>>

NewChannel == [made |-> FALSE, starting |-> "no", socket |-> "none", closed |-> FALSE,
               subs |-> {}, loop |-> "off", inbox |-> <<>>]
NewListener == [state |-> "none", channel |-> None, counts |-> 0, baselined |-> FALSE, told |-> 0]

Init ==
    /\ chan = [c \in Channels |-> NewChannel]
    /\ current = None
    /\ listener = [l \in Listeners |-> NewListener]
    /\ opChain = <<>>
    /\ detached = FALSE
    /\ armed = <<>> /\ aux = None /\ count = 1

Connect(c) == [op |-> "connect", c |-> c, l |-> None, n |-> 0]
Que(l, n) == [op |-> "que", c |-> listener[l].channel, l |-> l, n |-> n]
Cancel(l) == [op |-> "cancel", c |-> listener[l].channel, l |-> l, n |-> 0]

-----------------------------------------------------------------------------
(* Subscribing. *)

Unmade == {c \in Channels : ~chan[c].made}
Starting == \E c \in Channels : chan[c].starting \in {"asking", "connecting"}

\* events(): ensureStarted() returns at once, waits for the start that is under way
\* or failed before, or begins it.
Subscribe(l) ==
    LET c == IF current # None THEN current ELSE CHOOSE k \in Unmade : TRUE
        up == chan[c].socket \in {"open", "dead"}
        fails == ~up /\ chan[c].starting = "failed"
    IN
    /\ listener[l].state = "none" /\ ~detached
    /\ current # None \/ Unmade # {}
    /\ "closes" \in Habits \/ \A k \in Listeners : listener[k].state # "closing"
    /\ current' = c
    /\ listener' = [listener EXCEPT ![l].channel = c,
                        ![l].state = IF fails THEN "failed" ELSE IF up THEN "queing" ELSE "starting"]
    /\ chan' = [chan EXCEPT ![c].made = TRUE,
                    ![c].starting = IF @ = "no" THEN "asking" ELSE @,
                    ![c].subs = IF up THEN @ \cup {l} ELSE @]
    /\ opChain' = IF up THEN Append(opChain, [Que(l, 0) EXCEPT !.c = c])
                  ELSE IF chan[c].starting = "no" THEN Append(opChain, Connect(c))
                  ELSE opChain
    /\ UNCHANGED <<detached, server>>

Waiting(c) == {l \in Listeners : listener[l].state = "starting" /\ listener[l].channel = c}
StartFails(c) == listener' = [l \in Listeners |->
    IF l \in Waiting(c) THEN [listener[l] EXCEPT !.state = "failed"] ELSE listener[l]]

WakeFirst(c) == IF Waiting(c) = {} THEN {} ELSE {CHOOSE l \in Waiting(c) : TRUE}

\* Who awaits `starting` goes on when it resolves.
Wake(c) == Waiting(c)

\* op_connect_request named a port, and the connection to it stands. A channel that
\* was closed meanwhile keeps it; its subscriptions return and are never armed.
AuxConnects(c) ==
    LET ready == Wake(c)
        closed == chan[c].closed
        order == CHOOSE s \in [1..Cardinality(ready) -> ready] : \A i, j \in DOMAIN s : i # j => s[i] # s[j]
    IN
    /\ chan[c].starting = "connecting"
    /\ chan' = [chan EXCEPT ![c].starting = "done", ![c].socket = "open", ![c].subs = @ \cup ready,
                            ![c].loop = IF closed THEN "off" ELSE "reading"]
    /\ listener' = [l \in Listeners |-> IF l \in ready
            THEN [listener[l] EXCEPT !.state = IF closed THEN "live" ELSE "queing"] ELSE listener[l]]
    /\ opChain' = IF closed THEN opChain ELSE opChain \o [i \in DOMAIN order |-> Que(order[i], 0)]
    /\ UNCHANGED <<current, detached, server>>

\* The start fails, and `starting` keeps the rejected promise.
AuxRefused(c) ==
    /\ "refuse" \in Faults /\ chan[c].starting = "connecting"
    /\ chan' = [chan EXCEPT ![c].starting = "failed"]
    /\ StartFails(c)
    /\ UNCHANGED <<current, opChain, detached, server>>

-----------------------------------------------------------------------------
(* The jobs of the op-lock. *)

job == Head(opChain)
Runs(op) == opChain # <<>> /\ job.op = op

ConnectJob ==
    /\ Runs("connect")
    /\ opChain' = Tail(opChain)
    /\ \/ /\ ~detached
          /\ chan' = [chan EXCEPT ![job.c].starting = "connecting"]
          /\ aux' = job.c
          /\ UNCHANGED listener
       \/ /\ detached \/ "refuse" \in Faults
          /\ chan' = [chan EXCEPT ![job.c].starting = "failed"]
          /\ StartFails(job.c)
          /\ UNCHANGED aux
    /\ UNCHANGED <<current, detached, armed, count>>

Without(f, l) == [k \in DOMAIN f \ {l} |-> f[k]]
With(f, l, n) == [k \in DOMAIN f \cup {l} |-> IF k = l THEN n ELSE f[k]]

\* queEvents(), of a subscription or of the read loop, which then goes on. Refused,
\* or with the connection gone, the subscription fails and stays in subs; the loop
\* ends, and tells its listeners if the channel is not closed.
QueJob ==
    LET l == job.l
        looping == listener[l].state # "queing"
    IN
    /\ Runs("que")
    /\ opChain' = Tail(opChain)
    /\ \E refused \in {detached, detached \/ "refuse" \in Faults} :
        /\ armed' = IF refused THEN armed ELSE With(armed, l, job.n)
        /\ listener' = IF looping THEN listener ELSE [listener EXCEPT ![l].state = IF refused THEN "failed" ELSE "live"]
        /\ chan' = IF looping /\ chan[job.c].loop = "rearming"
                   THEN [chan EXCEPT ![job.c].loop = IF refused \/ chan[job.c].closed THEN "off" ELSE "reading"]
                   ELSE chan
    /\ UNCHANGED <<current, detached, aux, count>>

\* close(): from then on the listener is told nothing.
Close(l) ==
    /\ listener[l].state = "live"
    /\ IF l \in chan[listener[l].channel].subs
       THEN /\ chan' = [chan EXCEPT ![listener[l].channel].subs = @ \ {l}]
            /\ opChain' = Append(opChain, Cancel(l))
            /\ listener' = [listener EXCEPT ![l].state = "closing"]
       ELSE /\ listener' = [listener EXCEPT ![l].state = "closed"]
            /\ UNCHANGED <<chan, opChain>>
    /\ UNCHANGED <<current, detached, server>>

ShutdownLeavesOpen(r) == [r EXCEPT !.closed = TRUE, !.loop = "off"]

\* shutdown() and closeAll(): the auxiliary connection is ended with a FIN.
Shutdown(r) == [r EXCEPT !.closed = TRUE, !.loop = "off", !.inbox = <<>>,
                         !.socket = IF @ \in {"open", "dead"} THEN "ended" ELSE @]

CancelUnasked(l) == armed
Cancelled(l) == Without(armed, l)

\* unsubscribe() after op_cancel_events: the last one shuts the channel down, and
\* detachEventChannel() makes the attachment forget the channel it has.
CancelJob ==
    LET c == job.c IN
    /\ Runs("cancel")
    /\ opChain' = Tail(opChain)
    /\ armed' = IF detached THEN armed ELSE Cancelled(job.l)
    /\ listener' = [listener EXCEPT ![job.l].state = "closed"]
    /\ IF chan[c].subs = {}
       THEN chan' = [chan EXCEPT ![c] = Shutdown(@)] /\ current' = None
       ELSE UNCHANGED <<chan, current>>
    /\ UNCHANGED <<detached, aux, count>>

-----------------------------------------------------------------------------
(* Events. *)

Post ==
    /\ count <= MaxPosts
    /\ count' = count + 1
    /\ UNCHANGED <<client, detached, armed, aux>>

\* A request whose count is exceeded is answered and gone.
Fire(l) ==
    /\ l \in DOMAIN armed /\ count > armed[l]
    /\ aux # None /\ chan[aux].socket = "open"
    /\ chan' = [chan EXCEPT ![aux].inbox = Append(@, <<l, count>>)]
    /\ armed' = Without(armed, l)
    /\ UNCHANGED <<current, listener, opChain, detached, aux, count>>

DeliverUncounted(r, n) == [r EXCEPT !.baselined = TRUE, !.told = IF r.baselined /\ n > r.counts THEN n ELSE @]

\* deliver(): the first count is the baseline, what exceeds the last one is told.
Deliver(r, n) == [r EXCEPT !.counts = n, !.baselined = TRUE,
                           !.told = IF r.baselined /\ n > r.counts THEN n ELSE @]

RearmStale(l, n) == Que(l, n + 1)
Rearm(l, n) == Que(l, n)

\* One turn of readLoop(). The callback of a post may close its listener, whose
\* cancellation then precedes the request that arms it again.
ReadEvent(c) ==
    LET l == Head(chan[c].inbox)[1]
        n == Head(chan[c].inbox)[2]
        told == Deliver(listener[l], n)
        rest == [chan[c] EXCEPT !.inbox = Tail(@)]
    IN
    /\ chan[c].loop = "reading" /\ chan[c].inbox # <<>>
    /\ IF l \notin chan[c].subs
       THEN chan' = [chan EXCEPT ![c] = rest] /\ UNCHANGED <<listener, opChain>>
       ELSE \/ /\ chan' = [chan EXCEPT ![c] = [rest EXCEPT !.loop = "rearming"]]
               /\ listener' = [listener EXCEPT ![l] = told]
               /\ opChain' = Append(opChain, Rearm(l, told.counts))
            \/ /\ "inHandler" \in Habits /\ told.told = n /\ listener[l].state = "live"
               /\ chan' = [chan EXCEPT ![c] = [rest EXCEPT !.loop = "rearming", !.subs = @ \ {l}]]
               /\ listener' = [listener EXCEPT ![l] = [told EXCEPT !.state = "closing"]]
               /\ opChain' = opChain \o <<Cancel(l), Rearm(l, told.counts)>>
    /\ UNCHANGED <<current, detached, server>>

\* The auxiliary connection breaks: listeners are given the error, the channel
\* stays as it is.
AuxDies(c) ==
    /\ "die" \in Faults /\ chan[c].socket = "open"
    /\ chan' = [chan EXCEPT ![c].socket = "dead", ![c].loop = "off", ![c].inbox = <<>>]
    /\ UNCHANGED <<current, listener, opChain, detached, server>>

\* disconnect() at once, reconnect() when it has the lock: what is in the chain
\* then was queued behind it, and runs on the next connection or none.
CloseAll ==
    /\ ~detached
    /\ "busy" \in Habits \/ (opChain = <<>> /\ ~Starting)
    /\ chan' = IF current = None THEN chan
               ELSE [chan EXCEPT ![current] = [Shutdown(@) EXCEPT !.subs = {}]]
    /\ current' = None
    /\ armed' = <<>> /\ aux' = None
    /\ detached' \in BOOLEAN
    /\ UNCHANGED <<listener, opChain, count>>

-----------------------------------------------------------------------------
Jobs == ConnectJob \/ QueJob \/ CancelJob
Arrives(c) == AuxConnects(c) \/ AuxRefused(c) \/ ReadEvent(c)

Next ==
    \/ \E l \in Listeners : Subscribe(l) \/ Close(l) \/ Fire(l)
    \/ \E c \in Channels : Arrives(c) \/ AuxDies(c)
    \/ Jobs \/ Post \/ CloseAll

\* Jobs run in turn, the server answers and sends, and the loop reads.
Spec ==
    /\ Init /\ [][Next]_vars /\ WF_vars(Jobs)
    /\ \A c \in Channels : WF_vars(Arrives(c))
    /\ \A l \in Listeners : WF_vars(Fire(l))

-----------------------------------------------------------------------------
TypeOK ==
    /\ \A c \in Channels :
        /\ chan[c].starting \in {"no", "asking", "connecting", "done", "failed"}
        /\ chan[c].socket \in {"none", "open", "dead", "ended"}
        /\ chan[c].loop \in {"off", "reading", "rearming"} /\ chan[c].subs \subseteq Listeners
    /\ \A l \in Listeners :
        /\ listener[l].state \in {"none", "starting", "queing", "live", "closing", "closed", "failed"}
        /\ listener[l].channel \in Channels \cup {None} /\ listener[l].told <= listener[l].counts
    /\ current \in Channels \cup {None} /\ aux \in Channels \cup {None}
    /\ DOMAIN armed \subseteq Listeners /\ count \in 1..(MaxPosts + 1)

\* The server gives a connection one port for events: there is never another open
\* auxiliary connection than that of the channel the attachment has, which is the
\* one disconnect() will close.
OneChannel == \A c \in Channels : chan[c].socket = "open" => c = current

\* A request at the server belongs to a listener: one that was closed is cancelled
\* for good, and no later event re-arms it.
ServerForgets == \A l \in DOMAIN armed :
    \/ l \in chan[listener[l].channel].subs
    \/ \E k \in 1..Len(opChain) : opChain[k] = Cancel(l)

\* Nothing of an event channel is left behind, no connection and no request.
ServerExact == TypeOK /\ OneChannel /\ ServerForgets

\* "Torn down when the last one closes" (events.ts:36): when the last listener that a
\* caller has is closed, its channel holds no connection. It is not so if the server
\* has refused the request of another, which stays in subs and is nobody's.
Held == {"starting", "queing", "live", "closing"}
TornDown == [][\A l \in Listeners :
    (listener[l].state = "closing" /\ \A k \in Listeners : listener'[k].state \notin Held)
        => chan'[listener[l].channel].socket # "open"]_vars

\* As long as its channel can hear, a listener that has its baseline is told of
\* every later count: posts made while its request is not armed are not missed.
Listening(l) == listener[l].state = "live" /\ chan[listener[l].channel].loop # "off"
Told == \A l \in Listeners : \A n \in 2..(MaxPosts + 1) :
    (Listening(l) /\ listener[l].baselined /\ listener[l].counts < n /\ n <= count)
        ~> (listener[l].told >= n \/ ~Listening(l))

\* Every subscription is made or refused, and every close() returns.
CallsSettle == \A l \in Listeners :
    listener[l].state \in {"starting", "queing", "closing"}
        ~> listener[l].state \in {"live", "closed", "failed"}
=============================================================================
