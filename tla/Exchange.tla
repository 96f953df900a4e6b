------------------------------ MODULE Exchange ------------------------------
(***************************************************************************)
(* What a connection promises to the operations that share it: they run    *)
(* one at a time in the order they came; the one that runs sends a packet  *)
(* of requests and is told, request by request and in order, the answer to *)
(* what it asked; an error ends the packet; the connection may be lost.    *)
(*                                                                         *)
(* An exchange may break: its operation is refused, or left waiting, and   *)
(* what answers say from then on is not promised any more. Operations are  *)
(* still kept apart.                                                       *)
(***************************************************************************)
EXTENDS Naturals, Sequences, SequencesExt

CONSTANTS Tasks, Ids, NoId, Packets

VARIABLES chain, asked, answer, broken

Request == [id : Ids, op : UNION {Range(p) : p \in Packets}]
NoAnswer == [req |-> [id |-> NoId, op |-> "none"], ok |-> TRUE]
Lost == [NoAnswer EXCEPT !.ok = FALSE]

ExInit == chain = <<>> /\ asked = <<>> /\ answer = NoAnswer /\ broken = FALSE

Enter(t) ==
    /\ t \notin Range(chain)
    /\ chain' = Append(chain, t)
    /\ UNCHANGED <<asked, answer>>

Ask(i, p) ==
    /\ chain # <<>> /\ asked = <<>>
    /\ asked' = [k \in DOMAIN p |-> [id |-> i, op |-> p[k]]]
    /\ answer' = NoAnswer
    /\ UNCHANGED chain

Reply ==
    /\ asked # <<>>
    /\ asked' = Tail(asked)
    /\ answer' = [req |-> Head(asked), ok |-> TRUE]
    /\ UNCHANGED chain

Refuse ==
    /\ asked # <<>>
    /\ asked' = <<>>
    /\ answer' = [req |-> Head(asked), ok |-> FALSE]
    /\ UNCHANGED chain

Lose ==
    /\ chain # <<>>
    /\ asked' = <<>>
    /\ answer' = Lost
    /\ UNCHANGED chain

Leave ==
    /\ chain # <<>> /\ asked = <<>>
    /\ chain' = Tail(chain)
    /\ answer' = NoAnswer
    /\ UNCHANGED asked

Promised ==
    /\ ~broken /\ ~broken'
    /\ \/ \E t \in Tasks : Enter(t)
       \/ \E i \in Ids, p \in Packets : Ask(i, p)
       \/ Reply \/ Refuse \/ Lose \/ Leave

Break ==
    /\ ~broken /\ broken' /\ asked # <<>>
    /\ \/ asked' = <<>> /\ ~answer'.ok
       \/ UNCHANGED <<asked, answer>>
    /\ UNCHANGED chain

\* What is left of the promise.
TurnsOnly ==
    /\ broken /\ broken'
    /\ \/ UNCHANGED chain
       \/ \E t \in Tasks : t \notin Range(chain) /\ chain' = Append(chain, t)
       \/ chain # <<>> /\ asked = <<>> /\ chain' = Tail(chain)

ExNext == Promised \/ Break \/ TurnsOnly

ExSpec == ExInit /\ [][ExNext]_<<chain, asked, answer, broken>>
=============================================================================
