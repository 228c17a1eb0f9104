------------------------------ MODULE SignalQueue ------------------------------
(***************************************************************************)
(* What the path from an alert to the order router promises, whoever fills *)
(* the queue and whoever empties it: an accepted signal is queued at most  *)
(* once, signals leave in the order they were queued and each only once,   *)
(* and none is skipped unless the queue is full or the process ends, which *)
(* loses all that was in memory.                                           *)
(*                                                                         *)
(* Webhook implements it as the producer and OrderRouter as the consumer   *)
(* of the asyncio queue main.py creates.                                   *)
(***************************************************************************)
EXTENDS Naturals, Sequences

CONSTANTS
    Ids,        \* ids of accepted signals
    Capacity    \* maxsize of the queue

VARIABLES
    accepted,   \* signals ever accepted
    answering,  \* those the webhook has accepted and not queued yet
    queue       \* those in the queue, the next one first

vars == <<accepted, answering, queue>>

Init == accepted = {} /\ answering = {} /\ queue = <<>>

Accept(i) ==
    /\ i \in Ids \ accepted
    /\ accepted' = accepted \cup {i} /\ answering' = answering \cup {i}
    /\ UNCHANGED queue

\* put_nowait: a full queue drops the signal.
Queue(i) ==
    /\ i \in answering
    /\ answering' = answering \ {i}
    /\ queue' = IF Len(queue) < Capacity THEN Append(queue, i) ELSE queue
    /\ UNCHANGED accepted

\* The two in one step, for a consumer that does not look at the webhook's requests.
AcceptAndQueue(i) ==
    /\ i \in Ids \ accepted /\ Len(queue) < Capacity
    /\ accepted' = accepted \cup {i} /\ queue' = Append(queue, i)
    /\ UNCHANGED answering

Take ==
    /\ queue # <<>>
    /\ queue' = Tail(queue)
    /\ UNCHANGED <<accepted, answering>>

Crash == answering' = {} /\ queue' = <<>> /\ UNCHANGED accepted

Next ==
    \/ \E i \in Ids : Accept(i) \/ Queue(i) \/ AcceptAndQueue(i)
    \/ Take \/ Crash

Spec == Init /\ [][Next]_vars
=============================================================================
