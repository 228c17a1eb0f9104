------------------------------- MODULE Webhook -------------------------------
(***************************************************************************)
(* server/webhook.py: concurrent requests of POST /webhook, from the rate  *)
(* limit to the signal queue, and the consumer's side of that queue.       *)
(*                                                                         *)
(* A handler runs without interruption from one await that suspends it to  *)
(* the next, so a request is a process with four steps: arrival (rate      *)
(* limit, parse, auth, gate), the duplicate query, the insert of its row,  *)
(* and the answer (the push has ended, the signal is queued).              *)
(*                                                                         *)
(* An alert is its dedup key: symbol, action, strategy and interval are    *)
(* one value.  Requests are numbered by their arrival.  A tick of the clock *)
(* is 1/rps seconds, in which the limiter's bucket gains one token.        *)
(***************************************************************************)
EXTENDS Integers, Sequences, FiniteSets

CONSTANTS
    TradeKeys, ShortKeys,   \* keys of routed alerts; ShortKeys are those of open_short
    InfoKeys,               \* keys of kernel alerts, which are only recorded
    ManualKeys,             \* keys of closes injected from the dashboard
    Window,                 \* DEDUP_WINDOW_SECONDS, in ticks
    Rps,                    \* WEBHOOK_RATE_LIMIT_RPS
    Capacity,               \* maxsize of the queue
    IgnoreShort,            \* IGNORE_SHORT_SIGNALS
    MaxRequests,            \* bound: requests of a behaviour
    MaxTime,                \* bound: ticks of the clock
    MaxToggles,             \* bound: switches of the maintenance gate
    MaxRestarts             \* bound: restarts of the server

\* _store_unsupported knows nothing of the alert but that it was combined.
Unsupported ==
    [symbol |-> "?", action |-> "unsupported", strategy |-> "ldc", interval |-> "none"]
AlertKeys == TradeKeys \cup ShortKeys \cup InfoKeys
Keys == AlertKeys \cup ManualKeys \cup {Unsupported}
Requests == 1 .. MaxRequests
None == 0

\* A combined alert has no key of its own, and no injected close opens a short.
ASSUME KeysAssumption ==
    /\ Unsupported \notin AlertKeys \cup ManualKeys
    /\ ManualKeys \cap ShortKeys = {}
ASSUME BoundsAssumption ==
    /\ Window \in Nat /\ Rps \in Nat \ {0} /\ Capacity \in Nat \ {0}
    /\ MaxRequests \in Nat /\ MaxTime \in Nat /\ MaxToggles \in Nat /\ MaxRestarts \in Nat
    /\ IgnoreShort \in BOOLEAN

VARIABLES
    now,        \* the clock
    accepting,  \* _accepting_signals
    tokens, refilled,   \* the limiter's bucket and the time of its last refill
    step,       \* where each request is
    arrived,    \* when it took a token or started its duplicate query
    job,        \* the row it is about to write
    id,         \* signals.id of the row it wrote
    rows,       \* table signals, by id
    queue,      \* ids put into the queue, ever
    head,       \* how many of them left it
    dropped,    \* ids a full queue refused
    lost,       \* ids whose request ended with the process
    toggles, restarts   \* counters for MaxToggles, MaxRestarts

intake == <<tokens, refilled>>
requests == <<step, arrived, job, id>>
delivery == <<queue, head, dropped, lost>>
environment == <<now, accepting, toggles, restarts>>
vars == <<intake, requests, rows, delivery, environment>>

Statuses == {"accepted", "rejected", "deduped", "informational", "unsupported"}
Rows == [key : Keys, status : Statuses, dupOf : Nat, received : Nat,
         visible : Nat]   \* visible: rows the duplicate query could see

NewRow(k, status, dup, visible) ==
    [key |-> k, status |-> status, dupOf |-> dup, received |-> now, visible |-> visible]

Blank == [key |-> Unsupported, status |-> "unsupported", dupOf |-> None,
          received |-> 0, visible |-> 0]

Init ==
    /\ now = 0 /\ accepting = TRUE /\ toggles = 0 /\ restarts = 0
    /\ tokens = Rps /\ refilled = 0
    /\ step = [r \in Requests |-> "new"] /\ arrived = [r \in Requests |-> 0]
    /\ job = [r \in Requests |-> Blank] /\ id = [r \in Requests |-> None]
    /\ rows = <<>> /\ queue = <<>> /\ head = 0 /\ dropped = {} /\ lost = {}

----------------------------------------------------------------------------
(* Arrival: everything up to the first await that suspends the handler.     *)

Arriving(r) == step[r] = "new" /\ \A q \in Requests : q < r => step[q] # "new"

Becomes(r, s) == step' = [step EXCEPT ![r] = s]

\* Seeded fault: the bucket is refilled without a limit.
UnboundedRefill == tokens + (now - refilled)

Refill == IF tokens + (now - refilled) <= Rps THEN tokens + (now - refilled) ELSE Rps

\* Every request refills the bucket; one that finds a token takes it.
TakesToken(r) ==
    /\ Arriving(r) /\ Refill >= 1
    /\ tokens' = Refill - 1 /\ refilled' = now
    /\ arrived' = [arrived EXCEPT ![r] = now]

RateLimited(r) ==
    /\ Arriving(r) /\ Refill < 1
    /\ tokens' = Refill /\ refilled' = now
    /\ Becomes(r, "refused")
    /\ UNCHANGED <<arrived, job, id, rows, delivery, environment>>

\* A body that does not parse, a wrong secret, or a closed gate: no row.
Refuse(r) ==
    /\ TakesToken(r)
    /\ Becomes(r, "done")
    /\ UNCHANGED <<job, id, rows, delivery, environment>>

\* Combined alerts are recorded before the secret and the gate are looked at.
StoreUnsupported(r) ==
    /\ TakesToken(r)
    /\ job' = [job EXCEPT ![r] = NewRow(Unsupported, "unsupported", None, 0)]
    /\ Becomes(r, "insert")
    /\ UNCHANGED <<id, rows, delivery, environment>>

\* A kernel alert skips the duplicate query, any other alert starts it.
Alert(r, k) ==
    /\ TakesToken(r) /\ accepting
    /\ IF k \in InfoKeys
       THEN /\ job' = [job EXCEPT ![r] = NewRow(k, "informational", None, 0)]
            /\ Becomes(r, "insert")
       ELSE /\ job' = [job EXCEPT ![r].key = k]
            /\ Becomes(r, "dedup")
    /\ UNCHANGED <<id, rows, delivery, environment>>

\* inject_close_signal: neither limit, gate nor duplicate query.
ManualClose(r, k) ==
    /\ Arriving(r)
    /\ job' = [job EXCEPT ![r] = NewRow(k, "accepted", None, Len(rows))]
    /\ Becomes(r, "insert")
    /\ UNCHANGED <<intake, arrived, id, rows, delivery, environment>>

Arrive(r) ==
    \/ RateLimited(r)
    \/ Refuse(r)
    \/ StoreUnsupported(r)
    \/ \E k \in AlertKeys : Alert(r, k)
    \/ \E k \in ManualKeys : ManualClose(r, k)

----------------------------------------------------------------------------
(* The duplicate query.  Its cutoff was computed when it was issued.        *)

\* Seeded fault: a refused duplicate counts as a primary.
RecentOfAnyStatus(k, since) ==
    {i \in DOMAIN rows : /\ rows[i].key = k /\ rows[i].received >= since - Window
                         /\ rows[i].status \in {"accepted", "informational", "deduped"}}

\* Seeded fault: a row received exactly at the cutoff is not found.
RecentAfterCutoff(k, since) ==
    {i \in DOMAIN rows : /\ rows[i].key = k /\ rows[i].received > since - Window
                         /\ rows[i].status \in {"accepted", "informational"}}

Recent(k, since) ==
    {i \in DOMAIN rows : /\ rows[i].key = k /\ rows[i].received >= since - Window
                         /\ rows[i].status \in {"accepted", "informational"}}

Duplicates(r) == IF Window = 0 THEN {} ELSE Recent(job[r].key, arrived[r])

Latest(S) == {i \in S : \A j \in S : rows[j].received <= rows[i].received}

Ignored(k) == k \in ShortKeys /\ IgnoreShort

Dedup(r) ==
    LET k == job[r].key
    IN  /\ step[r] = "dedup"
        /\ Becomes(r, "insert")
        /\ \/ \E i \in Latest(Duplicates(r)) :
                 job' = [job EXCEPT ![r] = NewRow(k, "deduped", i, Len(rows))]
           \/ /\ Duplicates(r) = {}
              /\ job' = [job EXCEPT ![r] = NewRow(k, IF Ignored(k) THEN "rejected"
                                                     ELSE "accepted", None, Len(rows))]
        /\ UNCHANGED <<intake, arrived, id, rows, delivery, environment>>

----------------------------------------------------------------------------
(* The row is written, the push is sent, the signal is queued.              *)

Insert(r) ==
    /\ step[r] = "insert"
    /\ rows' = Append(rows, job[r])
    /\ id' = [id EXCEPT ![r] = Len(rows) + 1]
    /\ Becomes(r, "answer")
    /\ UNCHANGED <<intake, arrived, job, delivery, environment>>

\* The database raises: the request ends with an error and no row.
InsertFails(r) ==
    /\ step[r] = "insert"
    /\ Becomes(r, "done")
    /\ UNCHANGED <<intake, arrived, job, id, rows, delivery, environment>>

\* Seeded fault: the gate is tested again before the signal is queued.
AnswerIfAccepting(r) ==
    /\ step[r] = "answer"
    /\ Becomes(r, "done")
    /\ IF job[r].status # "accepted" \/ ~accepting
       THEN UNCHANGED <<queue, dropped>>
       ELSE IF Len(queue) - head < Capacity
            THEN queue' = Append(queue, id[r]) /\ UNCHANGED dropped
            ELSE dropped' = dropped \cup {id[r]} /\ UNCHANGED queue
    /\ UNCHANGED <<intake, arrived, job, id, rows, head, lost, environment>>

\* Seeded fault: signals wait by the id of their row.
AnswerInIdOrder(r) ==
    LET waiting == SubSeq(queue, head + 1, Len(queue))
        Earlier(i) == i < id[r]
        Later(i) == i > id[r]
    IN  /\ step[r] = "answer"
        /\ Becomes(r, "done")
        /\ IF job[r].status # "accepted" \/ Len(waiting) >= Capacity
           THEN UNCHANGED queue
           ELSE queue' = SubSeq(queue, 1, head) \o SelectSeq(waiting, Earlier)
                            \o <<id[r]>> \o SelectSeq(waiting, Later)
        /\ UNCHANGED <<intake, arrived, job, id, rows, head, lost, dropped, environment>>

\* The push has ended, well or not; put_nowait drops the signal of a full queue.
Answer(r) ==
    /\ step[r] = "answer"
    /\ Becomes(r, "done")
    /\ IF job[r].status # "accepted"
       THEN UNCHANGED <<queue, dropped>>
       ELSE IF Len(queue) - head < Capacity
            THEN queue' = Append(queue, id[r]) /\ UNCHANGED dropped
            ELSE dropped' = dropped \cup {id[r]} /\ UNCHANGED queue
    /\ UNCHANGED <<intake, arrived, job, id, rows, head, lost, environment>>

Handle(r) == Dedup(r) \/ Insert(r) \/ InsertFails(r) \/ Answer(r)

----------------------------------------------------------------------------
(* The rest of the server.                                                  *)

\* Seeded fault: the consumer waits for the gate.
ConsumeIfAccepting ==
    /\ head < Len(queue) /\ accepting
    /\ head' = head + 1
    /\ UNCHANGED <<intake, requests, rows, queue, dropped, lost, environment>>

\* The router takes the next signal, and may reject it.
Consume ==
    /\ head < Len(queue)
    /\ head' = head + 1
    /\ \/ UNCHANGED rows
       \/ rows' = [rows EXCEPT ![queue[head + 1]].status = "rejected"]
    /\ UNCHANGED <<intake, requests, queue, dropped, lost, environment>>

ToggleGate ==
    /\ toggles < MaxToggles
    /\ toggles' = toggles + 1 /\ accepting' = ~accepting
    /\ UNCHANGED <<intake, requests, rows, delivery, now, restarts>>

\* The process starts again: requests and queue were in memory.
ServerRestart ==
    /\ restarts < MaxRestarts
    /\ restarts' = restarts + 1
    /\ tokens' = Rps /\ refilled' = now
    /\ accepting' = TRUE
    /\ step' = [r \in Requests |-> IF step[r] = "new" THEN "new" ELSE "done"]
    /\ head' = Len(queue)
    /\ lost' = lost \cup {queue[n] : n \in head + 1 .. Len(queue)}
                    \cup {id[r] : r \in {q \in Requests : /\ step[q] = "answer"
                                                          /\ job[q].status = "accepted"}}
    /\ UNCHANGED <<arrived, job, id, rows, queue, dropped, now, toggles>>

Tick ==
    /\ now < MaxTime
    /\ now' = now + 1
    /\ UNCHANGED <<intake, requests, rows, delivery, accepting, toggles, restarts>>

Next ==
    \/ \E r \in Requests : Arrive(r) \/ Handle(r)
    \/ Consume
    \/ ToggleGate \/ ServerRestart \/ Tick

\* Handlers and consumer are tasks of the event loop; database calls and pushes
\* (a send to a client times out) end.
Fairness == (\A r \in Requests : WF_vars(Handle(r))) /\ WF_vars(Consume)

Spec == Init /\ [][Next]_vars
FairSpec == Spec /\ Fairness

----------------------------------------------------------------------------
(* Properties.                                                              *)

TypeOK ==
    /\ now \in 0 .. MaxTime /\ accepting \in BOOLEAN
    /\ toggles \in 0 .. MaxToggles /\ restarts \in 0 .. MaxRestarts
    /\ tokens \in 0 .. Rps /\ refilled \in 0 .. now
    /\ step \in [Requests -> {"new", "refused", "dedup", "insert", "answer", "done"}]
    /\ arrived \in [Requests -> 0 .. MaxTime] /\ job \in [Requests -> Rows]
    /\ id \in [Requests -> 0 .. Len(rows)] /\ rows \in Seq(Rows)
    /\ queue \in Seq(DOMAIN rows) /\ head \in 0 .. Len(queue)
    /\ dropped \subseteq DOMAIN rows /\ lost \subseteq DOMAIN rows

\* The limiter: a span of t ticks lets at most Rps + t requests through, the first
\* burst and the idle time before it included.
Passed(from, to) ==
    {r \in Requests : /\ step[r] \notin {"new", "refused"}
                      /\ job[r].key \notin ManualKeys
                      /\ arrived[r] \in from .. to}

RateBounded ==
    restarts = 0 =>
      \A from, to \in 0 .. now : from <= to => Cardinality(Passed(from, to)) <= Rps + (to - from)

\* Rows that were accepted; the router may have rejected them since.
Routed(i) == /\ rows[i].status \in {"accepted", "rejected"}
             /\ ~Ignored(rows[i].key)

\* Request r repeats the alert of q, within the window, and its row is the later one.
Repeats(q, r) ==
    /\ id[q] # None /\ id[q] < id[r]
    /\ job[q].key = job[r].key /\ job[r].key \notin ManualKeys
    /\ Window > 0 /\ arrived[r] - job[q].received <= Window

\* Two alerts of one key are both routed only if neither could see the other: the
\* second looked for duplicates before the first had written its row, or the
\* router had rejected the first.
OnlyOverlappingDuplicates ==
    \A q, r \in Requests :
        Repeats(q, r) /\ Routed(id[q]) /\ Routed(id[r])
            => rows[id[q]].status = "rejected" \/ job[r].visible < id[q]

\* A duplicate names the routed alert it repeats, never another duplicate, so a
\* stream of repeats does not stretch the window.
DuplicatesNamePrimaries ==
    \A r \in Requests :
        LET i == job[r].dupOf
        IN  i # None =>
              /\ rows[i].key = job[r].key /\ Routed(i) /\ rows[i].dupOf = None
              /\ rows[i].received >= arrived[r] - Window
              /\ id[r] # None => i < id[r]

Queued == {queue[n] : n \in DOMAIN queue}
Answering == {id[r] : r \in {q \in Requests : step[q] = "answer"}}

\* An accepted row is queued exactly once, unless its request is still pushing, the
\* queue was full or the process ended; nothing else is queued.
AcceptedAccountedFor ==
    /\ \A n, m \in DOMAIN queue : queue[n] = queue[m] => n = m
    /\ \A i \in Queued : Routed(i) /\ i \notin dropped \cup Answering
    /\ \A i \in DOMAIN rows : Routed(i) => i \in Queued \cup dropped \cup lost \cup Answering

\* The producer's side of the queue: what is accepted is queued once, behind what waits
\* already, in the order the requests answer, and only a full queue or the end of the
\* process loses it.  That a request does answer is SignalsDelivered.
InRequest == {id[r] : r \in {q \in Requests : step[q] = "answer" /\ job[q].status = "accepted"}}

Delivery == INSTANCE SignalQueue WITH
    Ids <- Requests,
    accepted <- {i \in DOMAIN rows : Routed(i)},
    answering <- InRequest,
    queue <- SubSeq(queue, head + 1, Len(queue))

SignalsQueuedOnce == Delivery!Spec

\* Every accepted signal reaches the router, whatever the gate does meanwhile,
\* unless a full queue or the end of the process took it.
SignalsDelivered ==
    \A i \in Requests :
        i \in DOMAIN rows /\ Routed(i)
            ~> i \in dropped \cup lost \/ \E n \in 1 .. head : queue[n] = i
=============================================================================
