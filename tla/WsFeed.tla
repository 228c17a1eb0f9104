-------------------------------- MODULE WsFeed --------------------------------
(***************************************************************************)
(* server/websocket.py: the dashboard feed, with the connection whose      *)
(* status it shows.                                                        *)
(*                                                                         *)
(* A client is registered, its snapshot is read from the database and sent *)
(* with the status of the link, and from then on it lives on broadcasts.   *)
(* A broadcast takes the set of clients when it begins and sends to all of *)
(* them at once; a send to one client ends, or fails within a timeout, and *)
(* sends to one client keep their order.  A client a send to which failed  *)
(* is dropped when the sends to all the others have ended; until then it   *)
(* is sent what comes next.                                                *)
(*                                                                         *)
(* A change of the database is committed first and broadcast afterwards,   *)
(* or, in some places of order_router.py and ibkr.py, never.               *)
(***************************************************************************)
EXTENDS IbkrConnection

CONSTANTS
    Clients,    \* dashboards
    MaxChanges  \* bound: changes of the database

ASSUME ChangesAssumption == MaxChanges \in Nat

Changes == 1 .. MaxChanges

VARIABLES
    changes,    \* changes committed
    due,        \* those whose broadcast has not begun
    silent,     \* those that are not broadcast
    registered, \* ConnectionManager._clients
    step,       \* where the handler of each client is
    outbox,     \* messages being sent to each client
    read,       \* changes the tables showed to the snapshot of each client
    received,   \* changes the client was told of, by snapshot or event
    lagging,    \* clients a send to which has failed
    shown       \* the status of the link the client shows

feedVars == <<changes, due, silent, registered, step, outbox, read, received, lagging, shown>>
vars == <<connVars, feedVars>>

Event(c) == [kind |-> "event", changes |-> {c}, link |-> "none"]
Status(up) == [kind |-> "status", changes |-> {}, link |-> IF up THEN "up" ELSE "down"]
Snapshot(c) ==
    [kind |-> "snapshot", changes |-> read[c], link |-> IF link = "down" THEN "down" ELSE "up"]
Messages ==
    [kind : {"event", "status", "snapshot"}, changes : SUBSET Changes, link : {"none", "up", "down"}]

Init ==
    /\ ConnInit
    /\ changes = 0 /\ due = {} /\ silent = {} /\ registered = {} /\ lagging = {}
    /\ step = [c \in Clients |-> "away"] /\ outbox = [c \in Clients |-> <<>>]
    /\ read = [c \in Clients |-> {}] /\ received = [c \in Clients |-> {}]
    /\ shown = [c \in Clients |-> "none"]

----------------------------------------------------------------------------
(* Broadcasts.                                                              *)

\* Seeded fault: clients that wait for their snapshot are left out.
BroadcastToLive(messages) ==
    outbox' = [c \in Clients |-> IF step[c] = "live" THEN outbox[c] \o messages ELSE outbox[c]]

Broadcast(messages) ==
    outbox' = [c \in Clients |-> IF c \in registered THEN outbox[c] \o messages ELSE outbox[c]]

\* What the connection announces in a step is broadcast by that step.
BroadcastStatus ==
    /\ Broadcast([n \in DOMAIN calls' |-> Status(calls'[n])])
    /\ UNCHANGED <<changes, due, silent, registered, step, read, received, lagging, shown>>

\* on_status returns to the loop when every send has ended.
StatusSent == \A c \in Clients : \A n \in DOMAIN outbox[c] : outbox[c][n].kind # "status"

Connection ==
    /\ ConnNext
    /\ loop = "announcing" /\ loop' \in {"reconciling", "asleep"} => StatusSent
    /\ BroadcastStatus

FeedOnly == /\ calls' = <<>>
            /\ UNCHANGED <<link, account, checked, loop, handlers, raised, tasks>>

Commit ==
    /\ changes < MaxChanges
    /\ changes' = changes + 1 /\ due' = due \cup {changes + 1}
    /\ FeedOnly /\ UNCHANGED <<silent, registered, step, outbox, read, received, lagging, shown>>

\* A cancelled trailing stop or opposite entry, a link between orders, the exit of a
\* part, and what the reconciliation writes.
CommitSilently ==
    /\ changes < MaxChanges
    /\ changes' = changes + 1 /\ silent' = silent \cup {changes + 1}
    /\ FeedOnly /\ UNCHANGED <<due, registered, step, outbox, read, received, lagging, shown>>

BroadcastChange ==
    /\ \E c \in due : due' = due \ {c} /\ Broadcast(<<Event(c)>>)
    /\ FeedOnly /\ UNCHANGED <<changes, silent, registered, step, read, received, lagging, shown>>

----------------------------------------------------------------------------
(* The handler of a client, ws_feed, and the sends to it.                   *)

Register(c) ==
    /\ step[c] = "away"
    /\ step' = [step EXCEPT ![c] = "registered"]
    /\ registered' = registered \cup {c}
    /\ FeedOnly /\ UNCHANGED <<changes, due, silent, outbox, read, received, lagging, shown>>

\* _build_snapshot reads the tables, and the status when that is done.
ReadTables(c) ==
    /\ step[c] = "registered"
    /\ step' = [step EXCEPT ![c] = "read"]
    /\ read' = [read EXCEPT ![c] = 1 .. changes]
    /\ FeedOnly /\ UNCHANGED <<changes, due, silent, registered, outbox, received, lagging, shown>>

SendSnapshot(c) ==
    /\ step[c] = "read"
    /\ step' = [step EXCEPT ![c] = "live"]
    /\ outbox' = [outbox EXCEPT ![c] = Append(@, Snapshot(c))]
    /\ read' = [read EXCEPT ![c] = {}]
    /\ FeedOnly /\ UNCHANGED <<changes, due, silent, registered, received, lagging, shown>>

Sent(c) ==
    /\ outbox[c] # <<>>
    /\ outbox' = [outbox EXCEPT ![c] = Tail(@)]
    /\ LET m == Head(outbox[c])
       IN  /\ received' = [received EXCEPT ![c] = @ \cup m.changes]
           /\ shown' = [shown EXCEPT ![c] = IF m.link = "none" THEN @ ELSE m.link]
    /\ FeedOnly /\ UNCHANGED <<changes, due, silent, registered, step, read, lagging>>

\* A send raises or times out.  send_to drops the client at once, a broadcast when its
\* last send has ended.
Fails(c) ==
    /\ outbox[c] # <<>>
    /\ outbox' = [outbox EXCEPT ![c] = Tail(@)]
    /\ lagging' = lagging \cup {c}
    /\ registered' = IF Head(outbox[c]).kind = "snapshot" THEN registered \ {c} ELSE registered
    /\ FeedOnly /\ UNCHANGED <<changes, due, silent, step, read, received, shown>>

\* The broadcast drops the client and closes its socket, which may fail.
Prune(c) ==
    /\ c \in lagging
    /\ registered' = registered \ {c}
    /\ FeedOnly
    /\ UNCHANGED <<changes, due, silent, step, outbox, read, received, lagging, shown>>

\* What is being sent to a client that has gone fails, and what it showed is gone.
Forget(c) ==
    /\ outbox' = [outbox EXCEPT ![c] = <<>>] /\ lagging' = lagging \ {c}
    /\ read' = [read EXCEPT ![c] = {}] /\ received' = [received EXCEPT ![c] = {}]
    /\ shown' = [shown EXCEPT ![c] = "none"]

\* Seeded fault: a handler ends and its client stays in the set.
EndRegistered(c) ==
    /\ step[c] # "away"
    /\ step' = [step EXCEPT ![c] = "away"]
    /\ Forget(c)
    /\ FeedOnly /\ UNCHANGED <<changes, due, silent, registered>>

\* The handler ends: the client has gone, its socket was closed, or the snapshot could
\* not be built.  The client may connect again.
End(c) ==
    /\ step[c] # "away"
    /\ step' = [step EXCEPT ![c] = "away"]
    /\ Forget(c) /\ registered' = registered \ {c}
    /\ FeedOnly /\ UNCHANGED <<changes, due, silent>>

Next ==
    \/ Connection \/ Commit \/ CommitSilently \/ BroadcastChange
    \/ \E c \in Clients :
          \/ Register(c) \/ ReadTables(c) \/ SendSnapshot(c)
          \/ Sent(c) \/ Fails(c) \/ Prune(c) \/ End(c)

\* The reconnect loop and its announcements are tasks of the event loop, and a send to a
\* client ends within SEND_TIMEOUT_SECONDS.
Fairness ==
    /\ WF_vars(LoopStep /\ Connection) /\ WF_vars(RunTask /\ Connection)
    /\ \A c \in Clients : WF_vars(Sent(c) \/ Fails(c))

Spec == Init /\ [][Next]_vars /\ Fairness

----------------------------------------------------------------------------
(* Properties.                                                              *)

\* The state is well formed.  Only clients whose handler runs are broadcast to, and none
\* of them is left out unless a send to it has failed.
TypeOK ==
    /\ ConnTypeOK
    /\ changes \in 0 .. MaxChanges /\ due \subseteq 1 .. changes /\ silent \subseteq 1 .. changes
    /\ step \in [Clients -> {"away", "registered", "read", "live"}]
    /\ registered \cup lagging = {c \in Clients : step[c] # "away"}
    /\ outbox \in [Clients -> Seq(Messages)]
    /\ \A c \in Clients : step[c] = "away" => outbox[c] = <<>>
    /\ read \in [Clients -> SUBSET Changes] /\ received \in [Clients -> SUBSET Changes]
    /\ shown \in [Clients -> {"none", "up", "down"}]

\* Everything that was sent to the client has arrived.
UpToDate(c) == step[c] = "live" /\ outbox[c] = <<>> /\ c \notin lagging

\* No gap between snapshot and events: a client no send to which has failed, and that
\* has been sent everything, knows of every change but those whose broadcast has not
\* begun and those the code does not broadcast, whenever it connected.
NoChangeMissed ==
    \A c \in Clients : UpToDate(c) => 1 .. changes \ (due \cup silent) \subseteq received[c]

\* The last session ended without a task that would have told: no handler was attached
\* to its end.
EndUnheard == checked = "unwired" /\ handlers["disconnected"] = 0

\* Once the connection is at rest every dashboard that was sent everything shows its
\* status, unless the guardrail announced the end of a session that stayed up, or
\* nobody listened for the end of one.
LinkShown ==
    \A c \in Clients :
        /\ UpToDate(c) /\ loop = "asleep" /\ tasks = <<>>
        /\ checked \notin {"error", "kept"} /\ ~EndUnheard
        => shown[c] = IF link = "down" THEN "down" ELSE "up"
=============================================================================
