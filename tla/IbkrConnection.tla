---------------------------- MODULE IbkrConnection ----------------------------
(***************************************************************************)
(* server/ibkr.py: the reconnect loop, the account guardrail, the wiring   *)
(* of the event handlers and the calls to on_status.                       *)
(*                                                                         *)
(* TWS is external: a session may be refused, belong to another account,   *)
(* or end at any time.  The property connected of the client is            *)
(* link # "down": it is TRUE as soon as the socket is up, before           *)
(* connectAsync has returned and the account is known.  OrderRouter models *)
(* what the reconciliation does; here it is one wait of the loop.  Where   *)
(* ibkr.py catches an exception and goes on, so does the model.            *)
(***************************************************************************)
EXTENDS Integers, Sequences, FiniteSets

CONSTANTS
    Accounts,           \* accounts a TWS session may belong to
    MaxRaised           \* bound: removals of handlers that raise

Expected == "expected"  \* EXPECTED_IBKR_ACCOUNT

\* Events a handler is attached to, in the order of the attachments; the handler of
\* orderStatusEvent, between the two, does nothing.
Events == {"execDetails", "disconnected"}

ASSUME AccountsAssumption == Expected \in Accounts
ASSUME RaisedAssumption == MaxRaised \in Nat

VARIABLES
    link,       \* the socket: "down", "syncing" while connectAsync runs, "up"
    account,    \* the account of the session
    checked,    \* what became of the last session: "no" or one of Verdicts
    loop,       \* where _reconnect_loop is
    handlers,   \* how often the handler of each event is attached to it
    raised,     \* how many removals of it have raised
    tasks,      \* on_status calls that wait in a task of their own, in order
    calls       \* the on_status calls the last step made, in order

connVars == <<link, account, checked, loop, handlers, raised, tasks, calls>>

\* Accepted and wired, accepted but attaching a handler raised, the accounts could
\* not be read, of another account but disconnect() raised.
Verdicts == {"ok", "unwired", "error", "kept"}

LoopStates == {"asleep", "connecting", "announcing", "reconciling", "stopped"}

ConnInit ==
    /\ link = "down" /\ account = Expected /\ checked = "no"
    /\ loop = "connecting"
    /\ handlers = [e \in Events |-> 0] /\ raised = [e \in Events |-> 0]
    /\ tasks = <<>> /\ calls = <<>>

\* Each attached _on_disconnected creates a task that will call on_status(False).
LinkEnds ==
    /\ link' = "down"
    /\ tasks' = tasks \o [n \in 1 .. handlers["disconnected"] |-> FALSE]

----------------------------------------------------------------------------
(* _reconnect_loop.                                                         *)

\* Seeded fault: the loop looks at its own flag, which a lost session leaves set.
WakeUpByFlag ==
    /\ loop = "asleep" /\ checked # "ok" /\ link = "down" /\ tasks = <<>>
    /\ loop' = "connecting" /\ calls' = <<>>
    /\ UNCHANGED <<link, account, checked, handlers, raised, tasks>>

\* The timer: a loop that finds the client connected sleeps on.  Tasks that are
\* ready run before it.
WakeUp ==
    /\ loop = "asleep" /\ link = "down" /\ tasks = <<>>
    /\ loop' = "connecting" /\ calls' = <<>>
    /\ UNCHANGED <<link, account, checked, handlers, raised, tasks>>

SocketUp ==
    /\ loop = "connecting" /\ link = "down"
    /\ link' = "syncing"
    /\ account' \in Accounts
    /\ calls' = <<>> /\ checked' = "no"
    /\ UNCHANGED <<loop, handlers, raised, tasks>>

\* connectAsync raises or times out, with the socket up or not.
ConnectFails ==
    /\ loop = "connecting"
    /\ IF link = "down" THEN UNCHANGED <<link, tasks>> ELSE LinkEnds
    /\ loop' = "announcing" /\ calls' = <<FALSE>> /\ checked' = "no"
    /\ UNCHANGED <<account, handlers, raised>>

\* connectAsync returns.  The guardrail and the wiring do not wait for anything.
Returns == loop = "connecting" /\ link = "syncing" /\ loop' = "announcing"

\* Seeded fault: the handlers are attached without being removed first.
WireAdding(removed, attached) ==
    /\ handlers' = [e \in Events |-> handlers[e] + IF e \in attached THEN 1 ELSE 0]
    /\ UNCHANGED raised

\* Seeded fault: the handlers are removed and not attached again.
WireLater(removed, attached) ==
    /\ handlers' = [e \in Events |-> IF e \in removed THEN 0 ELSE handlers[e]]
    /\ UNCHANGED raised

\* _wire_events: each handler is removed once, unless that raises, then each is attached,
\* unless that, or one attached before it, raises.
Wire(removed, attached) ==
    /\ \/ removed = Events
       \/ Cardinality(Events \ removed) + raised["execDetails"] + raised["disconnected"] <= MaxRaised
    /\ handlers' = [e \in Events |->
                       (IF e \in removed /\ handlers[e] > 0 THEN handlers[e] - 1 ELSE handlers[e])
                       + IF e \in attached THEN 1 ELSE 0]
    /\ raised' = [e \in Events |-> raised[e] + IF e \in removed THEN 0 ELSE 1]

\* The session is accepted and announced, whatever became of its handlers.
Verified ==
    /\ Returns /\ account = Expected
    /\ link' = "up" /\ calls' = <<TRUE>>
    /\ \E removed \in SUBSET Events, attached \in {{}, {"execDetails"}, Events} :
          /\ Wire(removed, attached)
          /\ checked' = IF attached = Events THEN "ok" ELSE "unwired"
    /\ UNCHANGED <<account, tasks>>

\* Seeded fault: a session of another account is announced but not ended.
MismatchIgnored ==
    /\ Returns /\ account # Expected
    /\ link' = "up" /\ calls' = <<FALSE>>
    /\ UNCHANGED <<account, checked, handlers, raised, tasks>>

\* A session of another account is ended.
Mismatch ==
    /\ Returns /\ account # Expected
    /\ LinkEnds
    /\ calls' = <<FALSE>>
    /\ UNCHANGED <<account, checked, handlers, raised>>

\* Ending it raises, which nobody hears of: the session stays up.
MismatchKept ==
    /\ Returns /\ account # Expected
    /\ link' = "up" /\ checked' = "kept"
    /\ calls' = <<FALSE>>
    /\ UNCHANGED <<account, handlers, raised, tasks>>

\* managedAccounts raises: the session is neither verified nor ended.
GuardrailRaises ==
    /\ Returns
    /\ link' = "up" /\ checked' = "error"
    /\ calls' = <<FALSE>>
    /\ UNCHANGED <<account, handlers, raised, tasks>>

\* on_status has returned; a verified session is reconciled next, even one that has
\* ended since.
Announced ==
    /\ loop = "announcing"
    /\ loop' = IF checked \in {"ok", "unwired"} THEN "reconciling" ELSE "asleep"
    /\ calls' = <<>>
    /\ UNCHANGED <<link, account, checked, handlers, raised, tasks>>

Reconciled ==
    /\ loop = "reconciling"
    /\ loop' = "asleep" /\ calls' = <<>>
    /\ UNCHANGED <<link, account, checked, handlers, raised, tasks>>

LoopStep ==
    \/ WakeUp \/ SocketUp \/ ConnectFails
    \/ Verified \/ Mismatch \/ MismatchKept \/ GuardrailRaises
    \/ Announced \/ Reconciled

----------------------------------------------------------------------------
(* The rest of the client.                                                  *)

\* TWS ends the session or the network drops it.
LinkLost ==
    /\ link = "up"
    /\ LinkEnds
    /\ calls' = <<>>
    /\ UNCHANGED <<account, checked, loop, handlers, raised>>

\* A task of _on_disconnected runs.
RunTask ==
    /\ tasks # <<>>
    /\ tasks' = Tail(tasks) /\ calls' = <<Head(tasks)>>
    /\ UNCHANGED <<link, account, checked, loop, handlers, raised>>

Stop ==
    /\ loop # "stopped"
    /\ loop' = "stopped"
    /\ IF link = "down" THEN UNCHANGED <<link, tasks>> ELSE LinkEnds
    /\ calls' = <<>>
    /\ UNCHANGED <<account, checked, handlers, raised>>

ConnNext == LoopStep \/ LinkLost \/ RunTask \/ Stop

----------------------------------------------------------------------------
(* Properties.                                                              *)

ConnTypeOK ==
    /\ link \in {"down", "syncing", "up"} /\ account \in Accounts
    /\ checked \in Verdicts \cup {"no"} /\ loop \in LoopStates
    /\ handlers \in [Events -> Nat] /\ raised \in [Events -> Nat]
    /\ tasks \in Seq(BOOLEAN) /\ calls \in Seq(BOOLEAN)

\* However often the client has reconnected, and even after handlers went missing, an
\* execution reaches the router once, and once more for each removal that ever raised
\* ("Remove first so repeated reconnects don't accumulate duplicate handlers"); and it
\* does reach the router over a session whose wiring did not raise.
ExecutionsHeardOnce ==
    /\ \A e \in Events : handlers[e] <= 1 + raised[e]
    /\ link = "up" /\ checked = "ok" => \A e \in Events : handlers[e] >= 1

\* The loop rests on a session of another account only when the accounts could not be
\* read or the session could not be ended.
RestsOnExpectedAccount ==
    loop = "asleep" /\ link = "up" => account = Expected \/ checked \in {"error", "kept"}

\* The loop never gives up: it keeps trying as long as there is no session.
KeepsTrying == []<>(link # "down" \/ loop \in {"connecting", "stopped"})
=============================================================================
