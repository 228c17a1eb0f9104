----------------------------- MODULE Maintenance -----------------------------
(***************************************************************************)
(* The close sequence of server/maintenance.py against the order router,   *)
(* the fills and the broker.                                               *)
(*                                                                         *)
(* The sequence takes no symbol lock: it is a task of its own that awaits  *)
(* the database and the broker between its steps, so signals and fills are *)
(* handled between any two of them.  Module Scheduler says when it runs;   *)
(* here it may begin at any time.  The gate of the webhook is tested when  *)
(* an alert arrives, and the alert is queued some awaits later.            *)
(***************************************************************************)
EXTENDS OrderRouter

CONSTANT MaxWindows     \* bound: maintenance windows of a behaviour

ASSUME WindowsAssumption == MaxWindows \in Nat

VARIABLES
    stage,      \* where the scheduler's cycle is
    todo,       \* what the last query returned and is not dealt with yet
    stale,      \* the order row _cancel_order has read and is about to write
    exit,       \* the close in progress, at most one: position key, order row, ibkr id
    outcome,    \* what the sequence reported
    accepting,  \* webhook._accepting_signals
    passing,    \* alerts that have passed the gate and are not queued yet
    windows     \* counter for MaxWindows

cycleVars == <<stage, todo, stale, exit, outcome, accepting, passing, windows>>
allVars == <<vars, cycleVars>>

Stages == {"normal", "pre_close", "trails", "trails_done", "positions", "positions_done",
           "entries", "closed", "maintenance"}

\* signal_id of the rows the sequence writes: an informational stub, no alert.
StubSignal == MaxSignals + 1

MInit ==
    /\ Init
    /\ stage = "normal" /\ todo = {} /\ stale = None /\ exit = {}
    /\ outcome = "none" /\ accepting = TRUE /\ passing = 0 /\ windows = 0

----------------------------------------------------------------------------
(* The gate.                                                                *)

\* Seeded fault: the gate stays open before the window begins.
EnterPreCloseAccepting ==
    /\ stage = "normal" /\ windows < MaxWindows
    /\ stage' = "pre_close" /\ windows' = windows + 1
    /\ outcome' = "none"
    /\ UNCHANGED <<vars, todo, stale, exit, accepting, passing>>

EnterPreClose ==
    /\ stage = "normal" /\ windows < MaxWindows
    /\ stage' = "pre_close" /\ windows' = windows + 1
    /\ accepting' = FALSE /\ outcome' = "none"
    /\ UNCHANGED <<vars, todo, stale, exit, passing>>

EnterMaintenance ==
    /\ stage = "closed"
    /\ stage' = "maintenance" /\ accepting' = FALSE
    /\ UNCHANGED <<vars, todo, stale, exit, outcome, passing, windows>>

ExitMaintenance ==
    /\ stage = "maintenance"
    /\ stage' = "normal" /\ accepting' = TRUE
    /\ UNCHANGED <<vars, todo, stale, exit, outcome, passing, windows>>

\* An alert passes the gate, and is persisted, pushed and queued after it.
PassGate ==
    /\ accepting /\ Len(signals) + passing < MaxSignals
    /\ passing' = passing + 1
    /\ UNCHANGED <<vars, stage, todo, stale, exit, outcome, accepting, windows>>

QueuePassed ==
    /\ passing > 0 /\ AcceptSignal
    /\ passing' = passing - 1
    /\ UNCHANGED <<stage, todo, stale, exit, outcome, accepting, windows>>

----------------------------------------------------------------------------
(* Trailing stops and entries are cancelled one after the other.            *)

InFlightIds(role) == {i \in DOMAIN orders : /\ orders[i].role = role
                                            /\ orders[i].status \in InFlight}

Query(from, to, found) ==
    /\ stage = from /\ stage' = to
    /\ todo' = found
    /\ UNCHANGED <<vars, stale, exit, outcome, accepting, passing, windows>>

ReadTrails == Query("pre_close", "trails", InFlightIds("trail_stop"))

\* The broker is asked and the row read again; one that is neither filled nor
\* cancelled by then is about to be written.
CancelOrder(fail) ==
    /\ stage \in {"trails", "entries"} /\ stale = None
    /\ \E i \in todo :
          /\ todo' = todo \ {i}
          /\ IF orders[i].ibkr = None
             THEN UNCHANGED <<broker, stale>>
             ELSE /\ broker' = AskCancel(Book, {i}, connected /\ "cancelSame" \notin fail)
                  /\ stale' = IF orders[i].status \in {"filled", "cancelled"} THEN None ELSE i
    /\ UNCHANGED <<signals, handled, orders, dbVars, linkVars,
                   stage, exit, outcome, accepting, passing, windows>>

\* The commit overwrites whatever the status has become since it was read.
CancelCommit ==
    /\ stale # None
    /\ orders' = [orders EXCEPT ![stale].status = "cancelled"]
    /\ stale' = None
    /\ UNCHANGED <<signals, handled, broker, dbVars, linkVars,
                   stage, todo, exit, outcome, accepting, passing, windows>>

Drained(at, next) ==
    /\ stage = at /\ todo = {} /\ stale = None /\ exit = {}
    /\ stage' = next
    /\ UNCHANGED <<vars, todo, stale, exit, outcome, accepting, passing, windows>>

----------------------------------------------------------------------------
(* Positions are closed one after the other, each with the quantity the     *)
(* query returned.                                                          *)

OpenPositions == {[key |-> k, qty |-> pos[k]] : k \in {p \in PosKeys : pos[p] > 0}}

ReadPositions == Query("trails_done", "positions", OpenPositions)

\* place_market has returned; the row it was called for has no id yet.
PlaceExit(fail) ==
    /\ stage = "positions" /\ exit = {}
    /\ \E p \in todo :
          LET placed == Submit(Book, NewRow(StubSignal, p.key, "exit", p.qty, None),
                               connected /\ "exitSame" \notin fail)
              row == Len(orders) + 1
              ibkr == placed.orders[row].ibkr
          IN  /\ todo' = todo \ {p}
              /\ orders' = [placed.orders EXCEPT ![row].ibkr = None]
              /\ broker' = placed.broker
              /\ exit' = IF ibkr = None THEN {} ELSE {[key |-> p.key, row |-> row, ibkr |-> ibkr]}
    /\ UNCHANGED <<signals, handled, dbVars, linkVars,
                   stage, stale, outcome, accepting, passing, windows>>

RecordExitId ==
    /\ \E e \in exit : /\ orders[e.row].ibkr = None
                      /\ orders' = [orders EXCEPT ![e.row].ibkr = e.ibkr]
    /\ UNCHANGED <<signals, handled, broker, dbVars, linkVars, cycleVars>>

\* Seeded fault: the wait for the position to close is not bounded.
WaitForever ==
    /\ \E e \in exit : orders[e.row].ibkr # None /\ pos[e.key] = 0
    /\ exit' = {}
    /\ UNCHANGED <<vars, stage, todo, stale, outcome, accepting, passing, windows>>

\* The position is flat, or CLOSE_FILL_TIMEOUT_SECONDS have passed.
StopWaiting ==
    /\ \E e \in exit : orders[e.row].ibkr # None
    /\ exit' = {}
    /\ UNCHANGED <<vars, stage, todo, stale, outcome, accepting, passing, windows>>

ReadEntries == Query("positions_done", "entries", InFlightIds("entry"))

\* Seeded fault: complete is reported without looking at the positions again.
VerifyNothing ==
    /\ stage = "entries" /\ todo = {} /\ stale = None
    /\ stage' = "closed" /\ outcome' = "complete"
    /\ UNCHANGED <<vars, todo, stale, exit, accepting, passing, windows>>

\* Positions still open raise maintenance_close_failed, a dashboard alert.
Verify ==
    /\ stage = "entries" /\ todo = {} /\ stale = None
    /\ stage' = "closed"
    /\ outcome' = IF OpenPositions = {} THEN "complete" ELSE "failed"
    /\ UNCHANGED <<vars, todo, stale, exit, accepting, passing, windows>>

CycleStep ==
    \/ ReadTrails \/ Drained("trails", "trails_done")
    \/ ReadPositions \/ Drained("positions", "positions_done")
    \/ ReadEntries \/ Verify
    \/ \E fail \in Failures : CancelOrder(fail) \/ PlaceExit(fail)
    \/ CancelCommit \/ RecordExitId \/ StopWaiting
    \/ EnterMaintenance \/ ExitMaintenance

----------------------------------------------------------------------------
(* The rest of the server.                                                  *)

\* The process restarts: the cycle and the alerts in progress were in memory.
RestartAll ==
    /\ ServerRestart
    /\ stage' = "normal" /\ todo' = {} /\ stale' = None /\ exit' = {}
    /\ accepting' = TRUE /\ passing' = 0
    /\ UNCHANGED <<outcome, windows>>

RouterStep ==
    /\ HandleSignal \/ HandleFill \/ CutShort \/ BrokerStep
       \/ TwsDown \/ TwsUp \/ ReconcileRead \/ ReconcileWrite
    /\ UNCHANGED cycleVars

MNext == EnterPreClose \/ CycleStep \/ PassGate \/ QueuePassed \/ RouterStep \/ RestartAll

\* The scheduler's task, the requests, the consumer and the fill tasks are scheduled by the
\* event loop, and everything they wait for is bounded by a timeout.
MFairness ==
    /\ WF_allVars(CycleStep) /\ WF_allVars(QueuePassed)
    /\ WF_allVars(HandleSignal /\ UNCHANGED cycleVars)
    /\ WF_allVars(HandleFill /\ UNCHANGED cycleVars)

MSpec == MInit /\ [][MNext]_allVars
FairMSpec == MSpec /\ MFairness

----------------------------------------------------------------------------
(* Properties.                                                              *)

MTypeOK ==
    /\ TypeOK
    /\ stage \in Stages /\ outcome \in {"none", "complete", "failed"}
    /\ todo \subseteq (IF stage = "positions" THEN [key : PosKeys, qty : Nat] ELSE DOMAIN orders)
    /\ stale \in 0 .. Len(orders)
    /\ exit \subseteq [key : PosKeys, row : DOMAIN orders, ibkr : DOMAIN broker]
    /\ accepting \in BOOLEAN /\ passing \in 0 .. MaxSignals /\ windows \in 0 .. MaxWindows

\* Orders of the bridge that may still execute and that nobody asked to cancel.
Working(j) == broker[j].live /\ broker[j].cancel = "none"

Flat == /\ \A s \in Symbols : Net(s) = 0
        /\ \A j \in DOMAIN broker : ~Working(j)

\* What the close sequence is for: once it has ended and everything has settled, the
\* broker holds nothing and no order works, or the dashboard was alerted.
AlertOrFlat ==
    stage \in {"closed", "maintenance"} /\ Settled => outcome = "failed" \/ Flat

\* "must close ALL open positions and cancel ALL open orders before the maintenance
\* window begins": a window that begins without an alert finds the database flat, and
\* it stays so.
WindowIsFlat ==
    stage = "maintenance" /\ outcome = "complete" =>
        OpenPositions = {} /\ InFlightIds("entry") = {}

\* Signals are accepted again after every window, whatever the broker does.
SignalsResume == ~accepting ~> accepting
=============================================================================
