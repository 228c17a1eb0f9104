----------------------------- MODULE OrderRouter -----------------------------
(***************************************************************************)
(* server/order_router.py: the consumer of the signal queue and the fill   *)
(* handler, with the broker connection they depend on (ibkr.py).           *)
(*                                                                         *)
(* Signals of one symbol and fills of that symbol are serialised by        *)
(* _symbol_locks[symbol], held from before the first read to after the     *)
(* last write, so each handler is one action, or, where it is cut short    *)
(* between its commits (CutShort), the part of it that was done.  What     *)
(* stays asynchronous is the broker: orders work, execute in parts and are *)
(* cancelled on its own time, and each execution reaches _on_fill through  *)
(* a task of its own.                                                      *)
(***************************************************************************)
EXTENDS OrderBook, FiniteSetsExt

CONSTANTS
    Qtys,               \* quantities the alerts resolve to
    ExternalQtys,       \* quantities of the orders the bridge has no row for
    MaxPositionSize, MaxOpenPositions,
    DailyLossLimit,     \* TRUE when MAX_DAILY_REALIZED_LOSS is set
    ReplaceMode,        \* PARTIAL_FILL_REPLACEMENT_MODE: "add" or "replace"
    DisableTrail,       \* DISABLE_TRAIL
    IgnoreShort,        \* IGNORE_SHORT_SIGNALS: the webhook accepts no open_short
    Failures,           \* sets of calls that may fail in one handler
    MaxSignals,         \* bound: alerts accepted in a behaviour
    MaxQueued,          \* bound: signals waiting in the queue at a time
    MaxExternal,        \* bound: broker orders the bridge has no row for
    MaxDrops,           \* bound: connection losses and restarts together
    MaxOverstatement    \* bound: excess quantity of a combined execution

\* Calls to the broker; "commit" is any call that cuts a handler short.
Calls == {"cancelSame", "exitSame", "cancelEntry", "cancelOpposite",
          "exitOpposite", "entry", "trail", "commit"}

ASSUME QtysAssumption == Qtys \subseteq Nat \ {0} /\ ExternalQtys \subseteq Nat \ {0}
ASSUME LimitsAssumption ==
    /\ MaxPositionSize \in Nat /\ MaxOpenPositions \in Nat
    /\ MaxSignals \in Nat /\ MaxQueued \in Nat /\ MaxExternal \in Nat
    /\ MaxDrops \in Nat /\ MaxOverstatement \in Nat
ASSUME SettingsAssumption ==
    /\ DailyLossLimit \in BOOLEAN /\ DisableTrail \in BOOLEAN
    /\ IgnoreShort \in BOOLEAN
    /\ ReplaceMode \in {"add", "replace"}
ASSUME FailuresAssumption == Failures \subseteq SUBSET Calls

VARIABLES
    signals,    \* rows of table signals that were accepted, by id
    handled,    \* how many of them left the queue: the queue is the rest
    orders,     \* rows of table orders, by id
    broker,     \* the broker's orders, by ibkr_order_id
    pos,        \* positions.qty by key, 0 when there is no row
    posRows,    \* keys that have a row in table positions
    trades,     \* number of trade_history rows by key
    connected,  \* ibkr.connected
    sync,       \* _reconcile_on_connect: "done", "due" or "read"
    snapshot,   \* the broker's net position per symbol it read
    drops       \* counter for MaxDrops

bookVars == <<orders, broker>>
dbVars == <<pos, posRows, trades>>
linkVars == <<connected, sync, snapshot, drops>>
vars == <<signals, handled, orders, broker, pos, posRows, trades,
          connected, sync, snapshot, drops>>

Book == [orders |-> orders, broker |-> broker]
SetBook(b) == orders' = b.orders /\ broker' = b.broker

Signals == [kind : {"open", "close"}, key : SignalKeys, qty : Nat,
            status : {"accepted", "rejected"}]

Init ==
    /\ signals = <<>> /\ handled = 0
    /\ orders = <<>> /\ broker = <<>>
    /\ pos = [k \in PosKeys |-> 0] /\ posRows = {}
    /\ trades = [k \in PosKeys |-> 0]
    /\ connected = TRUE /\ sync = "done"
    /\ snapshot = [s \in Symbols |-> "flat"] /\ drops = 0

----------------------------------------------------------------------------
(* The queue.                                                               *)

\* The webhook persisted an accepted alert and queued it: an open carries its
\* resolved quantity, a close none.
Accept(kind, k, q) ==
    /\ Len(signals) < MaxSignals /\ Len(signals) - handled < MaxQueued
    /\ signals' = Append(signals, [kind |-> kind, key |-> k, qty |-> q,
                                   status |-> "accepted"])
    /\ UNCHANGED <<handled, bookVars, dbVars, linkVars>>

AcceptSignal ==
    \E k \in SignalKeys :
       \/ /\ k.dir = "short" => ~IgnoreShort
          /\ \E q \in Qtys : Accept("open", k, q)
       \/ Accept("close", k, 0)

\* The consumer takes the next signal; the handlers below say what it does.
Dequeue == handled < Len(signals) /\ handled' = handled + 1
Current == signals[handled + 1]

Reject == signals' = [signals EXCEPT ![handled + 1].status = "rejected"]

\* Seeded fault: an offline consumer leaves the signal in the queue.
KeepQueuedOffline ==
    /\ handled < Len(signals)
    /\ ~connected
    /\ UNCHANGED vars

\* ibkr.connected is tested once, before the signal is dispatched.
RejectOffline ==
    /\ Dequeue
    /\ ~connected
    /\ Reject
    /\ UNCHANGED <<bookVars, dbVars, linkVars>>

----------------------------------------------------------------------------
(* The close of a position: its newest active trail is cancelled, then a    *)
(* market order for the whole quantity.                                     *)

\* Seeded fault: the trail is left working.
PlaceCloseKeepingTrail(b, sig, k, cancelOk, exitOk) ==
    Submit(b, NewRow(sig, k, "exit", pos[k], None), exitOk)

PlaceClose(b, sig, k, cancelOk, exitOk) ==
    Submit(CancelRows(b, Newest(ActiveTrails(b, k)), None, cancelOk),
           NewRow(sig, k, "exit", pos[k], None), exitOk)

CloseNothing ==
    /\ Dequeue
    /\ connected /\ Current.kind = "close"
    /\ pos[PosKey(Current.key)] = 0
    /\ UNCHANGED <<signals, bookVars, dbVars, linkVars>>

CloseSignal(fail) ==
    /\ Dequeue
    /\ connected /\ Current.kind = "close"
    /\ pos[PosKey(Current.key)] > 0
    /\ SetBook(PlaceClose(Book, handled + 1, PosKey(Current.key),
                          "cancelSame" \notin fail, "exitSame" \notin fail))
    /\ UNCHANGED <<signals, dbVars, linkVars>>

----------------------------------------------------------------------------
(* An open while an entry of the same key is in flight replaces it.         *)

\* The part that filled is sold again, in mode replace.
Unwound(b, sig, o, fail) ==
    IF o.fillQty > 0 /\ ReplaceMode = "replace"
    THEN Submit(b, NewRow(sig, o.key, "exit", o.fillQty, None), "exitSame" \notin fail)
    ELSE b

Replacement(b, sig, old, qty, fail) ==
    LET o == b.orders[old]
        cancelled == CancelRows(b, {old}, sig, "cancelEntry" \notin fail)
    IN  Submit(Unwound(cancelled, sig, o, fail),
               NewRow(sig, o.key, "entry", qty, None), "entry" \notin fail)

ReplaceEntry(fail) ==
    /\ Dequeue
    /\ connected /\ Current.kind = "open"
    /\ \E old \in Newest(InFlightEntries(Book, Current.key)) :
          SetBook(Replacement(Book, handled + 1, old, Current.qty, fail))
    /\ UNCHANGED <<signals, dbVars, linkVars>>

----------------------------------------------------------------------------
(* An open otherwise: close what is open in the same direction, cancel what *)
(* is in flight and close what is open in the other, then enter.            *)

OpenCount == Cardinality({k \in PosKeys : pos[k] > 0})

\* _risk_checks, without the static refusals (allowed symbols, live trading).
\* lossHit is the sum of today's realised losses having reached the limit.
RiskRefuses(k, qty, flipping, reEntering, lossHit) ==
    \/ (IF reEntering THEN qty ELSE pos[k] + qty) > MaxPositionSize
    \/ pos[k] = 0 /\ ~flipping /\ OpenCount >= MaxOpenPositions
    \/ lossHit

LossMayBeHit == IF DailyLossLimit /\ \E k \in PosKeys : trades[k] > 0
                THEN BOOLEAN ELSE {FALSE}

ClosedSame(b, sig, k, fail) ==
    LET same == PosKey(k)
    IN  IF pos[same] > 0
        THEN PlaceClose(b, sig, same, "cancelSame" \notin fail, "exitSame" \notin fail)
        ELSE b

CancelledOpposite(b, sig, k, fail) ==
    CancelRows(b, Newest(InFlightEntries(b, OppositeKey(k))), sig, "cancelEntry" \notin fail)

ClearedWay(b, sig, k, fail) ==
    LET opp == PosKey(OppositeKey(k))
        cancelled == CancelledOpposite(ClosedSame(b, sig, k, fail), sig, k, fail)
    IN  IF pos[opp] > 0
        THEN PlaceClose(cancelled, sig, opp, "cancelOpposite" \notin fail,
                        "exitOpposite" \notin fail)
        ELSE cancelled

OpenRefused(k, lossHit) ==
    RiskRefuses(PosKey(k), Current.qty, pos[PosKey(OppositeKey(k))] > 0, pos[PosKey(k)] > 0,
                lossHit)

\* _place_entry.
Entered(b, k, ok) == Submit(b, NewRow(handled + 1, k, "entry", Current.qty, None), ok)

OpenSignal(fail) ==
    LET k == Current.key
        cleared == ClearedWay(Book, handled + 1, k, fail)
    IN  /\ Dequeue
        /\ connected /\ Current.kind = "open"
        /\ InFlightEntries(Book, k) = {}
        /\ \E lossHit \in LossMayBeHit :
              \/ /\ OpenRefused(k, lossHit)
                 /\ SetBook(cleared)
                 /\ Reject
              \/ /\ ~OpenRefused(k, lossHit)
                 /\ SetBook(Entered(cleared, k, "entry" \notin fail))
                 /\ UNCHANGED signals
        /\ UNCHANGED <<dbVars, linkVars>>

HandleSignal ==
    \/ RejectOffline
    \/ CloseNothing
    \/ \E fail \in Failures : \/ CloseSignal(fail)
                              \/ ReplaceEntry(fail)
                              \/ OpenSignal(fail)

----------------------------------------------------------------------------
(* Fills.  Report(i, q, x): the next execution report for row i, of q       *)
(* units; the entry of a flip may be reported x units too large, when the   *)
(* broker combines the close and the open into the execution that fills it. *)

\* The row found for a report is the first one with its ibkr_order_id: the close
\* sequence of maintenance.py may give one id to two rows.
FirstRow(i) == \A h \in DOMAIN orders : orders[h].ibkr = orders[i].ibkr => i <= h

ReportOf(i, q, x) ==
    LET o == orders[i]
    IN  /\ o.ibkr # None /\ FirstRow(i)
        /\ q \in Chunks(broker[o.ibkr].pending)
        /\ x > 0 => o.role = "entry" /\ q = Remaining(o)

Taken(i, q) == TakeReport(broker, orders[i].ibkr, q)

\* Nothing left to fill on the row: the report is dropped.
FillIgnored(i, q, x) ==
    /\ ReportOf(i, q, x)
    /\ CappedFill(orders[i], q + x) = 0
    /\ broker' = Taken(i, q)
    /\ UNCHANGED <<signals, handled, orders, dbVars, linkVars>>

\* A position is looked up only for a row that has an interval.
MatchesPosition(o) == o.key.interval # NoInterval /\ o.key \in posRows

\* A part of an entry, or a close whose position row is not found.
FillRecordedOnly(i, q, x) ==
    LET o == orders[i]
        n == CappedFill(o, q + x)
    IN  /\ ReportOf(i, q, x)
        /\ n > 0
        /\ IF o.role = "entry" THEN AfterFill(o, n).status # "filled"
                               ELSE ~MatchesPosition(o)
        /\ orders' = [orders EXCEPT ![i] = AfterFill(o, n)]
        /\ broker' = Taken(i, q)
        /\ UNCHANGED <<signals, handled, dbVars, linkVars>>

\* The entry is complete: the position opens, re-opens or grows, in one transaction.
EntryRecorded(i, q, x) ==
    LET o == orders[i]
        n == CappedFill(o, q + x)
        filled == AfterFill(o, n)
        k == PosKey(o.key)
    IN  /\ ReportOf(i, q, x)
        /\ n > 0 /\ o.role = "entry" /\ filled.status = "filled"
        /\ MatchesPosition(o) \/ k \notin posRows
        /\ pos' = [pos EXCEPT ![k] = @ + filled.fillQty]
        /\ posRows' = posRows \cup {k}
        /\ UNCHANGED <<signals, handled, trades, linkVars>>

FilledBook(i, q, x) ==
    [orders |-> [orders EXCEPT ![i] = AfterFill(orders[i], CappedFill(orders[i], q + x))],
     broker |-> Taken(i, q)]

\* _place_trail_after_entry.
WithStop(i, q, x, ok) ==
    LET filled == AfterFill(orders[i], CappedFill(orders[i], q + x))
    IN  Submit(FilledBook(i, q, x),
               NewRow(orders[i].signal, orders[i].key, "trail_stop", filled.fillQty, i), ok)

\* The trailing stop is placed, and recorded, after that.
EntryFilled(i, q, x, trailOk) ==
    /\ EntryRecorded(i, q, x)
    /\ SetBook(IF DisableTrail THEN FilledBook(i, q, x)
               ELSE WithStop(i, q, x, connected /\ trailOk))

\* An entry without an interval finds no position row and inserts a second one
\* for the label "unknown": the unique constraint raises and the transaction,
\* fill included, is rolled back.
FillLostToDuplicateRow(i, q, x) ==
    LET o == orders[i]
        n == CappedFill(o, q + x)
    IN  /\ ReportOf(i, q, x)
        /\ n > 0 /\ o.role = "entry" /\ AfterFill(o, n).status = "filled"
        /\ ~MatchesPosition(o) /\ PosKey(o.key) \in posRows
        /\ broker' = Taken(i, q)
        /\ UNCHANGED <<signals, handled, orders, dbVars, linkVars>>

\* Seeded fault: a position may go negative.
ReducedBelowZero(p, n) == p - n

Reduced(p, n) == p - Lesser(p, n)

\* An exit or trailing stop: the position shrinks by the row's whole filled
\* quantity, and a trade is written whenever it is then flat.
CloseFilled(i, q, x) ==
    LET o == orders[i]
        filled == AfterFill(o, CappedFill(o, q + x))
        left == Reduced(pos[o.key], filled.fillQty)
    IN  /\ ReportOf(i, q, x)
        /\ CappedFill(o, q + x) > 0 /\ o.role # "entry" /\ MatchesPosition(o)
        /\ orders' = [orders EXCEPT ![i] = filled]
        /\ pos' = [pos EXCEPT ![o.key] = left]
        /\ trades' = [trades EXCEPT ![o.key] = IF left = 0 THEN @ + 1 ELSE @]
        /\ broker' = Taken(i, q)
        /\ UNCHANGED <<signals, handled, posRows, linkVars>>

KnownFill ==
    \E i \in DOMAIN orders :
      orders[i].ibkr # None /\
      \E q \in Chunks(broker[orders[i].ibkr].pending), x \in 0 .. MaxOverstatement :
        \/ FillIgnored(i, q, x)
        \/ FillRecordedOnly(i, q, x)
        \/ \E trailOk \in {"trail" \notin fail : fail \in Failures} : EntryFilled(i, q, x, trailOk)
        \/ FillLostToDuplicateRow(i, q, x)
        \/ CloseFilled(i, q, x)

\* Seeded fault: only rows still in flight are matched with a fill.
HasInFlightRow(j) == \E i \in DOMAIN orders : /\ orders[i].ibkr = j
                                              /\ orders[i].status \in InFlight

HasRow(j) == \E i \in DOMAIN orders : orders[i].ibkr = j

\* Seeded fault: an orphan fill is taken only when it closes something.
OrphanFillOfPosition(j, q) ==
    LET open == {k \in PosKeys : k.symbol = broker[j].symbol /\ pos[k] > 0}
    IN  /\ ~HasRow(j)
        /\ q \in Chunks(broker[j].pending)
        /\ broker' = TakeReport(broker, j, q)
        /\ \E k \in open : pos' = [pos EXCEPT ![k] = Reduced(@, q)]
        /\ UNCHANGED <<signals, handled, orders, posRows, trades, linkVars>>

\* A fill of an order with no row: a filled trailing-stop row is made up for it
\* and some open position of the symbol, whatever its direction, shrinks.
OrphanFill(j, q) ==
    LET b == broker[j]
        made == [NewRow(None, [symbol |-> b.symbol,
                               dir |-> IF b.side = "SELL" THEN "long" ELSE "short",
                               interval |-> NoInterval], "trail_stop", q, None)
                 EXCEPT !.ibkr = j, !.fillQty = q, !.status = "filled"]
        open == {k \in PosKeys : k.symbol = b.symbol /\ pos[k] > 0}
    IN  /\ ~HasRow(j)
        /\ q \in Chunks(b.pending)
        /\ broker' = TakeReport(broker, j, q)
        /\ orders' = Append(orders, made)
        /\ \/ open = {} /\ UNCHANGED pos
           \/ \E k \in open : pos' = [pos EXCEPT ![k] = Reduced(@, q)]
        /\ UNCHANGED <<signals, handled, posRows, trades, linkVars>>

UnknownFill == \E j \in DOMAIN broker : \E q \in Chunks(broker[j].pending) : OrphanFill(j, q)

HandleFill == KnownFill \/ UnknownFill

----------------------------------------------------------------------------
(* Handlers cut short: an exception ends one, which the consumer and the    *)
(* fill task survive, or the process dies, and ServerRestart follows.  What *)
(* was committed stays, and so does what the broker was asked before it was *)
(* recorded: an order that has no row, a cancellation no row shows.         *)

\* A step of a handler from b to c stops before it, or before its commit.
Unrecorded(b, c) == {b, [b EXCEPT !.broker = c.broker]}

CloseCuts(b, k, cancelOk, exitOk) ==
    LET freed == CancelRows(b, Newest(ActiveTrails(b, k)), None, cancelOk)
    IN  IF pos[k] = 0 THEN {b}
        ELSE Unrecorded(b, freed)
             \cup Unrecorded(freed, PlaceClose(b, handled + 1, k, cancelOk, exitOk))

ReplaceCuts(b, old, fail) ==
    LET cancelled == CancelRows(b, {old}, handled + 1, "cancelEntry" \notin fail)
        unwound == Unwound(cancelled, handled + 1, b.orders[old], fail)
    IN  Unrecorded(b, cancelled) \cup Unrecorded(cancelled, unwound)
        \cup Unrecorded(unwound, Replacement(b, handled + 1, old, Current.qty, fail))

OpenCuts(b, k, fail) ==
    LET closed == ClosedSame(b, handled + 1, k, fail)
        cancelled == CancelledOpposite(closed, handled + 1, k, fail)
        cleared == ClearedWay(b, handled + 1, k, fail)
    IN  CloseCuts(b, PosKey(k), "cancelSame" \notin fail, "exitSame" \notin fail)
        \cup Unrecorded(closed, cancelled)
        \cup CloseCuts(cancelled, PosKey(OppositeKey(k)),
                       "cancelOpposite" \notin fail, "exitOpposite" \notin fail)
        \cup {cleared}
        \cup {c \in Unrecorded(cleared, Entered(cleared, k, "entry" \notin fail)) :
                  \E lossHit \in LossMayBeHit : ~OpenRefused(k, lossHit)}

SignalCuts(fail) ==
    LET k == Current.key
        replaced == Newest(InFlightEntries(Book, k))
    IN  IF ~connected THEN {Book}
        ELSE IF Current.kind = "close"
        THEN CloseCuts(Book, PosKey(k), "cancelSame" \notin fail, "exitSame" \notin fail)
        ELSE IF replaced = {} THEN OpenCuts(Book, k, fail)
        ELSE UNION {ReplaceCuts(Book, old, fail) : old \in replaced}

SignalCut(fail) ==
    /\ Dequeue
    /\ \E b \in SignalCuts(fail) : SetBook(b)
    /\ UNCHANGED <<signals, dbVars, linkVars>>

\* The filled entry and its position are committed, the row of its stop is not.
StopCut(i, q, x) ==
    /\ ~DisableTrail
    /\ EntryRecorded(i, q, x)
    /\ \E b \in Unrecorded(FilledBook(i, q, x), WithStop(i, q, x, connected)) : SetBook(b)

CutShort ==
    \E fail \in Failures :
        /\ "commit" \in fail
        /\ \/ SignalCut(fail)
           \/ \E i \in DOMAIN orders :
                 orders[i].ibkr # None /\
                 \E q \in Chunks(broker[orders[i].ibkr].pending), x \in 0 .. MaxOverstatement :
                    StopCut(i, q, x)

----------------------------------------------------------------------------
(* The broker (external).                                                   *)

Execute(j, q) ==
    LET b == broker[j]
    IN  /\ b.live
        /\ q \in Chunks(b.qty - b.executed)
        /\ broker' = [broker EXCEPT ![j].executed = @ + q,
                                    ![j].pending = IF connected THEN @ + q ELSE @,
                                    ![j].lost = IF connected THEN @ ELSE @ + q,
                                    ![j].live = b.executed + q < b.qty]
        /\ UNCHANGED <<signals, handled, orders, dbVars, linkVars>>

\* A cancellation that was asked for takes effect; executions may come first.
ConfirmCancel(j) ==
    /\ broker[j].live /\ broker[j].cancel = "asked"
    /\ broker' = [broker EXCEPT ![j].live = FALSE]
    /\ UNCHANGED <<signals, handled, orders, dbVars, linkVars>>

IsExternal(j) == ~\E i \in DOMAIN orders : orders[i].ibkr = j /\ orders[i].signal # None

\* An order of this client id with no row: one placed before the database was
\* cleared, or by hand.
ExternalOrder ==
    /\ connected
    /\ Cardinality({j \in DOMAIN broker : IsExternal(j)}) < MaxExternal
    /\ \E s \in Symbols, side \in {"BUY", "SELL"}, q \in ExternalQtys :
          broker' = Append(broker, WorkingOrder(s, side, q))
    /\ UNCHANGED <<signals, handled, orders, dbVars, linkVars>>

BrokerStep ==
    \/ \E j \in DOMAIN broker : \/ \E q \in 1 .. broker[j].qty : Execute(j, q)
                                \/ ConfirmCancel(j)
    \/ ExternalOrder

----------------------------------------------------------------------------
(* The connection.  Executions while it is down are never reported: the     *)
(* callbacks are wired once connectAsync has returned.                      *)

TwsDown ==
    /\ connected /\ drops < MaxDrops
    /\ connected' = FALSE /\ drops' = drops + 1
    /\ sync' = IF sync = "due" THEN "done" ELSE sync
    /\ UNCHANGED <<signals, handled, bookVars, dbVars, snapshot>>

\* Seeded fault: the rows that are still accepted, handled ones too, are queued again.
RestartRequeuing ==
    /\ drops < MaxDrops
    /\ drops' = drops + 1
    /\ handled' = 0
    /\ broker' = [j \in DOMAIN broker |->
                    [broker[j] EXCEPT !.lost = @ + broker[j].pending, !.pending = 0]]
    /\ connected' = FALSE /\ sync' = "done"
    /\ UNCHANGED <<signals, orders, dbVars, snapshot>>

\* The process restarts: the queue and the fill tasks were in memory.  In the middle of
\* a handler that is CutShort, then this.
ServerRestart ==
    /\ drops < MaxDrops
    /\ drops' = drops + 1
    /\ handled' = Len(signals)
    /\ broker' = [j \in DOMAIN broker |->
                    [broker[j] EXCEPT !.lost = @ + broker[j].pending, !.pending = 0]]
    /\ connected' = FALSE /\ sync' = "done"
    /\ UNCHANGED <<signals, orders, dbVars, snapshot>>

TwsUp ==
    /\ ~connected /\ sync # "read"
    /\ connected' = TRUE /\ sync' = "due"
    /\ UNCHANGED <<signals, handled, bookVars, dbVars, snapshot, drops>>

Signed(b) == IF b.side = "BUY" THEN b.executed ELSE -b.executed

Net(s) == LET signed(j) == Signed(broker[j])
          IN  MapThenSumSet(signed, {j \in DOMAIN broker : broker[j].symbol = s})

NetSide(s) == CASE Net(s) > 0 -> "long"
                [] Net(s) < 0 -> "short"
                [] OTHER -> "flat"

\* reqPositionsAsync answers, or times out and the reconciliation is given up.
ReconcileRead ==
    /\ sync = "due"
    /\ \/ sync' = "read" /\ snapshot' = [s \in Symbols |-> NetSide(s)]
       \/ sync' = "done" /\ UNCHANGED snapshot
    /\ UNCHANGED <<signals, handled, bookVars, dbVars, connected, drops>>

\* Positions the broker does not hold on that side are zeroed.  No symbol lock
\* is taken, and no order row is touched.
ReconcileWrite ==
    /\ sync = "read"
    /\ sync' = "done"
    /\ pos' = [k \in PosKeys |-> IF snapshot[k.symbol] = k.dir THEN pos[k] ELSE 0]
    /\ UNCHANGED <<signals, handled, bookVars, posRows, trades, connected, snapshot, drops>>

LinkStep == TwsDown \/ ServerRestart \/ TwsUp \/ ReconcileRead \/ ReconcileWrite

Next == AcceptSignal \/ HandleSignal \/ HandleFill \/ CutShort \/ BrokerStep \/ LinkStep

Spec == Init /\ [][Next]_vars

----------------------------------------------------------------------------
(* Properties.                                                              *)

TypeOK ==
    /\ signals \in Seq(Signals)
    /\ handled \in 0 .. Len(signals)
    /\ orders \in Seq(OrderRows) /\ broker \in Seq(BrokerOrders)
    /\ pos \in [PosKeys -> Nat] /\ posRows \subseteq PosKeys
    /\ trades \in [PosKeys -> Nat]
    /\ connected \in BOOLEAN /\ sync \in {"done", "due", "read"}
    /\ snapshot \in [Symbols -> {"long", "short", "flat"}]
    /\ drops \in Nat

\* No execution disappears between the broker and the database: what the broker
\* executed for a row is recorded on it, still in a fill task, or was executed
\* while the bridge could not hear of it ("Never silently discard a fill").
\* Rows without an interval are left to EveryFillRecorded.
RowConserved(i) ==
    LET o == orders[i]
        b == broker[o.ibkr]
    IN  o.ibkr # None => o.fillQty + b.pending + b.lost = b.executed

FillsConserved ==
    \A i \in DOMAIN orders : orders[i].key.interval # NoInterval => RowConserved(i)

\* The same for every row, those the alerts gave no interval included: what
\* order_router.py promises ("Every fill is persisted").
EveryFillRecorded == \A i \in DOMAIN orders : orders[i].signal # None => RowConserved(i)

\* Rule 5: an entry that is not the newest of its key and can still fill has been
\* replaced; late fills bring cancelled rows back in flight, never unreplaced ones.
OnlyNewestEntryIsLive ==
    \A i, j \in DOMAIN orders :
        /\ i < j
        /\ orders[i].role = "entry" /\ orders[j].role = "entry"
        /\ orders[i].key = orders[j].key
        /\ orders[i].status \in InFlight
        => orders[i].replacedBy # None

IsTrailOf(t, e) == orders[t].role = "trail_stop" /\ orders[t].parent = e

\* No position is stopped twice or for too much: a trailing stop row belongs to a
\* completely filled entry, has its key and quantity, and is the only one it has, however
\* the executions were split, capped, reported late or their handlers cut short.  A row
\* in error stands for a stop that could not be placed.
TrailsMatchEntries ==
    \A e \in DOMAIN orders :
        /\ \A t \in DOMAIN orders : IsTrailOf(t, e) =>
              /\ orders[e].role = "entry" /\ orders[e].status = "filled"
              /\ orders[t].key = orders[e].key /\ orders[t].qty = orders[e].qty
        /\ \A t, u \in DOMAIN orders : IsTrailOf(t, e) /\ IsTrailOf(u, e) => t = u

\* The queue "preserves signal ordering": orders are placed in the order in which their
\* signals were accepted, and no signal enters twice, while others wait behind it, after a
\* handler that was cut short, a lost connection or a restart.  A stop carries the signal of
\* its entry, whenever that fills.
OrdersFollowSignals ==
    \A i, j \in DOMAIN orders :
        /\ i < j
        /\ orders[i].role # "trail_stop" /\ orders[j].role # "trail_stop"
        => /\ orders[i].signal <= orders[j].signal
           /\ orders[i].role = "entry" /\ orders[j].role = "entry"
              => orders[i].signal # orders[j].signal

\* "For any entry order in DB that is filled but has no trail_order_id: re-place the
\* trailing stop": after a reconciliation that found its position at the broker every
\* filled entry has the row of its stop.
StopsRestored ==
    [][ReconcileWrite =>
        \A e \in DOMAIN orders :
            LET o == orders[e]
            IN  /\ o.role = "entry" /\ o.status = "filled"
                /\ pos'[PosKey(o.key)] > 0
                => \E t \in DOMAIN orders : IsTrailOf(t, e)]_vars

\* An order with a row that still works at the broker, and that nobody tried to cancel, is
\* in flight in the database, where the next handler finds it.  Nothing is said of an order
\* whose row was not committed, nor of one whose cancellation failed: its row is cancelled.
WorkingOrdersTracked ==
    \A i \in DOMAIN orders :
        LET o == orders[i]
        IN  /\ o.ibkr # None /\ o.signal # None
            /\ broker[o.ibkr].live /\ broker[o.ibkr].cancel = "none"
            => o.status \in InFlight

\* What a step may do to an order row: rows are never deleted, filled and refused
\* ones never change, fills only accumulate, and a cancelled row comes back only
\* by a fill that was on its way.
RowStep(o, p) ==
    /\ p.signal = o.signal /\ p.qty = o.qty /\ p.key = o.key
    /\ p.role = o.role /\ p.ibkr = o.ibkr
    /\ p.fillQty \in o.fillQty .. o.qty
    /\ o.status \in {"filled", "error"} => p = o
    /\ o.status = "cancelled" /\ p.status # "cancelled" => p.fillQty > o.fillQty
    /\ p.status = "filled" <=> p.fillQty = p.qty

OrderLifecycle ==
    [][/\ Len(orders') >= Len(orders)
       /\ \A i \in DOMAIN orders : RowStep(orders[i], orders'[i])]_vars

\* A flat position is closed once: trades of a key never outnumber the entries
\* that opened it.
OneTradePerEntry ==
    \A k \in PosKeys :
        trades[k] <= Cardinality({i \in DOMAIN orders :
                        /\ orders[i].role = "entry" /\ orders[i].status = "filled"
                        /\ PosKey(orders[i].key) = k})

\* Nothing is on its way: every report is processed, every market order done,
\* every cancellation decided.
Settled ==
    /\ \A j \in DOMAIN broker :
          broker[j].pending = 0 /\ (broker[j].live => broker[j].cancel = "none")
    /\ \A i \in DOMAIN orders :
          orders[i].ibkr # None /\ orders[i].role # "trail_stop"
              => ~broker[orders[i].ibkr].live

Held(s) == LET held(k) == IF k.dir = "long" THEN pos[k] ELSE -pos[k]
           IN  MapThenSumSet(held, {k \in PosKeys : k.symbol = s})

\* "keeps the positions table in sync": once everything has settled the database
\* holds, symbol by symbol, what the broker holds.
PositionsInSync == Settled => \A s \in Symbols : Held(s) = Net(s)

\* The consumer's side of the queue: signals leave in order and once each, none of those
\* that wait is passed over, and a restart, which loses them all, brings none back.
Waiting == [n \in 1 .. Len(signals) - handled |-> handled + n]

Delivery == INSTANCE SignalQueue WITH
    Ids <- 1 .. MaxSignals, Capacity <- MaxQueued,
    accepted <- DOMAIN signals, answering <- {}, queue <- Waiting

SignalsTakenInOrder == Delivery!Spec

\* Every accepted signal leaves the queue, offline or not, also after handlers that raised.
SignalsConsumed == \A n \in 1 .. MaxSignals : Len(signals) >= n ~> handled >= n

\* Every report that reached the bridge finds a branch that takes it, those of orders with
\* no row included.  The symbol lock, which each waits for, is taken to be granted.
FillsProcessed == []<>(\A j \in DOMAIN broker : broker[j].pending = 0)
=============================================================================
