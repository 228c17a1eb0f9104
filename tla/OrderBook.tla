------------------------------ MODULE OrderBook ------------------------------
(***************************************************************************)
(* The order rows of the bridge's database and the broker's side of the    *)
(* same orders, as one value: a "book" with two sequences.                 *)
(*                                                                         *)
(*   book.orders[i]  the row of table orders with id i (models.py Order)   *)
(*   book.broker[j]  the order the broker knows under ibkr_order_id j      *)
(*                                                                         *)
(* Every operator takes a book and returns the next one, so that a handler *)
(* that places and cancels several orders is the composition of its calls. *)
(* Prices, timestamps and messages are left out: no property depends on    *)
(* them.  The broker is external: it is modelled from the calls ibkr.py    *)
(* makes and the execution callbacks it receives.                          *)
(***************************************************************************)
EXTENDS Integers, Sequences, FiniteSets

CONSTANTS
    Symbols,     \* ticker symbols the alerts name (as normalised by the parser)
    Intervals,   \* bar intervals the alerts carry; NoInterval for an alert without one
    MinLot       \* no execution is smaller, except one that completes its order

NoInterval == "none"         \* orders.interval IS NULL
UnknownInterval == "unknown" \* the label positions.interval gets instead of NULL

ASSUME IntervalsAssumption == UnknownInterval \notin Intervals
ASSUME MinLotAssumption == MinLot \in Nat \ {0}

None == 0   \* a NULL column: ids start at 1

Directions == {"long", "short"}
Opposite(d) == IF d = "long" THEN "short" ELSE "long"

PosInterval(t) == IF t = NoInterval THEN UnknownInterval ELSE t

SignalKeys == [symbol : Symbols, dir : Directions, interval : Intervals]

\* An order row carries the interval of its alert, possibly none; a position row
\* never has a NULL interval.
OrderKeys == [symbol : Symbols, dir : Directions,
              interval : Intervals \cup {NoInterval, UnknownInterval}]
PosKeys == [symbol : Symbols, dir : Directions,
            interval : {PosInterval(t) : t \in Intervals}]
PosKey(k) == [k EXCEPT !.interval = PosInterval(@)]
OppositeKey(k) == [k EXCEPT !.dir = Opposite(@)]

Roles == {"entry", "exit", "trail_stop"}
Statuses == {"submitted", "partially_filled", "filled", "cancelled", "error"}
InFlight == {"submitted", "partially_filled"}

OrderRows == [signal : Nat, key : OrderKeys, role : Roles, qty : Nat \ {0},
              fillQty : Nat, status : Statuses, ibkr : Nat, parent : Nat,
              replacedBy : Nat]

\* executed = recorded by the bridge + on its way to it (pending) + never
\* reported because the bridge was not connected (lost).
BrokerOrders == [symbol : Symbols, side : {"BUY", "SELL"}, qty : Nat \ {0},
                 executed : Nat, pending : Nat, lost : Nat,
                 cancel : {"none", "asked", "failed"}, live : BOOLEAN]

Books == [orders : Seq(OrderRows), broker : Seq(BrokerOrders)]

Lesser(a, b) == IF a <= b THEN a ELSE b

\* The executions an outstanding quantity may start with.
Chunks(n) == (Lesser(n, MinLot) .. n) \ {0}

----------------------------------------------------------------------------
(* Placing an order: ibkr.place_market / place_trail, then the order row.   *)

EntrySide(d) == IF d = "long" THEN "BUY" ELSE "SELL"
Side(role, d) == EntrySide(IF role = "entry" THEN d ELSE Opposite(d))

NewRow(sig, k, role, qty, parent) ==
    [signal |-> sig, key |-> k, role |-> role, qty |-> qty, fillQty |-> 0,
     status |-> "submitted", ibkr |-> None, parent |-> parent,
     replacedBy |-> None]

WorkingOrder(symbol, side, qty) ==
    [symbol |-> symbol, side |-> side, qty |-> qty, executed |-> 0,
     pending |-> 0, lost |-> 0, cancel |-> "none", live |-> TRUE]

\* place_* returns the broker's id, or None on a refusal, a timeout or a lost
\* connection; the row is written either way.
Submit(b, row, ok) ==
    [orders |-> Append(b.orders,
                       [row EXCEPT !.ibkr = IF ok THEN Len(b.broker) + 1 ELSE None,
                                   !.status = IF ok THEN "submitted" ELSE "error"]),
     broker |-> IF ok
                THEN Append(b.broker, WorkingOrder(row.key.symbol,
                                         Side(row.role, row.key.dir), row.qty))
                ELSE b.broker]

----------------------------------------------------------------------------
(* Finding and cancelling orders.                                           *)

\* ORDER BY id DESC LIMIT 1, as a set of at most one row.
Newest(S) == {i \in S : \A j \in S : j <= i}

InFlightRows(b, k, role) ==
    {i \in DOMAIN b.orders : /\ b.orders[i].role = role
                             /\ b.orders[i].key = k
                             /\ b.orders[i].status \in InFlight}

\* Seeded fault: an entry that already filled in part is not found.
UnfilledEntries(b, k) == {i \in InFlightRows(b, k, "entry") : b.orders[i].status = "submitted"}

InFlightEntries(b, k) == InFlightRows(b, k, "entry")
ActiveTrails(b, k) == InFlightRows(b, k, "trail_stop")

\* Seeded fault: the broker is not asked.
AskNobody(b, ids, ok) == b.broker

\* ibkr.cancel_order for the rows `ids`: the broker is asked, or the call fails.
AskCancel(b, ids, ok) ==
    [j \in DOMAIN b.broker |->
        IF /\ \E i \in ids : b.orders[i].ibkr = j
           /\ b.broker[j].live
           /\ b.broker[j].cancel # "asked"
        THEN [b.broker[j] EXCEPT !.cancel = IF ok THEN "asked" ELSE "failed"]
        ELSE b.broker[j]]

\* The row becomes cancelled at once, whatever the broker answers; sig is the
\* signal that replaces an entry, None for a trailing stop.
CancelRows(b, ids, sig, ok) ==
    [orders |-> [i \in DOMAIN b.orders |->
                    IF i \in ids
                    THEN [b.orders[i] EXCEPT !.status = "cancelled",
                                             !.replacedBy = IF sig = None THEN @ ELSE sig]
                    ELSE b.orders[i]],
     broker |-> AskCancel(b, ids, ok)]

----------------------------------------------------------------------------
(* Fills.                                                                   *)

Remaining(o) == o.qty - o.fillQty

\* Seeded fault: the reported quantity is not capped to what the order misses.
UncappedFill(o, reported) == reported

\* A report is capped to the unfilled quantity: a combined execution (close old
\* and open new) may overstate it.
CappedFill(o, reported) == Lesser(reported, Remaining(o))

\* Seeded fault: the fill quantity is stored, not added.
AfterFillOverwriting(o, n) ==
    [o EXCEPT !.fillQty = n,
              !.status = IF o.fillQty + n >= o.qty THEN "filled" ELSE "partially_filled"]

AfterFill(o, n) ==
    [o EXCEPT !.fillQty = @ + n,
              !.status = IF o.fillQty + n >= o.qty THEN "filled" ELSE "partially_filled"]

TakeReport(br, j, q) == [br EXCEPT ![j].pending = @ - q]
=============================================================================
