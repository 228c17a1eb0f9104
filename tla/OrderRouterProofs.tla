-------------------------- MODULE OrderRouterProofs --------------------------
(***************************************************************************)
(* Theorems about OrderRouter, for every set of symbols, intervals and     *)
(* quantities, every choice of failing calls and every bound.              *)
(***************************************************************************)
EXTENDS OrderRouter, SequenceTheorems, TLAPS

----------------------------------------------------------------------------
(* Books: what the operators of OrderBook return and preserve.  A handler is *)
(* a composition of Submit and CancelRows, so each property of books that    *)
(* both preserve is preserved by every handler.                              *)

\* A function on 1 .. n is a sequence of length n.
LEMMA FunctionIsSeq ==
    ASSUME NEW S, NEW n \in Nat, NEW f \in [1 .. n -> S]
    PROVE  f \in Seq(S) /\ Len(f) = n
<1>1. f \in Seq(S)
  BY SeqDef
<1>2. DOMAIN f = 1 .. Len(f) /\ Len(f) \in Nat
  BY <1>1
<1> QED
  BY <1>2

\* A fresh row is well typed.
LEMMA NewRowType ==
    ASSUME NEW sig \in Nat, NEW k \in OrderKeys, NEW role \in Roles,
           NEW qty \in Nat \ {0}, NEW parent \in Nat
    PROVE  /\ NewRow(sig, k, role, qty, parent) \in OrderRows
           /\ NewRow(sig, k, role, qty, parent).signal = sig
           /\ NewRow(sig, k, role, qty, parent).fillQty = 0
           /\ NewRow(sig, k, role, qty, parent).role = role
           /\ NewRow(sig, k, role, qty, parent).key = k
BY DEF NewRow, OrderRows, Statuses, None

\* Placing an order appends one row and, if the broker takes it, one working order.
LEMMA SubmitType ==
    ASSUME NEW b \in Books, NEW row \in OrderRows, NEW ok \in BOOLEAN
    PROVE  /\ Submit(b, row, ok) \in Books
           /\ Len(Submit(b, row, ok).orders) = Len(b.orders) + 1
<1> DEFINE id == IF ok THEN Len(b.broker) + 1 ELSE None
           st == IF ok THEN "submitted" ELSE "error"
           new == [row EXCEPT !.ibkr = id, !.status = st]
           work == WorkingOrder(row.key.symbol, Side(row.role, row.key.dir), row.qty)
<1>1. b.orders \in Seq(OrderRows) /\ b.broker \in Seq(BrokerOrders)
  BY DEF Books
<1>2. Len(b.broker) \in Nat
  BY <1>1
<1>3. id \in Nat /\ st \in Statuses
  BY <1>2 DEF None, Statuses
<1>4. new \in OrderRows
  <2> HIDE DEF id, st
  <2> QED BY <1>3 DEF OrderRows
<1>5. work \in BrokerOrders
  BY DEF WorkingOrder, BrokerOrders, OrderRows, OrderKeys, Side, EntrySide
<1>6. Submit(b, row, ok) = [orders |-> Append(b.orders, new),
                            broker |-> IF ok THEN Append(b.broker, work) ELSE b.broker]
  BY DEF Submit
<1> HIDE DEF new, work
<1> QED
  BY <1>1, <1>4, <1>5, <1>6 DEF Books

\* Cancelling keeps the number of rows and orders, and touches only the rows
\* named and the cancellation state of their orders.
LEMMA CancelType ==
    ASSUME NEW b \in Books, NEW ids, NEW sig \in Nat, NEW ok \in BOOLEAN
    PROVE  /\ CancelRows(b, ids, sig, ok) \in Books
           /\ Len(CancelRows(b, ids, sig, ok).orders) = Len(b.orders)
<1> DEFINE os == [i \in DOMAIN b.orders |->
                    IF i \in ids
                    THEN [b.orders[i] EXCEPT !.status = "cancelled",
                                             !.replacedBy = IF sig = None THEN @ ELSE sig]
                    ELSE b.orders[i]]
           br == AskCancel(b, ids, ok)
<1>1. b.orders \in Seq(OrderRows) /\ b.broker \in Seq(BrokerOrders)
  BY DEF Books
<1>2. /\ Len(b.orders) \in Nat /\ DOMAIN b.orders = 1 .. Len(b.orders)
      /\ Len(b.broker) \in Nat /\ DOMAIN b.broker = 1 .. Len(b.broker)
  BY <1>1
<1>3. os \in Seq(OrderRows) /\ Len(os) = Len(b.orders)
  <2>1. ASSUME NEW i \in 1 .. Len(b.orders) PROVE os[i] \in OrderRows
    <3>1. b.orders[i] \in OrderRows
      BY <1>1
    <3> QED BY <3>1, <1>2 DEF OrderRows, Statuses
  <2>2. os = [i \in 1 .. Len(b.orders) |-> os[i]]
    BY <1>2
  <2> HIDE DEF os
  <2>3. os \in [1 .. Len(b.orders) -> OrderRows]
    BY <2>1, <2>2
  <2> QED BY <2>3, <1>2, FunctionIsSeq
<1>4. br \in Seq(BrokerOrders) /\ Len(br) = Len(b.broker)
  <2>1. ASSUME NEW j \in 1 .. Len(b.broker) PROVE br[j] \in BrokerOrders
    <3>1. b.broker[j] \in BrokerOrders
      BY <1>1
    <3> QED BY <3>1, <1>2 DEF BrokerOrders, AskCancel
  <2>2. br = [j \in 1 .. Len(b.broker) |-> br[j]]
    BY <1>2 DEF AskCancel
  <2> HIDE DEF br
  <2>3. br \in [1 .. Len(b.broker) -> BrokerOrders]
    BY <2>1, <2>2
  <2> QED BY <2>3, <1>2, FunctionIsSeq
<1>5. CancelRows(b, ids, sig, ok) = [orders |-> os, broker |-> br]
  BY DEF CancelRows
<1> HIDE DEF os, br
<1> QED
  BY <1>1, <1>3, <1>4, <1>5 DEF Books
----------------------------------------------------------------------------
(* What the operators return, row by row and order by order.                *)

\* Submit keeps every row and order, and adds one row and at most one order: a
\* refused row names no order, an accepted one the order that now works.
Refused(b, c, row) ==
    c.broker = b.broker /\ row.ibkr = None /\ row.status = "error"

Accepted(b, c, row) ==
    LET m == Len(b.broker) + 1
    IN  /\ Len(c.broker) = m
        /\ \A j \in DOMAIN b.broker : c.broker[j] = b.broker[j]
        /\ row.ibkr = m /\ row.status = "submitted"
        /\ c.broker[m] = WorkingOrder(row.key.symbol, Side(row.role, row.key.dir), row.qty)

SubmitEffect(b, c, row) ==
    LET n == Len(b.orders) + 1
    IN  /\ c \in Books
        /\ Len(c.orders) = n
        /\ \A i \in DOMAIN b.orders : c.orders[i] = b.orders[i]
        /\ c.orders[n].signal = row.signal /\ c.orders[n].key = row.key
        /\ c.orders[n].role = row.role /\ c.orders[n].parent = row.parent
        /\ c.orders[n].qty = row.qty /\ c.orders[n].fillQty = row.fillQty
        /\ Refused(b, c, c.orders[n]) \/ Accepted(b, c, c.orders[n])

LEMMA SubmitReturns ==
    ASSUME NEW b \in Books, NEW row \in OrderRows, NEW ok \in BOOLEAN,
           NEW c, c = Submit(b, row, ok)
    PROVE  SubmitEffect(b, c, row)
<1> DEFINE n == Len(b.orders) + 1
           m == Len(b.broker) + 1
           new == [row EXCEPT !.ibkr = IF ok THEN m ELSE None,
                              !.status = IF ok THEN "submitted" ELSE "error"]
           work == WorkingOrder(row.key.symbol, Side(row.role, row.key.dir), row.qty)
<1>1. /\ b.orders \in Seq(OrderRows) /\ b.broker \in Seq(BrokerOrders)
      /\ Len(b.orders) \in Nat /\ DOMAIN b.orders = 1 .. Len(b.orders)
      /\ Len(b.broker) \in Nat /\ DOMAIN b.broker = 1 .. Len(b.broker)
  BY DEF Books
<1>2. c \in Books
  BY SubmitType
<1>3. /\ c.orders = Append(b.orders, new)
      /\ c.broker = IF ok THEN Append(b.broker, work) ELSE b.broker
  BY DEF Submit
<1>4. /\ new.signal = row.signal /\ new.key = row.key /\ new.role = row.role
      /\ new.parent = row.parent /\ new.qty = row.qty /\ new.fillQty = row.fillQty
      /\ new.ibkr = (IF ok THEN m ELSE None)
      /\ new.status = (IF ok THEN "submitted" ELSE "error")
  BY DEF OrderRows
<1>5. work = WorkingOrder(new.key.symbol, Side(new.role, new.key.dir), new.qty)
  BY <1>4
<1> HIDE DEF new, work
<1>6. Len(c.orders) = n /\ c.orders[n] = new
      /\ \A i \in DOMAIN b.orders : c.orders[i] = b.orders[i]
  BY <1>1, <1>3
<1>7. CASE ok
  <2>1. /\ Len(c.broker) = m /\ c.broker[m] = work
        /\ \A j \in DOMAIN b.broker : c.broker[j] = b.broker[j]
    BY <1>1, <1>3, <1>7
  <2>2. Accepted(b, c, new)
    BY <2>1, <1>4, <1>5, <1>7 DEF Accepted
  <2> QED BY <2>2, <1>2, <1>4, <1>6 DEF SubmitEffect
<1>8. CASE ~ok
  <2>1. Refused(b, c, new)
    BY <1>3, <1>4, <1>8 DEF Refused
  <2> QED BY <2>1, <1>2, <1>4, <1>6 DEF SubmitEffect
<1> QED
  BY <1>7, <1>8

\* CancelRows changes the status of the rows, and of no other, and asks the broker
\* about every order of theirs that works.
CancelledRow(o, p) ==
    /\ p.signal = o.signal /\ p.key = o.key /\ p.role = o.role /\ p.qty = o.qty
    /\ p.fillQty = o.fillQty /\ p.ibkr = o.ibkr /\ p.parent = o.parent
    /\ p.status = "cancelled"

SameExecution(br, cr) ==
    /\ cr.qty = br.qty /\ cr.executed = br.executed /\ cr.pending = br.pending
    /\ cr.lost = br.lost /\ cr.live = br.live
    /\ cr.cancel = "none" => br.cancel = "none"

CancelEffect(b, c, ids, sig) ==
    /\ c \in Books
    /\ DOMAIN c.orders = DOMAIN b.orders /\ DOMAIN c.broker = DOMAIN b.broker
    /\ \A i \in DOMAIN b.orders \ ids : c.orders[i] = b.orders[i]
    /\ \A i \in ids : /\ CancelledRow(b.orders[i], c.orders[i])
                      /\ sig # None => c.orders[i].replacedBy = sig
    /\ \A j \in DOMAIN b.broker : SameExecution(b.broker[j], c.broker[j])
    /\ \A i \in ids : LET j == b.orders[i].ibkr
                      IN  j \in DOMAIN b.broker => ~(c.broker[j].live /\ c.broker[j].cancel = "none")

LEMMA CancelReturns ==
    ASSUME NEW b \in Books, NEW ids, ids \subseteq DOMAIN b.orders, NEW sig \in Nat,
           NEW ok \in BOOLEAN, NEW c, c = CancelRows(b, ids, sig, ok)
    PROVE  CancelEffect(b, c, ids, sig)
<1>1. /\ b.orders \in Seq(OrderRows) /\ b.broker \in Seq(BrokerOrders)
      /\ Len(b.orders) \in Nat /\ DOMAIN b.orders = 1 .. Len(b.orders)
      /\ Len(b.broker) \in Nat /\ DOMAIN b.broker = 1 .. Len(b.broker)
  BY DEF Books
<1>2. c \in Books
  BY CancelType
<1>3. DOMAIN c.orders = DOMAIN b.orders /\ DOMAIN c.broker = DOMAIN b.broker
  BY DEF CancelRows, AskCancel
<1>4. ASSUME NEW i \in DOMAIN b.orders \ ids PROVE c.orders[i] = b.orders[i]
  BY DEF CancelRows
<1>5. ASSUME NEW i \in ids
      PROVE  /\ CancelledRow(b.orders[i], c.orders[i])
             /\ sig # None => c.orders[i].replacedBy = sig
  <2>1. c.orders[i] = [b.orders[i] EXCEPT !.status = "cancelled",
                           !.replacedBy = IF sig = None THEN @ ELSE sig]
    BY DEF CancelRows
  <2>2. b.orders[i] \in OrderRows
    BY <1>1
  <2> QED BY <2>1, <2>2 DEF OrderRows, CancelledRow
<1>6. ASSUME NEW j \in DOMAIN b.broker
      PROVE  /\ SameExecution(b.broker[j], c.broker[j])
             /\ (\E i \in ids : b.orders[i].ibkr = j)
                   => ~(c.broker[j].live /\ c.broker[j].cancel = "none")
  <2>1. b.broker[j] \in BrokerOrders
    BY <1>1
  <2>2. CASE (\E i \in ids : b.orders[i].ibkr = j) /\ b.broker[j].live
             /\ b.broker[j].cancel # "asked"
    <3>1. c.broker[j] = [b.broker[j] EXCEPT !.cancel = IF ok THEN "asked" ELSE "failed"]
      BY <2>2 DEF CancelRows, AskCancel
    <3> QED BY <2>1, <3>1 DEF BrokerOrders, SameExecution
  <2>3. CASE ~((\E i \in ids : b.orders[i].ibkr = j) /\ b.broker[j].live
               /\ b.broker[j].cancel # "asked")
    <3>1. c.broker[j] = b.broker[j]
      BY <2>3 DEF CancelRows, AskCancel
    <3> QED BY <2>1, <2>3, <3>1 DEF SameExecution
  <2> QED BY <2>2, <2>3
<1> QED
  BY <1>2, <1>3, <1>4, <1>5, <1>6 DEF CancelEffect

----------------------------------------------------------------------------
(* The invariant of books: how rows and broker orders belong together.      *)

\* A row names at most one order of the broker, and no two rows the same.
IdsSound(b) ==
    /\ \A i \in DOMAIN b.orders : b.orders[i].ibkr \in 0 .. Len(b.broker)
    /\ \A i, l \in DOMAIN b.orders :
          b.orders[i].ibkr = b.orders[l].ibkr /\ b.orders[i].ibkr # None => i = l

\* Rows without a signal are the ones made up for orphan fills; entries carry the
\* key of their signal.
RowSound(o) ==
    /\ o.fillQty <= o.qty
    /\ o.status = "filled" <=> o.fillQty = o.qty
    /\ o.status = "error" => o.ibkr = None
    /\ o.signal = None => o.key.interval = NoInterval /\ o.role = "trail_stop"
    /\ o.role = "entry" => o.key \in SignalKeys

OrderSound(br) == br.executed <= br.qty /\ (br.live => br.executed < br.qty)

\* What row o knows of its order br: nothing it did not execute, all of it if
\* the row has an interval; and it is in flight while the order is left alone.
Accounted(o, br) ==
    /\ o.qty = br.qty
    /\ o.fillQty + br.pending + br.lost <= br.executed
    /\ o.key.interval # NoInterval => o.fillQty + br.pending + br.lost = br.executed
    /\ br.live /\ br.cancel = "none" => o.status \in InFlight

RowsAccounted(b) ==
    \A i \in DOMAIN b.orders :
        LET o == b.orders[i]
        IN  o.signal # None /\ o.ibkr # None => Accounted(o, b.broker[o.ibkr])

BookInv(b) ==
    /\ b \in Books
    /\ IdsSound(b)
    /\ \A i \in DOMAIN b.orders : RowSound(b.orders[i])
    /\ \A j \in DOMAIN b.broker : OrderSound(b.broker[j])
    /\ RowsAccounted(b)

\* Placing an order for a signal preserves it, taken by the broker or not.
LEMMA SubmitInv ==
    ASSUME NEW b, BookInv(b), NEW row \in OrderRows, NEW ok \in BOOLEAN,
           row.signal # None, row.fillQty = 0,
           row.role = "entry" => row.key \in SignalKeys,
           NEW c, c = Submit(b, row, ok)
    PROVE  BookInv(c)
<1> DEFINE n == Len(b.orders) + 1
           m == Len(b.broker) + 1
<1>1. b \in Books
  BY DEF BookInv
<1>2. SubmitEffect(b, c, row)
  BY <1>1, SubmitReturns
<1>3. /\ b.orders \in Seq(OrderRows) /\ b.broker \in Seq(BrokerOrders)
      /\ c.orders \in Seq(OrderRows) /\ c.broker \in Seq(BrokerOrders)
  BY <1>1, <1>2 DEF Books, SubmitEffect
<1>4. /\ Len(c.orders) = n
      /\ \A i \in DOMAIN b.orders : c.orders[i] = b.orders[i]
      /\ c.orders[n].signal = row.signal /\ c.orders[n].key = row.key
      /\ c.orders[n].role = row.role
      /\ c.orders[n].qty = row.qty /\ c.orders[n].fillQty = 0
  BY <1>2 DEF SubmitEffect
<1>5. /\ DOMAIN c.orders = DOMAIN b.orders \cup {n} /\ n \notin DOMAIN b.orders
      /\ DOMAIN b.broker = 1 .. m - 1 /\ m \in Nat \ {0}
  BY <1>3, <1>4
<1>6. /\ DOMAIN c.broker \in {1 .. m - 1, 1 .. m} /\ Len(c.broker) \in {m - 1, m}
      /\ c.orders[n].ibkr \in {None, m}
      /\ c.orders[n].ibkr = m => /\ DOMAIN c.broker = 1 .. m /\ Len(c.broker) = m
                                 /\ c.orders[n].status = "submitted"
                                 /\ c.broker[m] = WorkingOrder(c.orders[n].key.symbol,
                                       Side(c.orders[n].role, c.orders[n].key.dir), row.qty)
      /\ c.orders[n].ibkr = None => /\ DOMAIN c.broker = 1 .. m - 1
                                    /\ c.orders[n].status = "error"
      /\ \A j \in DOMAIN b.broker : c.broker[j] = b.broker[j]
  <2>1. CASE Refused(b, c, c.orders[n])
    BY <2>1, <1>3, <1>5 DEF Refused, None
  <2>2. CASE Accepted(b, c, c.orders[n])
    BY <2>2, <1>3, <1>4, <1>5 DEF Accepted, None
  <2> QED BY <2>1, <2>2, <1>2 DEF SubmitEffect
<1>7. /\ row.qty \in Nat \ {0}
      /\ c.orders[n].ibkr = m => /\ c.broker[m].qty = row.qty /\ c.broker[m].executed = 0
                                 /\ c.broker[m].pending = 0 /\ c.broker[m].lost = 0
  BY <1>6 DEF WorkingOrder, OrderRows
<1>8. IdsSound(b) /\ \A i \in DOMAIN b.orders : b.orders[i].ibkr \in 0 .. m - 1
  BY <1>3 DEF BookInv, IdsSound
<1> HIDE DEF n, m
<1>9. IdsSound(c)
  <2>1. ASSUME NEW i \in DOMAIN c.orders PROVE c.orders[i].ibkr \in 0 .. Len(c.broker)
    <3>1. CASE i = n
      BY <3>1, <1>5, <1>6 DEF None
    <3>2. CASE i \in DOMAIN b.orders
      BY <3>2, <1>4, <1>5, <1>6, <1>8
    <3> QED BY <3>1, <3>2, <1>5
  <2>2. ASSUME NEW i \in DOMAIN c.orders, NEW l \in DOMAIN c.orders,
               c.orders[i].ibkr = c.orders[l].ibkr, c.orders[i].ibkr # None
        PROVE  i = l
    <3>1. i \in DOMAIN b.orders => c.orders[i].ibkr # m
      BY <1>4, <1>5, <1>8
    <3>2. l \in DOMAIN b.orders => c.orders[l].ibkr # m
      BY <1>4, <1>5, <1>8
    <3>3. CASE i \in DOMAIN b.orders /\ l \in DOMAIN b.orders
      BY <2>2, <3>3, <1>4, <1>8 DEF IdsSound
    <3> QED BY <2>2, <3>1, <3>2, <3>3, <1>5, <1>6
  <2> QED BY <2>1, <2>2 DEF IdsSound
<1>10. ASSUME NEW i \in DOMAIN c.orders PROVE RowSound(c.orders[i])
  <2>1. CASE i = n
    BY <2>1, <1>4, <1>5, <1>6, <1>7 DEF RowSound
  <2>2. CASE i \in DOMAIN b.orders
    BY <2>2, <1>4 DEF BookInv
  <2> QED BY <2>1, <2>2, <1>5
<1>11. ASSUME NEW j \in DOMAIN c.broker PROVE OrderSound(c.broker[j])
  <2>1. CASE j \in DOMAIN b.broker
    BY <2>1, <1>6 DEF BookInv
  <2>2. CASE j \notin DOMAIN b.broker
    <3>1. j = m /\ c.orders[n].ibkr = m
      BY <2>2, <1>5, <1>6 DEF None
    <3> QED BY <3>1, <1>7 DEF OrderSound
  <2> QED BY <2>1, <2>2
<1>12. RowsAccounted(c)
  <2> SUFFICES ASSUME NEW i \in DOMAIN c.orders,
                      c.orders[i].signal # None, c.orders[i].ibkr # None
               PROVE  Accounted(c.orders[i], c.broker[c.orders[i].ibkr])
    BY DEF RowsAccounted
  <2>1. CASE i = n
    <3>1. c.orders[n].ibkr = m /\ c.orders[n].status = "submitted"
      BY <2>1, <1>6
    <3>2. /\ c.broker[m].qty = row.qty /\ c.broker[m].executed = 0
          /\ c.broker[m].pending = 0 /\ c.broker[m].lost = 0
      BY <3>1, <1>7
    <3>3. c.orders[n].fillQty = 0 /\ c.orders[n].qty = row.qty
      BY <1>4
    <3> DEFINE new == c.orders[n]
               br == c.broker[m]
    <3>4. Accounted(new, br)
      <4> HIDE DEF new, br
      <4> QED BY <3>1, <3>2, <3>3 DEF Accounted, InFlight, new, br
    <3> QED BY <2>1, <3>1, <3>4
  <2>2. CASE i \in DOMAIN b.orders
    <3>1. c.orders[i] = b.orders[i] /\ b.orders[i].ibkr \in DOMAIN b.broker
      BY <2>2, <1>4, <1>5, <1>8 DEF None
    <3>2. Accounted(b.orders[i], b.broker[b.orders[i].ibkr])
      BY <2>2, <3>1 DEF BookInv, RowsAccounted
    <3> QED BY <3>1, <3>2, <1>6
  <2> QED BY <2>1, <2>2, <1>5
<1> QED
  BY <1>2, <1>9, <1>10, <1>11, <1>12 DEF BookInv, SubmitEffect

\* Cancelling rows in flight preserves it, whether or not the broker was reached.
LEMMA CancelInv ==
    ASSUME NEW b, BookInv(b), NEW ids, NEW sig \in Nat, NEW ok \in BOOLEAN,
           ids \subseteq {i \in DOMAIN b.orders : b.orders[i].status \in InFlight},
           NEW c, c = CancelRows(b, ids, sig, ok)
    PROVE  BookInv(c)
<1>1. b \in Books /\ ids \subseteq DOMAIN b.orders
      /\ \A i \in ids : b.orders[i].status \in InFlight
  BY DEF BookInv
<1>2. CancelEffect(b, c, ids, sig)
  BY <1>1, CancelReturns
<1>3. /\ c \in Books
      /\ DOMAIN c.orders = DOMAIN b.orders /\ DOMAIN c.broker = DOMAIN b.broker
      /\ Len(c.broker) = Len(b.broker)
  BY <1>1, <1>2 DEF CancelEffect, Books
<1>4. ASSUME NEW i \in DOMAIN b.orders
      PROVE  \/ i \notin ids /\ c.orders[i] = b.orders[i]
             \/ i \in ids /\ CancelledRow(b.orders[i], c.orders[i])
  BY <1>2 DEF CancelEffect
<1>5. ASSUME NEW i \in DOMAIN b.orders PROVE c.orders[i].ibkr = b.orders[i].ibkr
  BY <1>4 DEF CancelledRow
<1>6. IdsSound(c)
  BY <1>3, <1>5 DEF BookInv, IdsSound
<1>7. ASSUME NEW i \in DOMAIN c.orders PROVE RowSound(c.orders[i])
  <2>1. RowSound(b.orders[i])
    BY <1>3 DEF BookInv
  <2> QED BY <2>1, <1>1, <1>3, <1>4 DEF RowSound, InFlight, CancelledRow
<1>8. ASSUME NEW j \in DOMAIN c.broker PROVE OrderSound(c.broker[j])
  <2>1. OrderSound(b.broker[j]) /\ SameExecution(b.broker[j], c.broker[j])
    BY <1>2, <1>3 DEF BookInv, CancelEffect
  <2> QED BY <2>1 DEF OrderSound, SameExecution
<1>9. RowsAccounted(c)
  <2> SUFFICES ASSUME NEW i \in DOMAIN c.orders,
                      c.orders[i].signal # None, c.orders[i].ibkr # None
               PROVE  Accounted(c.orders[i], c.broker[c.orders[i].ibkr])
    BY DEF RowsAccounted
  <2> DEFINE j == b.orders[i].ibkr
  <2>1. i \in DOMAIN b.orders /\ c.orders[i].ibkr = j
    BY <1>3, <1>5
  <2>2. j \in DOMAIN b.broker
    BY <2>1, <1>1 DEF BookInv, IdsSound, None, Books
  <2>3. SameExecution(b.broker[j], c.broker[j])
    BY <2>2, <1>2 DEF CancelEffect
  <2>4. b.orders[i].signal # None
    BY <2>1, <1>4 DEF CancelledRow
  <2>5. Accounted(b.orders[i], b.broker[j])
    BY <2>1, <2>4 DEF BookInv, RowsAccounted
  <2>6. i \in ids => ~(c.broker[j].live /\ c.broker[j].cancel = "none")
    BY <2>2, <1>2 DEF CancelEffect
  <2> HIDE DEF j
  <2> QED BY <2>1, <2>3, <2>5, <2>6, <1>4 DEF Accounted, SameExecution, CancelledRow
<1> QED
  BY <1>3, <1>6, <1>7, <1>8, <1>9 DEF BookInv

----------------------------------------------------------------------------
(* What preserves it besides placing and cancelling.                        *)

\* The broker may change its orders and take new ones, as long as each row stays
\* accounted for.
LEMMA SameRowsInv ==
    ASSUME NEW b, BookInv(b), NEW br \in Seq(BrokerOrders), Len(b.broker) <= Len(br),
           \A j \in DOMAIN br : OrderSound(br[j]),
           \A i \in DOMAIN b.orders :
              LET o == b.orders[i]
              IN  o.signal # None /\ o.ibkr # None => Accounted(o, br[o.ibkr]),
           NEW c, c = [orders |-> b.orders, broker |-> br]
    PROVE  BookInv(c)
<1>1. b \in Books /\ c \in Books /\ c.orders = b.orders /\ c.broker = br
  BY DEF Books, BookInv
<1>2. IdsSound(c)
  <2>1. Len(b.broker) \in Nat /\ Len(br) \in Nat
    BY <1>1 DEF Books
  <2> QED BY <2>1, <1>1 DEF IdsSound, BookInv
<1>3. RowsAccounted(c)
  BY <1>1 DEF RowsAccounted
<1> QED
  BY <1>1, <1>2, <1>3 DEF BookInv

\* One order may change, as long as its row stays accounted for.
LEMMA OrderUpdateInv ==
    ASSUME NEW b, BookInv(b), NEW j \in DOMAIN b.broker,
           NEW br \in BrokerOrders, OrderSound(br),
           \A i \in DOMAIN b.orders :
              b.orders[i].ibkr = j /\ b.orders[i].signal # None => Accounted(b.orders[i], br),
           NEW c, c = [orders |-> b.orders, broker |-> [b.broker EXCEPT ![j] = br]]
    PROVE  BookInv(c) /\ DOMAIN c.broker = DOMAIN b.broker
<1>1. /\ b.orders \in Seq(OrderRows) /\ b.broker \in Seq(BrokerOrders)
      /\ Len(b.broker) \in Nat /\ DOMAIN b.broker = 1 .. Len(b.broker)
  BY DEF BookInv, Books
<1>2. /\ c.broker \in Seq(BrokerOrders) /\ Len(c.broker) = Len(b.broker)
      /\ DOMAIN c.broker = DOMAIN b.broker
      /\ c.broker[j] = br
      /\ \A l \in DOMAIN b.broker \ {j} : c.broker[l] = b.broker[l]
  <2>1. c.broker = [b.broker EXCEPT ![j] = br]
    OBVIOUS
  <2> QED BY <2>1, <1>1, ExceptSeq
<1>3. ASSUME NEW l \in DOMAIN c.broker PROVE OrderSound(c.broker[l])
  BY <1>2 DEF BookInv
<1>4. ASSUME NEW i \in DOMAIN b.orders, b.orders[i].signal # None, b.orders[i].ibkr # None
      PROVE  Accounted(b.orders[i], c.broker[b.orders[i].ibkr])
  <2>1. CASE b.orders[i].ibkr = j
    BY <2>1, <1>2, <1>4
  <2>2. CASE b.orders[i].ibkr # j
    BY <2>2, <1>1, <1>2, <1>4 DEF BookInv, IdsSound, RowsAccounted, None
  <2> QED BY <2>1, <2>2
<1>5. c = [orders |-> b.orders, broker |-> c.broker] /\ Len(b.broker) <= Len(c.broker)
  BY <1>1, <1>2
<1> QED
  BY <1>2, <1>3, <1>4, <1>5, SameRowsInv

\* A row and its order may change together.
LEMMA RowUpdateInv ==
    ASSUME NEW b, BookInv(b), NEW i \in DOMAIN b.orders,
           NEW j, j = b.orders[i].ibkr, j # None,
           NEW row \in OrderRows, RowSound(row), row.ibkr = j,
           NEW br \in BrokerOrders, OrderSound(br),
           row.signal # None => Accounted(row, br),
           NEW c, c = [orders |-> [b.orders EXCEPT ![i] = row],
                       broker |-> [b.broker EXCEPT ![j] = br]]
    PROVE  BookInv(c)
<1>1. /\ b.orders \in Seq(OrderRows) /\ b.broker \in Seq(BrokerOrders)
      /\ Len(b.broker) \in Nat /\ DOMAIN b.broker = 1 .. Len(b.broker)
      /\ DOMAIN b.orders = 1 .. Len(b.orders)
  BY DEF BookInv, Books
<1>2. IdsSound(b) /\ j \in DOMAIN b.broker
  BY <1>1 DEF BookInv, IdsSound, None
<1>3. /\ c.orders \in Seq(OrderRows)
      /\ DOMAIN c.orders = DOMAIN b.orders
      /\ c.orders[i] = row
      /\ \A l \in DOMAIN b.orders \ {i} : c.orders[l] = b.orders[l]
  <2>1. c.orders = [b.orders EXCEPT ![i] = row]
    OBVIOUS
  <2> QED BY <2>1, <1>1, ExceptSeq
<1>4. /\ c.broker \in Seq(BrokerOrders) /\ Len(c.broker) = Len(b.broker)
      /\ DOMAIN c.broker = DOMAIN b.broker
      /\ c.broker[j] = br
      /\ \A k \in DOMAIN b.broker \ {j} : c.broker[k] = b.broker[k]
  <2>1. c.broker = [b.broker EXCEPT ![j] = br]
    OBVIOUS
  <2> QED BY <2>1, <1>1, <1>2, ExceptSeq
<1>5. c \in Books
  BY <1>3, <1>4 DEF Books
<1>6. \A l \in DOMAIN b.orders : c.orders[l].ibkr = b.orders[l].ibkr
  BY <1>3
<1>7. IdsSound(c)
  BY <1>2, <1>3, <1>4, <1>6 DEF IdsSound
<1>8. ASSUME NEW l \in DOMAIN c.orders PROVE RowSound(c.orders[l])
  BY <1>3 DEF BookInv
<1>9. ASSUME NEW k \in DOMAIN c.broker PROVE OrderSound(c.broker[k])
  BY <1>4 DEF BookInv
<1>10. ASSUME NEW l \in DOMAIN c.orders, c.orders[l].signal # None, c.orders[l].ibkr # None
       PROVE  Accounted(c.orders[l], c.broker[c.orders[l].ibkr])
  <2>1. CASE l = i
    BY <2>1, <1>3, <1>4, <1>10
  <2>2. CASE l # i
    <3> DEFINE k == b.orders[l].ibkr
    <3>1. l \in DOMAIN b.orders /\ c.orders[l] = b.orders[l]
      BY <2>2, <1>3
    <3>2. k # j /\ k \in DOMAIN b.broker
      BY <3>1, <2>2, <1>1, <1>2, <1>10 DEF IdsSound, None
    <3>3. c.broker[k] = b.broker[k]
      BY <3>2, <1>4
    <3> QED BY <3>1, <3>3, <1>10 DEF BookInv, RowsAccounted
  <2> QED BY <2>1, <2>2
<1> QED
  BY <1>5, <1>7, <1>8, <1>9, <1>10 DEF BookInv, RowsAccounted

\* A row may be made up for an order that has none.
LEMMA MadeUpRowInv ==
    ASSUME NEW b, BookInv(b), NEW row \in OrderRows, RowSound(row), row.signal = None,
           row.ibkr \in DOMAIN b.broker,
           \A i \in DOMAIN b.orders : b.orders[i].ibkr # row.ibkr,
           NEW c, c = [orders |-> Append(b.orders, row), broker |-> b.broker]
    PROVE  BookInv(c)
<1> DEFINE n == Len(b.orders) + 1
<1>1. /\ b.orders \in Seq(OrderRows) /\ b.broker \in Seq(BrokerOrders)
      /\ Len(b.broker) \in Nat /\ DOMAIN b.broker = 1 .. Len(b.broker)
      /\ Len(b.orders) \in Nat /\ DOMAIN b.orders = 1 .. Len(b.orders)
  BY DEF BookInv, Books
<1>2. /\ c \in Books /\ c.broker = b.broker
      /\ DOMAIN c.orders = DOMAIN b.orders \cup {n} /\ n \notin DOMAIN b.orders
      /\ c.orders[n] = row
      /\ \A i \in DOMAIN b.orders : c.orders[i] = b.orders[i]
  <2>1. c.orders = Append(b.orders, row) /\ c.broker = b.broker
    OBVIOUS
  <2>2. c.orders \in Seq(OrderRows) /\ Len(c.orders) = n
    BY <2>1, <1>1
  <2>3. c \in Books
    BY <2>1, <2>2, <1>1 DEF Books
  <2>4. c.orders[n] = row /\ \A i \in DOMAIN b.orders : c.orders[i] = b.orders[i]
    BY <2>1, <1>1
  <2> QED BY <2>1, <2>2, <2>3, <2>4, <1>1
<1> HIDE DEF n
<1>3. IdsSound(c)
  BY <1>1, <1>2 DEF IdsSound, BookInv
<1>4. RowsAccounted(c)
  BY <1>2 DEF RowsAccounted, BookInv
<1> QED
  BY <1>2, <1>3, <1>4 DEF BookInv

\* Counting n more units changes the fill and the status only.
LEMMA AfterFillReturns ==
    ASSUME NEW o \in OrderRows, NEW n \in Nat, NEW row, row = AfterFill(o, n)
    PROVE  /\ row \in OrderRows
           /\ row.signal = o.signal /\ row.key = o.key /\ row.role = o.role
           /\ row.qty = o.qty /\ row.ibkr = o.ibkr /\ row.parent = o.parent
           /\ row.replacedBy = o.replacedBy
           /\ row.fillQty = o.fillQty + n
           /\ row.status = IF o.fillQty + n >= o.qty THEN "filled" ELSE "partially_filled"
<1> DEFINE sum == o.fillQty + n
           st == IF sum >= o.qty THEN "filled" ELSE "partially_filled"
<1>1. sum \in Nat /\ st \in Statuses
  BY DEF OrderRows, Statuses
<1>2. row = [o EXCEPT !.fillQty = sum, !.status = st]
  BY DEF AfterFill
<1> HIDE DEF sum, st
<1>3. /\ row.signal = o.signal /\ row.key = o.key /\ row.role = o.role
      /\ row.qty = o.qty /\ row.ibkr = o.ibkr /\ row.parent = o.parent
      /\ row.replacedBy = o.replacedBy /\ row.fillQty = sum /\ row.status = st
  BY <1>2 DEF OrderRows
<1>4. row \in OrderRows
  BY <1>1, <1>2 DEF OrderRows
<1> QED
  BY <1>3, <1>4 DEF sum, st

\* A broker order that has delivered a report of q units: one pending less of each.
LEMMA TakenOrder ==
    ASSUME NEW br \in BrokerOrders, NEW q \in Nat, q <= br.pending,
           NEW taken, taken = [br EXCEPT !.pending = @ - q]
    PROVE  /\ taken \in BrokerOrders
           /\ taken.qty = br.qty /\ taken.executed = br.executed
           /\ taken.lost = br.lost /\ taken.live = br.live
           /\ taken.cancel = br.cancel /\ taken.pending = br.pending - q
<1> DEFINE rest == br.pending - q
<1>1. rest \in Nat
  BY DEF BrokerOrders
<1>2. taken = [br EXCEPT !.pending = rest]
  OBVIOUS
<1> HIDE DEF rest
<1>3. taken.pending = rest /\ taken \in BrokerOrders
  BY <1>1, <1>2 DEF BrokerOrders
<1>4. /\ taken.qty = br.qty /\ taken.executed = br.executed
      /\ taken.lost = br.lost /\ taken.live = br.live /\ taken.cancel = br.cancel
  BY <1>2 DEF BrokerOrders
<1> QED BY <1>3, <1>4 DEF rest

\* A row that records the whole of a report stays accounted for.
LEMMA RecordedAccounted ==
    ASSUME NEW o \in OrderRows, NEW br \in BrokerOrders, OrderSound(br), Accounted(o, br),
           NEW q \in Nat, q <= br.pending,
           NEW row, row = AfterFill(o, q),
           NEW taken, taken = [br EXCEPT !.pending = @ - q]
    PROVE  Accounted(row, taken)
<1> DEFINE f == o.fillQty
           p == br.pending
           l == br.lost
           e == br.executed
<1>1. f \in Nat /\ p \in Nat /\ l \in Nat /\ e \in Nat /\ o.qty \in Nat
  BY DEF OrderRows, BrokerOrders
<1>2. /\ o.qty = br.qty /\ f + p + l <= e
      /\ o.key.interval # NoInterval => f + p + l = e
      /\ br.live => e < br.qty
  BY DEF Accounted, OrderSound
<1>3. /\ row.qty = o.qty /\ row.key = o.key /\ row.fillQty = f + q
      /\ row.status = IF f + q >= o.qty THEN "filled" ELSE "partially_filled"
  BY AfterFillReturns
<1>4. /\ taken.qty = br.qty /\ taken.executed = e /\ taken.lost = l
      /\ taken.live = br.live /\ taken.pending = p - q
  BY TakenOrder
<1> HIDE DEF f, p, l, e
<1>5. (f + q) + (p - q) + l = f + p + l
  BY <1>1
<1>6. br.live => f + q < o.qty
  BY <1>1, <1>2 DEF p
<1>7. taken.live => row.status \in InFlight
  BY <1>1, <1>3, <1>4, <1>6 DEF InFlight
<1> QED BY <1>2, <1>3, <1>4, <1>5, <1>7 DEF Accounted

\* A row that records nothing of a report is accounted for if it has no interval.
LEMMA DroppedAccounted ==
    ASSUME NEW o \in OrderRows, NEW br \in BrokerOrders, Accounted(o, br),
           o.key.interval = NoInterval,
           NEW q \in Nat, q <= br.pending,
           NEW taken, taken = [br EXCEPT !.pending = @ - q]
    PROVE  Accounted(o, taken)
<1> DEFINE f == o.fillQty
           p == br.pending
           l == br.lost
           e == br.executed
<1>1. f \in Nat /\ p \in Nat /\ l \in Nat /\ e \in Nat
  BY DEF OrderRows, BrokerOrders
<1>2. /\ o.qty = br.qty /\ f + p + l <= e
      /\ br.live /\ br.cancel = "none" => o.status \in InFlight
  BY DEF Accounted
<1>3. /\ taken.qty = br.qty /\ taken.executed = e /\ taken.lost = l
      /\ taken.live = br.live /\ taken.cancel = br.cancel /\ taken.pending = p - q
  BY TakenOrder
<1> HIDE DEF f, p, l, e
<1>4. f + (p - q) + l <= e
  BY <1>1, <1>2
<1> QED BY <1>2, <1>3, <1>4 DEF Accounted, f

\* A report of q units recorded on its row, n of them counted.  All of them are
\* unless the row was made up.
LEMMA FillInv ==
    ASSUME NEW b, BookInv(b), NEW i \in DOMAIN b.orders,
           NEW j, j = b.orders[i].ibkr, j # None,
           NEW q \in Nat \ {0}, q <= b.broker[j].pending,
           NEW n \in Nat \ {0}, n <= Remaining(b.orders[i]),
           b.orders[i].signal # None => n = q,
           NEW c, c = [orders |-> [b.orders EXCEPT ![i] = AfterFill(@, n)],
                       broker |-> TakeReport(b.broker, j, q)]
    PROVE  BookInv(c)
<1> DEFINE o == b.orders[i]
           row == AfterFill(o, n)
           br == [b.broker[j] EXCEPT !.pending = @ - q]
<1>1. o \in OrderRows /\ j \in DOMAIN b.broker /\ b.broker[j] \in BrokerOrders
  BY DEF BookInv, Books, IdsSound, None
<1>2. RowSound(o) /\ OrderSound(b.broker[j])
  BY <1>1 DEF BookInv
<1>3. o.signal # None => Accounted(o, b.broker[j])
  BY DEF BookInv, RowsAccounted
<1> HIDE DEF o
<1>4. /\ row.signal = o.signal /\ row.key = o.key /\ row.role = o.role /\ row.qty = o.qty
      /\ row.ibkr = o.ibkr /\ row.fillQty = o.fillQty + n
      /\ row.status = (IF o.fillQty + n >= o.qty THEN "filled" ELSE "partially_filled")
      /\ row \in OrderRows
  BY <1>1, AfterFillReturns
<1>5. /\ br.executed = b.broker[j].executed /\ br.qty = b.broker[j].qty
      /\ br.live = b.broker[j].live /\ br \in BrokerOrders
  BY <1>1, TakenOrder
<1>6. n <= o.qty - o.fillQty /\ o.qty \in Nat /\ o.fillQty \in Nat
  BY <1>1 DEF Remaining, OrderRows, o
<1>7. row.signal # None => Accounted(row, br)
  <2> SUFFICES ASSUME o.signal # None PROVE Accounted(row, br)
    BY <1>4
  <2>1. Accounted(o, b.broker[j]) /\ n = q
    BY <1>3 DEF o
  <2> QED BY <2>1, <1>1, <1>2, RecordedAccounted
<1>8. row.ibkr = j
  BY <1>4 DEF o
<1>9. c = [orders |-> [b.orders EXCEPT ![i] = row], broker |-> [b.broker EXCEPT ![j] = br]]
  BY DEF TakeReport, o
<1> HIDE DEF row, br
<1>10. RowSound(row)
  BY <1>2, <1>4, <1>6 DEF RowSound
<1>11. OrderSound(br)
  BY <1>2, <1>5 DEF OrderSound
<1>12. row \in OrderRows
  BY <1>4
<1> HIDE DEF o
<1> QED
  BY <1>5, <1>7, <1>8, <1>9, <1>10, <1>11, <1>12, RowUpdateInv


\* An execution of an outstanding quantity is a positive part of it.
LEMMA ChunkType ==
    ASSUME NEW n \in Nat, NEW q \in Chunks(n)
    PROVE  q \in Nat \ {0} /\ q <= n
BY MinLotAssumption DEF Chunks, Lesser

\* A report of q units that is dropped, of a row without an interval.
LEMMA DropReportInv ==
    ASSUME NEW b, BookInv(b), NEW i \in DOMAIN b.orders,
           NEW j, j = b.orders[i].ibkr, j # None,
           NEW q \in Nat \ {0}, q <= b.broker[j].pending,
           b.orders[i].key.interval = NoInterval,
           NEW c, c = [orders |-> b.orders, broker |-> TakeReport(b.broker, j, q)]
    PROVE  BookInv(c)
<1> DEFINE o == b.orders[i]
           br == [b.broker[j] EXCEPT !.pending = @ - q]
<1>1. o \in OrderRows /\ j \in DOMAIN b.broker /\ b.broker[j] \in BrokerOrders
  BY DEF BookInv, Books, IdsSound, None
<1>2. RowSound(o) /\ OrderSound(b.broker[j])
  BY <1>1 DEF BookInv
<1>3. o.signal # None => Accounted(o, b.broker[j])
  BY DEF BookInv, RowsAccounted
<1>4. /\ br.executed = b.broker[j].executed /\ br.qty = b.broker[j].qty
      /\ br.live = b.broker[j].live /\ br \in BrokerOrders
  BY <1>1, TakenOrder
<1>5. c = [orders |-> [b.orders EXCEPT ![i] = o], broker |-> [b.broker EXCEPT ![j] = br]]
  <2>1. b.orders = [b.orders EXCEPT ![i] = o]
    BY DEF BookInv, Books
  <2> QED BY <2>1 DEF TakeReport
<1>6. o.signal # None => Accounted(o, br)
  <2>1. o.key.interval = NoInterval /\ q \in Nat /\ q <= b.broker[j].pending
    OBVIOUS
  <2> QED BY <2>1, <1>1, <1>3, DroppedAccounted
<1> HIDE DEF br
<1>7. OrderSound(br)
  BY <1>2, <1>4 DEF OrderSound
<1>8. o.ibkr = j /\ RowSound(o) /\ o \in OrderRows /\ br \in BrokerOrders
  BY <1>1, <1>2, <1>4
<1> HIDE DEF o
<1> QED
  BY <1>5, <1>6, <1>7, <1>8, RowUpdateInv

----------------------------------------------------------------------------
(* The invariant of the router.                                             *)

\* What type correctness rests on besides itself: open alerts ask for something,
\* and the order book is sound.
IInv ==
    /\ TypeOK
    /\ \A n \in DOMAIN signals : signals[n].kind = "open" => signals[n].qty > 0
    /\ BookInv(Book)

\* Alerts name keys of both tables, in either direction.
LEMMA KeyTypes ==
    ASSUME NEW k \in SignalKeys
    PROVE  /\ k \in OrderKeys /\ PosKey(k) \in PosKeys
           /\ OppositeKey(k) \in SignalKeys
<1>1. k \in OrderKeys
  BY DEF SignalKeys, OrderKeys
<1>2. PosKey(k) \in PosKeys
  BY DEF SignalKeys, PosKey, PosKeys
<1>3. OppositeKey(k) \in SignalKeys
  BY DEF SignalKeys, OppositeKey, Opposite, Directions
<1> QED
  BY <1>1, <1>2, <1>3

LEMMA PositionKeyTypes == PosKeys \subseteq OrderKeys
BY DEF PosKeys, OrderKeys, PosInterval

LEMMA InitInv == Init => IInv
<1> SUFFICES ASSUME Init PROVE IInv
  OBVIOUS
<1>1. TypeOK
  BY DEF Init, TypeOK
<1>2. Book \in Books /\ Book.orders = <<>> /\ Book.broker = <<>>
  BY DEF Init, Book, Books
<1>3. BookInv(Book)
  BY <1>2 DEF BookInv, IdsSound, RowsAccounted
<1> QED
  BY <1>1, <1>3 DEF IInv, Init

----------------------------------------------------------------------------
(* The books the signal handlers make.                                      *)

\* The book a handler sets is the next state's book.
LEMMA SetBookInv ==
    ASSUME NEW c, BookInv(c), SetBook(c)
    PROVE  /\ BookInv(Book)'
           /\ orders' \in Seq(OrderRows) /\ broker' \in Seq(BrokerOrders)
<1>1. c \in Books /\ orders' = c.orders /\ broker' = c.broker
  BY DEF BookInv, SetBook
<1>2. Book' = c
  BY <1>1 DEF Book, Books
<1> QED
  BY <1>1, <1>2 DEF Books

LEMMA PlaceCloseInv ==
    ASSUME NEW b, BookInv(b), NEW sig \in Nat \ {0}, NEW k \in PosKeys,
           pos[k] \in Nat \ {0}, NEW cancelOk \in BOOLEAN, NEW exitOk \in BOOLEAN,
           NEW c, c = PlaceClose(b, sig, k, cancelOk, exitOk)
    PROVE  BookInv(c)
<1> DEFINE ids == Newest(ActiveTrails(b, k))
           d == CancelRows(b, ids, None, cancelOk)
           row == NewRow(sig, k, "exit", pos[k], None)
<1>1. ids \subseteq {i \in DOMAIN b.orders : b.orders[i].status \in InFlight}
  BY DEF Newest, ActiveTrails, InFlightRows
<1>2. BookInv(d)
  BY <1>1, CancelInv DEF None
<1>3. row \in OrderRows /\ row.signal # None /\ row.fillQty = 0 /\ row.role = "exit"
  BY NewRowType, PositionKeyTypes DEF None, Roles
<1>4. c = Submit(d, row, exitOk)
  BY DEF PlaceClose
<1> QED
  BY <1>2, <1>3, <1>4, SubmitInv

LEMMA UnwoundInv ==
    ASSUME NEW b, BookInv(b), NEW sig \in Nat \ {0}, NEW o \in OrderRows, NEW fail,
           NEW c, c = Unwound(b, sig, o, fail)
    PROVE  BookInv(c)
<1> DEFINE exit == NewRow(sig, o.key, "exit", o.fillQty, None)
<1>1. CASE o.fillQty > 0 /\ ReplaceMode = "replace"
  <2>1. exit \in OrderRows /\ exit.signal # None /\ exit.fillQty = 0 /\ exit.role = "exit"
    <3>1. o.key \in OrderKeys /\ o.fillQty \in Nat \ {0} /\ "exit" \in Roles /\ None \in Nat
      BY <1>1 DEF None, Roles, OrderRows
    <3>2. sig \in Nat /\ sig # None
      BY DEF None
    <3> QED BY <3>1, <3>2, NewRowType
  <2>2. c = Submit(b, exit, "exitSame" \notin fail)
    BY <1>1 DEF Unwound
  <2> HIDE DEF exit
  <2> QED BY <2>1, <2>2, SubmitInv
<1>2. CASE ~(o.fillQty > 0 /\ ReplaceMode = "replace")
  BY <1>2 DEF Unwound
<1> QED
  BY <1>1, <1>2

\* The row to be replaced, and the books on the way.
LEMMA ReplacedRow ==
    ASSUME NEW b, BookInv(b), NEW sig \in Nat \ {0}, NEW k \in SignalKeys,
           NEW old \in InFlightEntries(b, k), NEW fail,
           NEW d, d = CancelRows(b, {old}, sig, "cancelEntry" \notin fail),
           NEW u, u = Unwound(d, sig, b.orders[old], fail)
    PROVE  /\ old \in DOMAIN b.orders /\ b.orders[old] \in OrderRows
           /\ b.orders[old].key = k /\ BookInv(d) /\ BookInv(u)
<1>1. /\ old \in DOMAIN b.orders /\ b.orders[old].status \in InFlight /\ b.orders[old].key = k
      /\ b.orders[old] \in OrderRows
  BY DEF InFlightEntries, InFlightRows, BookInv, Books
<1>2. BookInv(d)
  BY <1>1, CancelInv
<1> QED
  BY <1>1, <1>2, UnwoundInv

LEMMA ReplacementInv ==
    ASSUME NEW b, BookInv(b), NEW sig \in Nat \ {0}, NEW k \in SignalKeys,
           NEW old \in InFlightEntries(b, k), NEW qty \in Nat \ {0}, NEW fail,
           NEW c, c = Replacement(b, sig, old, qty, fail)
    PROVE  BookInv(c)
<1> DEFINE d == CancelRows(b, {old}, sig, "cancelEntry" \notin fail)
           u == Unwound(d, sig, b.orders[old], fail)
           entry == NewRow(sig, k, "entry", qty, None)
<1>1. b.orders[old].key = k /\ BookInv(u)
  BY ReplacedRow
<1>2. k \in OrderKeys
  BY KeyTypes
<1>3. entry \in OrderRows /\ entry.signal # None /\ entry.fillQty = 0 /\ entry.key \in SignalKeys
  BY <1>2, NewRowType DEF None, Roles
<1>4. c = Submit(u, entry, "entry" \notin fail)
  BY <1>1 DEF Replacement
<1> HIDE DEF u, entry
<1> QED
  BY <1>1, <1>3, <1>4, SubmitInv

LEMMA ClosedSameInv ==
    ASSUME TypeOK, NEW b, BookInv(b), NEW sig \in Nat \ {0}, NEW k \in SignalKeys,
           NEW fail, NEW c, c = ClosedSame(b, sig, k, fail)
    PROVE  BookInv(c)
<1> DEFINE same == PosKey(k)
           close == PlaceClose(b, sig, same, "cancelSame" \notin fail, "exitSame" \notin fail)
<1>1. same \in PosKeys /\ pos[same] \in Nat
  BY KeyTypes DEF TypeOK
<1>2. c = IF pos[same] > 0 THEN close ELSE b
  BY DEF ClosedSame
<1> HIDE DEF same
<1>3. CASE pos[same] > 0
  <2>1. pos[same] \in Nat \ {0} /\ c = close
    BY <1>1, <1>2, <1>3
  <2> QED BY <2>1, <1>1, PlaceCloseInv
<1>4. CASE ~(pos[same] > 0)
  BY <1>2, <1>4
<1> QED
  BY <1>3, <1>4

LEMMA CancelledOppositeInv ==
    ASSUME NEW b, BookInv(b), NEW sig \in Nat \ {0}, NEW k,
           NEW fail, NEW c, c = CancelledOpposite(b, sig, k, fail)
    PROVE  BookInv(c)
<1> DEFINE ids == Newest(InFlightEntries(b, OppositeKey(k)))
<1>1. ids \subseteq {i \in DOMAIN b.orders : b.orders[i].status \in InFlight}
  BY DEF Newest, InFlightEntries, InFlightRows
<1>2. c = CancelRows(b, ids, sig, "cancelEntry" \notin fail)
  BY DEF CancelledOpposite
<1> HIDE DEF ids
<1> QED
  BY <1>1, <1>2, CancelInv

LEMMA ClearedWayInv ==
    ASSUME TypeOK, NEW b, BookInv(b), NEW sig \in Nat \ {0}, NEW k \in SignalKeys,
           NEW fail, NEW c, c = ClearedWay(b, sig, k, fail)
    PROVE  BookInv(c)
<1> DEFINE opp == PosKey(OppositeKey(k))
           b1 == ClosedSame(b, sig, k, fail)
           b2 == CancelledOpposite(b1, sig, k, fail)
           flip == PlaceClose(b2, sig, opp, "cancelOpposite" \notin fail, "exitOpposite" \notin fail)
<1>1. opp \in PosKeys /\ pos[opp] \in Nat
  BY KeyTypes DEF TypeOK
<1>2. c = IF pos[opp] > 0 THEN flip ELSE b2
  BY DEF ClearedWay
<1> HIDE DEF opp
<1>3. BookInv(b1)
  BY ClosedSameInv
<1> HIDE DEF b1
<1>4. BookInv(b2)
  BY <1>3, CancelledOppositeInv
<1> HIDE DEF b2
<1>5. CASE pos[opp] > 0
  <2>1. pos[opp] \in Nat \ {0} /\ c = flip
    BY <1>1, <1>2, <1>5
  <2> QED BY <2>1, <1>1, <1>4, PlaceCloseInv
<1>6. CASE ~(pos[opp] > 0)
  BY <1>2, <1>4, <1>6
<1> QED
  BY <1>5, <1>6

\* The signal being handled.
LEMMA CurrentType ==
    ASSUME TypeOK, Dequeue
    PROVE  /\ handled + 1 \in DOMAIN signals /\ handled + 1 \in Nat \ {0}
           /\ handled' \in 0 .. Len(signals)
           /\ Current \in Signals /\ Current.key \in SignalKeys
<1>1. /\ signals \in Seq(Signals) /\ handled \in 0 .. Len(signals)
      /\ handled < Len(signals) /\ handled' = handled + 1
  BY DEF TypeOK, Dequeue
<1>2. handled + 1 \in 1 .. Len(signals) /\ handled' \in 0 .. Len(signals)
  BY <1>1
<1>3. Current \in Signals
  BY <1>1, <1>2 DEF Current
<1> QED
  BY <1>1, <1>2, <1>3 DEF Signals

----------------------------------------------------------------------------
(* Handlers cut short: a book that a handler had reached, and what it had   *)
(* asked the broker for besides.                                            *)

\* The rows are those of b; the broker knows all it knew, has been asked at least as
\* much, and has executed nothing more.
Interrupted(b, d) ==
    /\ b \in Books /\ d \in Books /\ d.orders = b.orders
    /\ Len(b.broker) <= Len(d.broker)
    /\ \A j \in DOMAIN b.broker : SameExecution(b.broker[j], d.broker[j])
    /\ \A j \in DOMAIN d.broker \ DOMAIN b.broker :
          d.broker[j].executed = 0 /\ d.broker[j].pending = 0 /\ d.broker[j].lost = 0

LEMMA BeforeIt == ASSUME NEW b \in Books PROVE Interrupted(b, b)
<1>1. Len(b.broker) \in Nat
  BY DEF Books
<1> QED
  BY <1>1 DEF Interrupted, SameExecution

\* What Unrecorded leaves, once the broker's side of the step is known.
LEMMA UnrecordedIs ==
    ASSUME NEW b \in Books, NEW c \in Books, NEW d \in Unrecorded(b, c),
           Len(b.broker) <= Len(c.broker),
           \A j \in DOMAIN b.broker : SameExecution(b.broker[j], c.broker[j]),
           \A j \in DOMAIN c.broker \ DOMAIN b.broker :
              c.broker[j].executed = 0 /\ c.broker[j].pending = 0 /\ c.broker[j].lost = 0
    PROVE  Interrupted(b, d)
<1>1. CASE d = b
  BY <1>1, BeforeIt
<1>2. CASE d = [b EXCEPT !.broker = c.broker]
  <2>1. d \in Books /\ d.orders = b.orders /\ d.broker = c.broker
    BY <1>2 DEF Books
  <2> QED BY <2>1 DEF Interrupted
<1> QED
  BY <1>1, <1>2 DEF Unrecorded

LEMMA SubmitUnrecorded ==
    ASSUME NEW b \in Books, NEW row \in OrderRows, NEW ok \in BOOLEAN,
           NEW d \in Unrecorded(b, Submit(b, row, ok))
    PROVE  Interrupted(b, d)
<1> DEFINE c == Submit(b, row, ok)
           m == Len(b.broker) + 1
<1>1. SubmitEffect(b, c, row)
  BY SubmitReturns
<1> HIDE DEF c
<1>2. /\ c \in Books /\ Len(b.broker) \in Nat /\ DOMAIN b.broker = 1 .. Len(b.broker)
      /\ Len(c.broker) \in Nat /\ DOMAIN c.broker = 1 .. Len(c.broker)
  BY <1>1 DEF SubmitEffect, Books
<1>3. PICK new : Refused(b, c, new) \/ Accepted(b, c, new)
  BY <1>1 DEF SubmitEffect
<1>4. CASE Refused(b, c, new)
  <2>1. c.broker = b.broker
    BY <1>4 DEF Refused
  <2> QED BY <2>1, <1>2, UnrecordedIs DEF SameExecution, c
<1>5. CASE Accepted(b, c, new)
  <2>1. /\ Len(c.broker) = m /\ \A j \in DOMAIN b.broker : c.broker[j] = b.broker[j]
        /\ c.broker[m] = WorkingOrder(new.key.symbol, Side(new.role, new.key.dir), new.qty)
    BY <1>5 DEF Accepted
  <2>2. c.broker[m].executed = 0 /\ c.broker[m].pending = 0 /\ c.broker[m].lost = 0
    BY <2>1 DEF WorkingOrder
  <2>3. \A j \in DOMAIN c.broker \ DOMAIN b.broker : j = m
    BY <2>1, <1>2
  <2>4. Len(b.broker) <= Len(c.broker)
    BY <2>1, <1>2
  <2> QED BY <2>1, <2>2, <2>3, <2>4, <1>2, UnrecordedIs DEF SameExecution, c
<1> QED
  BY <1>3, <1>4, <1>5

LEMMA CancelUnrecorded ==
    ASSUME NEW b \in Books, NEW ids, ids \subseteq DOMAIN b.orders, NEW sig \in Nat,
           NEW ok \in BOOLEAN, NEW d \in Unrecorded(b, CancelRows(b, ids, sig, ok))
    PROVE  Interrupted(b, d)
<1> DEFINE c == CancelRows(b, ids, sig, ok)
<1>1. CancelEffect(b, c, ids, sig)
  BY CancelReturns
<1> HIDE DEF c
<1>2. /\ c \in Books /\ DOMAIN c.broker = DOMAIN b.broker
      /\ \A j \in DOMAIN b.broker : SameExecution(b.broker[j], c.broker[j])
  BY <1>1 DEF CancelEffect
<1>3. Len(c.broker) = Len(b.broker) /\ Len(b.broker) \in Nat
  BY <1>2 DEF Books
<1> QED
  BY <1>2, <1>3, UnrecordedIs DEF c

\* A close stops before or after it has freed the position of its trailing stop.
Freed(b, k, cancelOk) == CancelRows(b, Newest(ActiveTrails(b, k)), None, cancelOk)

LEMMA TrailsInFlight ==
    ASSUME NEW b, NEW k
    PROVE  Newest(ActiveTrails(b, k)) \subseteq {i \in DOMAIN b.orders : b.orders[i].status \in InFlight}
BY DEF Newest, ActiveTrails, InFlightRows

LEMMA CloseCutsAre ==
    ASSUME NEW b \in Books, NEW k \in PosKeys, pos[k] \in Nat, handled + 1 \in Nat,
           NEW cancelOk \in BOOLEAN, NEW exitOk \in BOOLEAN,
           NEW c \in CloseCuts(b, k, cancelOk, exitOk)
    PROVE  Interrupted(b, c) \/ Interrupted(Freed(b, k, cancelOk), c)
<1> DEFINE d == Freed(b, k, cancelOk)
           ids == Newest(ActiveTrails(b, k))
           row == NewRow(handled + 1, k, "exit", pos[k], None)
<1>1. CASE pos[k] = 0
  BY <1>1, BeforeIt DEF CloseCuts
<1>2. CASE pos[k] # 0
  <2>1. /\ c \in Unrecorded(b, d) \/ c \in Unrecorded(d, Submit(d, row, exitOk))
        /\ d = CancelRows(b, ids, None, cancelOk)
    BY <1>2 DEF CloseCuts, PlaceClose, Freed
  <2>2. ids \subseteq DOMAIN b.orders /\ None \in Nat
    BY TrailsInFlight DEF None
  <2>3. d \in Books
    BY <2>1, <2>2, CancelType
  <2>4. row \in OrderRows
    BY <1>2, NewRowType, PositionKeyTypes DEF None, Roles
  <2> HIDE DEF ids, row
  <2>5. CASE c \in Unrecorded(b, d)
    BY <2>1, <2>2, <2>5, CancelUnrecorded
  <2> HIDE DEF d
  <2>6. CASE c \in Unrecorded(d, Submit(d, row, exitOk))
    BY <2>3, <2>4, <2>6, SubmitUnrecorded DEF d
  <2> QED BY <2>1, <2>5, <2>6
<1> QED
  BY <1>1, <1>2

\* A replacement stops after the entry was cancelled or its part sold, or before.
CancelledEntry(b, old, fail) == CancelRows(b, {old}, handled + 1, "cancelEntry" \notin fail)
SoldAgain(b, old, fail) == Unwound(CancelledEntry(b, old, fail), handled + 1, b.orders[old], fail)

LEMMA ReplaceCutsAre ==
    ASSUME NEW b \in Books, NEW old \in DOMAIN b.orders, handled + 1 \in Nat,
           Current.qty \in Nat \ {0}, NEW fail, NEW c \in ReplaceCuts(b, old, fail)
    PROVE  \/ Interrupted(b, c) \/ Interrupted(CancelledEntry(b, old, fail), c)
           \/ Interrupted(SoldAgain(b, old, fail), c)
<1> DEFINE o == b.orders[old]
           d == CancelledEntry(b, old, fail)
           u == SoldAgain(b, old, fail)
           exit == NewRow(handled + 1, o.key, "exit", o.fillQty, None)
           entry == NewRow(handled + 1, o.key, "entry", Current.qty, None)
           Selling == o.fillQty > 0 /\ ReplaceMode = "replace"
<1>1. \/ c \in Unrecorded(b, d) \/ c \in Unrecorded(d, u)
      \/ c \in Unrecorded(u, Submit(u, entry, "entry" \notin fail))
  BY DEF ReplaceCuts, Replacement, CancelledEntry, SoldAgain
<1>2. d \in Books /\ d = CancelRows(b, {old}, handled + 1, "cancelEntry" \notin fail)
  BY CancelType DEF CancelledEntry
<1>3. u = IF Selling THEN Submit(d, exit, "exitSame" \notin fail) ELSE d
  BY DEF SoldAgain, Unwound
<1>4. o \in OrderRows /\ o.key \in OrderKeys /\ o.fillQty \in Nat
  <2>1. b.orders \in Seq(OrderRows)
    BY DEF Books
  <2>2. o \in OrderRows
    BY <2>1
  <2> HIDE DEF o
  <2> QED BY <2>2 DEF OrderRows
<1>5. entry \in OrderRows
  BY <1>4, NewRowType DEF None, Roles
<1>6. Selling => exit \in OrderRows
  BY <1>4, NewRowType DEF None, Roles
<1> HIDE DEF d, u, exit, entry, Selling
<1>7. u \in Books
  BY <1>2, <1>3, <1>6, SubmitType
<1>8. CASE c \in Unrecorded(b, d)
  BY <1>2, <1>8, CancelUnrecorded
<1>9. CASE c \in Unrecorded(d, u)
  <2>1. CASE Selling
    BY <2>1, <1>2, <1>3, <1>6, <1>9, SubmitUnrecorded DEF d
  <2>2. CASE ~Selling
    <3>1. u = d /\ [d EXCEPT !.broker = d.broker] = d
      BY <2>2, <1>2, <1>3 DEF Books
    <3>2. c = d
      BY <3>1, <1>9 DEF Unrecorded
    <3>3. Interrupted(d, c)
      BY <3>2, <1>2, BeforeIt
    <3> QED BY <3>3 DEF d
  <2> QED BY <2>1, <2>2
<1>10. CASE c \in Unrecorded(u, Submit(u, entry, "entry" \notin fail))
  BY <1>5, <1>7, <1>10, SubmitUnrecorded DEF u
<1> QED
  BY <1>1, <1>8, <1>9, <1>10

\* The books the handler of the current signal may have reached.
Closed(fail) == ClosedSame(Book, handled + 1, Current.key, fail)
Rid(fail) == CancelledOpposite(Closed(fail), handled + 1, Current.key, fail)
Cleared(fail) == ClearedWay(Book, handled + 1, Current.key, fail)

Reached(fail) ==
    {Book, Freed(Book, PosKey(Current.key), "cancelSame" \notin fail),
     Closed(fail), Rid(fail), Cleared(fail),
     Freed(Rid(fail), PosKey(OppositeKey(Current.key)), "cancelOpposite" \notin fail)}
    \cup {CancelledEntry(Book, old, fail) : old \in Newest(InFlightEntries(Book, Current.key))}
    \cup {SoldAgain(Book, old, fail) : old \in Newest(InFlightEntries(Book, Current.key))}

LEMMA OpenCutsAre ==
    ASSUME TypeOK, Book \in Books, Current.key \in SignalKeys, handled + 1 \in Nat,
           Current.qty \in Nat \ {0}, NEW fail,
           Closed(fail) \in Books, Rid(fail) \in Books, Cleared(fail) \in Books,
           NEW c \in OpenCuts(Book, Current.key, fail)
    PROVE  \E b \in Reached(fail) : Interrupted(b, c)
<1> DEFINE k == Current.key
           opp == PosKey(OppositeKey(k))
           ids == Newest(InFlightEntries(Closed(fail), OppositeKey(k)))
           entry == NewRow(handled + 1, k, "entry", Current.qty, None)
<1>1. \/ c \in CloseCuts(Book, PosKey(k), "cancelSame" \notin fail, "exitSame" \notin fail)
      \/ c \in Unrecorded(Closed(fail), Rid(fail))
      \/ c \in CloseCuts(Rid(fail), opp, "cancelOpposite" \notin fail, "exitOpposite" \notin fail)
      \/ c = Cleared(fail)
      \/ c \in Unrecorded(Cleared(fail), Submit(Cleared(fail), entry, "entry" \notin fail))
  BY DEF OpenCuts, Entered, Closed, Rid, Cleared
<1>2. PosKey(k) \in PosKeys /\ opp \in PosKeys /\ pos[PosKey(k)] \in Nat /\ pos[opp] \in Nat
  BY KeyTypes DEF TypeOK
<1>3. /\ Book \in Reached(fail) /\ Closed(fail) \in Reached(fail) /\ Rid(fail) \in Reached(fail)
      /\ Cleared(fail) \in Reached(fail)
      /\ Freed(Book, PosKey(k), "cancelSame" \notin fail) \in Reached(fail)
      /\ Freed(Rid(fail), opp, "cancelOpposite" \notin fail) \in Reached(fail)
  BY DEF Reached
<1>4. ids \subseteq DOMAIN Closed(fail).orders
  BY DEF Newest, InFlightEntries, InFlightRows
<1>5. Rid(fail) = CancelRows(Closed(fail), ids, handled + 1, "cancelEntry" \notin fail)
  BY DEF Rid, CancelledOpposite
<1>6. entry \in OrderRows
  BY KeyTypes, NewRowType DEF None, Roles
<1> HIDE DEF opp, ids, entry
<1>7. CASE c \in CloseCuts(Book, PosKey(k), "cancelSame" \notin fail, "exitSame" \notin fail)
  BY <1>2, <1>3, <1>7, CloseCutsAre
<1>8. CASE c \in Unrecorded(Closed(fail), Rid(fail))
  BY <1>3, <1>4, <1>5, <1>8, CancelUnrecorded
<1>9. CASE c \in CloseCuts(Rid(fail), opp, "cancelOpposite" \notin fail, "exitOpposite" \notin fail)
  BY <1>2, <1>3, <1>9, CloseCutsAre
<1>10. CASE c = Cleared(fail)
  BY <1>3, <1>10, BeforeIt
<1>11. CASE c \in Unrecorded(Cleared(fail), Submit(Cleared(fail), entry, "entry" \notin fail))
  BY <1>3, <1>6, <1>11, SubmitUnrecorded
<1> QED
  BY <1>1, <1>7, <1>8, <1>9, <1>10, <1>11

LEMMA SignalCutsAre ==
    ASSUME TypeOK, Book \in Books, Dequeue,
           Current.kind = "open" => Current.qty > 0, NEW fail,
           Closed(fail) \in Books, Rid(fail) \in Books, Cleared(fail) \in Books,
           NEW c \in SignalCuts(fail)
    PROVE  \E b \in Reached(fail) : Interrupted(b, c)
<1> DEFINE k == Current.key
           replaced == Newest(InFlightEntries(Book, k))
<1>1. /\ handled + 1 \in Nat \ {0} /\ Current \in Signals /\ k \in SignalKeys
  BY CurrentType
<1>2. Current.kind \in {"open", "close"} /\ Current.qty \in Nat
  BY <1>1 DEF Signals
<1>3. Book \in Reached(fail) /\ Freed(Book, PosKey(k), "cancelSame" \notin fail) \in Reached(fail)
  BY DEF Reached
<1>4. CASE ~connected
  BY <1>3, <1>4, BeforeIt DEF SignalCuts
<1>5. CASE connected /\ Current.kind = "close"
  <2>1. c \in CloseCuts(Book, PosKey(k), "cancelSame" \notin fail, "exitSame" \notin fail)
    BY <1>5 DEF SignalCuts
  <2>2. PosKey(k) \in PosKeys /\ pos[PosKey(k)] \in Nat
    BY <1>1, KeyTypes DEF TypeOK
  <2> QED BY <2>1, <2>2, <1>1, <1>3, CloseCutsAre
<1>6. CASE connected /\ Current.kind # "close" /\ replaced = {}
  <2>1. c \in OpenCuts(Book, k, fail)
    BY <1>6 DEF SignalCuts
  <2>2. Current.qty \in Nat \ {0}
    BY <1>2, <1>6
  <2> QED BY <2>1, <2>2, <1>1, OpenCutsAre
<1>7. CASE connected /\ Current.kind # "close" /\ replaced # {}
  <2>1. PICK old \in replaced : c \in ReplaceCuts(Book, old, fail)
    BY <1>7 DEF SignalCuts
  <2>2. Current.qty \in Nat \ {0}
    BY <1>2, <1>7
  <2>3. old \in DOMAIN Book.orders
    BY DEF Newest, InFlightEntries, InFlightRows
  <2>4. CancelledEntry(Book, old, fail) \in Reached(fail) /\ SoldAgain(Book, old, fail) \in Reached(fail)
    BY DEF Reached
  <2> QED BY <2>1, <2>2, <2>3, <2>4, <1>1, <1>3, ReplaceCutsAre
<1> QED
  BY <1>4, <1>5, <1>6, <1>7

\* The invariant of books survives an interruption, and holds of what was reached.
LEMMA InterruptedInv ==
    ASSUME NEW b, BookInv(b), NEW d, Interrupted(b, d)
    PROVE  BookInv(d)
<1>1. /\ d = [orders |-> b.orders, broker |-> d.broker] /\ d.broker \in Seq(BrokerOrders)
      /\ Len(b.broker) <= Len(d.broker)
      /\ b.broker \in Seq(BrokerOrders) /\ b \in Books
  BY DEF Interrupted, Books
<1>2. ASSUME NEW j \in DOMAIN d.broker PROVE OrderSound(d.broker[j])
  <2>1. d.broker[j] \in BrokerOrders
    BY <1>1
  <2>2. CASE j \in DOMAIN b.broker
    <3>1. OrderSound(b.broker[j]) /\ SameExecution(b.broker[j], d.broker[j])
      BY <2>2 DEF BookInv, Interrupted
    <3> QED BY <3>1 DEF OrderSound, SameExecution
  <2>3. CASE j \notin DOMAIN b.broker
    <3>1. d.broker[j].executed = 0
      BY <2>3 DEF Interrupted
    <3> QED BY <2>1, <3>1 DEF OrderSound, BrokerOrders
  <2> QED BY <2>2, <2>3
<1>3. ASSUME NEW i \in DOMAIN b.orders, b.orders[i].signal # None, b.orders[i].ibkr # None
      PROVE  Accounted(b.orders[i], d.broker[b.orders[i].ibkr])
  <2> DEFINE j == b.orders[i].ibkr
  <2>1. j \in DOMAIN b.broker
    BY <1>1, <1>3 DEF BookInv, IdsSound, None
  <2>2. Accounted(b.orders[i], b.broker[j]) /\ SameExecution(b.broker[j], d.broker[j])
    BY <2>1, <1>3 DEF BookInv, RowsAccounted, Interrupted
  <2> HIDE DEF j
  <2> QED BY <2>2 DEF Accounted, SameExecution, j
<1> QED
  BY <1>1, <1>2, <1>3, SameRowsInv

LEMMA FreedInv ==
    ASSUME NEW b, BookInv(b), NEW k, NEW ok \in BOOLEAN
    PROVE  BookInv(Freed(b, k, ok))
<1> DEFINE ids == Newest(ActiveTrails(b, k))
<1>1. /\ Freed(b, k, ok) = CancelRows(b, ids, None, ok) /\ None \in Nat
      /\ ids \subseteq {i \in DOMAIN b.orders : b.orders[i].status \in InFlight}
  BY TrailsInFlight DEF Freed, None
<1> HIDE DEF ids
<1> QED
  BY <1>1, CancelInv

LEMMA ReachedInv ==
    ASSUME IInv, Dequeue, NEW fail, NEW b \in Reached(fail)
    PROVE  BookInv(b) /\ BookInv(Closed(fail)) /\ BookInv(Rid(fail)) /\ BookInv(Cleared(fail))
<1>1. /\ handled + 1 \in Nat \ {0} /\ Current.key \in SignalKeys /\ TypeOK /\ BookInv(Book)
  BY CurrentType DEF IInv
<1>2. BookInv(Closed(fail))
  BY <1>1, ClosedSameInv DEF Closed
<1>3. BookInv(Rid(fail))
  BY <1>1, <1>2, CancelledOppositeInv DEF Rid
<1>4. BookInv(Cleared(fail))
  BY <1>1, ClearedWayInv DEF Cleared
<1>5. ASSUME NEW old \in Newest(InFlightEntries(Book, Current.key))
      PROVE  BookInv(CancelledEntry(Book, old, fail)) /\ BookInv(SoldAgain(Book, old, fail))
  <2> DEFINE d == CancelledEntry(Book, old, fail)
  <2>1. /\ old \in DOMAIN Book.orders /\ Book.orders[old] \in OrderRows
        /\ {old} \subseteq {i \in DOMAIN Book.orders : Book.orders[i].status \in InFlight}
    BY <1>1 DEF Newest, InFlightEntries, InFlightRows, BookInv, Books
  <2>2. BookInv(d)
    BY <2>1, <1>1, CancelInv DEF CancelledEntry
  <2>3. SoldAgain(Book, old, fail) = Unwound(d, handled + 1, Book.orders[old], fail)
    BY DEF SoldAgain
  <2> HIDE DEF d
  <2>4. BookInv(SoldAgain(Book, old, fail))
    BY <2>1, <2>2, <2>3, <1>1, UnwoundInv
  <2> QED BY <2>2, <2>4 DEF d
<1>6. /\ BookInv(Freed(Book, PosKey(Current.key), "cancelSame" \notin fail))
      /\ BookInv(Freed(Rid(fail), PosKey(OppositeKey(Current.key)), "cancelOpposite" \notin fail))
  BY <1>1, <1>3, FreedInv
<1> QED
  BY <1>1, <1>2, <1>3, <1>4, <1>5, <1>6 DEF Reached

----------------------------------------------------------------------------
(* Every step preserves the invariant.                                      *)

\* Rejecting a signal changes its status only.
LEMMA RejectType ==
    ASSUME IInv, Dequeue, Reject
    PROVE  /\ signals' \in Seq(Signals) /\ Len(signals') = Len(signals)
           /\ \A n \in DOMAIN signals' : signals'[n].kind = "open" => signals'[n].qty > 0
<1>1. signals \in Seq(Signals) /\ handled + 1 \in DOMAIN signals
  BY CurrentType DEF IInv, TypeOK
<1> DEFINE rejected == [signals[handled + 1] EXCEPT !.status = "rejected"]
<1>2. signals[handled + 1] \in Signals
  BY <1>1
<1>3. /\ rejected \in Signals /\ rejected.kind = signals[handled + 1].kind
      /\ rejected.qty = signals[handled + 1].qty
  BY <1>2 DEF Signals
<1>4. signals' = [signals EXCEPT ![handled + 1] = rejected]
  BY DEF Reject
<1> HIDE DEF rejected
<1>5. /\ signals' \in Seq(Signals) /\ Len(signals') = Len(signals)
      /\ DOMAIN signals' = DOMAIN signals
      /\ signals'[handled + 1] = rejected
      /\ \A n \in DOMAIN signals \ {handled + 1} : signals'[n] = signals[n]
  BY <1>1, <1>3, <1>4, ExceptSeq
<1> QED
  BY <1>3, <1>5 DEF IInv

LEMMA AcceptInv ==
    ASSUME IInv, AcceptSignal
    PROVE  IInv'
<1>1. PICK kind \in {"open", "close"}, k \in SignalKeys, q \in Nat :
         Accept(kind, k, q) /\ (kind = "open" => q > 0)
  BY QtysAssumption DEF AcceptSignal
<1> DEFINE s == [kind |-> kind, key |-> k, qty |-> q, status |-> "accepted"]
<1>2. s \in Signals /\ s.kind = kind /\ s.qty = q
  BY DEF Signals
<1>3. signals \in Seq(Signals) /\ signals' = Append(signals, s)
  BY <1>1 DEF IInv, TypeOK, Accept
<1> HIDE DEF s
<1>4. /\ signals' \in Seq(Signals) /\ Len(signals') = Len(signals) + 1
      /\ signals'[Len(signals) + 1] = s
      /\ \A n \in DOMAIN signals : signals'[n] = signals[n]
      /\ DOMAIN signals' = DOMAIN signals \cup {Len(signals) + 1}
  BY <1>2, <1>3
<1>5. /\ handled' = handled
      /\ UNCHANGED <<orders, broker, pos, posRows, trades, connected, sync, snapshot, drops>>
  BY <1>1 DEF Accept, bookVars, dbVars, linkVars
<1>6. handled' \in 0 .. Len(signals')
  BY <1>3, <1>4, <1>5 DEF IInv, TypeOK
<1>7. TypeOK'
  BY <1>4, <1>5, <1>6 DEF IInv, TypeOK
<1>8. \A n \in DOMAIN signals' : signals'[n].kind = "open" => signals'[n].qty > 0
  BY <1>1, <1>2, <1>4 DEF IInv
<1>9. BookInv(Book)'
  BY <1>5 DEF IInv, Book
<1> QED
  BY <1>7, <1>8, <1>9 DEF IInv

LEMMA RejectOfflineInv ==
    ASSUME IInv, RejectOffline
    PROVE  IInv'
<1>1. Dequeue /\ Reject
      /\ UNCHANGED <<orders, broker, pos, posRows, trades, connected, sync, snapshot, drops>>
  BY DEF RejectOffline, bookVars, dbVars, linkVars
<1>2. TypeOK'
  BY <1>1, CurrentType, RejectType DEF IInv, TypeOK
<1>3. BookInv(Book)'
  BY <1>1 DEF IInv, Book
<1> QED
  BY <1>1, <1>2, <1>3, RejectType DEF IInv

LEMMA CloseInv ==
    ASSUME IInv, NEW fail, CloseNothing \/ CloseSignal(fail)
    PROVE  IInv'
<1>1. /\ Dequeue
      /\ UNCHANGED <<signals, pos, posRows, trades, connected, sync, snapshot, drops>>
  BY DEF CloseNothing, CloseSignal, dbVars, linkVars
<1>2. /\ BookInv(Book)'
      /\ orders' \in Seq(OrderRows) /\ broker' \in Seq(BrokerOrders)
  <2>1. CASE CloseNothing
    BY <2>1 DEF IInv, TypeOK, CloseNothing, bookVars, Book
  <2>2. CASE CloseSignal(fail)
    <3> DEFINE k == PosKey(Current.key)
               c == PlaceClose(Book, handled + 1, k, "cancelSame" \notin fail,
                               "exitSame" \notin fail)
    <3>1. SetBook(c) /\ pos[k] > 0
      BY <2>2 DEF CloseSignal
    <3>2. k \in PosKeys /\ handled + 1 \in Nat \ {0}
      BY <1>1, CurrentType, KeyTypes DEF IInv
    <3>3. pos[k] \in Nat \ {0} /\ BookInv(Book)
      BY <3>1, <3>2 DEF IInv, TypeOK
    <3> HIDE DEF k
    <3>4. BookInv(c)
      BY <3>2, <3>3, PlaceCloseInv
    <3> HIDE DEF c
    <3> QED BY <3>1, <3>4, SetBookInv
  <2> QED BY <2>1, <2>2
<1>3. TypeOK'
  BY <1>1, <1>2, CurrentType DEF IInv, TypeOK
<1> QED
  BY <1>1, <1>2, <1>3 DEF IInv

LEMMA ReplaceEntryInv ==
    ASSUME IInv, NEW fail, ReplaceEntry(fail)
    PROVE  IInv'
<1>1. /\ Dequeue /\ Current.kind = "open"
      /\ UNCHANGED <<signals, pos, posRows, trades, connected, sync, snapshot, drops>>
  BY DEF ReplaceEntry, dbVars, linkVars
<1>2. PICK old \in Newest(InFlightEntries(Book, Current.key)) :
         SetBook(Replacement(Book, handled + 1, old, Current.qty, fail))
  BY DEF ReplaceEntry
<1>3. /\ handled + 1 \in Nat \ {0} /\ Current.key \in SignalKeys
      /\ Current.qty \in Nat \ {0}
  BY <1>1, CurrentType DEF IInv, Current, Signals
<1>4. old \in InFlightEntries(Book, Current.key)
  BY DEF Newest
<1> DEFINE c == Replacement(Book, handled + 1, old, Current.qty, fail)
<1>5. BookInv(c)
  BY <1>3, <1>4, ReplacementInv DEF IInv
<1>6. SetBook(c)
  BY <1>2
<1> HIDE DEF c
<1>7. BookInv(Book)' /\ orders' \in Seq(OrderRows) /\ broker' \in Seq(BrokerOrders)
  BY <1>5, <1>6, SetBookInv
<1>8. TypeOK'
  BY <1>1, <1>7, CurrentType DEF IInv, TypeOK
<1> QED
  BY <1>1, <1>7, <1>8 DEF IInv

LEMMA OpenSignalInv ==
    ASSUME IInv, NEW fail, OpenSignal(fail)
    PROVE  IInv'
<1> DEFINE k == Current.key
           cleared == ClearedWay(Book, handled + 1, k, fail)
           entry == NewRow(handled + 1, k, "entry", Current.qty, None)
           entered == Submit(cleared, entry, "entry" \notin fail)
<1>1. /\ Dequeue /\ Current.kind = "open"
      /\ UNCHANGED <<pos, posRows, trades, connected, sync, snapshot, drops>>
      /\ \/ SetBook(cleared) /\ Reject
         \/ SetBook(entered) /\ UNCHANGED signals
  BY DEF OpenSignal, Entered, dbVars, linkVars
<1>2. handled + 1 \in Nat \ {0} /\ k \in SignalKeys /\ Current.qty \in Nat \ {0}
  BY <1>1, CurrentType DEF IInv, Current, Signals
<1> HIDE DEF k
<1>3. entry \in OrderRows /\ entry.signal # None /\ entry.fillQty = 0 /\ entry.key = k
  <2>1. k \in OrderKeys /\ "entry" \in Roles /\ None \in Nat
    BY <1>2, KeyTypes DEF None, Roles
  <2> QED BY <2>1, <1>2, NewRowType DEF None
<1> HIDE DEF entry
<1>4. BookInv(cleared)
  BY <1>2, ClearedWayInv DEF IInv
<1> HIDE DEF cleared
<1>5. BookInv(entered)
  BY <1>2, <1>3, <1>4, SubmitInv
<1> HIDE DEF entered
<1>6. BookInv(Book)' /\ orders' \in Seq(OrderRows) /\ broker' \in Seq(BrokerOrders)
  BY <1>1, <1>4, <1>5, SetBookInv
<1>7. /\ signals' \in Seq(Signals) /\ Len(signals') = Len(signals)
      /\ \A n \in DOMAIN signals' : signals'[n].kind = "open" => signals'[n].qty > 0
  <2>1. CASE Reject
    BY <2>1, <1>1, RejectType
  <2>2. CASE UNCHANGED signals
    BY <2>2 DEF IInv, TypeOK
  <2> QED BY <2>1, <2>2, <1>1
<1>8. TypeOK'
  BY <1>1, <1>6, <1>7, CurrentType DEF IInv, TypeOK
<1> QED
  BY <1>6, <1>7, <1>8 DEF IInv

LEMMA SignalCutInv ==
    ASSUME IInv, NEW fail, SignalCut(fail)
    PROVE  IInv'
<1>1. /\ Dequeue /\ TypeOK /\ Book \in Books
      /\ UNCHANGED <<signals, pos, posRows, trades, connected, sync, snapshot, drops>>
  BY DEF SignalCut, IInv, BookInv, dbVars, linkVars
<1>2. PICK c \in SignalCuts(fail) : SetBook(c)
  BY DEF SignalCut
<1>3. Current.kind = "open" => Current.qty > 0
  BY <1>1, CurrentType DEF IInv, Current
<1>4. Closed(fail) \in Books /\ Rid(fail) \in Books /\ Cleared(fail) \in Books
  <2>1. Book \in Reached(fail)
    BY DEF Reached
  <2> QED BY <2>1, <1>1, ReachedInv DEF BookInv
<1>5. PICK b \in Reached(fail) : Interrupted(b, c)
  BY <1>1, <1>3, <1>4, SignalCutsAre
<1>6. BookInv(c)
  BY <1>1, <1>5, ReachedInv, InterruptedInv
<1>7. BookInv(Book)' /\ orders' \in Seq(OrderRows) /\ broker' \in Seq(BrokerOrders)
  BY <1>2, <1>6, SetBookInv
<1>8. TypeOK'
  BY <1>1, <1>7, CurrentType DEF IInv, TypeOK
<1> QED
  BY <1>1, <1>7, <1>8 DEF IInv

----------------------------------------------------------------------------
(* Fills.                                                                   *)

\* What is known of a report: it is taken from what the broker still has to
\* deliver, and on a row of a signal all of it is counted.
LEMMA ReportType ==
    ASSUME IInv, NEW i \in DOMAIN orders, NEW q, NEW x \in Nat, ReportOf(i, q, x),
           NEW j, j = orders[i].ibkr, NEW n, n = CappedFill(orders[i], q + x)
    PROVE  /\ orders[i] \in OrderRows /\ j # None /\ j \in DOMAIN broker
           /\ broker[j] \in BrokerOrders
           /\ q \in Nat \ {0} /\ q <= broker[j].pending
           /\ n \in Nat /\ n <= Remaining(orders[i])
           /\ orders[i].signal # None => n = q
<1> DEFINE o == orders[i]
           br == broker[j]
<1>1. orders[i] \in OrderRows /\ j # None /\ j \in DOMAIN broker /\ broker[j] \in BrokerOrders
  BY DEF IInv, TypeOK, BookInv, Book, Books, IdsSound, ReportOf, None
<1>2. q \in Chunks(br.pending) /\ br.pending \in Nat
  BY <1>1 DEF ReportOf, BrokerOrders
<1>3. q \in Nat \ {0} /\ q <= br.pending
  BY <1>2, ChunkType
<1>4. RowSound(o) /\ OrderSound(br)
  BY <1>1 DEF IInv, BookInv, Book
<1>5. Remaining(o) \in Nat /\ o.qty \in Nat /\ o.fillQty \in Nat
  BY <1>1, <1>4 DEF RowSound, OrderRows, Remaining
<1>6. n \in Nat /\ n <= Remaining(o)
  BY <1>3, <1>5 DEF CappedFill, Lesser
<1>7. ASSUME o.signal # None PROVE n = q
  <2>1. Accounted(o, br)
    BY <1>1, <1>7 DEF IInv, BookInv, RowsAccounted, Book
  <2>2. q <= Remaining(o)
    BY <2>1, <1>1, <1>3, <1>4, <1>5 DEF Accounted, OrderSound, BrokerOrders, Remaining
  <2>3. x > 0 => q = Remaining(o)
    BY DEF ReportOf
  <2> QED BY <2>2, <2>3, <1>3, <1>5 DEF CappedFill, Lesser
<1> QED
  BY <1>1, <1>3, <1>6, <1>7

\* A report that leaves no trace in the rows belongs to a row without an interval.
LEMMA DroppedFillInv ==
    ASSUME IInv, NEW i \in DOMAIN orders, NEW q, NEW x \in Nat,
           FillIgnored(i, q, x) \/ FillLostToDuplicateRow(i, q, x)
    PROVE  IInv'
<1> DEFINE o == orders[i]
           j == o.ibkr
           n == CappedFill(o, q + x)
<1>1. /\ ReportOf(i, q, x)
      /\ broker' = TakeReport(broker, j, q)
      /\ UNCHANGED <<signals, handled, orders, pos, posRows, trades, connected, sync,
                     snapshot, drops>>
  BY DEF FillIgnored, FillLostToDuplicateRow, dbVars, linkVars, Taken
<1>2. /\ o \in OrderRows /\ j # None /\ j \in DOMAIN broker
      /\ q \in Nat \ {0} /\ q <= broker[j].pending
      /\ o.signal # None => n = q
  BY <1>1, ReportType
<1>3. RowSound(o)
  BY DEF IInv, BookInv, Book
<1>4. o.key.interval = NoInterval
  <2>1. CASE FillIgnored(i, q, x)
    <3>1. o.signal = None
      BY <2>1, <1>2 DEF FillIgnored
    <3> QED BY <3>1, <1>3 DEF RowSound
  <2>2. CASE FillLostToDuplicateRow(i, q, x)
    <3>1. /\ ~(o.key.interval # NoInterval /\ o.key \in posRows)
          /\ PosKey(o.key) \in posRows
      BY <2>2 DEF FillLostToDuplicateRow, MatchesPosition
    <3>2. o.key.interval # NoInterval => PosKey(o.key) = o.key
      BY <1>2 DEF PosKey, PosInterval, OrderRows, OrderKeys
    <3> QED BY <3>1, <3>2
  <2> QED BY <2>1, <2>2
<1> DEFINE c == [orders |-> orders, broker |-> TakeReport(broker, j, q)]
<1>5. BookInv(c)
  <2>1. Book.orders = orders /\ Book.broker = broker /\ BookInv(Book)
    BY DEF Book, IInv
  <2> QED BY <2>1, <1>2, <1>4, DropReportInv
<1>6. SetBook(c)
  BY <1>1 DEF SetBook
<1> HIDE DEF c
<1>7. BookInv(Book)' /\ orders' \in Seq(OrderRows) /\ broker' \in Seq(BrokerOrders)
  BY <1>5, <1>6, SetBookInv
<1>8. TypeOK'
  BY <1>1, <1>7 DEF IInv, TypeOK
<1> QED
  BY <1>1, <1>7, <1>8 DEF IInv

\* The book after a report was recorded on its row.
LEMMA RecordedInv ==
    ASSUME IInv, NEW i \in DOMAIN orders, NEW q, NEW x \in Nat, ReportOf(i, q, x),
           NEW n, n = CappedFill(orders[i], q + x), n > 0,
           NEW c, c = [orders |-> [orders EXCEPT ![i] = AfterFill(orders[i], n)],
                       broker |-> Taken(i, q)]
    PROVE  BookInv(c)
<1> DEFINE j == orders[i].ibkr
<1>1. /\ j # None /\ j \in DOMAIN broker /\ q \in Nat \ {0} /\ q <= broker[j].pending
      /\ n \in Nat \ {0} /\ n <= Remaining(orders[i])
      /\ orders[i].signal # None => n = q
  BY ReportType
<1>2. Book.orders = orders /\ Book.broker = broker /\ BookInv(Book)
  BY DEF Book, IInv
<1>3. c = [orders |-> [Book.orders EXCEPT ![i] = AfterFill(@, n)],
           broker |-> TakeReport(Book.broker, j, q)]
  BY <1>2 DEF Taken
<1> QED
  BY <1>1, <1>2, <1>3, FillInv


LEMMA FillRecordedOnlyInv ==
    ASSUME IInv, NEW i \in DOMAIN orders, NEW q, NEW x \in Nat, FillRecordedOnly(i, q, x)
    PROVE  IInv'
<1> DEFINE n == CappedFill(orders[i], q + x)
           c == [orders |-> [orders EXCEPT ![i] = AfterFill(orders[i], n)],
                 broker |-> Taken(i, q)]
<1>1. /\ ReportOf(i, q, x) /\ n > 0 /\ SetBook(c)
      /\ UNCHANGED <<signals, handled, pos, posRows, trades, connected, sync, snapshot, drops>>
  BY DEF FillRecordedOnly, dbVars, linkVars, SetBook
<1>2. BookInv(c)
  BY <1>1, RecordedInv
<1> HIDE DEF c, n
<1>3. BookInv(Book)' /\ orders' \in Seq(OrderRows) /\ broker' \in Seq(BrokerOrders)
  BY <1>1, <1>2, SetBookInv
<1>4. TypeOK'
  BY <1>1, <1>3 DEF IInv, TypeOK
<1> QED
  BY <1>1, <1>3, <1>4 DEF IInv

\* The row of the stop of an entry that is now filled.
StopRow(i, q, x) ==
    NewRow(orders[i].signal, orders[i].key, "trail_stop",
           AfterFill(orders[i], CappedFill(orders[i], q + x)).fillQty, i)

LEMMA EntryRecordedInv ==
    ASSUME IInv, NEW i \in DOMAIN orders, NEW q, NEW x \in Nat, EntryRecorded(i, q, x)
    PROVE  /\ BookInv(FilledBook(i, q, x))
           /\ StopRow(i, q, x) \in OrderRows /\ StopRow(i, q, x).signal # None
           /\ StopRow(i, q, x).fillQty = 0 /\ StopRow(i, q, x).role = "trail_stop"
           /\ pos' \in [PosKeys -> Nat] /\ posRows' \subseteq PosKeys
           /\ UNCHANGED <<signals, handled, trades, connected, sync, snapshot, drops>>
<1> DEFINE o == orders[i]
           n == CappedFill(o, q + x)
           filled == AfterFill(o, n)
           k == PosKey(o.key)
           b == [orders |-> [orders EXCEPT ![i] = filled], broker |-> Taken(i, q)]
           trail == NewRow(o.signal, o.key, "trail_stop", filled.fillQty, i)
<1>1. /\ ReportOf(i, q, x) /\ n > 0 /\ o.role = "entry"
      /\ pos' = [pos EXCEPT ![k] = @ + filled.fillQty]
      /\ posRows' = posRows \cup {k}
      /\ UNCHANGED <<signals, handled, trades, connected, sync, snapshot, drops>>
  BY DEF EntryRecorded, linkVars
<1>2. o \in OrderRows /\ n \in Nat
  BY <1>1, ReportType
<1>3. o.key \in SignalKeys /\ o.signal # None
  <2>1. RowSound(o)
    BY DEF IInv, BookInv, Book
  <2> QED BY <2>1, <1>1 DEF RowSound
<1>4. BookInv(b)
  BY <1>1, RecordedInv
<1>5. filled.fillQty \in Nat \ {0}
  BY <1>1, <1>2, AfterFillReturns DEF OrderRows
<1>6. k \in PosKeys
  BY <1>3, KeyTypes
<1>7. FilledBook(i, q, x) = b /\ StopRow(i, q, x) = trail
  BY DEF FilledBook, StopRow
<1> HIDE DEF n, filled, b, k
<1>8. /\ trail \in OrderRows /\ trail.signal # None /\ trail.fillQty = 0
      /\ trail.role = "trail_stop"
  <2>1. i \in Nat
    BY DEF IInv, TypeOK
  <2>2. o.signal \in Nat /\ o.key \in OrderKeys /\ "trail_stop" \in Roles
    BY <1>2 DEF OrderRows, Roles
  <2> QED BY <2>1, <2>2, <1>3, <1>5, NewRowType
<1>9. pos' \in [PosKeys -> Nat] /\ posRows' \subseteq PosKeys
  BY <1>1, <1>5, <1>6 DEF IInv, TypeOK
<1> HIDE DEF trail
<1> QED
  BY <1>1, <1>4, <1>7, <1>8, <1>9

LEMMA EntryFilledInv ==
    ASSUME IInv, NEW i \in DOMAIN orders, NEW q, NEW x \in Nat, NEW trailOk \in BOOLEAN,
           EntryFilled(i, q, x, trailOk)
    PROVE  IInv'
<1> DEFINE b == FilledBook(i, q, x)
           trail == StopRow(i, q, x)
           placed == Submit(b, trail, connected /\ trailOk)
<1>1. EntryRecorded(i, q, x) /\ SetBook(IF DisableTrail THEN b ELSE placed)
  BY DEF EntryFilled, WithStop, StopRow
<1>2. /\ BookInv(b) /\ trail \in OrderRows /\ trail.signal # None /\ trail.fillQty = 0
      /\ trail.role = "trail_stop"
      /\ pos' \in [PosKeys -> Nat] /\ posRows' \subseteq PosKeys
      /\ UNCHANGED <<signals, handled, trades, connected, sync, snapshot, drops>>
  BY <1>1, EntryRecordedInv
<1>3. (connected /\ trailOk) \in BOOLEAN
  OBVIOUS
<1> HIDE DEF b, trail
<1>4. BookInv(placed)
  BY <1>2, <1>3, SubmitInv
<1> HIDE DEF placed
<1>5. BookInv(Book)' /\ orders' \in Seq(OrderRows) /\ broker' \in Seq(BrokerOrders)
  BY <1>1, <1>2, <1>4, SetBookInv
<1>6. TypeOK'
  BY <1>2, <1>5 DEF IInv, TypeOK
<1> QED
  BY <1>2, <1>5, <1>6 DEF IInv

LEMMA StopCutInv ==
    ASSUME IInv, NEW i \in DOMAIN orders, NEW q, NEW x \in Nat, StopCut(i, q, x)
    PROVE  IInv'
<1> DEFINE b == FilledBook(i, q, x)
           trail == StopRow(i, q, x)
<1>1. PICK c \in Unrecorded(b, Submit(b, trail, connected)) : SetBook(c)
  BY DEF StopCut, WithStop, StopRow
<1>2. /\ BookInv(b) /\ trail \in OrderRows
      /\ pos' \in [PosKeys -> Nat] /\ posRows' \subseteq PosKeys
      /\ UNCHANGED <<signals, handled, trades, connected, sync, snapshot, drops>>
  BY EntryRecordedInv DEF StopCut
<1>3. connected \in BOOLEAN /\ b \in Books
  BY <1>2 DEF IInv, TypeOK, BookInv
<1> HIDE DEF b, trail
<1>4. BookInv(c)
  BY <1>1, <1>2, <1>3, SubmitUnrecorded, InterruptedInv
<1>5. BookInv(Book)' /\ orders' \in Seq(OrderRows) /\ broker' \in Seq(BrokerOrders)
  BY <1>1, <1>4, SetBookInv
<1>6. TypeOK'
  BY <1>2, <1>5 DEF IInv, TypeOK
<1> QED
  BY <1>2, <1>5, <1>6 DEF IInv

LEMMA CutShortInv ==
    ASSUME IInv, CutShort
    PROVE  IInv'
<1>1. \/ \E fail \in Failures : SignalCut(fail)
      \/ \E i \in DOMAIN orders, x \in 0 .. MaxOverstatement : \E q : StopCut(i, q, x)
  BY DEF CutShort
<1>2. \A x \in 0 .. MaxOverstatement : x \in Nat
  BY LimitsAssumption
<1> QED
  BY <1>1, <1>2, SignalCutInv, StopCutInv

LEMMA CloseFilledInv ==
    ASSUME IInv, NEW i \in DOMAIN orders, NEW q, NEW x \in Nat, CloseFilled(i, q, x)
    PROVE  IInv'
<1> DEFINE o == orders[i]
           n == CappedFill(o, q + x)
           filled == AfterFill(o, n)
           left == Reduced(pos[o.key], filled.fillQty)
           c == [orders |-> [orders EXCEPT ![i] = filled], broker |-> Taken(i, q)]
<1>1. /\ ReportOf(i, q, x) /\ n > 0 /\ o.key \in posRows
      /\ pos' = [pos EXCEPT ![o.key] = left]
      /\ trades' = [trades EXCEPT ![o.key] = IF left = 0 THEN @ + 1 ELSE @]
      /\ SetBook(c)
      /\ UNCHANGED <<signals, handled, posRows, connected, sync, snapshot, drops>>
  BY DEF CloseFilled, linkVars, SetBook, MatchesPosition
<1>2. o \in OrderRows /\ n \in Nat
  BY <1>1, ReportType
<1>3. BookInv(c)
  BY <1>1, RecordedInv
<1>4. filled.fillQty \in Nat
  BY <1>2, AfterFillReturns DEF OrderRows
<1> HIDE DEF n, filled, c
<1>5. o.key \in PosKeys /\ pos[o.key] \in Nat
  BY <1>1 DEF IInv, TypeOK
<1>6. left \in Nat
  BY <1>4, <1>5 DEF Reduced, Lesser
<1> HIDE DEF left
<1>7. pos' \in [PosKeys -> Nat]
  BY <1>1, <1>6 DEF IInv, TypeOK
<1>8. trades' \in [PosKeys -> Nat]
  BY <1>1, <1>5 DEF IInv, TypeOK
<1>9. BookInv(Book)' /\ orders' \in Seq(OrderRows) /\ broker' \in Seq(BrokerOrders)
  BY <1>1, <1>3, SetBookInv
<1>10. TypeOK'
  BY <1>1, <1>7, <1>8, <1>9 DEF IInv, TypeOK
<1> QED
  BY <1>1, <1>9, <1>10 DEF IInv

LEMMA OrphanFillInv ==
    ASSUME IInv, NEW j \in DOMAIN broker, NEW q, OrphanFill(j, q)
    PROVE  IInv'
<1> DEFINE b == broker[j]
           k == [symbol |-> b.symbol, dir |-> IF b.side = "SELL" THEN "long" ELSE "short",
                 interval |-> NoInterval]
           fresh == NewRow(None, k, "trail_stop", q, None)
           made == [fresh EXCEPT !.ibkr = j, !.fillQty = q, !.status = "filled"]
           br == [b EXCEPT !.pending = @ - q]
           taken == [orders |-> orders, broker |-> TakeReport(broker, j, q)]
           c == [orders |-> Append(orders, made), broker |-> taken.broker]
<1>1. /\ ~HasRow(j) /\ q \in Chunks(b.pending)
      /\ broker' = TakeReport(broker, j, q)
      /\ orders' = Append(orders, made)
      /\ \/ UNCHANGED pos
         \/ \E p \in PosKeys : pos' = [pos EXCEPT ![p] = Reduced(@, q)]
      /\ UNCHANGED <<signals, handled, posRows, trades, connected, sync, snapshot, drops>>
  BY DEF OrphanFill, linkVars
<1>2. b \in BrokerOrders /\ broker \in Seq(BrokerOrders) /\ j \in Nat
  BY DEF IInv, TypeOK
<1>3. q \in Nat \ {0} /\ q <= b.pending
  BY <1>1, <1>2, ChunkType DEF BrokerOrders
<1>4. \A i \in DOMAIN orders : orders[i].ibkr # j
  BY <1>1 DEF HasRow
<1>5. /\ br.qty = b.qty /\ br.executed = b.executed /\ br.live = b.live
      /\ br \in BrokerOrders
  BY <1>2, <1>3, TakenOrder
<1>6. /\ made \in OrderRows /\ made.ibkr = j /\ made.signal = None /\ RowSound(made)
  <2>1. k \in OrderKeys /\ k.interval = NoInterval
    BY <1>2 DEF OrderKeys, Directions, BrokerOrders
  <2> HIDE DEF k
  <2>2. /\ fresh \in OrderRows /\ fresh.signal = None /\ fresh.key = k
        /\ fresh.role = "trail_stop" /\ fresh.qty = q
    BY <2>1, <1>3 DEF NewRow, OrderRows, Roles, Statuses, None
  <2> HIDE DEF fresh
  <2>3. /\ made.signal = None /\ made.key = k /\ made.role = "trail_stop" /\ made.qty = q
        /\ made.ibkr = j /\ made.fillQty = q /\ made.status = "filled"
    BY <2>2 DEF OrderRows
  <2>4. made \in OrderRows
    BY <2>2, <1>2, <1>3 DEF OrderRows, Statuses
  <2> HIDE DEF made
  <2> QED BY <2>1, <2>3, <2>4, <1>2, <1>3 DEF RowSound, None
<1> HIDE DEF made, k, fresh
<1>7. BookInv(taken) /\ DOMAIN taken.broker = DOMAIN broker
  <2>1. Book.orders = orders /\ Book.broker = broker /\ BookInv(Book)
    BY DEF Book, IInv
  <2>2. OrderSound(br)
    <3>1. OrderSound(b)
      BY <2>1 DEF BookInv
    <3> HIDE DEF b, br
    <3> QED BY <3>1, <1>5 DEF OrderSound
  <2>3. taken = [orders |-> Book.orders, broker |-> [Book.broker EXCEPT ![j] = br]]
    BY <2>1 DEF TakeReport
  <2> HIDE DEF taken, br
  <2> QED BY <2>1, <2>2, <2>3, <1>4, <1>5, OrderUpdateInv
<1>8. BookInv(c)
  <2>1. taken.orders = orders
    OBVIOUS
  <2>2. c = [orders |-> Append(taken.orders, made), broker |-> taken.broker]
    BY <2>1
  <2> HIDE DEF taken, c
  <2> QED BY <2>1, <2>2, <1>4, <1>6, <1>7, MadeUpRowInv
<1>9. SetBook(c)
  BY <1>1 DEF SetBook
<1> HIDE DEF c
<1>10. BookInv(Book)' /\ orders' \in Seq(OrderRows) /\ broker' \in Seq(BrokerOrders)
  BY <1>8, <1>9, SetBookInv
<1>11. pos' \in [PosKeys -> Nat]
  <2>1. pos \in [PosKeys -> Nat]
    BY DEF IInv, TypeOK
  <2>2. ASSUME NEW p \in PosKeys, pos' = [pos EXCEPT ![p] = Reduced(@, q)]
        PROVE  pos' \in [PosKeys -> Nat]
    <3>1. Reduced(pos[p], q) \in Nat
      BY <2>1, <1>3 DEF Reduced, Lesser
    <3> QED BY <2>1, <2>2, <3>1
  <2> QED BY <2>1, <2>2, <1>1
<1>12. TypeOK'
  BY <1>1, <1>10, <1>11 DEF IInv, TypeOK
<1> QED
  BY <1>1, <1>10, <1>12 DEF IInv


----------------------------------------------------------------------------
(* The broker and the connection.                                           *)

\* A change of one order that leaves what its row has recorded within what was
\* executed.
LEMMA BrokerUpdateInv ==
    ASSUME IInv, NEW j \in DOMAIN broker, NEW br \in BrokerOrders, OrderSound(br),
           br.qty = broker[j].qty,
           br.pending + br.lost - br.executed
              = broker[j].pending + broker[j].lost - broker[j].executed,
           br.live /\ br.cancel = "none" => broker[j].live /\ broker[j].cancel = "none",
           broker' = [broker EXCEPT ![j] = br],
           UNCHANGED <<signals, handled, orders, pos, posRows, trades, connected, sync,
                       snapshot, drops>>
    PROVE  IInv'
<1> DEFINE c == [orders |-> orders, broker |-> [broker EXCEPT ![j] = br]]
<1>1. Book.orders = orders /\ Book.broker = broker /\ BookInv(Book)
  BY DEF Book, IInv
<1>2. ASSUME NEW i \in DOMAIN orders, orders[i].ibkr = j, orders[i].signal # None
      PROVE  Accounted(orders[i], br)
  <2>1. j # None /\ orders[i] \in OrderRows /\ broker[j] \in BrokerOrders
    BY DEF None, IInv, TypeOK
  <2>2. Accounted(orders[i], broker[j])
    BY <2>1, <1>1, <1>2 DEF BookInv, RowsAccounted
  <2>3. /\ orders[i].fillQty \in Nat
        /\ br.pending \in Nat /\ br.lost \in Nat /\ br.executed \in Nat
        /\ broker[j].pending \in Nat /\ broker[j].lost \in Nat /\ broker[j].executed \in Nat
    BY <2>1 DEF OrderRows, BrokerOrders
  <2>4. /\ orders[i].fillQty + broker[j].pending + broker[j].lost <= broker[j].executed
              => orders[i].fillQty + br.pending + br.lost <= br.executed
        /\ orders[i].fillQty + broker[j].pending + broker[j].lost = broker[j].executed
              => orders[i].fillQty + br.pending + br.lost = br.executed
    <3> DEFINE f == orders[i].fillQty
               p == broker[j].pending
               l == broker[j].lost
               e == broker[j].executed
               p2 == br.pending
               l2 == br.lost
               e2 == br.executed
    <3>1. f \in Nat /\ p \in Nat /\ l \in Nat /\ e \in Nat /\ p2 \in Nat /\ l2 \in Nat /\ e2 \in Nat
      BY <2>3
    <3>2. p2 + l2 - e2 = p + l - e
      OBVIOUS
    <3> HIDE DEF f, p, l, e, p2, l2, e2
    <3>3. f + p + l <= e => f + p2 + l2 <= e2
      BY <3>1, <3>2
    <3>4. f + p + l = e => f + p2 + l2 = e2
      BY <3>1, <3>2
    <3> QED BY <3>3, <3>4 DEF f, p, l, e, p2, l2, e2
  <2>5. br.live /\ br.cancel = "none" => orders[i].status \in InFlight
    BY <2>2 DEF Accounted
  <2> QED BY <2>2, <2>4, <2>5 DEF Accounted
<1>3. BookInv(c)
  <2>1. c = [orders |-> Book.orders, broker |-> [Book.broker EXCEPT ![j] = br]]
    BY <1>1
  <2> QED BY <2>1, <1>1, <1>2, OrderUpdateInv
<1>4. SetBook(c)
  BY DEF SetBook
<1> HIDE DEF c
<1>5. BookInv(Book)' /\ orders' \in Seq(OrderRows) /\ broker' \in Seq(BrokerOrders)
  BY <1>3, <1>4, SetBookInv
<1>6. TypeOK'
  BY <1>5 DEF IInv, TypeOK
<1> QED
  BY <1>5, <1>6 DEF IInv

LEMMA ExecuteInv ==
    ASSUME IInv, NEW j \in DOMAIN broker, NEW q, Execute(j, q)
    PROVE  IInv'
<1> DEFINE b == broker[j]
           done == b.executed + q
           waiting == IF connected THEN b.pending + q ELSE b.pending
           gone == IF connected THEN b.lost ELSE b.lost + q
           br == [b EXCEPT !.executed = done, !.pending = waiting, !.lost = gone,
                           !.live = done < b.qty]
<1>1. /\ b \in BrokerOrders /\ OrderSound(b)
      /\ b.qty \in Nat /\ b.executed \in Nat /\ b.pending \in Nat /\ b.lost \in Nat
  <2>1. b \in BrokerOrders /\ OrderSound(b)
    BY DEF IInv, TypeOK, BookInv, Book
  <2> QED BY <2>1 DEF BrokerOrders
<1>2. q \in Nat \ {0} /\ q <= b.qty - b.executed /\ b.live
  <2>1. q \in Chunks(b.qty - b.executed) /\ b.live
    BY DEF Execute
  <2>2. b.qty - b.executed \in Nat
    BY <1>1 DEF OrderSound
  <2> QED BY <2>1, <2>2, ChunkType
<1>3. /\ done \in Nat /\ waiting \in Nat /\ gone \in Nat
      /\ waiting + gone - done = b.pending + b.lost - b.executed
      /\ done <= b.qty
  BY <1>1, <1>2
<1>4. /\ broker' = [broker EXCEPT ![j] = br]
      /\ UNCHANGED <<signals, handled, orders, pos, posRows, trades, connected, sync,
                     snapshot, drops>>
  BY DEF Execute, dbVars, linkVars
<1> DEFINE open == done < b.qty
<1>5. open \in BOOLEAN
  OBVIOUS
<1> HIDE DEF done, waiting, gone, open
<1>6. br = [b EXCEPT !.executed = done, !.pending = waiting, !.lost = gone, !.live = open]
  BY DEF open
<1> HIDE DEF br, b
<1>7. /\ br.qty = b.qty /\ br.executed = done /\ br.pending = waiting /\ br.lost = gone
      /\ br.live = open /\ br.cancel = b.cancel
  BY <1>1, <1>6 DEF BrokerOrders
<1>8. br \in BrokerOrders
  BY <1>1, <1>3, <1>5, <1>6 DEF BrokerOrders
<1>9. OrderSound(br)
  BY <1>3, <1>7 DEF OrderSound, open
<1> QED
  BY <1>2, <1>3, <1>4, <1>7, <1>8, <1>9, BrokerUpdateInv DEF b

LEMMA ConfirmCancelInv ==
    ASSUME IInv, NEW j \in DOMAIN broker, ConfirmCancel(j)
    PROVE  IInv'
<1> DEFINE b == broker[j]
           br == [b EXCEPT !.live = FALSE]
<1>1. b \in BrokerOrders /\ OrderSound(b)
  BY DEF IInv, TypeOK, BookInv, Book
<1>2. /\ broker' = [broker EXCEPT ![j] = br]
      /\ UNCHANGED <<signals, handled, orders, pos, posRows, trades, connected, sync,
                     snapshot, drops>>
  BY DEF ConfirmCancel, dbVars, linkVars
<1>3. /\ br.qty = b.qty /\ br.executed = b.executed /\ br.pending = b.pending
      /\ br.lost = b.lost /\ br.live = FALSE
      /\ br \in BrokerOrders
  BY <1>1 DEF BrokerOrders
<1> HIDE DEF br
<1>4. OrderSound(br)
  BY <1>1, <1>3 DEF OrderSound
<1> QED
  BY <1>2, <1>3, <1>4, BrokerUpdateInv

LEMMA ExternalOrderInv ==
    ASSUME IInv, ExternalOrder
    PROVE  IInv'
<1>1. PICK s \in Symbols, side \in {"BUY", "SELL"}, q \in ExternalQtys :
         broker' = Append(broker, WorkingOrder(s, side, q))
  BY DEF ExternalOrder
<1>2. UNCHANGED <<signals, handled, orders, pos, posRows, trades, connected, sync,
                  snapshot, drops>>
  BY DEF ExternalOrder, dbVars, linkVars
<1> DEFINE new == WorkingOrder(s, side, q)
<1>3. new \in BrokerOrders /\ OrderSound(new)
  BY QtysAssumption DEF WorkingOrder, BrokerOrders, OrderSound
<1>4. broker \in Seq(BrokerOrders) /\ broker' = Append(broker, new)
  BY <1>1 DEF IInv, TypeOK
<1> HIDE DEF new
<1>5. /\ broker' \in Seq(BrokerOrders) /\ Len(broker) <= Len(broker')
      /\ DOMAIN broker' = DOMAIN broker \cup {Len(broker) + 1}
      /\ broker'[Len(broker) + 1] = new
      /\ \A j \in DOMAIN broker : broker'[j] = broker[j]
      /\ DOMAIN broker = 1 .. Len(broker)
  BY <1>3, <1>4
<1> DEFINE c == [orders |-> orders, broker |-> broker']
<1>6. BookInv(c)
  <2>1. Book.orders = orders /\ Book.broker = broker /\ BookInv(Book)
    BY DEF Book, IInv
  <2>2. ASSUME NEW j \in DOMAIN broker' PROVE OrderSound(broker'[j])
    BY <2>1, <1>3, <1>5 DEF BookInv
  <2>3. ASSUME NEW i \in DOMAIN orders, orders[i].signal # None, orders[i].ibkr # None
        PROVE  Accounted(orders[i], broker'[orders[i].ibkr])
    BY <2>1, <2>3, <1>5 DEF BookInv, RowsAccounted, IdsSound, None
  <2>4. c = [orders |-> Book.orders, broker |-> broker']
    BY <2>1
  <2> HIDE DEF c
  <2> QED BY <2>1, <2>2, <2>3, <2>4, <1>5, SameRowsInv
<1>7. SetBook(c)
  BY <1>2 DEF SetBook
<1> HIDE DEF c
<1>8. BookInv(Book)' /\ orders' \in Seq(OrderRows) /\ broker' \in Seq(BrokerOrders)
  BY <1>6, <1>7, SetBookInv
<1>9. TypeOK'
  BY <1>2, <1>8 DEF IInv, TypeOK
<1> QED
  BY <1>2, <1>8, <1>9 DEF IInv

\* The reports a restart loses are accounted for as lost.
LEMMA ServerRestartInv ==
    ASSUME IInv, ServerRestart
    PROVE  IInv'
<1>1. /\ broker' = [j \in DOMAIN broker |->
                      [broker[j] EXCEPT !.lost = @ + broker[j].pending, !.pending = 0]]
      /\ handled' = Len(signals) /\ drops' = drops + 1
      /\ connected' = FALSE /\ sync' = "done"
      /\ UNCHANGED <<signals, orders, pos, posRows, trades, snapshot>>
  BY DEF ServerRestart, dbVars
<1>2. broker \in Seq(BrokerOrders) /\ DOMAIN broker = 1 .. Len(broker) /\ Len(broker) \in Nat
  BY DEF IInv, TypeOK
<1>3. ASSUME NEW j \in DOMAIN broker
      PROVE  /\ broker'[j] \in BrokerOrders
             /\ broker'[j].qty = broker[j].qty /\ broker'[j].executed = broker[j].executed
             /\ broker'[j].live = broker[j].live /\ broker'[j].cancel = broker[j].cancel
             /\ broker'[j].pending = 0
             /\ broker'[j].lost = broker[j].lost + broker[j].pending
  <2> DEFINE b == broker[j]
             gone == b.lost + b.pending
  <2>1. b \in BrokerOrders
    BY <1>2
  <2>2. gone \in Nat /\ 0 \in Nat
    BY <2>1 DEF BrokerOrders
  <2>5. broker'[j] = [b EXCEPT !.lost = gone, !.pending = 0]
    BY <1>1
  <2> HIDE DEF gone, b
  <2>3. broker'[j] \in BrokerOrders
    BY <2>1, <2>2, <2>5 DEF BrokerOrders
  <2>4. /\ broker'[j].qty = b.qty /\ broker'[j].executed = b.executed
        /\ broker'[j].live = b.live /\ broker'[j].cancel = b.cancel
        /\ broker'[j].pending = 0 /\ broker'[j].lost = gone
    BY <2>1, <2>5 DEF BrokerOrders
  <2> QED BY <2>3, <2>4 DEF gone, b
<1>4. /\ broker' \in Seq(BrokerOrders) /\ Len(broker') = Len(broker)
      /\ DOMAIN broker' = DOMAIN broker
  <2>1. DOMAIN broker' = 1 .. Len(broker) /\ broker' = [j \in 1 .. Len(broker) |-> broker'[j]]
    BY <1>1, <1>2
  <2>2. broker' \in [1 .. Len(broker) -> BrokerOrders]
    BY <2>1, <1>2, <1>3
  <2> QED BY <2>1, <2>2, <1>2, FunctionIsSeq
<1> DEFINE c == [orders |-> orders, broker |-> broker']
<1>5. BookInv(c)
  <2>1. Book.orders = orders /\ Book.broker = broker /\ BookInv(Book)
    BY DEF Book, IInv
  <2>2. ASSUME NEW j \in DOMAIN broker' PROVE OrderSound(broker'[j])
    BY <2>1, <1>3, <1>4 DEF BookInv, OrderSound
  <2>3. ASSUME NEW i \in DOMAIN orders, orders[i].signal # None, orders[i].ibkr # None
        PROVE  Accounted(orders[i], broker'[orders[i].ibkr])
    <3> DEFINE j == orders[i].ibkr
    <3>1. /\ j \in DOMAIN broker /\ broker[j] \in BrokerOrders /\ orders[i] \in OrderRows
          /\ Accounted(orders[i], broker[j])
      BY <2>1, <2>3, <1>2 DEF BookInv, RowsAccounted, IdsSound, None, Books
    <3>2. /\ orders[i].fillQty \in Nat /\ broker[j].pending \in Nat /\ broker[j].lost \in Nat
      BY <3>1 DEF OrderRows, BrokerOrders
    <3> QED BY <3>1, <3>2, <1>3 DEF Accounted
  <2>4. c = [orders |-> Book.orders, broker |-> broker'] /\ Len(Book.broker) <= Len(broker')
    BY <2>1, <1>2, <1>4
  <2> HIDE DEF c
  <2> QED BY <2>1, <2>2, <2>3, <2>4, <1>4, SameRowsInv
<1>6. SetBook(c)
  BY <1>1 DEF SetBook
<1> HIDE DEF c
<1>7. BookInv(Book)' /\ orders' \in Seq(OrderRows) /\ broker' \in Seq(BrokerOrders)
  BY <1>5, <1>6, SetBookInv
<1>8. /\ signals' \in Seq(Signals) /\ handled' \in 0 .. Len(signals') /\ drops' \in Nat
      /\ pos' \in [PosKeys -> Nat] /\ posRows' \subseteq PosKeys /\ trades' \in [PosKeys -> Nat]
      /\ snapshot' \in [Symbols -> {"long", "short", "flat"}]
  <2>1. signals' = signals /\ signals \in Seq(Signals) /\ drops \in Nat
    BY <1>1 DEF IInv, TypeOK
  <2>2. Len(signals) \in Nat
    BY <2>1
  <2>3. handled' = Len(signals) /\ drops' = drops + 1
    BY <1>1
  <2>4. handled' \in 0 .. Len(signals')
    BY <2>1, <2>2, <2>3
  <2>5. drops' \in Nat
    BY <2>1, <2>3
  <2> QED BY <1>1, <2>1, <2>4, <2>5 DEF IInv, TypeOK
<1>9. TypeOK'
  BY <1>1, <1>7, <1>8 DEF TypeOK
<1> QED
  BY <1>1, <1>7, <1>9 DEF IInv

\* Connecting, losing the connection and reconciling touch no order.
LEMMA LinkInv ==
    ASSUME IInv, TwsDown \/ TwsUp \/ ReconcileRead \/ ReconcileWrite
    PROVE  IInv'
<1>1. UNCHANGED <<signals, handled, orders, broker, posRows, trades>>
  BY DEF TwsDown, TwsUp, ReconcileRead, ReconcileWrite, bookVars, dbVars
<1>2. BookInv(Book)'
  BY <1>1 DEF IInv, Book
<1>3. TypeOK'
  <2>1. CASE TwsDown
    <3>1. /\ drops' = drops + 1 /\ connected' = FALSE
          /\ sync' = IF sync = "due" THEN "done" ELSE sync
          /\ UNCHANGED <<pos, snapshot>>
      BY <2>1 DEF TwsDown, dbVars
    <3>2. drops \in Nat /\ sync \in {"done", "due", "read"}
      BY DEF IInv, TypeOK
    <3>3. drops' \in Nat
      BY <3>1, <3>2
    <3>4. sync' \in {"done", "due", "read"}
      BY <3>1, <3>2
    <3>5. connected' \in BOOLEAN
      BY <3>1
    <3> QED BY <3>1, <3>3, <3>4, <3>5, <1>1 DEF IInv, TypeOK
  <2>2. CASE TwsUp
    BY <2>2 DEF IInv, TypeOK, TwsUp, bookVars, dbVars
  <2>3. CASE ReconcileRead
    <3>1. \A s \in Symbols : NetSide(s) \in {"long", "short", "flat"}
      BY DEF NetSide
    <3> QED BY <3>1, <2>3 DEF IInv, TypeOK, ReconcileRead, bookVars, dbVars
  <2>4. CASE ReconcileWrite
    BY <2>4 DEF IInv, TypeOK, ReconcileWrite, bookVars, dbVars
  <2> QED BY <2>1, <2>2, <2>3, <2>4
<1> QED
  BY <1>1, <1>2, <1>3 DEF IInv

----------------------------------------------------------------------------
(* The theorems.                                                            *)

LEMMA NextInv == IInv /\ [Next]_vars => IInv'
<1> SUFFICES ASSUME IInv, [Next]_vars PROVE IInv'
  OBVIOUS
<1>1. CASE AcceptSignal
  BY <1>1, AcceptInv
<1>2. CASE HandleSignal
  BY <1>2, RejectOfflineInv, CloseInv, ReplaceEntryInv, OpenSignalInv DEF HandleSignal
<1>3. CASE KnownFill
  <2>1. PICK i \in DOMAIN orders :
           \E q \in Chunks(broker[orders[i].ibkr].pending), x \in 0 .. MaxOverstatement :
              \/ FillIgnored(i, q, x)
              \/ FillRecordedOnly(i, q, x)
              \/ \E trailOk \in {"trail" \notin fail : fail \in Failures} :
                    EntryFilled(i, q, x, trailOk)
              \/ FillLostToDuplicateRow(i, q, x)
              \/ CloseFilled(i, q, x)
    BY <1>3 DEF KnownFill
  <2>2. PICK q \in Chunks(broker[orders[i].ibkr].pending), x \in 0 .. MaxOverstatement :
           \/ FillIgnored(i, q, x)
           \/ FillRecordedOnly(i, q, x)
           \/ \E trailOk \in {"trail" \notin fail : fail \in Failures} :
                 EntryFilled(i, q, x, trailOk)
           \/ FillLostToDuplicateRow(i, q, x)
           \/ CloseFilled(i, q, x)
    BY <2>1
  <2>3. x \in Nat
    BY LimitsAssumption
  <2>4. {"trail" \notin fail : fail \in Failures} \subseteq BOOLEAN
    OBVIOUS
  <2> QED
    BY <2>2, <2>3, <2>4, DroppedFillInv, FillRecordedOnlyInv, EntryFilledInv, CloseFilledInv
<1>4. CASE UnknownFill
  BY <1>4, OrphanFillInv DEF UnknownFill
<1>5. CASE BrokerStep
  BY <1>5, ExecuteInv, ConfirmCancelInv, ExternalOrderInv DEF BrokerStep
<1>6. CASE LinkStep
  BY <1>6, ServerRestartInv, LinkInv DEF LinkStep
<1>7. CASE CutShort
  BY <1>7, CutShortInv
<1>8. CASE UNCHANGED vars
  BY <1>8 DEF vars, IInv, TypeOK, Book
<1> QED
  BY <1>1, <1>2, <1>3, <1>4, <1>5, <1>6, <1>7, <1>8 DEF Next, HandleFill

LEMMA InvariantHolds == Spec => []IInv
BY InitInv, NextInv, PTL DEF Spec

\* The state is well formed in every reachable state.
THEOREM TypeCorrect == Spec => []TypeOK
<1>1. IInv => TypeOK
  BY DEF IInv
<1> QED
  BY <1>1, InvariantHolds, PTL

\* No execution of an order with an interval is lost between the broker and the
\* database, however it is split, capped or delayed.
THEOREM FillsAreConserved == Spec => []FillsConserved
<1>1. IInv => FillsConserved
  <2> SUFFICES ASSUME IInv, NEW i \in DOMAIN orders, orders[i].key.interval # NoInterval,
                      orders[i].ibkr # None
               PROVE  RowConserved(i)
    BY DEF FillsConserved, RowConserved
  <2>1. Book.orders = orders /\ Book.broker = broker /\ BookInv(Book)
    BY DEF Book, IInv
  <2>2. RowSound(orders[i])
    BY <2>1 DEF BookInv
  <2>3. Accounted(orders[i], broker[orders[i].ibkr])
    BY <2>1, <2>2 DEF BookInv, RowsAccounted, RowSound
  <2> QED BY <2>3 DEF Accounted, RowConserved
<1> QED
  BY <1>1, InvariantHolds, PTL

\* An order that has a row, that the broker still works on and that nobody tried to cancel
\* is in flight in the database.
THEOREM WorkingOrdersAreTracked == Spec => []WorkingOrdersTracked
<1>1. IInv => WorkingOrdersTracked
  <2>1. Book.orders = orders /\ Book.broker = broker
    BY DEF Book
  <2> QED BY <2>1 DEF IInv, BookInv, RowsAccounted, Accounted, WorkingOrdersTracked
<1> QED
  BY <1>1, InvariantHolds, PTL

----------------------------------------------------------------------------
(* The consumer implements its side of SignalQueue.                         *)

\* Consecutive numbers are a sequence.
LEMMA RunIsSeq ==
    ASSUME NEW h \in Nat, NEW m \in Nat, NEW w, w = [n \in 1 .. m |-> h + n]
    PROVE  w \in Seq(Nat) /\ Len(w) = m /\ \A n \in 1 .. m : w[n] = h + n
<1>1. \A n \in 1 .. m : h + n \in Nat
  OBVIOUS
<1>2. w \in [1 .. m -> Nat]
  BY <1>1
<1> QED
  BY <1>2

\* What Waiting is as a sequence.
LEMMA WaitingIsSeq ==
    ASSUME TypeOK
    PROVE  /\ Waiting \in Seq(Nat) /\ Len(Waiting) = Len(signals) - handled
           /\ DOMAIN signals = 1 .. Len(signals)
           /\ \A n \in 1 .. Len(signals) - handled : Waiting[n] = handled + n
<1>1. signals \in Seq(Signals) /\ handled \in 0 .. Len(signals) /\ Len(signals) \in Nat
  BY DEF TypeOK
<1>2. Len(signals) - handled \in Nat /\ handled \in Nat
  BY <1>1
<1>3. Waiting = [n \in 1 .. Len(signals) - handled |-> handled + n]
  BY DEF Waiting
<1> QED
  BY <1>1, <1>2, <1>3, RunIsSeq

\* A signal that arrives is new, and goes to the end of a queue with room.
LEMMA AcceptQueues ==
    ASSUME TypeOK, TypeOK', AcceptSignal
    PROVE  \E i \in 1 .. MaxSignals : Delivery!AcceptAndQueue(i)
<1> DEFINE n == Len(signals) + 1
<1>1. PICK s : /\ Len(signals) < MaxSignals /\ Len(signals) - handled < MaxQueued
               /\ signals' = Append(signals, s) /\ handled' = handled
  BY DEF AcceptSignal, Accept
<1>2. /\ signals \in Seq(Signals) /\ Len(signals) \in Nat
      /\ handled \in 0 .. Len(signals) /\ MaxSignals \in Nat
  BY LimitsAssumption DEF TypeOK
<1>3. Len(signals') = n
  BY <1>1, <1>2
<1>4. n \in 1 .. MaxSignals /\ n \notin DOMAIN signals
  BY <1>1, <1>2
<1>5. (DOMAIN signals)' = DOMAIN signals \cup {n}
  BY <1>2, <1>3, WaitingIsSeq, DOMAIN signals' = 1 .. Len(signals') DEF TypeOK
<1>6. Waiting' = Append(Waiting, n)
  <2>1. /\ Waiting \in Seq(Nat) /\ Len(Waiting) = Len(signals) - handled
        /\ \A m \in 1 .. Len(signals) - handled : Waiting[m] = handled + m
    BY WaitingIsSeq
  <2>2. /\ Waiting' \in Seq(Nat) /\ Len(Waiting') = n - handled
        /\ \A m \in 1 .. n - handled : Waiting'[m] = handled + m
    <3>1. Waiting' = [m \in 1 .. n - handled |-> handled + m]
      BY <1>1, <1>3 DEF Waiting
    <3>2. n - handled \in Nat /\ handled \in Nat
      BY <1>2
    <3> QED
      BY <3>1, <3>2, RunIsSeq
  <2> DEFINE a == Append(Waiting, n)
  <2>3. /\ a \in Seq(Nat) /\ Len(a) = Len(Waiting) + 1
        /\ \A m \in 1 .. Len(Waiting) : a[m] = Waiting[m]
        /\ a[Len(Waiting) + 1] = n
    <3>1. n \in Nat
      BY <1>2
    <3> QED
      BY <2>1, <3>1, AppendProperties
  <2>4. Len(a) = Len(Waiting')
    BY <1>2, <2>1, <2>2, <2>3
  <2>5. \A m \in 1 .. Len(Waiting') : Waiting'[m] = a[m]
    <3> SUFFICES ASSUME NEW m \in 1 .. n - handled PROVE a[m] = handled + m
      BY <2>2
    <3>1. CASE m = Len(Waiting) + 1
      BY <1>2, <2>1, <2>3, <3>1
    <3>2. CASE m # Len(Waiting) + 1
      BY <1>2, <2>1, <2>3, <3>2
    <3> QED
      BY <3>1, <3>2
  <2> HIDE DEF a
  <2>6. Waiting' = a
    BY <2>2, <2>3, <2>4, <2>5, SeqEqual
  <2> QED
    BY <2>6 DEF a
<1>7. Len(Waiting) < MaxQueued
  BY <1>1, WaitingIsSeq
<1> QED
  BY <1>4, <1>5, <1>6, <1>7 DEF Delivery!AcceptAndQueue

\* A handler takes the signal at the head, whatever else it does.
LEMMA DequeueTakes ==
    ASSUME TypeOK, Dequeue, (DOMAIN signals)' = DOMAIN signals, Len(signals') = Len(signals)
    PROVE  Delivery!Take
<1>1. /\ Len(signals) \in Nat /\ handled \in 0 .. Len(signals)
      /\ handled < Len(signals) /\ handled' = handled + 1
  BY DEF TypeOK, Dequeue
<1>2. /\ Waiting \in Seq(Nat) /\ Len(Waiting) = Len(signals) - handled
      /\ \A n \in 1 .. Len(signals) - handled : Waiting[n] = handled + n
  BY WaitingIsSeq
<1>3. Waiting # <<>>
  BY <1>1, <1>2
<1>4. Waiting' = Tail(Waiting)
  <2> DEFINE left == Len(signals) - handled - 1
             t == Tail(Waiting)
  <2>1. left \in Nat /\ handled + 1 \in Nat
    BY <1>1
  <2>2. /\ Waiting' \in Seq(Nat) /\ Len(Waiting') = left
        /\ \A n \in 1 .. left : Waiting'[n] = handled + 1 + n
    <3>1. Waiting' = [n \in 1 .. Len(signals') - handled' |-> handled' + n]
      BY DEF Waiting
    <3>2. Len(signals') - handled' = left
      BY <1>1
    <3>3. Waiting' = [n \in 1 .. left |-> handled + 1 + n]
      BY <1>1, <3>1, <3>2
    <3> HIDE DEF left
    <3> QED
      BY <2>1, <3>3, RunIsSeq
  <2>3. /\ t \in Seq(Nat) /\ Len(t) = Len(Waiting) - 1
        /\ \A n \in 1 .. Len(t) : t[n] = Waiting[n + 1]
    BY <1>2, <1>3, HeadTailProperties
  <2>4. Len(t) = Len(Waiting')
    BY <1>1, <1>2, <2>2, <2>3
  <2>5. \A n \in 1 .. Len(Waiting') : Waiting'[n] = t[n]
    <3> SUFFICES ASSUME NEW n \in 1 .. left PROVE t[n] = handled + 1 + n
      BY <2>2
    <3>1. n + 1 \in 1 .. Len(signals) - handled /\ n \in 1 .. Len(t)
      BY <1>1, <1>2, <2>3
    <3>2. t[n] = handled + (n + 1)
      BY <1>2, <2>3, <3>1
    <3>3. handled + (n + 1) = handled + 1 + n
      BY <1>1
    <3> QED
      BY <3>2, <3>3
  <2> HIDE DEF t
  <2>6. Waiting' = t
    BY <2>2, <2>3, <2>4, <2>5, SeqEqual
  <2> QED
    BY <2>6 DEF t
<1> QED
  BY <1>3, <1>4 DEF Delivery!Take

\* The end of the process empties the queue.
LEMMA RestartCrashes ==
    ASSUME TypeOK, ServerRestart
    PROVE  Delivery!Crash
<1>1. Len(signals) \in Nat /\ signals' = signals /\ handled' = Len(signals)
  <2>1. Len(signals) \in Nat
    BY DEF TypeOK
  <2>2. signals' = signals /\ handled' = Len(signals)
    BY DEF ServerRestart
  <2> QED
    BY <2>1, <2>2
<1>2. Waiting' = [n \in 1 .. 0 |-> handled' + n]
  BY <1>1 DEF Waiting
<1>3. Waiting' = <<>>
  BY <1>2
<1> QED
  BY <1>1, <1>3 DEF Delivery!Crash

\* A handler takes one signal, whatever it does with it.
LEMMA HandlerTakes ==
    ASSUME TypeOK, TypeOK', HandleSignal
    PROVE  Delivery!Take
<1>1. Dequeue /\ (UNCHANGED signals \/ Reject)
  BY DEF HandleSignal, RejectOffline, CloseNothing, CloseSignal, ReplaceEntry, OpenSignal
<1>2. (DOMAIN signals)' = DOMAIN signals /\ Len(signals') = Len(signals)
  <2>1. (DOMAIN signals)' = DOMAIN signals
    BY <1>1 DEF Reject
  <2>2. signals \in Seq(Signals) /\ signals' \in Seq(Signals)
    BY DEF TypeOK
  <2>3. /\ Len(signals) \in Nat /\ DOMAIN signals = 1 .. Len(signals)
        /\ Len(signals') \in Nat /\ (DOMAIN signals)' = 1 .. Len(signals')
    BY <2>2
  <2> QED
    BY <2>1, <2>3
<1> QED
  BY <1>1, <1>2, DequeueTakes

\* Nothing else but the end of the process touches the queue.
LEMMA QueueLeftAlone ==
    HandleFill \/ BrokerStep \/ TwsDown \/ TwsUp \/ ReconcileRead \/ ReconcileWrite
        => UNCHANGED <<signals, handled>>
<1>1. HandleFill => UNCHANGED <<signals, handled>>
  <2>1. ASSUME NEW i, NEW q, NEW x,
               FillIgnored(i, q, x) \/ FillRecordedOnly(i, q, x)
               \/ FillLostToDuplicateRow(i, q, x) \/ CloseFilled(i, q, x)
        PROVE  UNCHANGED <<signals, handled>>
    BY <2>1 DEF FillIgnored, FillRecordedOnly, FillLostToDuplicateRow, CloseFilled
  <2>2. ASSUME NEW i, NEW q, NEW x, NEW trailOk, EntryFilled(i, q, x, trailOk)
        PROVE  UNCHANGED <<signals, handled>>
    BY <2>2 DEF EntryFilled, EntryRecorded, FilledBook, WithStop
  <2>3. ASSUME NEW j, NEW q, OrphanFill(j, q)
        PROVE  UNCHANGED <<signals, handled>>
    BY <2>3 DEF OrphanFill
  <2> QED
    BY <2>1, <2>2, <2>3 DEF HandleFill, KnownFill, UnknownFill
<1>2. BrokerStep => UNCHANGED <<signals, handled>>
  <2>1. ASSUME NEW j, NEW q, Execute(j, q) \/ ConfirmCancel(j)
        PROVE  UNCHANGED <<signals, handled>>
    BY <2>1 DEF Execute, ConfirmCancel
  <2>2. ExternalOrder => UNCHANGED <<signals, handled>>
    BY DEF ExternalOrder
  <2> QED
    BY <2>1, <2>2 DEF BrokerStep
<1>3. TwsDown \/ TwsUp \/ ReconcileRead \/ ReconcileWrite => UNCHANGED <<signals, handled>>
  BY DEF TwsDown, TwsUp, ReconcileRead, ReconcileWrite
<1> QED
  BY <1>1, <1>2, <1>3

\* A handler cut short took its signal; a fill task takes none.
LEMMA CutShortQueue ==
    ASSUME TypeOK, TypeOK', CutShort
    PROVE  Delivery!Take \/ UNCHANGED <<signals, handled>>
<1>1. ASSUME NEW fail, SignalCut(fail) PROVE Dequeue /\ signals' = signals
  BY <1>1 DEF SignalCut
<1>2. ASSUME NEW i, NEW q, NEW x, StopCut(i, q, x) PROVE UNCHANGED <<signals, handled>>
  BY <1>2 DEF StopCut, EntryRecorded
<1> QED
  BY <1>1, <1>2, DequeueTakes DEF CutShort

LEMMA QueueStutters == UNCHANGED <<signals, handled>> => UNCHANGED Delivery!vars
BY DEF Delivery!vars, Waiting

LEMMA QueueStartsEmpty == Init => Delivery!Init
<1> SUFFICES ASSUME Init PROVE Delivery!Init
  OBVIOUS
<1>1. signals = <<>> /\ handled = 0
  BY DEF Init
<1>2. DOMAIN signals = {} /\ Waiting = <<>>
  BY <1>1 DEF Waiting
<1> QED
  BY <1>2 DEF Delivery!Init

\* Signals leave the queue in order and once each: the router implements the
\* consumer's side of SignalQueue, whatever fails and whenever it restarts.
THEOREM TakesSignalsInOrder == Spec => SignalsTakenInOrder
<1>1. IInv /\ IInv' /\ [Next]_vars => [Delivery!Next]_(Delivery!vars)
  <2> SUFFICES ASSUME IInv, IInv', [Next]_vars
               PROVE  Delivery!Next \/ UNCHANGED Delivery!vars
    OBVIOUS
  <2> USE DEF IInv
  <2>1. CASE AcceptSignal
    BY <2>1, AcceptQueues DEF Delivery!Next
  <2>2. CASE HandleSignal
    BY <2>2, HandlerTakes DEF Delivery!Next
  <2>3. CASE ServerRestart
    BY <2>3, RestartCrashes DEF Delivery!Next
  <2>4. CASE HandleFill \/ BrokerStep \/ TwsDown \/ TwsUp \/ ReconcileRead \/ ReconcileWrite
    BY <2>4, QueueLeftAlone, QueueStutters
  <2>5. CASE CutShort
    BY <2>5, CutShortQueue, QueueStutters DEF Delivery!Next
  <2>6. CASE UNCHANGED vars
    BY <2>6, QueueStutters DEF vars
  <2> QED
    BY <2>1, <2>2, <2>3, <2>4, <2>5, <2>6 DEF Next, LinkStep
<1> QED
  BY <1>1, QueueStartsEmpty, InvariantHolds, PTL DEF Spec, SignalsTakenInOrder, Delivery!Spec
=============================================================================
