-------------------------- MODULE MaintenanceProofs --------------------------
(***************************************************************************)
(* Theorems about Maintenance, for every instance: the state stays well    *)
(* formed, no row of an order left to work ends and no fill is invented    *)
(* while the close sequence runs against signals, fills and the broker     *)
(* without the symbol lock.                                                *)
(*                                                                         *)
(* The invariant of OrderRouterProofs does not hold here: an exit's row    *)
(* has no broker id for a while, a row made up for the same order may have *)
(* it meanwhile, and a late commit may cancel a row that was filled.       *)
(***************************************************************************)
EXTENDS Maintenance, OrderRouterProofs

\* What is left of RowSound, for a broker with n orders: the status of a row need
\* not agree with what it has recorded.
RowLinked(o, n) ==
    /\ o.ibkr \in 0 .. n
    /\ o.fillQty <= o.qty
    /\ o.role = "entry" => o.key \in SignalKeys /\ o.signal # None

\* No order reports more than it executed, or executes when it is complete.
OrderLinked(br) ==
    /\ br.pending + br.lost <= br.executed
    /\ br.executed <= br.qty
    /\ br.live => br.executed < br.qty

\* What is left of Accounted: row o has recorded nothing its order did not execute,
\* and is in flight while the order is left alone.  Two rows may name one order.
Placed(o, br) ==
    /\ o.qty = br.qty
    /\ o.fillQty + br.pending + br.lost <= br.executed
    /\ br.live /\ br.cancel = "none" => o.status \in InFlight

Linked(b) ==
    /\ b \in Books
    /\ \A i \in DOMAIN b.orders : RowLinked(b.orders[i], Len(b.broker))
    /\ \A j \in DOMAIN b.broker : OrderLinked(b.broker[j])
    /\ \A i \in DOMAIN b.orders :
          LET o == b.orders[i]
          IN  o.signal # None /\ o.ibkr # None => Placed(o, b.broker[o.ibkr])

\* What the router may do to a book behind the back of the close sequence: rows keep
\* their order, an exit that has none yet is left alone, and no order the broker was
\* asked to cancel counts as working again.
LeftAlone(br) == br.live /\ br.cancel = "none"

Follows(b, c) ==
    /\ Len(b.orders) <= Len(c.orders) /\ Len(b.broker) <= Len(c.broker)
    /\ \A i \in DOMAIN b.orders :
          /\ c.orders[i].ibkr = b.orders[i].ibkr
          /\ b.orders[i].role = "exit" /\ b.orders[i].ibkr = None => c.orders[i] = b.orders[i]
    /\ \A j \in DOMAIN b.broker :
          /\ c.broker[j].qty = b.broker[j].qty
          /\ LeftAlone(c.broker[j]) => LeftAlone(b.broker[j])

RouterInv ==
    /\ TypeOK
    /\ \A n \in DOMAIN signals : signals[n].kind = "open" => signals[n].qty > 0
    /\ Linked(Book)

\* Where the close sequence is: the broker was asked about the row it is about to
\* write, and an exit without an id is a fresh row for the order it was placed as.
CycleInv ==
    /\ MTypeOK
    /\ stage = "positions" => \A p \in todo : p.qty > 0
    /\ stale # None => orders[stale].ibkr # None /\ ~LeftAlone(broker[orders[stale].ibkr])
    /\ \A e \in exit :
          LET o == orders[e.row]
          IN  o.ibkr = None => /\ o.role = "exit" /\ o.status = "submitted"
                               /\ o.fillQty = 0 /\ o.qty = broker[e.ibkr].qty

MInv == RouterInv /\ CycleInv

----------------------------------------------------------------------------
(* Books.                                                                   *)

LEMMA FollowsSelf ==
    ASSUME NEW b \in Books
    PROVE  Follows(b, b)
BY DEF Follows, Books

LEMMA FollowsTwice ==
    ASSUME NEW b \in Books, NEW c \in Books, NEW d \in Books, Follows(b, c), Follows(c, d)
    PROVE  Follows(b, d)
<1>1. /\ Len(b.orders) \in Nat /\ Len(c.orders) \in Nat /\ Len(d.orders) \in Nat
      /\ Len(b.broker) \in Nat /\ Len(c.broker) \in Nat /\ Len(d.broker) \in Nat
      /\ DOMAIN b.orders = 1 .. Len(b.orders) /\ DOMAIN c.orders = 1 .. Len(c.orders)
      /\ DOMAIN b.broker = 1 .. Len(b.broker) /\ DOMAIN c.broker = 1 .. Len(c.broker)
  BY DEF Books
<1>2. /\ Len(b.orders) <= Len(c.orders) /\ Len(c.orders) <= Len(d.orders)
      /\ Len(b.broker) <= Len(c.broker) /\ Len(c.broker) <= Len(d.broker)
  BY DEF Follows
<1>3. ASSUME NEW i \in DOMAIN b.orders
      PROVE  /\ d.orders[i].ibkr = b.orders[i].ibkr
             /\ b.orders[i].role = "exit" /\ b.orders[i].ibkr = None
                   => d.orders[i] = b.orders[i]
  <2>1. i \in DOMAIN c.orders
    BY <1>1, <1>2
  <2>2. /\ c.orders[i].ibkr = b.orders[i].ibkr
        /\ b.orders[i].role = "exit" /\ b.orders[i].ibkr = None => c.orders[i] = b.orders[i]
    BY DEF Follows
  <2>3. /\ d.orders[i].ibkr = c.orders[i].ibkr
        /\ c.orders[i].role = "exit" /\ c.orders[i].ibkr = None => d.orders[i] = c.orders[i]
    BY <2>1 DEF Follows
  <2> QED BY <2>2, <2>3
<1>4. ASSUME NEW j \in DOMAIN b.broker
      PROVE  /\ d.broker[j].qty = b.broker[j].qty
             /\ LeftAlone(d.broker[j]) => LeftAlone(b.broker[j])
  <2>1. j \in DOMAIN c.broker
    BY <1>1, <1>2
  <2> QED BY <2>1 DEF Follows
<1> QED
  BY <1>1, <1>2, <1>3, <1>4 DEF Follows

\* The domains of a linked book, and what it says of each row.
LEMMA LinkedTypes ==
    ASSUME NEW b, Linked(b)
    PROVE  /\ b \in Books
           /\ b.orders \in Seq(OrderRows) /\ b.broker \in Seq(BrokerOrders)
           /\ Len(b.orders) \in Nat /\ DOMAIN b.orders = 1 .. Len(b.orders)
           /\ Len(b.broker) \in Nat /\ DOMAIN b.broker = 1 .. Len(b.broker)
           /\ \A i \in DOMAIN b.orders :
                 /\ b.orders[i] \in OrderRows
                 /\ RowLinked(b.orders[i], Len(b.broker))
                 /\ b.orders[i].ibkr # None => b.orders[i].ibkr \in DOMAIN b.broker
           /\ \A j \in DOMAIN b.broker :
                 /\ b.broker[j] \in BrokerOrders /\ OrderLinked(b.broker[j])
<1>1. /\ b \in Books
      /\ b.orders \in Seq(OrderRows) /\ b.broker \in Seq(BrokerOrders)
  BY DEF Linked, Books
<1>2. /\ Len(b.orders) \in Nat /\ DOMAIN b.orders = 1 .. Len(b.orders)
      /\ Len(b.broker) \in Nat /\ DOMAIN b.broker = 1 .. Len(b.broker)
  BY <1>1
<1>3. ASSUME NEW i \in DOMAIN b.orders
      PROVE  /\ b.orders[i] \in OrderRows
             /\ RowLinked(b.orders[i], Len(b.broker))
             /\ b.orders[i].ibkr # None => b.orders[i].ibkr \in DOMAIN b.broker
  <2>1. b.orders[i] \in OrderRows /\ RowLinked(b.orders[i], Len(b.broker))
    BY <1>1 DEF Linked
  <2> QED BY <2>1, <1>2 DEF RowLinked, None
<1>4. ASSUME NEW j \in DOMAIN b.broker
      PROVE  b.broker[j] \in BrokerOrders /\ OrderLinked(b.broker[j])
  BY <1>1 DEF Linked
<1> QED
  BY <1>1, <1>2, <1>3, <1>4

\* Placing an order, taken by the broker or not.
LEMMA SubmitLinks ==
    ASSUME NEW b, Linked(b), NEW row \in OrderRows, NEW ok \in BOOLEAN,
           row.fillQty = 0,
           row.role = "entry" => row.key \in SignalKeys /\ row.signal # None,
           NEW c, c = Submit(b, row, ok)
    PROVE  Linked(c) /\ Follows(b, c)
<1> DEFINE n == Len(b.orders) + 1
           m == Len(b.broker) + 1
<1>1. b \in Books
  BY DEF Linked
<1>2. SubmitEffect(b, c, row)
  BY <1>1, SubmitReturns
<1>3. /\ b.orders \in Seq(OrderRows) /\ b.broker \in Seq(BrokerOrders)
      /\ c.orders \in Seq(OrderRows) /\ c.broker \in Seq(BrokerOrders)
      /\ c \in Books
  BY <1>1, <1>2 DEF Books, SubmitEffect
<1>4. /\ Len(c.orders) = n
      /\ \A i \in DOMAIN b.orders : c.orders[i] = b.orders[i]
      /\ c.orders[n].signal = row.signal /\ c.orders[n].key = row.key
      /\ c.orders[n].role = row.role
      /\ c.orders[n].qty = row.qty /\ c.orders[n].fillQty = 0
  BY <1>2 DEF SubmitEffect
<1>5. /\ DOMAIN c.orders = DOMAIN b.orders \cup {n} /\ n \notin DOMAIN b.orders
      /\ DOMAIN b.broker = 1 .. m - 1 /\ m \in Nat \ {0} /\ Len(b.broker) = m - 1
      /\ Len(b.orders) <= Len(c.orders)
  BY <1>3, <1>4
<1>6. /\ DOMAIN c.broker \in {1 .. m - 1, 1 .. m} /\ Len(c.broker) \in {m - 1, m}
      /\ c.orders[n].ibkr \in {None, m}
      /\ c.orders[n].ibkr = m => /\ DOMAIN c.broker = 1 .. m /\ Len(c.broker) = m
                                 /\ c.orders[n].status = "submitted"
                                 /\ c.broker[m] = WorkingOrder(c.orders[n].key.symbol,
                                       Side(c.orders[n].role, c.orders[n].key.dir), row.qty)
      /\ c.orders[n].ibkr = None => DOMAIN c.broker = 1 .. m - 1
      /\ \A j \in DOMAIN b.broker : c.broker[j] = b.broker[j]
  <2>1. CASE Refused(b, c, c.orders[n])
    BY <2>1, <1>3, <1>5 DEF Refused, None
  <2>2. CASE Accepted(b, c, c.orders[n])
    BY <2>2, <1>3, <1>4, <1>5 DEF Accepted, None
  <2> QED BY <2>1, <2>2, <1>2 DEF SubmitEffect
<1>7. /\ row.qty \in Nat \ {0}
      /\ c.orders[n].ibkr = m => /\ c.broker[m].qty = row.qty /\ c.broker[m].executed = 0
                                 /\ c.broker[m].pending = 0 /\ c.broker[m].lost = 0
  BY <1>6 DEF WorkingOrder, OrderRows
<1> HIDE DEF n, m
<1>8. ASSUME NEW i \in DOMAIN c.orders PROVE RowLinked(c.orders[i], Len(c.broker))
  <2>1. CASE i = n
    <3>1. c.orders[n].ibkr \in 0 .. Len(c.broker)
      BY <1>5, <1>6 DEF None
    <3> QED BY <2>1, <3>1, <1>4, <1>7 DEF RowLinked
  <2>2. CASE i \in DOMAIN b.orders
    <3>1. RowLinked(b.orders[i], m - 1)
      BY <2>2, <1>5 DEF Linked
    <3>2. b.orders[i].ibkr \in 0 .. Len(c.broker)
      BY <3>1, <1>5, <1>6 DEF RowLinked
    <3> QED BY <2>2, <3>1, <3>2, <1>4 DEF RowLinked
  <2> QED BY <2>1, <2>2, <1>5
<1>9. ASSUME NEW j \in DOMAIN c.broker PROVE OrderLinked(c.broker[j])
  <2>1. CASE j \in DOMAIN b.broker
    BY <2>1, <1>6 DEF Linked
  <2>2. CASE j \notin DOMAIN b.broker
    <3>1. j = m /\ c.orders[n].ibkr = m
      BY <2>2, <1>5, <1>6 DEF None
    <3> QED BY <3>1, <1>7 DEF OrderLinked
  <2> QED BY <2>1, <2>2
<1>10. ASSUME NEW i \in DOMAIN c.orders, c.orders[i].signal # None, c.orders[i].ibkr # None
       PROVE  Placed(c.orders[i], c.broker[c.orders[i].ibkr])
  <2>1. CASE i = n
    BY <2>1, <1>4, <1>6, <1>7, <1>10 DEF Placed, InFlight
  <2>2. CASE i \in DOMAIN b.orders
    <3>1. c.orders[i] = b.orders[i] /\ b.orders[i].ibkr \in DOMAIN b.broker
      BY <2>2, <1>4, <1>10, LinkedTypes
    <3>2. Placed(b.orders[i], b.broker[b.orders[i].ibkr])
      BY <2>2, <3>1, <1>10 DEF Linked
    <3> QED BY <3>1, <3>2, <1>6
  <2> QED BY <2>1, <2>2, <1>5
<1>11. Linked(c)
  BY <1>3, <1>8, <1>9, <1>10 DEF Linked
<1>12. Len(b.broker) <= Len(c.broker)
  BY <1>5, <1>6
<1>13. Follows(b, c)
  BY <1>4, <1>5, <1>6, <1>12 DEF Follows
<1> QED
  BY <1>11, <1>13

\* Cancelling rows in flight, exits excepted, whether or not the broker was reached.
LEMMA CancelLinks ==
    ASSUME NEW b, Linked(b), NEW ids, NEW sig \in Nat, NEW ok \in BOOLEAN,
           ids \subseteq {i \in DOMAIN b.orders : b.orders[i].role # "exit"},
           NEW c, c = CancelRows(b, ids, sig, ok)
    PROVE  Linked(c) /\ Follows(b, c)
<1>1. /\ b \in Books /\ ids \subseteq DOMAIN b.orders
      /\ \A i \in ids : b.orders[i].role # "exit"
  BY DEF Linked
<1>2. CancelEffect(b, c, ids, sig)
  BY <1>1, CancelReturns
<1>3. /\ c \in Books
      /\ DOMAIN c.orders = DOMAIN b.orders /\ DOMAIN c.broker = DOMAIN b.broker
      /\ Len(c.broker) = Len(b.broker) /\ Len(c.orders) = Len(b.orders)
      /\ Len(b.orders) \in Nat /\ Len(b.broker) \in Nat
  BY <1>1, <1>2 DEF CancelEffect, Books
<1>4. ASSUME NEW i \in DOMAIN b.orders
      PROVE  \/ i \notin ids /\ c.orders[i] = b.orders[i]
             \/ i \in ids /\ CancelledRow(b.orders[i], c.orders[i])
  BY <1>2 DEF CancelEffect
<1>5. ASSUME NEW i \in DOMAIN b.orders PROVE c.orders[i].ibkr = b.orders[i].ibkr
  BY <1>4 DEF CancelledRow
<1>6. ASSUME NEW i \in DOMAIN c.orders PROVE RowLinked(c.orders[i], Len(c.broker))
  <2>1. RowLinked(b.orders[i], Len(b.broker))
    BY <1>3 DEF Linked
  <2> QED BY <2>1, <1>3, <1>4 DEF RowLinked, CancelledRow
<1>7. ASSUME NEW j \in DOMAIN b.broker
      PROVE  /\ SameExecution(b.broker[j], c.broker[j])
             /\ LeftAlone(c.broker[j]) => LeftAlone(b.broker[j])
  <2>1. SameExecution(b.broker[j], c.broker[j])
    BY <1>2 DEF CancelEffect
  <2> QED BY <2>1 DEF SameExecution, LeftAlone
<1>8. ASSUME NEW j \in DOMAIN c.broker PROVE OrderLinked(c.broker[j])
  <2>1. OrderLinked(b.broker[j]) /\ SameExecution(b.broker[j], c.broker[j])
    BY <1>3, <1>7 DEF Linked
  <2> QED BY <2>1 DEF OrderLinked, SameExecution
<1>9. ASSUME NEW i \in DOMAIN c.orders, c.orders[i].signal # None, c.orders[i].ibkr # None
      PROVE  Placed(c.orders[i], c.broker[c.orders[i].ibkr])
  <2> DEFINE j == b.orders[i].ibkr
  <2>1. i \in DOMAIN b.orders /\ c.orders[i].ibkr = j
    BY <1>3, <1>5
  <2>2. j \in DOMAIN b.broker
    BY <2>1, <1>9, LinkedTypes
  <2>3. SameExecution(b.broker[j], c.broker[j])
    BY <2>2, <1>7
  <2>4. b.orders[i].signal # None
    BY <2>1, <1>4, <1>9 DEF CancelledRow
  <2>5. Placed(b.orders[i], b.broker[j])
    BY <2>1, <2>4, <1>9 DEF Linked
  <2>6. i \in ids => ~(c.broker[j].live /\ c.broker[j].cancel = "none")
    BY <2>2, <1>2 DEF CancelEffect
  <2> HIDE DEF j
  <2> QED BY <2>1, <2>3, <2>5, <2>6, <1>4 DEF Placed, SameExecution, CancelledRow
<1>10. Linked(c)
  BY <1>3, <1>6, <1>8, <1>9 DEF Linked
<1>11. ASSUME NEW i \in DOMAIN b.orders, b.orders[i].role = "exit"
       PROVE  c.orders[i] = b.orders[i]
  BY <1>1, <1>4, <1>11
<1>12. ASSUME NEW j \in DOMAIN b.broker PROVE c.broker[j].qty = b.broker[j].qty
  BY <1>7 DEF SameExecution
<1>13. Follows(b, c)
  BY <1>3, <1>5, <1>7, <1>11, <1>12 DEF Follows
<1> QED
  BY <1>10, <1>13

\* One row may change, as long as it fits its order.
LEMMA RowUpdateLinks ==
    ASSUME NEW b, Linked(b), NEW i \in DOMAIN b.orders, NEW row \in OrderRows,
           RowLinked(row, Len(b.broker)),
           row.signal # None /\ row.ibkr # None => Placed(row, b.broker[row.ibkr]),
           NEW c, c = [orders |-> [b.orders EXCEPT ![i] = row], broker |-> b.broker]
    PROVE  /\ Linked(c)
           /\ DOMAIN c.orders = DOMAIN b.orders /\ Len(c.orders) = Len(b.orders)
           /\ c.orders[i] = row
           /\ \A l \in DOMAIN b.orders \ {i} : c.orders[l] = b.orders[l]
           /\ row.ibkr = b.orders[i].ibkr /\ row.ibkr # None => Follows(b, c)
<1>1. /\ b.orders \in Seq(OrderRows) /\ b.broker \in Seq(BrokerOrders)
      /\ Len(b.orders) \in Nat /\ Len(b.broker) \in Nat
  BY LinkedTypes
<1>2. /\ c.orders \in Seq(OrderRows) /\ Len(c.orders) = Len(b.orders)
      /\ DOMAIN c.orders = DOMAIN b.orders
      /\ c.orders[i] = row
      /\ \A l \in DOMAIN b.orders \ {i} : c.orders[l] = b.orders[l]
  <2>1. c.orders = [b.orders EXCEPT ![i] = row]
    OBVIOUS
  <2> QED BY <2>1, <1>1, ExceptSeq
<1>3. c \in Books /\ c.broker = b.broker
  BY <1>1, <1>2 DEF Books
<1>4. ASSUME NEW l \in DOMAIN c.orders PROVE RowLinked(c.orders[l], Len(c.broker))
  BY <1>2, <1>3 DEF Linked
<1>5. ASSUME NEW l \in DOMAIN c.orders, c.orders[l].signal # None, c.orders[l].ibkr # None
      PROVE  Placed(c.orders[l], c.broker[c.orders[l].ibkr])
  BY <1>2, <1>3, <1>5 DEF Linked
<1>6. Linked(c)
  BY <1>3, <1>4, <1>5 DEF Linked
<1>7. ASSUME row.ibkr = b.orders[i].ibkr, row.ibkr # None PROVE Follows(b, c)
  BY <1>1, <1>2, <1>3, <1>7 DEF Follows
<1> QED
  BY <1>2, <1>6, <1>7

\* One order may change, as long as it keeps what its rows have recorded within what
\* it executed.
LEMMA OrderUpdateLinks ==
    ASSUME NEW b, Linked(b), NEW j \in DOMAIN b.broker,
           NEW br \in BrokerOrders, OrderLinked(br), br.qty = b.broker[j].qty,
           br.pending + br.lost - br.executed
              <= b.broker[j].pending + b.broker[j].lost - b.broker[j].executed,
           LeftAlone(br) => LeftAlone(b.broker[j]),
           NEW c, c = [orders |-> b.orders, broker |-> [b.broker EXCEPT ![j] = br]]
    PROVE  Linked(c) /\ Follows(b, c) /\ c.broker[j] = br /\ DOMAIN c.broker = DOMAIN b.broker
<1>1. /\ b.orders \in Seq(OrderRows) /\ b.broker \in Seq(BrokerOrders)
      /\ Len(b.orders) \in Nat /\ Len(b.broker) \in Nat /\ b.broker[j] \in BrokerOrders
  BY LinkedTypes
<1>2. /\ c.broker \in Seq(BrokerOrders) /\ Len(c.broker) = Len(b.broker)
      /\ DOMAIN c.broker = DOMAIN b.broker
      /\ c.broker[j] = br
      /\ \A l \in DOMAIN b.broker \ {j} : c.broker[l] = b.broker[l]
  <2>1. c.broker = [b.broker EXCEPT ![j] = br]
    OBVIOUS
  <2> QED BY <2>1, <1>1, ExceptSeq
<1>3. c \in Books /\ c.orders = b.orders
  BY <1>1, <1>2 DEF Books
<1>4. ASSUME NEW l \in DOMAIN c.orders PROVE RowLinked(c.orders[l], Len(c.broker))
  BY <1>2, <1>3 DEF Linked
<1>5. ASSUME NEW l \in DOMAIN c.broker PROVE OrderLinked(c.broker[l])
  BY <1>2 DEF Linked
<1>6. ASSUME NEW l \in DOMAIN c.orders, c.orders[l].signal # None, c.orders[l].ibkr # None
      PROVE  Placed(c.orders[l], c.broker[c.orders[l].ibkr])
  <2> DEFINE o == b.orders[l]
  <2>1. c.orders[l] = o /\ o \in OrderRows /\ Placed(o, b.broker[o.ibkr])
    BY <1>1, <1>3, <1>6 DEF Linked
  <2>2. CASE o.ibkr = j
    <3> DEFINE f == o.fillQty
               p == b.broker[j].pending
               k == b.broker[j].lost
               e == b.broker[j].executed
               p2 == br.pending
               k2 == br.lost
               e2 == br.executed
    <3>1. f \in Nat /\ p \in Nat /\ k \in Nat /\ e \in Nat /\ p2 \in Nat /\ k2 \in Nat /\ e2 \in Nat
      BY <1>1, <2>1 DEF OrderRows, BrokerOrders
    <3>2. p2 + k2 - e2 <= p + k - e /\ f + p + k <= e
      BY <2>1, <2>2 DEF Placed
    <3>3. f + p2 + k2 <= e2
      <4> HIDE DEF f, p, k, e, p2, k2, e2
      <4> QED BY <3>1, <3>2
    <3> HIDE DEF o
    <3> QED BY <2>1, <2>2, <3>3, <1>2 DEF Placed, LeftAlone
  <2>3. CASE o.ibkr # j
    <3>1. o.ibkr \in DOMAIN b.broker
      BY <2>1, <1>3, <1>6, LinkedTypes
    <3> QED BY <2>1, <2>3, <3>1, <1>2
  <2> QED BY <2>2, <2>3
<1>7. Linked(c)
  BY <1>3, <1>4, <1>5, <1>6 DEF Linked
<1>8. Follows(b, c)
  BY <1>1, <1>2, <1>3 DEF Follows
<1> QED
  BY <1>2, <1>7, <1>8

\* A report of q units is taken from what the broker has to deliver.
LEMMA TakeLinks ==
    ASSUME NEW b, Linked(b), NEW j \in DOMAIN b.broker,
           NEW q \in Nat \ {0}, q <= b.broker[j].pending,
           NEW c, c = [orders |-> b.orders, broker |-> TakeReport(b.broker, j, q)]
    PROVE  /\ Linked(c) /\ Follows(b, c) /\ DOMAIN c.broker = DOMAIN b.broker
           /\ c.broker[j].qty = b.broker[j].qty /\ c.broker[j].live = b.broker[j].live
           /\ c.broker[j].cancel = b.broker[j].cancel
           /\ c.broker[j].executed = b.broker[j].executed
           /\ c.broker[j].lost = b.broker[j].lost
           /\ c.broker[j].pending = b.broker[j].pending - q
<1> DEFINE o == b.broker[j]
           rest == o.pending - q
           br == [o EXCEPT !.pending = rest]
<1>1. o \in BrokerOrders /\ OrderLinked(o)
  BY LinkedTypes
<1>2. o.pending \in Nat /\ o.executed \in Nat /\ o.lost \in Nat /\ rest \in Nat
  BY <1>1 DEF BrokerOrders
<1>3. c = [orders |-> b.orders, broker |-> [b.broker EXCEPT ![j] = br]]
  BY DEF TakeReport
<1>4. /\ br.qty = o.qty /\ br.executed = o.executed /\ br.lost = o.lost
      /\ br.live = o.live /\ br.cancel = o.cancel /\ br.pending = rest
      /\ br \in BrokerOrders
  <2> HIDE DEF rest, o
  <2> QED BY <1>1, <1>2 DEF BrokerOrders
<1> HIDE DEF br
<1>5. OrderLinked(br)
  BY <1>1, <1>2, <1>4 DEF OrderLinked
<1>6. br.pending + br.lost - br.executed <= o.pending + o.lost - o.executed
  BY <1>2, <1>4
<1>7. LeftAlone(br) => LeftAlone(o)
  BY <1>4 DEF LeftAlone
<1>8. Linked(c) /\ Follows(b, c) /\ c.broker[j] = br /\ DOMAIN c.broker = DOMAIN b.broker
  <2> HIDE DEF rest
  <2> QED BY <1>3, <1>4, <1>5, <1>6, <1>7, OrderUpdateLinks
<1> QED
  BY <1>4, <1>8

\* A row that records the whole of a report stays in step with its order.
LEMMA RecordedPlaced ==
    ASSUME NEW o \in OrderRows, NEW br \in BrokerOrders, OrderLinked(br), Placed(o, br),
           NEW q \in Nat, q <= br.pending,
           NEW row, row = AfterFill(o, q), NEW taken,
           taken.qty = br.qty, taken.live = br.live, taken.executed = br.executed,
           taken.lost = br.lost, taken.pending = br.pending - q
    PROVE  Placed(row, taken)
<1> DEFINE f == o.fillQty
           p == br.pending
           l == br.lost
           e == br.executed
<1>1. f \in Nat /\ p \in Nat /\ l \in Nat /\ e \in Nat /\ o.qty \in Nat
  BY DEF OrderRows, BrokerOrders
<1>2. o.qty = br.qty /\ f + p + l <= e /\ (br.live => e < br.qty)
  BY DEF Placed, OrderLinked
<1>3. /\ row.qty = o.qty /\ row.fillQty = f + q
      /\ row.status = IF f + q >= o.qty THEN "filled" ELSE "partially_filled"
  BY AfterFillReturns
<1>4. /\ taken.qty = br.qty /\ taken.executed = e /\ taken.lost = l
      /\ taken.live = br.live /\ taken.pending = p - q /\ q <= p
  OBVIOUS
<1> HIDE DEF f, p, l, e
<1>5. (f + q) + (p - q) + l <= e
  BY <1>1, <1>2
<1>6. br.live => f + q < o.qty
  BY <1>1, <1>2, <1>4
<1>7. taken.live => row.status \in InFlight
  BY <1>1, <1>3, <1>4, <1>6 DEF InFlight
<1> QED BY <1>2, <1>3, <1>4, <1>5, <1>7 DEF Placed

\* A report of q units recorded on its row, n of them counted.
LEMMA FillLinks ==
    ASSUME NEW b, Linked(b), NEW i \in DOMAIN b.orders,
           NEW j, j = b.orders[i].ibkr, j # None,
           NEW q \in Nat \ {0}, q <= b.broker[j].pending,
           NEW n \in Nat \ {0}, n <= Remaining(b.orders[i]),
           b.orders[i].signal # None => n = q,
           NEW c, c = [orders |-> [b.orders EXCEPT ![i] = AfterFill(@, n)],
                       broker |-> TakeReport(b.broker, j, q)]
    PROVE  Linked(c) /\ Follows(b, c)
<1> DEFINE o == b.orders[i]
           row == AfterFill(o, n)
           d == [orders |-> b.orders, broker |-> TakeReport(b.broker, j, q)]
<1>1. /\ o \in OrderRows /\ j \in DOMAIN b.broker /\ b.broker[j] \in BrokerOrders
      /\ RowLinked(o, Len(b.broker)) /\ OrderLinked(b.broker[j])
      /\ b \in Books /\ Len(b.broker) \in Nat /\ DOMAIN b.broker = 1 .. Len(b.broker)
  BY LinkedTypes
<1>2. o.signal # None => Placed(o, b.broker[j])
  BY DEF Linked
<1>3. /\ Linked(d) /\ Follows(b, d) /\ DOMAIN d.broker = DOMAIN b.broker
      /\ d.broker[j].qty = b.broker[j].qty /\ d.broker[j].live = b.broker[j].live
      /\ d.broker[j].cancel = b.broker[j].cancel
      /\ d.broker[j].executed = b.broker[j].executed
      /\ d.broker[j].lost = b.broker[j].lost
      /\ d.broker[j].pending = b.broker[j].pending - q
  <2>1. d = [orders |-> b.orders, broker |-> TakeReport(b.broker, j, q)]
    OBVIOUS
  <2>2. j \in DOMAIN b.broker
    BY <1>1
  <2> HIDE DEF d, o, row
  <2> QED BY ONLY Linked(b), <2>1, <2>2, TakeLinks,
                  q \in Nat \ {0}, q <= b.broker[j].pending
<1>4. d.orders = b.orders
  OBVIOUS
<1>5. c = [orders |-> [d.orders EXCEPT ![i] = row], broker |-> d.broker]
  OBVIOUS
<1> HIDE DEF d
<1>6. j \in 1 .. Len(d.broker) /\ Len(d.broker) \in Nat
  <2>1. Len(d.broker) \in Nat /\ DOMAIN d.broker = 1 .. Len(d.broker)
    BY <1>3, LinkedTypes
  <2> QED BY <2>1, <1>1, <1>3
<1>7. o.ibkr = j
  OBVIOUS
<1> HIDE DEF o
<1>8. /\ row.signal = o.signal /\ row.key = o.key /\ row.role = o.role /\ row.qty = o.qty
      /\ row.ibkr = o.ibkr /\ row.fillQty = o.fillQty + n
      /\ row.status = (IF o.fillQty + n >= o.qty THEN "filled" ELSE "partially_filled")
      /\ row \in OrderRows
  <2>1. o \in OrderRows /\ n \in Nat
    BY <1>1
  <2> QED BY <2>1, AfterFillReturns
<1>9. n <= o.qty - o.fillQty /\ o.qty \in Nat /\ o.fillQty \in Nat
  BY <1>1 DEF Remaining, OrderRows, o
<1>10. o.signal # None => Placed(row, d.broker[j])
  <2>1. SUFFICES ASSUME o.signal # None PROVE Placed(row, d.broker[j])
    OBVIOUS
  <2>2. Placed(o, b.broker[j]) /\ row = AfterFill(o, q)
    BY <2>1, <1>2 DEF o
  <2> HIDE DEF row
  <2> QED BY <2>2, <1>1, <1>3, RecordedPlaced
<1> HIDE DEF row
<1>11. RowLinked(row, Len(d.broker))
  BY <1>1, <1>6, <1>7, <1>8, <1>9 DEF RowLinked
<1>12. row.signal # None => Placed(row, d.broker[row.ibkr])
  <2>1. row.ibkr = j /\ row.signal = o.signal
    BY <1>7, <1>8
  <2> QED BY <2>1, <1>10
<1>13. Linked(c) /\ Follows(d, c)
  <2>1. row.ibkr = d.orders[i].ibkr /\ row.ibkr # None /\ i \in DOMAIN d.orders
    BY <1>4, <1>7, <1>8
  <2>2. row.signal # None /\ row.ibkr # None => Placed(row, d.broker[row.ibkr])
    BY <1>12
  <2>3. row \in OrderRows
    BY <1>8
  <2>4. Linked(d)
    BY <1>3
  <2> QED BY <2>1, <2>2, <2>3, <2>4, <1>5, <1>11, RowUpdateLinks
<1>14. c \in Books /\ d \in Books
  BY <1>3, <1>13, LinkedTypes
<1> QED
  BY <1>1, <1>3, <1>13, <1>14, FollowsTwice

\* A row may be made up for an order that has none.
LEMMA MadeUpRowLinks ==
    ASSUME NEW b, Linked(b), NEW row \in OrderRows, RowLinked(row, Len(b.broker)),
           row.signal = None,
           NEW c, c = [orders |-> Append(b.orders, row), broker |-> b.broker]
    PROVE  Linked(c) /\ Follows(b, c)
<1> DEFINE n == Len(b.orders) + 1
<1>1. /\ b.orders \in Seq(OrderRows) /\ b.broker \in Seq(BrokerOrders)
      /\ Len(b.orders) \in Nat /\ Len(b.broker) \in Nat
  BY LinkedTypes
<1>2. c.orders = Append(b.orders, row) /\ c.broker = b.broker
  OBVIOUS
<1>3. /\ c \in Books
      /\ DOMAIN c.orders = DOMAIN b.orders \cup {n} /\ Len(c.orders) = n
      /\ c.orders[n] = row
      /\ \A i \in DOMAIN b.orders : c.orders[i] = b.orders[i]
  <2>1. c.orders \in Seq(OrderRows) /\ Len(c.orders) = n
    BY <1>1, <1>2
  <2>2. c \in Books
    BY <2>1, <1>1, <1>2 DEF Books
  <2> QED BY <2>1, <2>2, <1>1, <1>2
<1>4. Len(b.orders) <= Len(c.orders)
  BY <1>1, <1>3
<1> HIDE DEF n
<1>5. ASSUME NEW i \in DOMAIN c.orders PROVE RowLinked(c.orders[i], Len(c.broker))
  BY <1>2, <1>3 DEF Linked
<1>6. ASSUME NEW i \in DOMAIN c.orders, c.orders[i].signal # None, c.orders[i].ibkr # None
      PROVE  Placed(c.orders[i], c.broker[c.orders[i].ibkr])
  BY <1>2, <1>3, <1>6 DEF Linked
<1>7. Linked(c)
  BY <1>2, <1>3, <1>5, <1>6 DEF Linked
<1>8. Follows(b, c)
  BY <1>1, <1>2, <1>3, <1>4 DEF Follows
<1> QED
  BY <1>7, <1>8

\* The rows of a book stay linked when every order keeps its quantity and what its
\* rows have recorded, and no order comes back to work.
LEMMA SameRowsLinks ==
    ASSUME NEW b, Linked(b), NEW br \in Seq(BrokerOrders), Len(b.broker) <= Len(br),
           \A j \in DOMAIN br : OrderLinked(br[j]),
           \A j \in DOMAIN b.broker :
              /\ br[j].qty = b.broker[j].qty
              /\ br[j].pending + br[j].lost = b.broker[j].pending + b.broker[j].lost
              /\ br[j].executed = b.broker[j].executed
              /\ LeftAlone(br[j]) => LeftAlone(b.broker[j]),
           NEW c, c = [orders |-> b.orders, broker |-> br]
    PROVE  Linked(c) /\ Follows(b, c)
<1>1. /\ b \in Books /\ b.orders \in Seq(OrderRows) /\ b.broker \in Seq(BrokerOrders)
      /\ Len(b.orders) \in Nat /\ Len(b.broker) \in Nat /\ Len(br) \in Nat
      /\ DOMAIN br = 1 .. Len(br) /\ DOMAIN b.broker = 1 .. Len(b.broker)
  BY LinkedTypes
<1>2. c.orders = b.orders /\ c.broker = br /\ c \in Books
  BY <1>1 DEF Books
<1>3. DOMAIN b.broker \subseteq DOMAIN br
  BY <1>1
<1>4. ASSUME NEW i \in DOMAIN c.orders PROVE RowLinked(c.orders[i], Len(c.broker))
  <2>1. RowLinked(b.orders[i], Len(b.broker))
    BY <1>2 DEF Linked
  <2>2. b.orders[i].ibkr \in 0 .. Len(br)
    BY <2>1, <1>1 DEF RowLinked
  <2> QED BY <2>1, <2>2, <1>2 DEF RowLinked
<1>5. ASSUME NEW i \in DOMAIN c.orders, c.orders[i].signal # None, c.orders[i].ibkr # None
      PROVE  Placed(c.orders[i], c.broker[c.orders[i].ibkr])
  <2> DEFINE o == b.orders[i]
             j == o.ibkr
  <2>1. /\ c.orders[i] = o /\ o \in OrderRows /\ Placed(o, b.broker[j])
        /\ j \in DOMAIN b.broker /\ b.broker[j] \in BrokerOrders
    BY <1>2, <1>5, LinkedTypes DEF Linked
  <2>2. br[j] \in BrokerOrders
    BY <2>1, <1>3
  <2>3. /\ o.fillQty \in Nat /\ b.broker[j].pending \in Nat /\ b.broker[j].lost \in Nat
        /\ br[j].pending \in Nat /\ br[j].lost \in Nat
    BY <2>1, <2>2 DEF OrderRows, BrokerOrders
  <2>4. o.fillQty + br[j].pending + br[j].lost <= b.broker[j].executed
    <3> DEFINE f == o.fillQty
               p == b.broker[j].pending
               l == b.broker[j].lost
               p2 == br[j].pending
               l2 == br[j].lost
               e == b.broker[j].executed
    <3>1. /\ f \in Nat /\ p \in Nat /\ l \in Nat /\ p2 \in Nat /\ l2 \in Nat /\ e \in Nat
          /\ p2 + l2 = p + l /\ f + p + l <= e
      BY <2>1, <2>3 DEF Placed, BrokerOrders
    <3>2. f + p2 + l2 <= e
      <4> HIDE DEF f, p, l, p2, l2, e
      <4> QED BY <3>1
    <3> QED BY <3>2
  <2>5. /\ br[j].qty = b.broker[j].qty /\ br[j].executed = b.broker[j].executed
        /\ LeftAlone(br[j]) => LeftAlone(b.broker[j])
    BY <2>1
  <2> QED BY <2>1, <2>4, <2>5, <1>2 DEF Placed, LeftAlone
<1>6. Linked(c)
  BY <1>2, <1>4, <1>5 DEF Linked
<1>7. Follows(b, c)
  BY <1>1, <1>2 DEF Follows
<1> QED
  BY <1>6, <1>7

----------------------------------------------------------------------------
(* The books the signal handlers make.                                      *)

BookKept ==
    /\ Linked(Book)' /\ Follows(Book, Book')
    /\ orders' \in Seq(OrderRows) /\ broker' \in Seq(BrokerOrders)

\* The book a handler sets is the next state's book.
LEMMA SetBookKept ==
    ASSUME NEW c, Linked(c), Follows(Book, c), SetBook(c)
    PROVE  BookKept
<1>1. c \in Books /\ orders' = c.orders /\ broker' = c.broker
  BY DEF Linked, SetBook
<1>2. Book' = c
  BY <1>1 DEF Book, Books
<1>3. Linked(Book)'
  BY <1>2
<1> QED
  BY <1>1, <1>2, <1>3 DEF Books, BookKept

LEMMA SameBookKept ==
    ASSUME RouterInv, UNCHANGED <<orders, broker>>
    PROVE  BookKept
<1>1. Book \in Books /\ Linked(Book)
  BY DEF RouterInv, Linked
<1>2. Book' = Book
  BY DEF Book
<1>3. Linked(Book)'
  BY <1>1, <1>2
<1>4. Follows(Book, Book')
  BY <1>1, <1>2, FollowsSelf
<1>5. orders' \in Seq(OrderRows) /\ broker' \in Seq(BrokerOrders)
  BY DEF RouterInv, TypeOK
<1> QED
  BY <1>3, <1>4, <1>5 DEF BookKept

LEMMA PlaceCloseLinks ==
    ASSUME NEW b, Linked(b), NEW sig \in Nat \ {0}, NEW k \in PosKeys,
           pos[k] \in Nat \ {0}, NEW cancelOk \in BOOLEAN, NEW exitOk \in BOOLEAN,
           NEW c, c = PlaceClose(b, sig, k, cancelOk, exitOk)
    PROVE  Linked(c) /\ Follows(b, c)
<1> DEFINE ids == Newest(ActiveTrails(b, k))
           d == CancelRows(b, ids, None, cancelOk)
           row == NewRow(sig, k, "exit", pos[k], None)
<1>1. ids \subseteq {i \in DOMAIN b.orders : b.orders[i].role # "exit"}
  BY DEF Newest, ActiveTrails, InFlightRows
<1>2. Linked(d) /\ Follows(b, d)
  BY <1>1, CancelLinks DEF None
<1>3. row \in OrderRows /\ row.fillQty = 0 /\ row.role = "exit"
  BY NewRowType, PositionKeyTypes DEF None, Roles
<1>4. c = Submit(d, row, exitOk)
  BY DEF PlaceClose
<1> HIDE DEF d, row
<1>5. Linked(c) /\ Follows(d, c)
  BY <1>2, <1>3, <1>4, SubmitLinks
<1> QED
  BY <1>2, <1>5, FollowsTwice, LinkedTypes

LEMMA UnwoundLinks ==
    ASSUME NEW b, Linked(b), NEW sig \in Nat \ {0}, NEW o \in OrderRows, NEW fail,
           NEW c, c = Unwound(b, sig, o, fail)
    PROVE  Linked(c) /\ Follows(b, c)
<1> DEFINE exitRow == NewRow(sig, o.key, "exit", o.fillQty, None)
<1>1. CASE o.fillQty > 0 /\ ReplaceMode = "replace"
  <2>1. exitRow \in OrderRows /\ exitRow.fillQty = 0 /\ exitRow.role = "exit"
    <3>1. o.key \in OrderKeys /\ o.fillQty \in Nat \ {0} /\ "exit" \in Roles /\ None \in Nat
      BY <1>1 DEF None, Roles, OrderRows
    <3> QED BY <3>1, NewRowType
  <2>2. c = Submit(b, exitRow, "exitSame" \notin fail)
    BY <1>1 DEF Unwound
  <2> HIDE DEF exitRow
  <2> QED BY <2>1, <2>2, SubmitLinks
<1>2. CASE ~(o.fillQty > 0 /\ ReplaceMode = "replace")
  BY <1>2, FollowsSelf, LinkedTypes DEF Unwound
<1> QED
  BY <1>1, <1>2

LEMMA ReplacementLinks ==
    ASSUME NEW b, Linked(b), NEW sig \in Nat \ {0}, NEW k \in SignalKeys,
           NEW old \in InFlightEntries(b, k), NEW qty \in Nat \ {0}, NEW fail,
           NEW c, c = Replacement(b, sig, old, qty, fail)
    PROVE  Linked(c) /\ Follows(b, c)
<1> DEFINE o == b.orders[old]
           d == CancelRows(b, {old}, sig, "cancelEntry" \notin fail)
           u == Unwound(d, sig, o, fail)
           entry == NewRow(sig, o.key, "entry", qty, None)
<1>1. /\ old \in DOMAIN b.orders /\ o.role = "entry" /\ o.key = k
      /\ o \in OrderRows
  <2>1. old \in DOMAIN b.orders /\ o.role = "entry" /\ o.key = k
    BY DEF InFlightEntries, InFlightRows
  <2> QED BY <2>1, LinkedTypes
<1>2. Linked(d) /\ Follows(b, d)
  BY <1>1, CancelLinks
<1>3. k \in OrderKeys
  BY KeyTypes
<1>4. entry \in OrderRows /\ entry.signal # None /\ entry.fillQty = 0 /\ entry.key \in SignalKeys
  BY <1>1, <1>3, NewRowType DEF None, Roles
<1>5. Linked(u) /\ Follows(d, u)
  <2> HIDE DEF o, d
  <2> QED BY <1>1, <1>2, UnwoundLinks
<1>6. c = Submit(u, entry, "entry" \notin fail)
  BY DEF Replacement
<1> HIDE DEF u, entry, d
<1>7. Linked(c) /\ Follows(u, c)
  BY <1>4, <1>5, <1>6, SubmitLinks
<1>8. b \in Books /\ d \in Books /\ u \in Books /\ c \in Books
  BY <1>2, <1>5, <1>7, LinkedTypes
<1>9. Follows(b, u)
  BY <1>2, <1>5, <1>8, FollowsTwice
<1> QED
  BY <1>7, <1>8, <1>9, FollowsTwice

LEMMA ClosedSameLinks ==
    ASSUME TypeOK, NEW b, Linked(b), NEW sig \in Nat \ {0}, NEW k \in SignalKeys,
           NEW fail, NEW c, c = ClosedSame(b, sig, k, fail)
    PROVE  Linked(c) /\ Follows(b, c)
<1> DEFINE same == PosKey(k)
           close == PlaceClose(b, sig, same, "cancelSame" \notin fail, "exitSame" \notin fail)
<1>1. /\ same \in PosKeys /\ pos[same] \in Nat
      /\ c = IF pos[same] > 0 THEN close ELSE b
  BY KeyTypes DEF TypeOK, ClosedSame
<1> HIDE DEF same
<1>2. CASE pos[same] > 0
  <2>1. pos[same] \in Nat \ {0} /\ c = close
    BY <1>1, <1>2
  <2> QED BY <2>1, <1>1, PlaceCloseLinks
<1>3. CASE ~(pos[same] > 0)
  BY <1>1, <1>3, FollowsSelf, LinkedTypes
<1> QED
  BY <1>2, <1>3

LEMMA CancelledOppositeLinks ==
    ASSUME NEW b, Linked(b), NEW sig \in Nat \ {0}, NEW k,
           NEW fail, NEW c, c = CancelledOpposite(b, sig, k, fail)
    PROVE  Linked(c) /\ Follows(b, c)
<1> DEFINE ids == Newest(InFlightEntries(b, OppositeKey(k)))
<1>1. ids \subseteq {i \in DOMAIN b.orders : b.orders[i].role # "exit"}
  BY DEF Newest, InFlightEntries, InFlightRows
<1>2. c = CancelRows(b, ids, sig, "cancelEntry" \notin fail)
  BY DEF CancelledOpposite
<1> HIDE DEF ids
<1> QED
  BY <1>1, <1>2, CancelLinks

LEMMA ClearedWayLinks ==
    ASSUME TypeOK, NEW b, Linked(b), NEW sig \in Nat \ {0}, NEW k \in SignalKeys,
           NEW fail, NEW c, c = ClearedWay(b, sig, k, fail)
    PROVE  Linked(c) /\ Follows(b, c)
<1> DEFINE opp == PosKey(OppositeKey(k))
           b1 == ClosedSame(b, sig, k, fail)
           b2 == CancelledOpposite(b1, sig, k, fail)
           flip == PlaceClose(b2, sig, opp, "cancelOpposite" \notin fail, "exitOpposite" \notin fail)
<1>1. opp \in PosKeys /\ pos[opp] \in Nat
  BY KeyTypes DEF TypeOK
<1>2. c = IF pos[opp] > 0 THEN flip ELSE b2
  BY DEF ClearedWay
<1> HIDE DEF opp
<1>3. Linked(b1) /\ Follows(b, b1)
  BY ClosedSameLinks
<1> HIDE DEF b1
<1>4. Linked(b2) /\ Follows(b1, b2)
  BY <1>3, CancelledOppositeLinks
<1> HIDE DEF b2
<1>5. Follows(b, b2)
  BY <1>3, <1>4, FollowsTwice, LinkedTypes
<1>6. CASE pos[opp] > 0
  <2>1. pos[opp] \in Nat \ {0}
    BY <1>1, <1>6
  <2>2. c = PlaceClose(b2, sig, opp, "cancelOpposite" \notin fail, "exitOpposite" \notin fail)
    BY <1>2, <1>6
  <2>3. Linked(c) /\ Follows(b2, c)
    BY <2>1, <2>2, <1>1, <1>4, PlaceCloseLinks
  <2> QED BY <2>3, <1>4, <1>5, FollowsTwice, LinkedTypes
<1>7. CASE ~(pos[opp] > 0)
  BY <1>2, <1>4, <1>5, <1>7
<1> QED
  BY <1>6, <1>7

----------------------------------------------------------------------------
(* The router's steps keep its part of the invariant, and follow the book.  *)

RouterKept == RouterInv' /\ Follows(Book, Book')

\* Rejecting a signal changes its status only.
LEMMA RejectKeeps ==
    ASSUME RouterInv, Dequeue, Reject
    PROVE  /\ signals' \in Seq(Signals) /\ Len(signals') = Len(signals)
           /\ \A n \in DOMAIN signals' : signals'[n].kind = "open" => signals'[n].qty > 0
<1>1. signals \in Seq(Signals) /\ handled + 1 \in DOMAIN signals
  BY CurrentType DEF RouterInv, TypeOK
<1> DEFINE rejected == [signals[handled + 1] EXCEPT !.status = "rejected"]
<1>2. signals[handled + 1] \in Signals
  BY <1>1
<1>3. /\ rejected \in Signals /\ rejected.kind = signals[handled + 1].kind
      /\ rejected.qty = signals[handled + 1].qty
  BY <1>2 DEF Signals
<1>4. signals' = [signals EXCEPT ![handled + 1] = rejected]
  BY DEF Reject
<1> HIDE DEF rejected
<1>5. /\ signals' \in Seq(Signals) /\ Len(signals') = Len(signals)
      /\ DOMAIN signals' = DOMAIN signals
      /\ signals'[handled + 1] = rejected
      /\ \A n \in DOMAIN signals \ {handled + 1} : signals'[n] = signals[n]
  BY <1>1, <1>3, <1>4, ExceptSeq
<1> QED
  BY <1>3, <1>5 DEF RouterInv

\* A signal is handled: at most its own status and the book change.
LEMMA SignalHandled ==
    ASSUME RouterInv, Dequeue, BookKept, UNCHANGED signals \/ Reject,
           UNCHANGED <<pos, posRows, trades, connected, sync, snapshot, drops>>
    PROVE  RouterKept
<1>1. handled' \in 0 .. Len(signals)
  BY CurrentType DEF RouterInv
<1>2. /\ signals' \in Seq(Signals) /\ Len(signals') = Len(signals)
      /\ \A n \in DOMAIN signals' : signals'[n].kind = "open" => signals'[n].qty > 0
  <2>1. CASE Reject
    BY <2>1, RejectKeeps
  <2>2. CASE UNCHANGED signals
    BY <2>2 DEF RouterInv, TypeOK
  <2> QED BY <2>1, <2>2
<1>3. TypeOK'
  BY <1>1, <1>2 DEF RouterInv, TypeOK, BookKept
<1> QED
  BY <1>2, <1>3 DEF RouterInv, RouterKept, BookKept

LEMMA AcceptKeeps ==
    ASSUME RouterInv, AcceptSignal
    PROVE  RouterKept /\ Len(signals') = Len(signals) + 1
<1>1. PICK kind \in {"open", "close"}, k \in SignalKeys, q \in Nat :
         Accept(kind, k, q) /\ (kind = "open" => q > 0)
  BY QtysAssumption DEF AcceptSignal
<1> DEFINE s == [kind |-> kind, key |-> k, qty |-> q, status |-> "accepted"]
<1>2. s \in Signals /\ s.kind = kind /\ s.qty = q
  BY DEF Signals
<1>3. signals \in Seq(Signals) /\ signals' = Append(signals, s)
  BY <1>1 DEF RouterInv, TypeOK, Accept
<1> HIDE DEF s
<1>4. /\ signals' \in Seq(Signals) /\ Len(signals') = Len(signals) + 1
      /\ signals'[Len(signals) + 1] = s
      /\ \A n \in DOMAIN signals : signals'[n] = signals[n]
      /\ DOMAIN signals' = DOMAIN signals \cup {Len(signals) + 1}
  BY <1>2, <1>3
<1>5. /\ handled' = handled
      /\ UNCHANGED <<orders, broker, pos, posRows, trades, connected, sync, snapshot, drops>>
  BY <1>1 DEF Accept, bookVars, dbVars, linkVars
<1>6. handled' \in 0 .. Len(signals')
  BY <1>3, <1>4, <1>5 DEF RouterInv, TypeOK
<1>7. TypeOK'
  BY <1>4, <1>5, <1>6 DEF RouterInv, TypeOK
<1>8. \A n \in DOMAIN signals' : signals'[n].kind = "open" => signals'[n].qty > 0
  BY <1>1, <1>2, <1>4 DEF RouterInv
<1>9. BookKept
  BY <1>5, SameBookKept
<1> QED
  BY <1>4, <1>7, <1>8, <1>9 DEF RouterInv, RouterKept, BookKept

LEMMA CloseKeeps ==
    ASSUME RouterInv, NEW fail, RejectOffline \/ CloseNothing \/ CloseSignal(fail)
    PROVE  RouterKept
<1>1. /\ Dequeue /\ (UNCHANGED signals \/ Reject)
      /\ UNCHANGED <<pos, posRows, trades, connected, sync, snapshot, drops>>
  BY DEF RejectOffline, CloseNothing, CloseSignal, dbVars, linkVars
<1>2. BookKept
  <2>1. CASE RejectOffline \/ CloseNothing
    BY <2>1, SameBookKept DEF RejectOffline, CloseNothing, bookVars
  <2>2. CASE CloseSignal(fail)
    <3> DEFINE k == PosKey(Current.key)
               c == PlaceClose(Book, handled + 1, k, "cancelSame" \notin fail,
                               "exitSame" \notin fail)
    <3>1. SetBook(c) /\ pos[k] > 0
      BY <2>2 DEF CloseSignal
    <3>2. k \in PosKeys /\ handled + 1 \in Nat \ {0}
      BY <1>1, CurrentType, KeyTypes DEF RouterInv
    <3>3. pos[k] \in Nat \ {0} /\ Linked(Book)
      BY <3>1, <3>2 DEF RouterInv, TypeOK
    <3> HIDE DEF k
    <3>4. Linked(c) /\ Follows(Book, c)
      BY <3>2, <3>3, PlaceCloseLinks
    <3> HIDE DEF c
    <3> QED BY <3>1, <3>4, SetBookKept
  <2> QED BY <2>1, <2>2
<1> QED
  BY <1>1, <1>2, SignalHandled

LEMMA ReplaceEntryKeeps ==
    ASSUME RouterInv, NEW fail, ReplaceEntry(fail)
    PROVE  RouterKept
<1>1. /\ Dequeue /\ Current.kind = "open"
      /\ UNCHANGED <<signals, pos, posRows, trades, connected, sync, snapshot, drops>>
  BY DEF ReplaceEntry, dbVars, linkVars
<1>2. PICK old \in Newest(InFlightEntries(Book, Current.key)) :
         SetBook(Replacement(Book, handled + 1, old, Current.qty, fail))
  BY DEF ReplaceEntry
<1>3. /\ handled + 1 \in Nat \ {0} /\ Current.key \in SignalKeys
      /\ Current.qty \in Nat \ {0}
  BY <1>1, CurrentType DEF RouterInv, Current, Signals
<1>4. old \in InFlightEntries(Book, Current.key)
  BY DEF Newest
<1> DEFINE c == Replacement(Book, handled + 1, old, Current.qty, fail)
<1>5. Linked(c) /\ Follows(Book, c)
  BY <1>3, <1>4, ReplacementLinks DEF RouterInv
<1>6. SetBook(c)
  BY <1>2
<1> HIDE DEF c
<1>7. BookKept
  BY <1>5, <1>6, SetBookKept
<1> QED
  BY <1>1, <1>7, SignalHandled

LEMMA OpenSignalKeeps ==
    ASSUME RouterInv, NEW fail, OpenSignal(fail)
    PROVE  RouterKept
<1> DEFINE k == Current.key
           cleared == ClearedWay(Book, handled + 1, k, fail)
           entry == NewRow(handled + 1, k, "entry", Current.qty, None)
           entered == Submit(cleared, entry, "entry" \notin fail)
<1>1. /\ Dequeue /\ Current.kind = "open"
      /\ UNCHANGED <<pos, posRows, trades, connected, sync, snapshot, drops>>
      /\ \/ SetBook(cleared) /\ Reject
         \/ SetBook(entered) /\ UNCHANGED signals
  BY DEF OpenSignal, Entered, dbVars, linkVars
<1>2. handled + 1 \in Nat \ {0} /\ k \in SignalKeys /\ Current.qty \in Nat \ {0}
  BY <1>1, CurrentType DEF RouterInv, Current, Signals
<1> HIDE DEF k
<1>3. entry \in OrderRows /\ entry.signal # None /\ entry.fillQty = 0 /\ entry.key = k
  <2>1. k \in OrderKeys /\ "entry" \in Roles /\ None \in Nat
    BY <1>2, KeyTypes DEF None, Roles
  <2> QED BY <2>1, <1>2, NewRowType DEF None
<1> HIDE DEF entry
<1>4. Linked(cleared) /\ Follows(Book, cleared)
  BY <1>2, ClearedWayLinks DEF RouterInv
<1> HIDE DEF cleared
<1>5. Linked(entered) /\ Follows(cleared, entered)
  BY <1>2, <1>3, <1>4, SubmitLinks
<1> HIDE DEF entered
<1>6. Follows(Book, entered)
  <2>1. Linked(Book)
    BY DEF RouterInv
  <2> QED BY <2>1, <1>4, <1>5, FollowsTwice, LinkedTypes
<1>7. BookKept
  BY <1>1, <1>4, <1>5, <1>6, SetBookKept
<1> QED
  BY <1>1, <1>7, SignalHandled

\* A handler cut short leaves rows it had reached, and orders that have none.
LEMMA InterruptedLinks ==
    ASSUME NEW b, Linked(b), NEW d, Interrupted(b, d)
    PROVE  Linked(d) /\ Follows(b, d)
<1>1. /\ d = [orders |-> b.orders, broker |-> d.broker] /\ d.broker \in Seq(BrokerOrders)
      /\ Len(b.broker) <= Len(d.broker)
  BY DEF Interrupted, Books
<1>2. ASSUME NEW j \in DOMAIN d.broker PROVE OrderLinked(d.broker[j])
  <2>1. d.broker[j] \in BrokerOrders
    BY <1>1
  <2>2. CASE j \in DOMAIN b.broker
    <3>1. OrderLinked(b.broker[j]) /\ SameExecution(b.broker[j], d.broker[j])
      BY <2>2 DEF Linked, Interrupted
    <3> QED BY <3>1 DEF OrderLinked, SameExecution
  <2>3. CASE j \notin DOMAIN b.broker
    <3>1. d.broker[j].executed = 0 /\ d.broker[j].pending = 0 /\ d.broker[j].lost = 0
      BY <2>3 DEF Interrupted
    <3> QED BY <2>1, <3>1 DEF OrderLinked, BrokerOrders
  <2> QED BY <2>2, <2>3
<1>3. \A j \in DOMAIN b.broker :
         /\ d.broker[j].qty = b.broker[j].qty
         /\ d.broker[j].pending + d.broker[j].lost = b.broker[j].pending + b.broker[j].lost
         /\ d.broker[j].executed = b.broker[j].executed
         /\ LeftAlone(d.broker[j]) => LeftAlone(b.broker[j])
  BY DEF Interrupted, SameExecution, LeftAlone
<1> QED
  BY <1>1, <1>2, <1>3, SameRowsLinks

LEMMA FreedLinks ==
    ASSUME NEW b, Linked(b), NEW k, NEW ok \in BOOLEAN
    PROVE  Linked(Freed(b, k, ok)) /\ Follows(b, Freed(b, k, ok))
<1> DEFINE ids == Newest(ActiveTrails(b, k))
<1>1. /\ Freed(b, k, ok) = CancelRows(b, ids, None, ok) /\ None \in Nat
      /\ ids \subseteq {i \in DOMAIN b.orders : b.orders[i].role # "exit"}
  BY DEF Freed, None, Newest, ActiveTrails, InFlightRows
<1> HIDE DEF ids
<1> QED
  BY <1>1, CancelLinks

LEMMA ReachedLinks ==
    ASSUME RouterInv, Dequeue, NEW fail, NEW b \in Reached(fail)
    PROVE  /\ Linked(b) /\ Follows(Book, b)
           /\ Linked(Closed(fail)) /\ Linked(Rid(fail)) /\ Linked(Cleared(fail))
<1>1. /\ handled + 1 \in Nat \ {0} /\ Current.key \in SignalKeys /\ TypeOK
      /\ Linked(Book) /\ Follows(Book, Book)
  BY CurrentType, FollowsSelf, LinkedTypes DEF RouterInv
<1>2. Linked(Closed(fail)) /\ Follows(Book, Closed(fail))
  BY <1>1, ClosedSameLinks DEF Closed
<1>3. Linked(Rid(fail)) /\ Follows(Book, Rid(fail))
  <2>1. Linked(Rid(fail)) /\ Follows(Closed(fail), Rid(fail))
    BY <1>1, <1>2, CancelledOppositeLinks DEF Rid
  <2> QED BY <2>1, <1>1, <1>2, FollowsTwice, LinkedTypes
<1>4. Linked(Cleared(fail)) /\ Follows(Book, Cleared(fail))
  BY <1>1, ClearedWayLinks DEF Cleared
<1>5. ASSUME NEW old \in Newest(InFlightEntries(Book, Current.key))
      PROVE  /\ Linked(CancelledEntry(Book, old, fail))
             /\ Follows(Book, CancelledEntry(Book, old, fail))
             /\ Linked(SoldAgain(Book, old, fail)) /\ Follows(Book, SoldAgain(Book, old, fail))
  <2> DEFINE d == CancelledEntry(Book, old, fail)
             u == SoldAgain(Book, old, fail)
  <2>1. /\ old \in DOMAIN Book.orders
        /\ {old} \subseteq {i \in DOMAIN Book.orders : Book.orders[i].role # "exit"}
    BY DEF Newest, InFlightEntries, InFlightRows
  <2>2. Book.orders[old] \in OrderRows
    BY <2>1, <1>1, LinkedTypes
  <2>3. Linked(d) /\ Follows(Book, d)
    BY <2>1, <1>1, CancelLinks DEF CancelledEntry
  <2>4. u = Unwound(d, handled + 1, Book.orders[old], fail)
    BY DEF SoldAgain
  <2> HIDE DEF d, u
  <2>5. Linked(u) /\ Follows(d, u)
    BY <2>2, <2>3, <2>4, <1>1, UnwoundLinks
  <2>6. Follows(Book, u)
    BY <2>3, <2>5, <1>1, FollowsTwice, LinkedTypes
  <2> QED BY <2>3, <2>5, <2>6 DEF d, u
<1>6. /\ Linked(Freed(Book, PosKey(Current.key), "cancelSame" \notin fail))
      /\ Follows(Book, Freed(Book, PosKey(Current.key), "cancelSame" \notin fail))
  BY <1>1, FreedLinks
<1> DEFINE last == Freed(Rid(fail), PosKey(OppositeKey(Current.key)), "cancelOpposite" \notin fail)
<1>7. Linked(last) /\ Follows(Book, last)
  <2>1. Linked(last) /\ Follows(Rid(fail), last)
    BY <1>3, FreedLinks
  <2> HIDE DEF last
  <2> QED BY <2>1, <1>1, <1>3, FollowsTwice, LinkedTypes
<1> QED
  BY <1>1, <1>2, <1>3, <1>4, <1>5, <1>6, <1>7 DEF Reached

LEMMA SignalCutKeeps ==
    ASSUME RouterInv, NEW fail, SignalCut(fail)
    PROVE  RouterKept
<1>1. /\ Dequeue /\ TypeOK /\ Linked(Book) /\ Book \in Books
      /\ UNCHANGED <<signals, pos, posRows, trades, connected, sync, snapshot, drops>>
  BY LinkedTypes DEF SignalCut, RouterInv, dbVars, linkVars
<1>2. PICK c \in SignalCuts(fail) : SetBook(c)
  BY DEF SignalCut
<1>3. Current.kind = "open" => Current.qty > 0
  BY <1>1, CurrentType DEF RouterInv, Current
<1>4. Closed(fail) \in Books /\ Rid(fail) \in Books /\ Cleared(fail) \in Books
  <2>1. Book \in Reached(fail)
    BY DEF Reached
  <2> QED BY <2>1, <1>1, ReachedLinks, LinkedTypes
<1>5. PICK b \in Reached(fail) : Interrupted(b, c)
  BY <1>1, <1>3, <1>4, SignalCutsAre
<1>6. Linked(b) /\ Follows(Book, b)
  BY <1>1, ReachedLinks
<1>7. Linked(c) /\ Follows(b, c)
  BY <1>5, <1>6, InterruptedLinks
<1>8. Follows(Book, c)
  BY <1>1, <1>6, <1>7, FollowsTwice, LinkedTypes
<1>9. BookKept
  BY <1>2, <1>7, <1>8, SetBookKept
<1> QED
  BY <1>1, <1>9, SignalHandled

----------------------------------------------------------------------------
(* Fills.                                                                   *)

\* A fill task changes the book, positions and trades.
LEMMA FillKept ==
    ASSUME RouterInv, BookKept,
           pos' \in [PosKeys -> Nat], posRows' \subseteq PosKeys, trades' \in [PosKeys -> Nat],
           UNCHANGED <<signals, handled, connected, sync, snapshot, drops>>
    PROVE  RouterKept
<1>1. TypeOK'
  BY DEF RouterInv, TypeOK, BookKept
<1> QED
  BY <1>1 DEF RouterInv, RouterKept, BookKept

\* What is known of a report, as in ReportType: a row of a signal has room for it.
LEMMA ReportLinked ==
    ASSUME RouterInv, NEW i \in DOMAIN orders, NEW q, NEW x \in Nat, ReportOf(i, q, x),
           NEW j, j = orders[i].ibkr, NEW n, n = CappedFill(orders[i], q + x)
    PROVE  /\ orders[i] \in OrderRows /\ RowLinked(orders[i], Len(broker))
           /\ j # None /\ j \in DOMAIN broker
           /\ q \in Nat \ {0} /\ q <= broker[j].pending
           /\ n \in Nat /\ n <= Remaining(orders[i])
           /\ orders[i].signal # None => n = q
<1> DEFINE o == orders[i]
           br == broker[j]
<1>1. Linked(Book) /\ Book.orders = orders /\ Book.broker = broker
  BY DEF RouterInv, Book
<1>2. /\ o \in OrderRows /\ RowLinked(o, Len(broker)) /\ j # None /\ j \in DOMAIN broker
      /\ br \in BrokerOrders /\ OrderLinked(br)
  BY <1>1, LinkedTypes DEF ReportOf
<1>3. q \in Chunks(br.pending) /\ br.pending \in Nat
  BY <1>2 DEF ReportOf, BrokerOrders
<1>4. q \in Nat \ {0} /\ q <= br.pending
  BY <1>3, ChunkType
<1>5. Remaining(o) \in Nat /\ o.qty \in Nat /\ o.fillQty \in Nat
  BY <1>2 DEF RowLinked, OrderRows, Remaining
<1>6. n \in Nat /\ n <= Remaining(o)
  BY <1>4, <1>5 DEF CappedFill, Lesser
<1>7. ASSUME o.signal # None PROVE n = q
  <2>1. Placed(o, br)
    BY <1>1, <1>2, <1>7 DEF Linked
  <2>2. q <= Remaining(o)
    <3>1. /\ br.qty \in Nat /\ br.executed \in Nat /\ br.pending \in Nat /\ br.lost \in Nat
      BY <1>2 DEF BrokerOrders
    <3>2. /\ o.qty = br.qty /\ br.executed <= br.qty
          /\ o.fillQty + br.pending + br.lost <= br.executed
      BY <2>1, <1>2 DEF Placed, OrderLinked
    <3> HIDE DEF o, br
    <3>3. q <= o.qty - o.fillQty
      BY <3>1, <3>2, <1>4, <1>5
    <3> QED BY <3>3 DEF Remaining
  <2>3. x > 0 => q = Remaining(o)
    BY DEF ReportOf
  <2> QED BY <2>2, <2>3, <1>4, <1>5 DEF CappedFill, Lesser
<1> QED
  BY <1>2, <1>4, <1>6, <1>7

\* A report that leaves no trace in the rows.
LEMMA DroppedFillKeeps ==
    ASSUME RouterInv, NEW i \in DOMAIN orders, NEW q, NEW x \in Nat,
           FillIgnored(i, q, x) \/ FillLostToDuplicateRow(i, q, x)
    PROVE  RouterKept
<1> DEFINE j == orders[i].ibkr
           c == [orders |-> orders, broker |-> TakeReport(broker, j, q)]
<1>1. /\ ReportOf(i, q, x)
      /\ SetBook(c)
      /\ UNCHANGED <<signals, handled, pos, posRows, trades, connected, sync, snapshot, drops>>
  BY DEF FillIgnored, FillLostToDuplicateRow, dbVars, linkVars, Taken, SetBook
<1>2. j \in DOMAIN broker /\ q \in Nat \ {0} /\ q <= broker[j].pending
  BY <1>1, ReportLinked
<1>3. Linked(c) /\ Follows(Book, c)
  <2>1. Linked(Book) /\ Book.orders = orders /\ Book.broker = broker
    BY DEF RouterInv, Book
  <2>2. c = [orders |-> Book.orders, broker |-> TakeReport(Book.broker, j, q)]
    BY <2>1
  <2> HIDE DEF c, j
  <2> QED BY <2>1, <2>2, <1>2, TakeLinks
<1> HIDE DEF c
<1>4. BookKept
  BY <1>1, <1>3, SetBookKept
<1>5. pos' \in [PosKeys -> Nat] /\ posRows' \subseteq PosKeys /\ trades' \in [PosKeys -> Nat]
  BY <1>1 DEF RouterInv, TypeOK
<1> QED
  BY <1>1, <1>4, <1>5, FillKept

\* The book after a report was recorded on its row.
LEMMA RecordedLinks ==
    ASSUME RouterInv, NEW i \in DOMAIN orders, NEW q, NEW x \in Nat, ReportOf(i, q, x),
           NEW n, n = CappedFill(orders[i], q + x), n > 0,
           NEW c, c = [orders |-> [orders EXCEPT ![i] = AfterFill(orders[i], n)],
                       broker |-> Taken(i, q)]
    PROVE  Linked(c) /\ Follows(Book, c)
<1> DEFINE j == orders[i].ibkr
<1>1. /\ j # None /\ j \in DOMAIN broker /\ q \in Nat \ {0} /\ q <= broker[j].pending
      /\ n \in Nat \ {0} /\ n <= Remaining(orders[i])
      /\ orders[i].signal # None => n = q
  BY ReportLinked
<1>2. Linked(Book) /\ Book.orders = orders /\ Book.broker = broker
  BY DEF Book, RouterInv
<1>3. c = [orders |-> [Book.orders EXCEPT ![i] = AfterFill(@, n)],
           broker |-> TakeReport(Book.broker, j, q)]
  BY <1>2 DEF Taken
<1> QED
  BY <1>1, <1>2, <1>3, FillLinks

LEMMA FillRecordedOnlyKeeps ==
    ASSUME RouterInv, NEW i \in DOMAIN orders, NEW q, NEW x \in Nat, FillRecordedOnly(i, q, x)
    PROVE  RouterKept
<1> DEFINE n == CappedFill(orders[i], q + x)
           c == [orders |-> [orders EXCEPT ![i] = AfterFill(orders[i], n)],
                 broker |-> Taken(i, q)]
<1>1. /\ ReportOf(i, q, x) /\ n > 0 /\ SetBook(c)
      /\ UNCHANGED <<signals, handled, pos, posRows, trades, connected, sync, snapshot, drops>>
  BY DEF FillRecordedOnly, dbVars, linkVars, SetBook
<1>2. Linked(c) /\ Follows(Book, c)
  BY <1>1, RecordedLinks
<1> HIDE DEF c, n
<1>3. BookKept
  BY <1>1, <1>2, SetBookKept
<1>4. pos' \in [PosKeys -> Nat] /\ posRows' \subseteq PosKeys /\ trades' \in [PosKeys -> Nat]
  BY <1>1 DEF RouterInv, TypeOK
<1> QED
  BY <1>1, <1>3, <1>4, FillKept

LEMMA EntryRecordedKeeps ==
    ASSUME RouterInv, NEW i \in DOMAIN orders, NEW q, NEW x \in Nat, EntryRecorded(i, q, x)
    PROVE  /\ Linked(FilledBook(i, q, x)) /\ Follows(Book, FilledBook(i, q, x))
           /\ StopRow(i, q, x) \in OrderRows /\ StopRow(i, q, x).fillQty = 0
           /\ StopRow(i, q, x).role = "trail_stop"
           /\ pos' \in [PosKeys -> Nat] /\ posRows' \subseteq PosKeys
           /\ trades' \in [PosKeys -> Nat]
           /\ UNCHANGED <<signals, handled, connected, sync, snapshot, drops>>
<1> DEFINE o == orders[i]
           n == CappedFill(o, q + x)
           filled == AfterFill(o, n)
           k == PosKey(o.key)
           b == [orders |-> [orders EXCEPT ![i] = filled], broker |-> Taken(i, q)]
           trail == NewRow(o.signal, o.key, "trail_stop", filled.fillQty, i)
<1>1. /\ ReportOf(i, q, x) /\ n > 0 /\ o.role = "entry"
      /\ pos' = [pos EXCEPT ![k] = @ + filled.fillQty]
      /\ posRows' = posRows \cup {k}
      /\ UNCHANGED <<signals, handled, trades, connected, sync, snapshot, drops>>
  BY DEF EntryRecorded, linkVars
<1>2. o \in OrderRows /\ RowLinked(o, Len(broker)) /\ n \in Nat
  BY <1>1, ReportLinked
<1>3. o.key \in SignalKeys
  BY <1>1, <1>2 DEF RowLinked
<1>4. Linked(b) /\ Follows(Book, b)
  BY <1>1, RecordedLinks
<1>5. filled.fillQty \in Nat \ {0}
  BY <1>1, <1>2, AfterFillReturns DEF OrderRows
<1>6. k \in PosKeys
  BY <1>3, KeyTypes
<1>7. FilledBook(i, q, x) = b /\ StopRow(i, q, x) = trail
  BY DEF FilledBook, StopRow
<1> HIDE DEF n, filled, b, k
<1>8. trail \in OrderRows /\ trail.fillQty = 0 /\ trail.role = "trail_stop"
  <2>1. i \in Nat
    BY DEF RouterInv, TypeOK
  <2>2. o.signal \in Nat /\ o.key \in OrderKeys /\ "trail_stop" \in Roles
    BY <1>2 DEF OrderRows, Roles
  <2> QED BY <2>1, <2>2, <1>5, NewRowType
<1>9. /\ pos' \in [PosKeys -> Nat] /\ posRows' \subseteq PosKeys /\ trades' \in [PosKeys -> Nat]
  BY <1>1, <1>5, <1>6 DEF RouterInv, TypeOK
<1> HIDE DEF trail
<1> QED
  BY <1>1, <1>4, <1>7, <1>8, <1>9

LEMMA EntryFilledKeeps ==
    ASSUME RouterInv, NEW i \in DOMAIN orders, NEW q, NEW x \in Nat, NEW trailOk \in BOOLEAN,
           EntryFilled(i, q, x, trailOk)
    PROVE  RouterKept
<1> DEFINE b == FilledBook(i, q, x)
           trail == StopRow(i, q, x)
           placed == Submit(b, trail, connected /\ trailOk)
<1>1. EntryRecorded(i, q, x) /\ SetBook(IF DisableTrail THEN b ELSE placed)
  BY DEF EntryFilled, WithStop, StopRow
<1>2. /\ Linked(b) /\ Follows(Book, b)
      /\ trail \in OrderRows /\ trail.fillQty = 0 /\ trail.role = "trail_stop"
      /\ pos' \in [PosKeys -> Nat] /\ posRows' \subseteq PosKeys /\ trades' \in [PosKeys -> Nat]
      /\ UNCHANGED <<signals, handled, connected, sync, snapshot, drops>>
  BY <1>1, EntryRecordedKeeps
<1>3. (connected /\ trailOk) \in BOOLEAN
  OBVIOUS
<1> HIDE DEF b, trail
<1>4. Linked(placed) /\ Follows(b, placed)
  BY <1>2, <1>3, SubmitLinks
<1> HIDE DEF placed
<1>5. Follows(Book, placed)
  <2>1. Linked(Book)
    BY DEF RouterInv
  <2> QED BY <2>1, <1>2, <1>4, FollowsTwice, LinkedTypes
<1>6. BookKept
  BY <1>1, <1>2, <1>4, <1>5, SetBookKept
<1> QED
  BY <1>2, <1>6, FillKept

LEMMA StopCutKeeps ==
    ASSUME RouterInv, NEW i \in DOMAIN orders, NEW q, NEW x \in Nat, StopCut(i, q, x)
    PROVE  RouterKept
<1> DEFINE b == FilledBook(i, q, x)
           trail == StopRow(i, q, x)
<1>1. PICK c \in Unrecorded(b, Submit(b, trail, connected)) : SetBook(c)
  BY DEF StopCut, WithStop, StopRow
<1>2. /\ Linked(b) /\ Follows(Book, b) /\ trail \in OrderRows
      /\ pos' \in [PosKeys -> Nat] /\ posRows' \subseteq PosKeys /\ trades' \in [PosKeys -> Nat]
      /\ UNCHANGED <<signals, handled, connected, sync, snapshot, drops>>
  BY EntryRecordedKeeps DEF StopCut
<1>3. connected \in BOOLEAN /\ b \in Books /\ Linked(Book)
  BY <1>2 DEF RouterInv, TypeOK, Linked
<1> HIDE DEF b, trail
<1>4. Linked(c) /\ Follows(b, c)
  BY <1>1, <1>2, <1>3, SubmitUnrecorded, InterruptedLinks
<1>5. Follows(Book, c)
  BY <1>2, <1>3, <1>4, FollowsTwice, LinkedTypes
<1>6. BookKept
  BY <1>1, <1>4, <1>5, SetBookKept
<1> QED
  BY <1>2, <1>6, FillKept

LEMMA CutShortKeeps ==
    ASSUME RouterInv, CutShort
    PROVE  RouterKept
<1>1. \/ \E fail \in Failures : SignalCut(fail)
      \/ \E i \in DOMAIN orders, x \in 0 .. MaxOverstatement : \E q : StopCut(i, q, x)
  BY DEF CutShort
<1>2. \A x \in 0 .. MaxOverstatement : x \in Nat
  BY LimitsAssumption
<1> QED
  BY <1>1, <1>2, SignalCutKeeps, StopCutKeeps

LEMMA CloseFilledKeeps ==
    ASSUME RouterInv, NEW i \in DOMAIN orders, NEW q, NEW x \in Nat, CloseFilled(i, q, x)
    PROVE  RouterKept
<1> DEFINE o == orders[i]
           n == CappedFill(o, q + x)
           filled == AfterFill(o, n)
           left == Reduced(pos[o.key], filled.fillQty)
           c == [orders |-> [orders EXCEPT ![i] = filled], broker |-> Taken(i, q)]
<1>1. /\ ReportOf(i, q, x) /\ n > 0 /\ o.key \in posRows
      /\ pos' = [pos EXCEPT ![o.key] = left]
      /\ trades' = [trades EXCEPT ![o.key] = IF left = 0 THEN @ + 1 ELSE @]
      /\ SetBook(c)
      /\ UNCHANGED <<signals, handled, posRows, connected, sync, snapshot, drops>>
  BY DEF CloseFilled, linkVars, SetBook, MatchesPosition
<1>2. o \in OrderRows /\ n \in Nat
  BY <1>1, ReportLinked
<1>3. Linked(c) /\ Follows(Book, c)
  BY <1>1, RecordedLinks
<1>4. filled.fillQty \in Nat
  BY <1>2, AfterFillReturns DEF OrderRows
<1> HIDE DEF n, filled, c
<1>5. o.key \in PosKeys /\ pos[o.key] \in Nat
  BY <1>1 DEF RouterInv, TypeOK
<1>6. left \in Nat
  BY <1>4, <1>5 DEF Reduced, Lesser
<1> HIDE DEF left
<1>7. pos' \in [PosKeys -> Nat]
  BY <1>1, <1>6 DEF RouterInv, TypeOK
<1>8. trades' \in [PosKeys -> Nat]
  BY <1>1, <1>5 DEF RouterInv, TypeOK
<1>9. posRows' \subseteq PosKeys
  BY <1>1 DEF RouterInv, TypeOK
<1>10. BookKept
  BY <1>1, <1>3, SetBookKept
<1> QED
  BY <1>1, <1>7, <1>8, <1>9, <1>10, FillKept

LEMMA OrphanFillKeeps ==
    ASSUME RouterInv, NEW j \in DOMAIN broker, NEW q, OrphanFill(j, q)
    PROVE  RouterKept
<1> DEFINE b == broker[j]
           k == [symbol |-> b.symbol, dir |-> IF b.side = "SELL" THEN "long" ELSE "short",
                 interval |-> NoInterval]
           fresh == NewRow(None, k, "trail_stop", q, None)
           made == [fresh EXCEPT !.ibkr = j, !.fillQty = q, !.status = "filled"]
           taken == [orders |-> orders, broker |-> TakeReport(broker, j, q)]
           c == [orders |-> Append(orders, made), broker |-> taken.broker]
<1>1. /\ q \in Chunks(b.pending)
      /\ broker' = TakeReport(broker, j, q)
      /\ orders' = Append(orders, made)
      /\ \/ UNCHANGED pos
         \/ \E p \in PosKeys : pos' = [pos EXCEPT ![p] = Reduced(@, q)]
      /\ UNCHANGED <<signals, handled, posRows, trades, connected, sync, snapshot, drops>>
  BY DEF OrphanFill, linkVars
<1>2. b \in BrokerOrders /\ broker \in Seq(BrokerOrders) /\ j \in Nat
  BY DEF RouterInv, TypeOK
<1>3. q \in Nat \ {0} /\ q <= b.pending
  BY <1>1, <1>2, ChunkType DEF BrokerOrders
<1>4. Linked(taken) /\ Follows(Book, taken) /\ DOMAIN taken.broker = DOMAIN broker
  <2>1. Linked(Book) /\ Book.orders = orders /\ Book.broker = broker
    BY DEF RouterInv, Book
  <2>2. taken = [orders |-> Book.orders, broker |-> TakeReport(Book.broker, j, q)]
    BY <2>1
  <2> HIDE DEF taken
  <2> QED BY <2>1, <2>2, <1>3, TakeLinks
<1>5. made \in OrderRows /\ made.signal = None /\ made.role = "trail_stop"
      /\ made.ibkr = j /\ made.fillQty = q /\ made.qty = q
  <2>1. k \in OrderKeys
    BY <1>2 DEF OrderKeys, Directions, BrokerOrders
  <2> HIDE DEF k
  <2>2. /\ fresh \in OrderRows /\ fresh.signal = None
        /\ fresh.role = "trail_stop" /\ fresh.qty = q
    BY <2>1, <1>3 DEF NewRow, OrderRows, Roles, Statuses, None
  <2> HIDE DEF fresh
  <2>3. /\ made.signal = None /\ made.role = "trail_stop" /\ made.qty = q
        /\ made.ibkr = j /\ made.fillQty = q
    BY <2>2 DEF OrderRows
  <2>4. made \in OrderRows
    BY <2>2, <1>2, <1>3 DEF OrderRows, Statuses
  <2> QED BY <2>3, <2>4
<1> HIDE DEF made, k, fresh
<1>6. RowLinked(made, Len(taken.broker))
  <2>1. DOMAIN taken.broker = 1 .. Len(taken.broker) /\ Len(taken.broker) \in Nat
    BY <1>4, LinkedTypes
  <2> HIDE DEF taken
  <2>2. j \in 0 .. Len(taken.broker)
    BY <2>1, <1>4
  <2> QED BY <2>2, <1>3, <1>5 DEF RowLinked
<1>7. Linked(c) /\ Follows(taken, c)
  <2>1. c = [orders |-> Append(taken.orders, made), broker |-> taken.broker]
    OBVIOUS
  <2> HIDE DEF taken, c
  <2> QED BY <2>1, <1>4, <1>5, <1>6, MadeUpRowLinks
<1>8. SetBook(c)
  BY <1>1 DEF SetBook
<1> HIDE DEF c, taken
<1>9. Follows(Book, c)
  <2>1. Linked(Book)
    BY DEF RouterInv
  <2> QED BY <2>1, <1>4, <1>7, FollowsTwice, LinkedTypes
<1>10. BookKept
  BY <1>7, <1>8, <1>9, SetBookKept
<1>11. pos' \in [PosKeys -> Nat]
  <2>1. pos \in [PosKeys -> Nat]
    BY DEF RouterInv, TypeOK
  <2>2. ASSUME NEW p \in PosKeys, pos' = [pos EXCEPT ![p] = Reduced(@, q)]
        PROVE  pos' \in [PosKeys -> Nat]
    <3>1. Reduced(pos[p], q) \in Nat
      BY <2>1, <1>3 DEF Reduced, Lesser
    <3> QED BY <2>1, <2>2, <3>1
  <2> QED BY <2>1, <2>2, <1>1
<1>12. posRows' \subseteq PosKeys /\ trades' \in [PosKeys -> Nat]
  BY <1>1 DEF RouterInv, TypeOK
<1> QED
  BY <1>1, <1>10, <1>11, <1>12, FillKept

LEMMA HandleFillKeeps ==
    ASSUME RouterInv, HandleFill
    PROVE  RouterKept
<1>1. CASE KnownFill
  <2>1. PICK i \in DOMAIN orders :
           \E q \in Chunks(broker[orders[i].ibkr].pending), x \in 0 .. MaxOverstatement :
              \/ FillIgnored(i, q, x)
              \/ FillRecordedOnly(i, q, x)
              \/ \E trailOk \in {"trail" \notin fail : fail \in Failures} :
                    EntryFilled(i, q, x, trailOk)
              \/ FillLostToDuplicateRow(i, q, x)
              \/ CloseFilled(i, q, x)
    BY <1>1 DEF KnownFill
  <2>2. PICK q \in Chunks(broker[orders[i].ibkr].pending), x \in 0 .. MaxOverstatement :
           \/ FillIgnored(i, q, x)
           \/ FillRecordedOnly(i, q, x)
           \/ \E trailOk \in {"trail" \notin fail : fail \in Failures} :
                 EntryFilled(i, q, x, trailOk)
           \/ FillLostToDuplicateRow(i, q, x)
           \/ CloseFilled(i, q, x)
    BY <2>1
  <2>3. x \in Nat
    BY LimitsAssumption
  <2>4. {"trail" \notin fail : fail \in Failures} \subseteq BOOLEAN
    OBVIOUS
  <2> QED
    BY <2>2, <2>3, <2>4, DroppedFillKeeps, FillRecordedOnlyKeeps, EntryFilledKeeps,
       CloseFilledKeeps
<1>2. CASE UnknownFill
  BY <1>2, OrphanFillKeeps DEF UnknownFill
<1> QED
  BY <1>1, <1>2 DEF HandleFill

----------------------------------------------------------------------------
(* The broker and the connection.                                           *)

\* Nothing but one order of the broker changes.
LEMMA BrokerUpdateKeeps ==
    ASSUME RouterInv, NEW j \in DOMAIN broker, NEW br \in BrokerOrders, OrderLinked(br),
           br.qty = broker[j].qty,
           br.pending + br.lost - br.executed
              <= broker[j].pending + broker[j].lost - broker[j].executed,
           LeftAlone(br) => LeftAlone(broker[j]),
           broker' = [broker EXCEPT ![j] = br],
           UNCHANGED <<signals, handled, orders, pos, posRows, trades, connected, sync,
                       snapshot, drops>>
    PROVE  RouterKept
<1> DEFINE c == [orders |-> orders, broker |-> [broker EXCEPT ![j] = br]]
<1>1. Book.orders = orders /\ Book.broker = broker /\ Linked(Book)
  BY DEF Book, RouterInv
<1>2. Linked(c) /\ Follows(Book, c)
  <2>1. c = [orders |-> Book.orders, broker |-> [Book.broker EXCEPT ![j] = br]]
    BY <1>1
  <2> HIDE DEF c
  <2> QED BY <2>1, <1>1, OrderUpdateLinks
<1>3. SetBook(c)
  BY DEF SetBook
<1> HIDE DEF c
<1>4. BookKept
  BY <1>2, <1>3, SetBookKept
<1>5. pos' \in [PosKeys -> Nat] /\ posRows' \subseteq PosKeys /\ trades' \in [PosKeys -> Nat]
  BY DEF RouterInv, TypeOK
<1> QED
  BY <1>4, <1>5, FillKept

LEMMA ExecuteKeeps ==
    ASSUME RouterInv, NEW j \in DOMAIN broker, NEW q, Execute(j, q)
    PROVE  RouterKept
<1> DEFINE b == broker[j]
           done == b.executed + q
           waiting == IF connected THEN b.pending + q ELSE b.pending
           gone == IF connected THEN b.lost ELSE b.lost + q
           br == [b EXCEPT !.executed = done, !.pending = waiting, !.lost = gone,
                           !.live = done < b.qty]
<1>1. /\ b \in BrokerOrders /\ OrderLinked(b)
      /\ b.qty \in Nat /\ b.executed \in Nat /\ b.pending \in Nat /\ b.lost \in Nat
  <2>1. b \in BrokerOrders /\ OrderLinked(b)
    BY DEF RouterInv, TypeOK, Linked, Book
  <2> QED BY <2>1 DEF BrokerOrders
<1>2. q \in Nat \ {0} /\ q <= b.qty - b.executed /\ b.live
  <2>1. q \in Chunks(b.qty - b.executed) /\ b.live
    BY DEF Execute
  <2>2. b.qty - b.executed \in Nat
    BY <1>1 DEF OrderLinked
  <2> QED BY <2>1, <2>2, ChunkType
<1>3. /\ done \in Nat /\ waiting \in Nat /\ gone \in Nat
      /\ waiting + gone - done = b.pending + b.lost - b.executed
      /\ done <= b.qty
  BY <1>1, <1>2
<1>4. waiting + gone <= done
  BY <1>1, <1>2 DEF OrderLinked
<1>5. /\ broker' = [broker EXCEPT ![j] = br]
      /\ UNCHANGED <<signals, handled, orders, pos, posRows, trades, connected, sync,
                     snapshot, drops>>
  BY DEF Execute, dbVars, linkVars
<1> DEFINE open == done < b.qty
<1>6. open \in BOOLEAN
  OBVIOUS
<1> HIDE DEF done, waiting, gone, open
<1>7. br = [b EXCEPT !.executed = done, !.pending = waiting, !.lost = gone, !.live = open]
  BY DEF open
<1> HIDE DEF br, b
<1>8. /\ br.qty = b.qty /\ br.executed = done /\ br.pending = waiting /\ br.lost = gone
      /\ br.live = open /\ br.cancel = b.cancel
  BY <1>1, <1>7 DEF BrokerOrders
<1>9. br \in BrokerOrders
  BY <1>1, <1>3, <1>6, <1>7 DEF BrokerOrders
<1>10. OrderLinked(br)
  BY <1>3, <1>4, <1>8 DEF OrderLinked, open
<1>11. LeftAlone(br) => LeftAlone(b)
  BY <1>2, <1>8 DEF LeftAlone
<1>12. br.pending + br.lost - br.executed <= b.pending + b.lost - b.executed
  BY <1>1, <1>3, <1>8
<1> QED
  BY <1>5, <1>8, <1>9, <1>10, <1>11, <1>12, BrokerUpdateKeeps DEF b

LEMMA ConfirmCancelKeeps ==
    ASSUME RouterInv, NEW j \in DOMAIN broker, ConfirmCancel(j)
    PROVE  RouterKept
<1> DEFINE b == broker[j]
           br == [b EXCEPT !.live = FALSE]
<1>1. b \in BrokerOrders /\ OrderLinked(b)
  BY DEF RouterInv, TypeOK, Linked, Book
<1>2. /\ broker' = [broker EXCEPT ![j] = br]
      /\ UNCHANGED <<signals, handled, orders, pos, posRows, trades, connected, sync,
                     snapshot, drops>>
  BY DEF ConfirmCancel, dbVars, linkVars
<1>3. /\ br.qty = b.qty /\ br.executed = b.executed /\ br.pending = b.pending
      /\ br.lost = b.lost /\ br.live = FALSE
      /\ br \in BrokerOrders
  BY <1>1 DEF BrokerOrders
<1> HIDE DEF br
<1>4. OrderLinked(br)
  BY <1>1, <1>3 DEF OrderLinked
<1>5. ~LeftAlone(br)
  BY <1>3 DEF LeftAlone
<1>6. br.pending + br.lost - br.executed <= b.pending + b.lost - b.executed
  <2>1. b.pending \in Nat /\ b.lost \in Nat /\ b.executed \in Nat
    BY <1>1 DEF BrokerOrders
  <2> QED BY <2>1, <1>3
<1> QED
  BY <1>2, <1>3, <1>4, <1>5, <1>6, BrokerUpdateKeeps

LEMMA ExternalOrderKeeps ==
    ASSUME RouterInv, ExternalOrder
    PROVE  RouterKept
<1>1. PICK s \in Symbols, side \in {"BUY", "SELL"}, q \in ExternalQtys :
         broker' = Append(broker, WorkingOrder(s, side, q))
  BY DEF ExternalOrder
<1>2. UNCHANGED <<signals, handled, orders, pos, posRows, trades, connected, sync,
                  snapshot, drops>>
  BY DEF ExternalOrder, dbVars, linkVars
<1> DEFINE new == WorkingOrder(s, side, q)
<1>3. new \in BrokerOrders /\ OrderLinked(new)
  BY QtysAssumption DEF WorkingOrder, BrokerOrders, OrderLinked
<1>4. broker \in Seq(BrokerOrders) /\ broker' = Append(broker, new)
  BY <1>1 DEF RouterInv, TypeOK
<1> HIDE DEF new
<1>5. /\ broker' \in Seq(BrokerOrders) /\ Len(broker) <= Len(broker')
      /\ DOMAIN broker' = DOMAIN broker \cup {Len(broker) + 1}
      /\ broker'[Len(broker) + 1] = new
      /\ \A j \in DOMAIN broker : broker'[j] = broker[j]
  BY <1>3, <1>4
<1> DEFINE c == [orders |-> orders, broker |-> broker']
<1>6. Linked(c) /\ Follows(Book, c)
  <2>1. Book.orders = orders /\ Book.broker = broker /\ Linked(Book)
    BY DEF Book, RouterInv
  <2>2. ASSUME NEW j \in DOMAIN broker' PROVE OrderLinked(broker'[j])
    BY <2>1, <1>3, <1>5 DEF Linked
  <2>3. c = [orders |-> Book.orders, broker |-> broker']
    BY <2>1
  <2> HIDE DEF c
  <2> QED BY <2>1, <2>2, <2>3, <1>5, SameRowsLinks
<1>7. SetBook(c)
  BY <1>2 DEF SetBook
<1> HIDE DEF c
<1>8. BookKept
  BY <1>6, <1>7, SetBookKept
<1>9. pos' \in [PosKeys -> Nat] /\ posRows' \subseteq PosKeys /\ trades' \in [PosKeys -> Nat]
  BY <1>2 DEF RouterInv, TypeOK
<1> QED
  BY <1>2, <1>8, <1>9, FillKept

\* The reports a restart loses are accounted for as lost.
LEMMA ServerRestartKeeps ==
    ASSUME RouterInv, ServerRestart
    PROVE  RouterKept
<1>1. /\ broker' = [j \in DOMAIN broker |->
                      [broker[j] EXCEPT !.lost = @ + broker[j].pending, !.pending = 0]]
      /\ handled' = Len(signals) /\ drops' = drops + 1
      /\ connected' = FALSE /\ sync' = "done"
      /\ UNCHANGED <<signals, orders, pos, posRows, trades, snapshot>>
  BY DEF ServerRestart, dbVars
<1>2. broker \in Seq(BrokerOrders) /\ DOMAIN broker = 1 .. Len(broker) /\ Len(broker) \in Nat
  BY DEF RouterInv, TypeOK
<1>3. ASSUME NEW j \in DOMAIN broker
      PROVE  /\ broker'[j] \in BrokerOrders
             /\ broker'[j].qty = broker[j].qty /\ broker'[j].executed = broker[j].executed
             /\ broker'[j].live = broker[j].live /\ broker'[j].cancel = broker[j].cancel
             /\ broker'[j].pending + broker'[j].lost = broker[j].pending + broker[j].lost
  <2> DEFINE b == broker[j]
             gone == b.lost + b.pending
  <2>1. b \in BrokerOrders
    BY <1>2
  <2>2. gone \in Nat /\ 0 \in Nat /\ 0 + gone = b.pending + b.lost
    BY <2>1 DEF BrokerOrders
  <2>3. broker'[j] = [b EXCEPT !.lost = gone, !.pending = 0]
    BY <1>1
  <2> HIDE DEF gone, b
  <2>4. broker'[j] \in BrokerOrders
    BY <2>1, <2>2, <2>3 DEF BrokerOrders
  <2>5. /\ broker'[j].qty = b.qty /\ broker'[j].executed = b.executed
        /\ broker'[j].live = b.live /\ broker'[j].cancel = b.cancel
        /\ broker'[j].pending = 0 /\ broker'[j].lost = gone
    BY <2>1, <2>3 DEF BrokerOrders
  <2> QED BY <2>2, <2>4, <2>5 DEF b
<1>4. /\ broker' \in Seq(BrokerOrders) /\ Len(broker') = Len(broker)
      /\ DOMAIN broker' = DOMAIN broker
  <2>1. DOMAIN broker' = 1 .. Len(broker) /\ broker' = [j \in 1 .. Len(broker) |-> broker'[j]]
    BY <1>1, <1>2
  <2>2. broker' \in [1 .. Len(broker) -> BrokerOrders]
    BY <2>1, <1>2, <1>3
  <2> QED BY <2>1, <2>2, <1>2, FunctionIsSeq
<1> DEFINE c == [orders |-> orders, broker |-> broker']
<1>5. Linked(c) /\ Follows(Book, c)
  <2>1. Book.orders = orders /\ Book.broker = broker /\ Linked(Book)
    BY DEF Book, RouterInv
  <2>2. ASSUME NEW j \in DOMAIN broker' PROVE OrderLinked(broker'[j])
    <3>1. j \in DOMAIN broker /\ OrderLinked(broker[j])
      BY <2>1, <1>4 DEF Linked
    <3> QED BY <3>1, <1>3 DEF OrderLinked
  <2>3. c = [orders |-> Book.orders, broker |-> broker'] /\ Len(Book.broker) <= Len(broker')
    BY <2>1, <1>2, <1>4
  <2>4. \A j \in DOMAIN broker : LeftAlone(broker'[j]) => LeftAlone(broker[j])
    BY <1>3 DEF LeftAlone
  <2> HIDE DEF c
  <2> QED BY <2>1, <2>2, <2>3, <2>4, <1>3, <1>4, SameRowsLinks
<1>6. SetBook(c)
  BY <1>1 DEF SetBook
<1> HIDE DEF c
<1>7. BookKept
  BY <1>5, <1>6, SetBookKept
<1>8. /\ handled' \in 0 .. Len(signals') /\ drops' \in Nat
  <2>1. signals' = signals /\ signals \in Seq(Signals) /\ drops \in Nat
    BY <1>1 DEF RouterInv, TypeOK
  <2>2. Len(signals) \in Nat
    BY <2>1
  <2>3. handled' = Len(signals) /\ drops' = drops + 1
    BY <1>1
  <2>4. handled' \in 0 .. Len(signals')
    BY <2>1, <2>2, <2>3
  <2>5. drops' \in Nat
    BY <2>1, <2>3
  <2> QED BY <2>4, <2>5
<1>9. TypeOK'
  BY <1>1, <1>7, <1>8 DEF RouterInv, TypeOK, BookKept
<1> QED
  BY <1>1, <1>7, <1>9 DEF RouterInv, RouterKept, BookKept

\* Connecting, losing the connection and reconciling touch no order.
LEMMA LinkKeeps ==
    ASSUME RouterInv, TwsDown \/ TwsUp \/ ReconcileRead \/ ReconcileWrite
    PROVE  RouterKept
<1>1. UNCHANGED <<signals, handled, orders, broker, posRows, trades>>
  BY DEF TwsDown, TwsUp, ReconcileRead, ReconcileWrite, bookVars, dbVars
<1>2. BookKept
  BY <1>1, SameBookKept
<1>3. /\ connected' \in BOOLEAN /\ sync' \in {"done", "due", "read"} /\ drops' \in Nat
      /\ snapshot' \in [Symbols -> {"long", "short", "flat"}] /\ pos' \in [PosKeys -> Nat]
  <2>1. /\ connected \in BOOLEAN /\ sync \in {"done", "due", "read"} /\ drops \in Nat
        /\ snapshot \in [Symbols -> {"long", "short", "flat"}] /\ pos \in [PosKeys -> Nat]
    BY DEF RouterInv, TypeOK
  <2>2. CASE TwsDown
    <3>1. /\ drops' = drops + 1 /\ connected' = FALSE
          /\ sync' = IF sync = "due" THEN "done" ELSE sync
          /\ UNCHANGED <<pos, snapshot>>
      BY <2>2 DEF TwsDown, dbVars
    <3>2. drops' \in Nat
      BY <2>1, <3>1
    <3>3. sync' \in {"done", "due", "read"}
      BY <2>1, <3>1
    <3> QED BY <2>1, <3>1, <3>2, <3>3
  <2>3. CASE TwsUp
    BY <2>1, <2>3 DEF TwsUp, bookVars, dbVars
  <2>4. CASE ReconcileRead
    <3>1. \A s \in Symbols : NetSide(s) \in {"long", "short", "flat"}
      BY DEF NetSide
    <3> QED BY <2>1, <3>1, <2>4 DEF ReconcileRead, bookVars, dbVars
  <2>5. CASE ReconcileWrite
    BY <2>1, <2>5 DEF ReconcileWrite, bookVars, dbVars
  <2> QED BY <2>2, <2>3, <2>4, <2>5
<1>4. TypeOK'
  BY <1>1, <1>2, <1>3 DEF RouterInv, TypeOK, BookKept
<1> QED
  BY <1>1, <1>2, <1>4 DEF RouterInv, RouterKept, BookKept

LEMMA BrokerStepKeeps ==
    ASSUME RouterInv, BrokerStep
    PROVE  RouterKept
BY ExecuteKeeps, ConfirmCancelKeeps, ExternalOrderKeeps DEF BrokerStep

----------------------------------------------------------------------------
(* What the close sequence remembers stays true while the router works.      *)

\* Follows, of the two states.
LEMMA BookFollows ==
    ASSUME RouterInv, RouterKept
    PROVE  /\ orders \in Seq(OrderRows) /\ orders' \in Seq(OrderRows)
           /\ DOMAIN orders \subseteq DOMAIN orders' /\ DOMAIN broker \subseteq DOMAIN broker'
           /\ DOMAIN orders = 1 .. Len(orders) /\ Len(orders) \in Nat
           /\ Len(orders) <= Len(orders')
           /\ \A i \in DOMAIN orders :
                 /\ orders'[i].ibkr = orders[i].ibkr
                 /\ orders[i].role = "exit" /\ orders[i].ibkr = None => orders'[i] = orders[i]
           /\ \A j \in DOMAIN broker :
                 /\ broker'[j].qty = broker[j].qty
                 /\ LeftAlone(broker'[j]) => LeftAlone(broker[j])
<1>1. /\ orders \in Seq(OrderRows) /\ orders' \in Seq(OrderRows)
      /\ broker \in Seq(BrokerOrders) /\ broker' \in Seq(BrokerOrders)
  BY DEF RouterInv, RouterKept, TypeOK
<1>2. /\ Book.orders = orders /\ Book.broker = broker
      /\ Book'.orders = orders' /\ Book'.broker = broker'
  BY DEF Book
<1>3. Follows(Book, Book')
  BY DEF RouterKept
<1>4. Len(orders) <= Len(orders') /\ Len(broker) <= Len(broker')
  BY <1>2, <1>3 DEF Follows
<1>5. /\ Len(orders) \in Nat /\ Len(broker) \in Nat
      /\ Len(orders') \in Nat /\ Len(broker') \in Nat
      /\ DOMAIN orders = 1 .. Len(orders) /\ DOMAIN orders' = 1 .. Len(orders')
      /\ DOMAIN broker = 1 .. Len(broker) /\ DOMAIN broker' = 1 .. Len(broker')
  BY <1>1
<1>6. DOMAIN orders \subseteq DOMAIN orders' /\ DOMAIN broker \subseteq DOMAIN broker'
  BY <1>4, <1>5
<1>7. \A i \in DOMAIN orders :
         /\ orders'[i].ibkr = orders[i].ibkr
         /\ orders[i].role = "exit" /\ orders[i].ibkr = None => orders'[i] = orders[i]
  BY <1>2, <1>3 DEF Follows
<1>8. \A j \in DOMAIN broker :
         /\ broker'[j].qty = broker[j].qty
         /\ LeftAlone(broker'[j]) => LeftAlone(broker[j])
  BY <1>2, <1>3 DEF Follows
<1> QED
  BY <1>1, <1>4, <1>5, <1>6, <1>7, <1>8

\* The order of the row about to be written is not working again.
LEMMA StaleFollows ==
    ASSUME MInv, RouterKept
    PROVE  /\ stale \in 0 .. Len(orders')
           /\ stale # None => /\ orders'[stale].ibkr # None
                              /\ ~LeftAlone(broker'[orders'[stale].ibkr])
<1>1. stale \in 0 .. Len(orders) /\ RouterInv
  BY DEF MInv, CycleInv, MTypeOK
<1>2. Len(orders) \in Nat /\ Len(orders') \in Nat /\ Len(orders) <= Len(orders')
  BY <1>1, BookFollows
<1>3. ASSUME stale # None
      PROVE  orders'[stale].ibkr # None /\ ~LeftAlone(broker'[orders'[stale].ibkr])
  <2>1. stale \in DOMAIN orders
    BY <1>1, <1>3, BookFollows DEF None
  <2>2. orders[stale].ibkr # None /\ ~LeftAlone(broker[orders[stale].ibkr])
    BY <1>3 DEF MInv, CycleInv
  <2>3. orders[stale].ibkr \in DOMAIN broker
    BY <1>1, <2>1, <2>2, LinkedTypes DEF RouterInv, Book
  <2>4. orders'[stale].ibkr = orders[stale].ibkr
    BY <1>1, <2>1, BookFollows
  <2>5. LeftAlone(broker'[orders[stale].ibkr]) => LeftAlone(broker[orders[stale].ibkr])
    BY <1>1, <2>3, BookFollows
  <2> QED BY <2>2, <2>4, <2>5
<1> QED
  BY <1>1, <1>2, <1>3

\* The exit in progress still has its row and its order.
LEMMA ExitFollows ==
    ASSUME MInv, RouterKept, NEW e \in exit
    PROVE  /\ e \in [key : PosKeys, row : DOMAIN orders', ibkr : DOMAIN broker']
           /\ LET o == orders'[e.row]
              IN  o.ibkr = None => /\ o.role = "exit" /\ o.status = "submitted"
                                   /\ o.fillQty = 0 /\ o.qty = broker'[e.ibkr].qty
<1>1. RouterInv /\ e \in [key : PosKeys, row : DOMAIN orders, ibkr : DOMAIN broker]
  BY DEF MInv, CycleInv, MTypeOK
<1>2. /\ DOMAIN orders \subseteq DOMAIN orders' /\ DOMAIN broker \subseteq DOMAIN broker'
      /\ orders'[e.row].ibkr = orders[e.row].ibkr
      /\ orders[e.row].role = "exit" /\ orders[e.row].ibkr = None
            => orders'[e.row] = orders[e.row]
      /\ broker'[e.ibkr].qty = broker[e.ibkr].qty
  BY <1>1, BookFollows
<1>3. orders[e.row].ibkr = None =>
         /\ orders[e.row].role = "exit" /\ orders[e.row].status = "submitted"
         /\ orders[e.row].fillQty = 0 /\ orders[e.row].qty = broker[e.ibkr].qty
  BY DEF MInv, CycleInv
<1> QED
  BY <1>1, <1>2, <1>3

\* What a step that keeps the router's part owes the cycle's part.
Work(to, ds) == IF to = "positions" THEN {p \in [key : PosKeys, qty : Nat] : p.qty > 0} ELSE ds

LEMMA CycleKept ==
    ASSUME MInv, RouterKept, stage' \in Stages, outcome' \in {"none", "complete", "failed"},
           accepting' \in BOOLEAN, passing' \in 0 .. MaxSignals, windows' \in 0 .. MaxWindows,
           todo' \subseteq Work(stage', DOMAIN orders),
           stale' = stale \/ stale' = None, exit' \subseteq exit
    PROVE  MInv'
<1>1. RouterInv /\ RouterInv'
  BY DEF MInv, RouterKept
<1>2. DOMAIN orders \subseteq DOMAIN orders' /\ Len(orders') \in Nat
  BY <1>1, BookFollows
<1>3. todo' \subseteq (IF stage' = "positions" THEN [key : PosKeys, qty : Nat] ELSE DOMAIN orders')
  BY <1>2 DEF Work
<1>4. stage' = "positions" => \A p \in todo' : p.qty > 0
  BY DEF Work
<1>5. /\ stale' \in 0 .. Len(orders')
      /\ stale' # None => /\ orders'[stale'].ibkr # None
                          /\ ~LeftAlone(broker'[orders'[stale'].ibkr])
  BY <1>2, StaleFollows DEF None
<1>6. /\ exit' \subseteq [key : PosKeys, row : DOMAIN orders', ibkr : DOMAIN broker']
      /\ \A e \in exit' :
            LET o == orders'[e.row]
            IN  o.ibkr = None => /\ o.role = "exit" /\ o.status = "submitted"
                                 /\ o.fillQty = 0 /\ o.qty = broker'[e.ibkr].qty
  BY ExitFollows
<1>7. MTypeOK'
  BY <1>1, <1>3, <1>5, <1>6 DEF MTypeOK, RouterInv
<1>8. (stale # None => orders[stale].ibkr # None /\ ~LeftAlone(broker[orders[stale].ibkr]))'
  BY <1>5
<1>9. CycleInv'
  BY <1>4, <1>6, <1>7, <1>8 DEF CycleInv
<1> QED
  BY <1>1, <1>9 DEF MInv

\* What the sequence has still to do, before a step that leaves the stage alone.
LEMMA WorkLeft ==
    ASSUME MInv
    PROVE  /\ todo \subseteq Work(stage, DOMAIN orders)
           /\ stage \in Stages /\ outcome \in {"none", "complete", "failed"}
           /\ accepting \in BOOLEAN /\ passing \in 0 .. MaxSignals /\ windows \in 0 .. MaxWindows
BY DEF MInv, CycleInv, MTypeOK, Work

----------------------------------------------------------------------------
(* The rest of the server, and the steps of the sequence that write nothing. *)

LEMMA SameStateKept ==
    ASSUME RouterInv, UNCHANGED vars
    PROVE  RouterKept
<1>1. UNCHANGED <<signals, handled, orders, broker, pos, posRows, trades, connected, sync,
                  snapshot, drops>>
  BY DEF vars
<1>2. BookKept
  BY <1>1, SameBookKept
<1>3. pos' \in [PosKeys -> Nat] /\ posRows' \subseteq PosKeys /\ trades' \in [PosKeys -> Nat]
  BY <1>1 DEF RouterInv, TypeOK
<1> QED
  BY <1>1, <1>2, <1>3, FillKept

LEMMA RouterStepInv ==
    ASSUME MInv, RouterStep
    PROVE  MInv'
<1>1. RouterInv
  BY DEF MInv
<1>2. RouterKept
  <2>1. CASE HandleSignal
    BY <1>1, <2>1, CloseKeeps, ReplaceEntryKeeps, OpenSignalKeeps DEF HandleSignal
  <2>2. CASE HandleFill
    BY <1>1, <2>2, HandleFillKeeps
  <2>3. CASE BrokerStep
    BY <1>1, <2>3, BrokerStepKeeps
  <2>4. CASE TwsDown \/ TwsUp \/ ReconcileRead \/ ReconcileWrite
    BY <1>1, <2>4, LinkKeeps
  <2>5. CASE CutShort
    BY <1>1, <2>5, CutShortKeeps
  <2> QED BY <2>1, <2>2, <2>3, <2>4, <2>5 DEF RouterStep
<1>3. UNCHANGED <<stage, todo, stale, exit, outcome, accepting, passing, windows>>
  BY DEF RouterStep, cycleVars
<1> QED
  BY <1>2, <1>3, CycleKept, WorkLeft

LEMMA PassedAlertInv ==
    ASSUME MInv, PassGate \/ QueuePassed
    PROVE  MInv'
<1>1. RouterInv /\ UNCHANGED <<stage, todo, stale, exit, outcome, accepting, windows>>
  BY DEF MInv, PassGate, QueuePassed
<1>2. passing \in 0 .. MaxSignals /\ Len(signals) \in Nat /\ MaxSignals \in Nat
  BY <1>1, LimitsAssumption, WorkLeft DEF RouterInv, TypeOK
<1>3. RouterKept /\ passing' \in 0 .. MaxSignals
  <2>1. CASE PassGate
    <3>1. Len(signals) + passing < MaxSignals /\ passing' = passing + 1 /\ UNCHANGED vars
      BY <2>1 DEF PassGate
    <3> QED BY <1>1, <1>2, <3>1, SameStateKept
  <2>2. CASE QueuePassed
    <3>1. passing > 0 /\ passing' = passing - 1 /\ AcceptSignal
      BY <2>2 DEF QueuePassed
    <3> QED BY <1>1, <1>2, <3>1, AcceptKeeps
  <2> QED BY <2>1, <2>2
<1> QED
  BY <1>1, <1>3, CycleKept, WorkLeft

LEMMA RestartAllInv ==
    ASSUME MInv, RestartAll
    PROVE  MInv'
<1>1. /\ RouterKept
      /\ stage' = "normal" /\ todo' = {} /\ stale' = None /\ exit' = {}
      /\ accepting' = TRUE /\ passing' = 0
      /\ UNCHANGED <<outcome, windows>>
  BY ServerRestartKeeps DEF RestartAll, MInv
<1>2. stage' \in Stages /\ passing' \in 0 .. MaxSignals
  BY <1>1, LimitsAssumption DEF Stages
<1> QED
  BY <1>1, <1>2, CycleKept, WorkLeft

\* The gate, the queries, the end of each part of the sequence and its verdict.
LEMMA StageInv ==
    ASSUME MInv,
           \/ EnterPreClose \/ EnterMaintenance \/ ExitMaintenance
           \/ ReadTrails \/ ReadPositions \/ ReadEntries \/ Verify \/ StopWaiting
           \/ Drained("trails", "trails_done") \/ Drained("positions", "positions_done")
    PROVE  MInv'
<1>1. RouterInv /\ UNCHANGED vars /\ stale' = stale /\ passing' = passing
  BY DEF MInv, EnterPreClose, EnterMaintenance, ExitMaintenance, ReadTrails, ReadPositions,
         ReadEntries, Verify, StopWaiting, Drained, Query
<1>2. RouterKept
  BY <1>1, SameStateKept
<1>3. exit' \subseteq exit
  BY DEF EnterPreClose, EnterMaintenance, ExitMaintenance, ReadTrails, ReadPositions,
         ReadEntries, Verify, StopWaiting, Drained, Query
<1>4. /\ stage' \in Stages /\ accepting' \in BOOLEAN
      /\ outcome' \in {"none", "complete", "failed"}
  BY WorkLeft DEF EnterPreClose, EnterMaintenance, ExitMaintenance, ReadTrails, ReadPositions,
         ReadEntries, Verify, StopWaiting, Drained, Query, Stages
<1>5. windows' \in 0 .. MaxWindows
  <2>1. CASE EnterPreClose
    <3>1. windows < MaxWindows /\ windows' = windows + 1
      BY <2>1 DEF EnterPreClose
    <3> QED BY <3>1, WorkLeft, WindowsAssumption
  <2>2. CASE ~EnterPreClose
    BY <2>2, WorkLeft DEF EnterMaintenance, ExitMaintenance, ReadTrails, ReadPositions,
       ReadEntries, Verify, StopWaiting, Drained, Query
  <2> QED BY <2>1, <2>2
<1>6. todo' \subseteq Work(stage', DOMAIN orders)
  <2>1. CASE ReadTrails \/ ReadEntries
    BY <2>1 DEF ReadTrails, ReadEntries, Query, InFlightIds, Work
  <2>2. CASE ReadPositions
    <3>1. stage' = "positions" /\ todo' = OpenPositions
      BY <2>2 DEF ReadPositions, Query
    <3>2. pos \in [PosKeys -> Nat]
      BY <1>1 DEF RouterInv, TypeOK
    <3> QED BY <3>1, <3>2 DEF OpenPositions, Work
  <2>3. CASE Drained("trails", "trails_done") \/ Drained("positions", "positions_done")
    BY <2>3 DEF Drained
  <2>4. CASE EnterPreClose \/ EnterMaintenance \/ ExitMaintenance \/ Verify
    BY <2>4, WorkLeft DEF EnterPreClose, EnterMaintenance, ExitMaintenance, Verify, Work
  <2>5. CASE StopWaiting
    BY <2>5, WorkLeft DEF StopWaiting
  <2> QED BY <2>1, <2>2, <2>3, <2>4, <2>5
<1> QED
  BY <1>1, <1>2, <1>3, <1>4, <1>5, <1>6, CycleKept, WorkLeft

----------------------------------------------------------------------------
(* The steps of the sequence that write.                                    *)

\* Before a row is written as cancelled, the broker was asked to cancel its order.
LEMMA CancelOrderInv ==
    ASSUME MInv, NEW fail, CancelOrder(fail)
    PROVE  MInv'
<1>1. /\ RouterInv /\ stage \in {"trails", "entries"}
      /\ UNCHANGED <<signals, handled, orders, pos, posRows, trades, connected, sync, snapshot,
                     drops, stage, exit, outcome, accepting, passing, windows>>
  BY DEF MInv, CancelOrder, dbVars, linkVars
<1>2. PICK i \in todo :
         /\ todo' = todo \ {i}
         /\ IF orders[i].ibkr = None
            THEN UNCHANGED <<broker, stale>>
            ELSE /\ broker' = AskCancel(Book, {i}, connected /\ "cancelSame" \notin fail)
                 /\ stale' = IF orders[i].status \in {"filled", "cancelled"} THEN None ELSE i
  BY DEF CancelOrder
<1>3. i \in DOMAIN orders /\ todo' \subseteq Work(stage', DOMAIN orders)
  BY <1>1, <1>2, WorkLeft DEF Work
<1>4. CASE orders[i].ibkr = None
  <2>1. RouterKept
    BY <1>1, <1>2, <1>4, SameStateKept DEF vars
  <2> QED BY <2>1, <1>1, <1>2, <1>3, <1>4, CycleKept, WorkLeft
<1>5. CASE orders[i].ibkr # None
  <2> DEFINE ok == connected /\ "cancelSame" \notin fail
             d == CancelRows(Book, {i}, None, ok)
             c == [orders |-> orders, broker |-> d.broker]
             j == orders[i].ibkr
  <2>1. Linked(Book) /\ Book.orders = orders /\ Book.broker = broker
    BY <1>1 DEF RouterInv, Book
  <2>2. Book \in Books /\ j \in DOMAIN broker
    BY <2>1, <1>3, <1>5, LinkedTypes
  <2>3. broker' = d.broker
    BY <1>2, <1>5 DEF CancelRows
  <2>4. CancelEffect(Book, d, {i}, None)
    BY <2>1, <2>2, <1>3, ok \in BOOLEAN, CancelReturns DEF None
  <2> HIDE DEF d
  <2>5. /\ d.broker \in Seq(BrokerOrders) /\ DOMAIN d.broker = DOMAIN broker
        /\ ~LeftAlone(d.broker[j])
        /\ \A l \in DOMAIN broker : SameExecution(broker[l], d.broker[l])
    BY <2>1, <2>2, <2>4 DEF CancelEffect, Books, LeftAlone
  <2>6. Linked(c) /\ Follows(Book, c)
    <3>1. Len(broker) <= Len(d.broker)
      <4>1. broker \in Seq(BrokerOrders)
        BY <2>1, <2>2 DEF Books
      <4>2. /\ Len(broker) \in Nat /\ DOMAIN broker = 1 .. Len(broker)
            /\ Len(d.broker) \in Nat /\ DOMAIN d.broker = 1 .. Len(d.broker)
        BY <4>1, <2>5
      <4> QED BY <4>2, <2>5
    <3>2. ASSUME NEW l \in DOMAIN broker
          PROVE  /\ OrderLinked(d.broker[l])
                 /\ d.broker[l].qty = broker[l].qty /\ d.broker[l].executed = broker[l].executed
                 /\ d.broker[l].pending + d.broker[l].lost = broker[l].pending + broker[l].lost
                 /\ LeftAlone(d.broker[l]) => LeftAlone(broker[l])
      <4>1. OrderLinked(broker[l]) /\ SameExecution(broker[l], d.broker[l])
        BY <2>1, <2>5 DEF Linked
      <4> QED BY <4>1 DEF OrderLinked, SameExecution, LeftAlone
    <3>3. c = [orders |-> Book.orders, broker |-> d.broker]
      BY <2>1
    <3> HIDE DEF c
    <3> QED BY <2>1, <2>5, <3>1, <3>2, <3>3, SameRowsLinks
  <2>7. SetBook(c)
    BY <1>1, <2>3 DEF SetBook
  <2> HIDE DEF c
  <2>8. BookKept
    BY <2>6, <2>7, SetBookKept
  <2>9. RouterKept
    <3>1. pos' \in [PosKeys -> Nat] /\ posRows' \subseteq PosKeys /\ trades' \in [PosKeys -> Nat]
      BY <1>1 DEF RouterInv, TypeOK
    <3> QED BY <3>1, <1>1, <2>8, FillKept
  <2>10. CASE stale' = None
    BY <2>9, <2>10, <1>1, <1>3, CycleKept, WorkLeft, <1>2
  <2>11. CASE stale' # None
    <3>1. stale' = i
      BY <1>2, <1>5, <2>11
    <3>2. (stale # None => orders[stale].ibkr # None /\ ~LeftAlone(broker[orders[stale].ibkr]))'
      BY <3>1, <1>1, <1>5, <2>3, <2>5
    <3>3. stale' \in 0 .. Len(orders')
      <4>1. orders \in Seq(OrderRows)
        BY <1>1 DEF RouterInv, TypeOK
      <4> QED BY <3>1, <1>1, <1>3, <4>1
    <3>4. /\ exit' \subseteq [key : PosKeys, row : DOMAIN orders', ibkr : DOMAIN broker']
          /\ \A e \in exit' :
                LET o == orders'[e.row]
                IN  o.ibkr = None => /\ o.role = "exit" /\ o.status = "submitted"
                                     /\ o.fillQty = 0 /\ o.qty = broker'[e.ibkr].qty
      BY <1>1, <2>9, ExitFollows
    <3>5. RouterInv'
      BY <2>9 DEF RouterKept
    <3>6. /\ stage' \in Stages /\ stage' # "positions" /\ todo' \subseteq DOMAIN orders'
          /\ outcome' \in {"none", "complete", "failed"} /\ accepting' \in BOOLEAN
          /\ passing' \in 0 .. MaxSignals /\ windows' \in 0 .. MaxWindows
      BY <1>1, <1>3, WorkLeft DEF Work
    <3>7. MTypeOK'
      BY <3>3, <3>4, <3>5, <3>6 DEF MTypeOK, RouterInv
    <3>8. CycleInv'
      BY <3>2, <3>4, <3>6, <3>7 DEF CycleInv
    <3> QED BY <3>5, <3>8 DEF MInv
  <2> QED BY <2>10, <2>11
<1> QED
  BY <1>4, <1>5

\* The row is written whatever has become of it; its order is not left alone.
LEMMA CancelCommitInv ==
    ASSUME MInv, CancelCommit
    PROVE  MInv'
<1>1. /\ RouterInv /\ stale # None
      /\ orders' = [orders EXCEPT ![stale].status = "cancelled"] /\ stale' = None
      /\ UNCHANGED <<signals, handled, broker, pos, posRows, trades, connected, sync, snapshot,
                     drops, stage, todo, exit, outcome, accepting, passing, windows>>
  BY DEF MInv, CancelCommit, dbVars, linkVars
<1> DEFINE o == orders[stale]
           row == [o EXCEPT !.status = "cancelled"]
           c == [orders |-> [orders EXCEPT ![stale] = row], broker |-> broker]
<1>2. Linked(Book) /\ Book.orders = orders /\ Book.broker = broker
  BY <1>1 DEF RouterInv, Book
<1>3. stale \in DOMAIN orders /\ o.ibkr # None /\ ~LeftAlone(broker[o.ibkr])
  <2>1. orders \in Seq(OrderRows) /\ stale \in 0 .. Len(orders)
    BY <1>1 DEF RouterInv, TypeOK, MInv, CycleInv, MTypeOK
  <2>2. stale \in DOMAIN orders
    BY <2>1, <1>1 DEF None
  <2> QED BY <2>2, <1>1 DEF MInv, CycleInv
<1>4. o \in OrderRows /\ RowLinked(o, Len(broker)) /\ (o.signal # None => Placed(o, broker[o.ibkr]))
  BY <1>2, <1>3, LinkedTypes DEF Linked
<1> HIDE DEF o
<1>5. /\ row \in OrderRows /\ row.ibkr = o.ibkr /\ row.signal = o.signal
      /\ row.role = o.role /\ row.key = o.key /\ row.qty = o.qty /\ row.fillQty = o.fillQty
  BY <1>4 DEF OrderRows, Statuses
<1> HIDE DEF row
<1>6. RowLinked(row, Len(broker))
  BY <1>4, <1>5 DEF RowLinked
<1>7. row.signal # None /\ row.ibkr # None => Placed(row, broker[row.ibkr])
  BY <1>3, <1>4, <1>5 DEF Placed, LeftAlone, o
<1>8. Linked(c) /\ Follows(Book, c)
  <2>1. c = [orders |-> [Book.orders EXCEPT ![stale] = row], broker |-> Book.broker]
    BY <1>2
  <2>2. row.ibkr = Book.orders[stale].ibkr /\ row.ibkr # None
    BY <1>2, <1>3, <1>5 DEF o
  <2> HIDE DEF c
  <2>3. /\ stale \in DOMAIN Book.orders /\ row \in OrderRows
        /\ RowLinked(row, Len(Book.broker))
        /\ (row.signal # None /\ row.ibkr # None => Placed(row, Book.broker[row.ibkr]))
    BY <1>2, <1>3, <1>5, <1>6, <1>7
  <2>4. Linked(c) /\ (row.ibkr = Book.orders[stale].ibkr /\ row.ibkr # None => Follows(Book, c))
    BY <2>1, <2>3, <1>2, RowUpdateLinks
  <2> QED BY <2>2, <2>4
<1>9. SetBook(c)
  BY <1>1 DEF SetBook, row, o
<1> HIDE DEF c
<1>10. BookKept
  BY <1>8, <1>9, SetBookKept
<1>11. RouterKept
  <2>1. pos' \in [PosKeys -> Nat] /\ posRows' \subseteq PosKeys /\ trades' \in [PosKeys -> Nat]
    BY <1>1 DEF RouterInv, TypeOK
  <2> QED BY <2>1, <1>1, <1>10, FillKept
<1> QED
  BY <1>1, <1>11, CycleKept, WorkLeft

\* The close of a position is a fresh exit row, without its id if the broker took it.
LEMMA PlaceExitInv ==
    ASSUME MInv, NEW fail, PlaceExit(fail)
    PROVE  MInv'
<1>1. /\ RouterInv /\ stage = "positions"
      /\ UNCHANGED <<signals, handled, pos, posRows, trades, connected, sync, snapshot,
                     drops, stage, stale, outcome, accepting, passing, windows>>
  BY DEF MInv, PlaceExit, dbVars, linkVars
<1> DEFINE Placing(p) == Submit(Book, NewRow(StubSignal, p.key, "exit", p.qty, None),
                                connected /\ "exitSame" \notin fail)
           n == Len(orders) + 1
<1>2. PICK p \in todo :
         LET ibkr == Placing(p).orders[n].ibkr
         IN  /\ todo' = todo \ {p}
             /\ orders' = [Placing(p).orders EXCEPT ![n].ibkr = None]
             /\ broker' = Placing(p).broker
             /\ exit' = IF ibkr = None THEN {} ELSE {[key |-> p.key, row |-> n, ibkr |-> ibkr]}
  BY DEF PlaceExit
<1> DEFINE fresh == NewRow(StubSignal, p.key, "exit", p.qty, None)
           d == Placing(p)
           o == d.orders[n]
           row == [o EXCEPT !.ibkr = None]
           c == [orders |-> [d.orders EXCEPT ![n] = row], broker |-> d.broker]
<1>3. p.key \in PosKeys /\ p.qty \in Nat \ {0}
  BY <1>1 DEF MInv, CycleInv, MTypeOK
<1>4. /\ fresh \in OrderRows /\ fresh.role = "exit" /\ fresh.fillQty = 0
      /\ fresh.qty = p.qty
  <2>1. StubSignal \in Nat /\ p.key \in OrderKeys /\ "exit" \in Roles /\ None \in Nat
    BY <1>3, PositionKeyTypes, LimitsAssumption DEF StubSignal, Roles, None
  <2>2. fresh.qty = p.qty
    BY DEF NewRow
  <2> QED BY <2>1, <2>2, <1>3, NewRowType
<1> HIDE DEF fresh
<1>5. Linked(Book) /\ Book.orders = orders /\ Book.broker = broker /\ Book \in Books
  BY <1>1, LinkedTypes DEF RouterInv, Book
<1>6. d = Submit(Book, fresh, connected /\ "exitSame" \notin fail)
  BY DEF fresh
<1>7. (connected /\ "exitSame" \notin fail) \in BOOLEAN
  OBVIOUS
<1> HIDE DEF d
<1>8. Linked(d) /\ Follows(Book, d) /\ SubmitEffect(Book, d, fresh)
  BY <1>4, <1>5, <1>6, <1>7, SubmitLinks, SubmitReturns
<1>9. /\ Len(d.orders) = n /\ n \in DOMAIN d.orders /\ n \notin DOMAIN orders
      /\ \A i \in DOMAIN orders : d.orders[i] = orders[i]
      /\ o.role = "exit" /\ o.qty = p.qty /\ o.fillQty = 0
      /\ Refused(Book, d, o) \/ Accepted(Book, d, o)
  <2>1. /\ Len(d.orders) = n /\ \A i \in DOMAIN orders : d.orders[i] = orders[i]
        /\ o.role = "exit" /\ o.qty = p.qty /\ o.fillQty = 0
        /\ Refused(Book, d, o) \/ Accepted(Book, d, o)
    BY <1>4, <1>5, <1>8 DEF SubmitEffect
  <2>2. orders \in Seq(OrderRows) /\ d.orders \in Seq(OrderRows)
    BY <1>5, <1>8, LinkedTypes
  <2>3. n \in DOMAIN d.orders /\ n \notin DOMAIN orders
    BY <2>1, <2>2
  <2> QED BY <2>1, <2>3
<1>10. o \in OrderRows /\ RowLinked(o, Len(d.broker))
  BY <1>8, <1>9, LinkedTypes
<1>11. o.ibkr # None =>
          /\ o.ibkr \in DOMAIN d.broker /\ o.status = "submitted"
          /\ d.broker[o.ibkr].qty = p.qty
  <2>1. CASE Refused(Book, d, o)
    BY <2>1 DEF Refused
  <2>2. CASE Accepted(Book, d, o)
    <3>1. o.status = "submitted" /\ (o.ibkr # None => o.ibkr \in DOMAIN d.broker)
      BY <2>2, <1>8, <1>9, LinkedTypes DEF Accepted
    <3>2. d.broker[o.ibkr] = WorkingOrder(o.key.symbol, Side(o.role, o.key.dir), o.qty)
      BY <2>2 DEF Accepted
    <3> QED BY <3>1, <3>2, <1>9 DEF WorkingOrder
  <2> QED BY <2>1, <2>2, <1>9
<1> HIDE DEF o
<1>12. /\ row \in OrderRows /\ row.ibkr = None /\ row.role = "exit" /\ row.fillQty = 0
       /\ row.qty = p.qty /\ row.status = o.status
  BY <1>9, <1>10 DEF OrderRows, None
<1> HIDE DEF row
<1>13. RowLinked(row, Len(d.broker))
  <2>1. Len(d.broker) \in Nat
    BY <1>8, LinkedTypes
  <2> QED BY <2>1, <1>3, <1>12 DEF RowLinked, None
<1>14. /\ Linked(c) /\ Len(c.orders) = Len(d.orders) /\ DOMAIN c.orders = DOMAIN d.orders
       /\ c.orders[n] = row
       /\ \A l \in DOMAIN d.orders \ {n} : c.orders[l] = d.orders[l]
  <2>1. c = [orders |-> [d.orders EXCEPT ![n] = row], broker |-> d.broker]
    OBVIOUS
  <2> HIDE DEF c, n
  <2> QED BY <2>1, <1>8, <1>9, <1>12, <1>13, RowUpdateLinks
<1>15. c.broker = d.broker
  OBVIOUS
<1>16. SetBook(c)
  BY <1>2 DEF SetBook, row, o, d
<1> HIDE DEF c
<1>17. Follows(Book, c)
  <2>1. DOMAIN orders \subseteq DOMAIN d.orders /\ Len(orders) <= Len(d.orders)
    <3>1. /\ Len(orders) \in Nat /\ DOMAIN orders = 1 .. Len(orders)
          /\ Len(d.orders) \in Nat /\ DOMAIN d.orders = 1 .. Len(d.orders)
      BY <1>5, <1>8, LinkedTypes
    <3> QED BY <3>1, <1>9
  <2>2. \A i \in DOMAIN orders : c.orders[i] = orders[i]
    BY <2>1, <1>9, <1>14
  <2> QED BY <2>1, <2>2, <1>5, <1>8, <1>14, <1>15 DEF Follows
<1>18. BookKept
  BY <1>14, <1>16, <1>17, SetBookKept
<1>19. RouterKept
  <2>1. pos' \in [PosKeys -> Nat] /\ posRows' \subseteq PosKeys /\ trades' \in [PosKeys -> Nat]
    BY <1>1 DEF RouterInv, TypeOK
  <2> QED BY <2>1, <1>1, <1>18, FillKept
<1>20. orders' = c.orders /\ broker' = d.broker
  BY <1>15, <1>16 DEF SetBook
<1>21. exit' \subseteq {[key |-> p.key, row |-> n, ibkr |-> o.ibkr]} /\ (exit' # {} => o.ibkr # None)
  BY <1>2 DEF o, d
<1>22. /\ exit' \subseteq [key : PosKeys, row : DOMAIN orders', ibkr : DOMAIN broker']
       /\ \A e \in exit' :
             LET r == orders'[e.row]
             IN  r.ibkr = None => /\ r.role = "exit" /\ r.status = "submitted"
                                  /\ r.fillQty = 0 /\ r.qty = broker'[e.ibkr].qty
  <2> SUFFICES ASSUME NEW e \in exit'
               PROVE  /\ e \in [key : PosKeys, row : DOMAIN orders', ibkr : DOMAIN broker']
                      /\ /\ orders'[e.row].role = "exit" /\ orders'[e.row].status = "submitted"
                         /\ orders'[e.row].fillQty = 0
                         /\ orders'[e.row].qty = broker'[e.ibkr].qty
    OBVIOUS
  <2>1. e = [key |-> p.key, row |-> n, ibkr |-> o.ibkr] /\ o.ibkr # None
    BY <1>21
  <2>2. n \in DOMAIN orders' /\ o.ibkr \in DOMAIN broker'
    BY <2>1, <1>9, <1>11, <1>14, <1>20
  <2>3. orders'[n] = row
    BY <1>14, <1>20
  <2> QED BY <2>1, <2>2, <2>3, <1>3, <1>11, <1>12, <1>20
<1>23. todo' \subseteq Work(stage', DOMAIN orders)
  BY <1>1, <1>2, WorkLeft
<1>24. RouterInv'
  BY <1>19 DEF RouterKept
<1>25. /\ stale' \in 0 .. Len(orders')
       /\ (stale # None => orders[stale].ibkr # None /\ ~LeftAlone(broker[orders[stale].ibkr]))'
  BY <1>1, <1>19, StaleFollows
<1>26. MTypeOK'
  BY <1>1, <1>22, <1>23, <1>24, <1>25, WorkLeft DEF MTypeOK, RouterInv, Work
<1>27. CycleInv'
  BY <1>1, <1>22, <1>23, <1>25, <1>26 DEF CycleInv, Work
<1> QED
  BY <1>24, <1>27 DEF MInv

\* The exit row gets the id of the order it was placed as, which may have been filled
\* meanwhile.
LEMMA RecordExitIdInv ==
    ASSUME MInv, RecordExitId
    PROVE  MInv'
<1>1. PICK e \in exit : /\ orders[e.row].ibkr = None
                        /\ orders' = [orders EXCEPT ![e.row].ibkr = e.ibkr]
  BY DEF RecordExitId
<1>2. /\ RouterInv /\ CycleInv
      /\ UNCHANGED <<signals, handled, broker, pos, posRows, trades, connected, sync, snapshot,
                     drops, stage, todo, stale, exit, outcome, accepting, passing, windows>>
  BY DEF MInv, RecordExitId, dbVars, linkVars, cycleVars
<1> DEFINE i == e.row
           j == e.ibkr
           o == orders[i]
           row == [o EXCEPT !.ibkr = j]
           c == [orders |-> [orders EXCEPT ![i] = row], broker |-> broker]
<1>3. Linked(Book) /\ Book.orders = orders /\ Book.broker = broker
  BY <1>2 DEF RouterInv, Book
<1>4. /\ i \in DOMAIN orders /\ j \in DOMAIN broker /\ e.key \in PosKeys
      /\ o.role = "exit" /\ o.status = "submitted" /\ o.fillQty = 0 /\ o.qty = broker[j].qty
  BY <1>1, <1>2 DEF CycleInv, MTypeOK
<1>5. /\ o \in OrderRows /\ RowLinked(o, Len(broker))
      /\ broker[j] \in BrokerOrders /\ OrderLinked(broker[j])
      /\ j \in Nat /\ j # None /\ j \in 0 .. Len(broker)
      /\ orders \in Seq(OrderRows)
  <2>1. /\ o \in OrderRows /\ RowLinked(o, Len(broker))
        /\ broker[j] \in BrokerOrders /\ OrderLinked(broker[j])
        /\ DOMAIN broker = 1 .. Len(broker) /\ Len(broker) \in Nat
        /\ orders \in Seq(OrderRows)
    BY <1>3, <1>4, LinkedTypes
  <2> QED BY <2>1, <1>4 DEF None
<1> HIDE DEF o, j, i
<1>6. /\ row \in OrderRows /\ row.ibkr = j /\ row.role = o.role /\ row.status = o.status
      /\ row.fillQty = o.fillQty /\ row.qty = o.qty
  BY <1>5 DEF OrderRows
<1> HIDE DEF row
<1>7. RowLinked(row, Len(broker))
  BY <1>4, <1>5, <1>6 DEF RowLinked
<1>8. Placed(row, broker[row.ibkr])
  <2>1. broker[j].pending + broker[j].lost <= broker[j].executed
    BY <1>5 DEF OrderLinked
  <2>2. broker[j].pending \in Nat /\ broker[j].lost \in Nat
    BY <1>5 DEF BrokerOrders
  <2>3. row.fillQty + broker[j].pending + broker[j].lost <= broker[j].executed
    BY <2>1, <2>2, <1>4, <1>6
  <2> QED BY <2>3, <1>4, <1>6 DEF Placed, InFlight
<1>9. /\ Linked(c) /\ Len(c.orders) = Len(orders) /\ DOMAIN c.orders = DOMAIN orders
      /\ c.orders[i] = row
      /\ \A l \in DOMAIN orders \ {i} : c.orders[l] = orders[l]
  <2>1. c = [orders |-> [Book.orders EXCEPT ![i] = row], broker |-> Book.broker]
    BY <1>3
  <2>2. i \in DOMAIN Book.orders /\ RowLinked(row, Len(Book.broker))
        /\ Placed(row, Book.broker[row.ibkr])
    BY <1>3, <1>4, <1>7, <1>8
  <2> HIDE DEF c
  <2> QED BY <2>1, <2>2, <1>3, <1>6, RowUpdateLinks
<1>10. SetBook(c)
  BY <1>1, <1>2 DEF SetBook, row, o, j, i
<1>11. orders' = c.orders /\ broker' = broker
  BY <1>2, <1>10 DEF SetBook
<1> HIDE DEF c
<1>12. Linked(Book)' /\ orders' \in Seq(OrderRows)
  <2>1. c \in Books /\ c.broker = broker
    BY <1>9, <1>2, <1>10, LinkedTypes DEF SetBook
  <2>2. Book' = c
    BY <2>1, <1>11 DEF Book, Books
  <2>3. Linked(Book)'
    BY <2>2, <1>9
  <2> QED BY <2>1, <2>3, <1>11 DEF Books
<1>13. TypeOK'
  BY <1>2, <1>12 DEF RouterInv, TypeOK
<1>14. RouterInv'
  BY <1>2, <1>12, <1>13 DEF RouterInv
<1>15. MTypeOK'
  BY <1>2, <1>9, <1>11, <1>13 DEF CycleInv, MTypeOK
<1>16. stale # None => orders'[stale].ibkr # None /\ ~LeftAlone(broker[orders'[stale].ibkr])
  <2>1. ASSUME stale # None
        PROVE  /\ stale \in DOMAIN orders /\ stale # i
               /\ orders[stale].ibkr # None /\ ~LeftAlone(broker[orders[stale].ibkr])
    <3>1. stale \in DOMAIN orders
      BY <2>1, <1>2, <1>5 DEF CycleInv, MTypeOK, None
    <3>2. orders[stale].ibkr # None /\ ~LeftAlone(broker[orders[stale].ibkr])
      BY <2>1, <1>2 DEF CycleInv
    <3> QED BY <3>1, <3>2, <1>1 DEF i
  <2> QED BY <2>1, <1>9, <1>11
<1>17. \A f \in exit :
          LET r == orders'[f.row]
          IN  r.ibkr = None => /\ r.role = "exit" /\ r.status = "submitted"
                               /\ r.fillQty = 0 /\ r.qty = broker[f.ibkr].qty
  <2> SUFFICES ASSUME NEW f \in exit, orders'[f.row].ibkr = None
               PROVE  /\ orders'[f.row].role = "exit" /\ orders'[f.row].status = "submitted"
                      /\ orders'[f.row].fillQty = 0
                      /\ orders'[f.row].qty = broker[f.ibkr].qty
    OBVIOUS
  <2>1. f.row \in DOMAIN orders
    BY <1>2 DEF CycleInv, MTypeOK
  <2>2. f.row # i
    BY <1>5, <1>6, <1>9, <1>11
  <2>3. orders'[f.row] = orders[f.row]
    BY <2>1, <2>2, <1>9, <1>11
  <2> QED BY <2>3, <1>2 DEF CycleInv
<1>18. CycleInv'
  BY <1>2, <1>15, <1>16, <1>17, <1>11 DEF CycleInv
<1> QED
  BY <1>14, <1>18 DEF MInv

----------------------------------------------------------------------------
(* The theorems.                                                            *)

LEMMA MInitInv == MInit => MInv
<1> SUFFICES ASSUME MInit PROVE MInv
  OBVIOUS
<1>1. TypeOK
  BY DEF MInit, Init, TypeOK
<1>2. Book \in Books /\ Book.orders = <<>> /\ Book.broker = <<>>
  BY DEF MInit, Init, Book, Books
<1>3. Linked(Book)
  BY <1>2 DEF Linked
<1>4. RouterInv
  BY <1>1, <1>3 DEF RouterInv, MInit, Init
<1>5. MTypeOK
  <2>1. 0 \in 0 .. MaxSignals /\ 0 \in 0 .. MaxWindows /\ 0 \in 0 .. Len(orders)
    BY LimitsAssumption, WindowsAssumption DEF MInit, Init
  <2> QED BY <1>1, <2>1 DEF MTypeOK, MInit, Stages, None
<1>6. CycleInv
  BY <1>5 DEF CycleInv, MInit
<1> QED
  BY <1>4, <1>6 DEF MInv

LEMMA MNextInv == MInv /\ [MNext]_allVars => MInv'
<1> SUFFICES ASSUME MInv, [MNext]_allVars PROVE MInv'
  OBVIOUS
<1>1. CASE EnterPreClose
  BY <1>1, StageInv
<1>2. CASE CycleStep
  BY <1>2, StageInv, CancelOrderInv, PlaceExitInv, CancelCommitInv, RecordExitIdInv
     DEF CycleStep
<1>3. CASE PassGate \/ QueuePassed
  BY <1>3, PassedAlertInv
<1>4. CASE RouterStep
  BY <1>4, RouterStepInv
<1>5. CASE RestartAll
  BY <1>5, RestartAllInv
<1>6. CASE UNCHANGED allVars
  <2>1. UNCHANGED vars
        /\ UNCHANGED <<stage, todo, stale, exit, outcome, accepting, passing, windows>>
    BY <1>6 DEF allVars, cycleVars
  <2>2. RouterKept
    BY <2>1, SameStateKept DEF MInv
  <2> QED BY <2>1, <2>2, CycleKept, WorkLeft
<1> QED
  BY <1>1, <1>2, <1>3, <1>4, <1>5, <1>6 DEF MNext

LEMMA CycleInvariantHolds == MSpec => []MInv
BY MInitInv, MNextInv, PTL DEF MSpec

\* The state is well formed in every reachable state: what the sequence has read names
\* rows and orders that exist.
THEOREM MaintenanceTypeCorrect == MSpec => []MTypeOK
<1>1. MInv => MTypeOK
  BY DEF MInv, CycleInv
<1> QED
  BY <1>1, CycleInvariantHolds, PTL

\* The close sequence ends no row of an order left to work: what the broker still works on
\* and nobody tried to cancel is in flight in the database, although rows are cancelled on
\* a status read before an await and exits get their ids after their fills.
THEOREM OrdersStayTracked == MSpec => []WorkingOrdersTracked
<1>1. MInv => WorkingOrdersTracked
  <2>1. Book.orders = orders /\ Book.broker = broker
    BY DEF Book
  <2> QED BY <2>1 DEF MInv, RouterInv, Linked, Placed, WorkingOrdersTracked
<1> QED
  BY <1>1, CycleInvariantHolds, PTL

\* What holds of fills where FillsConserved does not: with two rows of one order a
\* report may be recorded on either, never on both.
FillsWithinExecutions ==
    \A i \in DOMAIN orders :
        LET o == orders[i]
            b == broker[o.ibkr]
        IN  /\ o.fillQty <= o.qty
            /\ o.signal # None /\ o.ibkr # None
                  => o.qty = b.qty /\ o.fillQty + b.pending + b.lost <= b.executed

\* No fill is invented while the close sequence runs: a row placed for a signal or by
\* the sequence records no more than its order has executed and delivered, and no
\* row more than its quantity.
THEOREM NoFillIsInvented == MSpec => []FillsWithinExecutions
<1>1. MInv => FillsWithinExecutions
  <2>1. Book.orders = orders /\ Book.broker = broker
    BY DEF Book
  <2> QED BY <2>1 DEF MInv, RouterInv, Linked, RowLinked, Placed, FillsWithinExecutions
<1> QED
  BY <1>1, CycleInvariantHolds, PTL

\* Signals still leave the queue in order and once each while the close sequence runs:
\* of its steps none touches the queue, and alerts that passed the gate join at its end.
THEOREM QueueSurvivesMaintenance == MSpec => SignalsTakenInOrder
<1>1. MInit => Delivery!Init
  BY QueueStartsEmpty DEF MInit
<1>2. MInv /\ MInv' /\ [MNext]_allVars => [Delivery!Next]_(Delivery!vars)
  <2> SUFFICES ASSUME MInv, MInv', [MNext]_allVars
               PROVE  Delivery!Next \/ UNCHANGED Delivery!vars
    OBVIOUS
  <2>1. TypeOK /\ TypeOK'
    BY DEF MInv, RouterInv
  <2>2. CASE QueuePassed
    BY <2>1, <2>2, AcceptQueues DEF Delivery!Next, QueuePassed
  <2>3. CASE RestartAll
    BY <2>1, <2>3, RestartCrashes DEF Delivery!Next, RestartAll
  <2>4. CASE RouterStep
    <3>1. CASE HandleSignal
      BY <2>1, <3>1, HandlerTakes DEF Delivery!Next
    <3>2. CASE HandleFill \/ BrokerStep \/ TwsDown \/ TwsUp \/ ReconcileRead \/ ReconcileWrite
      BY <3>2, QueueLeftAlone, QueueStutters
    <3>3. CASE CutShort
      BY <2>1, <3>3, CutShortQueue, QueueStutters DEF Delivery!Next
    <3> QED BY <2>4, <3>1, <3>2, <3>3 DEF RouterStep
  <2>5. CASE EnterPreClose \/ PassGate \/ UNCHANGED allVars
    <3>1. UNCHANGED vars
      BY <2>5 DEF EnterPreClose, PassGate, allVars
    <3> QED BY <3>1, QueueStutters DEF vars
  <2>6. CASE CycleStep
    <3>1. UNCHANGED <<signals, handled>>
      <4>1. UNCHANGED vars => UNCHANGED <<signals, handled>>
        BY DEF vars
      <4>2. ReadTrails \/ ReadPositions \/ ReadEntries \/ Verify \/ StopWaiting
               \/ Drained("trails", "trails_done") \/ Drained("positions", "positions_done")
               \/ EnterMaintenance \/ ExitMaintenance => UNCHANGED vars
        BY DEF ReadTrails, ReadPositions, ReadEntries, Query, Verify, StopWaiting, Drained,
               EnterMaintenance, ExitMaintenance
      <4>3. ASSUME NEW fail, CancelOrder(fail) \/ PlaceExit(fail)
            PROVE  UNCHANGED <<signals, handled>>
        BY <4>3 DEF CancelOrder, PlaceExit
      <4>4. CancelCommit \/ RecordExitId => UNCHANGED <<signals, handled>>
        BY DEF CancelCommit, RecordExitId
      <4> QED BY <2>6, <4>1, <4>2, <4>3, <4>4 DEF CycleStep
    <3> QED BY <3>1, QueueStutters
  <2> QED BY <2>2, <2>3, <2>4, <2>5, <2>6 DEF MNext
<1> QED
  BY <1>1, <1>2, CycleInvariantHolds, PTL DEF MSpec, SignalsTakenInOrder, Delivery!Spec
=============================================================================
