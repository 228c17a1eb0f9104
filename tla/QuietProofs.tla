----------------------------- MODULE QuietProofs -----------------------------
(***************************************************************************)
(* Theorems about the quiet market of MCMaintenance, for every instance.   *)
(*                                                                         *)
(* Signals are handled one at a time, after everything before them has     *)
(* settled; executions still come in parts, reports wait, orders may be    *)
(* refused and cancellations may fail.                                     *)
(*                                                                         *)
(* The first part follows the entries: a window without an alert is flat.  *)
(* The second part keeps the ledger of what the broker holds, what the     *)
(* orders were told of and what the positions say, where orders execute at *)
(* once: both agree whenever everything has settled.                       *)
(***************************************************************************)
EXTENDS MCMaintenance, MaintenanceProofs, FiniteSetTheorems, WellFoundedInduction

----------------------------------------------------------------------------
(* Entries.  In a quiet market no entry is ever cancelled: one that the     *)
(* broker took is followed until it is complete.                            *)

IsEntry(o) == o.role = "entry"

\* The broker ids of the entries.
EntryIds(b) == {b.orders[i].ibkr : i \in {l \in DOMAIN b.orders : IsEntry(b.orders[l])}} \ {None}

\* An entry's row and its order: nothing was lost, and the row is in flight as long
\* as something is missing.
Tracked(o, br) ==
    /\ br.cancel = "none" /\ br.lost = 0
    /\ br.live \/ br.executed = br.qty
    /\ o.qty = br.qty
    /\ o.fillQty + br.pending = br.executed
    /\ o.status \in InFlight <=> o.fillQty < o.qty

\* Every entry was refused or is followed, as the only row of its order; ids are the
\* orders whose rows have no id yet.
EntryFollowed(b, i, ids) ==
    LET o == b.orders[i]
    IN  IF o.ibkr = None
        THEN o.status = "error"
        ELSE /\ o.ibkr \notin ids
             /\ \A l \in DOMAIN b.orders \ {i} : b.orders[l].ibkr # o.ibkr
             /\ Tracked(o, b.broker[o.ibkr])

EntriesFollowed(b, ids) ==
    \A i \in DOMAIN b.orders : IsEntry(b.orders[i]) => EntryFollowed(b, i, ids)

ExitIds == {e.ibkr : e \in exit}

\* The queue is empty and no entry is in flight: nothing can open a position.
NothingOpens ==
    /\ ~accepting /\ passing = 0 /\ handled = Len(signals)
    /\ InFlightIds("entry") = {}

IsTrail(i) == orders[i].role = "trail_stop"

\* Outside normal trading nothing opens a position, and the sequence cancels trailing
\* stops only; what it reported complete stays flat.
QuietCycle ==
    /\ connected
    /\ stage # "normal" => NothingOpens
    /\ stage = "trails" => \A i \in todo : IsTrail(i)
    /\ stage = "entries" => todo = {}
    /\ stale # None => IsTrail(stale) /\ stage = "trails"
    /\ stage \in {"closed", "maintenance"} => outcome \in {"complete", "failed"}
    /\ stage \in {"closed", "maintenance"} /\ outcome = "complete" => OpenPositions = {}

QuietInv == EntriesFollowed(Book, ExitIds) /\ QuietCycle

NoEntryFlies(b) ==
    \A i \in DOMAIN b.orders : IsEntry(b.orders[i]) => b.orders[i].status \notin InFlight

\* What leaves the entries alone: no row of theirs changes or appears, nor does their
\* order, and no other row gets its id.
EntriesLeft(b, c) ==
    /\ \A i \in DOMAIN c.orders :
          IsEntry(c.orders[i]) => i \in DOMAIN b.orders /\ c.orders[i] = b.orders[i]
    /\ \A i \in DOMAIN c.orders :
          c.orders[i].ibkr \in EntryIds(b)
             => i \in DOMAIN b.orders /\ c.orders[i].ibkr = b.orders[i].ibkr
    /\ \A j \in EntryIds(b) : c.broker[j] = b.broker[j]

LEMMA EntryIdType ==
    ASSUME NEW b, Linked(b)
    PROVE  EntryIds(b) \subseteq DOMAIN b.broker
BY LinkedTypes DEF EntryIds

LEMMA LeftEntriesFollowed ==
    ASSUME NEW b, Linked(b), NEW ids, EntriesFollowed(b, ids),
           NEW c, EntriesLeft(b, c), NEW more, more \cap EntryIds(b) = {}
    PROVE  /\ EntriesFollowed(c, more)
           /\ NoEntryFlies(b) => NoEntryFlies(c)
<1>1. ASSUME NEW i \in DOMAIN c.orders, IsEntry(c.orders[i])
      PROVE  EntryFollowed(c, i, more)
  <2> DEFINE o == b.orders[i]
  <2>1. i \in DOMAIN b.orders /\ c.orders[i] = o /\ IsEntry(o)
    BY <1>1 DEF EntriesLeft
  <2>2. EntryFollowed(b, i, ids)
    BY <2>1 DEF EntriesFollowed
  <2>3. CASE o.ibkr = None
    BY <2>1, <2>2, <2>3 DEF EntryFollowed
  <2>4. CASE o.ibkr # None
    <3>1. o.ibkr \in EntryIds(b)
      BY <2>1, <2>4 DEF EntryIds
    <3>2. o.ibkr \notin more /\ c.broker[o.ibkr] = b.broker[o.ibkr]
      BY <3>1 DEF EntriesLeft
    <3>3. ASSUME NEW l \in DOMAIN c.orders \ {i}, c.orders[l].ibkr = o.ibkr PROVE FALSE
      <4>1. l \in DOMAIN b.orders /\ b.orders[l].ibkr = o.ibkr
        BY <3>1, <3>3 DEF EntriesLeft
      <4> QED BY <4>1, <2>2, <2>4 DEF EntryFollowed
    <3> QED BY <3>2, <3>3, <2>1, <2>2, <2>4 DEF EntryFollowed
  <2> QED BY <2>3, <2>4
<1>2. ASSUME NoEntryFlies(b) PROVE NoEntryFlies(c)
  BY <1>2 DEF NoEntryFlies, EntriesLeft
<1> QED
  BY <1>1, <1>2 DEF EntriesFollowed

\* Placing an order: an entry is followed from its first row on.
LEMMA SubmitEntries ==
    ASSUME NEW b, Linked(b), NEW ids, ids \subseteq DOMAIN b.broker, EntriesFollowed(b, ids),
           NEW row \in OrderRows, NEW ok \in BOOLEAN, row.fillQty = 0,
           NEW c, c = Submit(b, row, ok)
    PROVE  /\ EntriesFollowed(c, ids)
           /\ row.role # "entry" => EntriesLeft(b, c)
           /\ row.role # "entry" /\ NoEntryFlies(b) => NoEntryFlies(c)
<1> DEFINE n == Len(b.orders) + 1
           m == Len(b.broker) + 1
           new == c.orders[n]
<1>1. b \in Books
  BY DEF Linked
<1>2. SubmitEffect(b, c, row)
  BY <1>1, SubmitReturns
<1>3. /\ b.orders \in Seq(OrderRows) /\ b.broker \in Seq(BrokerOrders)
      /\ c.orders \in Seq(OrderRows) /\ c.broker \in Seq(BrokerOrders)
      /\ Len(c.orders) = n
      /\ \A i \in DOMAIN b.orders : c.orders[i] = b.orders[i]
      /\ new.role = row.role /\ new.qty = row.qty /\ new.fillQty = 0
      /\ row.qty \in Nat \ {0}
  BY <1>1, <1>2 DEF SubmitEffect, Books, OrderRows
<1>4. /\ DOMAIN c.orders = DOMAIN b.orders \cup {n} /\ n \notin DOMAIN b.orders
      /\ m \notin DOMAIN b.broker /\ m \in Nat \ {0}
  BY <1>3
<1>5. /\ \A j \in DOMAIN b.broker : c.broker[j] = b.broker[j]
      /\ \/ new.ibkr = None /\ new.status = "error"
         \/ /\ new.ibkr = m /\ new.status = "submitted"
            /\ c.broker[m].qty = row.qty /\ c.broker[m].executed = 0
            /\ c.broker[m].pending = 0 /\ c.broker[m].lost = 0
            /\ c.broker[m].cancel = "none" /\ c.broker[m].live
  <2>1. CASE Refused(b, c, new)
    BY <2>1 DEF Refused
  <2>2. CASE Accepted(b, c, new)
    <3>1. /\ \A j \in DOMAIN b.broker : c.broker[j] = b.broker[j]
          /\ new.ibkr = m /\ new.status = "submitted"
          /\ c.broker[m] = WorkingOrder(new.key.symbol, Side(new.role, new.key.dir), new.qty)
      BY <2>2 DEF Accepted
    <3> HIDE DEF new, m
    <3> QED BY <3>1, <1>3 DEF WorkingOrder
  <2> QED BY <2>1, <2>2, <1>2 DEF SubmitEffect
<1> HIDE DEF new, n, m
<1>6. EntryIds(b) \subseteq DOMAIN b.broker
  BY EntryIdType
<1>7. ASSUME NEW i \in DOMAIN c.orders, IsEntry(c.orders[i]) PROVE EntryFollowed(c, i, ids)
  <2>1. CASE i = n
    <3>1. c.orders[i] = new
      BY <2>1 DEF new
    <3>2. CASE new.ibkr = None
      BY <3>1, <3>2, <1>4, <1>5 DEF EntryFollowed, None
    <3>3. CASE new.ibkr # None
      <4>1. new.ibkr = m /\ new.status = "submitted" /\ m # None
        BY <3>3, <1>5
      <4>2. \A l \in DOMAIN b.orders : c.orders[l].ibkr # m
        <5>1. ASSUME NEW l \in DOMAIN b.orders PROVE b.orders[l].ibkr # m
          <6>1. b.orders[l].ibkr # None => b.orders[l].ibkr \in DOMAIN b.broker
            BY LinkedTypes
          <6> QED BY <6>1, <4>1, <1>4
        <5> QED BY <5>1, <1>3
      <4>3. Tracked(new, c.broker[m])
        BY <4>1, <1>3, <1>5, <3>3 DEF Tracked, InFlight
      <4>4. m \notin ids
        BY <1>4
      <4> QED BY <2>1, <3>1, <4>1, <4>2, <4>3, <4>4, <1>4 DEF EntryFollowed
    <3> QED BY <3>2, <3>3
  <2>2. CASE i # n
    <3> DEFINE o == b.orders[i]
    <3>1. i \in DOMAIN b.orders /\ c.orders[i] = o /\ EntryFollowed(b, i, ids)
      BY <2>2, <1>3, <1>4, <1>7 DEF EntriesFollowed
    <3>2. CASE o.ibkr = None
      BY <3>1, <3>2 DEF EntryFollowed
    <3>3. CASE o.ibkr # None
      <4>1. o.ibkr \in EntryIds(b)
        BY <3>1, <3>3, <1>7 DEF EntryIds
      <4>2. o.ibkr \in DOMAIN b.broker /\ o.ibkr # m
        BY <4>1, <1>4, <1>6
      <4>3. new.ibkr # o.ibkr
        BY <3>3, <4>2, <1>5
      <4>4. \A l \in DOMAIN c.orders \ {i} : c.orders[l].ibkr # o.ibkr
        <5>1. ASSUME NEW l \in DOMAIN b.orders \ {i} PROVE c.orders[l].ibkr # o.ibkr
          BY <3>1, <3>3, <1>3 DEF EntryFollowed
        <5> QED BY <5>1, <4>3, <1>4 DEF new
      <4>5. c.broker[o.ibkr] = b.broker[o.ibkr]
        BY <4>2, <1>5
      <4> QED BY <3>1, <3>3, <4>4, <4>5 DEF EntryFollowed
    <3> QED BY <3>2, <3>3
  <2> QED BY <2>1, <2>2
<1>8. ASSUME row.role # "entry" PROVE EntriesLeft(b, c)
  <2>1. ~IsEntry(c.orders[n])
    BY <1>3, <1>8 DEF IsEntry, new
  <2>2. c.orders[n].ibkr \notin EntryIds(b)
    BY <1>4, <1>5, <1>6 DEF EntryIds, new
  <2> QED BY <2>1, <2>2, <1>3, <1>4, <1>5, <1>6 DEF EntriesLeft
<1>9. row.role # "entry" /\ NoEntryFlies(b) => NoEntryFlies(c)
  BY <1>8 DEF NoEntryFlies, EntriesLeft
<1> QED
  BY <1>7, <1>8, <1>9 DEF EntriesFollowed

\* Asking the broker about orders of other rows.
LEMMA AskLeavesEntries ==
    ASSUME NEW b, Linked(b), NEW held, EntriesFollowed(b, held),
           NEW ids, ids \subseteq {i \in DOMAIN b.orders : ~IsEntry(b.orders[i])},
           NEW ok \in BOOLEAN, NEW j \in EntryIds(b)
    PROVE  AskCancel(b, ids, ok)[j] = b.broker[j]
<1>1. PICK i \in DOMAIN b.orders : IsEntry(b.orders[i]) /\ b.orders[i].ibkr = j /\ j # None
  BY DEF EntryIds
<1>2. \A l \in DOMAIN b.orders \ {i} : b.orders[l].ibkr # j
  BY <1>1 DEF EntriesFollowed, EntryFollowed
<1>3. ~\E l \in ids : b.orders[l].ibkr = j
  BY <1>1, <1>2
<1>4. j \in DOMAIN b.broker
  BY EntryIdType
<1> QED
  BY <1>3, <1>4 DEF AskCancel

LEMMA CancelLeavesEntries ==
    ASSUME NEW b, Linked(b), NEW held, EntriesFollowed(b, held),
           NEW ids, ids \subseteq {i \in DOMAIN b.orders : ~IsEntry(b.orders[i])},
           NEW sig \in Nat, NEW ok \in BOOLEAN, NEW c, c = CancelRows(b, ids, sig, ok)
    PROVE  EntriesLeft(b, c)
<1>1. b \in Books /\ ids \subseteq DOMAIN b.orders
  BY DEF Linked
<1>2. CancelEffect(b, c, ids, sig)
  BY <1>1, CancelReturns
<1>3. /\ DOMAIN c.orders = DOMAIN b.orders
      /\ \A i \in DOMAIN b.orders \ ids : c.orders[i] = b.orders[i]
      /\ \A i \in ids : CancelledRow(b.orders[i], c.orders[i])
  BY <1>2 DEF CancelEffect
<1>4. \A i \in DOMAIN c.orders : c.orders[i].ibkr = b.orders[i].ibkr
  BY <1>3 DEF CancelledRow
<1>5. ASSUME NEW i \in DOMAIN c.orders, IsEntry(c.orders[i]) PROVE c.orders[i] = b.orders[i]
  <2>1. i \notin ids
    BY <1>3, <1>5 DEF CancelledRow, IsEntry
  <2> QED BY <2>1, <1>3
<1>6. c.broker = AskCancel(b, ids, ok)
  BY DEF CancelRows
<1>7. \A j \in EntryIds(b) : c.broker[j] = b.broker[j]
  BY <1>6, AskLeavesEntries
<1> QED
  BY <1>3, <1>4, <1>5, <1>7 DEF EntriesLeft

----------------------------------------------------------------------------
(* Signals, handled while no entry is in flight.                             *)

Followed(b, ids) ==
    /\ Linked(b) /\ EntriesFollowed(b, ids) /\ NoEntryFlies(b)
    /\ ids \subseteq DOMAIN b.broker

LEMMA BrokerGrows ==
    ASSUME NEW b, NEW c, Linked(b), Linked(c), Follows(b, c)
    PROVE  DOMAIN b.broker \subseteq DOMAIN c.broker
<1>1. /\ Len(b.broker) \in Nat /\ DOMAIN b.broker = 1 .. Len(b.broker)
      /\ Len(c.broker) \in Nat /\ DOMAIN c.broker = 1 .. Len(c.broker)
  BY LinkedTypes
<1> QED
  BY <1>1 DEF Follows

LEMMA SubmitFollowed ==
    ASSUME NEW b, NEW ids, Followed(b, ids), NEW row \in OrderRows, NEW ok \in BOOLEAN,
           row.fillQty = 0, row.role # "entry", NEW c, c = Submit(b, row, ok)
    PROVE  Followed(c, ids)
<1>1. Linked(b) /\ EntriesFollowed(b, ids) /\ NoEntryFlies(b) /\ ids \subseteq DOMAIN b.broker
  BY DEF Followed
<1>2. Linked(c) /\ Follows(b, c)
  BY <1>1, SubmitLinks
<1>3. EntriesFollowed(c, ids) /\ NoEntryFlies(c)
  BY <1>1, SubmitEntries
<1> QED
  BY <1>1, <1>2, <1>3, BrokerGrows DEF Followed

LEMMA CancelFollowed ==
    ASSUME NEW b, NEW held, Followed(b, held), NEW sig \in Nat, NEW ok \in BOOLEAN,
           NEW ids, ids \subseteq {i \in DOMAIN b.orders : b.orders[i].role = "trail_stop"},
           NEW c, c = CancelRows(b, ids, sig, ok)
    PROVE  Followed(c, held)
<1>1. Linked(b) /\ EntriesFollowed(b, held) /\ NoEntryFlies(b) /\ held \subseteq DOMAIN b.broker
  BY DEF Followed
<1>2. Linked(c) /\ Follows(b, c)
  BY <1>1, CancelLinks
<1>3. EntriesLeft(b, c)
  BY <1>1, CancelLeavesEntries DEF IsEntry
<1>4. EntryIds(b) \cap held = {}
  BY <1>1 DEF EntryIds, EntriesFollowed, EntryFollowed
<1>5. EntriesFollowed(c, held) /\ NoEntryFlies(c)
  BY <1>1, <1>3, <1>4, LeftEntriesFollowed
<1> QED
  BY <1>1, <1>2, <1>5, BrokerGrows DEF Followed

LEMMA PlaceCloseFollowed ==
    ASSUME NEW b, NEW ids, Followed(b, ids), NEW sig \in Nat \ {0},
           NEW k \in PosKeys, pos[k] \in Nat \ {0},
           NEW cancelOk \in BOOLEAN, NEW exitOk \in BOOLEAN,
           NEW c, c = PlaceClose(b, sig, k, cancelOk, exitOk)
    PROVE  Followed(c, ids)
<1> DEFINE trails == Newest(ActiveTrails(b, k))
           d == CancelRows(b, trails, None, cancelOk)
           row == NewRow(sig, k, "exit", pos[k], None)
<1>1. trails \subseteq {i \in DOMAIN b.orders : b.orders[i].role = "trail_stop"}
  BY DEF Newest, ActiveTrails, InFlightRows
<1>2. Followed(d, ids)
  BY <1>1, CancelFollowed DEF None
<1>3. row \in OrderRows /\ row.fillQty = 0 /\ row.role = "exit"
  BY NewRowType, PositionKeyTypes DEF None, Roles
<1>4. c = Submit(d, row, exitOk)
  BY DEF PlaceClose
<1> HIDE DEF d, row
<1> QED
  BY <1>2, <1>3, <1>4, SubmitFollowed

LEMMA ClearedWayFollowed ==
    ASSUME TypeOK, NEW b, NEW ids, Followed(b, ids), NEW sig \in Nat \ {0},
           NEW k \in SignalKeys, NEW fail, NEW c, c = ClearedWay(b, sig, k, fail)
    PROVE  Followed(c, ids)
<1> DEFINE same == PosKey(k)
           opp == PosKey(OppositeKey(k))
           close == PlaceClose(b, sig, same, "cancelSame" \notin fail, "exitSame" \notin fail)
           b1 == IF pos[same] > 0 THEN close ELSE b
           entries == Newest(InFlightEntries(b1, OppositeKey(k)))
           b2 == CancelRows(b1, entries, sig, "cancelEntry" \notin fail)
           flip == PlaceClose(b2, sig, opp, "cancelOpposite" \notin fail, "exitOpposite" \notin fail)
<1>1. /\ same \in PosKeys /\ opp \in PosKeys
      /\ pos[same] \in Nat /\ pos[opp] \in Nat
  BY KeyTypes DEF TypeOK
<1>2. c = IF pos[opp] > 0 THEN flip ELSE b2
  BY DEF ClearedWay, ClosedSame, CancelledOpposite
<1> HIDE DEF same, opp
<1>3. Followed(b1, ids)
  <2>1. CASE pos[same] > 0
    <3>1. pos[same] \in Nat \ {0}
      BY <2>1, <1>1
    <3>2. close = PlaceClose(b, sig, same, "cancelSame" \notin fail, "exitSame" \notin fail)
      OBVIOUS
    <3> HIDE DEF close
    <3>3. Followed(close, ids)
      BY <3>1, <3>2, <1>1, PlaceCloseFollowed
    <3> QED BY <2>1, <3>3
  <2>2. CASE ~(pos[same] > 0)
    BY <2>2
  <2> QED BY <2>1, <2>2
<1> HIDE DEF b1
<1>4. entries = {}
  BY <1>3 DEF Newest, InFlightEntries, InFlightRows, Followed, NoEntryFlies, IsEntry
<1> HIDE DEF entries
<1>5. Followed(b2, ids)
  BY <1>3, <1>4, CancelFollowed
<1> HIDE DEF b2
<1>6. CASE pos[opp] > 0
  <2>1. pos[opp] \in Nat \ {0}
    BY <1>1, <1>6
  <2>2. c = PlaceClose(b2, sig, opp, "cancelOpposite" \notin fail, "exitOpposite" \notin fail)
    BY <1>2, <1>6
  <2> QED BY <2>1, <2>2, <1>1, <1>5, PlaceCloseFollowed
<1>7. CASE ~(pos[opp] > 0)
  BY <1>2, <1>5, <1>7
<1> QED
  BY <1>6, <1>7

\* Every entry is done when everything has settled: what was taken is filled.
LEMMA SettledEntries ==
    ASSUME RouterInv, NEW ids, EntriesFollowed(Book, ids), Settled
    PROVE  NoEntryFlies(Book)
<1>1. Linked(Book) /\ Book.orders = orders /\ Book.broker = broker
  BY DEF RouterInv, Book
<1>2. ASSUME NEW i \in DOMAIN orders, IsEntry(orders[i]) PROVE orders[i].status \notin InFlight
  <2> DEFINE o == orders[i]
  <2>1. EntryFollowed(Book, i, ids)
    BY <1>1, <1>2 DEF EntriesFollowed
  <2>2. CASE o.ibkr = None
    BY <2>1, <2>2, <1>1 DEF EntryFollowed, InFlight
  <2>3. CASE o.ibkr # None
    <3>1. Tracked(o, broker[o.ibkr]) /\ o.ibkr \in DOMAIN broker /\ o \in OrderRows
      BY <2>1, <2>3, <1>1, LinkedTypes DEF EntryFollowed
    <3>2. broker[o.ibkr].pending = 0 /\ ~broker[o.ibkr].live
      BY <2>3, <3>1, <1>2 DEF Settled, IsEntry
    <3>3. o.fillQty = o.qty
      BY <3>1, <3>2 DEF Tracked, OrderRows
    <3> QED BY <3>1, <3>3 DEF Tracked, OrderRows
  <2> QED BY <2>2, <2>3
<1> QED
  BY <1>1, <1>2 DEF NoEntryFlies

\* What a step owes the entries: they stay followed, and once the market is closed
\* none comes back in flight.
EntriesKept ==
    /\ EntriesFollowed(Book, ExitIds)'
    /\ stage' # "normal" => NoEntryFlies(Book)'

LEMMA ExitIdType ==
    ASSUME MInv
    PROVE  ExitIds \subseteq DOMAIN broker
BY DEF MInv, CycleInv, MTypeOK, ExitIds

LEMMA QuietClosed ==
    ASSUME MInv, QuietInv, stage # "normal"
    PROVE  NoEntryFlies(Book) /\ handled = Len(signals) /\ passing = 0 /\ ~accepting
BY DEF QuietInv, QuietCycle, NothingOpens, NoEntryFlies, InFlightIds, IsEntry, Book

\* The book a handler has made is the next state's.
LEMMA NextBook ==
    ASSUME NEW c, c \in Books, SetBook(c)
    PROVE  Book' = c
BY DEF SetBook, Book, Books

LEMMA SignalEntries ==
    ASSUME MInv, QuietInv, Settled, HandleSignal, UNCHANGED cycleVars
    PROVE  EntriesKept
<1>1. /\ RouterInv /\ TypeOK /\ Followed(Book, ExitIds) /\ UNCHANGED <<stage, exit>>
  BY SettledEntries, ExitIdType DEF MInv, RouterInv, QuietInv, Followed, Book, cycleVars
<1>2. Dequeue
  BY DEF HandleSignal, RejectOffline, CloseNothing, CloseSignal, ReplaceEntry, OpenSignal
<1>3. stage = "normal" /\ ExitIds' = ExitIds
  <2>1. handled # Len(signals)
    BY <1>1, <1>2 DEF Dequeue, TypeOK
  <2> QED BY <2>1, <1>1, QuietClosed DEF ExitIds
<1>4. SUFFICES EntriesFollowed(Book', ExitIds)
  BY <1>1, <1>3 DEF EntriesKept
<1>5. CASE RejectOffline \/ CloseNothing
  <2>1. Book' = Book
    BY <1>5 DEF RejectOffline, CloseNothing, bookVars, Book
  <2> QED BY <2>1, <1>1 DEF Followed
<1>6. ASSUME NEW fail, CloseSignal(fail) PROVE EntriesFollowed(Book', ExitIds)
  <2> DEFINE k == PosKey(Current.key)
             c == PlaceClose(Book, handled + 1, k, "cancelSame" \notin fail,
                             "exitSame" \notin fail)
  <2>1. SetBook(c) /\ pos[k] > 0
    BY <1>6 DEF CloseSignal
  <2>2. k \in PosKeys /\ handled + 1 \in Nat \ {0}
    BY <1>1, <1>2, CurrentType, KeyTypes
  <2>3. pos[k] \in Nat \ {0}
    BY <1>1, <2>1, <2>2 DEF TypeOK
  <2> HIDE DEF k
  <2>4. Followed(c, ExitIds)
    BY <1>1, <2>2, <2>3, PlaceCloseFollowed
  <2> HIDE DEF c
  <2>5. Book' = c
    BY <2>1, <2>4, NextBook DEF Followed, Linked
  <2> QED BY <2>4, <2>5 DEF Followed
<1>7. ASSUME NEW fail, ReplaceEntry(fail) PROVE FALSE
  <2>1. InFlightEntries(Book, Current.key) = {}
    BY <1>1 DEF InFlightEntries, InFlightRows, Followed, NoEntryFlies, IsEntry
  <2> QED BY <2>1, <1>7 DEF ReplaceEntry, Newest
<1>8. ASSUME NEW fail, OpenSignal(fail) PROVE EntriesFollowed(Book', ExitIds)
  <2> DEFINE k == Current.key
             cleared == ClearedWay(Book, handled + 1, k, fail)
             entry == NewRow(handled + 1, k, "entry", Current.qty, None)
             entered == Submit(cleared, entry, "entry" \notin fail)
  <2>1. /\ Current.kind = "open"
        /\ SetBook(cleared) \/ SetBook(entered)
    BY <1>8 DEF OpenSignal, Entered
  <2>2. handled + 1 \in Nat \ {0} /\ k \in SignalKeys /\ Current.qty \in Nat \ {0}
    BY <1>1, <1>2, <2>1, CurrentType DEF RouterInv, Current, Signals
  <2> HIDE DEF k
  <2>3. /\ entry \in OrderRows /\ entry.fillQty = 0 /\ entry.role = "entry"
        /\ entry.key = k /\ entry.signal # None
    <3>1. k \in OrderKeys /\ "entry" \in Roles /\ None \in Nat
      BY <2>2, KeyTypes DEF None, Roles
    <3> QED BY <3>1, <2>2, NewRowType DEF None
  <2> HIDE DEF entry
  <2>4. Followed(cleared, ExitIds)
    BY <1>1, <2>2, ClearedWayFollowed
  <2> HIDE DEF cleared
  <2>5. Linked(entered) /\ EntriesFollowed(entered, ExitIds)
    BY <2>2, <2>3, <2>4, SubmitEntries, SubmitLinks DEF Followed
  <2> HIDE DEF entered
  <2>6. Book' = cleared \/ Book' = entered
    BY <2>1, <2>4, <2>5, NextBook DEF Followed, Linked
  <2> QED BY <2>4, <2>5, <2>6 DEF Followed
<1> QED
  BY <1>5, <1>6, <1>7, <1>8 DEF HandleSignal

----------------------------------------------------------------------------
(* Fills and the broker.                                                     *)

\* An entry and its order advance together.
LEMMA EntryAdvances ==
    ASSUME NEW b, Linked(b), NEW ids, EntriesFollowed(b, ids),
           NEW i \in DOMAIN b.orders, IsEntry(b.orders[i]),
           NEW j, j = b.orders[i].ibkr, j # None,
           NEW c, DOMAIN c.orders = DOMAIN b.orders,
           \A l \in DOMAIN b.orders \ {i} : c.orders[l] = b.orders[l],
           \A l \in DOMAIN b.broker \ {j} : c.broker[l] = b.broker[l],
           c.orders[i].ibkr = j, Tracked(c.orders[i], c.broker[j])
    PROVE  EntriesFollowed(c, ids)
<1>1. EntryFollowed(b, i, ids)
  BY DEF EntriesFollowed
<1>2. j \notin ids /\ \A l \in DOMAIN b.orders \ {i} : b.orders[l].ibkr # j
  BY <1>1 DEF EntryFollowed
<1>3. ASSUME NEW l \in DOMAIN c.orders, IsEntry(c.orders[l]) PROVE EntryFollowed(c, l, ids)
  <2>1. CASE l = i
    BY <2>1, <1>2 DEF EntryFollowed
  <2>2. CASE l # i
    <3> DEFINE o == b.orders[l]
    <3>1. c.orders[l] = o /\ l \in DOMAIN b.orders /\ EntryFollowed(b, l, ids)
      BY <2>2, <1>3 DEF EntriesFollowed
    <3>2. CASE o.ibkr = None
      BY <3>1, <3>2 DEF EntryFollowed
    <3>3. CASE o.ibkr # None
      <4>1. o.ibkr \in DOMAIN b.broker /\ o.ibkr # j
        BY <3>1, <3>3, <1>2, <2>2, LinkedTypes
      <4>2. c.broker[o.ibkr] = b.broker[o.ibkr]
        BY <4>1
      <4>3. \A m \in DOMAIN c.orders \ {l} : c.orders[m].ibkr # o.ibkr
        BY <3>1, <3>3, <4>1 DEF EntryFollowed
      <4> QED BY <3>1, <3>3, <4>2, <4>3 DEF EntryFollowed
    <3> QED BY <3>2, <3>3
  <2> QED BY <2>1, <2>2
<1> QED
  BY <1>3 DEF EntriesFollowed

\* What happens to a row that is no entry, and to its order, leaves the entries alone.
LEMMA OthersLeaveEntries ==
    ASSUME NEW b, Linked(b), NEW ids, EntriesFollowed(b, ids),
           NEW i \in DOMAIN b.orders, ~IsEntry(b.orders[i]),
           NEW j, j = b.orders[i].ibkr,
           NEW c, DOMAIN c.orders = DOMAIN b.orders,
           \A l \in DOMAIN b.orders \ {i} : c.orders[l] = b.orders[l],
           \A l \in DOMAIN b.broker \ {j} : c.broker[l] = b.broker[l],
           c.orders[i].ibkr = j, ~IsEntry(c.orders[i])
    PROVE  EntriesLeft(b, c)
<1>1. j \notin EntryIds(b)
  <2>1. SUFFICES ASSUME j \in EntryIds(b) PROVE FALSE
    OBVIOUS
  <2>2. PICK l \in DOMAIN b.orders : IsEntry(b.orders[l]) /\ b.orders[l].ibkr = j /\ j # None
    BY <2>1 DEF EntryIds
  <2>3. EntryFollowed(b, l, ids) /\ l # i
    BY <2>2 DEF EntriesFollowed
  <2> QED BY <2>2, <2>3 DEF EntryFollowed
<1>2. \A l \in EntryIds(b) : c.broker[l] = b.broker[l]
  BY <1>1, EntryIdType
<1> QED
  BY <1>1, <1>2 DEF EntriesLeft

\* The steps that leave the entries alone keep what is known of them.
LEMMA LeftEntriesKept ==
    ASSUME MInv, QuietInv, EntriesLeft(Book, Book'), ExitIds' \cap EntryIds(Book) = {},
           stage' # "normal" => stage # "normal" \/ NoEntryFlies(Book)
    PROVE  EntriesKept
<1>1. Linked(Book) /\ EntriesFollowed(Book, ExitIds)
  BY DEF MInv, RouterInv, QuietInv
<1>2. EntriesFollowed(Book', ExitIds') /\ (NoEntryFlies(Book) => NoEntryFlies(Book'))
  BY <1>1, LeftEntriesFollowed
<1> QED
  BY <1>2, QuietClosed DEF EntriesKept

LEMMA ExitIdsApart ==
    ASSUME QuietInv
    PROVE  ExitIds \cap EntryIds(Book) = {}
BY DEF QuietInv, EntriesFollowed, EntryFollowed, EntryIds

LEMMA SameBookEntries ==
    ASSUME MInv, QuietInv, UNCHANGED <<orders, broker>>, ExitIds' \subseteq ExitIds,
           stage' # "normal" => stage # "normal" \/ NoEntryFlies(Book)
    PROVE  EntriesKept
<1>1. Book' = Book
  BY DEF Book
<1>2. Linked(Book)
  BY DEF MInv, RouterInv
<1>3. EntriesLeft(Book, Book')
  BY <1>1 DEF EntriesLeft, EntryIds
<1> QED
  BY <1>3, ExitIdsApart, LeftEntriesKept

\* A report for an entry: all of it is recorded, so the market is not closed.
LEMMA EntryReport ==
    ASSUME MInv, QuietInv, NEW i \in DOMAIN orders, NEW q, NEW x \in Nat, ReportOf(i, q, x),
           IsEntry(orders[i]), NEW n, n = CappedFill(orders[i], q + x),
           NEW row, row = AfterFill(orders[i], n),
           NEW taken, taken = Taken(i, q)
    PROVE  /\ n = q /\ n > 0 /\ stage = "normal"
           /\ orders[i].key \in SignalKeys
           /\ row.ibkr = orders[i].ibkr /\ IsEntry(row) /\ row \in OrderRows
           /\ Tracked(row, taken[row.ibkr])
<1> DEFINE o == orders[i]
           j == o.ibkr
           br == broker[j]
<1>1. RouterInv /\ Linked(Book) /\ Book.orders = orders /\ Book.broker = broker
  BY DEF MInv, RouterInv, Book
<1>2. /\ o \in OrderRows /\ RowLinked(o, Len(broker))
      /\ j # None /\ j \in DOMAIN broker
      /\ q \in Nat \ {0} /\ q <= br.pending
      /\ n \in Nat /\ n <= Remaining(o) /\ (o.signal # None => n = q)
  BY <1>1, ReportLinked
<1>3. o.key \in SignalKeys /\ o.signal # None /\ n = q /\ n > 0
  BY <1>2 DEF RowLinked, IsEntry
<1>4. Tracked(o, br)
  BY <1>1, <1>2 DEF QuietInv, EntriesFollowed, EntryFollowed
<1>5. br \in BrokerOrders /\ Len(broker) \in Nat
  BY <1>1, <1>2, LinkedTypes
<1>6. n <= o.qty - o.fillQty /\ o.qty \in Nat /\ o.fillQty \in Nat
  BY <1>2 DEF Remaining, OrderRows
<1>7. stage = "normal"
  <2>1. o.fillQty < o.qty
    BY <1>2, <1>3, <1>6
  <2>2. o.status \in InFlight
    BY <2>1, <1>4 DEF Tracked
  <2>3. ~NoEntryFlies(Book)
    BY <2>2, <1>1 DEF NoEntryFlies
  <2> QED BY <2>3, QuietClosed
<1>8. /\ row \in OrderRows /\ row.role = o.role /\ row.qty = o.qty /\ row.ibkr = j
      /\ row.fillQty = o.fillQty + n
      /\ row.status = (IF o.fillQty + n >= o.qty THEN "filled" ELSE "partially_filled")
  <2>1. o \in OrderRows /\ n \in Nat /\ row = AfterFill(o, n)
    BY <1>2
  <2>2. j = o.ibkr
    OBVIOUS
  <2> HIDE DEF o, j
  <2> QED BY <2>1, <2>2, AfterFillReturns
<1>9. /\ taken[j].qty = br.qty /\ taken[j].executed = br.executed
      /\ taken[j].lost = br.lost /\ taken[j].live = br.live
      /\ taken[j].cancel = br.cancel /\ taken[j].pending = br.pending - q
  <2>1. taken[j] = [br EXCEPT !.pending = @ - q]
    BY <1>2 DEF Taken, TakeReport
  <2> HIDE DEF br, j
  <2> QED BY <2>1, <1>2, <1>5, TakenOrder
<1> HIDE DEF o, br, j
<1>10. Tracked(row, taken[j])
  <2>1. br.pending \in Nat /\ br.executed \in Nat
    BY <1>5 DEF BrokerOrders
  <2>2. row.fillQty + (br.pending - q) = br.executed
    BY <2>1, <1>2, <1>3, <1>4, <1>6, <1>8 DEF Tracked
  <2>3. row.status \in InFlight <=> row.fillQty < row.qty
    BY <1>2, <1>6, <1>8 DEF InFlight
  <2> QED BY <2>2, <2>3, <1>4, <1>8, <1>9 DEF Tracked
<1> QED
  BY <1>3, <1>7, <1>8, <1>10 DEF IsEntry, o, j

LEMMA FillEntries ==
    ASSUME NoInterval \notin Intervals, MInv, QuietInv, HandleFill, UNCHANGED cycleVars
    PROVE  EntriesKept
<1>1. /\ RouterInv /\ Linked(Book) /\ Book.orders = orders /\ Book.broker = broker
      /\ EntriesFollowed(Book, ExitIds) /\ ExitIds \subseteq DOMAIN broker
      /\ orders \in Seq(OrderRows) /\ broker \in Seq(BrokerOrders)
  BY ExitIdType DEF MInv, RouterInv, QuietInv, Book, TypeOK
<1>2. ExitIds' = ExitIds /\ stage' = stage
  BY DEF cycleVars, ExitIds
<1>3. Book'.orders = orders' /\ Book'.broker = broker'
  BY DEF Book
<1>4. ASSUME NEW i \in DOMAIN orders, NEW q, NEW x \in Nat,
             FillIgnored(i, q, x) \/ FillRecordedOnly(i, q, x) \/ FillLostToDuplicateRow(i, q, x)
                \/ CloseFilled(i, q, x)
      PROVE  EntriesKept
  <2> DEFINE o == orders[i]
             j == o.ibkr
             n == CappedFill(o, q + x)
             row == AfterFill(o, n)
             taken == Taken(i, q)
  <2>1. /\ ReportOf(i, q, x) /\ broker' = taken
        /\ orders' = orders \/ orders' = [orders EXCEPT ![i] = row]
    BY <1>4 DEF FillIgnored, FillRecordedOnly, FillLostToDuplicateRow, CloseFilled
  <2>2. /\ o \in OrderRows /\ j # None /\ j \in DOMAIN broker /\ n \in Nat
    BY <1>1, <2>1, ReportLinked
  <2>3. /\ DOMAIN orders' = DOMAIN orders
        /\ \A l \in DOMAIN orders \ {i} : orders'[l] = orders[l]
        /\ \A l \in DOMAIN broker \ {j} : broker'[l] = broker[l]
        /\ orders'[i] \in {o, row}
    BY <1>1, <2>1 DEF Taken, TakeReport
  <2>4. row.ibkr = j /\ row.role = o.role
    <3>1. row = AfterFill(o, n)
      OBVIOUS
    <3>2. j = o.ibkr
      OBVIOUS
    <3> HIDE DEF row, o, n, j
    <3> QED BY <2>2, <3>1, <3>2, AfterFillReturns
  <2>5. CASE IsEntry(o)
    <3>1. /\ n = q /\ n > 0 /\ stage = "normal" /\ o.key \in SignalKeys
          /\ Tracked(row, taken[row.ibkr])
      BY <2>1, <2>5, EntryReport
    <3>2. orders'[i] = row
      <4>1. ~FillIgnored(i, q, x) /\ ~CloseFilled(i, q, x)
        BY <3>1, <2>5 DEF FillIgnored, CloseFilled, IsEntry
      <4>2. ~FillLostToDuplicateRow(i, q, x)
        <5>1. o.key.interval # NoInterval /\ PosKey(o.key) = o.key
          BY <3>1 DEF SignalKeys, PosKey, PosInterval
        <5> QED BY <5>1 DEF FillLostToDuplicateRow, MatchesPosition
      <4>3. FillRecordedOnly(i, q, x)
        BY <4>1, <4>2, <1>4
      <4> QED BY <4>3, <1>1 DEF FillRecordedOnly
    <3>3. Tracked(orders'[i], broker'[j]) /\ orders'[i].ibkr = j
      BY <3>1, <3>2, <2>1, <2>4
    <3>4. EntriesFollowed(Book', ExitIds)
      <4> HIDE DEF j, o, n, row, taken
      <4>1. j = orders[i].ibkr /\ IsEntry(orders[i])
        BY <2>5 DEF j, o
      <4> QED BY <4>1, <1>1, <1>3, <2>2, <2>3, <3>3, EntryAdvances
    <3> QED BY <3>1, <3>4, <1>2 DEF EntriesKept
  <2>6. CASE ~IsEntry(o)
    <3>1. orders'[i].ibkr = j /\ ~IsEntry(orders'[i])
      BY <2>3, <2>4, <2>6 DEF IsEntry
    <3>2. EntriesLeft(Book, Book')
      <4> HIDE DEF j, o, n, row, taken
      <4>1. j = orders[i].ibkr /\ ~IsEntry(orders[i])
        BY <2>6 DEF j, o
      <4>2. /\ Linked(Book) /\ EntriesFollowed(Book, ExitIds)
            /\ i \in DOMAIN Book.orders /\ ~IsEntry(Book.orders[i]) /\ j = Book.orders[i].ibkr
            /\ DOMAIN Book'.orders = DOMAIN Book.orders
            /\ \A l \in DOMAIN Book.orders \ {i} : Book'.orders[l] = Book.orders[l]
            /\ \A l \in DOMAIN Book.broker \ {j} : Book'.broker[l] = Book.broker[l]
            /\ Book'.orders[i].ibkr = j /\ ~IsEntry(Book'.orders[i])
        BY <4>1, <1>1, <1>3, <2>3, <3>1
      <4> QED BY ONLY <4>2, OthersLeaveEntries
    <3> QED BY <3>2, <1>2, ExitIdsApart, LeftEntriesKept
  <2> QED BY <2>5, <2>6
<1>5. ASSUME NEW i \in DOMAIN orders, NEW q, NEW x \in Nat, NEW trailOk \in BOOLEAN,
             EntryFilled(i, q, x, trailOk)
      PROVE  EntriesKept
  <2> DEFINE o == orders[i]
             j == o.ibkr
             n == CappedFill(o, q + x)
             filled == AfterFill(o, n)
             b == [orders |-> [orders EXCEPT ![i] = filled], broker |-> Taken(i, q)]
             trail == NewRow(o.signal, o.key, "trail_stop", filled.fillQty, i)
             placed == Submit(b, trail, connected /\ trailOk)
  <2>1. /\ ReportOf(i, q, x) /\ n > 0 /\ IsEntry(o)
        /\ SetBook(IF DisableTrail THEN b ELSE placed)
    BY <1>5 DEF EntryFilled, EntryRecorded, FilledBook, WithStop, IsEntry
  <2>2. /\ stage = "normal" /\ o.key \in SignalKeys
        /\ filled.ibkr = j /\ IsEntry(filled) /\ filled \in OrderRows
        /\ Tracked(filled, Taken(i, q)[filled.ibkr])
    BY <2>1, EntryReport
  <2>3. /\ o \in OrderRows /\ j # None /\ j \in DOMAIN broker /\ n \in Nat
        /\ RowLinked(o, Len(broker))
    BY <1>1, <2>1, ReportLinked
  <2>4. Linked(b)
    BY <1>1, <2>1, RecordedLinks
  <2>5. /\ DOMAIN b.orders = DOMAIN orders
        /\ \A l \in DOMAIN orders \ {i} : b.orders[l] = orders[l]
        /\ \A l \in DOMAIN broker \ {j} : b.broker[l] = broker[l]
        /\ b.orders[i] = filled /\ b.broker = Taken(i, q) /\ DOMAIN b.broker = DOMAIN broker
    BY <1>1 DEF Taken, TakeReport
  <2>6. filled.fillQty \in Nat \ {0}
    <3>1. filled = AfterFill(o, n) /\ n > 0
      BY <2>1
    <3> HIDE DEF filled, o, n
    <3>2. filled.fillQty = o.fillQty + n
      BY <3>1, <2>3, AfterFillReturns
    <3> QED BY <3>1, <3>2, <2>3 DEF OrderRows
  <2>7. trail \in OrderRows /\ trail.fillQty = 0 /\ trail.role = "trail_stop"
    <3>1. o.signal \in Nat \ {0} /\ o.key \in OrderKeys /\ i \in Nat /\ "trail_stop" \in Roles
      <4>1. o.signal # None
        BY <2>1, <2>3 DEF RowLinked, IsEntry
      <4>2. o.signal \in Nat \ {0}
        BY <4>1, <2>3 DEF OrderRows, None
      <4>3. i \in Nat
        BY <1>1
      <4> QED BY <4>2, <4>3, <2>2, KeyTypes DEF Roles
    <3> HIDE DEF filled, o
    <3> QED BY <3>1, <2>6, NewRowType
  <2> HIDE DEF filled, trail, b
  <2>8. EntriesFollowed(b, ExitIds)
    <3>1. j = orders[i].ibkr /\ IsEntry(orders[i])
      BY <2>1
    <3>2. b.orders[i].ibkr = j /\ Tracked(b.orders[i], b.broker[j])
      BY <2>2, <2>5
    <3> HIDE DEF j, o, n
    <3>3. /\ Linked(Book) /\ EntriesFollowed(Book, ExitIds)
          /\ i \in DOMAIN Book.orders /\ IsEntry(Book.orders[i]) /\ j = Book.orders[i].ibkr
          /\ DOMAIN b.orders = DOMAIN Book.orders /\ j # None
          /\ \A l \in DOMAIN Book.orders \ {i} : b.orders[l] = Book.orders[l]
          /\ \A l \in DOMAIN Book.broker \ {j} : b.broker[l] = Book.broker[l]
      BY <3>1, <1>1, <2>3, <2>5
    <3> QED BY ONLY <3>2, <3>3, EntryAdvances
  <2>9. /\ (connected /\ trailOk) \in BOOLEAN
        /\ ExitIds \subseteq DOMAIN b.broker
    BY <1>1, <2>5
  <2>10. Linked(placed) /\ EntriesFollowed(placed, ExitIds)
    BY <2>4, <2>7, <2>8, <2>9, SubmitEntries, SubmitLinks
  <2> HIDE DEF placed
  <2>11. Book' = b \/ Book' = placed
    BY <2>1, <2>4, <2>10, NextBook DEF Linked
  <2> QED BY <2>2, <2>8, <2>10, <2>11, <1>2 DEF EntriesKept
<1>6. ASSUME NEW j \in DOMAIN broker, NEW q, OrphanFill(j, q) PROVE EntriesKept
  <2> DEFINE made == [NewRow(None, [symbol |-> broker[j].symbol,
                               dir |-> IF broker[j].side = "SELL" THEN "long" ELSE "short",
                               interval |-> NoInterval], "trail_stop", q, None)
                       EXCEPT !.ibkr = j, !.fillQty = q, !.status = "filled"]
             m == Len(orders) + 1
  <2>1. ~HasRow(j) /\ broker' = TakeReport(broker, j, q) /\ orders' = Append(orders, made)
    BY <1>6 DEF OrphanFill
  <2>2. made.role = "trail_stop" /\ made.ibkr = j
    BY DEF NewRow
  <2> HIDE DEF made
  <2>3. /\ DOMAIN orders' = DOMAIN orders \cup {m} /\ m \notin DOMAIN orders
        /\ orders'[m] = made
        /\ \A l \in DOMAIN orders : orders'[l] = orders[l]
        /\ \A l \in DOMAIN broker \ {j} : broker'[l] = broker[l]
    BY <1>1, <2>1 DEF TakeReport
  <2>4. j \notin EntryIds(Book)
    BY <1>1, <2>1 DEF EntryIds, HasRow
  <2>5. EntryIds(Book) \subseteq DOMAIN broker
    BY <1>1, EntryIdType
  <2>6. EntriesLeft(Book, Book')
    <3>1. \A l \in EntryIds(Book) : broker'[l] = broker[l]
      BY <2>3, <2>4, <2>5
    <3>2. ~IsEntry(orders'[m]) /\ orders'[m].ibkr \notin EntryIds(Book)
      BY <2>2, <2>3, <2>4 DEF IsEntry
    <3> HIDE DEF m
    <3> QED BY <1>1, <1>3, <2>3, <3>1, <3>2 DEF EntriesLeft
  <2> QED BY <2>6, <1>2, ExitIdsApart, LeftEntriesKept
<1>7. CASE KnownFill
  <2>1. PICK i \in DOMAIN orders :
           \E q \in Chunks(broker[orders[i].ibkr].pending), x \in 0 .. MaxOverstatement :
              \/ FillIgnored(i, q, x)
              \/ FillRecordedOnly(i, q, x)
              \/ \E trailOk \in {"trail" \notin fail : fail \in Failures} :
                    EntryFilled(i, q, x, trailOk)
              \/ FillLostToDuplicateRow(i, q, x)
              \/ CloseFilled(i, q, x)
    BY <1>7 DEF KnownFill
  <2>2. PICK q \in Chunks(broker[orders[i].ibkr].pending), x \in 0 .. MaxOverstatement :
           \/ FillIgnored(i, q, x)
           \/ FillRecordedOnly(i, q, x)
           \/ \E trailOk \in {"trail" \notin fail : fail \in Failures} :
                 EntryFilled(i, q, x, trailOk)
           \/ FillLostToDuplicateRow(i, q, x)
           \/ CloseFilled(i, q, x)
    BY <2>1
  <2>3. x \in Nat
    BY LimitsAssumption
  <2>4. {"trail" \notin fail : fail \in Failures} \subseteq BOOLEAN
    OBVIOUS
  <2> QED BY <2>2, <2>3, <2>4, <1>4, <1>5
<1> QED
  BY <1>6, <1>7 DEF HandleFill, UnknownFill

\* An execution of an entry advances it; a cancellation is never one of an entry.
LEMMA BrokerEntries ==
    ASSUME MInv, QuietInv, NEW j \in DOMAIN broker,
           (\E q : Execute(j, q)) \/ ConfirmCancel(j), UNCHANGED cycleVars
    PROVE  EntriesKept
<1>1. /\ RouterInv /\ Linked(Book) /\ Book.orders = orders /\ Book.broker = broker
      /\ EntriesFollowed(Book, ExitIds) /\ connected
      /\ orders \in Seq(OrderRows) /\ broker \in Seq(BrokerOrders)
  BY DEF MInv, RouterInv, QuietInv, QuietCycle, Book, TypeOK
<1>2. ExitIds' = ExitIds /\ stage' = stage
  BY DEF cycleVars, ExitIds
<1>3. Book'.orders = orders' /\ Book'.broker = broker'
  BY DEF Book
<1>4. /\ orders' = orders /\ DOMAIN broker' = DOMAIN broker
      /\ \A l \in DOMAIN broker \ {j} : broker'[l] = broker[l]
  BY <1>1 DEF Execute, ConfirmCancel
<1>5. CASE j \in EntryIds(Book)
  <2>1. PICK i \in DOMAIN orders : IsEntry(orders[i]) /\ orders[i].ibkr = j /\ j # None
    BY <1>1, <1>5 DEF EntryIds
  <2> DEFINE o == orders[i]
             br == broker[j]
  <2>2. Tracked(o, br) /\ br \in BrokerOrders /\ o \in OrderRows
    BY <1>1, <2>1 DEF EntriesFollowed, EntryFollowed
  <2>3. ~ConfirmCancel(j)
    BY <2>2 DEF ConfirmCancel, Tracked
  <2>4. PICK q : Execute(j, q)
    BY <2>3
  <2>5. Tracked(o, broker'[j])
    <3> DEFINE done == br.executed + q
               waiting == br.pending + q
               open == done < br.qty
    <3>1. broker'[j] = [br EXCEPT !.executed = done, !.pending = waiting, !.lost = br.lost,
                                  !.live = open]
      BY <1>1, <2>4 DEF Execute
    <3>2. q \in Nat /\ done <= br.qty
      <4>1. q \in Chunks(br.qty - br.executed) /\ br.live
        BY <2>4 DEF Execute
      <4>2. br.qty - br.executed \in Nat /\ br.qty \in Nat /\ br.executed \in Nat
        <5>1. OrderLinked(br)
          BY <1>1, LinkedTypes
        <5> QED BY <5>1, <2>2 DEF OrderLinked, BrokerOrders
      <4>3. q \in Nat \ {0} /\ q <= br.qty - br.executed
        BY <4>1, <4>2, ChunkType
      <4> QED BY <4>2, <4>3
    <3>3. o.fillQty + waiting = done /\ (open \/ done = br.qty)
      BY <3>2, <2>2 DEF Tracked, OrderRows, BrokerOrders
    <3> HIDE DEF done, waiting, open, br, o
    <3>4. /\ broker'[j].qty = br.qty /\ broker'[j].executed = done
          /\ broker'[j].pending = waiting /\ broker'[j].lost = br.lost
          /\ broker'[j].live = open /\ broker'[j].cancel = br.cancel
      BY <3>1, <2>2 DEF BrokerOrders
    <3> QED BY <3>3, <3>4, <2>2 DEF Tracked
  <2>6. EntriesFollowed(Book', ExitIds)
    BY <2>1, <2>5, <1>1, <1>3, <1>4, EntryAdvances
  <2>7. stage # "normal" => NoEntryFlies(Book')
    BY <1>3, <1>4, <1>1, QuietClosed DEF NoEntryFlies
  <2> QED BY <2>6, <2>7, <1>2 DEF EntriesKept
<1>6. CASE j \notin EntryIds(Book)
  <2>1. EntryIds(Book) \subseteq DOMAIN broker
    BY <1>1, EntryIdType
  <2>2. EntriesLeft(Book, Book')
    BY <2>1, <1>1, <1>3, <1>4, <1>6 DEF EntriesLeft
  <2> QED BY <2>2, <1>2, ExitIdsApart, LeftEntriesKept
<1> QED
  BY <1>5, <1>6

----------------------------------------------------------------------------
(* The close sequence.                                                       *)

LEMMA SequenceEntries ==
    ASSUME MInv, QuietInv, CycleStep
    PROVE  EntriesKept
<1>1. /\ RouterInv /\ Linked(Book) /\ Book.orders = orders /\ Book.broker = broker
      /\ EntriesFollowed(Book, ExitIds) /\ ExitIds \subseteq DOMAIN broker
      /\ orders \in Seq(OrderRows) /\ broker \in Seq(BrokerOrders)
  BY ExitIdType DEF MInv, RouterInv, QuietInv, Book, TypeOK
<1>2. Book'.orders = orders' /\ Book'.broker = broker'
  BY DEF Book
<1>3. EntryIds(Book) \subseteq DOMAIN broker
  BY <1>1, EntryIdType
<1>4. CASE \/ ReadTrails \/ ReadPositions \/ ReadEntries \/ Verify \/ StopWaiting
           \/ Drained("trails", "trails_done") \/ Drained("positions", "positions_done")
           \/ EnterMaintenance \/ ExitMaintenance
  <2>1. /\ UNCHANGED vars /\ exit' \subseteq exit
        /\ stage' # "normal" => stage # "normal"
    BY <1>4 DEF ReadTrails, ReadPositions, ReadEntries, Query, Verify, StopWaiting, Drained,
                EnterMaintenance, ExitMaintenance
  <2>2. UNCHANGED <<orders, broker>> /\ ExitIds' \subseteq ExitIds
    BY <2>1 DEF vars, ExitIds
  <2> QED BY <2>1, <2>2, SameBookEntries
<1>5. ASSUME NEW fail, CancelOrder(fail) PROVE EntriesKept
  <2>1. PICK i \in todo :
           \/ broker' = broker
           \/ broker' = AskCancel(Book, {i}, connected /\ "cancelSame" \notin fail)
    BY <1>5 DEF CancelOrder
  <2>2. /\ UNCHANGED <<orders, stage, exit>> /\ stage \in {"trails", "entries"}
    BY <1>5 DEF CancelOrder
  <2>3. stage = "trails" /\ IsTrail(i) /\ i \in DOMAIN orders
    BY <2>2 DEF QuietInv, QuietCycle, MInv, CycleInv, MTypeOK
  <2>4. {i} \subseteq {l \in DOMAIN orders : ~IsEntry(orders[l])}
    BY <2>3 DEF IsTrail, IsEntry
  <2>5. \A l \in EntryIds(Book) : broker'[l] = broker[l]
    <3>1. {i} \subseteq {l \in DOMAIN Book.orders : ~IsEntry(Book.orders[l])}
      BY <2>4, <1>1
    <3>2. (connected /\ "cancelSame" \notin fail) \in BOOLEAN
      OBVIOUS
    <3>3. \A l \in EntryIds(Book) :
             AskCancel(Book, {i}, connected /\ "cancelSame" \notin fail)[l] = Book.broker[l]
      BY <3>1, <3>2, <1>1, AskLeavesEntries
    <3> QED BY <2>1, <3>3, <1>1
  <2>6. EntriesLeft(Book, Book')
    BY <2>2, <2>5, <1>1, <1>2 DEF EntriesLeft
  <2>7. ExitIds' = ExitIds /\ stage' = stage
    BY <2>2 DEF ExitIds
  <2> QED BY <2>6, <2>7, ExitIdsApart, LeftEntriesKept
<1>6. ASSUME CancelCommit PROVE EntriesKept
  <2>1. /\ stale # None /\ orders' = [orders EXCEPT ![stale].status = "cancelled"]
        /\ UNCHANGED <<broker, stage, exit>>
    BY <1>6 DEF CancelCommit
  <2>2. stale \in DOMAIN orders /\ IsTrail(stale)
    <3>1. stale \in 0 .. Len(orders) /\ DOMAIN orders = 1 .. Len(orders)
      BY <1>1 DEF MInv, CycleInv, MTypeOK
    <3> QED BY <3>1, <2>1 DEF None, QuietInv, QuietCycle
  <2>3. /\ orders'[stale].ibkr = orders[stale].ibkr /\ orders'[stale].role = "trail_stop"
        /\ DOMAIN orders' = DOMAIN orders
        /\ \A l \in DOMAIN orders \ {stale} : orders'[l] = orders[l]
    <3>1. orders[stale] \in OrderRows
      BY <2>2, <1>1
    <3> QED BY <3>1, <2>1, <2>2 DEF OrderRows, IsTrail
  <2>4. EntriesLeft(Book, Book')
    <3> DEFINE j == orders[stale].ibkr
    <3>1. j = Book.orders[stale].ibkr /\ ~IsEntry(orders[stale]) /\ ~IsEntry(orders'[stale])
      BY <2>2, <2>3, <1>1 DEF IsEntry, IsTrail
    <3> HIDE DEF j
    <3>2. \A l \in DOMAIN Book.broker \ {j} : Book'.broker[l] = Book.broker[l]
      BY <2>1, <1>1, <1>2
    <3>3. /\ stale \in DOMAIN Book.orders /\ DOMAIN Book'.orders = DOMAIN Book.orders
          /\ \A l \in DOMAIN Book.orders \ {stale} : Book'.orders[l] = Book.orders[l]
          /\ Book'.orders[stale].ibkr = j
          /\ ~IsEntry(Book.orders[stale]) /\ ~IsEntry(Book'.orders[stale])
      BY <3>1, <2>2, <2>3, <1>1, <1>2
    <3> QED BY <3>1, <3>2, <3>3, <1>1, OthersLeaveEntries
  <2>5. ExitIds' = ExitIds
    BY <2>1 DEF ExitIds
  <2> QED BY <2>1, <2>4, <2>5, ExitIdsApart, LeftEntriesKept
<1>7. ASSUME NEW fail, PlaceExit(fail) PROVE EntriesKept
  <2> DEFINE Placing(p) == Submit(Book, NewRow(StubSignal, p.key, "exit", p.qty, None),
                                  connected /\ "exitSame" \notin fail)
             n == Len(orders) + 1
             m == Len(broker) + 1
  <2>1. PICK p \in todo :
           LET ibkr == Placing(p).orders[n].ibkr
           IN  /\ todo' = todo \ {p}
               /\ orders' = [Placing(p).orders EXCEPT ![n].ibkr = None]
               /\ broker' = Placing(p).broker
               /\ exit' = IF ibkr = None THEN {} ELSE {[key |-> p.key, row |-> n, ibkr |-> ibkr]}
    BY <1>7 DEF PlaceExit
  <2>2. stage = "positions" /\ stage' = stage
    BY <1>7 DEF PlaceExit
  <2>3. p.key \in PosKeys /\ p.qty \in Nat \ {0}
    BY <2>2 DEF MInv, CycleInv, MTypeOK
  <2> DEFINE fresh == NewRow(StubSignal, p.key, "exit", p.qty, None)
             d == Submit(Book, fresh, connected /\ "exitSame" \notin fail)
  <2>4. fresh \in OrderRows /\ fresh.role = "exit"
    <3>1. StubSignal \in Nat /\ p.key \in OrderKeys /\ "exit" \in Roles /\ None \in Nat
      BY <2>3, PositionKeyTypes, LimitsAssumption DEF StubSignal, Roles, None
    <3> QED BY <3>1, <2>3, NewRowType
  <2>5. /\ orders' = [d.orders EXCEPT ![n].ibkr = None] /\ broker' = d.broker
        /\ ExitIds' \subseteq {d.orders[n].ibkr} \ {None}
    <3>1. /\ orders' = [Placing(p).orders EXCEPT ![n].ibkr = None] /\ broker' = Placing(p).broker
          /\ exit' = IF Placing(p).orders[n].ibkr = None THEN {}
                     ELSE {[key |-> p.key, row |-> n, ibkr |-> Placing(p).orders[n].ibkr]}
      BY <2>1
    <3>2. Placing(p) = d
      OBVIOUS
    <3> HIDE DEF Placing, d
    <3> QED BY <3>1, <3>2 DEF ExitIds
  <2>6. (connected /\ "exitSame" \notin fail) \in BOOLEAN /\ Book \in Books
    BY <1>1 DEF Linked
  <2> HIDE DEF fresh
  <2>7. SubmitEffect(Book, d, fresh)
    BY <2>4, <2>6, SubmitReturns
  <2> HIDE DEF d
  <2>8. /\ d.orders \in Seq(OrderRows) /\ Len(d.orders) = n
        /\ \A l \in DOMAIN orders : d.orders[l] = orders[l]
        /\ \A l \in DOMAIN broker : d.broker[l] = broker[l]
        /\ d.orders[n].ibkr \in {None, m} /\ d.orders[n].role = "exit"
    BY <2>4, <2>7, <1>1 DEF SubmitEffect, Refused, Accepted, Books
  <2>9. /\ DOMAIN orders' = DOMAIN orders \cup {n} /\ n \notin DOMAIN orders
        /\ \A l \in DOMAIN orders : orders'[l] = orders[l]
        /\ orders'[n].ibkr = None /\ orders'[n].role = "exit"
        /\ m \notin DOMAIN broker
    <3>1. DOMAIN d.orders = DOMAIN orders \cup {n} /\ n \notin DOMAIN orders /\ m \notin DOMAIN broker
      BY <1>1, <2>8
    <3>2. d.orders[n] \in OrderRows
      BY <2>8, <3>1
    <3> HIDE DEF n, m
    <3>3. \A l \in DOMAIN orders : orders'[l] = orders[l]
      BY <2>5, <2>8, <3>1
    <3>4. orders'[n] = [d.orders[n] EXCEPT !.ibkr = None]
      BY <2>5, <3>1
    <3>5. DOMAIN orders' = DOMAIN d.orders
      BY <2>5
    <3> QED BY <2>8, <3>1, <3>2, <3>3, <3>4, <3>5 DEF OrderRows
  <2> HIDE DEF n, m
  <2>10. EntriesLeft(Book, Book')
    <3>1. ~IsEntry(orders'[n]) /\ orders'[n].ibkr \notin EntryIds(Book)
      BY <2>9 DEF IsEntry, EntryIds
    <3> QED BY <3>1, <2>5, <2>8, <2>9, <1>1, <1>2, <1>3 DEF EntriesLeft
  <2>11. ExitIds' \cap EntryIds(Book) = {}
    BY <2>5, <2>8, <2>9, <1>3
  <2> QED BY <2>2, <2>10, <2>11, LeftEntriesKept
<1>8. ASSUME RecordExitId PROVE EntriesKept
  <2>1. PICK e \in exit : orders[e.row].ibkr = None /\ orders' = [orders EXCEPT ![e.row].ibkr = e.ibkr]
    BY <1>8 DEF RecordExitId
  <2>2. UNCHANGED <<broker, stage, exit>>
    BY <1>8 DEF RecordExitId, cycleVars
  <2>3. e.row \in DOMAIN orders /\ orders[e.row].role = "exit" /\ e.ibkr \in ExitIds
    BY <2>1 DEF MInv, CycleInv, MTypeOK, ExitIds
  <2>4. /\ orders'[e.row].ibkr = e.ibkr /\ orders'[e.row].role = "exit"
        /\ DOMAIN orders' = DOMAIN orders
        /\ \A l \in DOMAIN orders \ {e.row} : orders'[l] = orders[l]
    <3>1. orders[e.row] \in OrderRows
      BY <2>3, <1>1
    <3> QED BY <3>1, <2>1, <2>3 DEF OrderRows
  <2>5. EntriesLeft(Book, Book')
    <3>1. ~IsEntry(orders'[e.row]) /\ orders'[e.row].ibkr \notin EntryIds(Book)
      BY <2>3, <2>4, ExitIdsApart DEF IsEntry
    <3> QED BY <3>1, <2>2, <2>4, <1>1, <1>2 DEF EntriesLeft
  <2>6. ExitIds' = ExitIds
    BY <2>2 DEF ExitIds
  <2> QED BY <2>2, <2>5, <2>6, ExitIdsApart, LeftEntriesKept
<1> QED
  BY <1>4, <1>5, <1>6, <1>7, <1>8 DEF CycleStep

\* Trailing stops stay trailing stops, and a flat database stays flat, while nothing
\* can open a position.
LEMMA ClosedFills ==
    ASSUME MInv, QuietInv, stage # "normal", HandleFill
    PROVE  /\ \A i \in DOMAIN orders : IsTrail(i) => IsTrail(i)'
           /\ OpenPositions = {} => pos' = pos
           /\ connected' = connected /\ UNCHANGED <<signals, handled>>
<1>1. RouterInv /\ orders \in Seq(OrderRows) /\ pos \in [PosKeys -> Nat]
  BY DEF MInv, RouterInv, TypeOK
<1>2. OpenPositions = {} => \A k \in PosKeys : pos[k] = 0
  <2>1. ASSUME OpenPositions = {}, NEW k \in PosKeys PROVE pos[k] = 0
    <3>1. pos[k] > 0 => [key |-> k, qty |-> pos[k]] \in OpenPositions
      BY DEF OpenPositions
    <3>2. pos[k] \in Nat
      BY <1>1
    <3> QED BY <3>1, <3>2, <2>1
  <2> QED BY <2>1
<1>3. ASSUME NEW i \in DOMAIN orders, NEW q, NEW x \in Nat, ReportOf(i, q, x),
             orders' = orders \/ orders' = [orders EXCEPT ![i] = AfterFill(orders[i],
                                                            CappedFill(orders[i], q + x))]
      PROVE  \A l \in DOMAIN orders : IsTrail(l) => IsTrail(l)'
  <2>1. orders[i] \in OrderRows /\ CappedFill(orders[i], q + x) \in Nat
    BY <1>1, <1>3, ReportLinked
  <2>2. AfterFill(orders[i], CappedFill(orders[i], q + x)).role = orders[i].role
    BY <2>1, AfterFillReturns
  <2> QED BY <1>1, <1>3, <2>2 DEF IsTrail
<1>4. ASSUME NEW i \in DOMAIN orders, NEW q, NEW x \in Nat,
             FillIgnored(i, q, x) \/ FillRecordedOnly(i, q, x) \/ FillLostToDuplicateRow(i, q, x)
                \/ CloseFilled(i, q, x)
      PROVE  /\ \A l \in DOMAIN orders : IsTrail(l) => IsTrail(l)'
             /\ OpenPositions = {} => pos' = pos
             /\ connected' = connected /\ UNCHANGED <<signals, handled>>
  <2>1. /\ ReportOf(i, q, x) /\ connected' = connected /\ UNCHANGED <<signals, handled>>
        /\ orders' = orders \/ orders' = [orders EXCEPT ![i] = AfterFill(orders[i],
                                                            CappedFill(orders[i], q + x))]
    BY <1>4 DEF FillIgnored, FillRecordedOnly, FillLostToDuplicateRow, CloseFilled, linkVars
  <2>2. ASSUME OpenPositions = {} PROVE pos' = pos
    <3>1. CASE ~CloseFilled(i, q, x)
      BY <3>1, <1>4 DEF FillIgnored, FillRecordedOnly, FillLostToDuplicateRow, dbVars
    <3>2. CASE CloseFilled(i, q, x)
      <4> DEFINE filled == AfterFill(orders[i], CappedFill(orders[i], q + x))
                 k == orders[i].key
      <4>1. k \in posRows /\ pos' = [pos EXCEPT ![k] = Reduced(pos[k], filled.fillQty)]
        BY <3>2 DEF CloseFilled, MatchesPosition
      <4>2. k \in PosKeys /\ pos[k] = 0
        BY <4>1, <1>1, <1>2, <2>2 DEF RouterInv, TypeOK
      <4>3. filled.fillQty \in Nat
        <5>1. orders[i] \in OrderRows /\ CappedFill(orders[i], q + x) \in Nat
          BY <1>1, <2>1, ReportLinked
        <5> QED BY <5>1, AfterFillReturns DEF OrderRows
      <4> HIDE DEF filled, k
      <4>4. Reduced(pos[k], filled.fillQty) = 0
        BY <4>2, <4>3 DEF Reduced, Lesser
      <4> QED BY <4>1, <4>2, <4>4, <1>1
    <3> QED BY <3>1, <3>2
  <2> QED BY <1>3, <2>1, <2>2
<1>5. ASSUME NEW i \in DOMAIN orders, NEW q, NEW x \in Nat, NEW trailOk, EntryFilled(i, q, x, trailOk)
      PROVE  FALSE
  <2>1. ReportOf(i, q, x) /\ IsEntry(orders[i])
    BY <1>5 DEF EntryFilled, EntryRecorded, FilledBook, WithStop, IsEntry
  <2> QED BY <2>1, EntryReport
<1>6. ASSUME NEW j \in DOMAIN broker, NEW q, OrphanFill(j, q)
      PROVE  /\ \A l \in DOMAIN orders : IsTrail(l) => IsTrail(l)'
             /\ OpenPositions = {} => pos' = pos
             /\ connected' = connected /\ UNCHANGED <<signals, handled>>
  <2>1. PICK made : orders' = Append(orders, made)
    BY <1>6 DEF OrphanFill
  <2>2. \A l \in DOMAIN orders : orders'[l] = orders[l]
    BY <2>1, <1>1
  <2>3. OpenPositions = {} => pos' = pos
    <3>1. OpenPositions = {} => {k \in PosKeys : k.symbol = broker[j].symbol /\ pos[k] > 0} = {}
      BY <1>2
    <3> QED BY <3>1, <1>6 DEF OrphanFill
  <2>4. connected' = connected /\ UNCHANGED <<signals, handled>>
    BY <1>6 DEF OrphanFill, linkVars
  <2> QED BY <2>2, <2>3, <2>4 DEF IsTrail
<1>7. CASE KnownFill
  <2>1. PICK i \in DOMAIN orders :
           \E q \in Chunks(broker[orders[i].ibkr].pending), x \in 0 .. MaxOverstatement :
              \/ FillIgnored(i, q, x)
              \/ FillRecordedOnly(i, q, x)
              \/ \E trailOk \in {"trail" \notin fail : fail \in Failures} :
                    EntryFilled(i, q, x, trailOk)
              \/ FillLostToDuplicateRow(i, q, x)
              \/ CloseFilled(i, q, x)
    BY <1>7 DEF KnownFill
  <2>2. PICK q \in Chunks(broker[orders[i].ibkr].pending), x \in 0 .. MaxOverstatement :
           \/ FillIgnored(i, q, x)
           \/ FillRecordedOnly(i, q, x)
           \/ \E trailOk \in {"trail" \notin fail : fail \in Failures} :
                 EntryFilled(i, q, x, trailOk)
           \/ FillLostToDuplicateRow(i, q, x)
           \/ CloseFilled(i, q, x)
    BY <2>1
  <2>3. x \in Nat
    BY LimitsAssumption
  <2> QED BY <2>2, <2>3, <1>4, <1>5
<1> QED
  BY <1>6, <1>7 DEF HandleFill, UnknownFill

LEMMA FillKeepsLink ==
    ASSUME HandleFill
    PROVE  connected' = connected
<1>1. ASSUME NEW i, NEW q, NEW x,
             FillIgnored(i, q, x) \/ FillRecordedOnly(i, q, x) \/ FillLostToDuplicateRow(i, q, x)
                \/ CloseFilled(i, q, x)
      PROVE  connected' = connected
  BY <1>1 DEF FillIgnored, FillRecordedOnly, FillLostToDuplicateRow, CloseFilled, linkVars
<1>2. ASSUME NEW i, NEW q, NEW x, NEW trailOk, EntryFilled(i, q, x, trailOk)
      PROVE  connected' = connected
  BY <1>2 DEF EntryFilled, EntryRecorded, FilledBook, WithStop, linkVars
<1>3. ASSUME NEW j, NEW q, OrphanFill(j, q) PROVE connected' = connected
  BY <1>3 DEF OrphanFill, linkVars
<1>4. CASE KnownFill
  BY <1>4, <1>1, <1>2 DEF KnownFill
<1>5. CASE UnknownFill
  BY <1>5, <1>3 DEF UnknownFill
<1> QED
  BY <1>4, <1>5 DEF HandleFill

\* The entries of the next state, as the cycle sees them.
LEMMA ClosedEntries ==
    ASSUME EntriesKept, stage' # "normal"
    PROVE  InFlightIds("entry")' = {}
BY DEF EntriesKept, NoEntryFlies, IsEntry, InFlightIds, Book

LEMMA RouterCycle ==
    ASSUME MInv, QuietInv, EntriesKept,
           \/ HandleSignal \/ HandleFill
           \/ \E j \in DOMAIN broker : (\E q : Execute(j, q)) \/ ConfirmCancel(j),
           UNCHANGED cycleVars
    PROVE  QuietCycle'
<1>1. UNCHANGED <<stage, todo, stale, exit, outcome, accepting, passing, windows>> /\ TypeOK
  BY DEF cycleVars, MInv, RouterInv
<1>2. CASE HandleSignal
  <2>1. Dequeue /\ connected' = connected
    BY <1>2 DEF HandleSignal, RejectOffline, CloseNothing, CloseSignal, ReplaceEntry, OpenSignal,
                linkVars
  <2>2. handled # Len(signals)
    BY <1>1, <2>1 DEF Dequeue, TypeOK
  <2>3. stage = "normal"
    BY <2>2, QuietClosed
  <2> QED BY <2>1, <2>3, <1>1 DEF QuietInv, QuietCycle
<1>3. ASSUME stage # "normal", ~HandleSignal
      PROVE  /\ \A i \in DOMAIN orders : IsTrail(i) => IsTrail(i)'
             /\ OpenPositions = {} => pos' = pos
             /\ connected' = connected /\ UNCHANGED <<signals, handled>>
  <2>1. CASE HandleFill
    BY <2>1, <1>3, ClosedFills
  <2>2. CASE \E j \in DOMAIN broker : (\E q : Execute(j, q)) \/ ConfirmCancel(j)
    BY <2>2 DEF Execute, ConfirmCancel, dbVars, linkVars, IsTrail
  <2> QED BY <2>1, <2>2, <1>3
<1>4. ASSUME stage = "normal", ~HandleSignal PROVE connected' = connected
  <2>1. CASE HandleFill
    BY <2>1, FillKeepsLink
  <2>2. CASE \E j \in DOMAIN broker : (\E q : Execute(j, q)) \/ ConfirmCancel(j)
    BY <2>2 DEF Execute, ConfirmCancel, linkVars
  <2> QED BY <2>1, <2>2, <1>4
<1>5. CASE ~HandleSignal /\ stage = "normal"
  BY <1>1, <1>4, <1>5 DEF QuietInv, QuietCycle
<1>6. CASE ~HandleSignal /\ stage # "normal"
  <2>1. /\ \A i \in DOMAIN orders : IsTrail(i) => IsTrail(i)'
        /\ OpenPositions = {} => pos' = pos
        /\ connected' = connected /\ UNCHANGED <<signals, handled>>
    BY <1>3, <1>6
  <2>2. NothingOpens'
    BY <2>1, <1>1, <1>6, ClosedEntries DEF QuietInv, QuietCycle, NothingOpens
  <2>3. stage = "trails" => \A i \in todo : IsTrail(i)'
    BY <2>1 DEF QuietInv, QuietCycle, MInv, CycleInv, MTypeOK
  <2>4. ASSUME stale # None PROVE IsTrail(stale)'
    <3>1. stale \in DOMAIN orders
      BY <1>1, <2>4 DEF MInv, CycleInv, MTypeOK, None, TypeOK
    <3>2. IsTrail(stale)
      BY <2>4 DEF QuietInv, QuietCycle
    <3>3. orders'[stale].role = "trail_stop"
      BY <2>1, <3>1, <3>2 DEF IsTrail
    <3> QED BY <3>3, <1>1 DEF IsTrail
  <2>5. OpenPositions = {} => OpenPositions' = {}
    BY <2>1 DEF OpenPositions
  <2>6. /\ (stage = "trails" => \A i \in todo : IsTrail(i))'
        /\ (stale # None => IsTrail(stale) /\ stage = "trails")'
    BY <2>3, <2>4, <1>1 DEF QuietInv, QuietCycle, IsTrail
  <2> QED BY <2>1, <2>2, <2>5, <2>6, <1>1 DEF QuietInv, QuietCycle
<1> QED
  BY <1>2, <1>5, <1>6

\* Outside normal trading a step that leaves queue and gate alone opens nothing.
LEMMA CycleOpensNothing ==
    ASSUME MInv, QuietInv, EntriesKept, stage # "normal", stage' # "normal",
           UNCHANGED <<signals, handled, passing>>, ~accepting'
    PROVE  NothingOpens'
BY QuietClosed, ClosedEntries DEF NothingOpens

LEMMA StageCycle ==
    ASSUME MInv, QuietInv, EntriesKept,
           \/ ReadTrails \/ Drained("trails", "trails_done")
           \/ ReadPositions \/ Drained("positions", "positions_done")
           \/ ReadEntries \/ Verify \/ StopWaiting \/ EnterMaintenance \/ ExitMaintenance
    PROVE  QuietCycle'
<1>1. /\ UNCHANGED vars /\ UNCHANGED <<orders, connected, signals, handled, pos, stale, passing>>
      /\ QuietCycle
  BY DEF QuietInv, ReadTrails, ReadPositions, ReadEntries, Query, Verify, StopWaiting, Drained,
         EnterMaintenance, ExitMaintenance, vars, dbVars, linkVars
<1>2. /\ OpenPositions' = OpenPositions
      /\ \A i : IsTrail(i)' <=> IsTrail(i)
  BY <1>1 DEF OpenPositions, IsTrail
<1>3. CASE ReadTrails
  <2>1. /\ stage = "pre_close" /\ stage' = "trails" /\ accepting' = accepting
        /\ todo' = InFlightIds("trail_stop")
    BY <1>3 DEF ReadTrails, Query
  <2>2. NothingOpens'
    BY <2>1, <1>1, CycleOpensNothing, QuietClosed
  <2>3. \A i \in todo' : IsTrail(i)'
    BY <2>1, <1>2 DEF InFlightIds, IsTrail
  <2> QED BY <2>1, <2>2, <2>3, <1>1 DEF QuietCycle
<1>4. CASE Drained("trails", "trails_done")
  <2>1. stage = "trails" /\ stage' = "trails_done" /\ accepting' = accepting /\ stale = None
    BY <1>4 DEF Drained
  <2>2. NothingOpens'
    BY <2>1, <1>1, CycleOpensNothing, QuietClosed
  <2> QED BY <2>1, <2>2, <1>1 DEF QuietCycle
<1>5. CASE ReadPositions \/ Drained("positions", "positions_done")
  <2>1. /\ stage \in {"trails_done", "positions"} /\ stage' \in {"positions", "positions_done"}
        /\ accepting' = accepting
    BY <1>5 DEF ReadPositions, Query, Drained
  <2>2. NothingOpens'
    BY <2>1, <1>1, CycleOpensNothing, QuietClosed
  <2> QED BY <2>1, <2>2, <1>1 DEF QuietCycle
<1>6. CASE ReadEntries
  <2>1. /\ stage = "positions_done" /\ stage' = "entries" /\ accepting' = accepting
        /\ todo' = InFlightIds("entry")
    BY <1>6 DEF ReadEntries, Query
  <2>2. NothingOpens'
    BY <2>1, <1>1, CycleOpensNothing, QuietClosed
  <2>3. todo' = {}
    BY <2>1, <1>1 DEF QuietCycle, NothingOpens
  <2> QED BY <2>1, <2>2, <2>3, <1>1 DEF QuietCycle
<1>7. CASE Verify
  <2>1. /\ stage = "entries" /\ stage' = "closed" /\ accepting' = accepting
        /\ outcome' = IF OpenPositions = {} THEN "complete" ELSE "failed"
    BY <1>7 DEF Verify
  <2>2. NothingOpens'
    BY <2>1, <1>1, CycleOpensNothing, QuietClosed
  <2>3. outcome' \in {"complete", "failed"} /\ (outcome' = "complete" => OpenPositions' = {})
    BY <2>1, <1>2
  <2> QED BY <2>1, <2>2, <2>3, <1>1 DEF QuietCycle
<1>8. CASE StopWaiting
  <2>1. UNCHANGED <<stage, todo, outcome, accepting>>
    BY <1>8 DEF StopWaiting
  <2>2. stage # "normal" => NothingOpens'
    BY <2>1, <1>1, CycleOpensNothing, QuietClosed
  <2> QED BY <2>1, <2>2, <1>1, <1>2 DEF QuietCycle
<1>9. CASE EnterMaintenance
  <2>1. /\ stage = "closed" /\ stage' = "maintenance" /\ accepting' = FALSE
        /\ UNCHANGED outcome
    BY <1>9 DEF EnterMaintenance
  <2>2. NothingOpens'
    BY <2>1, <1>1, CycleOpensNothing
  <2> QED BY <2>1, <2>2, <1>1, <1>2 DEF QuietCycle
<1>10. CASE ExitMaintenance
  <2>1. stage = "maintenance" /\ stage' = "normal"
    BY <1>10 DEF ExitMaintenance
  <2> QED BY <2>1, <1>1 DEF QuietCycle
<1> QED
  BY <1>3, <1>4, <1>5, <1>6, <1>7, <1>8, <1>9, <1>10

\* Steps of the sequence that touch orders keep every row's role.
LEMMA OrdersCycle ==
    ASSUME MInv, QuietInv, EntriesKept,
           \/ \E fail : CancelOrder(fail) \/ PlaceExit(fail)
           \/ CancelCommit \/ RecordExitId
    PROVE  QuietCycle'
<1>1. /\ UNCHANGED <<connected, signals, handled, pos, posRows, passing, accepting, stage, outcome>>
      /\ QuietCycle /\ orders \in Seq(OrderRows)
  BY DEF QuietInv, CancelOrder, PlaceExit, CancelCommit, RecordExitId, linkVars, dbVars, cycleVars,
         MInv, RouterInv, TypeOK
<1>2. OpenPositions' = OpenPositions
  BY <1>1 DEF OpenPositions
<1>3. stage # "normal" => NothingOpens'
  BY <1>1, CycleOpensNothing, QuietClosed
<1>4. ASSUME NEW fail, CancelOrder(fail) PROVE QuietCycle'
  <2>1. PICK i \in todo : /\ todo' = todo \ {i}
                          /\ stale' \in {stale, None, i}
    BY <1>4 DEF CancelOrder
  <2>2. stage \in {"trails", "entries"} /\ UNCHANGED orders
    BY <1>4 DEF CancelOrder
  <2>3. stage = "trails" /\ \A l \in todo : IsTrail(l)
    BY <2>1, <2>2, <1>1 DEF QuietCycle
  <2>4. \A l : IsTrail(l)' <=> IsTrail(l)
    BY <2>2 DEF IsTrail
  <2> QED BY <2>1, <2>3, <2>4, <1>1, <1>3 DEF QuietCycle
<1>5. CASE CancelCommit
  <2>1. /\ stale # None /\ stale' = None /\ todo' = todo
        /\ orders' = [orders EXCEPT ![stale].status = "cancelled"]
    BY <1>5 DEF CancelCommit
  <2>2. stage = "trails" /\ \A i \in todo : IsTrail(i) /\ i \in DOMAIN orders
    BY <2>1, <1>1 DEF QuietCycle, MInv, CycleInv, MTypeOK
  <2>3. ASSUME NEW i \in todo PROVE orders'[i].role = orders[i].role
    <3>1. i \in DOMAIN orders /\ orders[i] \in OrderRows
      BY <2>2, <1>1
    <3>2. orders'[i] \in {orders[i], [orders[i] EXCEPT !.status = "cancelled"]}
      BY <2>1, <3>1
    <3> QED BY <3>1, <3>2 DEF OrderRows
  <2>4. \A i \in todo : IsTrail(i)'
    BY <2>2, <2>3 DEF IsTrail
  <2>5. \A i \in todo' : IsTrail(i)'
    BY <2>1, <2>4
  <2> QED BY <2>1, <2>2, <2>5, <1>1, <1>3 DEF QuietCycle
<1>6. ASSUME NEW fail, PlaceExit(fail) PROVE QuietCycle'
  <2>1. stage = "positions" /\ stale' = stale
    BY <1>6 DEF PlaceExit
  <2> QED BY <2>1, <1>1, <1>3 DEF QuietCycle
<1>7. CASE RecordExitId
  <2>1. PICK e \in exit : orders' = [orders EXCEPT ![e.row].ibkr = e.ibkr]
    BY <1>7 DEF RecordExitId
  <2>2. UNCHANGED <<todo, stale>>
    BY <1>7 DEF RecordExitId, cycleVars
  <2>3. ASSUME NEW i \in DOMAIN orders PROVE orders'[i].role = orders[i].role
    <3>1. orders[i] \in OrderRows
      BY <1>1
    <3>2. orders'[i] \in {orders[i], [orders[i] EXCEPT !.ibkr = e.ibkr]}
      BY <2>1
    <3> QED BY <3>1, <3>2 DEF OrderRows
  <2>4. \A i \in DOMAIN orders : IsTrail(i) => IsTrail(i)'
    BY <2>3 DEF IsTrail
  <2>5. stage = "trails" => \A i \in todo' : IsTrail(i)'
    BY <2>2, <2>4, <1>1 DEF QuietCycle, MInv, CycleInv, MTypeOK
  <2>6. ASSUME stale # None PROVE IsTrail(stale)' /\ stage = "trails"
    <3>1. stale \in DOMAIN orders
      BY <2>6, <1>1 DEF MInv, CycleInv, MTypeOK, None
    <3>2. IsTrail(stale) /\ stage = "trails"
      BY <2>6, <1>1 DEF QuietCycle
    <3>3. orders'[stale].role = "trail_stop"
      BY <2>3, <3>1, <3>2 DEF IsTrail
    <3> QED BY <3>2, <3>3, <2>2 DEF IsTrail
  <2> QED BY <2>2, <2>5, <2>6, <1>1, <1>2, <1>3 DEF QuietCycle
<1> QED
  BY <1>4, <1>5, <1>6, <1>7

\* The gate: it closes when everything has settled, and alerts pass it in normal
\* trading only.
LEMMA GateQuiet ==
    ASSUME MInv, QuietInv, (Quiet /\ EnterPreClose) \/ PassGate \/ QueuePassed
    PROVE  QuietInv'
<1>1. QuietCycle /\ RouterInv /\ EntriesFollowed(Book, ExitIds)
  BY DEF QuietInv, MInv
<1>2. UNCHANGED <<orders, broker, connected, stale, exit>>
  BY DEF EnterPreClose, PassGate, QueuePassed, AcceptSignal, Accept, vars, bookVars, linkVars
<1>3. ExitIds' = ExitIds
  BY <1>2 DEF ExitIds
<1>4. CASE Quiet /\ EnterPreClose
  <2>1. /\ stage = "normal" /\ stage' = "pre_close" /\ ~accepting' /\ stale = None
        /\ passing = 0 /\ handled = Len(signals)
        /\ UNCHANGED <<signals, handled, passing>>
    BY <1>1, <1>4 DEF EnterPreClose, Quiet, vars, QuietCycle
  <2>2. NoEntryFlies(Book)
    BY <1>1, <1>4, SettledEntries DEF Quiet
  <2>3. EntriesKept
    BY <1>2, <1>3, <2>2, SameBookEntries
  <2>4. NothingOpens'
    BY <2>1, <2>3, ClosedEntries DEF NothingOpens
  <2>5. QuietCycle'
    BY <2>1, <2>4, <1>1, <1>2 DEF QuietCycle
  <2> QED BY <2>3, <2>5 DEF QuietInv, EntriesKept
<1>5. CASE PassGate \/ QueuePassed
  <2>1. (accepting \/ passing > 0) /\ UNCHANGED stage
    BY <1>5 DEF PassGate, QueuePassed
  <2>2. stage = "normal"
    BY <2>1, QuietClosed
  <2>3. EntriesKept
    BY <2>1, <2>2, <1>2, <1>3, SameBookEntries
  <2>4. QuietCycle'
    BY <2>1, <2>2, <1>1, <1>2 DEF QuietCycle
  <2> QED BY <2>3, <2>4 DEF QuietInv, EntriesKept
<1> QED
  BY <1>4, <1>5

----------------------------------------------------------------------------
(* The theorem.                                                              *)

LEMMA QuietSteps ==
    ASSUME [QuietNext]_allVars
    PROVE  [MNext]_allVars
<1>1. QuietExecute => BrokerStep
  BY DEF QuietExecute, BrokerStep
<1>2. (\E j \in DOMAIN broker : ConfirmCancel(j)) => BrokerStep
  BY DEF BrokerStep
<1> QED
  BY <1>1, <1>2 DEF QuietNext, MNext, RouterStep

LEMMA MInitQuiet ==
    ASSUME MInit
    PROVE  QuietInv
<1>1. orders = <<>> /\ exit = {} /\ connected /\ stage = "normal" /\ stale = None
  BY DEF MInit, Init
<1>2. EntriesFollowed(Book, ExitIds)
  BY <1>1 DEF EntriesFollowed, Book
<1> QED
  BY <1>1, <1>2 DEF QuietInv, QuietCycle

LEMMA QuietNextInv ==
    ASSUME NoInterval \notin Intervals, MInv, QuietInv, [QuietNext]_allVars
    PROVE  QuietInv'
<1>1. ASSUME EntriesKept, QuietCycle' PROVE QuietInv'
  BY <1>1 DEF EntriesKept, QuietInv
<1>2. CASE Quiet /\ (EnterPreClose \/ PassGate)
  BY <1>2, GateQuiet
<1>3. CASE QueuePassed
  BY <1>3, GateQuiet
<1>4. CASE CycleStep
  <2>1. EntriesKept
    BY <1>4, SequenceEntries
  <2>2. QuietCycle'
    BY <1>4, <2>1, StageCycle, OrdersCycle DEF CycleStep
  <2> QED BY <2>1, <2>2, <1>1
<1>5. CASE Settled /\ HandleSignal /\ UNCHANGED cycleVars
  BY <1>5, <1>1, SignalEntries, RouterCycle
<1>6. CASE HandleFill /\ UNCHANGED cycleVars
  BY <1>6, <1>1, FillEntries, RouterCycle
<1>7. CASE (QuietExecute \/ \E j \in DOMAIN broker : ConfirmCancel(j)) /\ UNCHANGED cycleVars
  <2>1. PICK j \in DOMAIN broker : (\E q : Execute(j, q)) \/ ConfirmCancel(j)
    BY <1>7 DEF QuietExecute
  <2>2. EntriesKept
    BY <2>1, <1>7, BrokerEntries
  <2> QED BY <2>1, <2>2, <1>1, <1>7, RouterCycle
<1>8. CASE UNCHANGED allVars
  <2>1. UNCHANGED <<orders, broker, signals, handled, pos, connected>> /\ UNCHANGED cycleVars
    BY <1>8 DEF allVars, vars, bookVars, dbVars, linkVars
  <2>2. UNCHANGED <<stage, todo, stale, exit, outcome, accepting, passing, windows>>
    BY <2>1 DEF cycleVars
  <2>3. Book' = Book /\ ExitIds' = ExitIds
    BY <2>1, <2>2 DEF Book, ExitIds
  <2>4. QuietCycle'
    BY <2>1, <2>2 DEF QuietInv, QuietCycle, NothingOpens, InFlightIds, IsTrail, OpenPositions
  <2> QED BY <2>3, <2>4 DEF QuietInv
<1> QED
  BY <1>2, <1>3, <1>4, <1>5, <1>6, <1>7, <1>8 DEF QuietNext

LEMMA QuietInvariantHolds ==
    ASSUME NoInterval \notin Intervals
    PROVE  QuietSpec => []QuietInv
<1>1. MInit => MInv /\ QuietInv
  BY MInitInv, MInitQuiet
<1>2. MInv /\ QuietInv /\ [QuietNext]_allVars => MInv' /\ QuietInv'
  BY QuietSteps, MNextInv, QuietNextInv
<1> QED
  BY <1>1, <1>2, PTL DEF QuietSpec

\* In a quiet market, a window that begins without an alert finds no open position and
\* no entry in flight, and stays so: although exits and trailing stops execute in parts,
\* orders are refused, cancellations fail and the rows of exits get their ids late, the
\* sequence loses no entry, and what it read when it verified cannot open again.
\* Alerts carry an interval.
THEOREM QuietWindowIsFlat ==
    ASSUME NoInterval \notin Intervals
    PROVE  QuietSpec => []WindowIsFlat
<1>1. QuietInv => WindowIsFlat
  BY DEF QuietInv, QuietCycle, NothingOpens, WindowIsFlat
<1> QED
  BY <1>1, QuietInvariantHolds, PTL

----------------------------------------------------------------------------
(* Sums over finite sets. *)

\* A non-empty set of naturals has a least element.
LEMMA LeastNat ==
    ASSUME NEW T, T \subseteq Nat, T # {}
    PROVE  \E n \in T : \A m \in T : n <= m
<1>1. PICK n \in T : \A m \in T : <<m, n>> \notin OpToRel(<, Nat)
  BY NatLessThanWellFounded, WFMin
<1>2. ASSUME NEW m \in T PROVE n <= m
  <2>1. m \in Nat /\ n \in Nat
    OBVIOUS
  <2>2. ~(m < n)
    BY <1>1, <2>1 DEF OpToRel
  <2> QED BY <2>1, <2>2
<1> QED
  BY <1>2

\* h sums f over the subsets of S, taking the elements out as MapThenSumSet does.
IsSum(h, f, S) ==
    h = [T \in SUBSET S |-> IF T = {} THEN 0
                            ELSE f[CHOOSE x \in T : TRUE] + h[T \ {CHOOSE x \in T : TRUE}]]

SumOver(f, S) == MapThenSumSet(LAMBDA x : f[x], S)

LEMMA SumExists ==
    ASSUME NEW f, NEW S, IsFiniteSet(S)
    PROVE  \E h : IsSum(h, f, S)
<1> DEFINE Some(T) == CHOOSE x \in T : TRUE
           Small(n) == {T \in SUBSET S : Cardinality(T) <= n}
           Equation(h, n) ==
               h = [T \in Small(n) |-> IF T = {} THEN 0 ELSE f[Some(T)] + h[T \ {Some(T)}]]
           Bad == {n \in Nat : ~\E h : Equation(h, n)}
<1>1. ASSUME NEW T \in SUBSET S
      PROVE  /\ IsFiniteSet(T) /\ Cardinality(T) \in Nat
             /\ Cardinality(T) = 0 <=> T = {}
             /\ T # {} => /\ Some(T) \in T /\ T \ {Some(T)} \in SUBSET S
                          /\ Cardinality(T \ {Some(T)}) = Cardinality(T) - 1
  <2>1. IsFiniteSet(T)
    BY FS_Subset
  <2>2. T # {} => Some(T) \in T
    OBVIOUS
  <2>3. Cardinality(T) \in Nat /\ (Cardinality(T) = 0 <=> T = {})
    BY <2>1, FS_CardinalityType, FS_EmptySet
  <2>4. T # {} => Cardinality(T \ {Some(T)}) = Cardinality(T) - 1
    <3> HIDE DEF Some
    <3> QED BY <2>1, <2>2, FS_RemoveElement
  <2> QED BY <2>1, <2>2, <2>3, <2>4
<1> HIDE DEF Some
<1>2. \E h : Equation(h, 0)
  <2> DEFINE h == [T \in Small(0) |-> 0]
  <2>1. ASSUME NEW T \in Small(0) PROVE T = {}
    <3>1. T \in SUBSET S /\ Cardinality(T) <= 0
      OBVIOUS
    <3>2. Cardinality(T) \in Nat /\ (Cardinality(T) = 0 => T = {})
      BY <1>1, <3>1
    <3>3. Cardinality(T) = 0
      BY <3>1, <3>2
    <3> QED BY <3>2, <3>3
  <2>2. Equation(h, 0)
    BY <2>1
  <2> QED BY <2>2
<1>3. ASSUME NEW n \in Nat, NEW g, Equation(g, n)
      PROVE  \E h : Equation(h, n + 1)
  <2> DEFINE Value(T) == IF T = {} THEN 0 ELSE f[Some(T)] + g[T \ {Some(T)}]
             h == [T \in Small(n + 1) |-> Value(T)]
  <2>1. ASSUME NEW T \in Small(n) PROVE T \in Small(n + 1) /\ g[T] = Value(T)
    <3>1. T \in SUBSET S /\ Cardinality(T) <= n
      OBVIOUS
    <3>2. Cardinality(T) \in Nat
      BY <1>1, <3>1
    <3>3. T \in Small(n + 1)
      BY <3>1, <3>2
    <3>4. g[T] = Value(T)
      BY <1>3
    <3> QED BY <3>3, <3>4
  <2>2. ASSUME NEW T \in Small(n + 1), T # {}
        PROVE  T \ {Some(T)} \in Small(n) /\ h[T \ {Some(T)}] = g[T \ {Some(T)}]
    <3>1. T \ {Some(T)} \in Small(n)
      BY <1>1, <2>2
    <3> QED BY <3>1, <2>1
  <2>3. Equation(h, n + 1)
    BY <2>2
  <2> QED BY <2>3
<1> HIDE DEF Equation
<1>4. Bad = {}
  <2>1. SUFFICES ASSUME Bad # {} PROVE FALSE
    OBVIOUS
  <2>2. PICK n \in Bad : \A m \in Bad : n <= m
    BY <2>1, LeastNat
  <2>3. n \in Nat /\ ~\E h : Equation(h, n)
    OBVIOUS
  <2>4. n # 0
    BY <2>3, <1>2
  <2>5. n - 1 \in Nat /\ n - 1 \notin Bad
    BY <2>2, <2>3, <2>4
  <2>6. PICK g : Equation(g, n - 1)
    BY <2>5
  <2>7. \E h : Equation(h, (n - 1) + 1)
    BY <2>5, <2>6, <1>3
  <2>8. (n - 1) + 1 = n
    BY <2>3
  <2> QED BY <2>3, <2>7, <2>8
<1>5. Cardinality(S) \in Nat /\ Small(Cardinality(S)) = SUBSET S
  <2>1. \A T \in SUBSET S : Cardinality(T) <= Cardinality(S)
    BY FS_Subset
  <2> QED BY <2>1, <1>1
<1>6. PICK h : Equation(h, Cardinality(S))
  BY <1>4, <1>5
<1>7. IsSum(h, f, S)
  BY <1>5, <1>6 DEF IsSum, Equation, Some
<1> QED
  BY <1>7

\* Among sets of elements of a finite set, one is smallest.
LEMMA SmallestSet ==
    ASSUME NEW S, IsFiniteSet(S), NEW B, B \subseteq SUBSET S, B # {}
    PROVE  \E T \in B : \A U \in B : Cardinality(T) <= Cardinality(U)
<1> DEFINE C == {Cardinality(T) : T \in B}
<1>1. \A T \in B : Cardinality(T) \in Nat
  BY FS_Subset, FS_CardinalityType
<1>2. C \subseteq Nat /\ C # {}
  BY <1>1
<1> HIDE DEF C
<1>3. PICK n \in C : \A m \in C : n <= m
  BY <1>2, LeastNat
<1> QED
  BY <1>3 DEF C

\* The element a sum takes out first, and what is left.
LEMMA SumStep ==
    ASSUME NEW S, IsFiniteSet(S), NEW f, NEW h, IsSum(h, f, S), NEW T \in SUBSET S, T # {}
    PROVE  \E x \in T : /\ x = (CHOOSE y \in T : TRUE)
                        /\ T \ {x} \in SUBSET S
                        /\ h[T] = f[x] + h[T \ {x}]
<1>1. (CHOOSE y \in T : TRUE) \in T
  OBVIOUS
<1> QED
  BY <1>1 DEF IsSum

LEMMA SmallerSet ==
    ASSUME NEW S, IsFiniteSet(S), NEW T \in SUBSET S, NEW x \in T
    PROVE  Cardinality(T) \in Nat /\ Cardinality(T \ {x}) \in Nat
           /\ Cardinality(T \ {x}) < Cardinality(T)
<1>1. IsFiniteSet(T)
  BY FS_Subset
<1>2. Cardinality(T \ {x}) = Cardinality(T) - 1 /\ IsFiniteSet(T \ {x})
  BY <1>1, FS_RemoveElement
<1>3. Cardinality(T) \in Nat /\ Cardinality(T \ {x}) \in Nat
  BY <1>1, <1>2, FS_CardinalityType
<1> QED
  BY <1>2, <1>3

\* The sum of a set depends on its summands only.
LEMMA SumAgrees ==
    ASSUME NEW S, IsFiniteSet(S), NEW f, NEW h, IsSum(h, f, S),
           NEW R, IsFiniteSet(R), NEW e, NEW g, IsSum(g, e, R),
           NEW U, U \in SUBSET S, U \in SUBSET R, \A x \in U : f[x] = e[x]
    PROVE  h[U] = g[U]
<1> DEFINE B == {T \in SUBSET U : h[T] # g[T]}
<1>1. SUFFICES ASSUME B # {} PROVE FALSE
  OBVIOUS
<1>2. B \subseteq SUBSET S /\ B \subseteq SUBSET R
  OBVIOUS
<1>3. PICK T \in B : \A V \in B : Cardinality(T) <= Cardinality(V)
  <2> HIDE DEF B
  <2> QED BY <1>1, <1>2, SmallestSet
<1>4. T # {}
  BY DEF IsSum
<1>5. PICK x \in T : /\ x = (CHOOSE y \in T : TRUE)
                     /\ h[T] = f[x] + h[T \ {x}]
  BY <1>2, <1>4, SumStep
<1>6. g[T] = e[x] + g[T \ {x}]
  <2>1. PICK y \in T : y = (CHOOSE v \in T : TRUE) /\ g[T] = e[y] + g[T \ {y}]
    BY <1>2, <1>4, SumStep
  <2> QED BY <2>1, <1>5
<1>7. T \ {x} \notin B
  BY <1>2, <1>3, SmallerSet
<1> QED
  BY <1>5, <1>6, <1>7

LEMMA SumInt ==
    ASSUME NEW S, IsFiniteSet(S), NEW f, \A x \in S : f[x] \in Int,
           NEW h, IsSum(h, f, S)
    PROVE  \A T \in SUBSET S : h[T] \in Int
<1> DEFINE B == {T \in SUBSET S : h[T] \notin Int}
<1>1. SUFFICES ASSUME B # {} PROVE FALSE
  OBVIOUS
<1>2. B \subseteq SUBSET S
  OBVIOUS
<1>3. PICK T \in B : \A V \in B : Cardinality(T) <= Cardinality(V)
  <2> HIDE DEF B
  <2> QED BY <1>1, <1>2, SmallestSet
<1>4. T # {}
  BY DEF IsSum
<1>5. PICK x \in T : T \ {x} \in SUBSET S /\ h[T] = f[x] + h[T \ {x}]
  BY <1>2, <1>4, SumStep
<1>6. T \ {x} \notin B
  BY <1>2, <1>3, SmallerSet
<1>7. h[T \ {x}] \in Int /\ f[x] \in Int
  BY <1>5, <1>6
<1> QED
  BY <1>5, <1>7

\* Any element may be taken out of a sum.
LEMMA SumOut ==
    ASSUME NEW S, IsFiniteSet(S), NEW f, \A x \in S : f[x] \in Int,
           NEW h, IsSum(h, f, S), NEW U \in SUBSET S, NEW z \in U
    PROVE  h[U] = f[z] + h[U \ {z}]
<1> DEFINE B == {T \in SUBSET S : \E x \in T : h[T] # f[x] + h[T \ {x}]}
<1>1. SUFFICES ASSUME B # {} PROVE FALSE
  OBVIOUS
<1>2. B \subseteq SUBSET S
  OBVIOUS
<1>3. PICK T \in B : \A V \in B : Cardinality(T) <= Cardinality(V)
  <2> HIDE DEF B
  <2> QED BY <1>1, <1>2, SmallestSet
<1>4. PICK x \in T : h[T] # f[x] + h[T \ {x}]
  OBVIOUS
<1>5. PICK y \in T : T \ {y} \in SUBSET S /\ h[T] = f[y] + h[T \ {y}]
  BY <1>2, <1>4, SumStep
<1>6. T \ {x} \in SUBSET S /\ T \ {x} \notin B /\ T \ {y} \notin B
  <2>1. T \in SUBSET S /\ x \in T /\ y \in T
    BY <1>2
  <2> HIDE DEF B
  <2>2. T \ {x} \in SUBSET S /\ T \ {x} \notin B
    BY <2>1, <1>2, <1>3, SmallerSet
  <2>3. T \ {y} \notin B
    BY <2>1, <1>2, <1>3, SmallerSet
  <2> QED BY <2>2, <2>3
<1>7. x # y
  BY <1>4, <1>5
<1>8. h[T \ {y}] = f[x] + h[(T \ {y}) \ {x}]
  BY <1>5, <1>6, <1>7
<1>9. h[T \ {x}] = f[y] + h[(T \ {x}) \ {y}]
  BY <1>5, <1>6, <1>7
<1>10. (T \ {x}) \ {y} = (T \ {y}) \ {x} /\ (T \ {y}) \ {x} \in SUBSET S
  BY <1>5
<1>11. f[x] \in Int /\ f[y] \in Int /\ h[(T \ {y}) \ {x}] \in Int
  BY <1>2, <1>10, SumInt
<1> DEFINE rest == h[(T \ {y}) \ {x}]
           a == f[x]
           c == f[y]
<1>12. h[T] = c + h[T \ {y}] /\ h[T \ {y}] = a + rest /\ h[T \ {x}] = c + rest
  BY <1>5, <1>8, <1>9, <1>10
<1>13. a \in Int /\ c \in Int /\ rest \in Int /\ h[T] # a + h[T \ {x}]
  BY <1>4, <1>11
<1> HIDE DEF rest, a, c, B
<1> QED
  BY ONLY <1>12, <1>13

\* The folds of the community modules are such sums.
LEMMA SumOverIs ==
    ASSUME NEW f, NEW S, IsFiniteSet(S)
    PROVE  \E h : IsSum(h, f, S) /\ SumOver(f, S) = h[S]
<1> DEFINE h == CHOOSE iter : iter = [T \in SUBSET S |-> IF T = {} THEN 0
                            ELSE f[CHOOSE x \in T : TRUE] + iter[T \ {CHOOSE x \in T : TRUE}]]
<1>1. SumOver(f, S) = h[S]
  BY DEF SumOver, MapThenSumSet, MapThenFoldSet
<1>2. \E g : g = [T \in SUBSET S |-> IF T = {} THEN 0
                            ELSE f[CHOOSE x \in T : TRUE] + g[T \ {CHOOSE x \in T : TRUE}]]
  <2>1. PICK g : IsSum(g, f, S)
    BY SumExists
  <2> QED BY <2>1, Zenon DEF IsSum
<1>3. h = [T \in SUBSET S |-> IF T = {} THEN 0
                            ELSE f[CHOOSE x \in T : TRUE] + h[T \ {CHOOSE x \in T : TRUE}]]
  BY ONLY <1>2, Zenon
<1> QED
  BY <1>1, <1>3 DEF IsSum

\* Sums of functions into the integers.
LEMMA SumOverInt ==
    ASSUME NEW f, NEW S, IsFiniteSet(S), \A x \in S : f[x] \in Int
    PROVE  SumOver(f, S) \in Int
<1>1. PICK h : IsSum(h, f, S) /\ SumOver(f, S) = h[S]
  BY SumOverIs
<1> QED
  BY <1>1, SumInt

LEMMA SumSame ==
    ASSUME NEW f, NEW e, NEW S, IsFiniteSet(S), \A x \in S : f[x] = e[x]
    PROVE  SumOver(f, S) = SumOver(e, S)
<1>1. PICK h : IsSum(h, f, S) /\ SumOver(f, S) = h[S]
  BY SumOverIs
<1>2. PICK g : IsSum(g, e, S) /\ SumOver(e, S) = g[S]
  BY SumOverIs
<1> QED
  BY <1>1, <1>2, SumAgrees

LEMMA SumAdded ==
    ASSUME NEW f, NEW e, NEW S, IsFiniteSet(S), NEW z, z \notin S,
           \A x \in S : f[x] = e[x], \A x \in S \cup {z} : f[x] \in Int
    PROVE  SumOver(f, S \cup {z}) = f[z] + SumOver(e, S)
<1> DEFINE R == S \cup {z}
<1>1. IsFiniteSet(R) /\ S \in SUBSET R /\ R \ {z} = S /\ z \in R
  BY FS_AddElement
<1> HIDE DEF R
<1>2. PICK h : IsSum(h, f, R) /\ SumOver(f, R) = h[R]
  BY <1>1, SumOverIs
<1>3. PICK g : IsSum(g, e, S) /\ SumOver(e, S) = g[S]
  BY SumOverIs
<1>4. h[R] = f[z] + h[R \ {z}]
  <2>1. \A x \in R : f[x] \in Int
    BY DEF R
  <2> QED BY <1>1, <1>2, <2>1, SumOut
<1>5. h[S] = g[S]
  BY <1>1, <1>2, <1>3, SumAgrees
<1> QED
  BY <1>1, <1>2, <1>3, <1>4, <1>5 DEF R

LEMMA SumChange ==
    ASSUME NEW f, NEW e, NEW S, IsFiniteSet(S), NEW z \in S,
           \A x \in S \ {z} : f[x] = e[x], \A x \in S : f[x] \in Int /\ e[x] \in Int
    PROVE  SumOver(f, S) = SumOver(e, S) + (f[z] - e[z])
<1> DEFINE R == S \ {z}
<1>1. IsFiniteSet(R) /\ z \notin R /\ R \cup {z} = S
  BY FS_RemoveElement
<1> HIDE DEF R
<1>2. \A x \in R : f[x] = e[x] /\ f[x] \in Int /\ e[x] \in Int
  BY DEF R
<1>3. f[z] \in Int /\ e[z] \in Int /\ \A x \in R \cup {z} : f[x] \in Int /\ e[x] \in Int
  BY <1>1
<1>4. SumOver(f, R \cup {z}) = f[z] + SumOver(e, R)
  BY <1>1, <1>2, <1>3, SumAdded
<1>5. SumOver(e, R \cup {z}) = e[z] + SumOver(e, R)
  BY <1>1, <1>2, <1>3, SumAdded
<1>6. SumOver(e, R) \in Int
  BY <1>1, <1>2, SumOverInt
<1> DEFINE rest == SumOver(e, R)
           a == f[z]
           c == e[z]
<1>7. SumOver(f, S) = a + rest /\ SumOver(e, S) = c + rest
  BY <1>1, <1>4, <1>5
<1>8. a \in Int /\ c \in Int /\ rest \in Int
  BY <1>3, <1>6
<1> HIDE DEF rest, a, c
<1>9. SumOver(f, S) = SumOver(e, S) + (a - c)
  BY ONLY <1>7, <1>8
<1> QED
  BY <1>9 DEF a, c

LEMMA SumZero ==
    ASSUME NEW f, NEW S, IsFiniteSet(S), \A x \in S : f[x] = 0
    PROVE  SumOver(f, S) = 0
<1>1. PICK h : IsSum(h, f, S) /\ SumOver(f, S) = h[S]
  BY SumOverIs
<1> DEFINE B == {T \in SUBSET S : h[T] # 0}
<1>2. SUFFICES ASSUME B # {} PROVE FALSE
  BY <1>1
<1>3. PICK T \in B : \A V \in B : Cardinality(T) <= Cardinality(V)
  <2>1. B \subseteq SUBSET S
    OBVIOUS
  <2> HIDE DEF B
  <2> QED BY <1>2, <2>1, SmallestSet
<1>4. T # {}
  BY <1>1 DEF IsSum
<1>5. PICK x \in T : T \ {x} \in SUBSET S /\ h[T] = f[x] + h[T \ {x}]
  BY <1>1, <1>4, SumStep
<1>6. T \ {x} \notin B
  BY <1>3, SmallerSet
<1>7. f[x] = 0 /\ h[T \ {x}] = 0
  BY <1>5, <1>6
<1> QED
  BY <1>5, <1>7

----------------------------------------------------------------------------
(* Holdings.                                                                *)

\* What the bridge was told that an order executed, and what a position holds: bought
\* and long counts as positive.
Told(br) == LET n == br.executed - br.pending IN IF br.side = "BUY" THEN n ELSE -n
Holds(p, k) == IF k.dir = "long" THEN p[k] ELSE -p[k]

OrdersOf(b, s) == {j \in DOMAIN b.broker : b.broker[j].symbol = s}
KeysOf(s) == {k \in PosKeys : k.symbol = s}
ToldNet(b, s) == SumOver([j \in DOMAIN b.broker |-> Told(b.broker[j])], OrdersOf(b, s))
PosNet(p, s) == SumOver([k \in PosKeys |-> Holds(p, k)], KeysOf(s))

Balanced(b, p) == \A s \in Symbols : PosNet(p, s) = ToldNet(b, s)

LEMMA FiniteKeys ==
    ASSUME IsFiniteSet(Symbols), IsFiniteSet(Intervals)
    PROVE  IsFiniteSet(PosKeys)
<1> DEFINE labels == {PosInterval(t) : t \in Intervals}
           triples == (Symbols \X Directions) \X labels
           key == [x \in triples |-> [symbol |-> x[1][1], dir |-> x[1][2], interval |-> x[2]]]
<1>1. IsFiniteSet(labels)
  <2> DEFINE label == [t \in Intervals |-> PosInterval(t)]
  <2>1. label \in Surjection(Intervals, labels)
    BY DEF Surjection
  <2> QED BY <2>1, FS_Surjection
<1>2. IsFiniteSet(Directions)
  <2>1. Directions = ({} \cup {"long"}) \cup {"short"}
    BY DEF Directions
  <2> QED BY <2>1, FS_EmptySet, FS_AddElement
<1> HIDE DEF labels
<1>3. IsFiniteSet(triples)
  BY <1>1, <1>2, FS_Product
<1>4. key \in Surjection(triples, PosKeys)
  <2>1. key \in [triples -> PosKeys]
    BY DEF PosKeys, labels
  <2>2. ASSUME NEW k \in PosKeys PROVE \E x \in triples : key[x] = k
    <3>1. <<<<k.symbol, k.dir>>, k.interval>> \in triples
      BY DEF PosKeys, labels
    <3>2. key[<<<<k.symbol, k.dir>>, k.interval>>] = k
      BY <3>1 DEF PosKeys
    <3> QED BY <3>1, <3>2
  <2> HIDE DEF triples, key
  <2> QED BY <2>1, <2>2 DEF Surjection
<1> QED
  BY <1>3, <1>4, FS_Surjection

LEMMA HeldIs ==
    ASSUME IsFiniteSet(PosKeys), NEW s \in Symbols
    PROVE  Held(s) = PosNet(pos, s)
<1> DEFINE S == KeysOf(s)
           f == [k \in PosKeys |-> Holds(pos, k)]
           Sums(g) == g = [T \in SUBSET S |-> IF T = {} THEN 0
                             ELSE (IF (CHOOSE x \in T : TRUE).dir = "long" THEN pos[CHOOSE x \in T : TRUE]
                                   ELSE -pos[CHOOSE x \in T : TRUE]) + g[T \ {CHOOSE x \in T : TRUE}]]
           h == CHOOSE g : g = [T \in SUBSET S |-> IF T = {} THEN 0
                             ELSE (IF (CHOOSE x \in T : TRUE).dir = "long" THEN pos[CHOOSE x \in T : TRUE]
                                   ELSE -pos[CHOOSE x \in T : TRUE]) + g[T \ {CHOOSE x \in T : TRUE}]]
<1>1. IsFiniteSet(S)
  BY FS_Subset DEF KeysOf
<1>2. Held(s) = h[S]
  BY DEF Held, MapThenSumSet, MapThenFoldSet, KeysOf
<1>3. ASSUME NEW T \in SUBSET S, T # {}
      PROVE  f[CHOOSE x \in T : TRUE] = IF (CHOOSE x \in T : TRUE).dir = "long"
                                        THEN pos[CHOOSE x \in T : TRUE]
                                        ELSE -pos[CHOOSE x \in T : TRUE]
  <2>1. (CHOOSE x \in T : TRUE) \in T
    BY <1>3
  <2>2. (CHOOSE x \in T : TRUE) \in PosKeys
    BY <2>1 DEF KeysOf
  <2> QED BY <2>2 DEF Holds
<1>4. ASSUME NEW g PROVE Sums(g) <=> IsSum(g, f, S)
  <2>1. [T \in SUBSET S |-> IF T = {} THEN 0
            ELSE (IF (CHOOSE x \in T : TRUE).dir = "long" THEN pos[CHOOSE x \in T : TRUE]
                  ELSE -pos[CHOOSE x \in T : TRUE]) + g[T \ {CHOOSE x \in T : TRUE}]]
        = [T \in SUBSET S |-> IF T = {} THEN 0
            ELSE f[CHOOSE x \in T : TRUE] + g[T \ {CHOOSE x \in T : TRUE}]]
    <3> HIDE DEF S, f
    <3> QED BY <1>3
  <2> QED BY <2>1, Zenon DEF IsSum
<1>5. \E g : g = [T \in SUBSET S |-> IF T = {} THEN 0
                     ELSE (IF (CHOOSE x \in T : TRUE).dir = "long" THEN pos[CHOOSE x \in T : TRUE]
                           ELSE -pos[CHOOSE x \in T : TRUE]) + g[T \ {CHOOSE x \in T : TRUE}]]
  <2>1. PICK g : IsSum(g, f, S)
    BY <1>1, SumExists
  <2>2. Sums(g)
    <3> HIDE DEF Sums
    <3> QED BY <2>1, <1>4
  <2> QED BY <2>2
<1>6. IsSum(h, f, S)
  <2>1. Sums(h)
    BY ONLY <1>5, Zenon DEF h, Sums
  <2> HIDE DEF Sums, h
  <2> QED BY <2>1, <1>4
<1> HIDE DEF h, S, f
<1>7. PICK g : IsSum(g, f, S) /\ SumOver(f, S) = g[S]
  BY <1>1, SumOverIs
<1>8. h[S] = g[S]
  BY <1>1, <1>6, <1>7, SumAgrees
<1> QED
  BY <1>2, <1>7, <1>8 DEF PosNet, S, f

LEMMA NetIs ==
    ASSUME broker \in Seq(BrokerOrders), \A j \in DOMAIN broker : broker[j].pending = 0,
           NEW s \in Symbols
    PROVE  Net(s) = ToldNet(Book, s)
<1> DEFINE S == OrdersOf(Book, s)
           f == [j \in DOMAIN Book.broker |-> Told(Book.broker[j])]
           Sums(g) == g = [T \in SUBSET S |-> IF T = {} THEN 0
                             ELSE Signed(broker[CHOOSE x \in T : TRUE])
                                    + g[T \ {CHOOSE x \in T : TRUE}]]
           h == CHOOSE g : g = [T \in SUBSET S |-> IF T = {} THEN 0
                             ELSE Signed(broker[CHOOSE x \in T : TRUE])
                                    + g[T \ {CHOOSE x \in T : TRUE}]]
<1>1. IsFiniteSet(S) /\ Book.broker = broker /\ S \subseteq DOMAIN broker
  <2>1. Book.broker = broker /\ DOMAIN broker = 1 .. Len(broker) /\ Len(broker) \in Nat
    BY DEF Book
  <2>2. IsFiniteSet(DOMAIN broker)
    BY <2>1, FS_Interval
  <2> QED BY <2>1, <2>2, FS_Subset DEF OrdersOf
<1>2. Net(s) = h[S]
  BY <1>1 DEF Net, MapThenSumSet, MapThenFoldSet, OrdersOf
<1>3. ASSUME NEW T \in SUBSET S, T # {}
      PROVE  f[CHOOSE x \in T : TRUE] = Signed(broker[CHOOSE x \in T : TRUE])
  <2>1. (CHOOSE x \in T : TRUE) \in T
    BY <1>3
  <2>2. (CHOOSE x \in T : TRUE) \in DOMAIN broker
    BY <2>1, <1>1
  <2>3. ASSUME NEW j \in DOMAIN broker PROVE f[j] = Signed(broker[j])
    <3>1. broker[j] \in BrokerOrders /\ broker[j].pending = 0 /\ f[j] = Told(broker[j])
      BY <1>1
    <3>2. broker[j].executed - broker[j].pending = broker[j].executed
      BY <3>1 DEF BrokerOrders
    <3> QED BY <3>1, <3>2 DEF Told, Signed
  <2> HIDE DEF f
  <2> QED BY <2>2, <2>3
<1>4. ASSUME NEW g PROVE Sums(g) <=> IsSum(g, f, S)
  <2>1. [T \in SUBSET S |-> IF T = {} THEN 0
            ELSE Signed(broker[CHOOSE x \in T : TRUE]) + g[T \ {CHOOSE x \in T : TRUE}]]
        = [T \in SUBSET S |-> IF T = {} THEN 0
            ELSE f[CHOOSE x \in T : TRUE] + g[T \ {CHOOSE x \in T : TRUE}]]
    <3> HIDE DEF S, f
    <3> QED BY <1>3
  <2> QED BY <2>1, Zenon DEF IsSum
<1>5. \E g : g = [T \in SUBSET S |-> IF T = {} THEN 0
                     ELSE Signed(broker[CHOOSE x \in T : TRUE])
                            + g[T \ {CHOOSE x \in T : TRUE}]]
  <2>1. PICK g : IsSum(g, f, S)
    BY <1>1, SumExists
  <2>2. Sums(g)
    <3> HIDE DEF Sums
    <3> QED BY <2>1, <1>4
  <2> QED BY <2>2
<1>6. IsSum(h, f, S)
  <2>1. Sums(h)
    BY ONLY <1>5, Zenon DEF h, Sums
  <2> HIDE DEF Sums, h
  <2> QED BY <2>1, <1>4
<1> HIDE DEF h, S, f
<1>7. PICK g : IsSum(g, f, S) /\ SumOver(f, S) = g[S]
  BY <1>1, SumOverIs
<1>8. h[S] = g[S]
  BY <1>1, <1>6, <1>7, SumAgrees
<1> QED
  BY <1>2, <1>7, <1>8 DEF ToldNet, S, f

\* Typed tickets: enough to sum over them.
Tickets(b) ==
    /\ IsFiniteSet(DOMAIN b.broker)
    /\ \A j \in DOMAIN b.broker : b.broker[j] \in BrokerOrders

LEMMA ToldInt ==
    ASSUME NEW br \in BrokerOrders
    PROVE  Told(br) \in Int
BY DEF Told, BrokerOrders

LEMMA ToldNothing ==
    ASSUME NEW br \in BrokerOrders, br.executed = br.pending
    PROVE  Told(br) = 0
<1>1. br.executed \in Nat /\ br.executed - br.pending = 0
  BY DEF BrokerOrders
<1> QED
  BY <1>1 DEF Told

LEMMA ToldKept ==
    ASSUME NEW b, NEW c, Tickets(b), DOMAIN c.broker = DOMAIN b.broker,
           \A j \in DOMAIN b.broker : /\ c.broker[j].symbol = b.broker[j].symbol
                                      /\ Told(c.broker[j]) = Told(b.broker[j])
    PROVE  \A s \in Symbols : ToldNet(c, s) = ToldNet(b, s)
<1> TAKE s \in Symbols
<1>1. OrdersOf(c, s) = OrdersOf(b, s) /\ IsFiniteSet(OrdersOf(b, s))
  BY FS_Subset DEF OrdersOf, Tickets
<1> DEFINE f == [j \in DOMAIN b.broker |-> Told(b.broker[j])]
           e == [j \in DOMAIN c.broker |-> Told(c.broker[j])]
<1>2. \A j \in OrdersOf(b, s) : e[j] = f[j]
  BY DEF OrdersOf
<1> HIDE DEF e, f
<1>3. SumOver(e, OrdersOf(b, s)) = SumOver(f, OrdersOf(b, s))
  BY <1>1, <1>2, SumSame
<1> QED
  BY <1>1, <1>3 DEF ToldNet, e, f

LEMMA ToldAdded ==
    ASSUME NEW b, NEW c, Tickets(b), NEW m, m \notin DOMAIN b.broker,
           DOMAIN c.broker = DOMAIN b.broker \cup {m},
           \A j \in DOMAIN b.broker : c.broker[j] = b.broker[j],
           Told(c.broker[m]) = 0
    PROVE  \A s \in Symbols : ToldNet(c, s) = ToldNet(b, s)
<1> TAKE s \in Symbols
<1> DEFINE f == [j \in DOMAIN b.broker |-> Told(b.broker[j])]
           e == [j \in DOMAIN c.broker |-> Told(c.broker[j])]
           S == OrdersOf(b, s)
<1>1. IsFiniteSet(S) /\ m \notin S
  BY FS_Subset DEF OrdersOf, Tickets
<1>2. OrdersOf(c, s) = S \/ OrdersOf(c, s) = S \cup {m}
  BY DEF OrdersOf
<1>3. (\A j \in S : e[j] = f[j] /\ f[j] \in Int) /\ e[m] = 0
  BY ToldInt DEF OrdersOf, Tickets
<1>4. ToldNet(c, s) = SumOver(e, OrdersOf(c, s)) /\ ToldNet(b, s) = SumOver(f, S)
  BY DEF ToldNet
<1> HIDE DEF e, f, S
<1>5. CASE OrdersOf(c, s) = S
  BY <1>1, <1>3, <1>4, <1>5, SumSame
<1>6. CASE OrdersOf(c, s) = S \cup {m}
  <2>1. \A x \in S \cup {m} : e[x] \in Int
    BY <1>3
  <2>2. SumOver(e, S \cup {m}) = e[m] + SumOver(f, S)
    BY <1>1, <1>3, <2>1, SumAdded
  <2>3. SumOver(f, S) \in Int
    BY <1>1, <1>3, SumOverInt
  <2> QED BY <1>3, <1>4, <1>6, <2>2, <2>3
<1> QED
  BY <1>2, <1>5, <1>6

\* What is told of one order, and what one position holds, change a symbol's sum alike.
LEMMA ToldChanges ==
    ASSUME NEW b, NEW c, Tickets(b), Tickets(c), NEW j \in DOMAIN b.broker,
           DOMAIN c.broker = DOMAIN b.broker, c.broker[j].symbol = b.broker[j].symbol,
           \A l \in DOMAIN b.broker \ {j} : c.broker[l] = b.broker[l]
    PROVE  \A s \in Symbols :
              ToldNet(c, s) = IF s = b.broker[j].symbol
                              THEN ToldNet(b, s) + (Told(c.broker[j]) - Told(b.broker[j]))
                              ELSE ToldNet(b, s)
<1> TAKE s \in Symbols
<1> DEFINE f == [l \in DOMAIN b.broker |-> Told(b.broker[l])]
           e == [l \in DOMAIN c.broker |-> Told(c.broker[l])]
           S == OrdersOf(b, s)
<1>1. IsFiniteSet(S) /\ OrdersOf(c, s) = S /\ (j \in S <=> s = b.broker[j].symbol)
  BY FS_Subset DEF OrdersOf, Tickets
<1>2. /\ \A l \in S : e[l] \in Int /\ f[l] \in Int
      /\ \A l \in S \ {j} : e[l] = f[l]
      /\ e[j] = Told(c.broker[j]) /\ f[j] = Told(b.broker[j])
  BY ToldInt DEF OrdersOf, Tickets
<1>3. ToldNet(c, s) = SumOver(e, S) /\ ToldNet(b, s) = SumOver(f, S)
  BY <1>1 DEF ToldNet
<1> HIDE DEF e, f, S
<1>4. CASE j \in S
  <2>1. SumOver(e, S) = SumOver(f, S) + (e[j] - f[j])
    BY <1>1, <1>2, <1>4, SumChange
  <2> QED BY <1>1, <1>2, <1>3, <1>4, <2>1
<1>5. CASE j \notin S
  <2>1. \A l \in S : e[l] = f[l]
    BY <1>2, <1>5
  <2>2. SumOver(e, S) = SumOver(f, S)
    BY <1>1, <2>1, SumSame
  <2> QED BY <1>1, <1>3, <1>5, <2>2
<1> QED
  BY <1>4, <1>5

LEMMA HoldsChanges ==
    ASSUME IsFiniteSet(PosKeys), NEW p \in [PosKeys -> Nat], NEW k \in PosKeys, NEW n \in Nat,
           NEW r, r = [p EXCEPT ![k] = n]
    PROVE  \A s \in Symbols :
              PosNet(r, s) = IF s = k.symbol
                             THEN PosNet(p, s) + (Holds(r, k) - Holds(p, k))
                             ELSE PosNet(p, s)
<1> TAKE s \in Symbols
<1> DEFINE f == [l \in PosKeys |-> Holds(p, l)]
           e == [l \in PosKeys |-> Holds(r, l)]
           S == KeysOf(s)
<1>1. IsFiniteSet(S) /\ S \subseteq PosKeys /\ (k \in S <=> s = k.symbol)
  BY FS_Subset DEF KeysOf
<1>2. /\ \A l \in S : e[l] \in Int /\ f[l] \in Int
      /\ \A l \in S \ {k} : e[l] = f[l]
      /\ e[k] = Holds(r, k) /\ f[k] = Holds(p, k)
  BY <1>1 DEF Holds
<1>3. PosNet(r, s) = SumOver(e, S) /\ PosNet(p, s) = SumOver(f, S)
  BY DEF PosNet
<1> HIDE DEF e, f, S
<1>4. CASE k \in S
  <2>1. SumOver(e, S) = SumOver(f, S) + (e[k] - f[k])
    BY <1>1, <1>2, <1>4, SumChange
  <2> QED BY <1>1, <1>2, <1>3, <1>4, <2>1
<1>5. CASE k \notin S
  <2>1. \A l \in S : e[l] = f[l]
    BY <1>2, <1>5
  <2>2. SumOver(e, S) = SumOver(f, S)
    BY <1>1, <2>1, SumSame
  <2> QED BY <1>1, <1>3, <1>5, <2>2
<1> QED
  BY <1>4, <1>5

----------------------------------------------------------------------------
(* The ledger of a book: who owns each broker order, and what the orders    *)
(* that may still fill claim of the positions p.                            *)

\* The row each broker order was placed for.
Owned(b) == {i \in DOMAIN b.orders : b.orders[i].signal # None /\ b.orders[i].ibkr # None}
Ticket(b, i) == b.broker[b.orders[i].ibkr]

\* Orders that may still execute, or whose report is on its way.
MayFill(br) == br.pending > 0 \/ (br.live /\ br.cancel # "asked")
Dead(br) == br.pending = 0 /\ ~br.live
OpenRows(b) == {i \in Owned(b) : MayFill(Ticket(b, i))}

Serves(o, br) ==
    /\ o.key \in PosKeys
    /\ br.symbol = o.key.symbol /\ br.side = Side(o.role, o.key.dir) /\ br.qty = o.qty
    /\ br.lost = 0 /\ br.cancel # "failed"
    /\ br.cancel = "asked" => o.role = "trail_stop"
    /\ o.fillQty + br.pending <= br.executed /\ br.executed <= br.qty

Typed(b) == Tickets(b) /\ \A i \in DOMAIN b.orders : b.orders[i] \in OrderRows

\* Every order has one owner; rows made up for orphan fills name orders that are done.
Owners(b) ==
    /\ Typed(b)
    /\ \A i \in Owned(b) : b.orders[i].ibkr \in DOMAIN b.broker
                           /\ Serves(b.orders[i], Ticket(b, i))
    /\ \A i, l \in Owned(b) : b.orders[i].ibkr = b.orders[l].ibkr => i = l
    /\ \A j \in DOMAIN b.broker : \E i \in Owned(b) : b.orders[i].ibkr = j
    /\ \A i \in DOMAIN b.orders :
          b.orders[i].signal = None => b.orders[i].ibkr \in DOMAIN b.broker /\ Dead(Ticket(b, i))

\* Two open orders of one key: never two of one role, no trailing stop beside an entry,
\* and together no more to sell than there is.
Compatible(o, w, n) ==
    /\ o.role # w.role
    /\ o.role = "entry" => w.role = "exit"
    /\ w.role = "entry" => o.role = "exit"
    /\ o.role # "entry" /\ w.role # "entry" => o.qty + w.qty <= n

Claims(b, p) ==
    /\ \A i \in OpenRows(b) :
          b.orders[i].role # "entry" => b.orders[i].qty <= p[b.orders[i].key]
    /\ \A i, l \in OpenRows(b) :
          i # l /\ b.orders[i].key = b.orders[l].key
             => Compatible(b.orders[i], b.orders[l], p[b.orders[i].key])

\* A key keeps a position: one is being entered, or not all of it is being closed.
Stays(b, p, k) ==
    \/ \E i \in OpenRows(b) : b.orders[i].role = "entry" /\ b.orders[i].key = k
    \/ p[k] > 0 /\ \A i \in OpenRows(b) :
                      b.orders[i].role = "exit" /\ b.orders[i].key = k => b.orders[i].qty # p[k]

OneStays(b, p) ==
    \A k, l \in PosKeys :
       k.symbol = l.symbol /\ Stays(b, p, k) /\ Stays(b, p, l) => k = l

SameJob(o, w) == o.role = w.role /\ o.key = w.key /\ o.qty = w.qty

\* Rows keep their jobs, and none opens but those of `new`.
Shrinks(b, c, new) ==
    \A i \in OpenRows(c) \ new : i \in OpenRows(b) /\ SameJob(c.orders[i], b.orders[i])

ExitsKept(b, c) ==
    \A i \in OpenRows(b) : b.orders[i].role = "exit"
       => i \in OpenRows(c) /\ SameJob(c.orders[i], b.orders[i])

LEMMA ClaimsShrink ==
    ASSUME NEW b, NEW c, NEW p, Claims(b, p), Shrinks(b, c, {})
    PROVE  Claims(c, p)
BY DEF Claims, Shrinks, SameJob, Compatible

LEMMA StaysKept ==
    ASSUME NEW b, NEW c, NEW p, OneStays(b, p), Shrinks(b, c, {}), ExitsKept(b, c)
    PROVE  OneStays(c, p)
<1>1. ASSUME NEW k \in PosKeys, Stays(c, p, k) PROVE Stays(b, p, k)
  BY <1>1 DEF Stays, Shrinks, ExitsKept, SameJob
<1> QED
  BY <1>1 DEF OneStays

\* A new open order next to the old ones.
Fits(b, p, o) ==
    /\ o.role # "entry" => o.qty <= p[o.key]
    /\ \A i \in OpenRows(b) :
          b.orders[i].key = o.key => /\ Compatible(o, b.orders[i], p[o.key])
                                     /\ Compatible(b.orders[i], o, p[o.key])

LEMMA ClaimsAdded ==
    ASSUME NEW b, NEW c, NEW p, Claims(b, p), NEW n, Shrinks(b, c, {n}),
           Fits(b, p, c.orders[n])
    PROVE  Claims(c, p)
<1> DEFINE o == c.orders[n]
<1>0. /\ o.role # "entry" => o.qty <= p[o.key]
      /\ \A i \in OpenRows(b) :
            b.orders[i].key = o.key => /\ Compatible(o, b.orders[i], p[o.key])
                                       /\ Compatible(b.orders[i], o, p[o.key])
  BY DEF Fits
<1>1. ASSUME NEW i \in OpenRows(c), c.orders[i].role # "entry"
      PROVE  c.orders[i].qty <= p[c.orders[i].key]
  BY <1>0, <1>1 DEF Claims, Shrinks, SameJob
<1>2. ASSUME NEW i \in OpenRows(c), NEW l \in OpenRows(c), i # l,
             c.orders[i].key = c.orders[l].key
      PROVE  Compatible(c.orders[i], c.orders[l], p[c.orders[i].key])
  <2>1. CASE i # n /\ l # n
    BY <1>2, <2>1 DEF Claims, Shrinks, SameJob, Compatible
  <2>2. CASE i = n
    <3>1. l \in OpenRows(b) /\ SameJob(c.orders[l], b.orders[l]) /\ l # n
      BY <1>2, <2>2 DEF Shrinks
    <3>2. Compatible(o, b.orders[l], p[o.key])
      BY <3>1, <1>0, <1>2, <2>2 DEF SameJob
    <3> QED BY <3>1, <3>2, <2>2 DEF SameJob, Compatible
  <2>3. CASE l = n
    <3>1. i \in OpenRows(b) /\ SameJob(c.orders[i], b.orders[i]) /\ i # n
      BY <1>2, <2>3 DEF Shrinks
    <3>2. Compatible(b.orders[i], o, p[o.key])
      BY <3>1, <1>0, <1>2, <2>3 DEF SameJob
    <3> QED BY <3>1, <3>2, <2>3, <1>2 DEF SameJob, Compatible
  <2> QED BY <2>1, <2>2, <2>3
<1> QED
  BY <1>1, <1>2 DEF Claims

\* An entry has filled: its order is done and its position grows.
LEMMA EntryDone ==
    ASSUME NEW b, NEW c, NEW p \in [PosKeys -> Nat], Claims(b, p), OneStays(b, p),
           NEW i \in OpenRows(b), NEW o, o = b.orders[i], o.role = "entry",
           o.key \in PosKeys, o.qty \in Nat,
           \A l \in OpenRows(b) : b.orders[l].key \in PosKeys /\ b.orders[l].qty \in Nat,
           Shrinks(b, c, {}), ExitsKept(b, c), i \notin OpenRows(c),
           NEW r, r = [p EXCEPT ![o.key] = @ + o.qty]
    PROVE  Claims(c, r) /\ OneStays(c, r)
<1>1. /\ r \in [PosKeys -> Nat] /\ r[o.key] = p[o.key] + o.qty
      /\ \A k \in PosKeys : p[k] <= r[k] /\ (k # o.key => r[k] = p[k])
  OBVIOUS
<1>2. ASSUME NEW l \in OpenRows(c), c.orders[l].role # "entry"
      PROVE  c.orders[l].qty <= r[c.orders[l].key]
  <2>1. l \in OpenRows(b) /\ SameJob(c.orders[l], b.orders[l])
    BY DEF Shrinks
  <2>2. b.orders[l].qty <= p[b.orders[l].key]
    BY <2>1, <1>2 DEF Claims, SameJob
  <2> DEFINE q == b.orders[l].qty
             k == b.orders[l].key
  <2>3. q \in Nat /\ k \in PosKeys /\ q <= p[k] /\ c.orders[l].qty = q /\ c.orders[l].key = k
    BY <2>1, <2>2 DEF SameJob
  <2> HIDE DEF q, k
  <2>4. q <= r[k]
    <3>1. p[k] \in Nat /\ r[k] \in Nat /\ p[k] <= r[k]
      BY <1>1, <2>3
    <3> QED BY <2>3, <3>1
  <2> QED BY <2>3, <2>4
<1>3. ASSUME NEW l \in OpenRows(c), NEW m \in OpenRows(c), l # m,
             c.orders[l].key = c.orders[m].key
      PROVE  Compatible(c.orders[l], c.orders[m], r[c.orders[l].key])
  <2>1. /\ l \in OpenRows(b) /\ SameJob(c.orders[l], b.orders[l])
        /\ m \in OpenRows(b) /\ SameJob(c.orders[m], b.orders[m])
    BY DEF Shrinks
  <2>2. Compatible(b.orders[l], b.orders[m], p[b.orders[l].key])
    BY <2>1, <1>3 DEF Claims, SameJob
  <2> DEFINE u == b.orders[l].qty
             v == b.orders[m].qty
             k == b.orders[l].key
  <2>3. /\ u \in Nat /\ v \in Nat /\ p[k] \in Nat /\ r[k] \in Nat /\ p[k] <= r[k]
        /\ c.orders[l].qty = u /\ c.orders[m].qty = v /\ c.orders[l].key = k
    BY <2>1, <1>1 DEF SameJob
  <2>4. u + v <= p[k] => u + v <= r[k]
    <3> HIDE DEF u, v, k
    <3> QED BY <2>3
  <2> QED BY <2>1, <2>2, <2>3, <2>4 DEF SameJob, Compatible
<1>4. ASSUME NEW k \in PosKeys, Stays(c, r, k) PROVE Stays(b, p, k)
  <2>1. CASE k = o.key
    BY <2>1 DEF Stays
  <2>2. CASE k # o.key
    BY <2>2, <1>1, <1>4 DEF Stays, Shrinks, ExitsKept, SameJob
  <2> QED BY <2>1, <2>2
<1> QED
  BY <1>2, <1>3, <1>4 DEF Claims, OneStays

\* A close has filled: its order is done and its position shrinks by all of it.
LEMMA CloserDone ==
    ASSUME NEW b, NEW c, NEW p \in [PosKeys -> Nat], Claims(b, p), OneStays(b, p),
           NEW i \in OpenRows(b), NEW o, o = b.orders[i], o.role # "entry",
           o.key \in PosKeys, o.qty \in Nat \ {0},
           \A l \in OpenRows(b) : /\ b.orders[l].key \in PosKeys /\ b.orders[l].qty \in Nat
                                  /\ b.orders[l].role \in Roles,
           Shrinks(b, c, {}), i \notin OpenRows(c),
           \A l \in OpenRows(b) : l # i /\ b.orders[l].role = "exit"
                                  => l \in OpenRows(c) /\ SameJob(c.orders[l], b.orders[l]),
           NEW r, r = [p EXCEPT ![o.key] = @ - o.qty]
    PROVE  Claims(c, r) /\ OneStays(c, r) /\ r \in [PosKeys -> Nat] /\ o.qty <= p[o.key]
<1> DEFINE K == o.key
           Q == o.qty
<1>1. Q <= p[K] /\ Q \in Nat /\ Q > 0 /\ p[K] \in Nat /\ K \in PosKeys
  BY DEF Claims
<1>2. /\ r[K] = p[K] - Q /\ r[K] \in Nat
      /\ \A k \in PosKeys : k # K => r[k] = p[k]
      /\ r \in [PosKeys -> Nat]
  BY <1>1
<1>3. ASSUME NEW l \in OpenRows(c), c.orders[l].role # "entry"
      PROVE  c.orders[l].qty <= r[c.orders[l].key]
  <2>1. l \in OpenRows(b) /\ SameJob(c.orders[l], b.orders[l]) /\ l # i
    BY DEF Shrinks
  <2>2. b.orders[l].qty <= p[b.orders[l].key] /\ b.orders[l].key \in PosKeys
    BY <2>1, <1>3 DEF Claims, SameJob
  <2>3. CASE b.orders[l].key # K
    BY <2>1, <2>2, <2>3, <1>2 DEF SameJob
  <2>4. CASE b.orders[l].key = K
    <3> DEFINE q == b.orders[l].qty
    <3>1. Q + q <= p[K]
      <4>1. Compatible(o, b.orders[l], p[K])
        BY <2>1, <2>4 DEF Claims
      <4> QED BY <4>1, <2>1, <1>3 DEF Compatible, SameJob
    <3>2. q \in Nat
      BY <2>1
    <3> HIDE DEF q, Q, K
    <3>3. q <= r[K]
      BY <3>1, <3>2, <1>1, <1>2
    <3> QED BY <3>3, <2>1, <2>4 DEF SameJob, q
  <2> QED BY <2>3, <2>4
<1>4. ASSUME NEW l \in OpenRows(c), NEW m \in OpenRows(c), l # m,
             c.orders[l].key = c.orders[m].key
      PROVE  Compatible(c.orders[l], c.orders[m], r[c.orders[l].key])
  <2>1. /\ l \in OpenRows(b) /\ SameJob(c.orders[l], b.orders[l])
        /\ m \in OpenRows(b) /\ SameJob(c.orders[m], b.orders[m])
        /\ l # i /\ m # i
    BY DEF Shrinks
  <2>2. Compatible(b.orders[l], b.orders[m], p[b.orders[l].key])
    BY <2>1, <1>4 DEF Claims, SameJob
  <2>3. CASE b.orders[l].key # K
    <3>1. r[b.orders[l].key] = p[b.orders[l].key]
      BY <2>1, <2>3, <1>2
    <3> QED BY <3>1, <2>1, <2>2 DEF SameJob, Compatible
  <2>4. CASE b.orders[l].key = K
    <3>1. Compatible(o, b.orders[l], p[K]) /\ Compatible(o, b.orders[m], p[K])
      BY <2>1, <2>4, <1>4 DEF Claims, SameJob
    <3>2. b.orders[l].role = "entry" \/ b.orders[m].role = "entry"
      BY <3>1, <2>1, <2>2 DEF Compatible, Roles
    <3> QED BY <3>2, <2>1, <2>2 DEF SameJob, Compatible
  <2> QED BY <2>3, <2>4
<1>5. ASSUME NEW k \in PosKeys, Stays(c, r, k) PROVE Stays(b, p, k)
  <2>1. CASE k # K
    <3>1. r[k] = p[k]
      BY <2>1, <1>2
    <3>2. \A l \in OpenRows(b) : b.orders[l].role = "exit" /\ b.orders[l].key = k
             => l \in OpenRows(c) /\ SameJob(c.orders[l], b.orders[l])
      BY <2>1
    <3> QED BY <3>1, <3>2, <1>5 DEF Stays, Shrinks, SameJob
  <2>2. CASE k = K /\ \E l \in OpenRows(c) : c.orders[l].role = "entry" /\ c.orders[l].key = k
    BY <2>2 DEF Stays, Shrinks, SameJob
  <2>3. CASE k = K /\ r[K] > 0
    <3>1. p[K] > 0 /\ Q # p[K]
      <4> HIDE DEF Q, K
      <4> QED BY <2>3, <1>1, <1>2
    <3>2. ASSUME NEW l \in OpenRows(b), b.orders[l].role = "exit", b.orders[l].key = K
          PROVE  b.orders[l].qty # p[K]
      <4>1. CASE l = i
        BY <3>1, <4>1
      <4>2. CASE l # i
        <5> DEFINE q == b.orders[l].qty
        <5>1. Q + q <= p[K] /\ q \in Nat
          <6>1. Compatible(o, b.orders[l], p[K])
            BY <4>2, <3>2 DEF Claims
          <6> QED BY <6>1, <3>2 DEF Compatible
        <5> HIDE DEF q, Q, K
        <5>2. q # p[K]
          BY <5>1, <1>1
        <5> QED BY <5>2 DEF q
      <4> QED BY <4>1, <4>2
    <3> QED BY <2>3, <3>1, <3>2 DEF Stays
  <2> QED BY <2>1, <2>2, <2>3, <1>5 DEF Stays
<1> QED
  BY <1>1, <1>2, <1>3, <1>4, <1>5 DEF Claims, OneStays

\* The book agrees with the positions: every order has its owner, what may still fill
\* fits, a symbol keeps at most one position, and what was told is what is held.
Ledger(b, p) == Owners(b) /\ Claims(b, p) /\ OneStays(b, p) /\ Balanced(b, p)

\* A trailing stop is in flight only while its order may fill.
TrailsWork(b, but) ==
    \A i \in DOMAIN b.orders :
       b.orders[i].role = "trail_stop" /\ b.orders[i].status \in InFlight /\ i # but
          => i \in OpenRows(b)

LEMMA TypedBook ==
    ASSUME NEW b \in Books
    PROVE  Typed(b)
<1>1. /\ DOMAIN b.broker = 1 .. Len(b.broker) /\ Len(b.broker) \in Int /\ 1 \in Int
      /\ \A j \in DOMAIN b.broker : b.broker[j] \in BrokerOrders
      /\ \A i \in DOMAIN b.orders : b.orders[i] \in OrderRows
  BY DEF Books
<1>2. IsFiniteSet(DOMAIN b.broker)
  BY <1>1, FS_Interval
<1> QED
  BY <1>1, <1>2 DEF Typed, Tickets

\* Rows keep their owners and their orders; a row that is added names an order that
\* is done.
LEMMA OwnersKept ==
    ASSUME NEW b, NEW c, Owners(b), Typed(c), DOMAIN c.broker = DOMAIN b.broker,
           DOMAIN b.orders \subseteq DOMAIN c.orders,
           \A i \in DOMAIN b.orders : /\ c.orders[i].signal = b.orders[i].signal
                                      /\ c.orders[i].ibkr = b.orders[i].ibkr,
           \A i \in Owned(b) : Serves(c.orders[i], Ticket(c, i)),
           \A j \in DOMAIN b.broker : Dead(b.broker[j]) => Dead(c.broker[j]),
           \A i \in DOMAIN c.orders \ DOMAIN b.orders :
              /\ c.orders[i].signal = None /\ c.orders[i].ibkr \in DOMAIN c.broker
              /\ Dead(Ticket(c, i))
    PROVE  Owners(c) /\ Owned(c) = Owned(b)
<1>1. Owned(c) = Owned(b)
  BY DEF Owned
<1>2. \A i \in Owned(b) : i \in DOMAIN b.orders
  BY DEF Owned
<1>3. \A i \in Owned(c) : c.orders[i].ibkr \in DOMAIN c.broker /\ Serves(c.orders[i], Ticket(c, i))
  BY <1>1, <1>2 DEF Owners
<1>4. \A i, l \in Owned(c) : c.orders[i].ibkr = c.orders[l].ibkr => i = l
  BY <1>1, <1>2 DEF Owners
<1>5. \A j \in DOMAIN c.broker : \E i \in Owned(c) : c.orders[i].ibkr = j
  BY <1>1, <1>2 DEF Owners
<1>6. ASSUME NEW i \in DOMAIN c.orders, c.orders[i].signal = None
      PROVE  c.orders[i].ibkr \in DOMAIN c.broker /\ Dead(Ticket(c, i))
  BY <1>6 DEF Owners, Ticket
<1> QED
  BY <1>1, <1>3, <1>4, <1>5, <1>6 DEF Owners

\* Orders execute and are cancelled: nothing new may fill, and what is to be sold still
\* is.
LEMMA LedgerKept ==
    ASSUME NEW b, NEW c, NEW p, Ledger(b, p), Typed(c),
           DOMAIN c.broker = DOMAIN b.broker, DOMAIN c.orders = DOMAIN b.orders,
           \A i \in DOMAIN b.orders : /\ c.orders[i].signal = b.orders[i].signal
                                      /\ c.orders[i].ibkr = b.orders[i].ibkr
                                      /\ SameJob(c.orders[i], b.orders[i]),
           \A i \in Owned(b) : Serves(c.orders[i], Ticket(c, i)),
           \A j \in DOMAIN b.broker :
              /\ Dead(b.broker[j]) => Dead(c.broker[j])
              /\ c.broker[j].symbol = b.broker[j].symbol
              /\ Told(c.broker[j]) = Told(b.broker[j])
              /\ MayFill(c.broker[j]) => MayFill(b.broker[j]),
           \A i \in OpenRows(b) : b.orders[i].role = "exit" => MayFill(Ticket(c, i))
    PROVE  Ledger(c, p) /\ OpenRows(c) \subseteq OpenRows(b) /\ Owned(c) = Owned(b)
<1>1. Owners(b) /\ Claims(b, p) /\ OneStays(b, p) /\ Balanced(b, p)
  BY DEF Ledger
<1>2. Owners(c) /\ Owned(c) = Owned(b)
  BY <1>1, OwnersKept
<1>3. OpenRows(c) \subseteq OpenRows(b) /\ OpenRows(b) \subseteq DOMAIN b.orders
  BY <1>1, <1>2 DEF OpenRows, Ticket, Owners, Owned
<1>4. Shrinks(b, c, {})
  BY <1>3 DEF Shrinks
<1>5. ExitsKept(b, c)
  BY <1>2, <1>3 DEF ExitsKept, OpenRows
<1>6. Balanced(c, p)
  <2>1. Tickets(b)
    BY <1>1 DEF Owners, Typed
  <2>2. \A s \in Symbols : ToldNet(c, s) = ToldNet(b, s)
    BY <2>1, ToldKept
  <2> QED BY <1>1, <2>2 DEF Balanced
<1> QED
  BY <1>1, <1>2, <1>3, <1>4, <1>5, <1>6, ClaimsShrink, StaysKept DEF Ledger

\* A new row that is no entry makes no key stay.
LEMMA StaysOnly ==
    ASSUME NEW b, NEW c, NEW p, NEW n, Shrinks(b, c, {n}), ExitsKept(b, c),
           c.orders[n].role # "entry", NEW k, Stays(c, p, k)
    PROVE  Stays(b, p, k)
<1>1. ASSUME NEW i \in OpenRows(c), c.orders[i].role = "entry"
      PROVE  i \in OpenRows(b) /\ SameJob(c.orders[i], b.orders[i])
  BY <1>1 DEF Shrinks
<1> QED
  BY <1>1 DEF Stays, ExitsKept, SameJob

LEMMA StaysAdded ==
    ASSUME NEW b, NEW c, NEW p, OneStays(b, p), NEW n, Shrinks(b, c, {n}), ExitsKept(b, c),
           c.orders[n].role # "entry"
    PROVE  OneStays(c, p)
<1>1. \A k : Stays(c, p, k) => Stays(b, p, k)
  BY StaysOnly
<1> QED
  BY <1>1 DEF OneStays

\* A book that an order was placed in.
LEMMA OwnersSubmit ==
    ASSUME NEW b \in Books, Owners(b), NEW row \in OrderRows, row.signal # None,
           row.fillQty = 0, row.key \in PosKeys, NEW c, SubmitEffect(b, c, row),
           NEW n, n = Len(b.orders) + 1
    PROVE  /\ Owners(c) /\ c \in Books
           /\ n \notin DOMAIN b.orders /\ DOMAIN c.orders = DOMAIN b.orders \cup {n}
           /\ \A i \in DOMAIN b.orders : c.orders[i] = b.orders[i]
           /\ OpenRows(c) = IF c.orders[n].ibkr = None THEN OpenRows(b) ELSE OpenRows(b) \cup {n}
           /\ SameJob(c.orders[n], row) /\ c.orders[n].signal = row.signal
           /\ c.orders[n].status = IF c.orders[n].ibkr = None THEN "error" ELSE "submitted"
           /\ \A s \in Symbols : ToldNet(c, s) = ToldNet(b, s)
<1> DEFINE m == Len(b.broker) + 1
           new == c.orders[n]
<1>1. /\ b.orders \in Seq(OrderRows) /\ b.broker \in Seq(BrokerOrders)
      /\ c.orders \in Seq(OrderRows) /\ c.broker \in Seq(BrokerOrders) /\ c \in Books
      /\ Len(c.orders) = n
      /\ \A i \in DOMAIN b.orders : c.orders[i] = b.orders[i]
      /\ new.signal = row.signal /\ new.key = row.key /\ new.role = row.role
      /\ new.qty = row.qty /\ new.fillQty = 0
      /\ Refused(b, c, new) \/ Accepted(b, c, new)
  BY DEF SubmitEffect, Books
<1>2. /\ DOMAIN b.orders = 1 .. n - 1 /\ n \in Nat \ {0} /\ DOMAIN c.orders = 1 .. n
      /\ DOMAIN b.broker = 1 .. m - 1 /\ m \in Nat \ {0}
  BY <1>1
<1>3. /\ n \notin DOMAIN b.orders /\ DOMAIN c.orders = DOMAIN b.orders \cup {n}
      /\ m \notin DOMAIN b.broker /\ m # None
  BY <1>2 DEF None
<1>4. Typed(b) /\ Tickets(b) /\ Owned(b) \subseteq DOMAIN b.orders
  BY DEF Owners, Typed, Owned
<1>5. Typed(c)
  <2>1. DOMAIN c.broker = 1 .. Len(c.broker) /\ Len(c.broker) \in Nat
    BY <1>1
  <2>2. IsFiniteSet(1 .. Len(c.broker))
    <3>1. 1 \in Int /\ Len(c.broker) \in Int
      BY <2>1
    <3> QED BY <3>1, FS_Interval
  <2> QED BY <1>1, <2>1, <2>2 DEF Typed, Tickets
<1>6. SameJob(new, row)
  BY <1>1 DEF SameJob
<1> HIDE DEF m
<1>7. CASE Refused(b, c, new)
  <2>1. c.broker = b.broker /\ new.ibkr = None /\ new.status = "error"
    BY <1>7 DEF Refused
  <2>2. Owned(c) = Owned(b)
    BY <1>1, <1>3, <2>1 DEF Owned
  <2>3. \A i \in Owned(c) : Ticket(c, i) = Ticket(b, i) /\ c.orders[i] = b.orders[i]
    BY <1>1, <1>4, <2>1, <2>2 DEF Ticket
  <2>4. \A i \in DOMAIN c.orders : c.orders[i].signal = None
            => c.orders[i] = b.orders[i] /\ i \in DOMAIN b.orders /\ Ticket(c, i) = Ticket(b, i)
    BY <1>1, <1>3, <2>1 DEF Ticket
  <2>5. Owners(c)
    BY <1>5, <2>1, <2>2, <2>3, <2>4 DEF Owners
  <2>6. OpenRows(c) = OpenRows(b)
    BY <2>2, <2>3 DEF OpenRows
  <2>7. \A s \in Symbols : ToldNet(c, s) = ToldNet(b, s)
    BY <2>1 DEF ToldNet, OrdersOf
  <2> QED BY <1>1, <1>3, <1>6, <2>1, <2>5, <2>6, <2>7
<1>8. CASE Accepted(b, c, new)
  <2> DEFINE work == WorkingOrder(new.key.symbol, Side(new.role, new.key.dir), new.qty)
  <2>1. /\ Len(c.broker) = m /\ \A j \in DOMAIN b.broker : c.broker[j] = b.broker[j]
        /\ new.ibkr = m /\ new.status = "submitted" /\ c.broker[m] = work
    BY <1>8 DEF Accepted, m
  <2>2. DOMAIN c.broker = DOMAIN b.broker \cup {m}
    <3>1. DOMAIN c.broker = 1 .. m
      BY <1>1, <2>1
    <3> QED BY <3>1, <1>2 DEF m
  <2>3. Owned(c) = Owned(b) \cup {n}
    BY <1>1, <1>3, <2>1 DEF Owned
  <2>4. ASSUME NEW i \in Owned(b)
        PROVE  /\ c.orders[i] = b.orders[i] /\ i # n
               /\ c.orders[i].ibkr \in DOMAIN b.broker /\ c.orders[i].ibkr # m
               /\ Ticket(c, i) = Ticket(b, i)
    <3>1. i \in DOMAIN b.orders /\ i # n /\ b.orders[i].ibkr \in DOMAIN b.broker
      BY <1>3, <1>4 DEF Owners
    <3>2. c.orders[i] = b.orders[i] /\ b.orders[i].ibkr # m
      BY <3>1, <1>1, <1>3
    <3>3. c.broker[b.orders[i].ibkr] = b.broker[b.orders[i].ibkr]
      BY <3>1, <2>1
    <3> QED BY <3>1, <3>2, <3>3 DEF Ticket
  <2>5. Ticket(c, n) = work
    BY <2>1 DEF Ticket
  <2> HIDE DEF work
  <2>6. Serves(new, work) /\ MayFill(work) /\ Told(work) = 0
    <3>1. /\ work.symbol = new.key.symbol /\ work.side = Side(new.role, new.key.dir)
          /\ work.qty = new.qty /\ work.executed = 0 /\ work.pending = 0 /\ work.lost = 0
          /\ work.cancel = "none" /\ work.live
      BY DEF work, WorkingOrder
    <3>2. new.qty \in Nat
      BY <1>1 DEF OrderRows
    <3>3. work.executed = work.pending
      BY <3>1
    <3>4. Told(work) = 0
      <4>1. work \in BrokerOrders
        BY <1>1, <2>1, <2>2
      <4> QED BY <4>1, <3>3, ToldNothing
    <3>5. MayFill(work)
      BY <3>1 DEF MayFill
    <3>6. new.fillQty + work.pending <= work.executed /\ work.executed <= work.qty
      BY <3>1, <3>2, <1>1
    <3>7. new.key \in PosKeys
      BY <1>1
    <3>8. Serves(new, work)
      BY <3>1, <3>6, <3>7 DEF Serves
    <3> QED BY <3>4, <3>5, <3>8
  <2>7. \A i \in Owned(c) : c.orders[i].ibkr \in DOMAIN c.broker /\ Serves(c.orders[i], Ticket(c, i))
    <3>1. \A i \in Owned(b) : Serves(b.orders[i], Ticket(b, i))
      BY DEF Owners
    <3> QED BY <3>1, <2>1, <2>2, <2>3, <2>4, <2>5, <2>6
  <2>8. \A i, l \in Owned(c) : c.orders[i].ibkr = c.orders[l].ibkr => i = l
    <3>1. \A i, l \in Owned(b) : b.orders[i].ibkr = b.orders[l].ibkr => i = l
      BY DEF Owners
    <3> QED BY <3>1, <2>1, <2>3, <2>4
  <2>9. \A j \in DOMAIN c.broker : \E i \in Owned(c) : c.orders[i].ibkr = j
    <3>1. \A j \in DOMAIN b.broker : \E i \in Owned(b) : b.orders[i].ibkr = j
      BY DEF Owners
    <3> QED BY <3>1, <2>1, <2>2, <2>3, <2>4
  <2>10. ASSUME NEW i \in DOMAIN c.orders, c.orders[i].signal = None
         PROVE  c.orders[i].ibkr \in DOMAIN c.broker /\ Dead(Ticket(c, i))
    <3>1. i \in DOMAIN b.orders /\ c.orders[i] = b.orders[i]
      BY <2>10, <1>1, <1>3
    <3>2. b.orders[i].ibkr \in DOMAIN b.broker /\ Dead(Ticket(b, i))
      BY <3>1, <2>10 DEF Owners
    <3> QED BY <3>1, <3>2, <2>1, <2>2 DEF Ticket
  <2>11. Owners(c)
    BY <1>5, <2>7, <2>8, <2>9, <2>10 DEF Owners
  <2>12. OpenRows(c) = OpenRows(b) \cup {n}
    BY <2>3, <2>4, <2>5, <2>6 DEF OpenRows
  <2>13. \A s \in Symbols : ToldNet(c, s) = ToldNet(b, s)
    <3>1. Told(c.broker[m]) = 0
      BY <2>1, <2>6
    <3> QED BY <3>1, <1>3, <1>4, <2>1, <2>2, ToldAdded
  <2>14. new.ibkr # None
    BY <2>1, <1>3
  <2> QED BY <1>1, <1>3, <1>6, <2>1, <2>11, <2>12, <2>13, <2>14
<1> QED
  BY <1>1, <1>7, <1>8

Reported(br) == [br EXCEPT !.pending = 0]

\* The order of an owned row serves the row, and no other row owns it.
LEMMA OwnerServed ==
    ASSUME NEW b, Owners(b), NEW l \in Owned(b)
    PROVE  /\ l \in DOMAIN b.orders /\ b.orders[l].ibkr \in DOMAIN b.broker
           /\ b.orders[l].signal # None /\ b.orders[l].ibkr # None
           /\ Ticket(b, l) = b.broker[b.orders[l].ibkr]
           /\ Serves(b.orders[l], b.broker[b.orders[l].ibkr])
           /\ \A i \in Owned(b) : b.orders[i].ibkr = b.orders[l].ibkr => i = l
<1>1. /\ l \in DOMAIN b.orders /\ b.orders[l].signal # None /\ b.orders[l].ibkr # None
      /\ Ticket(b, l) = b.broker[b.orders[l].ibkr]
  BY DEF Owned, Ticket
<1>2. b.orders[l].ibkr \in DOMAIN b.broker /\ Serves(b.orders[l], Ticket(b, l))
  BY DEF Owners
<1>3. \A i \in Owned(b) : b.orders[i].ibkr = b.orders[l].ibkr => i = l
  BY DEF Owners
<1> QED
  BY <1>1, <1>2, <1>3

\* What the positions become with all of an order.
Moved(p, o) == [p EXCEPT ![o.key] = IF o.role = "entry" THEN @ + o.qty ELSE @ - o.qty]

\* The report of an order that executed at once: the order is done, and the position
\* takes or gives all of it.  Rows made up on the way name the same order.
LEMMA FillSettles ==
    ASSUME IsFiniteSet(PosKeys), NEW b, NEW c, NEW p \in [PosKeys -> Nat], Ledger(b, p), Typed(c),
           NEW i \in Owned(b), NEW o, o = b.orders[i], NEW j, j = o.ibkr,
           b.broker[j].pending = o.qty, ~b.broker[j].live,
           DOMAIN c.broker = DOMAIN b.broker,
           c.broker[j] = Reported(b.broker[j]),
           \A l \in DOMAIN b.broker \ {j} : c.broker[l] = b.broker[l],
           DOMAIN b.orders \subseteq DOMAIN c.orders,
           \A l \in DOMAIN b.orders \ {i} : c.orders[l] = b.orders[l],
           c.orders[i].signal = o.signal, c.orders[i].ibkr = j, SameJob(c.orders[i], o),
           c.orders[i].fillQty <= o.qty,
           \A l \in DOMAIN c.orders \ DOMAIN b.orders :
              c.orders[l].signal = None /\ c.orders[l].ibkr = j,
           NEW r, r = Moved(p, o)
    PROVE  /\ Ledger(c, r) /\ r \in [PosKeys -> Nat]
           /\ OpenRows(c) = OpenRows(b) \ {i} /\ i \in OpenRows(b)
           /\ o.key \in PosKeys
           /\ o.role # "entry" => o.qty <= p[o.key]
<1> DEFINE br == b.broker[j]
           cr == c.broker[j]
<1>0. /\ cr = [br EXCEPT !.pending = 0]
      /\ r = [p EXCEPT ![o.key] = IF o.role = "entry" THEN @ + o.qty ELSE @ - o.qty]
  BY DEF Reported, Moved
<1>1. Owners(b) /\ Claims(b, p) /\ OneStays(b, p) /\ Balanced(b, p)
  BY DEF Ledger
<1>2. /\ i \in DOMAIN b.orders /\ o.signal # None /\ j # None /\ j \in DOMAIN b.broker
      /\ Serves(o, br) /\ o \in OrderRows /\ br \in BrokerOrders
      /\ c.orders[i] \in OrderRows /\ cr \in BrokerOrders
      /\ Tickets(b) /\ Tickets(c)
  <2>1. /\ i \in DOMAIN b.orders /\ o.signal # None /\ j # None
        /\ j \in DOMAIN b.broker /\ Serves(o, br)
    <3>1. Owners(b) /\ i \in Owned(b)
      BY <1>1
    <3>2. /\ i \in DOMAIN b.orders /\ b.orders[i].ibkr \in DOMAIN b.broker
          /\ b.orders[i].signal # None /\ b.orders[i].ibkr # None
          /\ Serves(b.orders[i], b.broker[b.orders[i].ibkr])
      BY ONLY <3>1, OwnerServed
    <3> QED BY ONLY <3>2, o = b.orders[i], j = o.ibkr
  <2>2. j \in DOMAIN b.broker /\ Serves(o, br)
    BY <2>1
  <2>3. /\ Tickets(b) /\ \A l \in DOMAIN b.orders : b.orders[l] \in OrderRows
        /\ Tickets(c) /\ \A l \in DOMAIN c.orders : c.orders[l] \in OrderRows
    BY <1>1 DEF Owners, Typed
  <2>4. o \in OrderRows /\ c.orders[i] \in OrderRows
    BY <2>1, <2>3
  <2>5. br \in BrokerOrders /\ cr \in BrokerOrders
    BY <2>2, <2>3 DEF Tickets
  <2> QED BY <2>1, <2>2, <2>3, <2>4, <2>5
<1>3. /\ br.pending \in Nat \ {0} /\ br.executed \in Nat /\ br.qty = o.qty /\ o.qty \in Nat \ {0}
      /\ br.executed = o.qty /\ o.key \in PosKeys /\ o.role \in Roles
      /\ c.orders[i].fillQty \in Nat /\ br.pending = o.qty
  <2>1. /\ br.pending = o.qty /\ br.qty = o.qty /\ o.key \in PosKeys
        /\ o.fillQty + br.pending <= br.executed /\ br.executed <= br.qty
    BY <1>2 DEF Serves
  <2>2. o.qty \in Nat \ {0} /\ o.fillQty \in Nat /\ o.role \in Roles /\ c.orders[i].fillQty \in Nat
    BY <1>2 DEF OrderRows
  <2>3. br.executed \in Nat
    BY <1>2 DEF BrokerOrders
  <2> HIDE DEF br
  <2> QED BY <2>1, <2>2, <2>3
<1>4. /\ cr.symbol = br.symbol /\ cr.side = br.side /\ cr.qty = br.qty
      /\ cr.executed = br.executed /\ cr.pending = 0 /\ cr.lost = br.lost
      /\ cr.cancel = br.cancel /\ cr.live = br.live
  BY <1>0, <1>2 DEF BrokerOrders
<1> HIDE DEF br, cr
<1>5. Serves(c.orders[i], cr)
  <2>1. c.orders[i].fillQty + cr.pending <= cr.executed /\ cr.executed <= cr.qty
    BY <1>3, <1>4
  <2> QED BY <2>1, <1>2, <1>4 DEF Serves, SameJob
<1>6. Dead(cr) /\ ~Dead(br)
  BY <1>3, <1>4 DEF Dead, br
<1>7. Owners(c) /\ Owned(c) = Owned(b)
  <2>1. \A l \in DOMAIN b.orders : /\ c.orders[l].signal = b.orders[l].signal
                                   /\ c.orders[l].ibkr = b.orders[l].ibkr
    BY <1>2
  <2>2. ASSUME NEW l \in Owned(b) PROVE Serves(c.orders[l], Ticket(c, l))
    <3>1. CASE l = i
      BY <3>1, <1>5 DEF Ticket, cr
    <3>2. CASE l # i
      <4>1. /\ l \in DOMAIN b.orders /\ b.orders[l].ibkr \in DOMAIN b.broker
            /\ b.orders[l].ibkr # j /\ Serves(b.orders[l], Ticket(b, l))
        BY <3>2, <1>1, OwnerServed
      <4>2. c.orders[l] = b.orders[l] /\ Ticket(c, l) = Ticket(b, l)
        BY <4>1, <3>2 DEF Ticket
      <4> QED BY <4>1, <4>2
    <3> QED BY <3>1, <3>2
  <2>3. \A l \in DOMAIN b.broker : Dead(b.broker[l]) => Dead(c.broker[l])
    BY <1>6 DEF cr
  <2>4. \A l \in DOMAIN c.orders \ DOMAIN b.orders :
           /\ c.orders[l].signal = None /\ c.orders[l].ibkr \in DOMAIN c.broker
           /\ Dead(Ticket(c, l))
    BY <1>2, <1>6 DEF Ticket, cr
  <2> QED BY <1>1, <2>1, <2>2, <2>3, <2>4, OwnersKept
<1>8. OpenRows(c) = OpenRows(b) \ {i} /\ i \in OpenRows(b)
  <2>1. i \in OpenRows(b) /\ i \notin OpenRows(c)
    <3>1. MayFill(br)
      BY <1>3 DEF MayFill
    <3>2. ~MayFill(cr)
      BY <1>6 DEF MayFill, Dead
    <3>3. Ticket(b, i) = br /\ Ticket(c, i) = cr
      BY DEF Ticket, br, cr
    <3> QED BY <3>1, <3>2, <3>3 DEF OpenRows
  <2>2. ASSUME NEW l \in Owned(b), l # i PROVE Ticket(c, l) = Ticket(b, l)
    <3>1. l \in DOMAIN b.orders /\ b.orders[l].ibkr \in DOMAIN b.broker /\ b.orders[l].ibkr # j
      BY <2>2, <1>1, OwnerServed
    <3> QED BY <3>1, <2>2 DEF Ticket
  <2> QED BY <1>7, <2>1, <2>2 DEF OpenRows
<1>9. \A l \in OpenRows(b) : /\ l \in Owned(b) /\ l \in DOMAIN b.orders
                             /\ b.orders[l].key \in PosKeys /\ b.orders[l].qty \in Nat
                             /\ b.orders[l].role \in Roles
                             /\ l # i => c.orders[l] = b.orders[l]
  <2> SUFFICES ASSUME NEW l \in OpenRows(b)
               PROVE  /\ l \in Owned(b) /\ l \in DOMAIN b.orders
                      /\ b.orders[l].key \in PosKeys /\ b.orders[l].qty \in Nat
                      /\ b.orders[l].role \in Roles
                      /\ l # i => c.orders[l] = b.orders[l]
    OBVIOUS
  <2>1. l \in Owned(b) /\ l \in DOMAIN b.orders /\ b.orders[l] \in OrderRows
        /\ Serves(b.orders[l], Ticket(b, l))
    BY <1>1 DEF OpenRows, Owned, Owners, Typed
  <2> QED BY <2>1 DEF OrderRows, Serves
<1>10. /\ Shrinks(b, c, {})
       /\ \A l \in OpenRows(b) : l # i => l \in OpenRows(c) /\ SameJob(c.orders[l], b.orders[l])
  BY <1>8, <1>9 DEF Shrinks, SameJob
<1> DEFINE k == o.key
<1>11. /\ Claims(c, r) /\ OneStays(c, r) /\ r \in [PosKeys -> Nat]
       /\ o.role # "entry" => o.qty <= p[k]
  <2>1. CASE o.role = "entry"
    <3>1. ExitsKept(b, c)
      BY <1>10, <2>1 DEF ExitsKept
    <3>2. r = [p EXCEPT ![o.key] = @ + o.qty]
      BY <1>0, <2>1
    <3>3. r \in [PosKeys -> Nat]
      BY <3>2, <1>3
    <3>4. Claims(c, r) /\ OneStays(c, r)
      <4>1. /\ p \in [PosKeys -> Nat] /\ Claims(b, p) /\ OneStays(b, p) /\ i \in OpenRows(b)
            /\ o = b.orders[i] /\ o.role = "entry" /\ o.key \in PosKeys /\ o.qty \in Nat
            /\ \A l \in OpenRows(b) : b.orders[l].key \in PosKeys /\ b.orders[l].qty \in Nat
            /\ Shrinks(b, c, {}) /\ ExitsKept(b, c) /\ i \notin OpenRows(c)
            /\ r = [p EXCEPT ![o.key] = @ + o.qty]
        BY <3>1, <3>2, <2>1, <1>1, <1>3, <1>8, <1>9, <1>10
      <4> QED BY ONLY <4>1, EntryDone
    <3> QED BY <3>3, <3>4, <2>1
  <2>2. CASE o.role # "entry"
    <3>1. r = [p EXCEPT ![o.key] = @ - o.qty]
      BY <1>0, <2>2
    <3>2. \A l \in OpenRows(b) : l # i /\ b.orders[l].role = "exit"
                                  => l \in OpenRows(c) /\ SameJob(c.orders[l], b.orders[l])
      BY <1>10
    <3>3. /\ p \in [PosKeys -> Nat] /\ Claims(b, p) /\ OneStays(b, p) /\ i \in OpenRows(b)
          /\ o = b.orders[i] /\ o.role # "entry" /\ o.key \in PosKeys /\ o.qty \in Nat \ {0}
          /\ \A l \in OpenRows(b) : /\ b.orders[l].key \in PosKeys /\ b.orders[l].qty \in Nat
                                     /\ b.orders[l].role \in Roles
          /\ Shrinks(b, c, {}) /\ i \notin OpenRows(c)
      BY <2>2, <1>1, <1>3, <1>8, <1>9, <1>10
    <3>4. Claims(c, r) /\ OneStays(c, r) /\ r \in [PosKeys -> Nat] /\ o.qty <= p[o.key]
      BY ONLY <3>1, <3>2, <3>3, CloserDone
    <3> QED BY <3>4
  <2> QED BY <2>1, <2>2
<1>12. Balanced(c, r)
  <2>1. /\ k \in PosKeys /\ k.symbol = br.symbol /\ br.side = Side(o.role, k.dir)
        /\ k.dir \in Directions
    BY <1>2 DEF Serves, PosKeys
  <2>2. Told(br) = 0 /\ Told(cr) = IF br.side = "BUY" THEN o.qty ELSE -o.qty
    <3>1. br.executed = br.pending /\ cr.executed - cr.pending = o.qty
      BY <1>3, <1>4
    <3>2. Told(br) = 0
      BY <3>1, <1>2, ToldNothing
    <3> QED BY <3>1, <3>2, <1>4 DEF Told
  <2>3. /\ r[k] \in Nat /\ p[k] \in Nat
        /\ r[k] = IF o.role = "entry" THEN p[k] + o.qty ELSE p[k] - o.qty
    BY <2>1, <1>0, <1>11
  <2> DEFINE told == Told(cr) - Told(br)
             held == Holds(r, k) - Holds(p, k)
  <2>4. told = held
    <3>1. br.side = IF (k.dir = "long") <=> (o.role = "entry") THEN "BUY" ELSE "SELL"
      BY <2>1, <1>3 DEF Side, EntrySide, Opposite, Directions, Roles
    <3> DEFINE q == o.qty
               u == p[k]
               v == r[k]
    <3>2. q \in Nat /\ u \in Nat /\ v \in Nat
      BY <2>3, <1>3
    <3>3. v = IF o.role = "entry" THEN u + q ELSE u - q
      BY <2>3
    <3>4. told = (IF br.side = "BUY" THEN q ELSE -q) - 0
      BY <2>2
    <3>5. held = (IF k.dir = "long" THEN v ELSE -v) - (IF k.dir = "long" THEN u ELSE -u)
      BY DEF Holds
    <3> HIDE DEF q, u, v, told, held
    <3>6. CASE o.role = "entry"
      BY <3>1, <3>2, <3>3, <3>4, <3>5, <3>6
    <3>7. CASE o.role # "entry"
      BY <3>1, <3>2, <3>3, <3>4, <3>5, <3>7
    <3> QED BY <3>6, <3>7
  <2>5. \A s \in Symbols :
           ToldNet(c, s) = IF s = br.symbol THEN ToldNet(b, s) + told ELSE ToldNet(b, s)
    <3>1. /\ Tickets(b) /\ Tickets(c) /\ j \in DOMAIN b.broker
          /\ DOMAIN c.broker = DOMAIN b.broker /\ c.broker[j].symbol = b.broker[j].symbol
          /\ \A l \in DOMAIN b.broker \ {j} : c.broker[l] = b.broker[l]
      BY <1>2, <1>4 DEF br, cr
    <3>2. \A s \in Symbols :
             ToldNet(c, s) = IF s = b.broker[j].symbol
                             THEN ToldNet(b, s) + (Told(c.broker[j]) - Told(b.broker[j]))
                             ELSE ToldNet(b, s)
      BY ONLY <3>1, ToldChanges
    <3> QED BY ONLY <3>2 DEF told, br, cr
  <2>6. \A s \in Symbols :
           PosNet(r, s) = IF s = k.symbol THEN PosNet(p, s) + held ELSE PosNet(p, s)
    <3>1. /\ r = [p EXCEPT ![k] = r[k]] /\ k \in PosKeys /\ r[k] \in Nat
          /\ p \in [PosKeys -> Nat] /\ IsFiniteSet(PosKeys)
      BY <1>0, <1>11, <2>1, <2>3
    <3> HIDE DEF k
    <3>2. \A s \in Symbols :
             PosNet(r, s) = IF s = k.symbol
                            THEN PosNet(p, s) + (Holds(r, k) - Holds(p, k))
                            ELSE PosNet(p, s)
      BY ONLY <3>1, HoldsChanges
    <3> QED BY ONLY <3>2 DEF held
  <2> HIDE DEF told, held, k
  <2> QED BY <2>1, <2>4, <2>5, <2>6, <1>1 DEF Balanced
<1> QED
  BY <1>3, <1>7, <1>8, <1>11, <1>12 DEF Ledger

\* The broker is asked to cancel trailing stops: with no report on its way none of them
\* fills any more, and no other order is touched.
Asks(b, c, ids) ==
    /\ c.broker = [j \in DOMAIN b.broker |->
                      IF /\ \E i \in ids : b.orders[i].ibkr = j
                         /\ b.broker[j].live
                         /\ b.broker[j].cancel # "asked"
                      THEN [b.broker[j] EXCEPT !.cancel = "asked"]
                      ELSE b.broker[j]]
    /\ DOMAIN c.orders = DOMAIN b.orders
    /\ \A i \in DOMAIN b.orders : /\ c.orders[i].signal = b.orders[i].signal
                                  /\ c.orders[i].ibkr = b.orders[i].ibkr
                                  /\ c.orders[i].fillQty = b.orders[i].fillQty
                                  /\ SameJob(c.orders[i], b.orders[i])

LEMMA AskLedger ==
    ASSUME NEW b, NEW c, NEW p, Ledger(b, p), Typed(c), NEW ids, Asks(b, c, ids),
           ids \subseteq {i \in DOMAIN b.orders : b.orders[i].role = "trail_stop"}
    PROVE  /\ Ledger(c, p) /\ Owned(c) = Owned(b) /\ OpenRows(c) \subseteq OpenRows(b)
           /\ OpenRows(b) \ ids \subseteq OpenRows(c)
           /\ \A i \in ids \cap OpenRows(c) : Ticket(b, i).pending # 0
<1>0. /\ DOMAIN c.orders = DOMAIN b.orders
      /\ \A i \in DOMAIN b.orders : /\ c.orders[i].signal = b.orders[i].signal
                                    /\ c.orders[i].ibkr = b.orders[i].ibkr
                                    /\ SameJob(c.orders[i], b.orders[i])
  BY DEF Asks
<1>1. /\ Owners(b) /\ Typed(b) /\ OpenRows(b) \subseteq Owned(b)
      /\ Owned(b) \subseteq DOMAIN b.orders
      /\ DOMAIN c.broker = DOMAIN b.broker
      /\ \A i \in Owned(b) : b.orders[i].ibkr \in DOMAIN b.broker
  BY DEF Ledger, Owners, OpenRows, Owned, Asks
<1>2. ASSUME NEW j \in DOMAIN b.broker
      PROVE  LET br == b.broker[j]
                 cr == c.broker[j]
             IN  /\ cr.symbol = br.symbol /\ cr.side = br.side /\ cr.qty = br.qty
                 /\ cr.executed = br.executed /\ cr.pending = br.pending /\ cr.lost = br.lost
                 /\ cr.live = br.live
                 /\ cr.cancel = br.cancel
                    \/ /\ cr.cancel = "asked" /\ br.live
                       /\ \E i \in ids : b.orders[i].ibkr = j
  <2>1. b.broker[j] \in BrokerOrders
    BY <1>1 DEF Typed, Tickets
  <2>2. \/ c.broker[j] = b.broker[j]
        \/ /\ c.broker[j] = [b.broker[j] EXCEPT !.cancel = "asked"]
           /\ b.broker[j].live /\ \E i \in ids : b.orders[i].ibkr = j
    BY DEF Asks
  <2>3. CASE c.broker[j] = b.broker[j]
    BY <2>3
  <2>4. CASE /\ c.broker[j] = [b.broker[j] EXCEPT !.cancel = "asked"]
             /\ b.broker[j].live /\ \E i \in ids : b.orders[i].ibkr = j
    <3> DEFINE br == b.broker[j]
               cr == c.broker[j]
    <3>1. br \in BrokerOrders /\ cr = [br EXCEPT !.cancel = "asked"]
      BY <2>1, <2>4
    <3> HIDE DEF br, cr
    <3>2. /\ cr.symbol = br.symbol /\ cr.side = br.side /\ cr.qty = br.qty
          /\ cr.executed = br.executed /\ cr.pending = br.pending /\ cr.lost = br.lost
          /\ cr.live = br.live /\ cr.cancel = "asked"
      BY <3>1 DEF BrokerOrders
    <3> QED BY <3>2, <2>4 DEF br, cr
  <2> QED BY <2>2, <2>3, <2>4
<1>3. ASSUME NEW i \in ids, b.orders[i].ibkr \in DOMAIN b.broker,
             b.broker[b.orders[i].ibkr].live
      PROVE  i \in Owned(b)
  <2>1. b.orders[i].signal # None
    BY <1>1, <1>3 DEF Owners, Dead, Ticket
  <2>2. b.orders[i].ibkr # None
    <3>1. PICK l \in Owned(b) : b.orders[l].ibkr = b.orders[i].ibkr
      BY <1>1, <1>3 DEF Owners
    <3> QED BY <3>1 DEF Owned
  <2> QED BY <2>1, <2>2 DEF Owned
<1>4. ASSUME NEW i \in Owned(b)
      PROVE  LET br == Ticket(b, i)
                 cr == Ticket(c, i)
             IN  /\ cr.symbol = br.symbol /\ cr.side = br.side /\ cr.qty = br.qty
                 /\ cr.executed = br.executed /\ cr.pending = br.pending /\ cr.lost = br.lost
                 /\ cr.live = br.live
                 /\ cr.cancel # br.cancel => cr.cancel = "asked" /\ i \in ids
  <2> DEFINE j == b.orders[i].ibkr
  <2>1. /\ j \in DOMAIN b.broker /\ Ticket(b, i) = b.broker[j] /\ Ticket(c, i) = c.broker[j]
    BY <1>0, <1>1 DEF Ticket
  <2>2. ASSUME NEW l \in ids, b.orders[l].ibkr = j, b.broker[j].live PROVE i \in ids
    <3>1. l \in Owned(b)
      BY <2>1, <2>2, <1>3
    <3> QED BY <3>1, <2>2, <1>1 DEF Owners
  <2> DEFINE br == b.broker[j]
             cr == c.broker[j]
  <2>3. /\ cr.symbol = br.symbol /\ cr.side = br.side /\ cr.qty = br.qty
        /\ cr.executed = br.executed /\ cr.pending = br.pending /\ cr.lost = br.lost
        /\ cr.live = br.live
    BY <2>1, <1>2
  <2>4. cr.cancel # br.cancel =>
           cr.cancel = "asked" /\ br.live /\ \E l \in ids : b.orders[l].ibkr = j
    BY <2>1, <1>2
  <2>5. cr.cancel # br.cancel => cr.cancel = "asked" /\ i \in ids
    BY <2>2, <2>4
  <2>6. Ticket(b, i) = br /\ Ticket(c, i) = cr
    BY <2>1
  <2> HIDE DEF br, cr, j
  <2> QED BY <2>3, <2>5, <2>6
<1>5. \A i \in Owned(b) : Serves(c.orders[i], Ticket(c, i))
  <2> TAKE i \in Owned(b)
  <2>1. Serves(b.orders[i], Ticket(b, i))
    BY <1>1 DEF Owners
  <2>2. /\ SameJob(c.orders[i], b.orders[i]) /\ c.orders[i].fillQty = b.orders[i].fillQty
        /\ i \in ids => b.orders[i].role = "trail_stop"
    BY <1>1 DEF Asks
  <2> QED BY <2>1, <2>2, <1>4 DEF Serves, SameJob
<1>6. \A j \in DOMAIN b.broker :
         /\ Dead(b.broker[j]) => Dead(c.broker[j])
         /\ c.broker[j].symbol = b.broker[j].symbol
         /\ Told(c.broker[j]) = Told(b.broker[j])
         /\ MayFill(c.broker[j]) => MayFill(b.broker[j])
  BY <1>2 DEF Dead, Told, MayFill
<1>7. ASSUME NEW i \in OpenRows(b), i \notin ids PROVE MayFill(Ticket(c, i))
  BY <1>1, <1>4, <1>7 DEF OpenRows, MayFill
<1>8. \A i \in OpenRows(b) : b.orders[i].role = "exit" => MayFill(Ticket(c, i))
  BY <1>7
<1>9. Ledger(c, p) /\ OpenRows(c) \subseteq OpenRows(b) /\ Owned(c) = Owned(b)
  BY <1>0, <1>1, <1>5, <1>6, <1>8, LedgerKept
<1>10. OpenRows(b) \ ids \subseteq OpenRows(c)
  BY <1>1, <1>7, <1>9 DEF OpenRows
<1>11. ASSUME NEW i \in ids, i \in OpenRows(c) PROVE Ticket(b, i).pending # 0
  <2> DEFINE br == Ticket(b, i)
             cr == Ticket(c, i)
             j == b.orders[i].ibkr
  <2>1. i \in Owned(b) /\ i \in DOMAIN b.orders /\ j \in DOMAIN b.broker
    BY <1>1, <1>9, <1>11
  <2>2. br = b.broker[j] /\ cr = c.broker[j] /\ br \in BrokerOrders
    BY <2>1, <1>0, <1>1 DEF Ticket, Typed, Tickets
  <2>3. cr.pending = br.pending /\ (cr.live /\ cr.cancel # "asked" => FALSE)
    <3>1. CASE br.live /\ br.cancel # "asked"
      <4>1. cr = [br EXCEPT !.cancel = "asked"]
        <5>1. \E a \in ids : b.orders[a].ibkr = j
          BY <1>11
        <5>2. b.broker[j].live /\ b.broker[j].cancel # "asked"
          BY <2>2, <3>1
        <5>3. c.broker[j] = [b.broker[j] EXCEPT !.cancel = "asked"]
          <6>1. j \in DOMAIN b.broker
            BY <2>1
          <6> HIDE DEF j, br, cr
          <6> QED BY <6>1, <5>1, <5>2 DEF Asks
        <5> QED BY <2>2, <5>3
      <4> QED BY <4>1, <2>2 DEF BrokerOrders
    <3>2. CASE ~(br.live /\ br.cancel # "asked")
      BY <3>2, <2>1, <1>4
    <3> QED BY <3>1, <3>2
  <2>4. MayFill(cr)
    BY <1>11 DEF OpenRows
  <2> HIDE DEF br, cr
  <2>5. cr.pending > 0
    BY <2>3, <2>4 DEF MayFill
  <2>6. br.pending # 0
    BY <2>3, <2>5
  <2> QED BY <2>6 DEF br
<1> QED
  BY <1>9, <1>10, <1>11

\* No row in flight, nothing to cancel.
LEMMA CancelNothing ==
    ASSUME NEW b \in Books, NEW sig, NEW ok
    PROVE  CancelRows(b, {}, sig, ok) = b
<1>1. b.orders = [i \in DOMAIN b.orders |-> b.orders[i]]
  BY DEF Books
<1>2. b.broker = [j \in DOMAIN b.broker |-> b.broker[j]]
  BY DEF Books
<1>3. AskCancel(b, {}, ok) = b.broker
  BY <1>2 DEF AskCancel
<1>4. CancelRows(b, {}, sig, ok) = [orders |-> b.orders, broker |-> b.broker]
  BY <1>1, <1>3 DEF CancelRows
<1> QED
  BY <1>4 DEF Books

\* A row that works next to those of b, or was refused.
LEMMA LedgerAdded ==
    ASSUME NEW b \in Books, NEW p, Ledger(b, p), NEW row \in OrderRows, row.signal # None,
           row.fillQty = 0, row.key \in PosKeys, row.role # "entry", NEW ok \in BOOLEAN,
           Fits(b, p, row), NEW c, c = Submit(b, row, ok), NEW n, n = Len(b.orders) + 1
    PROVE  /\ Ledger(c, p)
           /\ \A k : Stays(c, p, k) => Stays(b, p, k)
<1>1. SubmitEffect(b, c, row)
  BY SubmitReturns
<1>2. Owners(b) /\ Claims(b, p) /\ OneStays(b, p) /\ Balanced(b, p)
  BY DEF Ledger
<1>3. /\ Owners(c) /\ n \notin DOMAIN b.orders
      /\ \A i \in DOMAIN b.orders : c.orders[i] = b.orders[i]
      /\ OpenRows(c) = IF c.orders[n].ibkr = None THEN OpenRows(b) ELSE OpenRows(b) \cup {n}
      /\ SameJob(c.orders[n], row)
      /\ \A s \in Symbols : ToldNet(c, s) = ToldNet(b, s)
  BY <1>1, <1>2, OwnersSubmit
<1>4. OpenRows(b) \subseteq DOMAIN b.orders
  BY DEF OpenRows, Owned
<1>5. Shrinks(b, c, {n}) /\ ExitsKept(b, c) /\ c.orders[n].role # "entry"
  BY <1>3, <1>4 DEF Shrinks, ExitsKept, SameJob
<1>6. Claims(c, p)
  <2>1. Fits(b, p, c.orders[n])
    BY <1>3 DEF Fits, SameJob, Compatible
  <2> QED BY <1>2, <1>5, <2>1, ClaimsAdded
<1>7. OneStays(c, p) /\ \A k : Stays(c, p, k) => Stays(b, p, k)
  BY <1>2, <1>5, StaysAdded, StaysOnly
<1>8. Balanced(c, p)
  BY <1>2, <1>3 DEF Balanced
<1> QED
  BY <1>3, <1>6, <1>7, <1>8 DEF Ledger

\* An order that the bridge could send has been taken.
LEMMA SubmitTaken ==
    ASSUME NEW b \in Books, NEW row \in OrderRows, NEW ok \in BOOLEAN, ok,
           NEW c, c = Submit(b, row, ok)
    PROVE  c.orders[Len(b.orders) + 1].ibkr # None
<1> DEFINE work == WorkingOrder(row.key.symbol, Side(row.role, row.key.dir), row.qty)
<1>1. SubmitEffect(b, c, row)
  BY SubmitReturns
<1>2. work \in BrokerOrders
  BY DEF WorkingOrder, BrokerOrders, OrderRows, OrderKeys, Side, EntrySide
<1>3. c.broker = Append(b.broker, work) /\ b.broker \in Seq(BrokerOrders) /\ Len(b.broker) \in Nat
  BY DEF Submit, Books
<1> HIDE DEF work
<1>4. Len(c.broker) = Len(b.broker) + 1
  <2> DEFINE br == b.broker
             cr == c.broker
  <2>1. br \in Seq(BrokerOrders) /\ work \in BrokerOrders /\ cr = Append(br, work)
    BY <1>2, <1>3
  <2> HIDE DEF br, cr
  <2>2. Len(cr) = Len(br) + 1
    BY ONLY <2>1
  <2> QED BY <2>2 DEF br, cr
<1> DEFINE m == Len(b.broker)
<1>5. m \in Nat /\ Len(c.broker) = m + 1
  BY <1>3, <1>4
<1> HIDE DEF m
<1>6. Len(c.broker) # m /\ m + 1 # 0
  BY ONLY <1>5
<1> QED
  BY <1>1, <1>6 DEF SubmitEffect, Refused, Accepted, None, m

\* A position whose only open order is a trailing stop, if any, is closed: the stop is
\* cancelled, and the exit is for all there is.
TrailOnly(b, k) ==
    \A i \in OpenRows(b) :
       b.orders[i].key = k => /\ b.orders[i].role = "trail_stop"
                              /\ b.orders[i].status \in InFlight
                              /\ Ticket(b, i).pending = 0

TrailsLeft(b, c, k) ==
    \A i \in OpenRows(c) :
       \/ i \in OpenRows(b) /\ SameJob(c.orders[i], b.orders[i]) /\ b.orders[i].key # k
       \/ c.orders[i].role = "exit" /\ c.orders[i].key = k

Closes(b, c, k, exitOk) ==
    /\ Linked(c) /\ Ledger(c, pos) /\ TrailsWork(c, None)
    /\ TrailsLeft(b, c, k)
    /\ \A l : Stays(c, pos, l) => Stays(b, pos, l)
    /\ exitOk => ~Stays(c, pos, k)

LEMMA CloseLedger ==
    ASSUME NEW b, Linked(b), Ledger(b, pos), TrailsWork(b, None), NEW sig \in Nat \ {0},
           NEW k \in PosKeys, pos[k] \in Nat \ {0}, NEW exitOk \in BOOLEAN, TrailOnly(b, k),
           NEW cancelOk \in BOOLEAN, cancelOk,
           NEW c, c = PlaceClose(b, sig, k, cancelOk, exitOk)
    PROVE  Closes(b, c, k, exitOk)
<1> DEFINE trails == Newest(ActiveTrails(b, k))
           d == CancelRows(b, trails, None, cancelOk)
           row == NewRow(sig, k, "exit", pos[k], None)
           n == Len(d.orders) + 1
<1>1. Linked(c) /\ b \in Books
  BY PlaceCloseLinks DEF Linked
<1>2. trails \subseteq {i \in DOMAIN b.orders : b.orders[i].role = "trail_stop"}
  BY DEF Newest, ActiveTrails, InFlightRows
<1>3. \A i \in OpenRows(b) : b.orders[i].key = k => i \in trails
  <2> SUFFICES ASSUME NEW i \in OpenRows(b), b.orders[i].key = k PROVE i \in trails
    OBVIOUS
  <2>1. i \in ActiveTrails(b, k)
    BY DEF ActiveTrails, InFlightRows, OpenRows, Owned, TrailOnly
  <2>2. ASSUME NEW j \in ActiveTrails(b, k) PROVE j = i
    <3>1. /\ j \in DOMAIN b.orders /\ b.orders[j].role = "trail_stop" /\ b.orders[j].key = k
          /\ b.orders[j].status \in InFlight
      BY DEF ActiveTrails, InFlightRows
    <3>2. j \in OpenRows(b)
      <4>1. b.orders \in Seq(OrderRows)
        BY <1>1 DEF Books
      <4>2. j # None
        BY <3>1, <4>1 DEF None
      <4> QED BY <3>1, <4>2 DEF TrailsWork
    <3>3. b.orders[i].role = "trail_stop"
      BY DEF TrailOnly
    <3> QED BY <3>1, <3>2, <3>3 DEF Ledger, Claims, Compatible
  <2>3. i \in Nat
    BY <1>1 DEF Books, OpenRows, Owned
  <2> QED BY <2>1, <2>2, <2>3 DEF Newest
<1> HIDE DEF trails
<1>4. /\ Linked(d) /\ d \in Books /\ CancelEffect(b, d, trails, None)
      /\ d.broker = AskCancel(b, trails, cancelOk)
  <2>1. trails \subseteq {i \in DOMAIN b.orders : b.orders[i].role # "exit"}
    BY <1>2
  <2>2. Linked(d)
    BY <2>1, CancelLinks DEF None
  <2>3. CancelEffect(b, d, trails, None)
    BY <1>1, <1>2, CancelReturns DEF None
  <2>4. d.broker = AskCancel(b, trails, cancelOk)
    BY DEF CancelRows
  <2> HIDE DEF d
  <2> QED BY <2>2, <2>3, <2>4 DEF Linked
<1>5. c = Submit(d, row, exitOk)
  BY DEF PlaceClose, trails
<1>6. /\ row \in OrderRows /\ row.fillQty = 0 /\ row.role = "exit" /\ row.signal = sig
      /\ row.key = k /\ row.qty = pos[k]
  <2>1. k \in OrderKeys
    BY PositionKeyTypes
  <2> QED BY <2>1, NewRowType DEF None, Roles, NewRow
<1> HIDE DEF d, row
<1>7. /\ DOMAIN d.orders = DOMAIN b.orders
      /\ \A i \in DOMAIN b.orders \ trails : d.orders[i] = b.orders[i]
      /\ \A i \in trails : CancelledRow(b.orders[i], d.orders[i])
  BY <1>4 DEF CancelEffect
<1>8. Typed(d)
  <2>1. d.broker \in Seq(BrokerOrders) /\ d.orders \in Seq(OrderRows)
    BY <1>4 DEF Books
  <2>2. DOMAIN d.broker = 1 .. Len(d.broker) /\ 1 \in Int /\ Len(d.broker) \in Int
    BY <2>1
  <2>3. IsFiniteSet(1 .. Len(d.broker))
    BY <2>2, FS_Interval
  <2> QED BY <2>1, <2>2, <2>3 DEF Typed, Tickets
<1>9. /\ Ledger(d, pos) /\ OpenRows(d) \subseteq OpenRows(b) /\ OpenRows(b) \ trails \subseteq OpenRows(d)
      /\ \A i \in trails \cap OpenRows(d) : Ticket(b, i).pending # 0
  <2>1. \A i \in DOMAIN b.orders : /\ d.orders[i].signal = b.orders[i].signal
                                   /\ d.orders[i].ibkr = b.orders[i].ibkr
                                   /\ d.orders[i].fillQty = b.orders[i].fillQty
                                   /\ SameJob(d.orders[i], b.orders[i])
    BY <1>7 DEF CancelledRow, SameJob
  <2>2. Asks(b, d, trails)
    BY <2>1, <1>4, <1>7 DEF Asks, AskCancel
  <2> QED BY <2>2, <1>2, <1>8, AskLedger
<1>10. \A i \in OpenRows(d) : /\ i \in OpenRows(b) /\ i \in DOMAIN b.orders
                              /\ SameJob(d.orders[i], b.orders[i])
                              /\ d.orders[i].key # k
  <2> SUFFICES ASSUME NEW i \in OpenRows(d)
               PROVE  /\ i \in OpenRows(b) /\ i \in DOMAIN b.orders
                      /\ SameJob(d.orders[i], b.orders[i]) /\ d.orders[i].key # k
    OBVIOUS
  <2>1. i \in OpenRows(b) /\ i \in DOMAIN b.orders
    BY <1>9 DEF OpenRows, Owned
  <2>2. SameJob(d.orders[i], b.orders[i])
    BY <2>1, <1>7 DEF CancelledRow, SameJob
  <2>3. b.orders[i].key # k
    <3> SUFFICES ASSUME b.orders[i].key = k PROVE FALSE
      OBVIOUS
    <3>1. Ticket(b, i).pending = 0
      BY <2>1 DEF TrailOnly
    <3> QED BY <3>1, <2>1, <1>3, <1>9
  <2> QED BY <2>1, <2>2, <2>3 DEF SameJob
<1>11. Ledger(c, pos) /\ \A l : Stays(c, pos, l) => Stays(d, pos, l)
  <2>1. row.qty <= pos[row.key] /\ row.signal # None /\ row.key \in PosKeys /\ row.role # "entry"
    BY <1>6 DEF None
  <2>2. \A i \in OpenRows(d) : d.orders[i].key # row.key
    BY <1>6, <1>10
  <2>3. Fits(d, pos, row)
    BY <2>1, <2>2 DEF Fits
  <2> QED BY <2>1, <2>3, <1>4, <1>5, <1>6, <1>9, LedgerAdded
<1>12. /\ n \notin DOMAIN d.orders /\ DOMAIN c.orders = DOMAIN d.orders \cup {n}
       /\ \A i \in DOMAIN d.orders : c.orders[i] = d.orders[i]
       /\ OpenRows(c) = IF c.orders[n].ibkr = None THEN OpenRows(d) ELSE OpenRows(d) \cup {n}
       /\ SameJob(c.orders[n], row)
  <2>1. SubmitEffect(d, c, row)
    BY <1>4, <1>5, <1>6, SubmitReturns
  <2>2. Owners(d) /\ row.signal # None /\ row.key \in PosKeys
    BY <1>6, <1>9 DEF Ledger, None
  <2>3. n = Len(d.orders) + 1
    OBVIOUS
  <2> HIDE DEF n
  <2>4. /\ d \in Books /\ Owners(d) /\ row \in OrderRows /\ row.signal # None
        /\ row.fillQty = 0 /\ row.key \in PosKeys /\ SubmitEffect(d, c, row)
        /\ n = Len(d.orders) + 1
    BY <2>1, <2>2, <2>3, <1>4, <1>6
  <2> QED BY ONLY <2>4, OwnersSubmit
<1>13. \A l : Stays(d, pos, l) => Stays(b, pos, l)
  <2>1. ASSUME NEW i \in OpenRows(b), b.orders[i].role = "exit"
        PROVE  i \in OpenRows(d) /\ SameJob(d.orders[i], b.orders[i])
    BY <2>1, <1>2, <1>9, <1>10
  <2> QED BY <2>1, <1>10 DEF Stays, SameJob
<1>14. TrailsWork(c, None)
  <2> SUFFICES ASSUME NEW i \in DOMAIN c.orders, c.orders[i].role = "trail_stop",
                      c.orders[i].status \in InFlight, i # None
               PROVE  i \in OpenRows(c)
    BY DEF TrailsWork
  <2>1. i \in DOMAIN d.orders /\ c.orders[i] = d.orders[i]
    BY <1>6, <1>12 DEF SameJob
  <2>2. i \notin trails /\ d.orders[i] = b.orders[i] /\ i \in DOMAIN b.orders
    BY <2>1, <1>7 DEF CancelledRow, InFlight
  <2>3. i \in OpenRows(b)
    BY <2>1, <2>2 DEF TrailsWork
  <2> QED BY <2>2, <2>3, <1>9, <1>12
<1>15. \A i \in OpenRows(c) :
          \/ i \in OpenRows(b) /\ SameJob(c.orders[i], b.orders[i]) /\ b.orders[i].key # k
          \/ c.orders[i].role = "exit" /\ c.orders[i].key = k
  <2> SUFFICES ASSUME NEW i \in OpenRows(c), i # n
               PROVE  i \in OpenRows(b) /\ SameJob(c.orders[i], b.orders[i]) /\ b.orders[i].key # k
    BY <1>6, <1>12 DEF SameJob
  <2>1. i \in OpenRows(d)
    BY <1>12
  <2> QED BY <2>1, <1>7, <1>10, <1>12 DEF SameJob
<1>16. ASSUME exitOk PROVE ~Stays(c, pos, k)
  <2>1. c.orders[n].ibkr # None
    BY <1>4, <1>5, <1>6, <1>16, SubmitTaken
  <2>2. n \in OpenRows(c) /\ c.orders[n].role = "exit" /\ c.orders[n].key = k /\ c.orders[n].qty = pos[k]
    BY <2>1, <1>6, <1>12 DEF SameJob
  <2>3. ASSUME NEW i \in OpenRows(c), c.orders[i].role = "entry", c.orders[i].key = k PROVE FALSE
    <3>1. SameJob(c.orders[i], b.orders[i]) /\ b.orders[i].key # k
      BY <2>3, <1>15
    <3> QED BY <3>1, <2>3 DEF SameJob
  <2> QED BY <2>2, <2>3 DEF Stays
<1>17. TrailsLeft(b, c, k)
  BY <1>15 DEF TrailsLeft
<1> QED
  BY <1>1, <1>11, <1>13, <1>14, <1>16, <1>17 DEF Closes

----------------------------------------------------------------------------
(* The state of the book: the exit that has been placed already counts,     *)
(* though its id is not written yet.                                        *)

Patch(os, x) ==
    [i \in DOMAIN os |-> IF \E e \in x : e.row = i
                         THEN [os[i] EXCEPT !.ibkr = (CHOOSE e \in x : e.row = i).ibkr]
                         ELSE os[i]]

WithExits == [orders |-> Patch(orders, exit), broker |-> broker]

LEMMA PatchReturns ==
    ASSUME NEW os \in Seq(OrderRows), NEW x, \A e, f \in x : e = f,
           \A e \in x : /\ e.row \in DOMAIN os /\ e.ibkr \in Nat
                        /\ os[e.row].ibkr \in {None, e.ibkr},
           NEW ps, ps = Patch(os, x)
    PROVE  /\ DOMAIN ps = DOMAIN os /\ ps \in Seq(OrderRows) /\ Len(ps) = Len(os)
           /\ \A i \in DOMAIN os : /\ ps[i].signal = os[i].signal /\ ps[i].fillQty = os[i].fillQty
                                   /\ ps[i].status = os[i].status /\ SameJob(ps[i], os[i])
                                   /\ os[i].ibkr # None => ps[i] = os[i]
                                   /\ ps[i] # os[i] => \E e \in x : e.row = i
           /\ \A e \in x : ps[e.row] = [os[e.row] EXCEPT !.ibkr = e.ibkr]
                           /\ ps[e.row].ibkr = e.ibkr
<1>1. DOMAIN os = 1 .. Len(os) /\ Len(os) \in Nat /\ DOMAIN ps = DOMAIN os
  BY DEF Patch
<1>2. ASSUME NEW e \in x
      PROVE  ps[e.row] = [os[e.row] EXCEPT !.ibkr = e.ibkr] /\ ps[e.row].ibkr = e.ibkr
  <2>1. (CHOOSE f \in x : f.row = e.row) = e
    <3>1. (CHOOSE f \in x : f.row = e.row) \in x
      BY Zenon
    <3> QED BY <3>1
  <2>2. ps[e.row] = [os[e.row] EXCEPT !.ibkr = e.ibkr]
    BY <2>1 DEF Patch
  <2>3. os[e.row] \in OrderRows
    OBVIOUS
  <2> QED BY <2>2, <2>3 DEF OrderRows
<1>3. ASSUME NEW i \in DOMAIN os
      PROVE  /\ ps[i] \in OrderRows
             /\ ps[i].signal = os[i].signal /\ ps[i].fillQty = os[i].fillQty
             /\ ps[i].status = os[i].status /\ SameJob(ps[i], os[i])
             /\ os[i].ibkr # None => ps[i] = os[i]
             /\ ps[i] # os[i] => \E e \in x : e.row = i
  <2>1. os[i] \in OrderRows
    OBVIOUS
  <2>2. CASE \E e \in x : e.row = i
    <3>1. PICK e \in x : e.row = i
      BY <2>2
    <3> DEFINE o == os[i]
               p == ps[i]
    <3>2. p = [o EXCEPT !.ibkr = e.ibkr] /\ o \in OrderRows /\ e.ibkr \in Nat
          /\ o.ibkr \in {None, e.ibkr}
      BY <1>2, <2>1, <3>1
    <3> HIDE DEF o, p
    <3>3. /\ p \in OrderRows /\ p.signal = o.signal /\ p.fillQty = o.fillQty
          /\ p.status = o.status /\ SameJob(p, o) /\ (o.ibkr = e.ibkr => p = o)
      BY <3>2 DEF OrderRows, SameJob
    <3> QED BY <3>2, <3>3, <2>2 DEF o, p
  <2>3. CASE ~\E e \in x : e.row = i
    <3>1. ps[i] = os[i]
      BY <2>3 DEF Patch
    <3> QED BY <2>1, <3>1 DEF SameJob
  <2> QED BY <2>2, <2>3
<1>4. ps \in Seq(OrderRows) /\ Len(ps) = Len(os)
  <2>1. ps = [i \in 1 .. Len(os) |-> ps[i]]
    BY <1>1 DEF Patch
  <2>2. ps \in [1 .. Len(os) -> OrderRows]
    BY <1>1, <1>3, <2>1
  <2> QED BY <1>1, <2>2, FunctionIsSeq
<1> QED
  BY <1>1, <1>2, <1>3, <1>4

LEMMA PatchNothing ==
    ASSUME NEW os \in Seq(OrderRows), NEW x,
           \A e \in x : e.row \in DOMAIN os => os[e.row].ibkr = e.ibkr,
           \A e, f \in x : e = f
    PROVE  Patch(os, x) = os
<1>1. ASSUME NEW i \in DOMAIN os
      PROVE  (IF \E e \in x : e.row = i
              THEN [os[i] EXCEPT !.ibkr = (CHOOSE e \in x : e.row = i).ibkr]
              ELSE os[i]) = os[i]
  <2>1. CASE \E e \in x : e.row = i
    <3>1. PICK e \in x : e.row = i
      BY <2>1
    <3>2. (CHOOSE f \in x : f.row = i) = e
      <4>1. (CHOOSE f \in x : f.row = i) \in x
        BY <2>1, Zenon
      <4> QED BY <4>1
    <3>3. os[i].ibkr = e.ibkr /\ os[i] \in OrderRows
      BY <3>1
    <3>4. [os[i] EXCEPT !.ibkr = e.ibkr] = os[i]
      BY <3>3 DEF OrderRows
    <3> QED BY <2>1, <3>2, <3>4
  <2>2. CASE ~\E e \in x : e.row = i
    BY <2>2
  <2> QED BY <2>1, <2>2
<1>2. Patch(os, x) = [i \in DOMAIN os |-> os[i]]
  BY <1>1 DEF Patch
<1>3. os = [i \in DOMAIN os |-> os[i]]
  OBVIOUS
<1> QED
  BY <1>2, <1>3

NoneOpen(b, role) == \A i \in OpenRows(b) : b.orders[i].role # role

OneHeld(p) ==
    \A k, l \in PosKeys : k.symbol = l.symbol /\ p[k] > 0 /\ p[l] > 0 => k = l

\* The exit in progress has a row, whose id is written or not.
ExitSound ==
    /\ stage # "positions" => exit = {}
    /\ \A e, f \in exit : e = f
    /\ \A e \in exit : LET o == orders[e.row]
                       IN  /\ o.ibkr \in {None, e.ibkr} /\ o.signal # None
                           /\ o.role = "exit" /\ o.key = e.key

\* What may still fill, stage by stage: entries in normal trading only, trailing stops
\* until the sequence has cancelled them, exits that close what the query returned.
ClosingSound ==
    LET b == WithExits
    IN  /\ stage # "normal" => NoneOpen(b, "entry") /\ OneHeld(pos)
        /\ stage \in {"pre_close", "trails", "trails_done"} => NoneOpen(b, "exit")
        /\ stage \in {"pre_close", "trails"} =>
              \A i \in Owned(b) : b.orders[i].role = "trail_stop" => Ticket(b, i).pending = 0
        /\ stage = "trails" =>
              \A i \in OpenRows(b) : b.orders[i].role = "trail_stop" => i \in todo
        /\ stage \notin {"normal", "pre_close", "trails"} => NoneOpen(b, "trail_stop")
        /\ stage = "positions" =>
              \A x \in todo : /\ pos[x.key] = x.qty
                              /\ \A i \in OpenRows(b) : b.orders[i].role = "exit"
                                                        => b.orders[i].key # x.key

SyncInv ==
    /\ Ledger(WithExits, pos)
    /\ TrailsWork(WithExits, stale)
    /\ \A k \in PosKeys : pos[k] > 0 => k \in posRows
    /\ ExitSound
    /\ ClosingSound

LEMMA ExitTypes ==
    ASSUME MInv
    PROVE  /\ \A e \in exit : e.row \in DOMAIN orders /\ e.ibkr \in DOMAIN broker
                              /\ e.ibkr \in Nat \ {0} /\ e.key \in PosKeys
           /\ orders \in Seq(OrderRows) /\ broker \in Seq(BrokerOrders)
           /\ DOMAIN broker = 1 .. Len(broker) /\ Len(broker) \in Nat
           /\ DOMAIN orders = 1 .. Len(orders) /\ Len(orders) \in Nat
           /\ pos \in [PosKeys -> Nat]
<1>1. /\ exit \subseteq [key : PosKeys, row : DOMAIN orders, ibkr : DOMAIN broker]
      /\ orders \in Seq(OrderRows) /\ broker \in Seq(BrokerOrders)
      /\ pos \in [PosKeys -> Nat]
  BY DEF MInv, CycleInv, MTypeOK, TypeOK
<1>2. DOMAIN broker = 1 .. Len(broker) /\ Len(broker) \in Nat
      /\ DOMAIN orders = 1 .. Len(orders) /\ Len(orders) \in Nat
  BY <1>1
<1> QED
  BY <1>1, <1>2

LEMMA StateBook ==
    ASSUME MInv, ExitSound
    PROVE  /\ WithExits.broker = broker /\ DOMAIN WithExits.orders = DOMAIN orders
           /\ WithExits \in Books
           /\ \A i \in DOMAIN orders :
                 /\ WithExits.orders[i].signal = orders[i].signal
                 /\ WithExits.orders[i].fillQty = orders[i].fillQty
                 /\ WithExits.orders[i].status = orders[i].status
                 /\ SameJob(WithExits.orders[i], orders[i])
                 /\ orders[i].ibkr # None => WithExits.orders[i] = orders[i]
                 /\ WithExits.orders[i] # orders[i] => \E e \in exit : e.row = i
           /\ \A e \in exit : WithExits.orders[e.row].ibkr = e.ibkr
           /\ exit = {} => WithExits = Book
<1> DEFINE ps == Patch(orders, exit)
<1>1. /\ WithExits.orders = ps /\ WithExits.broker = broker
      /\ WithExits = [orders |-> ps, broker |-> broker]
  BY DEF WithExits
<1>2. /\ \A e \in exit : /\ e.row \in DOMAIN orders /\ e.ibkr \in Nat
                         /\ orders[e.row].ibkr \in {None, e.ibkr}
      /\ \A e, f \in exit : e = f
      /\ orders \in Seq(OrderRows) /\ broker \in Seq(BrokerOrders)
  BY ExitTypes DEF ExitSound
<1>3. ps = Patch(orders, exit)
  OBVIOUS
<1> HIDE DEF ps
<1>4. /\ DOMAIN ps = DOMAIN orders /\ ps \in Seq(OrderRows) /\ Len(ps) = Len(orders)
      /\ \A i \in DOMAIN orders :
             /\ ps[i].signal = orders[i].signal /\ ps[i].fillQty = orders[i].fillQty
             /\ ps[i].status = orders[i].status /\ SameJob(ps[i], orders[i])
             /\ orders[i].ibkr # None => ps[i] = orders[i]
             /\ ps[i] # orders[i] => \E e \in exit : e.row = i
      /\ \A e \in exit : ps[e.row] = [orders[e.row] EXCEPT !.ibkr = e.ibkr]
                         /\ ps[e.row].ibkr = e.ibkr
  BY <1>2, <1>3, PatchReturns
<1>5. WithExits \in Books
  BY <1>1, <1>2, <1>4 DEF Books
<1>6. exit = {} => WithExits = Book
  <2> SUFFICES ASSUME exit = {} PROVE WithExits = Book
    OBVIOUS
  <2>1. ps = orders
    BY <1>2, <1>3, PatchNothing
  <2> QED BY <1>1, <2>1 DEF Book
<1> QED
  BY <1>1, <1>4, <1>5, <1>6

\* An order executes or its cancellation takes effect: it may fill as long as before.
LEMMA OrderSync ==
    ASSUME MInv, SyncInv, NEW j \in DOMAIN broker, NEW br \in BrokerOrders,
           broker' = [broker EXCEPT ![j] = br],
           UNCHANGED <<orders, pos, posRows, cycleVars>>,
           br.symbol = broker[j].symbol, br.side = broker[j].side, br.qty = broker[j].qty,
           br.lost = broker[j].lost, br.cancel = broker[j].cancel,
           br.executed - br.pending = broker[j].executed - broker[j].pending,
           br.executed <= br.qty, ~Dead(broker[j]),
           MayFill(br) <=> MayFill(broker[j]),
           (\E i \in DOMAIN orders : orders[i].ibkr = j /\ orders[i].role = "trail_stop")
               /\ stage \in {"pre_close", "trails"} => br.pending = broker[j].pending
    PROVE  SyncInv'
<1> DEFINE b == WithExits
           c == WithExits'
           old == broker[j]
<1>1. /\ b.broker = broker /\ DOMAIN b.orders = DOMAIN orders /\ b \in Books
      /\ exit = {} => b = Book
  BY StateBook DEF SyncInv
<1>2. c.orders = b.orders /\ c.broker = broker'
  BY DEF WithExits, cycleVars
<1>3. /\ broker \in Seq(BrokerOrders) /\ DOMAIN c.broker = DOMAIN b.broker
      /\ c.broker[j] = br /\ old \in BrokerOrders
      /\ \A l \in DOMAIN broker \ {j} : c.broker[l] = b.broker[l]
      /\ DOMAIN broker = 1 .. Len(broker) /\ Len(broker) \in Nat
  BY <1>1, <1>2, ExitTypes
<1>4. /\ br.executed \in Nat /\ br.pending \in Nat /\ old.executed \in Nat /\ old.pending \in Nat
  BY <1>3 DEF BrokerOrders
<1>5. Told(br) = Told(old)
  BY DEF Told
<1> HIDE DEF b, c, old
<1>6. Ledger(b, pos) /\ TrailsWork(b, stale)
  BY DEF SyncInv, b
<1>7. Owners(b) /\ Typed(b)
  BY <1>6 DEF Ledger, Owners
<1>8. Typed(c)
  BY <1>1, <1>2, <1>3, <1>7 DEF Typed, Tickets
<1>9. ASSUME NEW i \in Owned(b)
      PROVE  /\ Serves(c.orders[i], Ticket(c, i)) /\ i \in DOMAIN b.orders
             /\ MayFill(Ticket(c, i)) <=> MayFill(Ticket(b, i))
             /\ b.orders[i].ibkr # j => Ticket(c, i) = Ticket(b, i)
  <2>1. Serves(b.orders[i], Ticket(b, i)) /\ b.orders[i].ibkr \in DOMAIN b.broker
        /\ i \in DOMAIN b.orders /\ b.orders[i] \in OrderRows
    BY <1>7 DEF Owners, Owned, Typed
  <2>2. CASE b.orders[i].ibkr = j
    <3> DEFINE o == b.orders[i]
    <3>1. Ticket(b, i) = old /\ Ticket(c, i) = br /\ c.orders[i] = o
      BY <1>1, <1>2, <1>3, <2>2 DEF Ticket, old
    <3>2. Serves(o, old) /\ o.fillQty \in Nat
      BY <2>1, <3>1 DEF OrderRows
    <3> HIDE DEF o
    <3>3. o.fillQty + br.pending <= br.executed
      <4>1. o.fillQty + old.pending <= old.executed
            /\ br.executed - br.pending = old.executed - old.pending
        BY <3>2 DEF Serves, old
      <4> QED BY <4>1, <3>2, <1>4
    <3>4. Serves(o, br)
      BY <3>2, <3>3 DEF Serves, old
    <3>5. MayFill(br) <=> MayFill(old)
      BY DEF old
    <3> QED BY <3>1, <3>4, <3>5, <2>1, <2>2
  <2>3. CASE b.orders[i].ibkr # j
    <3>1. Ticket(c, i) = Ticket(b, i) /\ c.orders[i] = b.orders[i]
      BY <1>1, <1>2, <1>3, <2>1, <2>3 DEF Ticket
    <3> QED BY <3>1, <2>1
  <2> QED BY <2>2, <2>3
<1>10. \A l \in DOMAIN b.broker :
          /\ Dead(b.broker[l]) => Dead(c.broker[l])
          /\ c.broker[l].symbol = b.broker[l].symbol
          /\ Told(c.broker[l]) = Told(b.broker[l])
          /\ MayFill(c.broker[l]) => MayFill(b.broker[l])
  <2> TAKE l \in DOMAIN b.broker
  <2>1. CASE l = j
    BY <2>1, <1>1, <1>3, <1>5 DEF old
  <2>2. CASE l # j
    BY <2>2, <1>1, <1>3
  <2> QED BY <2>1, <2>2
<1>11. Ledger(c, pos) /\ Owned(c) = Owned(b)
  <2>1. \A i \in DOMAIN b.orders : /\ c.orders[i].signal = b.orders[i].signal
                                   /\ c.orders[i].ibkr = b.orders[i].ibkr
                                   /\ SameJob(c.orders[i], b.orders[i])
    BY <1>2 DEF SameJob
  <2>2. \A i \in Owned(b) : Serves(c.orders[i], Ticket(c, i))
    BY <1>9
  <2>3. \A i \in OpenRows(b) : b.orders[i].role = "exit" => MayFill(Ticket(c, i))
    BY <1>9 DEF OpenRows
  <2>4. DOMAIN c.orders = DOMAIN b.orders
    BY <1>2
  <2>5. /\ Ledger(b, pos) /\ Typed(c) /\ DOMAIN c.broker = DOMAIN b.broker
        /\ DOMAIN c.orders = DOMAIN b.orders
        /\ \A i \in DOMAIN b.orders : /\ c.orders[i].signal = b.orders[i].signal
                                      /\ c.orders[i].ibkr = b.orders[i].ibkr
                                      /\ SameJob(c.orders[i], b.orders[i])
        /\ \A i \in Owned(b) : Serves(c.orders[i], Ticket(c, i))
        /\ \A i \in OpenRows(b) : b.orders[i].role = "exit" => MayFill(Ticket(c, i))
    BY <1>3, <1>6, <1>8, <2>1, <2>2, <2>3, <2>4
  <2> QED BY ONLY <2>5, <1>10, LedgerKept
<1>12. OpenRows(c) = OpenRows(b)
  BY <1>9, <1>11 DEF OpenRows
<1>13. pos' = pos /\ posRows' = posRows /\ stage' = stage /\ todo' = todo /\ stale' = stale
       /\ exit' = exit /\ orders' = orders
  BY DEF cycleVars
<1>14. Ledger(WithExits, pos)' /\ TrailsWork(WithExits, stale)'
  <2>1. TrailsWork(c, stale)
    BY <1>2, <1>6, <1>12 DEF TrailsWork
  <2> QED BY <1>11, <1>13, <2>1 DEF c
<1>15. (\A k \in PosKeys : pos[k] > 0 => k \in posRows)' /\ ExitSound'
  BY <1>13 DEF SyncInv, ExitSound
<1>16. ClosingSound'
  <2>1. /\ stage # "normal" => NoneOpen(c, "entry") /\ OneHeld(pos)
        /\ stage \in {"pre_close", "trails", "trails_done"} => NoneOpen(c, "exit")
        /\ stage = "trails" =>
              \A i \in OpenRows(c) : c.orders[i].role = "trail_stop" => i \in todo
        /\ stage \notin {"normal", "pre_close", "trails"} => NoneOpen(c, "trail_stop")
        /\ stage = "positions" =>
              \A x \in todo : /\ pos[x.key] = x.qty
                              /\ \A i \in OpenRows(c) : c.orders[i].role = "exit"
                                                        => c.orders[i].key # x.key
    BY <1>2, <1>12 DEF SyncInv, ClosingSound, NoneOpen, b
  <2>2. ASSUME stage \in {"pre_close", "trails"}, NEW i \in Owned(c),
               c.orders[i].role = "trail_stop"
        PROVE  Ticket(c, i).pending = 0
    <3>1. i \in Owned(b) /\ b.orders[i] = c.orders[i] /\ i \in DOMAIN orders
      BY <2>2, <1>1, <1>2, <1>9, <1>11
    <3>2. b.orders = orders
      BY <2>2, <1>1 DEF SyncInv, ExitSound, Book
    <3>3. Ticket(b, i).pending = 0
      BY <2>2, <3>1 DEF SyncInv, ClosingSound, b
    <3>4. CASE b.orders[i].ibkr = j
      <4>1. Ticket(b, i) = old /\ Ticket(c, i) = br
        BY <1>1, <1>2, <1>3, <3>4 DEF Ticket, old
      <4>2. br.pending = old.pending
        BY <2>2, <3>1, <3>2, <3>4 DEF old
      <4> QED BY <3>3, <4>1, <4>2
    <3>5. CASE b.orders[i].ibkr # j
      BY <3>1, <3>3, <3>5, <1>9
    <3> QED BY <3>4, <3>5
  <2>3. /\ stage' = stage /\ todo' = todo /\ pos' = pos /\ WithExits' = c
    BY <1>13 DEF c
  <2> HIDE DEF c
  <2> QED BY <2>1, <2>2, <2>3 DEF ClosingSound, OneHeld
<1> QED
  BY <1>14, <1>15, <1>16 DEF SyncInv

LEMMA ExecuteSync ==
    ASSUME MInv, QuietInv, SyncInv, NEW j \in DOMAIN broker, NEW q, Execute(j, q),
           broker[j].cancel # "asked",
           Cycling => ~\E i \in DOMAIN orders : orders[i].ibkr = j /\ orders[i].role = "trail_stop",
           UNCHANGED cycleVars
    PROVE  SyncInv'
<1> DEFINE old == broker[j]
           br == [old EXCEPT !.executed = @ + q, !.pending = @ + q,
                             !.live = old.executed + q < old.qty]
<1>1. broker \in Seq(BrokerOrders) /\ old \in BrokerOrders
  BY ExitTypes
<1>2. old.live /\ connected /\ q \in Chunks(old.qty - old.executed) /\ old.executed <= old.qty
  <2>1. OrderLinked(old)
    BY DEF MInv, RouterInv, Linked, Book
  <2> QED BY <2>1 DEF Execute, QuietInv, QuietCycle, OrderLinked
<1>3. /\ old.executed \in Nat /\ old.pending \in Nat /\ old.qty \in Nat
      /\ q \in Nat \ {0} /\ q <= old.qty - old.executed
  <2> DEFINE n == old.qty - old.executed
  <2>1. old.executed \in Nat /\ old.pending \in Nat /\ old.qty \in Nat /\ n \in Nat
    BY <1>1, <1>2 DEF BrokerOrders
  <2> HIDE DEF n
  <2>2. q \in Chunks(n)
    BY <1>2 DEF n
  <2>3. q \in Nat \ {0} /\ q <= n
    BY <2>1, <2>2, ChunkType
  <2> QED BY <2>1, <2>3 DEF n
<1>4. broker' = [broker EXCEPT ![j] = br]
  BY <1>1, <1>2 DEF Execute, BrokerOrders
<1>5. /\ br \in BrokerOrders
      /\ br.symbol = old.symbol /\ br.side = old.side /\ br.qty = old.qty
      /\ br.lost = old.lost /\ br.cancel = old.cancel
      /\ br.executed = old.executed + q /\ br.pending = old.pending + q
  <2> DEFINE done == old.executed + q
             waiting == old.pending + q
             open == done < old.qty
  <2>1. done \in Nat /\ waiting \in Nat /\ open \in BOOLEAN
    BY <1>3
  <2>2. br = [old EXCEPT !.executed = done, !.pending = waiting, !.live = open]
    OBVIOUS
  <2> HIDE DEF old, br, done, waiting, open
  <2>3. /\ br \in BrokerOrders
        /\ br.symbol = old.symbol /\ br.side = old.side /\ br.qty = old.qty
        /\ br.lost = old.lost /\ br.cancel = old.cancel
        /\ br.executed = done /\ br.pending = waiting
    BY <1>1, <2>1, <2>2 DEF BrokerOrders
  <2> QED BY <2>3 DEF done, waiting
<1> HIDE DEF br, old
<1>6. /\ br.executed - br.pending = old.executed - old.pending
      /\ br.executed <= br.qty /\ br.pending > 0
  BY <1>3, <1>5
<1>7. ~Dead(old) /\ MayFill(br) /\ MayFill(old)
  BY <1>2, <1>6 DEF Dead, MayFill, old
<1>8. stage \in {"pre_close", "trails"} => Cycling
  BY DEF Cycling
<1>9. UNCHANGED <<orders, pos, posRows>>
  BY DEF Execute, dbVars
<1> QED
  BY <1>4, <1>5, <1>6, <1>7, <1>8, <1>9, OrderSync DEF old

LEMMA ConfirmSync ==
    ASSUME MInv, SyncInv, NEW j \in DOMAIN broker, ConfirmCancel(j), UNCHANGED cycleVars
    PROVE  SyncInv'
<1> DEFINE old == broker[j]
           br == [old EXCEPT !.live = FALSE]
<1>1. broker \in Seq(BrokerOrders) /\ old \in BrokerOrders
  BY ExitTypes
<1>2. old.live /\ old.cancel = "asked" /\ old.executed <= old.qty
  <2>1. OrderLinked(old)
    BY DEF MInv, RouterInv, Linked, Book
  <2> QED BY <2>1 DEF ConfirmCancel, OrderLinked
<1>3. broker' = [broker EXCEPT ![j] = br]
  BY <1>1 DEF ConfirmCancel
<1>4. /\ br \in BrokerOrders
      /\ br.symbol = old.symbol /\ br.side = old.side /\ br.qty = old.qty
      /\ br.lost = old.lost /\ br.cancel = old.cancel
      /\ br.executed = old.executed /\ br.pending = old.pending
  <2> HIDE DEF old
  <2> QED BY <1>1 DEF BrokerOrders
<1> HIDE DEF br, old
<1>5. br.executed - br.pending = old.executed - old.pending /\ br.executed <= br.qty
  BY <1>2, <1>4
<1>6. ~Dead(old) /\ (MayFill(br) <=> MayFill(old))
  BY <1>2, <1>4 DEF Dead, MayFill, old
<1>7. UNCHANGED <<orders, pos, posRows>>
  BY DEF ConfirmCancel, dbVars
<1> QED
  BY <1>3, <1>4, <1>5, <1>6, <1>7, OrderSync DEF old

----------------------------------------------------------------------------
(* Steps that leave the book as it is.                                      *)

\* With nothing on its way, all that may fill is a trailing stop, in flight in the
\* database too, so that a key stays exactly when it has a position.
LEMMA SettledBook ==
    ASSUME MInv, SyncInv, Settled, stage = "normal"
    PROVE  /\ WithExits = Book /\ exit = {}
           /\ Linked(Book) /\ Ledger(Book, pos)
           /\ \A i \in OpenRows(Book) : /\ orders[i].role = "trail_stop"
                                        /\ orders[i].status \in InFlight
           /\ \A i \in Owned(Book) : Ticket(Book, i).pending = 0
           /\ \A k \in PosKeys : Stays(Book, pos, k) <=> pos[k] > 0
<1>1. exit = {} /\ WithExits = Book /\ Linked(Book) /\ Ledger(Book, pos)
  <2>1. exit = {}
    BY DEF SyncInv, ExitSound
  <2>2. WithExits = Book
    BY <2>1, StateBook DEF SyncInv
  <2> QED BY <2>1, <2>2 DEF SyncInv, MInv, RouterInv
<1>2. Owners(Book) /\ Book.orders = orders /\ Book.broker = broker
  BY <1>1 DEF Ledger, Book
<1>3. \A i \in Owned(Book) : /\ i \in DOMAIN orders /\ orders[i].ibkr \in DOMAIN broker
                             /\ orders[i].signal # None /\ orders[i].ibkr # None
                             /\ Ticket(Book, i) = broker[orders[i].ibkr]
  BY <1>2 DEF Owners, Owned, Ticket
<1>4. \A i \in Owned(Book) : Ticket(Book, i).pending = 0
  BY <1>3 DEF Settled
<1>5. ASSUME NEW i \in OpenRows(Book)
      PROVE  orders[i].role = "trail_stop" /\ orders[i].status \in InFlight
  <2> DEFINE br == broker[orders[i].ibkr]
  <2>1. i \in Owned(Book) /\ MayFill(br)
    BY <1>3 DEF OpenRows
  <2>2. br.pending = 0 /\ br.live
    BY <2>1, <1>3, <1>4 DEF MayFill
  <2>3. br.cancel = "none"
    BY <2>1, <2>2, <1>3 DEF Settled
  <2>4. orders[i].role = "trail_stop"
    BY <2>1, <2>2, <1>3 DEF Settled
  <2>5. Placed(orders[i], br)
    BY <2>1, <1>1, <1>2, <1>3 DEF Linked
  <2> QED BY <2>2, <2>3, <2>4, <2>5 DEF Placed
<1>6. \A k \in PosKeys : Stays(Book, pos, k) <=> pos[k] > 0
  BY <1>2, <1>5 DEF Stays
<1> QED
  BY <1>1, <1>4, <1>5, <1>6

LEMMA SameBook ==
    ASSUME MInv, SyncInv, UNCHANGED <<orders, broker>>,
           exit' = exit \/ (exit' = {} /\ \A e \in exit : orders[e.row].ibkr # None)
    PROVE  WithExits' = WithExits
<1>1. CASE exit' = exit
  BY <1>1 DEF WithExits
<1>2. CASE exit' = {} /\ \A e \in exit : orders[e.row].ibkr # None
  <2>1. /\ \A e \in exit : e.row \in DOMAIN orders => orders[e.row].ibkr = e.ibkr
        /\ \A e, f \in exit : e = f
        /\ orders \in Seq(OrderRows)
    BY <1>2, ExitTypes DEF SyncInv, ExitSound
  <2>2. Patch(orders, exit) = orders
    BY <2>1, PatchNothing
  <2>3. Patch(orders, {}) = orders
    BY <2>1, PatchNothing
  <2> QED BY <1>2, <2>2, <2>3 DEF WithExits
<1> QED
  BY <1>1, <1>2

LEMMA SameBookSync ==
    ASSUME MInv, SyncInv, UNCHANGED <<orders, broker, pos, posRows, stale>>,
           exit' = exit \/ (exit' = {} /\ \A e \in exit : orders[e.row].ibkr # None),
           ExitSound', ClosingSound'
    PROVE  SyncInv'
<1>1. WithExits' = WithExits
  BY SameBook
<1>2. Ledger(WithExits, pos)' /\ TrailsWork(WithExits, stale)'
      /\ (\A k \in PosKeys : pos[k] > 0 => k \in posRows)'
  BY <1>1 DEF SyncInv
<1> QED
  BY <1>2 DEF SyncInv

LEMMA EnterPreCloseSync ==
    ASSUME MInv, SyncInv, Settled, EnterPreClose
    PROVE  SyncInv'
<1>1. /\ stage = "normal" /\ stage' = "pre_close" /\ exit' = exit
      /\ UNCHANGED <<orders, broker, pos, posRows, stale>>
  BY DEF EnterPreClose, vars
<1>2. /\ exit = {} /\ \A i \in OpenRows(Book) : Book.orders[i].role = "trail_stop"
      /\ \A i \in Owned(Book) : Ticket(Book, i).pending = 0
      /\ \A k \in PosKeys : pos[k] > 0 => Stays(Book, pos, k)
      /\ OneStays(Book, pos) /\ WithExits' = Book
  <2>1. WithExits' = WithExits
    BY <1>1, SameBook
  <2> QED BY <2>1, <1>1, SettledBook DEF Ledger, Book
<1>3. ExitSound'
  BY <1>1, <1>2 DEF ExitSound
<1>4. OneHeld(pos)
  BY <1>2 DEF OneHeld, OneStays
<1>5. ClosingSound'
  BY <1>1, <1>2, <1>4 DEF ClosingSound, NoneOpen, OneHeld
<1> QED
  BY <1>1, <1>3, <1>5, SameBookSync

\* Trailing stops that may fill are in flight, so that the query finds them.
LEMMA ReadTrailsSync ==
    ASSUME MInv, SyncInv, ReadTrails
    PROVE  SyncInv'
<1>1. /\ stage = "pre_close" /\ stage' = "trails" /\ exit' = exit
      /\ todo' = InFlightIds("trail_stop")
      /\ UNCHANGED <<orders, broker, pos, posRows, stale>>
  BY DEF ReadTrails, Query, vars
<1>2. exit = {} /\ WithExits = Book /\ WithExits' = Book
  <2>1. WithExits' = WithExits
    BY <1>1, SameBook
  <2>2. exit = {}
    BY <1>1 DEF SyncInv, ExitSound
  <2> QED BY <2>1, <2>2, StateBook DEF SyncInv
<1>3. /\ Ledger(Book, pos) /\ Book.orders = orders /\ Book.broker = broker
      /\ NoneOpen(Book, "entry") /\ OneHeld(pos) /\ NoneOpen(Book, "exit")
      /\ \A i \in Owned(Book) : orders[i].role = "trail_stop" => Ticket(Book, i).pending = 0
  BY <1>1, <1>2 DEF SyncInv, ClosingSound, Book
<1>4. ASSUME NEW i \in OpenRows(Book), orders[i].role = "trail_stop"
      PROVE  i \in InFlightIds("trail_stop")
  <2> DEFINE br == Ticket(Book, i)
  <2>1. /\ i \in Owned(Book) /\ i \in DOMAIN orders /\ MayFill(br) /\ Serves(orders[i], br)
        /\ orders[i].signal # None /\ orders[i].ibkr # None
        /\ br = broker[orders[i].ibkr]
    BY <1>3 DEF OpenRows, Owned, Ledger, Owners, Ticket
  <2>2. br.pending = 0 /\ br.cancel # "failed" /\ br \in BrokerOrders
    BY <2>1, <1>3, <1>4 DEF Serves, Ledger, Owners, Typed, Tickets
  <2>3. br.live /\ br.cancel = "none"
    BY <2>1, <2>2 DEF MayFill, BrokerOrders
  <2>4. Placed(orders[i], br)
    BY <2>1, <1>3 DEF MInv, RouterInv, Linked
  <2>5. orders[i].status \in InFlight
    BY <2>3, <2>4 DEF Placed
  <2> QED BY <2>1, <2>5, <1>4 DEF InFlightIds
<1>5. ExitSound'
  BY <1>1, <1>2 DEF ExitSound
<1>6. ClosingSound'
  <2>1. \A i \in OpenRows(Book) : Book.orders[i].role = "trail_stop" => i \in todo'
    BY <1>1, <1>3, <1>4
  <2> QED BY <1>1, <1>2, <1>3, <2>1 DEF ClosingSound, OneHeld
<1> QED
  BY <1>1, <1>5, <1>6, SameBookSync

LEMMA StageSync ==
    ASSUME MInv, QuietInv, SyncInv,
           \/ Drained("trails", "trails_done") \/ ReadPositions
           \/ Drained("positions", "positions_done")
           \/ ReadEntries \/ Verify \/ StopWaiting \/ EnterMaintenance \/ ExitMaintenance
           \/ PassGate \/ QueuePassed
    PROVE  SyncInv'
<1>1. UNCHANGED <<orders, broker, pos, posRows, stale>>
  BY DEF Drained, ReadPositions, Query, ReadEntries, Verify, StopWaiting, EnterMaintenance,
         ExitMaintenance, PassGate, QueuePassed, AcceptSignal, Accept, vars, bookVars, dbVars
<1>2. exit' = exit \/ (exit' = {} /\ \A e \in exit : orders[e.row].ibkr # None)
  <2>1. CASE StopWaiting
    BY <2>1 DEF StopWaiting, SyncInv, ExitSound
  <2>2. CASE ~StopWaiting
    BY <2>2 DEF Drained, ReadPositions, Query, ReadEntries, Verify, EnterMaintenance,
         ExitMaintenance, PassGate, QueuePassed
  <2> QED BY <2>1, <2>2
<1>3. WithExits' = WithExits
  BY <1>1, <1>2, SameBook
<1>4. ExitSound /\ ClosingSound
  BY DEF SyncInv
<1>5. stage' # "positions" => exit' = {}
  BY <1>2, <1>4 DEF ExitSound, Drained, ReadPositions, Query, ReadEntries, Verify, StopWaiting,
         EnterMaintenance, ExitMaintenance, PassGate, QueuePassed
<1>6. ExitSound'
  BY <1>1, <1>2, <1>4, <1>5 DEF ExitSound
<1>7. ClosingSound'
  <2>1. CASE Drained("trails", "trails_done")
    <3>1. stage = "trails" /\ stage' = "trails_done" /\ todo = {}
      BY <2>1 DEF Drained
    <3> QED BY <3>1, <1>1, <1>3, <1>4 DEF ClosingSound, NoneOpen, OneHeld
  <2>2. CASE ReadPositions
    <3>1. stage = "trails_done" /\ stage' = "positions" /\ todo' = OpenPositions
      BY <2>2 DEF ReadPositions, Query
    <3>2. \A x \in todo' : pos[x.key] = x.qty
      BY <3>1 DEF OpenPositions
    <3> QED BY <3>1, <3>2, <1>1, <1>3, <1>4 DEF ClosingSound, NoneOpen, OneHeld
  <2>3. CASE Drained("positions", "positions_done")
    <3>1. stage = "positions" /\ stage' = "positions_done"
      BY <2>3 DEF Drained
    <3> QED BY <3>1, <1>1, <1>3, <1>4 DEF ClosingSound, OneHeld
  <2>4. CASE ReadEntries \/ Verify \/ EnterMaintenance
    <3>1. stage \in {"positions_done", "entries", "closed"}
          /\ stage' \in {"entries", "closed", "maintenance"}
      BY <2>4 DEF ReadEntries, Query, Verify, EnterMaintenance
    <3> QED BY <3>1, <1>1, <1>3, <1>4 DEF ClosingSound, OneHeld
  <2>5. CASE ExitMaintenance
    <3>1. stage' = "normal"
      BY <2>5 DEF ExitMaintenance
    <3> QED BY <3>1, <1>1, <1>3 DEF ClosingSound
  <2>6. CASE StopWaiting \/ PassGate \/ QueuePassed
    <3>1. stage' = stage /\ todo' = todo
      BY <2>6 DEF StopWaiting, PassGate, QueuePassed
    <3> QED BY <3>1, <1>1, <1>3, <1>4 DEF ClosingSound, OneHeld
  <2> QED BY <2>1, <2>2, <2>3, <2>4, <2>5, <2>6
<1> QED
  BY <1>1, <1>2, <1>6, <1>7, SameBookSync

----------------------------------------------------------------------------
(* The sequence's own writes.                                               *)

\* A trailing stop the broker was asked to cancel does not fill any more: nothing of it
\* was on its way.
LEMMA CancelOrderSync ==
    ASSUME MInv, MInv', QuietInv, SyncInv, NEW fail, "cancelSame" \notin fail, CancelOrder(fail)
    PROVE  SyncInv'
<1>1. /\ stage = "trails" /\ stale = None /\ exit = {} /\ exit' = exit /\ stage' = stage
      /\ UNCHANGED <<orders, pos, posRows>>
  BY DEF CancelOrder, dbVars, QuietInv, QuietCycle, SyncInv, ExitSound
<1>2. ExitSound'
  BY <1>1 DEF ExitSound
<1>3. WithExits = Book /\ WithExits' = Book' /\ Book.orders = orders /\ Book.broker = broker
      /\ Book'.orders = orders' /\ Book'.broker = broker'
  <2>1. WithExits = Book
    BY <1>1, StateBook DEF SyncInv
  <2>2. Patch(orders, {}) = orders
    BY ExitTypes, PatchNothing
  <2>3. WithExits' = Book'
    BY <1>1, <2>2 DEF WithExits, Book
  <2> QED BY <2>1, <2>3 DEF Book
<1>4. PICK i \in todo :
         /\ todo' = todo \ {i}
         /\ IF orders[i].ibkr = None
            THEN UNCHANGED <<broker, stale>>
            ELSE /\ broker' = AskCancel(Book, {i}, connected /\ "cancelSame" \notin fail)
                 /\ stale' = IF orders[i].status \in {"filled", "cancelled"} THEN None ELSE i
  BY DEF CancelOrder
<1>5. i \in DOMAIN orders /\ orders[i].role = "trail_stop" /\ i # None
  BY <1>1, ExitTypes DEF QuietInv, QuietCycle, IsTrail, MInv, CycleInv, MTypeOK, None
<1>6. /\ Ledger(Book, pos) /\ TrailsWork(Book, None) /\ NoneOpen(Book, "entry") /\ OneHeld(pos)
      /\ NoneOpen(Book, "exit")
      /\ \A l \in Owned(Book) : orders[l].role = "trail_stop" => Ticket(Book, l).pending = 0
      /\ \A l \in OpenRows(Book) : orders[l].role = "trail_stop" => l \in todo
  BY <1>1, <1>3 DEF SyncInv, ClosingSound
<1> DEFINE c == Book'
<1>7. /\ Ledger(c, pos) /\ Owned(c) = Owned(Book) /\ OpenRows(c) \subseteq OpenRows(Book) \ {i}
      /\ OpenRows(Book) \ {i} \subseteq OpenRows(c)
      /\ \A j \in DOMAIN broker : broker'[j].pending = broker[j].pending
      /\ \A l \in DOMAIN orders : /\ orders[l].role = "trail_stop" /\ orders[l].status \in InFlight
                                  /\ l # stale'
                                  => l \in OpenRows(c)
  <2>1. CASE orders[i].ibkr = None
    <3>1. c = Book /\ stale' = None /\ broker' = broker
      BY <1>1, <1>4, <2>1 DEF Book
    <3>2. i \notin OpenRows(Book)
      BY <2>1, <1>3 DEF OpenRows, Owned
    <3> QED BY <3>1, <3>2, <1>3, <1>6 DEF TrailsWork
  <2>2. CASE orders[i].ibkr # None
    <3>1. broker' = AskCancel(Book, {i}, TRUE)
      <4>1. connected /\ "cancelSame" \notin fail
        BY DEF QuietInv, QuietCycle
      <4> QED BY <4>1, <1>4, <2>2
    <3>2. Asks(Book, c, {i})
      BY <1>1, <1>3, <3>1 DEF Asks, AskCancel, SameJob
    <3>3. Typed(c)
      <4>1. broker' \in Seq(BrokerOrders) /\ orders' \in Seq(OrderRows)
        BY DEF MInv, CycleInv, MTypeOK, TypeOK
      <4>2. DOMAIN broker' = 1 .. Len(broker') /\ Len(broker') \in Int /\ 1 \in Int
        BY <4>1
      <4>3. IsFiniteSet(1 .. Len(broker'))
        BY <4>2, FS_Interval
      <4> QED BY <1>3, <4>1, <4>2, <4>3 DEF Typed, Tickets
    <3>4. {i} \subseteq {l \in DOMAIN Book.orders : Book.orders[l].role = "trail_stop"}
      BY <1>3, <1>5
    <3>5. /\ Ledger(c, pos) /\ Owned(c) = Owned(Book) /\ OpenRows(c) \subseteq OpenRows(Book)
          /\ OpenRows(Book) \ {i} \subseteq OpenRows(c)
          /\ \A l \in {i} \cap OpenRows(c) : Ticket(Book, l).pending # 0
      BY <1>6, <3>2, <3>3, <3>4, AskLedger
    <3>6. i \notin OpenRows(c)
      BY <3>5, <1>5, <1>6 DEF OpenRows
    <3>7. \A j \in DOMAIN broker : broker'[j].pending = broker[j].pending
      <4> TAKE j \in DOMAIN broker
      <4>1. broker[j] \in BrokerOrders
        BY ExitTypes
      <4>2. broker'[j] = broker[j] \/ broker'[j] = [broker[j] EXCEPT !.cancel = "asked"]
        BY <1>3, <3>2 DEF Asks
      <4> QED BY <4>1, <4>2 DEF BrokerOrders
    <3>8. ASSUME NEW l \in DOMAIN orders, orders[l].role = "trail_stop",
                 orders[l].status \in InFlight, l # stale'
          PROVE  l \in OpenRows(c)
      <4>1. l # i
        BY <3>8, <1>4, <2>2 DEF InFlight
      <4>2. l # None
        BY ExitTypes DEF None
      <4> QED BY <4>1, <4>2, <3>5, <3>8, <1>3, <1>6 DEF TrailsWork
    <3> QED BY <3>5, <3>6, <3>7, <3>8
  <2> QED BY <2>1, <2>2
<1> HIDE DEF c
<1>8. c.orders = orders /\ c.broker = broker' /\ WithExits' = c
  BY <1>1, <1>3 DEF c
<1>9. Ledger(WithExits, pos)' /\ TrailsWork(WithExits, stale)'
  BY <1>1, <1>7, <1>8 DEF TrailsWork
<1>10. ClosingSound'
  <2>1. \A l \in Owned(c) : c.orders[l].role = "trail_stop" => Ticket(c, l).pending = 0
    <3> SUFFICES ASSUME NEW l \in Owned(c), c.orders[l].role = "trail_stop"
                 PROVE  Ticket(c, l).pending = 0
      OBVIOUS
    <3>1. l \in Owned(Book) /\ Ticket(Book, l).pending = 0 /\ orders[l].ibkr \in DOMAIN broker
      BY <1>3, <1>6, <1>7, <1>8 DEF Ledger, Owners
    <3> QED BY <3>1, <1>3, <1>7, <1>8 DEF Ticket
  <2>2. /\ NoneOpen(c, "entry") /\ NoneOpen(c, "exit")
        /\ \A l \in OpenRows(c) : c.orders[l].role = "trail_stop" => l \in todo'
    BY <1>3, <1>4, <1>6, <1>7, <1>8 DEF NoneOpen
  <2> QED BY <2>1, <2>2, <1>1, <1>6, <1>8 DEF ClosingSound, OneHeld
<1> QED
  BY <1>1, <1>2, <1>9, <1>10 DEF SyncInv

LEMMA CancelCommitSync ==
    ASSUME MInv, MInv', QuietInv, SyncInv, CancelCommit
    PROVE  SyncInv'
<1>1. /\ stage = "trails" /\ stale # None /\ stale' = None /\ exit = {} /\ exit' = exit
      /\ stage' = stage /\ todo' = todo /\ UNCHANGED <<broker, pos, posRows>>
      /\ orders' = [orders EXCEPT ![stale].status = "cancelled"]
  BY DEF CancelCommit, dbVars, QuietInv, QuietCycle, SyncInv, ExitSound
<1>2. ExitSound'
  BY <1>1 DEF ExitSound
<1>3. WithExits = Book /\ WithExits' = Book' /\ Book.orders = orders /\ Book.broker = broker
      /\ Book'.orders = orders' /\ Book'.broker = broker
  <2>1. WithExits = Book
    BY <1>1, StateBook DEF SyncInv
  <2>2. Patch(orders', {}) = orders'
    <3>1. orders' \in Seq(OrderRows)
      BY DEF MInv, CycleInv, MTypeOK, TypeOK
    <3> QED BY <3>1, PatchNothing
  <2>3. WithExits' = Book'
    BY <1>1, <2>2 DEF WithExits, Book
  <2> QED BY <1>1, <2>1, <2>3 DEF Book
<1>4. stale \in DOMAIN orders
  <2>1. stale \in 0 .. Len(orders)
    BY DEF MInv, CycleInv, MTypeOK
  <2> QED BY <1>1, <2>1, ExitTypes DEF None
<1>5. /\ Ledger(Book, pos) /\ TrailsWork(Book, stale) /\ ClosingSound
  BY <1>3 DEF SyncInv
<1> DEFINE c == Book'
<1>6. /\ DOMAIN c.orders = DOMAIN orders /\ c.broker = broker
      /\ \A i \in DOMAIN orders : /\ c.orders[i].signal = orders[i].signal
                                  /\ c.orders[i].ibkr = orders[i].ibkr
                                  /\ c.orders[i].fillQty = orders[i].fillQty
                                  /\ SameJob(c.orders[i], orders[i])
                                  /\ i # stale => c.orders[i].status = orders[i].status
      /\ c.orders[stale].status = "cancelled"
  <2>1. ASSUME NEW i \in DOMAIN orders
        PROVE  /\ orders'[i].signal = orders[i].signal
               /\ orders'[i].ibkr = orders[i].ibkr
               /\ orders'[i].fillQty = orders[i].fillQty
               /\ SameJob(orders'[i], orders[i])
               /\ orders'[i].status = IF i = stale THEN "cancelled" ELSE orders[i].status
    <3>1. orders[i] \in OrderRows
      BY ExitTypes
    <3>2. orders'[i] = IF i = stale THEN [orders[i] EXCEPT !.status = "cancelled"] ELSE orders[i]
      BY <1>1
    <3> QED BY <3>1, <3>2 DEF OrderRows, SameJob
  <2>2. c.orders = orders' /\ c.broker = broker /\ DOMAIN orders' = DOMAIN orders
    BY <1>1, <1>3
  <2> HIDE DEF c
  <2> QED BY <2>1, <2>2, <1>4
<1> HIDE DEF c
<1>7. Typed(c)
  <2>1. orders' \in Seq(OrderRows) /\ c.orders = orders'
    BY <1>3 DEF MInv, CycleInv, MTypeOK, TypeOK, c
  <2>2. Typed(Book)
    BY <1>5 DEF Ledger, Owners
  <2> QED BY <2>1, <2>2, <1>3, <1>6 DEF Typed, Tickets
<1>8. Ledger(c, pos) /\ Owned(c) = Owned(Book) /\ OpenRows(c) = OpenRows(Book)
  <2>1. \A i \in Owned(Book) : /\ i \in DOMAIN orders /\ Serves(orders[i], Ticket(Book, i))
                               /\ Ticket(c, i) = Ticket(Book, i)
    BY <1>3, <1>5, <1>6 DEF Ledger, Owners, Owned, Ticket
  <2>2. \A i \in Owned(Book) : Serves(c.orders[i], Ticket(c, i))
    BY <2>1, <1>6 DEF Serves, SameJob
  <2>3. \A i \in OpenRows(Book) : MayFill(Ticket(c, i))
    BY <2>1 DEF OpenRows
  <2>4. /\ Ledger(Book, pos) /\ Typed(c) /\ DOMAIN c.broker = DOMAIN Book.broker
        /\ DOMAIN c.orders = DOMAIN Book.orders
        /\ \A i \in DOMAIN Book.orders : /\ c.orders[i].signal = Book.orders[i].signal
                                         /\ c.orders[i].ibkr = Book.orders[i].ibkr
                                         /\ SameJob(c.orders[i], Book.orders[i])
        /\ \A i \in Owned(Book) : Serves(c.orders[i], Ticket(c, i))
        /\ \A j \in DOMAIN Book.broker :
              /\ Dead(Book.broker[j]) => Dead(c.broker[j])
              /\ c.broker[j].symbol = Book.broker[j].symbol
              /\ Told(c.broker[j]) = Told(Book.broker[j])
              /\ MayFill(c.broker[j]) => MayFill(Book.broker[j])
        /\ \A i \in OpenRows(Book) : Book.orders[i].role = "exit" => MayFill(Ticket(c, i))
    BY <1>3, <1>5, <1>6, <1>7, <2>2, <2>3
  <2>5. Ledger(c, pos) /\ Owned(c) = Owned(Book)
    BY ONLY <2>4, LedgerKept
  <2> QED BY <2>1, <2>5 DEF OpenRows
<1>9. TrailsWork(c, None)
  <2> SUFFICES ASSUME NEW i \in DOMAIN c.orders, c.orders[i].role = "trail_stop",
                      c.orders[i].status \in InFlight
               PROVE  i \in OpenRows(c)
    BY DEF TrailsWork
  <2>1. i \in DOMAIN orders /\ i # stale
    BY <1>6 DEF InFlight
  <2> QED BY <2>1, <1>3, <1>5, <1>6, <1>8 DEF TrailsWork, SameJob
<1>10. WithExits' = c
  BY <1>3 DEF c
<1>11. Ledger(WithExits, pos)' /\ TrailsWork(WithExits, stale)'
  BY <1>1, <1>8, <1>9, <1>10
<1>12. ClosingSound'
  <2>1. \A i \in OpenRows(c) : i \in DOMAIN orders /\ i \in OpenRows(Book)
                               /\ c.orders[i].role = orders[i].role
    BY <1>3, <1>6, <1>8 DEF OpenRows, Owned, SameJob
  <2>2. \A i \in Owned(c) : /\ i \in Owned(Book) /\ c.orders[i].role = orders[i].role
                            /\ Ticket(c, i) = Ticket(Book, i)
    BY <1>3, <1>6, <1>8 DEF Owned, SameJob, Ticket
  <2> QED BY <2>1, <2>2, <1>1, <1>3, <1>5, <1>10 DEF ClosingSound, OneHeld, NoneOpen
<1> QED
  BY <1>1, <1>2, <1>11, <1>12 DEF SyncInv

\* The id that is written is the one the book with exits has already.
LEMMA RecordExitIdSync ==
    ASSUME MInv, SyncInv, RecordExitId
    PROVE  SyncInv'
<1>1. PICK e \in exit : orders[e.row].ibkr = None
                        /\ orders' = [orders EXCEPT ![e.row].ibkr = e.ibkr]
  BY DEF RecordExitId
<1>2. UNCHANGED <<broker, pos, posRows, stage, todo, stale, exit>>
  BY DEF RecordExitId, dbVars, cycleVars
<1>3. /\ \A f \in exit : f = e
      /\ e.row \in DOMAIN orders /\ orders[e.row] \in OrderRows /\ e.ibkr \in Nat
      /\ orders[e.row].signal # None /\ orders[e.row].role = "exit" /\ orders[e.row].key = e.key
  BY ExitTypes DEF SyncInv, ExitSound
<1>4. /\ DOMAIN orders' = DOMAIN orders
      /\ orders'[e.row] = [orders[e.row] EXCEPT !.ibkr = e.ibkr]
      /\ \A i \in DOMAIN orders \ {e.row} : orders'[i] = orders[i]
  BY <1>1, <1>3
<1>5. /\ orders'[e.row].ibkr = e.ibkr /\ orders'[e.row].signal = orders[e.row].signal
      /\ orders'[e.row].role = orders[e.row].role /\ orders'[e.row].key = orders[e.row].key
      /\ [orders'[e.row] EXCEPT !.ibkr = e.ibkr] = [orders[e.row] EXCEPT !.ibkr = e.ibkr]
  <2> DEFINE o == orders[e.row]
             p == orders'[e.row]
  <2>1. o \in OrderRows /\ p = [o EXCEPT !.ibkr = e.ibkr] /\ e.ibkr \in Nat
    BY <1>3, <1>4
  <2> HIDE DEF o, p
  <2>2. /\ p.ibkr = e.ibkr /\ p.signal = o.signal /\ p.role = o.role /\ p.key = o.key
        /\ [p EXCEPT !.ibkr = e.ibkr] = [o EXCEPT !.ibkr = e.ibkr]
    BY <2>1 DEF OrderRows
  <2> QED BY <2>2 DEF o, p
<1>6. Patch(orders', exit) = Patch(orders, exit)
  <2>1. ASSUME NEW i \in DOMAIN orders
        PROVE  (IF \E f \in exit : f.row = i
                THEN [orders'[i] EXCEPT !.ibkr = (CHOOSE f \in exit : f.row = i).ibkr]
                ELSE orders'[i])
               = (IF \E f \in exit : f.row = i
                  THEN [orders[i] EXCEPT !.ibkr = (CHOOSE f \in exit : f.row = i).ibkr]
                  ELSE orders[i])
    <3>1. CASE i = e.row
      <4>1. (CHOOSE f \in exit : f.row = i) = e
        <5>1. \E f \in exit : f.row = i
          BY <3>1
        <5>2. (CHOOSE f \in exit : f.row = i) \in exit
          BY <5>1, Zenon
        <5> QED BY <5>2, <1>3
      <4> QED BY <3>1, <4>1, <1>5
    <3>2. CASE i # e.row
      BY <3>2, <1>3, <1>4
    <3> QED BY <3>1, <3>2
  <2> QED BY <2>1, <1>4 DEF Patch
<1>7. WithExits' = WithExits
  BY <1>2, <1>6 DEF WithExits
<1>8. ExitSound'
  BY <1>2, <1>3, <1>5 DEF SyncInv, ExitSound
<1>9. ClosingSound'
  BY <1>2, <1>7 DEF SyncInv, ClosingSound, OneHeld
<1> QED
  BY <1>2, <1>7, <1>8, <1>9 DEF SyncInv

\* The row of a new exit waits for its id, if the broker has given one.
Awaited(k, n, id) == IF id = None THEN {} ELSE {[key |-> k, row |-> n, ibkr |-> id]}

LEMMA PlacedPatch ==
    ASSUME NEW os \in Seq(OrderRows), NEW n \in DOMAIN os, NEW k
    PROVE  Patch([os EXCEPT ![n].ibkr = None], Awaited(k, n, os[n].ibkr)) = os
<1> DEFINE id == os[n].ibkr
           x == Awaited(k, n, id)
           o == os[n]
           row == [o EXCEPT !.ibkr = None]
           ws == [os EXCEPT ![n] = row]
<1>1. o \in OrderRows /\ o.ibkr = id
  OBVIOUS
<1>2. [row EXCEPT !.ibkr = id] = o /\ (id = None => row = o)
  BY <1>1 DEF OrderRows, None
<1>3. ws = [os EXCEPT ![n].ibkr = None]
  OBVIOUS
<1> HIDE DEF row, o
<1>4. DOMAIN ws = DOMAIN os /\ ws[n] = row /\ \A i \in DOMAIN os \ {n} : ws[i] = os[i]
  OBVIOUS
<1> HIDE DEF ws
<1>5. ASSUME NEW i \in DOMAIN os
      PROVE  (IF \E e \in x : e.row = i
              THEN [ws[i] EXCEPT !.ibkr = (CHOOSE e \in x : e.row = i).ibkr]
              ELSE ws[i]) = os[i]
  <2>1. CASE i = n /\ id # None
    <3> DEFINE e == [key |-> k, row |-> n, ibkr |-> id]
    <3>1. x = {e} /\ e.row = n /\ e.ibkr = id
      BY <2>1 DEF Awaited
    <3> HIDE DEF e
    <3>2. \E f \in x : f.row = i
      BY <3>1, <2>1
    <3>3. (CHOOSE f \in x : f.row = i) \in x
      BY <3>2, Zenon
    <3>4. (CHOOSE f \in x : f.row = i) = e
      BY <3>1, <3>3
    <3> QED BY <3>1, <3>2, <3>4, <1>2, <1>4, <2>1 DEF o
  <2>2. CASE i = n /\ id = None
    BY <2>2, <1>2, <1>4 DEF o, Awaited
  <2>3. CASE i # n
    BY <2>3, <1>4 DEF Awaited
  <2> QED BY <2>1, <2>2, <2>3
<1>6. Patch(ws, x) = [i \in DOMAIN os |-> os[i]]
  BY <1>4, <1>5 DEF Patch
<1> QED
  BY <1>3, <1>6

\* Nothing is open on the key of a position the query returned, so that the exit fits;
\* the others were returned for other keys.
LEMMA PlaceExitSync ==
    ASSUME MInv, QuietInv, SyncInv, NEW fail, PlaceExit(fail)
    PROVE  SyncInv'
<1> DEFINE ok == connected /\ "exitSame" \notin fail
           Placing(p) == Submit(Book, NewRow(StubSignal, p.key, "exit", p.qty, None), ok)
           n == Len(orders) + 1
<1>1. /\ stage = "positions" /\ stage' = stage /\ exit = {} /\ stale = None /\ stale' = None
      /\ UNCHANGED <<pos, posRows>>
  BY DEF PlaceExit, dbVars, QuietInv, QuietCycle
<1>2. PICK p \in todo :
         LET ibkr == Placing(p).orders[n].ibkr
         IN  /\ todo' = todo \ {p}
             /\ orders' = [Placing(p).orders EXCEPT ![n].ibkr = None]
             /\ broker' = Placing(p).broker
             /\ exit' = IF ibkr = None THEN {} ELSE {[key |-> p.key, row |-> n, ibkr |-> ibkr]}
  BY DEF PlaceExit
<1> DEFINE fresh == NewRow(StubSignal, p.key, "exit", p.qty, None)
           c == Placing(p)
           id == c.orders[n].ibkr
<1>3. /\ todo \subseteq [key : PosKeys, qty : Nat] /\ p \in todo
      /\ p.key \in PosKeys /\ p.qty \in Nat \ {0}
  <2>1. CycleInv /\ todo \subseteq [key : PosKeys, qty : Nat]
    BY <1>1 DEF MInv, CycleInv, MTypeOK
  <2> QED BY <2>1, <1>1 DEF CycleInv
<1>4. /\ fresh \in OrderRows /\ fresh.role = "exit" /\ fresh.fillQty = 0
      /\ fresh.qty = p.qty /\ fresh.key = p.key /\ fresh.signal = StubSignal
      /\ StubSignal # None
  <2>1. StubSignal \in Nat /\ p.key \in OrderKeys /\ "exit" \in Roles /\ None \in Nat
        /\ StubSignal # None
    BY <1>3, PositionKeyTypes, LimitsAssumption DEF StubSignal, Roles, None
  <2>2. fresh.qty = p.qty
    BY DEF NewRow
  <2> QED BY <2>1, <2>2, <1>3, NewRowType
<1>5. /\ WithExits = Book /\ Book.orders = orders /\ Book.broker = broker /\ Book \in Books
      /\ Len(Book.orders) = Len(orders)
  <2>1. WithExits = Book /\ Book \in Books
    BY <1>1, StateBook DEF SyncInv
  <2> QED BY <2>1 DEF Book
<1>6. /\ Ledger(Book, pos) /\ TrailsWork(Book, None)
      /\ NoneOpen(Book, "entry") /\ OneHeld(pos) /\ NoneOpen(Book, "trail_stop")
      /\ \A x \in todo : /\ pos[x.key] = x.qty
                         /\ \A i \in OpenRows(Book) : orders[i].role = "exit"
                                                        => orders[i].key # x.key
  <2>1. SyncInv /\ ClosingSound
    BY DEF SyncInv
  <2> QED BY <2>1, <1>1, <1>5 DEF SyncInv, ClosingSound
<1>7. Fits(Book, pos, fresh)
  <2>1. ASSUME NEW i \in OpenRows(Book) PROVE orders[i].key # fresh.key
    <3>1. orders[i].role \in Roles
      BY <1>5, <1>6 DEF OpenRows, Owned, Ledger, Owners, Typed, OrderRows
    <3>2. orders[i].role = "exit"
      BY <3>1, <1>5, <1>6 DEF NoneOpen, Roles
    <3> QED BY <3>2, <1>3, <1>4, <1>6
  <2>2. fresh.qty <= pos[fresh.key]
    <3>1. pos[fresh.key] = fresh.qty /\ fresh.qty \in Nat
      BY <1>3, <1>4, <1>6
    <3> QED BY <3>1
  <2> QED BY <2>1, <2>2, <1>5 DEF Fits
<1>8. c = Submit(Book, fresh, ok) /\ ok \in BOOLEAN
  OBVIOUS
<1> HIDE DEF fresh, c, ok
<1>9. /\ Ledger(c, pos) /\ SubmitEffect(Book, c, fresh)
  <2>1. /\ Book \in Books /\ Ledger(Book, pos) /\ fresh \in OrderRows /\ fresh.signal # None
        /\ fresh.fillQty = 0 /\ fresh.key \in PosKeys /\ fresh.role # "entry" /\ ok \in BOOLEAN
        /\ Fits(Book, pos, fresh) /\ c = Submit(Book, fresh, ok) /\ n = Len(Book.orders) + 1
    BY <1>3, <1>4, <1>5, <1>6, <1>7, <1>8
  <2> QED BY ONLY <2>1, LedgerAdded, SubmitReturns
<1>10. /\ c \in Books /\ n \notin DOMAIN orders /\ DOMAIN c.orders = DOMAIN orders \cup {n}
       /\ \A i \in DOMAIN orders : c.orders[i] = orders[i]
       /\ OpenRows(c) \subseteq OpenRows(Book) \cup {n} /\ OpenRows(Book) \subseteq OpenRows(c)
       /\ SameJob(c.orders[n], fresh) /\ c.orders[n].signal = fresh.signal
  <2>1. Owners(Book)
    BY <1>6 DEF Ledger
  <2>2. /\ c \in Books /\ n \notin DOMAIN orders /\ DOMAIN c.orders = DOMAIN orders \cup {n}
        /\ \A i \in DOMAIN orders : c.orders[i] = orders[i]
        /\ OpenRows(c) = IF c.orders[n].ibkr = None THEN OpenRows(Book) ELSE OpenRows(Book) \cup {n}
        /\ SameJob(c.orders[n], fresh) /\ c.orders[n].signal = fresh.signal
    BY <2>1, <1>3, <1>4, <1>5, <1>9, OwnersSubmit
  <2> QED BY <2>2
<1>11. WithExits' = c
  <2>1. c.orders \in Seq(OrderRows) /\ n \in DOMAIN c.orders /\ c = [orders |-> c.orders, broker |-> c.broker]
    BY <1>10 DEF Books
  <2>2. /\ exit' = IF id = None THEN {} ELSE {[key |-> p.key, row |-> n, ibkr |-> id]}
        /\ orders' = [c.orders EXCEPT ![n].ibkr = None] /\ broker' = c.broker
    BY <1>2 DEF c
  <2>3. Patch(orders', exit') = c.orders
    <3>1. exit' = Awaited(p.key, n, c.orders[n].ibkr)
      BY <2>2 DEF Awaited
    <3>2. Patch([c.orders EXCEPT ![n].ibkr = None], Awaited(p.key, n, c.orders[n].ibkr)) = c.orders
      BY <2>1, PlacedPatch
    <3> QED BY <3>1, <3>2, <2>2
  <2> QED BY <2>1, <2>2, <2>3 DEF WithExits
<1>12. TrailsWork(c, None)
  <2> SUFFICES ASSUME NEW i \in DOMAIN c.orders, c.orders[i].role = "trail_stop",
                      c.orders[i].status \in InFlight, i # None
               PROVE  i \in OpenRows(c)
    BY DEF TrailsWork
  <2>1. i \in DOMAIN orders /\ c.orders[i] = orders[i]
    BY <1>4, <1>10 DEF SameJob
  <2> QED BY <2>1, <1>5, <1>6, <1>10 DEF TrailsWork
<1>13. Ledger(WithExits, pos)' /\ TrailsWork(WithExits, stale)'
       /\ (\A k \in PosKeys : pos[k] > 0 => k \in posRows)'
  BY <1>1, <1>9, <1>11, <1>12 DEF SyncInv
<1>14. ExitSound'
  <2>1. /\ orders' = [c.orders EXCEPT ![n].ibkr = None]
        /\ exit' = IF id = None THEN {} ELSE {[key |-> p.key, row |-> n, ibkr |-> id]}
    BY <1>2 DEF c
  <2>2. /\ orders'[n].ibkr = None /\ orders'[n].signal # None
        /\ orders'[n].role = "exit" /\ orders'[n].key = p.key
    <3> DEFINE o == c.orders[n]
               row == orders'[n]
    <3>1. row = [o EXCEPT !.ibkr = None] /\ o \in OrderRows
      BY <2>1, <1>10 DEF Books
    <3>2. o.signal # None /\ o.role = "exit" /\ o.key = p.key
      BY <1>4, <1>10 DEF SameJob
    <3> HIDE DEF o, row
    <3>3. row.ibkr = None /\ row.signal # None /\ row.role = "exit" /\ row.key = p.key
      BY <3>1, <3>2 DEF OrderRows
    <3> QED BY <3>3 DEF row
  <2>3. \A e \in exit' : e.row = n /\ e.key = p.key
    BY <2>1
  <2>4. \A e, f \in exit' : e = f
    BY <2>1
  <2> QED BY <2>2, <2>3, <2>4, <1>1 DEF ExitSound
<1>15. ClosingSound'
  <2>1. \A i \in OpenRows(c) : \/ i \in OpenRows(Book) /\ c.orders[i] = orders[i]
                               \/ i = n /\ c.orders[i].role = "exit" /\ c.orders[i].key = p.key
    BY <1>4, <1>5, <1>10 DEF OpenRows, Owned, SameJob
  <2>2. NoneOpen(c, "entry") /\ NoneOpen(c, "trail_stop")
    BY <2>1, <1>5, <1>6 DEF NoneOpen
  <2>3. ASSUME NEW x \in todo, x # p PROVE x.key # p.key
    <3>1. x \in [key : PosKeys, qty : Nat] /\ p \in [key : PosKeys, qty : Nat]
      BY <1>3
    <3>2. x.key = p.key => x.qty = p.qty
      BY <1>6
    <3> QED BY <3>1, <3>2, <2>3
  <2>4. todo' = todo \ {p}
    BY <1>2
  <2>5. \A x \in todo' : /\ pos[x.key] = x.qty
                         /\ \A i \in OpenRows(c) : c.orders[i].role = "exit"
                                                        => c.orders[i].key # x.key
    BY <2>1, <2>3, <2>4, <1>6
  <2> QED BY <2>2, <2>5, <1>1, <1>6, <1>11 DEF ClosingSound, OneHeld
<1> QED
  BY <1>13, <1>14, <1>15 DEF SyncInv

----------------------------------------------------------------------------
(* Signals.                                                                 *)

\* The calls that take orders and positions away succeed.
ClosesTaken == \A f \in Failures : f \cap {"cancelSame", "cancelOpposite", "exitOpposite"} = {}

\* A symbol gets at most one position at a time.
OnePerSymbol == MaxOpenPositions <= 1 \/ \A t, u \in Intervals : t = u

\* With an interval in every alert, positions and orders have the same keys.
LEMMA KeysAgree ==
    ASSUME NoInterval \notin Intervals
    PROVE  /\ PosKeys = SignalKeys /\ \A k \in SignalKeys : PosKey(k) = k
           /\ \A k \in PosKeys : MatchesPosition([key |-> k]) <=> k \in posRows
<1>1. {PosInterval(t) : t \in Intervals} = Intervals
  BY DEF PosInterval
<1>2. PosKeys = SignalKeys
  BY <1>1 DEF PosKeys, SignalKeys
<1>3. \A k \in SignalKeys : k.interval # NoInterval
  BY DEF SignalKeys
<1>4. \A k \in SignalKeys : PosKey(k) = k
  BY <1>3 DEF SignalKeys, PosKey, PosInterval
<1> QED
  BY <1>2, <1>3, <1>4 DEF MatchesPosition

\* An entry next to the exits of its key, when no other key of the symbol stays.
LEMMA EntryLedger ==
    ASSUME NEW b \in Books, NEW p, Ledger(b, p), TrailsWork(b, None),
           NEW row \in OrderRows, row.signal # None, row.fillQty = 0, row.key \in PosKeys,
           row.role = "entry", NEW ok \in BOOLEAN,
           \A i \in OpenRows(b) : b.orders[i].key = row.key => b.orders[i].role = "exit",
           \A k \in PosKeys : k.symbol = row.key.symbol /\ Stays(b, p, k) => k = row.key,
           NEW c, c = Submit(b, row, ok)
    PROVE  Ledger(c, p) /\ TrailsWork(c, None) /\ c \in Books
<1> DEFINE n == Len(b.orders) + 1
<1>1. SubmitEffect(b, c, row)
  BY SubmitReturns
<1>2. Owners(b) /\ Claims(b, p) /\ OneStays(b, p) /\ Balanced(b, p)
  BY DEF Ledger
<1>3. /\ Owners(c) /\ c \in Books /\ n \notin DOMAIN b.orders
      /\ DOMAIN c.orders = DOMAIN b.orders \cup {n}
      /\ \A i \in DOMAIN b.orders : c.orders[i] = b.orders[i]
      /\ OpenRows(c) = IF c.orders[n].ibkr = None THEN OpenRows(b) ELSE OpenRows(b) \cup {n}
      /\ SameJob(c.orders[n], row)
      /\ \A s \in Symbols : ToldNet(c, s) = ToldNet(b, s)
  BY <1>1, <1>2, OwnersSubmit
<1>4. OpenRows(b) \subseteq DOMAIN b.orders
  BY DEF OpenRows, Owned
<1> HIDE DEF n
<1>5. Shrinks(b, c, {n}) /\ ExitsKept(b, c)
  BY <1>3, <1>4 DEF Shrinks, ExitsKept, SameJob
<1>6. Claims(c, p)
  <2>1. Fits(b, p, c.orders[n])
    BY <1>3 DEF Fits, SameJob, Compatible
  <2> QED BY <1>2, <1>5, <2>1, ClaimsAdded
<1>7. \A k : Stays(c, p, k) => Stays(b, p, k) \/ k = row.key
  <2> SUFFICES ASSUME NEW k, Stays(c, p, k), k # row.key PROVE Stays(b, p, k)
    OBVIOUS
  <2>1. ASSUME NEW i \in OpenRows(c), c.orders[i].key = k
        PROVE  i \in OpenRows(b) /\ SameJob(c.orders[i], b.orders[i])
    <3>1. i # n
      BY <2>1, <1>3 DEF SameJob
    <3> QED BY <3>1, <1>5 DEF Shrinks
  <2> QED BY <2>1, <1>5 DEF Stays, ExitsKept, SameJob
<1>8. OneStays(c, p)
  BY <1>2, <1>7 DEF OneStays
<1>9. Balanced(c, p)
  BY <1>2, <1>3 DEF Balanced
<1>10. TrailsWork(c, None)
  <2> SUFFICES ASSUME NEW i \in DOMAIN c.orders, c.orders[i].role = "trail_stop",
                      c.orders[i].status \in InFlight, i # None
               PROVE  i \in OpenRows(c)
    BY DEF TrailsWork
  <2>1. i \in DOMAIN b.orders /\ c.orders[i] = b.orders[i]
    BY <1>3 DEF SameJob
  <2> QED BY <2>1, <1>3 DEF TrailsWork
<1> QED
  BY <1>3, <1>6, <1>8, <1>9, <1>10 DEF Ledger

\* What a signal finds: trailing stops only, one position per symbol, and an exit for
\* all of a position leaves nothing that stays on its key.
PositionClosed(c, k, exitOk) ==
    /\ c \in Books /\ Ledger(c, pos) /\ TrailsWork(c, None) /\ NoEntryFlies(c)
    /\ \A i \in OpenRows(c) :
          \/ c.orders[i].role = "trail_stop" /\ c.orders[i].key # k
          \/ c.orders[i].role = "exit" /\ c.orders[i].key = k
    /\ \A l : Stays(c, pos, l) => Stays(Book, pos, l)
    /\ exitOk => ~Stays(c, pos, k)

LEMMA ClosedPosition ==
    ASSUME MInv, QuietInv, SyncInv, Settled, stage = "normal", NEW sig \in Nat \ {0},
           NEW k \in PosKeys, pos[k] > 0, NEW cancelOk \in BOOLEAN, cancelOk,
           NEW exitOk \in BOOLEAN, NEW c, c = PlaceClose(Book, sig, k, cancelOk, exitOk)
    PROVE  PositionClosed(c, k, exitOk)
<1>1. /\ WithExits = Book /\ Linked(Book) /\ Ledger(Book, pos) /\ Book.orders = orders
      /\ \A i \in OpenRows(Book) : /\ orders[i].role = "trail_stop"
                                   /\ orders[i].status \in InFlight
                                   /\ Ticket(Book, i).pending = 0
  <2>1. Book.orders = orders
    BY DEF Book
  <2> QED BY <2>1, SettledBook DEF OpenRows
<1>2. TrailsWork(Book, None)
  BY <1>1 DEF SyncInv, QuietInv, QuietCycle
<1>3. pos[k] \in Nat \ {0}
  <2>1. pos[k] \in Nat
    BY ExitTypes
  <2> QED BY <2>1
<1>4. /\ Linked(c) /\ Ledger(c, pos) /\ TrailsWork(c, None)
      /\ TrailsLeft(Book, c, k)
      /\ \A l : Stays(c, pos, l) => Stays(Book, pos, l)
      /\ exitOk => ~Stays(c, pos, k)
  <2>1. /\ Linked(Book) /\ Ledger(Book, pos) /\ TrailsWork(Book, None) /\ sig \in Nat \ {0}
        /\ k \in PosKeys /\ pos[k] \in Nat \ {0} /\ exitOk \in BOOLEAN /\ TrailOnly(Book, k)
        /\ cancelOk \in BOOLEAN /\ cancelOk
        /\ c = PlaceClose(Book, sig, k, cancelOk, exitOk)
    BY <1>1, <1>2, <1>3 DEF TrailOnly
  <2>2. Closes(Book, c, k, exitOk)
    BY ONLY <2>1, CloseLedger
  <2> QED BY <2>2 DEF Closes
<1>5. NoEntryFlies(c)
  <2>1. EntriesFollowed(Book, ExitIds) /\ RouterInv
    BY DEF QuietInv, MInv
  <2>2. NoEntryFlies(Book)
    BY <2>1, SettledEntries
  <2>3. Followed(Book, ExitIds)
    BY <1>1, <2>1, <2>2, ExitIdType DEF Followed, Book
  <2>4. Followed(c, ExitIds)
    BY <1>3, <2>3, PlaceCloseFollowed
  <2> QED BY <2>4 DEF Followed
<1>6. c \in Books
  BY <1>4, LinkedTypes
<1>7. \A i \in OpenRows(c) :
         \/ c.orders[i].role = "trail_stop" /\ c.orders[i].key # k
         \/ c.orders[i].role = "exit" /\ c.orders[i].key = k
  <2>1. TrailsLeft(Book, c, k)
    BY <1>4
  <2>2. \A i \in OpenRows(Book) : Book.orders[i].role = "trail_stop"
    BY <1>1
  <2> QED BY ONLY <2>1, <2>2 DEF TrailsLeft, SameJob
<1> QED
  BY <1>4, <1>5, <1>6, <1>7 DEF PositionClosed

\* The way of an open signal: what its symbol holds is closed, in either direction.
WayCleared(c, k) ==
    /\ c \in Books /\ Ledger(c, pos) /\ TrailsWork(c, None)
    /\ \A i \in OpenRows(c) : c.orders[i].key = k => c.orders[i].role = "exit"
    /\ \A l : Stays(c, pos, l) => Stays(Book, pos, l)
    /\ ~Stays(c, pos, OppositeKey(k))

LEMMA NothingHeld ==
    ASSUME NEW c, NEW p, Ledger(c, p), NEW k, p[k] = 0, NEW i \in OpenRows(c),
           c.orders[i].key = k
    PROVE  c.orders[i].role = "entry"
<1> DEFINE q == c.orders[i].qty
<1>1. q \in Nat \ {0}
  BY DEF Ledger, Owners, Typed, OpenRows, Owned, OrderRows
<1>2. c.orders[i].role # "entry" => q <= p[k]
  BY DEF Ledger, Claims
<1> HIDE DEF q
<1> QED
  BY <1>1, <1>2

LEMMA ClearedLedger ==
    ASSUME NoInterval \notin Intervals, MInv, QuietInv, SyncInv, Settled, stage = "normal",
           NEW sig \in Nat \ {0}, NEW k \in SignalKeys, NEW fail,
           fail \cap {"cancelSame", "cancelOpposite", "exitOpposite"} = {},
           NEW c, c = ClearedWay(Book, sig, k, fail)
    PROVE  WayCleared(c, k)
<1> DEFINE opp == OppositeKey(k)
           close == PlaceClose(Book, sig, k, "cancelSame" \notin fail, "exitSame" \notin fail)
           b1 == IF pos[k] > 0 THEN close ELSE Book
           entries == Newest(InFlightEntries(b1, opp))
           b2 == CancelRows(b1, entries, sig, "cancelEntry" \notin fail)
           flip == PlaceClose(b2, sig, opp, "cancelOpposite" \notin fail, "exitOpposite" \notin fail)
<1>1. /\ k \in PosKeys /\ opp \in PosKeys /\ k.symbol = opp.symbol /\ opp # k
      /\ PosKey(k) = k /\ PosKey(opp) = opp
  <2>1. opp \in SignalKeys
    BY KeyTypes
  <2>2. k.symbol = opp.symbol /\ opp # k
    BY DEF OppositeKey, SignalKeys, Opposite, Directions
  <2> HIDE DEF opp
  <2> QED BY <2>1, <2>2, KeysAgree
<1>2. c = IF pos[opp] > 0 THEN flip ELSE b2
  BY <1>1 DEF ClearedWay, ClosedSame, CancelledOpposite
<1> HIDE DEF opp
<1>3. pos[k] \in Nat /\ pos[opp] \in Nat
  BY <1>1, ExitTypes
<1>4. /\ Ledger(Book, pos) /\ Book \in Books /\ TrailsWork(Book, None) /\ NoEntryFlies(Book)
      /\ \A i \in OpenRows(Book) : Book.orders[i].role = "trail_stop"
      /\ \A l \in PosKeys : Stays(Book, pos, l) <=> pos[l] > 0
  <2>1. /\ Ledger(Book, pos) /\ Linked(Book) /\ WithExits = Book
        /\ \A i \in OpenRows(Book) : orders[i].role = "trail_stop"
        /\ \A l \in PosKeys : Stays(Book, pos, l) <=> pos[l] > 0
    BY SettledBook
  <2>2. TrailsWork(Book, None)
    BY <2>1 DEF SyncInv, QuietInv, QuietCycle
  <2>3. NoEntryFlies(Book)
    BY SettledEntries DEF QuietInv, MInv
  <2>4. Book.orders = orders
    BY DEF Book
  <2> QED BY <2>1, <2>2, <2>3, <2>4 DEF Linked
<1>5. ~(pos[k] > 0 /\ pos[opp] > 0)
  BY <1>1, <1>4 DEF Ledger, OneStays
<1>6. ASSUME b1 \in Books, NoEntryFlies(b1) PROVE b2 = b1
  <2>1. entries = {}
    BY <1>6 DEF Newest, InFlightEntries, InFlightRows, NoEntryFlies, IsEntry
  <2> HIDE DEF entries, b1
  <2> QED BY <1>6, <2>1, CancelNothing
<1>7. CASE pos[k] > 0
  <2> DEFINE okc == "cancelSame" \notin fail
             oke == "exitSame" \notin fail
  <2>1. close = PlaceClose(Book, sig, k, okc, oke) /\ okc \in BOOLEAN /\ okc /\ oke \in BOOLEAN
    OBVIOUS
  <2> HIDE DEF okc, oke, close
  <2>2. PositionClosed(close, k, oke)
    BY <1>1, <1>7, <2>1, ClosedPosition
  <2>3. c = close
    BY <1>2, <1>3, <1>5, <1>6, <1>7, <2>2 DEF PositionClosed
  <2>4. ~Stays(c, pos, opp)
    BY <1>1, <1>4, <1>5, <1>7, <2>2, <2>3 DEF PositionClosed
  <2> QED BY <2>2, <2>3, <2>4 DEF WayCleared, PositionClosed, opp
<1>8. CASE pos[opp] > 0
  <2>1. b2 = Book /\ b1 = Book
    BY <1>4, <1>5, <1>6, <1>8
  <2> DEFINE okc == "cancelOpposite" \notin fail
             oke == "exitOpposite" \notin fail
  <2>2. c = PlaceClose(Book, sig, opp, okc, oke) /\ okc \in BOOLEAN /\ okc /\ oke \in BOOLEAN /\ oke
    BY <1>2, <1>8, <2>1
  <2> HIDE DEF okc, oke, b1, b2
  <2>3. PositionClosed(c, opp, oke)
    BY <1>1, <1>8, <2>2, ClosedPosition
  <2>4. ASSUME NEW i \in OpenRows(c), c.orders[i].key = k PROVE c.orders[i].role = "exit"
    <3>1. pos[k] = 0
      BY <1>3, <1>5, <1>8
    <3>2. c.orders[i].role = "entry"
      BY <2>3, <2>4, <3>1, NothingHeld DEF PositionClosed
    <3> QED BY <2>3, <3>2 DEF PositionClosed
  <2> QED BY <2>2, <2>3, <2>4 DEF WayCleared, PositionClosed, opp
<1>9. CASE ~(pos[k] > 0) /\ ~(pos[opp] > 0)
  <2>1. c = Book
    BY <1>2, <1>4, <1>6, <1>9
  <2>2. ASSUME NEW i \in OpenRows(c), c.orders[i].key = k PROVE FALSE
    <3>1. pos[k] = 0
      BY <1>3, <1>9
    <3>2. c.orders[i].role = "entry"
      BY <1>4, <2>1, <2>2, <3>1, NothingHeld
    <3> QED BY <1>4, <2>1, <3>2
  <2>3. ~Stays(c, pos, opp)
    BY <1>1, <1>4, <1>9, <2>1
  <2> QED BY <1>4, <2>1, <2>2, <2>3 DEF WayCleared, opp
<1> QED
  BY <1>7, <1>8, <1>9

\* In normal trading the book and the positions are all there is to say.
LEMMA NormalSync ==
    ASSUME NEW c \in Books, Book' = c, stage' = "normal", exit' = {}, stale' = None,
           Ledger(c, pos'), TrailsWork(c, None),
           \A k \in PosKeys : pos'[k] > 0 => k \in posRows'
    PROVE  SyncInv'
<1>1. orders' = c.orders /\ broker' = c.broker /\ c = [orders |-> c.orders, broker |-> c.broker]
      /\ c.orders \in Seq(OrderRows)
  BY DEF Book, Books
<1>2. Patch(c.orders, {}) = c.orders
  BY <1>1, PatchNothing
<1>3. WithExits' = c
  BY <1>1, <1>2 DEF WithExits
<1> QED
  BY <1>3 DEF SyncInv, ExitSound, ClosingSound

LEMMA CountsHeld ==
    ASSUME IsFiniteSet(PosKeys), NEW k \in PosKeys, pos[k] > 0
    PROVE  OpenCount \in Nat \ {0}
<1> DEFINE H == {l \in PosKeys : pos[l] > 0}
<1>1. IsFiniteSet(H) /\ H # {}
  BY FS_Subset
<1> HIDE DEF H
<1>2. Cardinality(H) \in Nat /\ Cardinality(H) # 0
  BY <1>1, FS_CardinalityType, FS_EmptySet
<1> QED
  BY <1>2 DEF OpenCount, H

\* A signal is handled when everything has settled: what stays is what is held, so that
\* closes take all of it and an entry is the only one of its symbol.
LEMMA SignalSync ==
    ASSUME NoInterval \notin Intervals, IsFiniteSet(PosKeys), ClosesTaken, OnePerSymbol,
           MInv, QuietInv, SyncInv, Settled, HandleSignal, UNCHANGED cycleVars
    PROVE  SyncInv'
<1>1. /\ TypeOK /\ RouterInv /\ ExitSound
      /\ UNCHANGED <<stage, exit, stale, pos, posRows>>
  BY DEF MInv, RouterInv, SyncInv, cycleVars, HandleSignal, RejectOffline, CloseNothing,
         CloseSignal, ReplaceEntry, OpenSignal, dbVars
<1>2. Dequeue /\ connected
  BY DEF HandleSignal, RejectOffline, CloseNothing, CloseSignal, ReplaceEntry, OpenSignal,
         QuietInv, QuietCycle
<1>3. stage = "normal" /\ exit = {} /\ stale = None
  <2>1. handled # Len(signals)
    BY <1>1, <1>2 DEF Dequeue, TypeOK
  <2>2. stage = "normal"
    BY <2>1, QuietClosed
  <2> QED BY <2>2, <1>1 DEF ExitSound, QuietInv, QuietCycle
<1>4. /\ Ledger(Book, pos) /\ TrailsWork(Book, None) /\ Book \in Books
      /\ \A l \in PosKeys : Stays(Book, pos, l) <=> pos[l] > 0
      /\ \A l \in PosKeys : pos'[l] > 0 => l \in posRows'
  <2>1. /\ Ledger(Book, pos) /\ WithExits = Book /\ Linked(Book)
        /\ \A l \in PosKeys : Stays(Book, pos, l) <=> pos[l] > 0
    BY <1>3, SettledBook
  <2> QED BY <2>1, <1>1, <1>3 DEF SyncInv, Linked
<1>5. SUFFICES \E c \in Books : Book' = c /\ Ledger(c, pos) /\ TrailsWork(c, None)
  BY <1>1, <1>3, <1>4, NormalSync
<1>6. CASE RejectOffline \/ CloseNothing
  <2>1. Book' = Book
    BY <1>6 DEF RejectOffline, CloseNothing, bookVars, Book
  <2> QED BY <2>1, <1>4
<1>7. ASSUME NEW fail \in Failures, CloseSignal(fail)
      PROVE  \E c \in Books : Book' = c /\ Ledger(c, pos) /\ TrailsWork(c, None)
  <2> DEFINE k == PosKey(Current.key)
             okc == "cancelSame" \notin fail
             oke == "exitSame" \notin fail
             c == PlaceClose(Book, handled + 1, k, okc, oke)
  <2>1. SetBook(c) /\ pos[k] > 0 /\ okc
    BY <1>7 DEF CloseSignal, ClosesTaken
  <2>2. k \in PosKeys /\ handled + 1 \in Nat \ {0} /\ okc \in BOOLEAN /\ oke \in BOOLEAN
    BY <1>1, <1>2, CurrentType, KeyTypes
  <2>3. c = PlaceClose(Book, handled + 1, k, okc, oke)
    OBVIOUS
  <2> HIDE DEF k, okc, oke, c
  <2>4. PositionClosed(c, k, oke)
    BY <1>3, <2>1, <2>2, <2>3, ClosedPosition
  <2>5. Book' = c
    BY <2>1, <2>4, NextBook DEF PositionClosed
  <2> QED BY <2>4, <2>5 DEF PositionClosed
<1>8. ASSUME NEW fail, ReplaceEntry(fail) PROVE FALSE
  <2>1. NoEntryFlies(Book)
    BY <1>1, SettledEntries DEF QuietInv
  <2>2. InFlightEntries(Book, Current.key) = {}
    BY <2>1 DEF InFlightEntries, InFlightRows, NoEntryFlies, IsEntry
  <2> QED BY <2>2, <1>8 DEF ReplaceEntry, Newest
<1>9. ASSUME NEW fail \in Failures, OpenSignal(fail)
      PROVE  \E c \in Books : Book' = c /\ Ledger(c, pos) /\ TrailsWork(c, None)
  <2> DEFINE k == Current.key
             sig == handled + 1
             qty == Current.qty
             cleared == ClearedWay(Book, sig, k, fail)
             entry == NewRow(sig, k, "entry", qty, None)
             ok == "entry" \notin fail
             entered == Submit(cleared, entry, ok)
             opp == OppositeKey(k)
  <2>1. sig \in Nat \ {0} /\ k \in SignalKeys
    BY <1>1, <1>2, CurrentType
  <2>2. k \in PosKeys /\ opp \in PosKeys /\ PosKey(k) = k /\ PosKey(opp) = opp
    BY <2>1, KeysAgree, KeyTypes
  <2>3. /\ Current.kind = "open"
        /\ \/ SetBook(cleared)
           \/ /\ SetBook(entered)
              /\ pos[k] > 0 \/ pos[opp] > 0 \/ ~(OpenCount >= MaxOpenPositions)
    <3>1. Current.kind = "open"
          /\ \E lossHit \in LossMayBeHit :
                \/ SetBook(cleared)
                \/ /\ SetBook(entered)
                   /\ ~RiskRefuses(PosKey(k), qty, pos[PosKey(opp)] > 0, pos[PosKey(k)] > 0, lossHit)
      BY <1>9 DEF OpenSignal, Entered, OpenRefused
    <3>2. PICK lossHit \in LossMayBeHit :
                \/ SetBook(cleared)
                \/ /\ SetBook(entered)
                   /\ ~RiskRefuses(PosKey(k), qty, pos[PosKey(opp)] > 0, pos[PosKey(k)] > 0, lossHit)
      BY <3>1
    <3>3. pos[k] \in Nat
      BY <2>2, ExitTypes
    <3> HIDE DEF k, opp, cleared, entered, qty
    <3>4. ~RiskRefuses(PosKey(k), qty, pos[PosKey(opp)] > 0, pos[PosKey(k)] > 0, lossHit)
             => pos[k] > 0 \/ pos[opp] > 0 \/ ~(OpenCount >= MaxOpenPositions)
      BY <2>2, <3>3 DEF RiskRefuses
    <3> QED BY <3>1, <3>2, <3>4
  <2>4. qty \in Nat \ {0}
    <3>1. handled + 1 \in DOMAIN signals /\ Current \in Signals
      BY <1>1, <1>2, CurrentType
    <3> QED BY <3>1, <2>3, <1>1 DEF RouterInv, Current, Signals
  <2>5. /\ entry \in OrderRows /\ entry.fillQty = 0 /\ entry.role = "entry"
        /\ entry.key = k /\ entry.signal # None
    <3>1. k \in OrderKeys /\ "entry" \in Roles /\ None \in Nat
      BY <2>1, KeyTypes DEF None, Roles
    <3> HIDE DEF k, sig, qty
    <3> QED BY <3>1, <2>1, <2>4, NewRowType DEF None
  <2>6. cleared = ClearedWay(Book, sig, k, fail) /\ opp = OppositeKey(k)
        /\ entered = Submit(cleared, entry, ok) /\ ok \in BOOLEAN
        /\ fail \cap {"cancelSame", "cancelOpposite", "exitOpposite"} = {}
    BY DEF ClosesTaken
  <2> HIDE DEF cleared, entry, entered, k, sig, opp, ok, qty
  <2>7. WayCleared(cleared, k)
    BY <1>3, <2>1, <2>6, ClearedLedger
  <2>8. CASE SetBook(cleared)
    <3>1. Book' = cleared
      BY <2>7, <2>8, NextBook DEF WayCleared
    <3> QED BY <3>1, <2>7 DEF WayCleared
  <2>9. CASE /\ SetBook(entered)
             /\ pos[k] > 0 \/ pos[opp] > 0 \/ ~(OpenCount >= MaxOpenPositions)
    <3>1. ASSUME NEW l \in PosKeys, l.symbol = k.symbol, Stays(cleared, pos, l) PROVE l = k
      <4>1. l # opp /\ pos[l] > 0
        BY <3>1, <2>6, <2>7, <1>4 DEF WayCleared
      <4>2. CASE pos[k] > 0
        BY <3>1, <4>1, <4>2, <2>2, <1>4 DEF Ledger, OneStays
      <4>3. opp.symbol = k.symbol
        BY <2>1, <2>6 DEF OppositeKey, SignalKeys
      <4>4. pos[opp] > 0 => FALSE
        BY <3>1, <4>1, <4>3, <2>2, <1>4 DEF Ledger, OneStays
      <4>5. CASE ~(OpenCount >= MaxOpenPositions)
        <5>1. OpenCount \in Nat \ {0}
          BY <4>1, CountsHeld
        <5>2. ~(MaxOpenPositions <= 1)
          BY <5>1, <4>5, LimitsAssumption
        <5>3. \A t, u \in Intervals : t = u
          BY <5>2 DEF OnePerSymbol
        <5>4. l \in SignalKeys /\ k \in SignalKeys
          BY <2>1, KeysAgree
        <5>5. l.interval = k.interval
          BY <5>3, <5>4 DEF SignalKeys
        <5>6. l = k \/ l = opp
          BY <5>4, <5>5, <3>1, <2>6 DEF SignalKeys, OppositeKey, Opposite, Directions
        <5> QED BY <5>6, <4>1
      <4> QED BY <2>9, <4>2, <4>4, <4>5
    <3>2. /\ cleared \in Books /\ Ledger(cleared, pos) /\ TrailsWork(cleared, None)
          /\ entry \in OrderRows /\ entry.signal # None /\ entry.fillQty = 0
          /\ entry.key \in PosKeys /\ entry.role = "entry" /\ ok \in BOOLEAN
          /\ \A i \in OpenRows(cleared) :
                cleared.orders[i].key = entry.key => cleared.orders[i].role = "exit"
          /\ \A l \in PosKeys : l.symbol = entry.key.symbol /\ Stays(cleared, pos, l) => l = entry.key
          /\ entered = Submit(cleared, entry, ok)
      BY <2>2, <2>5, <2>6, <2>7, <3>1 DEF WayCleared
    <3>3. Ledger(entered, pos) /\ TrailsWork(entered, None) /\ entered \in Books
      BY ONLY <3>2, EntryLedger
    <3>4. Book' = entered
      BY <2>9, <3>3, NextBook
    <3> QED BY <3>3, <3>4
  <2> QED BY <2>3, <2>8, <2>9
<1> QED
  BY <1>6, <1>7, <1>8, <1>9 DEF HandleSignal

----------------------------------------------------------------------------
(* Fills of orders that execute at once.                                    *)

\* Every order executes at once, and one execution is one report.
Whole == \A j \in DOMAIN broker :
            broker[j].executed \in {0, broker[j].qty} /\ broker[j].pending \in {0, broker[j].qty}

\* A report of the order j whose row is o: it is for all of o, of which nothing was
\* recorded.
WholeReport(o, j, q) ==
    /\ j \in DOMAIN broker /\ o.key \in PosKeys /\ o \in OrderRows
    /\ q = o.qty /\ o.fillQty = 0
    /\ broker[j].pending = o.qty /\ ~broker[j].live

OneReported(br, taken, j) ==
    /\ DOMAIN taken = DOMAIN br /\ taken[j] = Reported(br[j])
    /\ \A l \in DOMAIN br \ {j} : taken[l] = br[l]

LEMMA WholeTaken ==
    ASSUME MInv, SyncInv, Whole, NEW i \in Owned(WithExits),
           NEW j, j = WithExits.orders[i].ibkr, NEW q, q \in Chunks(broker[j].pending),
           NEW taken, taken = TakeReport(broker, j, q),
           j \in DOMAIN taken => taken[j].pending \in {0, taken[j].qty}
    PROVE  /\ WholeReport(WithExits.orders[i], j, q) /\ i \in DOMAIN orders
           /\ OneReported(broker, taken, j)
<1> DEFINE b == WithExits
           o == b.orders[i]
           br == broker[j]
<1>1. b.broker = broker /\ DOMAIN b.orders = DOMAIN orders /\ i \in DOMAIN orders
  BY StateBook DEF SyncInv, Owned
<1>2. /\ j \in DOMAIN broker /\ Serves(o, br) /\ o \in OrderRows /\ br \in BrokerOrders
      /\ OrderLinked(br)
  <2>1. j \in DOMAIN b.broker /\ Serves(o, Ticket(b, i)) /\ Typed(b)
    BY DEF SyncInv, Ledger, Owners
  <2>2. OrderLinked(br)
    BY <2>1, <1>1 DEF MInv, RouterInv, Linked, Book
  <2> QED BY <2>1, <2>2, <1>1 DEF Ticket, Typed, Tickets
<1>3. taken = [broker EXCEPT ![j].pending = @ - q]
  BY DEF TakeReport
<1>4. q \in Nat \ {0} /\ q <= br.pending
  BY <1>2, ChunkType DEF BrokerOrders
<1>5. /\ DOMAIN taken = DOMAIN broker
      /\ taken[j] = [br EXCEPT !.pending = br.pending - q]
      /\ \A l \in DOMAIN broker \ {j} : taken[l] = broker[l]
  BY <1>2, <1>3
<1>6. taken[j].pending = br.pending - q /\ taken[j].qty = br.qty
  BY <1>2, <1>5 DEF BrokerOrders
<1>7. /\ br.executed \in {0, br.qty} /\ br.pending \in {0, br.qty}
      /\ br.pending - q \in {0, br.qty}
  <2>1. taken[j].pending \in {0, taken[j].qty}
    BY <1>2, <1>5
  <2> QED BY <2>1, <1>2, <1>6 DEF Whole
<1>8. /\ br.qty \in Nat \ {0} /\ br.pending \in Nat /\ br.executed \in Nat
      /\ o.fillQty \in Nat /\ o.qty = br.qty /\ o.fillQty + br.pending <= br.executed
      /\ br.live => br.executed < br.qty
  BY <1>2 DEF BrokerOrders, OrderRows, Serves, OrderLinked
<1>9. /\ br.pending = o.qty /\ q = o.qty /\ o.fillQty = 0 /\ ~br.live
      /\ br.pending - q = 0
  <2> DEFINE pd == br.pending
             ex == br.executed
             n == br.qty
             f == o.fillQty
  <2>1. /\ n \in Nat \ {0} /\ pd \in Nat /\ ex \in Nat /\ f \in Nat /\ q \in Nat \ {0}
        /\ q <= pd /\ f + pd <= ex /\ (ex = 0 \/ ex = n) /\ (pd = 0 \/ pd = n)
        /\ (pd - q = 0 \/ pd - q = n)
    BY <1>4, <1>7, <1>8
  <2>2. br.live => ex < n
    BY <1>8
  <2> HIDE DEF pd, ex, n, f
  <2>3. pd = n /\ ex = n /\ f = 0 /\ q = n /\ pd - q = 0
    BY ONLY <2>1
  <2>4. ~br.live
    BY <2>1, <2>2, <2>3
  <2> QED BY <2>3, <2>4, <1>8 DEF pd, n, f
<1>10. taken[j] = [br EXCEPT !.pending = 0]
  BY <1>5, <1>9
<1> QED
  BY <1>1, <1>2, <1>5, <1>9, <1>10 DEF WholeReport, Serves, Reported, OneReported

LEMMA WholeOwner ==
    ASSUME MInv, SyncInv, Whole, NEW i \in Owned(WithExits),
           NEW j, j = WithExits.orders[i].ibkr, NEW q, q \in Chunks(broker[j].pending),
           broker' = TakeReport(broker, j, q), Whole'
    PROVE  /\ WholeReport(WithExits.orders[i], j, q) /\ i \in DOMAIN orders
           /\ DOMAIN broker' = DOMAIN broker
           /\ broker'[j] = Reported(broker[j])
           /\ \A l \in DOMAIN broker \ {j} : broker'[l] = broker[l]
<1>1. j \in DOMAIN broker' => broker'[j].pending \in {0, broker'[j].qty}
  BY DEF Whole
<1> QED
  BY <1>1, WholeTaken DEF OneReported

\* The report for row i is written; rows made up on the way name the same order.
Recorded(b, c, i) ==
    LET o == b.orders[i]
        w == c.orders[i]
    IN  /\ Typed(c) /\ DOMAIN b.orders \subseteq DOMAIN c.orders
        /\ \A l \in DOMAIN b.orders \ {i} : c.orders[l] = b.orders[l]
        /\ w.signal = o.signal /\ w.ibkr = o.ibkr /\ SameJob(w, o) /\ w.fillQty <= o.qty
        /\ o.role = "trail_stop" => w.status = "filled"
        /\ \A l \in DOMAIN c.orders \ DOMAIN b.orders :
              /\ c.orders[l].signal = None /\ c.orders[l].ibkr = o.ibkr
              /\ c.orders[l].status = "filled"

\* The report of an exit or of a trailing stop: the order is done, and what it closed
\* is gone from the position.
LEMMA CloserSync ==
    ASSUME IsFiniteSet(PosKeys), MInv, SyncInv, Whole, Whole',
           NEW i \in Owned(WithExits), NEW o, o = WithExits.orders[i], NEW j, j = o.ibkr,
           NEW q, q \in Chunks(broker[j].pending), broker' = TakeReport(broker, j, q),
           o.role # "entry", NEW c, c = WithExits', Recorded(WithExits, c, i),
           pos' = Moved(pos, o), posRows' = posRows,
           UNCHANGED cycleVars, ExitSound'
    PROVE  SyncInv'
<1> DEFINE b == WithExits
<1>1. /\ b.broker = broker /\ DOMAIN b.orders = DOMAIN orders /\ c.broker = broker'
      /\ Ledger(b, pos) /\ TrailsWork(b, stale) /\ pos \in [PosKeys -> Nat]
  BY StateBook, ExitTypes DEF SyncInv, WithExits
<1>0. /\ Typed(c) /\ DOMAIN orders \subseteq DOMAIN c.orders
      /\ \A l \in DOMAIN orders \ {i} : c.orders[l] = b.orders[l]
      /\ c.orders[i].signal = o.signal /\ c.orders[i].ibkr = j /\ SameJob(c.orders[i], o)
      /\ c.orders[i].fillQty <= o.qty
      /\ o.role = "trail_stop" => c.orders[i].status = "filled"
      /\ \A l \in DOMAIN c.orders \ DOMAIN orders :
            /\ c.orders[l].signal = None /\ c.orders[l].ibkr = j
            /\ c.orders[l].status = "filled"
  BY <1>1 DEF Recorded
<1>2. /\ WholeReport(o, j, q) /\ i \in DOMAIN orders
      /\ DOMAIN broker' = DOMAIN broker
      /\ broker'[j] = Reported(broker[j])
      /\ \A l \in DOMAIN broker \ {j} : broker'[l] = broker[l]
  BY WholeOwner
<1>3. /\ pos' = Moved(pos, o) /\ i \in Owned(b) /\ o = b.orders[i]
      /\ b.broker[j].pending = o.qty /\ ~b.broker[j].live
      /\ DOMAIN c.broker = DOMAIN b.broker /\ c.broker[j] = Reported(b.broker[j])
      /\ \A l \in DOMAIN b.broker \ {j} : c.broker[l] = b.broker[l]
      /\ DOMAIN b.orders \subseteq DOMAIN c.orders
      /\ \A l \in DOMAIN b.orders \ {i} : c.orders[l] = b.orders[l]
      /\ \A l \in DOMAIN c.orders \ DOMAIN b.orders :
            c.orders[l].signal = None /\ c.orders[l].ibkr = j
  BY <1>0, <1>1, <1>2 DEF WholeReport
<1>4. b = WithExits /\ c = WithExits'
  OBVIOUS
<1> HIDE DEF b
<1>5. /\ IsFiniteSet(PosKeys) /\ pos \in [PosKeys -> Nat] /\ Ledger(b, pos) /\ Typed(c)
      /\ j = o.ibkr /\ c.orders[i].signal = o.signal /\ c.orders[i].ibkr = j
      /\ SameJob(c.orders[i], o) /\ c.orders[i].fillQty <= o.qty
  BY <1>0, <1>1
<1>6. /\ Ledger(c, pos') /\ OpenRows(c) = OpenRows(b) \ {i} /\ i \in OpenRows(b)
      /\ o.key \in PosKeys /\ o.qty <= pos[o.key]
  <2>1. /\ Ledger(c, pos') /\ OpenRows(c) = OpenRows(b) \ {i} /\ i \in OpenRows(b)
        /\ o.key \in PosKeys /\ (o.role # "entry" => o.qty <= pos[o.key])
    BY ONLY <1>3, <1>5, FillSettles, SMTT(20)
  <2> QED BY <2>1
<1>7. ASSUME NEW l \in OpenRows(c)
      PROVE  l \in OpenRows(b) /\ l # i /\ l \in DOMAIN orders /\ c.orders[l] = b.orders[l]
  <2>1. l \in DOMAIN orders
    BY <1>1, <1>6 DEF OpenRows, Owned
  <2> QED BY <2>1, <1>1, <1>3, <1>6
<1>8. TrailsWork(c, stale')
  <2>1. ASSUME NEW l \in DOMAIN c.orders, c.orders[l].role = "trail_stop",
               c.orders[l].status \in InFlight, l # stale
        PROVE  l \in OpenRows(c)
    <3>1. c.orders[l].status # "filled"
      BY <2>1 DEF InFlight
    <3>2. l \in DOMAIN b.orders /\ l # i
      BY <3>1, <2>1, <1>0, <1>1 DEF SameJob
    <3>3. l \in OpenRows(b)
      BY <3>2, <2>1, <1>1, <1>3 DEF TrailsWork
    <3> QED BY <3>2, <3>3, <1>6
  <2>2. stale' = stale
    BY DEF cycleVars
  <2> QED BY <2>1, <2>2 DEF TrailsWork
<1>9. /\ pos' \in [PosKeys -> Nat] /\ pos'[o.key] = pos[o.key] - o.qty
      /\ \A k \in PosKeys : k # o.key => pos'[k] = pos[k]
      /\ \A k \in PosKeys : pos'[k] > 0 => pos[k] > 0
  <2>1. o.qty \in Nat /\ pos[o.key] \in Nat
    BY <1>1, <1>2, <1>6 DEF WholeReport, OrderRows
  <2>2. pos[o.key] - o.qty \in Nat
    BY <1>6, <2>1
  <2>3. /\ pos'[o.key] = pos[o.key] - o.qty /\ \A k \in PosKeys : k # o.key => pos'[k] = pos[k]
    BY <1>1, <1>6 DEF Moved
  <2>4. pos[o.key] - o.qty > 0 => pos[o.key] > 0
    BY <2>1
  <2>5. pos' \in [PosKeys -> Nat]
    BY <1>1, <1>6, <2>2 DEF Moved
  <2> QED BY <2>3, <2>4, <2>5
<1>10. ClosingSound'
  <2>1. ClosingSound
    BY DEF SyncInv
  <2>2. /\ NoneOpen(b, "entry") => NoneOpen(c, "entry")
        /\ NoneOpen(b, "exit") => NoneOpen(c, "exit")
        /\ NoneOpen(b, "trail_stop") => NoneOpen(c, "trail_stop")
    BY <1>7 DEF NoneOpen
  <2>3. OneHeld(pos) => OneHeld(pos')
    BY <1>9 DEF OneHeld
  <2>4. ASSUME NEW l \in Owned(c), l # i
        PROVE  /\ l \in Owned(b) /\ c.orders[l] = b.orders[l]
               /\ Ticket(b, l).pending = 0 => Ticket(c, l).pending = 0
    <3>1. l \in DOMAIN b.orders /\ c.orders[l] = b.orders[l] /\ l \in Owned(b)
      BY <2>4, <1>0, <1>1, <1>3 DEF Owned
    <3>2. b.orders[l].ibkr \in DOMAIN b.broker
      BY <3>1, <1>1 DEF Ledger, Owners
    <3>3. b.broker[j] \in BrokerOrders
      BY <1>1, <1>2 DEF Ledger, Owners, Typed, Tickets, WholeReport
    <3>4. c.broker[j].pending = 0
      BY <1>3, <3>3 DEF BrokerOrders, Reported
    <3> QED BY <3>1, <3>2, <3>4, <1>3 DEF Ticket
  <2>5. Ticket(c, i).pending = 0
    <3>1. b.broker[j] \in BrokerOrders
      BY <1>1, <1>2 DEF Ledger, Owners, Typed, Tickets, WholeReport
    <3>2. c.broker[j].pending = 0
      BY <3>1, <1>3 DEF BrokerOrders, Reported
    <3>3. c.orders[i].ibkr = j
      BY <1>5
    <3> QED BY <3>2, <3>3 DEF Ticket
  <2>6. (\A l \in Owned(b) : b.orders[l].role = "trail_stop" => Ticket(b, l).pending = 0)
        => (\A l \in Owned(c) : c.orders[l].role = "trail_stop" => Ticket(c, l).pending = 0)
    BY <2>4, <2>5
  <2>7. stage = "positions" =>
              \A x \in todo : /\ pos'[x.key] = x.qty
                              /\ \A l \in OpenRows(c) : c.orders[l].role = "exit"
                                                        => c.orders[l].key # x.key
    <3> SUFFICES ASSUME stage = "positions", NEW x \in todo
                 PROVE  /\ pos'[x.key] = x.qty
                        /\ \A l \in OpenRows(c) : c.orders[l].role = "exit"
                                                  => c.orders[l].key # x.key
      OBVIOUS
    <3>1. /\ pos[x.key] = x.qty /\ NoneOpen(b, "trail_stop")
          /\ \A l \in OpenRows(b) : b.orders[l].role = "exit" => b.orders[l].key # x.key
      BY <2>1, <1>4 DEF ClosingSound
    <3>2. o.role = "exit"
      <4>1. o.role \in Roles
        BY <1>2 DEF WholeReport, OrderRows
      <4>2. o.role # "trail_stop"
        BY <3>1, <1>3, <1>6 DEF NoneOpen
      <4> QED BY <4>1, <4>2 DEF Roles
    <3>3. x.key # o.key
      BY <3>1, <3>2, <1>3, <1>6
    <3>4. x.key \in PosKeys
      BY DEF MInv, CycleInv, MTypeOK
    <3> QED BY <3>1, <3>3, <3>4, <1>7, <1>9
  <2>8. \A l \in OpenRows(c) : l \in OpenRows(b) /\ c.orders[l] = b.orders[l]
    BY <1>7
  <2>9. stage' = stage /\ todo' = todo /\ WithExits' = c
    BY DEF cycleVars
  <2>10. /\ stage # "normal" => NoneOpen(c, "entry") /\ OneHeld(pos')
         /\ stage \in {"pre_close", "trails", "trails_done"} => NoneOpen(c, "exit")
         /\ stage \in {"pre_close", "trails"} =>
               \A l \in Owned(c) : c.orders[l].role = "trail_stop" => Ticket(c, l).pending = 0
         /\ stage = "trails" =>
               \A l \in OpenRows(c) : c.orders[l].role = "trail_stop" => l \in todo
         /\ stage \notin {"normal", "pre_close", "trails"} => NoneOpen(c, "trail_stop")
    BY <2>1, <2>2, <2>3, <2>6, <2>8, <1>4 DEF ClosingSound
  <2> QED BY <2>7, <2>9, <2>10 DEF ClosingSound, OneHeld
<1>11. (\A k \in PosKeys : pos[k] > 0 => k \in posRows)'
  BY <1>9 DEF SyncInv
<1> QED
  BY <1>4, <1>6, <1>8, <1>10, <1>11 DEF SyncInv

\* What a fill writes does not touch the exit in progress.
LEMMA RowsPatched ==
    ASSUME MInv, MInv', ExitSound, UNCHANGED cycleVars, DOMAIN orders \subseteq DOMAIN orders',
           \A l \in DOMAIN orders : /\ orders'[l].ibkr = orders[l].ibkr
                                    /\ orders'[l].signal = orders[l].signal
                                    /\ SameJob(orders'[l], orders[l]),
           NEW c, c = WithExits'
    PROVE  /\ ExitSound' /\ Typed(c) /\ DOMAIN c.orders = DOMAIN orders'
           /\ \A l \in DOMAIN orders : orders'[l] = orders[l] => c.orders[l] = WithExits.orders[l]
           /\ \A l \in DOMAIN orders' : orders'[l].ibkr # None => c.orders[l] = orders'[l]
<1>1. exit' = exit /\ stage' = stage
  BY DEF cycleVars
<1>2. \A e \in exit : e.row \in DOMAIN orders /\ e.ibkr \in Nat
  BY ExitTypes
<1>3. ExitSound'
  BY <1>1, <1>2 DEF ExitSound, SameJob
<1>4. /\ orders' \in Seq(OrderRows) /\ \A e, f \in exit : e = f
      /\ \A e \in exit : /\ e.row \in DOMAIN orders' /\ e.ibkr \in Nat
                         /\ orders'[e.row].ibkr \in {None, e.ibkr}
      /\ broker' \in Seq(BrokerOrders)
  BY <1>1, <1>2, <1>3 DEF ExitSound, MInv, CycleInv, MTypeOK, TypeOK
<1> DEFINE ps == Patch(orders', exit)
           qs == orders'
<1>5. c.orders = ps /\ c.broker = broker' /\ WithExits.orders = Patch(orders, exit)
  BY <1>1 DEF WithExits
<1>6. ps = Patch(qs, exit) /\ qs = orders'
  OBVIOUS
<1> HIDE DEF ps, qs
<1>7. /\ DOMAIN ps = DOMAIN qs /\ ps \in Seq(OrderRows)
      /\ \A l \in DOMAIN qs : qs[l].ibkr # None => ps[l] = qs[l]
  <2>1. /\ qs \in Seq(OrderRows) /\ \A e, f \in exit : e = f
        /\ \A e \in exit : /\ e.row \in DOMAIN qs /\ e.ibkr \in Nat
                           /\ qs[e.row].ibkr \in {None, e.ibkr}
    BY <1>4, <1>6
  <2> QED BY <1>6, <2>1, PatchReturns
<1>8. ASSUME NEW l \in DOMAIN orders, orders'[l] = orders[l]
      PROVE  c.orders[l] = WithExits.orders[l]
  <2>1. l \in DOMAIN qs /\ qs[l] = orders[l]
    BY <1>8, <1>6
  <2> QED BY <2>1, <1>5, <1>6, <1>8 DEF Patch
<1>9. Typed(c)
  <2>1. /\ DOMAIN broker' = 1 .. Len(broker') /\ Len(broker') \in Int /\ 1 \in Int
        /\ \A j \in DOMAIN broker' : broker'[j] \in BrokerOrders
    BY <1>4
  <2>2. IsFiniteSet(DOMAIN broker')
    BY <2>1, FS_Interval
  <2>3. \A l \in DOMAIN ps : ps[l] \in OrderRows
    BY <1>7
  <2> QED BY <2>1, <2>2, <2>3, <1>5 DEF Typed, Tickets
<1> QED
  BY <1>3, <1>5, <1>6, <1>7, <1>8, <1>9

\* The row a report is recorded on.
LEMMA ReportOwner ==
    ASSUME MInv, SyncInv, NEW i \in DOMAIN orders, NEW q, NEW x \in Nat, ReportOf(i, q, x)
    PROVE  /\ i \in Owned(WithExits) /\ WithExits.orders[i] = orders[i] /\ orders[i].ibkr # None
           /\ orders[i].signal # None /\ orders[i] \in OrderRows
           /\ q \in Chunks(broker[orders[i].ibkr].pending)
<1> DEFINE j == orders[i].ibkr
           b == WithExits
           n == CappedFill(orders[i], q + x)
<1> HIDE DEF j, n
<1>1. /\ j # None /\ j \in DOMAIN broker /\ q \in Nat \ {0} /\ q <= broker[j].pending
      /\ orders[i] \in OrderRows /\ q \in Chunks(broker[j].pending)
  <2>1. RouterInv /\ j = orders[i].ibkr /\ n = CappedFill(orders[i], q + x)
    BY DEF MInv, j, n
  <2>2. q \in Chunks(broker[j].pending)
    BY DEF ReportOf, j
  <2> QED BY <2>1, <2>2, ReportLinked
<1> USE DEF j
<1>2. b.orders[i] = orders[i] /\ i \in DOMAIN b.orders /\ b.broker = broker
  BY <1>1, StateBook DEF SyncInv
<1>3. orders[i].signal # None
  <2> SUFFICES ASSUME orders[i].signal = None PROVE FALSE
    OBVIOUS
  <2>1. Dead(Ticket(b, i))
    BY <1>2 DEF SyncInv, Ledger, Owners
  <2>2. broker[j].pending = 0
    BY <2>1, <1>2 DEF Dead, Ticket
  <2> QED BY <2>2, <1>1
<1> QED
  BY <1>1, <1>2, <1>3 DEF Owned

\* A report completes its row.
LEMMA WholeFill ==
    ASSUME NEW o, NEW j, NEW q, WholeReport(o, j, q), NEW x \in Nat,
           NEW n, n = CappedFill(o, q + x), NEW filled, filled = AfterFill(o, n)
    PROVE  /\ n = o.qty /\ n > 0 /\ filled \in OrderRows /\ filled.status = "filled"
           /\ filled.signal = o.signal /\ filled.ibkr = o.ibkr /\ SameJob(filled, o)
           /\ filled.fillQty = o.qty /\ n \in Nat \ {0}
<1>1. o \in OrderRows /\ q = o.qty /\ o.fillQty = 0 /\ o.qty \in Nat \ {0}
  BY DEF WholeReport, OrderRows
<1> DEFINE m == o.qty
<1>2. n = Lesser(q + x, m - 0)
  BY <1>1 DEF CappedFill, Remaining
<1>3. q = m /\ m \in Nat \ {0}
  BY <1>1
<1> HIDE DEF m
<1>4. n = m
  BY ONLY <1>2, <1>3, x \in Nat DEF Lesser
<1>5. n \in Nat /\ 0 + n >= m
  BY <1>3, <1>4
<1>6. /\ filled \in OrderRows
      /\ filled.signal = o.signal /\ filled.key = o.key /\ filled.role = o.role
      /\ filled.qty = o.qty /\ filled.ibkr = o.ibkr
      /\ filled.fillQty = o.fillQty + n
      /\ filled.status = IF o.fillQty + n >= o.qty THEN "filled" ELSE "partially_filled"
  <2>1. o \in OrderRows /\ n \in Nat /\ filled = AfterFill(o, n)
    BY <1>1, <1>5
  <2> QED BY ONLY <2>1, AfterFillReturns
<1> QED
  BY <1>1, <1>3, <1>4, <1>5, <1>6 DEF SameJob, m

LEMMA CloseFilledSync ==
    ASSUME IsFiniteSet(PosKeys), MInv, MInv', SyncInv, Whole, Whole',
           NEW i \in DOMAIN orders, NEW q, NEW x \in Nat, CloseFilled(i, q, x),
           UNCHANGED cycleVars
    PROVE  SyncInv'
<1> DEFINE o == orders[i]
           j == o.ibkr
           n == CappedFill(o, q + x)
           filled == AfterFill(o, n)
           c == WithExits'
<1>1. /\ ReportOf(i, q, x) /\ o.role # "entry"
      /\ orders' = [orders EXCEPT ![i] = filled]
      /\ pos' = [pos EXCEPT ![o.key] = Reduced(@, filled.fillQty)]
      /\ broker' = TakeReport(broker, j, q) /\ posRows' = posRows
  BY DEF CloseFilled, Taken
<1>2. /\ i \in Owned(WithExits) /\ WithExits.orders[i] = o /\ j # None
      /\ o.signal # None /\ o \in OrderRows /\ q \in Chunks(broker[j].pending)
  BY <1>1, ReportOwner
<1>3. WholeReport(o, j, q)
  <2>1. j = WithExits.orders[i].ibkr /\ WithExits.orders[i] = o
    BY <1>2
  <2>2. WholeReport(WithExits.orders[i], j, q)
    BY <1>1, <1>2, <2>1, WholeOwner
  <2> QED BY <2>1, <2>2
<1>4. /\ filled.status = "filled" /\ filled.signal = o.signal /\ filled.ibkr = j
      /\ SameJob(filled, o) /\ filled.fillQty = o.qty
  BY <1>3, WholeFill
<1>5. /\ c = WithExits' /\ filled = AfterFill(o, n)
  OBVIOUS
<1> HIDE DEF c, filled
<1>6. /\ orders'[i] = filled /\ \A l \in DOMAIN orders \ {i} : orders'[l] = orders[l]
      /\ DOMAIN orders' = DOMAIN orders
  BY <1>1
<1>7. ExitSound' /\ Typed(c) /\ DOMAIN c.orders = DOMAIN orders'
      /\ (\A l \in DOMAIN orders : orders'[l] = orders[l] => c.orders[l] = WithExits.orders[l])
      /\ (\A l \in DOMAIN orders' : orders'[l].ibkr # None => c.orders[l] = orders'[l])
  <2>1. /\ ExitSound /\ DOMAIN orders \subseteq DOMAIN orders'
        /\ \A l \in DOMAIN orders : /\ orders'[l].ibkr = orders[l].ibkr
                                    /\ orders'[l].signal = orders[l].signal
                                    /\ SameJob(orders'[l], orders[l])
    BY <1>4, <1>6 DEF SyncInv, SameJob
  <2> QED BY <2>1, <1>5, RowsPatched
<1>8. c.orders[i] = filled
  BY <1>2, <1>4, <1>6, <1>7
<1>9. pos' = Moved(pos, o)
  <2>1. pos \in [PosKeys -> Nat] /\ o.key \in PosKeys /\ o.qty \in Nat
    BY <1>3, ExitTypes DEF WholeReport, OrderRows
  <2>2. o.qty <= pos[o.key]
    <3>1. i \in OpenRows(WithExits)
      <4>1. MayFill(Ticket(WithExits, i))
        BY <1>2, <1>3, StateBook DEF SyncInv, WholeReport, MayFill, Ticket, OrderRows
      <4> QED BY <4>1, <1>2 DEF OpenRows
    <3> QED BY <3>1, <1>1, <1>2 DEF SyncInv, Ledger, Claims
  <2>3. Reduced(pos[o.key], filled.fillQty) = pos[o.key] - o.qty
    BY <2>1, <2>2, <1>4 DEF Reduced, Lesser
  <2> QED BY <2>3, <1>1 DEF Moved
<1>10. Recorded(WithExits, c, i)
  <2>1. \A l \in DOMAIN c.orders \ DOMAIN orders :
              /\ c.orders[l].signal = None /\ c.orders[l].ibkr = j
              /\ c.orders[l].status = "filled"
    BY <1>6, <1>7
  <2>2. \A l \in DOMAIN orders \ {i} : c.orders[l] = WithExits.orders[l]
    BY <1>6, <1>7
  <2>3. /\ c.orders[i].signal = o.signal /\ c.orders[i].ibkr = j /\ SameJob(c.orders[i], o)
        /\ c.orders[i].fillQty <= o.qty
        /\ (o.role = "trail_stop" => c.orders[i].status = "filled")
        /\ DOMAIN orders \subseteq DOMAIN c.orders
    <3>1. o.qty \in Nat
      BY <1>2 DEF OrderRows
    <3> QED BY <3>1, <1>4, <1>6, <1>7, <1>8
  <2>4. WithExits.orders[i] = o /\ j = o.ibkr /\ Typed(c)
        /\ DOMAIN WithExits.orders = DOMAIN orders
    BY <1>2, <1>7, StateBook DEF SyncInv
  <2> HIDE DEF o, j
  <2> QED BY <2>1, <2>2, <2>3, <2>4 DEF Recorded
<1> HIDE DEF o, j
<1>11. o = WithExits.orders[i] /\ j = o.ibkr
  BY <1>2 DEF j
<1> QED
  BY <1>1, <1>2, <1>5, <1>7, <1>9, <1>10, <1>11, CloserSync

\* No report is dropped, recorded without its position, or lost to a second row of it.
LEMMA EveryFillCounts ==
    ASSUME NoInterval \notin Intervals, IsFiniteSet(PosKeys), MInv, SyncInv, Whole, Whole',
           NEW i \in DOMAIN orders, NEW q, NEW x \in Nat,
           FillIgnored(i, q, x) \/ FillRecordedOnly(i, q, x) \/ FillLostToDuplicateRow(i, q, x)
    PROVE  FALSE
<1> DEFINE o == orders[i]
           j == o.ibkr
           n == CappedFill(o, q + x)
<1>1. ReportOf(i, q, x) /\ broker' = TakeReport(broker, j, q)
  BY DEF FillIgnored, FillRecordedOnly, FillLostToDuplicateRow, Taken
<1>2. /\ i \in Owned(WithExits) /\ WithExits.orders[i] = o /\ j # None
      /\ o.signal # None /\ o \in OrderRows /\ q \in Chunks(broker[j].pending)
  BY <1>1, ReportOwner
<1>3. WholeReport(o, j, q)
  <2>1. j = WithExits.orders[i].ibkr /\ WithExits.orders[i] = o
    BY <1>2
  <2>2. WholeReport(WithExits.orders[i], j, q)
    BY <1>1, <1>2, <2>1, WholeOwner
  <2> QED BY <2>1, <2>2
<1>4. n > 0 /\ n # 0 /\ AfterFill(o, n).status = "filled"
  BY <1>3, WholeFill
<1>5. o.key \in PosKeys /\ PosKey(o.key) = o.key /\ (MatchesPosition(o) <=> o.key \in posRows)
  BY <1>3, KeysAgree DEF WholeReport, MatchesPosition
<1>6. o.role # "entry" => o.key \in posRows
  <2> SUFFICES ASSUME o.role # "entry" PROVE o.key \in posRows
    OBVIOUS
  <2>1. i \in OpenRows(WithExits)
    <3>1. MayFill(Ticket(WithExits, i))
      BY <1>2, <1>3, StateBook DEF SyncInv, WholeReport, MayFill, Ticket, OrderRows
    <3> QED BY <3>1, <1>2 DEF OpenRows
  <2>2. o.qty <= pos[o.key]
    BY <2>1, <1>2 DEF SyncInv, Ledger, Claims
  <2>3. o.qty \in Nat \ {0} /\ pos[o.key] \in Nat
    BY <1>2, <1>5, ExitTypes DEF OrderRows
  <2>4. pos[o.key] > 0
    BY <2>2, <2>3
  <2> QED BY <2>4, <1>5 DEF SyncInv
<1> QED
  BY <1>4, <1>5, <1>6 DEF FillIgnored, FillRecordedOnly, FillLostToDuplicateRow

\* The fill of an order without a row: it is the exit whose id is not written yet, and
\* the position it shrinks is the one it was placed for.
LEMMA OrphanFillSync ==
    ASSUME IsFiniteSet(PosKeys), MInv, MInv', SyncInv, Whole, Whole',
           NEW j \in DOMAIN broker, NEW q, OrphanFill(j, q), UNCHANGED cycleVars
    PROVE  SyncInv'
<1> DEFINE br == broker[j]
           made == [NewRow(None, [symbol |-> br.symbol,
                                  dir |-> IF br.side = "SELL" THEN "long" ELSE "short",
                                  interval |-> NoInterval], "trail_stop", q, None)
                    EXCEPT !.ibkr = j, !.fillQty = q, !.status = "filled"]
           open == {k \in PosKeys : k.symbol = br.symbol /\ pos[k] > 0}
           b == WithExits
           c == WithExits'
           n == Len(orders) + 1
<1>1. /\ ~HasRow(j) /\ q \in Chunks(br.pending)
      /\ broker' = TakeReport(broker, j, q) /\ orders' = Append(orders, made)
      /\ open = {} \/ \E k \in open : pos' = [pos EXCEPT ![k] = Reduced(@, q)]
      /\ posRows' = posRows
  BY DEF OrphanFill
<1>2. /\ b.broker = broker /\ DOMAIN b.orders = DOMAIN orders /\ Ledger(b, pos)
      /\ ExitSound /\ ClosingSound
  BY StateBook DEF SyncInv
<1>3. PICK i \in Owned(b) : b.orders[i].ibkr = j
  BY <1>2 DEF Ledger, Owners
<1> DEFINE o == b.orders[i]
<1>4. i \in DOMAIN orders /\ o.role = "exit" /\ stage = "positions"
  <2>1. i \in DOMAIN orders /\ orders[i].ibkr # j
    BY <1>1, <1>2, <1>3 DEF HasRow, Owned
  <2>2. b.orders[i] # orders[i]
    BY <2>1, <1>3
  <2>3. PICK e \in exit : e.row = i
    BY <2>1, <2>2, <1>2, StateBook
  <2>4. orders[i].role = "exit" /\ stage = "positions"
    BY <2>3, <1>2 DEF ExitSound
  <2>5. SameJob(b.orders[i], orders[i])
    BY <2>1, <1>2, StateBook
  <2> QED BY <2>1, <2>4, <2>5 DEF SameJob
<1>5. WholeReport(o, j, q)
  BY <1>1, <1>3, WholeOwner
<1>6. /\ o.key \in PosKeys /\ q = o.qty /\ o.qty \in Nat \ {0} /\ o.key.symbol = br.symbol
      /\ o.qty <= pos[o.key] /\ pos[o.key] \in Nat /\ pos \in [PosKeys -> Nat]
      /\ o.fillQty = 0
  <2>1. o.key \in PosKeys /\ q = o.qty /\ o.qty \in Nat \ {0} /\ br.pending = o.qty
        /\ o.fillQty = 0
    BY <1>5 DEF WholeReport, OrderRows
  <2>2. Serves(o, br) /\ Ticket(b, i) = br
    BY <1>2, <1>3 DEF Ledger, Owners, Ticket
  <2>3. i \in OpenRows(b)
    BY <2>1, <2>2 DEF OpenRows, MayFill
  <2>4. o.qty <= pos[o.key]
    BY <2>3, <1>2, <1>4 DEF Ledger, Claims
  <2> QED BY <2>1, <2>2, <2>4, ExitTypes DEF Serves
<1>7. open = {o.key}
  <2>1. OneHeld(pos)
    BY <1>2, <1>4 DEF ClosingSound
  <2>2. pos[o.key] > 0
    BY <1>6
  <2> QED BY <2>1, <2>2, <1>6 DEF OneHeld
<1>8. pos' = Moved(pos, o)
  <2>1. pos' = [pos EXCEPT ![o.key] = Reduced(@, q)]
    BY <1>1, <1>7
  <2>2. Reduced(pos[o.key], q) = pos[o.key] - o.qty
    BY <1>6 DEF Reduced, Lesser
  <2> QED BY <2>1, <2>2, <1>4 DEF Moved
<1>9. /\ made.signal = None /\ made.ibkr = j /\ made.status = "filled"
  BY DEF NewRow
<1>10. j # None
  BY ExitTypes DEF None
<1> HIDE DEF made
<1>11. /\ DOMAIN orders' = DOMAIN orders \cup {n} /\ n \notin DOMAIN orders
       /\ orders'[n] = made /\ \A l \in DOMAIN orders : orders'[l] = orders[l]
  <2> DEFINE os == orders
             ns == orders'
             m == Len(os)
  <2>1. os \in Seq(OrderRows) /\ ns = Append(os, made) /\ m = Len(os)
    BY <1>1, ExitTypes
  <2> HIDE DEF os, ns, m
  <2>2. /\ DOMAIN ns = DOMAIN os \cup {m + 1} /\ m + 1 \notin DOMAIN os
        /\ ns[m + 1] = made /\ \A l \in DOMAIN os : ns[l] = os[l]
    BY ONLY <2>1
  <2> QED BY <2>2 DEF os, ns, m
<1>12. c = WithExits'
  OBVIOUS
<1> HIDE DEF c, n
<1>13. ExitSound' /\ Typed(c) /\ DOMAIN c.orders = DOMAIN orders'
      /\ (\A l \in DOMAIN orders : orders'[l] = orders[l] => c.orders[l] = WithExits.orders[l])
      /\ (\A l \in DOMAIN orders' : orders'[l].ibkr # None => c.orders[l] = orders'[l])
  <2>1. /\ ExitSound /\ DOMAIN orders \subseteq DOMAIN orders'
        /\ \A l \in DOMAIN orders : /\ orders'[l].ibkr = orders[l].ibkr
                                    /\ orders'[l].signal = orders[l].signal
                                    /\ SameJob(orders'[l], orders[l])
    BY <1>2, <1>11 DEF SameJob
  <2> QED BY <2>1, <1>12, RowsPatched
<1>14. Recorded(WithExits, c, i)
  <2>1. \A l \in DOMAIN c.orders \ DOMAIN orders :
              /\ c.orders[l].signal = None /\ c.orders[l].ibkr = j
              /\ c.orders[l].status = "filled"
    BY <1>9, <1>10, <1>11, <1>13
  <2>2. \A l \in DOMAIN orders : c.orders[l] = b.orders[l]
    BY <1>11, <1>13
  <2>3. c.orders[i] = o /\ o.fillQty <= o.qty
    BY <2>2, <1>4, <1>6
  <2>4. DOMAIN b.orders \subseteq DOMAIN c.orders
    BY <1>2, <1>11, <1>13
  <2> QED BY <2>1, <2>2, <2>3, <2>4, <1>2, <1>3, <1>4, <1>13 DEF Recorded, SameJob
<1> HIDE DEF o
<1>15. i \in Owned(WithExits) /\ o = WithExits.orders[i] /\ j = o.ibkr /\ o.role # "entry"
  BY <1>3, <1>4 DEF o
<1> QED
  BY <1>1, <1>8, <1>12, <1>13, <1>14, <1>15, CloserSync

\* A trailing stop that was placed is in flight and may fill, one that was refused
\* neither.
LEMMA TrailAdded ==
    ASSUME NEW b \in Books, NEW p, Ledger(b, p), TrailsWork(b, None), NEW row \in OrderRows,
           row.signal # None, row.fillQty = 0, row.key \in PosKeys, row.role # "entry",
           NEW ok \in BOOLEAN, Fits(b, p, row), NEW c, c = Submit(b, row, ok)
    PROVE  Ledger(c, p) /\ TrailsWork(c, None) /\ c \in Books
<1> DEFINE n == Len(b.orders) + 1
<1>1. SubmitEffect(b, c, row) /\ Owners(b) /\ n = Len(b.orders) + 1
  BY SubmitReturns DEF Ledger
<1>2. Ledger(c, p)
  BY <1>1, LedgerAdded
<1>3. Refused(b, c, c.orders[n]) \/ Accepted(b, c, c.orders[n])
  BY <1>1 DEF SubmitEffect
<1>4. Len(b.broker) \in Nat
  BY DEF Books
<1> HIDE DEF n
<1>5. /\ c \in Books /\ n \notin DOMAIN b.orders /\ DOMAIN c.orders = DOMAIN b.orders \cup {n}
      /\ \A i \in DOMAIN b.orders : c.orders[i] = b.orders[i]
      /\ OpenRows(c) = IF c.orders[n].ibkr = None THEN OpenRows(b) ELSE OpenRows(b) \cup {n}
  BY <1>1, OwnersSubmit
<1>6. c.orders[n].ibkr = None => c.orders[n].status \notin InFlight
  BY <1>3, <1>4 DEF Refused, Accepted, InFlight, None
<1>7. TrailsWork(c, None)
  <2>1. ASSUME NEW i \in DOMAIN c.orders, c.orders[i].role = "trail_stop",
               c.orders[i].status \in InFlight, i # None
        PROVE  i \in OpenRows(c)
    <3>1. CASE i = n
      BY <3>1, <2>1, <1>5, <1>6
    <3>2. CASE i # n
      BY <3>2, <2>1, <1>5 DEF TrailsWork
    <3> QED BY <3>1, <3>2
  <2> QED BY <2>1 DEF TrailsWork
<1> QED
  BY <1>2, <1>5, <1>7

\* An entry is complete: the position has it all, and a trailing stop for all of it fits.
LEMMA EntryFilledSync ==
    ASSUME NoInterval \notin Intervals, IsFiniteSet(PosKeys), MInv, QuietInv, SyncInv,
           Whole, Whole', NEW i \in DOMAIN orders, NEW q, NEW x \in Nat,
           NEW trailOk \in BOOLEAN, EntryFilled(i, q, x, trailOk), UNCHANGED cycleVars
    PROVE  SyncInv'
<1> DEFINE o == orders[i]
           j == o.ibkr
           n == CappedFill(o, q + x)
           filled == AfterFill(o, n)
           k == PosKey(o.key)
           b == [orders |-> [orders EXCEPT ![i] = filled], broker |-> Taken(i, q)]
           trail == NewRow(o.signal, o.key, "trail_stop", filled.fillQty, i)
           ok == connected /\ trailOk
           placed == Submit(b, trail, ok)
<1>1. /\ ReportOf(i, q, x) /\ n > 0 /\ o.role = "entry"
      /\ pos' = [pos EXCEPT ![k] = @ + filled.fillQty]
      /\ posRows' = posRows \cup {k}
      /\ SetBook(IF DisableTrail THEN b ELSE placed)
  BY DEF EntryFilled, EntryRecorded, FilledBook, WithStop
<1>2. /\ i \in Owned(WithExits) /\ WithExits.orders[i] = o /\ j # None
      /\ o.signal # None /\ o \in OrderRows /\ q \in Chunks(broker[j].pending)
  BY <1>1, ReportOwner
<1> DEFINE taken == Taken(i, q)
<1>3. Linked(b) /\ b \in Books /\ DOMAIN taken = DOMAIN broker
  <2>1. Linked(b)
    BY <1>1, RecordedLinks DEF MInv
  <2>2. taken = TakeReport(broker, j, q)
    BY DEF Taken
  <2> QED BY <2>1, <2>2 DEF Linked, TakeReport
<1>4. b.broker = taken /\ b.orders = [orders EXCEPT ![i] = filled]
      /\ taken = TakeReport(broker, j, q) /\ b = [orders |-> b.orders, broker |-> b.broker]
  BY DEF Taken
<1>5. o.key \in OrderKeys /\ o.signal \in Nat /\ i \in Nat
  BY <1>2, ExitTypes DEF OrderRows
<1> HIDE DEF b, taken
<1>6. placed = Submit(b, trail, ok) /\ filled = AfterFill(o, n) /\ n = CappedFill(o, q + x)
  OBVIOUS
<1> HIDE DEF placed, filled, n
<1>7. /\ n \in Nat \ {0} /\ filled.fillQty \in Nat \ {0}
  <2>1. n \in Nat
    BY <1>1, <1>6, ReportLinked DEF MInv
  <2>2. filled.fillQty = o.fillQty + n /\ o.fillQty \in Nat
    BY <2>1, <1>2, <1>6, AfterFillReturns DEF OrderRows
  <2> QED BY <2>1, <2>2, <1>1
<1>8. /\ trail \in OrderRows /\ trail.fillQty = 0 /\ trail.role = "trail_stop"
      /\ trail.key = o.key /\ trail.signal = o.signal /\ trail.qty = filled.fillQty
      /\ ok \in BOOLEAN
  <2>1. "trail_stop" \in Roles
    BY DEF Roles
  <2>2. trail.qty = filled.fillQty /\ connected \in BOOLEAN
    BY DEF NewRow, MInv, RouterInv, TypeOK
  <2> HIDE DEF o
  <2> QED BY <2>1, <2>2, <1>5, <1>7, NewRowType
<1> HIDE DEF trail, ok
<1>9. SubmitEffect(b, placed, trail)
  BY <1>3, <1>6, <1>8, SubmitReturns
<1>10. Book' = (IF DisableTrail THEN b ELSE placed) /\ broker' = Book'.broker /\ placed \in Books
  BY <1>1, <1>3, <1>9, NextBook DEF SubmitEffect, Book
<1>11. \A l \in DOMAIN taken : l \in DOMAIN broker' /\ broker'[l] = taken[l]
  <2>1. \A l \in DOMAIN b.broker : l \in DOMAIN placed.broker /\ placed.broker[l] = b.broker[l]
    <3>1. CASE Refused(b, placed, placed.orders[Len(b.orders) + 1])
      BY <3>1 DEF Refused
    <3>2. CASE Accepted(b, placed, placed.orders[Len(b.orders) + 1])
      <4> DEFINE m == Len(b.broker)
                 u == Len(placed.broker)
      <4>1. /\ u = m + 1 /\ m \in Nat /\ DOMAIN b.broker = 1 .. m /\ DOMAIN placed.broker = 1 .. u
            /\ \A l \in DOMAIN b.broker : placed.broker[l] = b.broker[l]
        BY <3>2, <1>3, <1>10 DEF Accepted, Books
      <4> HIDE DEF m, u
      <4> QED BY <4>1
    <3> QED BY <3>1, <3>2, <1>9 DEF SubmitEffect
  <2> QED BY <2>1, <1>4, <1>10
<1>12. j \in DOMAIN taken => taken[j].pending \in {0, taken[j].qty}
  BY <1>11 DEF Whole
<1>13. /\ WholeReport(o, j, q)
       /\ DOMAIN taken = DOMAIN broker
       /\ taken[j] = Reported(broker[j])
       /\ \A l \in DOMAIN broker \ {j} : taken[l] = broker[l]
  <2>1. o = WithExits.orders[i] /\ j = WithExits.orders[i].ibkr
    BY <1>2
  <2>2. /\ MInv /\ SyncInv /\ Whole /\ i \in Owned(WithExits) /\ j = WithExits.orders[i].ibkr
        /\ q \in Chunks(broker[j].pending) /\ taken = TakeReport(broker, j, q)
        /\ j \in DOMAIN taken => taken[j].pending \in {0, taken[j].qty}
    BY <2>1, <1>2, <1>4, <1>12
  <2> HIDE DEF o, j
  <2>3. WholeReport(WithExits.orders[i], j, q) /\ OneReported(broker, taken, j)
    BY ONLY <2>2, WholeTaken
  <2> QED BY <2>1, <2>3 DEF OneReported
<1>14. /\ n = o.qty /\ filled \in OrderRows /\ filled.status = "filled"
       /\ filled.signal = o.signal /\ filled.ibkr = o.ibkr /\ SameJob(filled, o)
       /\ filled.fillQty = o.qty
  BY <1>13, <1>6, WholeFill
<1>15. k = o.key /\ o.key \in PosKeys
  BY <1>13, KeysAgree DEF WholeReport
<1>16. stage = "normal" /\ exit = {} /\ stale = None /\ WithExits = Book
  <2>1. i \in OpenRows(WithExits)
    <3>1. MayFill(Ticket(WithExits, i))
      BY <1>2, <1>13, StateBook DEF SyncInv, WholeReport, MayFill, Ticket, OrderRows
    <3> QED BY <3>1, <1>2 DEF OpenRows
  <2>2. stage = "normal"
    BY <2>1, <1>1, <1>2 DEF SyncInv, ClosingSound, NoneOpen
  <2>3. exit = {} /\ stale = None
    BY <2>2 DEF SyncInv, ExitSound, QuietInv, QuietCycle
  <2> QED BY <2>2, <2>3, StateBook DEF SyncInv
<1>17. /\ Ledger(Book, pos) /\ TrailsWork(Book, None) /\ pos \in [PosKeys -> Nat]
       /\ Book.orders = orders /\ Book.broker = broker /\ i \in Owned(Book)
  BY <1>2, <1>16, ExitTypes DEF SyncInv, Book
<1>18. /\ b.orders[i] = filled /\ \A l \in DOMAIN orders \ {i} : b.orders[l] = orders[l]
       /\ DOMAIN b.orders = DOMAIN orders
  BY <1>4
<1>19. pos' = Moved(pos, o)
  BY <1>1, <1>14, <1>15 DEF Moved
<1>20. /\ Ledger(b, pos') /\ pos' \in [PosKeys -> Nat]
       /\ OpenRows(b) = OpenRows(Book) \ {i} /\ i \in OpenRows(Book)
  <2>1. Typed(b)
    BY <1>3, <1>13, <1>17, TypedBook
  <2>2. /\ IsFiniteSet(PosKeys) /\ pos \in [PosKeys -> Nat] /\ Ledger(Book, pos) /\ Typed(b)
        /\ i \in Owned(Book) /\ o = Book.orders[i] /\ j = o.ibkr
        /\ Book.broker[j].pending = o.qty /\ ~Book.broker[j].live
        /\ DOMAIN b.broker = DOMAIN Book.broker /\ b.broker[j] = Reported(Book.broker[j])
        /\ \A l \in DOMAIN Book.broker \ {j} : b.broker[l] = Book.broker[l]
        /\ DOMAIN Book.orders \subseteq DOMAIN b.orders
        /\ \A l \in DOMAIN Book.orders \ {i} : b.orders[l] = Book.orders[l]
        /\ b.orders[i].signal = o.signal /\ b.orders[i].ibkr = j /\ SameJob(b.orders[i], o)
        /\ b.orders[i].fillQty <= o.qty
        /\ \A l \in DOMAIN b.orders \ DOMAIN Book.orders :
              b.orders[l].signal = None /\ b.orders[l].ibkr = j
    <3>1. o.qty \in Nat
      BY <1>2 DEF OrderRows
    <3> QED BY <2>1, <3>1, <1>4, <1>13, <1>14, <1>17, <1>18 DEF WholeReport
  <2> HIDE DEF o, j
  <2>3. /\ Ledger(b, pos') /\ pos' \in [PosKeys -> Nat]
        /\ OpenRows(b) = OpenRows(Book) \ {i} /\ i \in OpenRows(Book)
    BY ONLY <1>19, <2>2, FillSettles, SMTT(20)
  <2> QED BY <2>3
<1>21. TrailsWork(b, None)
  <2>1. ASSUME NEW l \in DOMAIN b.orders, b.orders[l].role = "trail_stop",
               b.orders[l].status \in InFlight, l # None
        PROVE  l \in OpenRows(b)
    <3>1. l # i /\ b.orders[l] = orders[l] /\ l \in DOMAIN orders
      BY <2>1, <1>1, <1>14, <1>18 DEF SameJob
    <3>2. l \in OpenRows(Book)
      BY <3>1, <2>1, <1>17 DEF TrailsWork
    <3> QED BY <3>1, <3>2, <1>20
  <2> QED BY <2>1 DEF TrailsWork
<1>22. Fits(b, pos', trail)
  <2>1. /\ pos'[o.key] = pos[o.key] + o.qty /\ pos[o.key] \in Nat /\ o.qty \in Nat
    BY <1>1, <1>2, <1>15, <1>17, <1>19 DEF Moved, OrderRows
  <2>2. ASSUME NEW l \in OpenRows(b), b.orders[l].key = o.key
        PROVE  Compatible(trail, b.orders[l], pos'[o.key]) /\ Compatible(b.orders[l], trail, pos'[o.key])
    <3>1. l \in OpenRows(Book) /\ l # i /\ b.orders[l] = orders[l] /\ orders[l] \in OrderRows
      <4>1. l \in OpenRows(Book) /\ l # i
        BY <2>2, <1>20
      <4>2. l \in DOMAIN orders
        BY <4>1, <1>17 DEF OpenRows, Owned
      <4> QED BY <4>1, <4>2, <1>18, ExitTypes
    <3>2. Compatible(o, orders[l], pos[o.key])
      BY <3>1, <2>2, <1>17, <1>20 DEF Ledger, Claims
    <3>3. orders[l].role = "exit"
      BY <3>2, <1>1 DEF Compatible
    <3>4. orders[l].qty <= pos[o.key]
      BY <3>1, <3>3, <2>2, <1>17 DEF Ledger, Claims
    <3> DEFINE u == orders[l].qty
               v == pos[o.key]
               m == o.qty
    <3>5. u \in Nat /\ v \in Nat /\ m \in Nat /\ u <= v
      BY <3>1, <3>4, <2>1 DEF OrderRows
    <3> HIDE DEF u, v, m
    <3>6. m + u <= v + m /\ u + m <= v + m
      BY <3>5
    <3> QED BY <3>1, <3>3, <3>6, <2>1, <1>8, <1>14 DEF Compatible, u, v, m
  <2>3. o.qty <= pos'[o.key]
    BY <2>1
  <2> QED BY <2>2, <2>3, <1>8, <1>14 DEF Fits
<1>23. \A l \in PosKeys : pos'[l] > 0 => l \in posRows'
  <2>1. \A l \in PosKeys : l # o.key => pos'[l] = pos[l]
    BY <1>15, <1>17, <1>19 DEF Moved
  <2> QED BY <2>1, <1>1, <1>15 DEF SyncInv
<1>24. stage' = "normal" /\ exit' = {} /\ stale' = None
  BY <1>16 DEF cycleVars
<1>25. CASE DisableTrail
  BY <1>3, <1>10, <1>20, <1>21, <1>23, <1>24, <1>25, NormalSync
<1>26. CASE ~DisableTrail
  <2>1. /\ b \in Books /\ Ledger(b, pos') /\ TrailsWork(b, None) /\ trail \in OrderRows
        /\ trail.signal # None /\ trail.fillQty = 0 /\ trail.key \in PosKeys
        /\ trail.role # "entry" /\ ok \in BOOLEAN /\ Fits(b, pos', trail)
        /\ placed = Submit(b, trail, ok)
    BY <1>2, <1>3, <1>6, <1>8, <1>15, <1>20, <1>21, <1>22
  <2>2. Ledger(placed, pos') /\ TrailsWork(placed, None) /\ placed \in Books
    BY ONLY <2>1, TrailAdded
  <2> QED BY <2>2, <1>10, <1>23, <1>24, <1>26, NormalSync
<1> QED
  BY <1>25, <1>26

LEMMA FillSync ==
    ASSUME NoInterval \notin Intervals, IsFiniteSet(PosKeys), MInv, MInv', QuietInv, SyncInv,
           Whole, Whole', HandleFill, UNCHANGED cycleVars
    PROVE  SyncInv'
<1>1. CASE UnknownFill
  BY <1>1, OrphanFillSync DEF UnknownFill
<1>2. CASE KnownFill
  <2>1. PICK i \in DOMAIN orders, x \in 0 .. MaxOverstatement :
           \E q :
              \/ FillIgnored(i, q, x) \/ FillRecordedOnly(i, q, x)
              \/ \E trailOk \in BOOLEAN : EntryFilled(i, q, x, trailOk)
              \/ FillLostToDuplicateRow(i, q, x) \/ CloseFilled(i, q, x)
    <3>1. \A fail : ("trail" \notin fail) \in BOOLEAN
      OBVIOUS
    <3> QED BY <1>2, <3>1 DEF KnownFill
  <2>2. x \in Nat
    BY LimitsAssumption
  <2>3. ASSUME NEW q, FillIgnored(i, q, x) \/ FillRecordedOnly(i, q, x)
                      \/ FillLostToDuplicateRow(i, q, x)
        PROVE  SyncInv'
    BY <2>2, <2>3, EveryFillCounts
  <2>4. ASSUME NEW q, CloseFilled(i, q, x) PROVE SyncInv'
    BY <2>2, <2>4, CloseFilledSync
  <2>5. ASSUME NEW q, NEW trailOk \in BOOLEAN, EntryFilled(i, q, x, trailOk) PROVE SyncInv'
    BY <2>2, <2>5, EntryFilledSync
  <2> QED BY <2>1, <2>3, <2>4, <2>5
<1> QED
  BY <1>1, <1>2 DEF HandleFill

----------------------------------------------------------------------------
(* The theorems.                                                            *)

LEMMA SyncInit ==
    ASSUME IsFiniteSet(PosKeys), MInit
    PROVE  SyncInv
<1>1. /\ orders = <<>> /\ broker = <<>> /\ pos = [k \in PosKeys |-> 0]
      /\ exit = {} /\ stage = "normal" /\ stale = None
  BY DEF MInit, Init
<1>2. WithExits.orders = <<>> /\ WithExits.broker = <<>>
  <2>1. orders \in Seq(OrderRows)
    BY <1>1
  <2>2. Patch(orders, {}) = orders
    BY <2>1, PatchNothing
  <2> QED BY <1>1, <2>2 DEF WithExits
<1> DEFINE b == WithExits
<1>3. DOMAIN b.orders = {} /\ DOMAIN b.broker = {}
  BY <1>2
<1> HIDE DEF b
<1>4. Typed(b)
  BY <1>3, FS_EmptySet DEF Typed, Tickets
<1>5. Owners(b) /\ OpenRows(b) = {}
  BY <1>3, <1>4 DEF Owners, OpenRows, Owned
<1>6. Claims(b, pos) /\ OneStays(b, pos)
  <2>1. \A k \in PosKeys : ~(pos[k] > 0)
    BY <1>1
  <2> QED BY <2>1, <1>5 DEF Claims, OneStays, Stays
<1>7. Balanced(b, pos)
  <2> SUFFICES ASSUME NEW s \in Symbols PROVE PosNet(pos, s) = ToldNet(b, s)
    BY DEF Balanced
  <2> DEFINE f == [k \in PosKeys |-> Holds(pos, k)]
             g == [j \in DOMAIN b.broker |-> Told(b.broker[j])]
             S == KeysOf(s)
             T == OrdersOf(b, s)
  <2>1. IsFiniteSet(S) /\ \A k \in S : f[k] = 0
    <3>1. IsFiniteSet(S)
      BY FS_Subset DEF KeysOf
    <3>2. \A k \in S : k \in PosKeys /\ pos[k] = 0
      BY <1>1 DEF KeysOf
    <3> QED BY <3>1, <3>2 DEF Holds
  <2>2. IsFiniteSet(T) /\ \A j \in T : g[j] = 0
    BY <1>3, FS_EmptySet DEF OrdersOf
  <2>3. PosNet(pos, s) = SumOver(f, S) /\ ToldNet(b, s) = SumOver(g, T)
    BY DEF PosNet, ToldNet
  <2> HIDE DEF f, g, S, T
  <2> QED BY <2>1, <2>2, <2>3, SumZero
<1>8. Ledger(b, pos) /\ TrailsWork(b, stale)
  BY <1>3, <1>5, <1>6, <1>7 DEF Ledger, TrailsWork
<1> QED
  BY <1>1, <1>8 DEF SyncInv, ExitSound, ClosingSound, b

LEMMA QuietNextSync ==
    ASSUME NoInterval \notin Intervals, IsFiniteSet(PosKeys), ClosesTaken, OnePerSymbol,
           MInv, MInv', QuietInv, SyncInv, Whole, Whole', [QuietNext]_allVars
    PROVE  SyncInv'
<1>1. CASE Quiet /\ EnterPreClose
  BY <1>1, EnterPreCloseSync DEF Quiet
<1>2. CASE PassGate \/ QueuePassed
  BY <1>2, StageSync
<1>3. CASE CycleStep
  <2>1. CASE \/ Drained("trails", "trails_done") \/ ReadPositions
             \/ Drained("positions", "positions_done")
             \/ ReadEntries \/ Verify \/ StopWaiting \/ EnterMaintenance \/ ExitMaintenance
    BY <2>1, StageSync
  <2>2. CASE ReadTrails
    BY <2>2, ReadTrailsSync
  <2>3. ASSUME NEW fail \in Failures, CancelOrder(fail) PROVE SyncInv'
    <3>1. "cancelSame" \notin fail
      BY <2>3 DEF ClosesTaken
    <3> QED BY <3>1, <2>3, CancelOrderSync
  <2>4. ASSUME NEW fail \in Failures, PlaceExit(fail) PROVE SyncInv'
    BY <2>4, PlaceExitSync
  <2>5. CASE CancelCommit
    BY <2>5, CancelCommitSync
  <2>6. CASE RecordExitId
    BY <2>6, RecordExitIdSync
  <2> QED BY <1>3, <2>1, <2>2, <2>3, <2>4, <2>5, <2>6 DEF CycleStep
<1>4. CASE Settled /\ HandleSignal /\ UNCHANGED cycleVars
  BY <1>4, SignalSync
<1>5. CASE HandleFill /\ UNCHANGED cycleVars
  BY <1>5, FillSync
<1>6. CASE QuietExecute /\ UNCHANGED cycleVars
  BY <1>6, ExecuteSync DEF QuietExecute
<1>7. CASE (\E j \in DOMAIN broker : ConfirmCancel(j)) /\ UNCHANGED cycleVars
  BY <1>7, ConfirmSync
<1>8. CASE UNCHANGED allVars
  <2>1. /\ UNCHANGED <<orders, broker, pos, posRows, stale, stage, todo, exit>>
    BY <1>8 DEF allVars, vars, bookVars, dbVars, cycleVars
  <2>2. WithExits' = WithExits
    BY <2>1 DEF WithExits
  <2>3. ExitSound' /\ ClosingSound'
    BY <2>1, <2>2 DEF SyncInv, ExitSound, ClosingSound, OneHeld
  <2> QED BY <2>1, <2>3, SameBookSync
<1> QED
  BY <1>1, <1>2, <1>3, <1>4, <1>5, <1>6, <1>7, <1>8 DEF QuietNext

LEMMA SyncInvariantHolds ==
    ASSUME NoInterval \notin Intervals, IsFiniteSet(PosKeys), ClosesTaken, OnePerSymbol
    PROVE  QuietSpec /\ []Whole => [](MInv /\ QuietInv /\ SyncInv)
<1>1. MInit => MInv /\ QuietInv /\ SyncInv
  BY MInitInv, MInitQuiet, SyncInit
<1>2. MInv /\ QuietInv /\ SyncInv /\ Whole /\ Whole' /\ [QuietNext]_allVars
         => (MInv /\ QuietInv /\ SyncInv)'
  <2>1. MInv /\ QuietInv /\ [QuietNext]_allVars => MInv' /\ QuietInv'
    BY QuietSteps, MNextInv, QuietNextInv
  <2> QED BY <2>1, QuietNextSync
<1> QED
  BY <1>1, <1>2, PTL DEF QuietSpec

\* With every report taken, the broker's net position is what the orders were told of.
LEMMA NetHeld ==
    ASSUME IsFiniteSet(PosKeys), MInv, SyncInv, Settled, NEW s \in Symbols
    PROVE  Held(s) = Net(s) /\ Held(s) = PosNet(pos, s)
<1>1. Held(s) = PosNet(pos, s)
  BY HeldIs
<1>2. Net(s) = ToldNet(Book, s)
  BY NetIs, ExitTypes DEF Settled
<1>3. ToldNet(Book, s) = ToldNet(WithExits, s)
  BY DEF ToldNet, OrdersOf, WithExits, Book
<1> QED
  BY <1>1, <1>2, <1>3 DEF SyncInv, Ledger, Balanced

\* In a quiet market, once everything has settled, the database holds, symbol by symbol,
\* what the broker holds: no fill is counted twice, taken for another order or missed,
\* although the sequence's exits race with trailing stops and get their ids after their
\* fills may have come, and although orders are refused.  Alerts carry an interval,
\* closing cancels and the router's own exits succeed, a symbol has one position at a
\* time, and orders execute at once.
THEOREM QuietPositionsInSync ==
    ASSUME NoInterval \notin Intervals, IsFiniteSet(Symbols), IsFiniteSet(Intervals),
           ClosesTaken, OnePerSymbol
    PROVE  QuietSpec /\ []Whole => []PositionsInSync
<1>1. IsFiniteSet(PosKeys)
  BY FiniteKeys
<1>2. MInv /\ SyncInv => PositionsInSync
  BY <1>1, NetHeld DEF PositionsInSync
<1> QED
  BY <1>1, <1>2, SyncInvariantHolds, PTL

\* In a quiet market, when the sequence is done and everything has settled, the broker
\* holds nothing and no order works, or the dashboard was alerted: exits that were
\* refused and trailing stops that were not cancelled never leave a position or an order
\* behind in silence.  The conditions are those of QuietPositionsInSync.
THEOREM QuietAlertOrFlat ==
    ASSUME NoInterval \notin Intervals, IsFiniteSet(Symbols), IsFiniteSet(Intervals),
           ClosesTaken, OnePerSymbol
    PROVE  QuietSpec /\ []Whole => []AlertOrFlat
<1>1. IsFiniteSet(PosKeys)
  BY FiniteKeys
<1>2. ASSUME MInv, QuietInv, SyncInv PROVE AlertOrFlat
  <2> SUFFICES ASSUME stage \in {"closed", "maintenance"}, Settled, outcome # "failed"
               PROVE  Flat
    BY DEF AlertOrFlat
  <2>1. \A k \in PosKeys : pos[k] = 0
    <3>1. OpenPositions = {}
      BY <1>2 DEF QuietInv, QuietCycle
    <3>2. \A k \in PosKeys : ~(pos[k] > 0)
      BY <3>1 DEF OpenPositions
    <3> QED BY <1>2, <3>2, ExitTypes
  <2>2. ASSUME NEW s \in Symbols PROVE Net(s) = 0
    <3> DEFINE f == [k \in PosKeys |-> Holds(pos, k)]
               S == KeysOf(s)
    <3>1. IsFiniteSet(S) /\ \A k \in S : f[k] = 0
      BY <1>1, <2>1, FS_Subset DEF KeysOf, Holds
    <3>2. PosNet(pos, s) = SumOver(f, S)
      BY DEF PosNet
    <3> HIDE DEF f, S
    <3>3. PosNet(pos, s) = 0
      BY <3>1, <3>2, SumZero
    <3> QED BY <1>1, <1>2, <3>3, NetHeld
  <2>3. ASSUME NEW j \in DOMAIN broker, Working(j) PROVE FALSE
    <3>1. WithExits = Book /\ Book.orders = orders /\ Book.broker = broker
      BY <1>2, StateBook DEF SyncInv, ExitSound, Book
    <3>2. Ledger(Book, pos) /\ NoneOpen(Book, "trail_stop")
      BY <1>2, <3>1 DEF SyncInv, ClosingSound
    <3>3. PICK i \in Owned(Book) : orders[i].ibkr = j
      BY <3>1, <3>2 DEF Ledger, Owners
    <3>4. i \in DOMAIN orders /\ orders[i].ibkr # None
      BY <3>1, <3>3 DEF Owned
    <3>5. orders[i].role = "trail_stop"
      BY <2>3, <3>3, <3>4 DEF Settled, Working
    <3>6. i \in OpenRows(Book)
      BY <2>3, <3>1, <3>3 DEF OpenRows, Ticket, MayFill, Working
    <3> QED BY <3>1, <3>2, <3>5, <3>6 DEF NoneOpen
  <2> QED BY <2>2, <2>3 DEF Flat
<1> QED
  BY <1>1, <1>2, SyncInvariantHolds, PTL
=============================================================================
