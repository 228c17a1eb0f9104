--------------------------- MODULE OrderRowsProofs ---------------------------
(***************************************************************************)
(* What becomes of an order row over its life, for every instance of       *)
(* OrderRouter: no row is lost or reopened, an entry is replaced before a  *)
(* newer one of its key works, and a filled entry has one trailing stop at *)
(* most.                                                                   *)
(*                                                                         *)
(* A signal's handler first cancels rows in flight and places exits        *)
(* (Arranged), then places at most one entry; one that is cut short has    *)
(* done some of the first part.                                            *)
(***************************************************************************)
EXTENDS OrderRouterProofs

IsEntry(o) == o.role = "entry"

\* A cancelled entry was replaced, and so was one that is in flight while a newer
\* one of its key exists.
EntriesReplaced(b) ==
    /\ \A i \in DOMAIN b.orders :
          IsEntry(b.orders[i]) /\ b.orders[i].status = "cancelled"
              => b.orders[i].replacedBy # None
    /\ \A i, j \in DOMAIN b.orders :
          /\ i < j /\ IsEntry(b.orders[i]) /\ IsEntry(b.orders[j])
          /\ b.orders[i].key = b.orders[j].key
          /\ b.orders[i].status \in InFlight
          => b.orders[i].replacedBy # None

\* A trailing stop with a parent belongs to a filled entry of its key and quantity,
\* no two to the same.
TrailsFollow(b) ==
    /\ \A t \in DOMAIN b.orders :
          LET o == b.orders[t]
          IN  o.role = "trail_stop" /\ o.parent # None =>
                 /\ o.parent \in DOMAIN b.orders
                 /\ IsEntry(b.orders[o.parent]) /\ b.orders[o.parent].status = "filled"
                 /\ o.key = b.orders[o.parent].key /\ o.qty = b.orders[o.parent].qty
    /\ \A t, u \in DOMAIN b.orders :
          /\ b.orders[t].role = "trail_stop" /\ b.orders[u].role = "trail_stop"
          /\ b.orders[t].parent = b.orders[u].parent /\ b.orders[t].parent # None
          => t = u

RowsInv(b) == EntriesReplaced(b) /\ TrailsFollow(b)

\* No row of b is lost, and each changes as OrderLifecycle allows.
RowsStep(b, c) ==
    /\ Len(b.orders) <= Len(c.orders)
    /\ \A i \in DOMAIN b.orders : RowStep(b.orders[i], c.orders[i])

----------------------------------------------------------------------------
(* Cancelling and placing.                                                  *)

\* Rows in flight may be cancelled, entries by a signal, and exits are added for the
\* signal that is handled.
Arranged(b, c) ==
    /\ b \in Books /\ c \in Books /\ Len(b.orders) <= Len(c.orders)
    /\ \A i \in DOMAIN b.orders :
          \/ c.orders[i] = b.orders[i]
          \/ /\ b.orders[i].status \in InFlight
             /\ CancelledRow(b.orders[i], c.orders[i])
             /\ IsEntry(b.orders[i]) => c.orders[i].replacedBy # None
    /\ \A i \in DOMAIN c.orders \ DOMAIN b.orders :
          c.orders[i].role = "exit" /\ c.orders[i].signal = handled + 1

LEMMA BookDomains ==
    ASSUME NEW b \in Books
    PROVE  /\ Len(b.orders) \in Nat /\ DOMAIN b.orders = 1 .. Len(b.orders)
           /\ \A i \in DOMAIN b.orders : b.orders[i] \in OrderRows
BY DEF Books

LEMMA ArrangedAlready ==
    ASSUME NEW b \in Books
    PROVE  Arranged(b, b)
BY BookDomains DEF Arranged

\* A row that was cancelled is not cancelled again, nor is a new exit an entry.
LEMMA ArrangedTwice ==
    ASSUME NEW b, NEW c, NEW d, Arranged(b, c), Arranged(c, d)
    PROVE  Arranged(b, d)
<1>1. /\ b \in Books /\ c \in Books /\ d \in Books
      /\ Len(b.orders) <= Len(c.orders) /\ Len(c.orders) <= Len(d.orders)
  BY DEF Arranged
<1>2. /\ Len(b.orders) \in Nat /\ Len(c.orders) \in Nat /\ Len(d.orders) \in Nat
      /\ DOMAIN b.orders = 1 .. Len(b.orders) /\ DOMAIN c.orders = 1 .. Len(c.orders)
      /\ DOMAIN d.orders = 1 .. Len(d.orders)
  BY <1>1, BookDomains
<1>3. ASSUME NEW i \in DOMAIN b.orders
      PROVE  \/ d.orders[i] = b.orders[i]
             \/ /\ b.orders[i].status \in InFlight
                /\ CancelledRow(b.orders[i], d.orders[i])
                /\ IsEntry(b.orders[i]) => d.orders[i].replacedBy # None
  <2>1. i \in DOMAIN c.orders
    BY <1>1, <1>2
  <2>2. CASE c.orders[i] = b.orders[i]
    BY <2>1, <2>2 DEF Arranged
  <2>3. CASE /\ b.orders[i].status \in InFlight
             /\ CancelledRow(b.orders[i], c.orders[i])
             /\ IsEntry(b.orders[i]) => c.orders[i].replacedBy # None
    <3>1. c.orders[i].status \notin InFlight
      BY <2>3 DEF CancelledRow, InFlight
    <3>2. d.orders[i] = c.orders[i]
      BY <2>1, <3>1 DEF Arranged
    <3> QED BY <2>3, <3>2
  <2> QED BY <2>2, <2>3 DEF Arranged
<1>4. ASSUME NEW i \in DOMAIN d.orders \ DOMAIN b.orders
      PROVE  d.orders[i].role = "exit" /\ d.orders[i].signal = handled + 1
  BY DEF Arranged, CancelledRow
<1> QED
  BY <1>1, <1>2, <1>3, <1>4 DEF Arranged

LEMMA CancelArranges ==
    ASSUME NEW b \in Books, NEW ids, ids \subseteq DOMAIN b.orders,
           \A i \in ids : b.orders[i].status \in InFlight,
           NEW sig \in Nat, NEW ok \in BOOLEAN,
           sig = None => \A i \in ids : ~IsEntry(b.orders[i]),
           NEW c, c = CancelRows(b, ids, sig, ok)
    PROVE  Arranged(b, c)
<1>1. CancelEffect(b, c, ids, sig)
  BY CancelReturns
<1>2. /\ c \in Books /\ Len(b.orders) <= Len(c.orders) /\ DOMAIN c.orders = DOMAIN b.orders
  BY <1>1, BookDomains DEF CancelEffect
<1>3. ASSUME NEW i \in DOMAIN b.orders
      PROVE  \/ c.orders[i] = b.orders[i]
             \/ /\ b.orders[i].status \in InFlight
                /\ CancelledRow(b.orders[i], c.orders[i])
                /\ IsEntry(b.orders[i]) => c.orders[i].replacedBy # None
  BY <1>1 DEF CancelEffect
<1> QED
  BY <1>2, <1>3 DEF Arranged

LEMMA ExitArranges ==
    ASSUME NEW b \in Books, NEW row \in OrderRows, row.role = "exit",
           row.signal = handled + 1, NEW ok \in BOOLEAN, NEW c, c = Submit(b, row, ok)
    PROVE  Arranged(b, c)
<1>1. SubmitEffect(b, c, row)
  BY SubmitReturns
<1>2. /\ c \in Books /\ Len(c.orders) = Len(b.orders) + 1 /\ Len(b.orders) \in Nat
      /\ DOMAIN b.orders = 1 .. Len(b.orders) /\ DOMAIN c.orders = 1 .. Len(b.orders) + 1
      /\ \A i \in DOMAIN b.orders : c.orders[i] = b.orders[i]
      /\ c.orders[Len(b.orders) + 1].role = "exit"
      /\ c.orders[Len(b.orders) + 1].signal = handled + 1
  BY <1>1, BookDomains DEF SubmitEffect
<1> QED
  BY <1>2 DEF Arranged

\* What is arranged keeps every row within its life.
LEMMA ArrangedSteps ==
    ASSUME NEW b, BookInv(b), NEW c, Arranged(b, c)
    PROVE  RowsStep(b, c)
<1> SUFFICES ASSUME NEW i \in DOMAIN b.orders PROVE RowStep(b.orders[i], c.orders[i])
  BY DEF Arranged, RowsStep
<1>1. b.orders[i] \in OrderRows /\ RowSound(b.orders[i])
  BY BookDomains DEF BookInv
<1>2. /\ b.orders[i].fillQty \in Nat /\ b.orders[i].qty \in Nat
      /\ b.orders[i].fillQty \in b.orders[i].fillQty .. b.orders[i].qty
  BY <1>1 DEF OrderRows, RowSound
<1>3. CASE c.orders[i] = b.orders[i]
  BY <1>1, <1>2, <1>3 DEF RowStep, RowSound
<1>4. CASE b.orders[i].status \in InFlight /\ CancelledRow(b.orders[i], c.orders[i])
  BY <1>1, <1>2, <1>4 DEF RowStep, RowSound, CancelledRow, InFlight
<1> QED
  BY <1>3, <1>4 DEF Arranged

LEMMA ArrangedInv ==
    ASSUME NEW b, RowsInv(b), NEW c, Arranged(b, c)
    PROVE  RowsInv(c)
<1>1. /\ DOMAIN b.orders \subseteq DOMAIN c.orders
      /\ DOMAIN b.orders = 1 .. Len(b.orders) /\ DOMAIN c.orders = 1 .. Len(c.orders)
      /\ Len(b.orders) \in Nat /\ Len(c.orders) \in Nat
  <2>1. b \in Books /\ c \in Books /\ Len(b.orders) <= Len(c.orders)
    BY DEF Arranged
  <2> QED BY <2>1, BookDomains
<1>2. ASSUME NEW i \in DOMAIN c.orders, c.orders[i].role # "exit"
      PROVE  /\ i \in DOMAIN b.orders
             /\ c.orders[i].role = b.orders[i].role /\ c.orders[i].key = b.orders[i].key
             /\ c.orders[i].parent = b.orders[i].parent /\ c.orders[i].qty = b.orders[i].qty
             /\ \/ c.orders[i].status = b.orders[i].status
                   /\ c.orders[i].replacedBy = b.orders[i].replacedBy
                \/ /\ b.orders[i].status \in InFlight /\ c.orders[i].status = "cancelled"
                   /\ IsEntry(b.orders[i]) => c.orders[i].replacedBy # None
  <2>1. i \in DOMAIN b.orders
    BY <1>2 DEF Arranged
  <2> QED BY <2>1, <1>2 DEF Arranged, CancelledRow
<1>3. ASSUME NEW i \in DOMAIN b.orders
      PROVE  /\ i \in DOMAIN c.orders
             /\ c.orders[i].role = b.orders[i].role /\ c.orders[i].key = b.orders[i].key
             /\ c.orders[i].parent = b.orders[i].parent /\ c.orders[i].qty = b.orders[i].qty
             /\ b.orders[i].status = "filled" => c.orders[i].status = "filled"
  BY <1>1 DEF Arranged, CancelledRow, InFlight
<1>4. EntriesReplaced(c)
  <2>1. ASSUME NEW i \in DOMAIN c.orders, IsEntry(c.orders[i]), c.orders[i].status = "cancelled"
        PROVE  c.orders[i].replacedBy # None
    BY <2>1, <1>2 DEF RowsInv, EntriesReplaced, IsEntry
  <2>2. ASSUME NEW i \in DOMAIN c.orders, NEW j \in DOMAIN c.orders,
               i < j, IsEntry(c.orders[i]), IsEntry(c.orders[j]),
               c.orders[i].key = c.orders[j].key, c.orders[i].status \in InFlight
        PROVE  c.orders[i].replacedBy # None
    <3>1. /\ i \in DOMAIN b.orders /\ j \in DOMAIN b.orders
          /\ IsEntry(b.orders[i]) /\ IsEntry(b.orders[j]) /\ b.orders[i].key = b.orders[j].key
      BY <2>2, <1>2 DEF IsEntry
    <3>2. c.orders[i].status = b.orders[i].status /\ c.orders[i].replacedBy = b.orders[i].replacedBy
      BY <2>2, <1>2 DEF IsEntry, InFlight
    <3> QED BY <2>2, <3>1, <3>2 DEF RowsInv, EntriesReplaced
  <2> QED BY <2>1, <2>2 DEF EntriesReplaced
<1>5. TrailsFollow(c)
  <2>1. ASSUME NEW t \in DOMAIN c.orders, c.orders[t].role = "trail_stop",
               c.orders[t].parent # None
        PROVE  LET p == c.orders[t].parent
               IN  /\ p \in DOMAIN c.orders /\ IsEntry(c.orders[p])
                   /\ c.orders[p].status = "filled"
                   /\ c.orders[t].key = c.orders[p].key /\ c.orders[t].qty = c.orders[p].qty
    <3>1. t \in DOMAIN b.orders
      BY <2>1, <1>2
    <3>2. /\ b.orders[t].role = "trail_stop" /\ b.orders[t].parent = c.orders[t].parent
          /\ b.orders[t].key = c.orders[t].key /\ b.orders[t].qty = c.orders[t].qty
      BY <3>1, <1>3, <2>1
    <3> QED BY <3>1, <3>2, <2>1, <1>3 DEF RowsInv, TrailsFollow, IsEntry
  <2>2. ASSUME NEW t \in DOMAIN c.orders, NEW u \in DOMAIN c.orders,
               c.orders[t].role = "trail_stop", c.orders[u].role = "trail_stop",
               c.orders[t].parent = c.orders[u].parent, c.orders[t].parent # None
        PROVE  t = u
    BY <2>2, <1>2 DEF RowsInv, TrailsFollow
  <2> QED BY <2>1, <2>2 DEF TrailsFollow
<1> QED
  BY <1>4, <1>5 DEF RowsInv

----------------------------------------------------------------------------
(* New rows and filled rows.                                                *)

\* Book c is b and one more row.
Longer(b, c) ==
    /\ b \in Books /\ c \in Books /\ Len(c.orders) = Len(b.orders) + 1
    /\ \A i \in DOMAIN b.orders : c.orders[i] = b.orders[i]

LEMMA LongerDomains ==
    ASSUME NEW b, NEW c, b \in Books, c \in Books, Len(c.orders) = Len(b.orders) + 1,
           NEW n, n = Len(c.orders)
    PROVE  /\ DOMAIN c.orders = DOMAIN b.orders \cup {n} /\ n \notin DOMAIN b.orders
           /\ n \in Nat /\ n # None /\ \A i \in DOMAIN b.orders : i \in Nat /\ i < n
<1>1. /\ Len(b.orders) \in Nat /\ DOMAIN b.orders = 1 .. Len(b.orders)
      /\ DOMAIN c.orders = 1 .. Len(c.orders)
  BY BookDomains
<1> QED
  BY <1>1 DEF None

\* A row that stays, stays within its life.
LEMMA SameRowStep ==
    ASSUME NEW b, BookInv(b), NEW i \in DOMAIN b.orders
    PROVE  RowStep(b.orders[i], b.orders[i])
<1>1. b.orders[i] \in OrderRows /\ RowSound(b.orders[i])
  BY BookDomains DEF BookInv
<1>2. b.orders[i].fillQty \in b.orders[i].fillQty .. b.orders[i].qty
  BY <1>1 DEF OrderRows, RowSound
<1> QED
  BY <1>1, <1>2 DEF RowStep, RowSound

LEMMA LongerSteps ==
    ASSUME NEW b, BookInv(b), NEW c, Longer(b, c)
    PROVE  RowsStep(b, c)
<1>1. Len(b.orders) <= Len(c.orders)
  BY BookDomains DEF Longer
<1> QED
  BY <1>1, SameRowStep DEF Longer, RowsStep

\* A new row that is no trailing stop of an entry.  A new entry is not done yet, and
\* what is in flight under its key has been replaced.
LEMMA LongerInv ==
    ASSUME NEW b, RowsInv(b), NEW c, Longer(b, c), NEW n, n = Len(c.orders),
           c.orders[n].role = "trail_stop" => c.orders[n].parent = None,
           IsEntry(c.orders[n]) =>
              /\ c.orders[n].status \notin {"filled", "cancelled"}
              /\ \A i \in DOMAIN b.orders :
                    /\ IsEntry(b.orders[i]) /\ b.orders[i].key = c.orders[n].key
                    /\ b.orders[i].status \in InFlight
                    => b.orders[i].replacedBy # None
    PROVE  RowsInv(c)
<1>1. /\ DOMAIN c.orders = DOMAIN b.orders \cup {n} /\ n \notin DOMAIN b.orders
      /\ n \in Nat /\ \A i \in DOMAIN b.orders : i \in Nat /\ i < n
      /\ \A i \in DOMAIN b.orders : c.orders[i] = b.orders[i]
  BY LongerDomains DEF Longer
<1>2. EntriesReplaced(c)
  <2>1. ASSUME NEW i \in DOMAIN c.orders, IsEntry(c.orders[i]), c.orders[i].status = "cancelled"
        PROVE  c.orders[i].replacedBy # None
    BY <2>1, <1>1 DEF RowsInv, EntriesReplaced
  <2>2. ASSUME NEW i \in DOMAIN c.orders, NEW j \in DOMAIN c.orders,
               i < j, IsEntry(c.orders[i]), IsEntry(c.orders[j]),
               c.orders[i].key = c.orders[j].key, c.orders[i].status \in InFlight
        PROVE  c.orders[i].replacedBy # None
    <3>1. i # n
      BY <2>2, <1>1
    <3>2. i \in DOMAIN b.orders /\ c.orders[i] = b.orders[i]
      BY <3>1, <1>1
    <3> QED BY <2>2, <3>2, <1>1 DEF RowsInv, EntriesReplaced
  <2> QED BY <2>1, <2>2 DEF EntriesReplaced
<1>3. TrailsFollow(c)
  <2>1. ASSUME NEW t \in DOMAIN c.orders, c.orders[t].role = "trail_stop",
               c.orders[t].parent # None
        PROVE  t \in DOMAIN b.orders /\ c.orders[t] = b.orders[t]
    BY <2>1, <1>1
  <2>2. ASSUME NEW t \in DOMAIN c.orders, c.orders[t].role = "trail_stop",
               c.orders[t].parent # None
        PROVE  LET p == c.orders[t].parent
               IN  /\ p \in DOMAIN c.orders /\ IsEntry(c.orders[p])
                   /\ c.orders[p].status = "filled"
                   /\ c.orders[t].key = c.orders[p].key /\ c.orders[t].qty = c.orders[p].qty
    BY <2>1, <2>2, <1>1 DEF RowsInv, TrailsFollow
  <2>3. ASSUME NEW t \in DOMAIN c.orders, NEW u \in DOMAIN c.orders,
               c.orders[t].role = "trail_stop", c.orders[u].role = "trail_stop",
               c.orders[t].parent = c.orders[u].parent, c.orders[t].parent # None
        PROVE  t = u
    BY <2>1, <2>3, <1>1 DEF RowsInv, TrailsFollow
  <2> QED BY <2>2, <2>3 DEF TrailsFollow
<1> QED
  BY <1>2, <1>3 DEF RowsInv

\* An entry is placed.
LEMMA EntryPlaced ==
    ASSUME NEW b, BookInv(b), RowsInv(b), NEW row \in OrderRows, row.role = "entry",
           \A i \in InFlightEntries(b, row.key) : b.orders[i].replacedBy # None,
           NEW ok \in BOOLEAN, NEW c, c = Submit(b, row, ok)
    PROVE  RowsInv(c) /\ RowsStep(b, c)
<1> DEFINE n == Len(b.orders) + 1
<1>1. b \in Books /\ SubmitEffect(b, c, row)
  BY SubmitReturns DEF BookInv
<1>2. /\ Longer(b, c) /\ Len(c.orders) = n
      /\ c.orders[n].role = "entry" /\ c.orders[n].key = row.key
      /\ c.orders[n].status \in {"submitted", "error"}
  BY <1>1 DEF SubmitEffect, Refused, Accepted, Longer
<1> HIDE DEF n
<1>3. \A i \in DOMAIN b.orders :
         /\ IsEntry(b.orders[i]) /\ b.orders[i].key = c.orders[n].key
         /\ b.orders[i].status \in InFlight
         => b.orders[i].replacedBy # None
  BY <1>2 DEF InFlightEntries, InFlightRows, IsEntry
<1> QED
  BY <1>2, <1>3, LongerInv, LongerSteps

\* Row i of b becomes p, which counts more of its order.
Filled(b, c, i, p) ==
    /\ i \in DOMAIN b.orders /\ b.orders[i].status \notin {"filled", "error"}
    /\ \A l \in DOMAIN b.orders : c.orders[l] = IF l = i THEN p ELSE b.orders[l]
    /\ p.role = b.orders[i].role /\ p.key = b.orders[i].key /\ p.qty = b.orders[i].qty
    /\ p.parent = b.orders[i].parent /\ p.replacedBy = b.orders[i].replacedBy
    /\ p.status \in {"partially_filled", "filled"}

\* A fill revives only a row that was replaced, if it is not the newest of its key.
LEMMA FilledEntries ==
    ASSUME NEW b \in Books, EntriesReplaced(b), NEW c, NEW i, NEW p, Filled(b, c, i, p),
           NEW l \in DOMAIN b.orders, NEW m \in DOMAIN b.orders, l < m,
           IsEntry(c.orders[l]), IsEntry(c.orders[m]), c.orders[l].key = c.orders[m].key,
           c.orders[l].status \in InFlight
    PROVE  c.orders[l].replacedBy # None
<1>1. /\ IsEntry(b.orders[l]) /\ IsEntry(b.orders[m]) /\ b.orders[l].key = b.orders[m].key
      /\ c.orders[l].replacedBy = b.orders[l].replacedBy
  BY DEF Filled, IsEntry
<1>2. b.orders[l].status \in InFlight \/ b.orders[l].status = "cancelled"
  <2>1. CASE l = i
    <3>1. b.orders[i].status \notin {"filled", "error"}
      BY DEF Filled
    <3>2. b.orders[i].status \in Statuses
      <4>1. b.orders[i] \in OrderRows
        BY <2>1, BookDomains
      <4> QED BY <4>1 DEF OrderRows
    <3> QED BY <2>1, <3>1, <3>2 DEF InFlight, Statuses
  <2>2. CASE l # i
    BY <2>2 DEF Filled
  <2> QED BY <2>1, <2>2
<1> QED
  BY <1>1, <1>2 DEF EntriesReplaced

LEMMA FilledInv ==
    ASSUME NEW b \in Books, RowsInv(b), NEW c, NEW i, NEW p, Filled(b, c, i, p),
           DOMAIN c.orders = DOMAIN b.orders
    PROVE  RowsInv(c)
<1>1. ASSUME NEW l \in DOMAIN b.orders
      PROVE  /\ c.orders[l].role = b.orders[l].role /\ c.orders[l].key = b.orders[l].key
             /\ c.orders[l].parent = b.orders[l].parent /\ c.orders[l].qty = b.orders[l].qty
             /\ c.orders[l].replacedBy = b.orders[l].replacedBy
             /\ l # i => c.orders[l] = b.orders[l]
             /\ l = i => c.orders[l] = p
  BY DEF Filled
<1>2. EntriesReplaced(c)
  <2>1. ASSUME NEW l \in DOMAIN c.orders, IsEntry(c.orders[l]), c.orders[l].status = "cancelled"
        PROVE  c.orders[l].replacedBy # None
    <3>1. l # i
      BY <2>1, <1>1 DEF Filled
    <3> QED BY <2>1, <3>1, <1>1 DEF RowsInv, EntriesReplaced
  <2>2. ASSUME NEW l \in DOMAIN c.orders, NEW m \in DOMAIN c.orders,
               l < m, IsEntry(c.orders[l]), IsEntry(c.orders[m]),
               c.orders[l].key = c.orders[m].key, c.orders[l].status \in InFlight
        PROVE  c.orders[l].replacedBy # None
    BY <2>2, FilledEntries DEF RowsInv
  <2> QED BY <2>1, <2>2 DEF EntriesReplaced
<1>3. TrailsFollow(c)
  <2>1. ASSUME NEW t \in DOMAIN c.orders, c.orders[t].role = "trail_stop",
               c.orders[t].parent # None
        PROVE  LET q == c.orders[t].parent
               IN  /\ q \in DOMAIN c.orders /\ IsEntry(c.orders[q])
                   /\ c.orders[q].status = "filled"
                   /\ c.orders[t].key = c.orders[q].key /\ c.orders[t].qty = c.orders[q].qty
    <3>1. PICK q \in DOMAIN b.orders :
            /\ q = c.orders[t].parent /\ IsEntry(b.orders[q]) /\ b.orders[q].status = "filled"
            /\ b.orders[t].key = b.orders[q].key /\ b.orders[t].qty = b.orders[q].qty
      BY <2>1, <1>1 DEF RowsInv, TrailsFollow
    <3>2. q # i
      BY <3>1 DEF Filled
    <3> QED BY <2>1, <3>1, <3>2, <1>1
  <2>2. ASSUME NEW t \in DOMAIN c.orders, NEW u \in DOMAIN c.orders,
               c.orders[t].role = "trail_stop", c.orders[u].role = "trail_stop",
               c.orders[t].parent = c.orders[u].parent, c.orders[t].parent # None
        PROVE  t = u
    BY <2>2, <1>1 DEF RowsInv, TrailsFollow
  <2> QED BY <2>1, <2>2 DEF TrailsFollow
<1> QED
  BY <1>2, <1>3 DEF RowsInv

\* A complete entry and its trailing stop, taken by the broker or not.
LEMMA TrailPlaced ==
    ASSUME NEW b \in Books, RowsInv(b), NEW c \in Books, NEW i, NEW p, Filled(b, c, i, p),
           Len(c.orders) = Len(b.orders) + 1, NEW n, n = Len(c.orders),
           IsEntry(p), p.status = "filled",
           c.orders[n].role = "trail_stop", c.orders[n].parent = i,
           c.orders[n].key = p.key, c.orders[n].qty = p.qty
    PROVE  RowsInv(c)
<1>1. ASSUME NEW l \in DOMAIN b.orders
      PROVE  /\ c.orders[l].role = b.orders[l].role /\ c.orders[l].key = b.orders[l].key
             /\ c.orders[l].parent = b.orders[l].parent /\ c.orders[l].qty = b.orders[l].qty
             /\ c.orders[l].replacedBy = b.orders[l].replacedBy
             /\ l # i => c.orders[l] = b.orders[l]
             /\ l = i => c.orders[l] = p
  BY DEF Filled
<1>2. /\ DOMAIN c.orders = DOMAIN b.orders \cup {n} /\ n \notin DOMAIN b.orders
      /\ n \in Nat /\ n # None /\ \A l \in DOMAIN b.orders : l \in Nat /\ l < n
      /\ i \in DOMAIN b.orders
  BY LongerDomains DEF Filled
<1>3. \A t \in DOMAIN b.orders : b.orders[t].role = "trail_stop" => b.orders[t].parent # i
  BY <1>2, BookDomains DEF RowsInv, TrailsFollow, Filled, None
<1>4. EntriesReplaced(c)
  <2>1. ASSUME NEW l \in DOMAIN c.orders, IsEntry(c.orders[l]), c.orders[l].status = "cancelled"
        PROVE  c.orders[l].replacedBy # None
    <3>1. l # i /\ l \in DOMAIN b.orders
      BY <2>1, <1>1, <1>2 DEF IsEntry
    <3> QED BY <2>1, <3>1, <1>1 DEF RowsInv, EntriesReplaced
  <2>2. ASSUME NEW l \in DOMAIN c.orders, NEW m \in DOMAIN c.orders,
               l < m, IsEntry(c.orders[l]), IsEntry(c.orders[m]),
               c.orders[l].key = c.orders[m].key, c.orders[l].status \in InFlight
        PROVE  c.orders[l].replacedBy # None
    <3>1. l \in DOMAIN b.orders /\ m \in DOMAIN b.orders
      BY <2>2, <1>2 DEF IsEntry
    <3> QED BY <2>2, <3>1, FilledEntries DEF RowsInv
  <2> QED BY <2>1, <2>2 DEF EntriesReplaced
<1>5. TrailsFollow(c)
  <2>1. ASSUME NEW t \in DOMAIN c.orders, c.orders[t].role = "trail_stop",
               c.orders[t].parent # None
        PROVE  LET q == c.orders[t].parent
               IN  /\ q \in DOMAIN c.orders /\ IsEntry(c.orders[q])
                   /\ c.orders[q].status = "filled"
                   /\ c.orders[t].key = c.orders[q].key /\ c.orders[t].qty = c.orders[q].qty
    <3>1. CASE t = n
      BY <3>1, <1>1, <1>2
    <3>2. CASE t \in DOMAIN b.orders
      <4>1. PICK q \in DOMAIN b.orders :
              /\ q = c.orders[t].parent /\ IsEntry(b.orders[q]) /\ b.orders[q].status = "filled"
              /\ b.orders[t].key = b.orders[q].key /\ b.orders[t].qty = b.orders[q].qty
        BY <2>1, <3>2, <1>1 DEF RowsInv, TrailsFollow
      <4>2. q # i
        BY <4>1 DEF Filled
      <4> QED BY <3>2, <4>1, <4>2, <1>1, <1>2
    <3> QED BY <3>1, <3>2, <1>2
  <2>2. ASSUME NEW t \in DOMAIN c.orders, NEW u \in DOMAIN c.orders,
               c.orders[t].role = "trail_stop", c.orders[u].role = "trail_stop",
               c.orders[t].parent = c.orders[u].parent, c.orders[t].parent # None
        PROVE  t = u
    <3>1. t \in DOMAIN b.orders => c.orders[t].parent # i
      BY <2>2, <1>1, <1>3
    <3>2. u \in DOMAIN b.orders => c.orders[u].parent # i
      BY <2>2, <1>1, <1>3
    <3> QED BY <2>2, <3>1, <3>2, <1>1, <1>2 DEF RowsInv, TrailsFollow
  <2> QED BY <2>1, <2>2 DEF TrailsFollow
<1> QED
  BY <1>4, <1>5 DEF RowsInv

----------------------------------------------------------------------------
(* The signal handlers.                                                     *)

LEMMA StepTwice ==
    ASSUME NEW b, BookInv(b), NEW c, BookInv(c), NEW d, BookInv(d),
           RowsStep(b, c), RowsStep(c, d)
    PROVE  RowsStep(b, d)
<1>1. /\ Len(b.orders) \in Nat /\ Len(c.orders) \in Nat /\ Len(d.orders) \in Nat
      /\ DOMAIN b.orders \subseteq DOMAIN c.orders
      /\ \A i \in DOMAIN b.orders : b.orders[i] \in OrderRows
      /\ \A i \in DOMAIN c.orders : c.orders[i] \in OrderRows
      /\ \A i \in DOMAIN d.orders : d.orders[i] \in OrderRows
      /\ DOMAIN b.orders \subseteq DOMAIN d.orders
  <2>1. b \in Books /\ c \in Books /\ d \in Books
    BY DEF BookInv
  <2>2. Len(b.orders) <= Len(c.orders) /\ Len(c.orders) <= Len(d.orders)
    BY DEF RowsStep
  <2> QED BY <2>1, <2>2, BookDomains
<1>2. ASSUME NEW i \in DOMAIN b.orders
      PROVE  RowStep(b.orders[i], d.orders[i])
  <2>1. /\ RowStep(b.orders[i], c.orders[i]) /\ RowStep(c.orders[i], d.orders[i])
        /\ b.orders[i] \in OrderRows /\ c.orders[i] \in OrderRows /\ d.orders[i] \in OrderRows
    BY <1>1 DEF RowsStep
  <2>2. /\ b.orders[i].fillQty \in Nat /\ c.orders[i].fillQty \in Nat
        /\ d.orders[i].fillQty \in Nat /\ b.orders[i].qty \in Nat
    BY <2>1 DEF OrderRows
  <2> QED BY <2>1, <2>2 DEF RowStep
<1> QED
  BY <1>1, <1>2 DEF RowsStep

\* What c adds to b it places for the signal that is handled, an entry at most once.
PlacedFor(b, c) ==
    /\ \A i \in DOMAIN c.orders \ DOMAIN b.orders : c.orders[i].signal = handled + 1
    /\ \A i, j \in DOMAIN c.orders \ DOMAIN b.orders :
          IsEntry(c.orders[i]) /\ IsEntry(c.orders[j]) => i = j

LEMMA ArrangedFor ==
    ASSUME NEW b, NEW c, Arranged(b, c)
    PROVE  PlacedFor(b, c)
BY DEF Arranged, PlacedFor, IsEntry

\* The entry comes after all exits.
LEMMA EntryIsLast ==
    ASSUME NEW b, NEW u, Arranged(b, u), NEW row \in OrderRows, row.signal = handled + 1,
           NEW ok \in BOOLEAN, NEW c, c = Submit(u, row, ok)
    PROVE  PlacedFor(b, c)
<1> DEFINE n == Len(u.orders) + 1
<1>1. u \in Books /\ SubmitEffect(u, c, row)
  BY SubmitReturns DEF Arranged
<1>2. /\ c \in Books /\ Len(c.orders) = n /\ c.orders[n].signal = handled + 1
      /\ \A i \in DOMAIN u.orders : c.orders[i] = u.orders[i]
  BY <1>1 DEF SubmitEffect
<1>3. DOMAIN c.orders = DOMAIN u.orders \cup {n}
  BY <1>1, <1>2, BookDomains
<1> HIDE DEF n
<1>4. ASSUME NEW i \in DOMAIN c.orders \ DOMAIN b.orders
      PROVE  c.orders[i].signal = handled + 1 /\ (IsEntry(c.orders[i]) => i = n)
  BY <1>2, <1>3, <1>4 DEF Arranged, IsEntry
<1> QED
  BY <1>4 DEF PlacedFor

LEMMA PlaceCloseArranges ==
    ASSUME NEW b \in Books, NEW sig \in Nat \ {0}, sig = handled + 1, NEW k \in PosKeys,
           pos[k] \in Nat \ {0}, NEW cancelOk \in BOOLEAN, NEW exitOk \in BOOLEAN,
           NEW c, c = PlaceClose(b, sig, k, cancelOk, exitOk)
    PROVE  Arranged(b, c)
<1> DEFINE ids == Newest(ActiveTrails(b, k))
           d == CancelRows(b, ids, None, cancelOk)
           row == NewRow(sig, k, "exit", pos[k], None)
<1>1. \A i \in ids : /\ i \in DOMAIN b.orders /\ b.orders[i].status \in InFlight
                     /\ ~IsEntry(b.orders[i])
  BY DEF Newest, ActiveTrails, InFlightRows, IsEntry
<1>2. row \in OrderRows /\ row.role = "exit" /\ row.signal = handled + 1
  BY NewRowType, PositionKeyTypes DEF None, Roles
<1>3. c = Submit(d, row, exitOk)
  BY DEF PlaceClose
<1>4. d = CancelRows(b, ids, None, cancelOk)
  OBVIOUS
<1> HIDE DEF ids, d, row
<1>5. Arranged(b, d)
  BY <1>1, <1>4, CancelArranges DEF None
<1>6. Arranged(d, c)
  BY <1>2, <1>3, <1>5, ExitArranges DEF Arranged
<1> QED
  BY <1>5, <1>6, ArrangedTwice

LEMMA FreedArranges ==
    ASSUME NEW b \in Books, NEW k, NEW ok \in BOOLEAN
    PROVE  Arranged(b, Freed(b, k, ok))
<1> DEFINE ids == Newest(ActiveTrails(b, k))
<1>1. \A i \in ids : /\ i \in DOMAIN b.orders /\ b.orders[i].status \in InFlight
                     /\ ~IsEntry(b.orders[i])
  BY DEF Newest, ActiveTrails, InFlightRows, IsEntry
<1>2. Freed(b, k, ok) = CancelRows(b, ids, None, ok) /\ None \in Nat
  BY DEF Freed, None
<1> HIDE DEF ids
<1> QED
  BY <1>1, <1>2, CancelArranges

LEMMA ClosedSameArranges ==
    ASSUME TypeOK, NEW b \in Books, NEW sig \in Nat \ {0}, sig = handled + 1,
           NEW k \in SignalKeys, NEW fail, NEW c, c = ClosedSame(b, sig, k, fail)
    PROVE  Arranged(b, c)
<1> DEFINE same == PosKey(k)
           close == PlaceClose(b, sig, same, "cancelSame" \notin fail, "exitSame" \notin fail)
<1>1. /\ same \in PosKeys /\ pos[same] \in Nat
      /\ c = IF pos[same] > 0 THEN close ELSE b
  BY KeyTypes DEF TypeOK, ClosedSame
<1> HIDE DEF same
<1>2. CASE pos[same] > 0
  <2>1. pos[same] \in Nat \ {0} /\ c = close
    BY <1>1, <1>2
  <2> QED BY <2>1, <1>1, PlaceCloseArranges
<1>3. CASE ~(pos[same] > 0)
  BY <1>1, <1>3, ArrangedAlready
<1> QED
  BY <1>2, <1>3

LEMMA CancelledOppositeArranges ==
    ASSUME NEW b \in Books, NEW sig \in Nat \ {0}, NEW k,
           NEW fail, NEW c, c = CancelledOpposite(b, sig, k, fail)
    PROVE  Arranged(b, c)
<1> DEFINE ids == Newest(InFlightEntries(b, OppositeKey(k)))
<1>1. \A i \in ids : i \in DOMAIN b.orders /\ b.orders[i].status \in InFlight
  BY DEF Newest, InFlightEntries, InFlightRows
<1>2. c = CancelRows(b, ids, sig, "cancelEntry" \notin fail) /\ sig # None /\ sig \in Nat
  BY DEF CancelledOpposite, None
<1> HIDE DEF ids
<1> QED
  BY <1>1, <1>2, CancelArranges

LEMMA ClearedWayArranges ==
    ASSUME TypeOK, NEW b \in Books, NEW sig \in Nat \ {0}, sig = handled + 1,
           NEW k \in SignalKeys, NEW fail, NEW c, c = ClearedWay(b, sig, k, fail)
    PROVE  Arranged(b, c)
<1> DEFINE opp == PosKey(OppositeKey(k))
           b1 == ClosedSame(b, sig, k, fail)
           b2 == CancelledOpposite(b1, sig, k, fail)
<1>1. opp \in PosKeys /\ pos[opp] \in Nat
  BY KeyTypes DEF TypeOK
<1>2. c = IF pos[opp] > 0
          THEN PlaceClose(b2, sig, opp, "cancelOpposite" \notin fail, "exitOpposite" \notin fail)
          ELSE b2
  BY DEF ClearedWay
<1> HIDE DEF opp
<1>3. Arranged(b, b1)
  BY ClosedSameArranges
<1>4. b1 \in Books
  BY <1>3 DEF Arranged
<1> HIDE DEF b1
<1>5. Arranged(b1, b2)
  BY <1>4, CancelledOppositeArranges
<1> HIDE DEF b2
<1>6. Arranged(b, b2) /\ b2 \in Books
  BY <1>3, <1>5, ArrangedTwice DEF Arranged
<1>7. CASE pos[opp] > 0
  <2>1. pos[opp] \in Nat \ {0}
    BY <1>1, <1>7
  <2>2. Arranged(b2, c)
    BY <2>1, <1>1, <1>2, <1>6, <1>7, PlaceCloseArranges
  <2> QED BY <2>2, <1>6, ArrangedTwice
<1>8. CASE ~(pos[opp] > 0)
  BY <1>2, <1>6, <1>8
<1> QED
  BY <1>7, <1>8

LEMMA UnwoundArranges ==
    ASSUME NEW b \in Books, NEW sig \in Nat \ {0}, sig = handled + 1,
           NEW o \in OrderRows, NEW fail, NEW c, c = Unwound(b, sig, o, fail)
    PROVE  Arranged(b, c)
<1> DEFINE exit == NewRow(sig, o.key, "exit", o.fillQty, None)
<1>1. CASE o.fillQty > 0 /\ ReplaceMode = "replace"
  <2>1. exit \in OrderRows /\ exit.role = "exit" /\ exit.signal = handled + 1
    <3>1. o.key \in OrderKeys /\ o.fillQty \in Nat \ {0} /\ "exit" \in Roles /\ None \in Nat
      BY <1>1 DEF None, Roles, OrderRows
    <3> QED BY <3>1, NewRowType
  <2>2. c = Submit(b, exit, "exitSame" \notin fail)
    BY <1>1 DEF Unwound
  <2> HIDE DEF exit
  <2> QED BY <2>1, <2>2, ExitArranges
<1>2. CASE ~(o.fillQty > 0 /\ ReplaceMode = "replace")
  BY <1>2, ArrangedAlready DEF Unwound
<1> QED
  BY <1>1, <1>2

\* The entry that is replaced is the newest in flight; those before it were
\* replaced earlier.
LEMMA ReplacementRows ==
    ASSUME NEW b, BookInv(b), RowsInv(b), NEW k \in SignalKeys,
           NEW sig \in Nat \ {0}, sig = handled + 1,
           NEW old \in Newest(InFlightEntries(b, k)), NEW qty \in Nat \ {0}, NEW fail,
           NEW c, c = Replacement(b, sig, old, qty, fail)
    PROVE  RowsInv(c) /\ RowsStep(b, c) /\ PlacedFor(b, c)
<1> DEFINE o == b.orders[old]
           d == CancelRows(b, {old}, sig, "cancelEntry" \notin fail)
           u == Unwound(d, sig, o, fail)
           entry == NewRow(sig, o.key, "entry", qty, None)
<1>1. /\ old \in DOMAIN b.orders /\ o.status \in InFlight /\ o.key = k /\ IsEntry(o)
      /\ o \in OrderRows /\ b \in Books
      /\ \A i \in InFlightEntries(b, k) : i <= old
  BY DEF Newest, InFlightEntries, InFlightRows, BookInv, Books, IsEntry
<1>2. BookInv(d) /\ Arranged(b, d)
  <2>1. sig # None /\ sig \in Nat
    BY DEF None
  <2> HIDE DEF o
  <2> QED BY <2>1, <1>1, CancelInv, CancelArranges DEF o
<1>3. old \in DOMAIN d.orders /\ d.orders[old].status = "cancelled"
  <2>1. CancelEffect(b, d, {old}, sig)
    BY <1>1, CancelReturns
  <2> QED BY <2>1, <1>1 DEF CancelEffect, CancelledRow
<1>4. k \in OrderKeys /\ o.fillQty \in Nat
  BY <1>1, KeyTypes DEF OrderRows
<1>5. entry \in OrderRows /\ entry.role = "entry" /\ entry.signal # None
      /\ entry.fillQty = 0 /\ entry.key = k /\ entry.signal = handled + 1
  BY <1>1, <1>4, NewRowType DEF None, Roles
<1>6. BookInv(u) /\ Arranged(d, u)
  <2> HIDE DEF o, d
  <2> QED BY <1>1, <1>2, UnwoundInv, UnwoundArranges DEF BookInv
<1>7. c = Submit(u, entry, "entry" \notin fail)
  BY DEF Replacement
<1> HIDE DEF d, u, entry
<1>8. Arranged(b, u)
  BY <1>2, <1>6, ArrangedTwice
<1>9. \A i \in InFlightEntries(u, k) : u.orders[i].replacedBy # None
  <2> SUFFICES ASSUME NEW i \in InFlightEntries(u, k)
               PROVE  u.orders[i].replacedBy # None
    OBVIOUS
  <2>1. /\ i \in DOMAIN u.orders /\ IsEntry(u.orders[i]) /\ u.orders[i].key = k
        /\ u.orders[i].status \in InFlight
    BY DEF InFlightEntries, InFlightRows, IsEntry
  <2>2. i \in DOMAIN b.orders /\ u.orders[i] = b.orders[i]
    BY <2>1, <1>8 DEF Arranged, CancelledRow, IsEntry, InFlight
  <2>3. i # old
    BY <2>1, <1>3, <1>6 DEF Arranged, InFlight
  <2>4. i < old
    <3>1. i <= old
      BY <2>1, <2>2, <1>1 DEF InFlightEntries, InFlightRows, IsEntry
    <3>2. i \in Nat /\ old \in Nat
      BY <2>2, <1>1, BookDomains
    <3> QED BY <3>1, <3>2, <2>3
  <2> QED BY <2>1, <2>2, <2>4, <1>1 DEF RowsInv, EntriesReplaced
<1>10. RowsInv(u) /\ RowsStep(b, u)
  BY <1>8, ArrangedInv, ArrangedSteps
<1>11. RowsInv(c) /\ RowsStep(u, c) /\ BookInv(c)
  BY <1>5, <1>6, <1>7, <1>9, <1>10, EntryPlaced, SubmitInv
<1>12. PlacedFor(b, c)
  BY <1>5, <1>7, <1>8, EntryIsLast
<1> QED
  BY <1>6, <1>10, <1>11, <1>12, StepTwice

----------------------------------------------------------------------------
(* Steps of the specification.                                              *)

\* Rows come from a signal that is taken, or are those of stops.
RowsAdded(c) ==
    \/ handled' = handled + 1 /\ PlacedFor(Book, c)
    \/ \A i \in DOMAIN c.orders \ DOMAIN orders : c.orders[i].role = "trail_stop"

\* What every step does to the rows.
RowsKept == /\ RowsInv(Book)' /\ Len(orders') >= Len(orders)
            /\ \A i \in DOMAIN orders : RowStep(orders[i], orders'[i])
            /\ RowsAdded([orders |-> orders'])

LEMMA BookRows ==
    ASSUME IInv
    PROVE  /\ Book.orders = orders /\ Book.broker = broker
           /\ BookInv(Book) /\ Book \in Books
BY DEF IInv, Book, BookInv

\* The book a handler sets.
LEMMA SetRows ==
    ASSUME IInv, NEW c, c \in Books, SetBook(c), RowsInv(c), RowsStep(Book, c), RowsAdded(c)
    PROVE  RowsKept
<1>1. orders' = c.orders /\ Book' = c
  BY DEF SetBook, Book, Books
<1>2. Len(orders') >= Len(orders)
  BY <1>1, BookRows, BookDomains DEF RowsStep
<1>3. RowsAdded([orders |-> orders'])
  BY <1>1 DEF RowsAdded, PlacedFor
<1> QED
  BY <1>1, <1>2, <1>3, BookRows DEF RowsKept, RowsStep

\* A step that leaves the rows alone.
LEMMA SameRows ==
    ASSUME IInv, RowsInv(Book), UNCHANGED orders
    PROVE  RowsKept
<1>1. Book'.orders = Book.orders
  BY DEF Book
<1>2. RowsInv(Book)'
  BY <1>1 DEF RowsInv, EntriesReplaced, TrailsFollow
<1>3. Len(orders') >= Len(orders)
  BY BookRows, BookDomains
<1>4. RowsAdded([orders |-> orders'])
  BY DEF RowsAdded
<1> QED
  BY <1>2, <1>3, <1>4, BookRows, SameRowStep DEF RowsKept

LEMMA CloseRows ==
    ASSUME IInv, RowsInv(Book), NEW fail, CloseSignal(fail)
    PROVE  RowsKept
<1> DEFINE k == PosKey(Current.key)
           c == PlaceClose(Book, handled + 1, k, "cancelSame" \notin fail,
                           "exitSame" \notin fail)
<1>1. Dequeue /\ SetBook(c) /\ pos[k] > 0
  BY DEF CloseSignal
<1>2. k \in PosKeys /\ handled + 1 \in Nat \ {0}
  BY <1>1, CurrentType, KeyTypes DEF IInv
<1>3. pos[k] \in Nat \ {0}
  BY <1>1, <1>2 DEF IInv, TypeOK
<1> HIDE DEF k
<1>4. Arranged(Book, c)
  BY <1>2, <1>3, BookRows, PlaceCloseArranges
<1> HIDE DEF c
<1>5. RowsInv(c) /\ RowsStep(Book, c) /\ c \in Books
  BY <1>4, BookRows, ArrangedInv, ArrangedSteps DEF Arranged
<1>6. RowsAdded(c)
  BY <1>1, <1>4, ArrangedFor DEF RowsAdded, Dequeue
<1> QED
  BY <1>1, <1>5, <1>6, SetRows

LEMMA ReplaceRows ==
    ASSUME IInv, RowsInv(Book), NEW fail, ReplaceEntry(fail)
    PROVE  RowsKept
<1>1. Dequeue /\ Current.kind = "open"
  BY DEF ReplaceEntry
<1>2. PICK old \in Newest(InFlightEntries(Book, Current.key)) :
         SetBook(Replacement(Book, handled + 1, old, Current.qty, fail))
  BY DEF ReplaceEntry
<1>3. /\ handled + 1 \in Nat \ {0} /\ Current.key \in SignalKeys
      /\ Current.qty \in Nat \ {0}
  BY <1>1, CurrentType DEF IInv, Current, Signals
<1>4. old \in InFlightEntries(Book, Current.key)
  BY DEF Newest
<1> DEFINE c == Replacement(Book, handled + 1, old, Current.qty, fail)
<1>5. RowsInv(c) /\ RowsStep(Book, c) /\ BookInv(c) /\ PlacedFor(Book, c)
  BY <1>3, <1>4, BookRows, ReplacementRows, ReplacementInv
<1>6. SetBook(c) /\ handled' = handled + 1
  BY <1>1, <1>2 DEF Dequeue
<1> HIDE DEF c
<1>7. RowsAdded(c)
  BY <1>5, <1>6 DEF RowsAdded
<1> QED
  BY <1>5, <1>6, <1>7, SetRows DEF BookInv

\* No entry of the key is in flight, and clearing the way adds none.
LEMMA OpenRows ==
    ASSUME IInv, RowsInv(Book), NEW fail, OpenSignal(fail)
    PROVE  RowsKept
<1> DEFINE k == Current.key
           cleared == ClearedWay(Book, handled + 1, k, fail)
           entry == NewRow(handled + 1, k, "entry", Current.qty, None)
           entered == Submit(cleared, entry, "entry" \notin fail)
<1>1. /\ Dequeue /\ Current.kind = "open" /\ InFlightEntries(Book, k) = {}
      /\ SetBook(cleared) \/ SetBook(entered)
  BY DEF OpenSignal, Entered
<1>2. handled + 1 \in Nat \ {0} /\ k \in SignalKeys /\ Current.qty \in Nat \ {0}
  BY <1>1, CurrentType DEF IInv, Current, Signals
<1> HIDE DEF k
<1>3. entry \in OrderRows /\ entry.role = "entry" /\ entry.signal # None
      /\ entry.fillQty = 0 /\ entry.key = k /\ entry.signal = handled + 1
  <2>1. k \in OrderKeys /\ "entry" \in Roles /\ None \in Nat
    BY <1>2, KeyTypes DEF None, Roles
  <2> QED BY <2>1, <1>2, NewRowType DEF None
<1> HIDE DEF entry
<1>4. BookInv(cleared) /\ Arranged(Book, cleared)
  BY <1>2, BookRows, ClearedWayInv, ClearedWayArranges DEF IInv
<1> HIDE DEF cleared
<1>5. RowsInv(cleared) /\ RowsStep(Book, cleared)
  BY <1>4, BookRows, ArrangedInv, ArrangedSteps
<1>6. InFlightEntries(cleared, k) = {}
  <2> SUFFICES ASSUME NEW i \in InFlightEntries(cleared, k) PROVE FALSE
    OBVIOUS
  <2>1. /\ i \in DOMAIN cleared.orders /\ cleared.orders[i].role = "entry"
        /\ cleared.orders[i].key = k /\ cleared.orders[i].status \in InFlight
    BY DEF InFlightEntries, InFlightRows
  <2>2. i \in DOMAIN Book.orders /\ cleared.orders[i] = Book.orders[i]
    BY <2>1, <1>4 DEF Arranged, CancelledRow, InFlight
  <2> QED BY <2>1, <2>2, <1>1 DEF InFlightEntries, InFlightRows
<1>7. RowsInv(entered) /\ RowsStep(cleared, entered) /\ BookInv(entered)
  BY <1>2, <1>3, <1>4, <1>5, <1>6, EntryPlaced, SubmitInv
<1>8. PlacedFor(Book, cleared) /\ PlacedFor(Book, entered)
  BY <1>3, <1>4, ArrangedFor, EntryIsLast
<1> HIDE DEF entered
<1>9. RowsStep(Book, entered)
  BY <1>4, <1>5, <1>7, BookRows, StepTwice
<1>10. RowsAdded(cleared) /\ RowsAdded(entered)
  BY <1>1, <1>8 DEF RowsAdded, Dequeue
<1> QED
  BY <1>1, <1>4, <1>5, <1>7, <1>9, <1>10, SetRows DEF BookInv

\* A handler that is cut short has cancelled rows and placed exits.
LEMMA ReachedArranges ==
    ASSUME IInv, Dequeue, NEW fail, NEW b \in Reached(fail)
    PROVE  Arranged(Book, b)
<1>1. /\ handled + 1 \in Nat \ {0} /\ Current.key \in SignalKeys /\ TypeOK /\ Book \in Books
  BY CurrentType, BookRows DEF IInv
<1>2. Arranged(Book, Closed(fail))
  BY <1>1, ClosedSameArranges DEF Closed
<1>3. Arranged(Book, Rid(fail)) /\ Rid(fail) \in Books
  <2>1. Closed(fail) \in Books
    BY <1>2 DEF Arranged
  <2>2. Arranged(Closed(fail), Rid(fail))
    BY <2>1, <1>1, CancelledOppositeArranges DEF Rid
  <2> QED BY <2>2, <1>2, ArrangedTwice DEF Arranged
<1>4. Arranged(Book, Cleared(fail))
  BY <1>1, ClearedWayArranges DEF Cleared
<1>5. /\ Arranged(Book, Freed(Book, PosKey(Current.key), "cancelSame" \notin fail))
      /\ Arranged(Book, Freed(Rid(fail), PosKey(OppositeKey(Current.key)),
                              "cancelOpposite" \notin fail))
  BY <1>1, <1>3, FreedArranges, ArrangedTwice
<1>6. ASSUME NEW old \in Newest(InFlightEntries(Book, Current.key))
      PROVE  /\ Arranged(Book, CancelledEntry(Book, old, fail))
             /\ Arranged(Book, SoldAgain(Book, old, fail))
  <2> DEFINE d == CancelledEntry(Book, old, fail)
  <2>1. /\ old \in DOMAIN Book.orders /\ Book.orders[old] \in OrderRows
        /\ Book.orders[old].status \in InFlight
    BY <1>1, BookDomains DEF Newest, InFlightEntries, InFlightRows
  <2>2. handled + 1 # None /\ handled + 1 \in Nat
    BY <1>1 DEF None
  <2>3. Arranged(Book, d)
    BY <2>1, <2>2, <1>1, CancelArranges DEF CancelledEntry
  <2>4. SoldAgain(Book, old, fail) = Unwound(d, handled + 1, Book.orders[old], fail)
    BY DEF SoldAgain
  <2> HIDE DEF d
  <2>5. d \in Books
    BY <2>3 DEF Arranged
  <2>6. Arranged(d, SoldAgain(Book, old, fail))
    BY <2>1, <2>4, <2>5, <1>1, UnwoundArranges
  <2> QED BY <2>3, <2>6, ArrangedTwice DEF d
<1> QED
  BY <1>1, <1>2, <1>3, <1>4, <1>5, <1>6, ArrangedAlready DEF Reached

LEMMA SignalCutArranges ==
    ASSUME IInv, NEW fail, SignalCut(fail)
    PROVE  \E c : SetBook(c) /\ Arranged(Book, c)
<1>1. Dequeue /\ TypeOK /\ Book \in Books
  BY BookRows DEF SignalCut, IInv
<1>2. PICK c \in SignalCuts(fail) : SetBook(c)
  BY DEF SignalCut
<1>3. Current.kind = "open" => Current.qty > 0
  BY <1>1, CurrentType DEF IInv, Current
<1>4. Closed(fail) \in Books /\ Rid(fail) \in Books /\ Cleared(fail) \in Books
  <2>1. Book \in Reached(fail)
    BY DEF Reached
  <2> QED BY <2>1, <1>1, ReachedInv DEF BookInv
<1>5. PICK b \in Reached(fail) : Interrupted(b, c)
  BY <1>1, <1>3, <1>4, SignalCutsAre
<1>6. Arranged(Book, b)
  BY <1>1, ReachedArranges
<1>7. Arranged(Book, c)
  BY <1>5, <1>6 DEF Interrupted, Arranged
<1> QED
  BY <1>2, <1>7

LEMMA SignalCutRows ==
    ASSUME IInv, RowsInv(Book), NEW fail, SignalCut(fail)
    PROVE  RowsKept
<1>1. PICK c : SetBook(c) /\ Arranged(Book, c)
  BY SignalCutArranges
<1>2. RowsInv(c) /\ RowsStep(Book, c) /\ c \in Books
  BY <1>1, BookRows, ArrangedInv, ArrangedSteps DEF Arranged
<1>3. RowsAdded(c)
  BY <1>1, ArrangedFor DEF RowsAdded, SignalCut, Dequeue
<1> QED
  BY <1>1, <1>2, <1>3, SetRows

\* What recording a report does to its row.
LEMMA RecordedRow ==
    ASSUME IInv, NEW i \in DOMAIN orders, NEW q, NEW x \in Nat, ReportOf(i, q, x),
           NEW n, n = CappedFill(orders[i], q + x), n > 0,
           NEW p, p = AfterFill(orders[i], n),
           NEW c, \A l \in DOMAIN orders : c.orders[l] = IF l = i THEN p ELSE orders[l]
    PROVE  /\ Filled(Book, c, i, p) /\ RowStep(orders[i], p)
           /\ p \in OrderRows
           /\ p.status = "filled" => p.fillQty = p.qty
<1> DEFINE o == orders[i]
<1>1. /\ o \in OrderRows /\ o.ibkr # None /\ n \in Nat \ {0} /\ n <= Remaining(o)
      /\ RowSound(o)
  BY ReportType, BookRows DEF BookInv
<1>2. /\ p \in OrderRows /\ p.key = o.key /\ p.role = o.role
      /\ p.qty = o.qty /\ p.ibkr = o.ibkr /\ p.parent = o.parent /\ p.signal = o.signal
      /\ p.replacedBy = o.replacedBy /\ p.fillQty = o.fillQty + n
      /\ p.status = IF o.fillQty + n >= o.qty THEN "filled" ELSE "partially_filled"
  BY <1>1, AfterFillReturns
<1>3. o.qty \in Nat /\ o.fillQty \in Nat /\ o.fillQty + n <= o.qty
  BY <1>1 DEF OrderRows, Remaining
<1>4. o.status \notin {"filled", "error"}
  BY <1>1, <1>3 DEF RowSound
<1>5. RowStep(o, p)
  BY <1>2, <1>3, <1>4, <1>1 DEF RowStep
<1>6. Filled(Book, c, i, p)
  BY <1>2, <1>4, BookRows DEF Filled
<1>7. p.status = "filled" => p.fillQty = p.qty
  BY <1>1, <1>2, <1>3
<1> QED
  BY <1>2, <1>5, <1>6, <1>7

\* A report is recorded on its row, and no row is added.
LEMMA RecordedRows ==
    ASSUME IInv, RowsInv(Book), NEW i \in DOMAIN orders, NEW q, NEW x \in Nat,
           ReportOf(i, q, x), NEW n, n = CappedFill(orders[i], q + x), n > 0,
           NEW p, p = AfterFill(orders[i], n),
           orders' = [orders EXCEPT ![i] = p]
    PROVE  RowsKept
<1> DEFINE c == [orders |-> [orders EXCEPT ![i] = p], broker |-> Taken(i, q)]
<1>1. c.orders = [orders EXCEPT ![i] = p]
  OBVIOUS
<1>2. BookInv(c)
  BY RecordedInv
<1> HIDE DEF c
<1>3. /\ DOMAIN c.orders = DOMAIN Book.orders
      /\ \A l \in DOMAIN orders : c.orders[l] = IF l = i THEN p ELSE orders[l]
  BY <1>1, BookRows
<1>4. Filled(Book, c, i, p) /\ RowStep(orders[i], p)
  BY <1>3, RecordedRow
<1>5. RowsInv(c)
  BY <1>3, <1>4, BookRows, FilledInv
<1>6. RowsStep(Book, c)
  BY <1>2, <1>3, <1>4, BookRows, BookDomains, SameRowStep DEF RowsStep, BookInv
<1>7. Book'.orders = c.orders
  BY <1>1 DEF Book
<1>8. RowsInv(Book)'
  BY <1>5, <1>7 DEF RowsInv, EntriesReplaced, TrailsFollow
<1>9. RowsAdded([orders |-> orders'])
  BY <1>1, <1>3, <1>7, BookRows DEF RowsAdded, Book
<1> QED
  BY <1>1, <1>6, <1>8, <1>9, BookRows DEF RowsKept, RowsStep

LEMMA FillRecordedOnlyRows ==
    ASSUME IInv, RowsInv(Book), NEW i \in DOMAIN orders, NEW q, NEW x \in Nat,
           FillRecordedOnly(i, q, x) \/ CloseFilled(i, q, x)
    PROVE  RowsKept
<1> DEFINE n == CappedFill(orders[i], q + x)
           p == AfterFill(orders[i], n)
<1>1. ReportOf(i, q, x) /\ n > 0 /\ orders' = [orders EXCEPT ![i] = p]
  BY DEF FillRecordedOnly, CloseFilled
<1> HIDE DEF n, p
<1> QED
  BY <1>1, RecordedRows DEF n, p

\* The entry that is complete gets its trailing stop.
LEMMA EntryFilledRows ==
    ASSUME IInv, RowsInv(Book), NEW i \in DOMAIN orders, NEW q, NEW x \in Nat,
           NEW trailOk \in BOOLEAN, EntryFilled(i, q, x, trailOk)
    PROVE  RowsKept
<1> DEFINE o == orders[i]
           n == CappedFill(o, q + x)
           p == AfterFill(o, n)
           b == [orders |-> [orders EXCEPT ![i] = p], broker |-> Taken(i, q)]
           trail == NewRow(o.signal, o.key, "trail_stop", p.fillQty, i)
           c == Submit(b, trail, connected /\ trailOk)
<1>1. /\ ReportOf(i, q, x) /\ n > 0 /\ o.role = "entry" /\ p.status = "filled"
      /\ SetBook(IF DisableTrail THEN b ELSE c)
  BY DEF EntryFilled, EntryRecorded, FilledBook, WithStop
<1>2. o \in OrderRows /\ n \in Nat
  BY <1>1, ReportType
<1>3. /\ p.role = o.role /\ p.key = o.key /\ p.qty = o.qty /\ p.fillQty \in Nat \ {0}
  BY <1>1, <1>2, AfterFillReturns DEF OrderRows
<1>4. CASE DisableTrail
  <2>1. orders' = [orders EXCEPT ![i] = p]
    BY <1>1, <1>4 DEF SetBook
  <2> HIDE DEF p, n
  <2> QED BY <1>1, <2>1, RecordedRows DEF p, n
<1>5. CASE ~DisableTrail
  <2>1. b.orders = [orders EXCEPT ![i] = p]
    OBVIOUS
  <2>2. BookInv(b) /\ b \in Books
    BY <1>1, RecordedInv DEF BookInv
  <2> HIDE DEF b
  <2>3. /\ DOMAIN b.orders = DOMAIN orders
        /\ \A l \in DOMAIN orders : b.orders[l] = IF l = i THEN p ELSE orders[l]
    BY <2>1
  <2>4. /\ Filled(Book, b, i, p) /\ RowStep(orders[i], p) /\ p.fillQty = p.qty
        /\ p \in OrderRows
    BY <1>1, <2>3, RecordedRow
  <2> HIDE DEF p
  <2>5. /\ trail \in OrderRows /\ trail.role = "trail_stop" /\ trail.key = o.key
        /\ trail.qty = p.fillQty /\ trail.parent = i
    <3>1. /\ o.signal \in Nat /\ o.key \in OrderKeys /\ "trail_stop" \in Roles /\ i \in Nat
      <4>1. i \in Nat
        BY DEF IInv, TypeOK
      <4> QED BY <4>1, <1>2 DEF OrderRows, Roles
    <3> HIDE DEF o
    <3>2. trail \in OrderRows
      BY <3>1, <1>3, NewRowType
    <3> QED BY <3>2 DEF NewRow
  <2>6. c = Submit(b, trail, connected /\ trailOk) /\ (connected /\ trailOk) \in BOOLEAN
    BY DEF b
  <2> HIDE DEF trail, c
  <2>7. SubmitEffect(b, c, trail)
    BY <2>2, <2>5, <2>6, SubmitReturns
  <2> DEFINE m == Len(b.orders) + 1
  <2>8. /\ c \in Books /\ Len(c.orders) = m
        /\ \A l \in DOMAIN b.orders : c.orders[l] = b.orders[l]
        /\ c.orders[m].key = o.key /\ c.orders[m].role = "trail_stop"
        /\ c.orders[m].parent = i /\ c.orders[m].qty = p.qty
    BY <2>4, <2>5, <2>7 DEF SubmitEffect
  <2>9. /\ Len(Book.orders) \in Nat
        /\ m = Len(c.orders) /\ Len(c.orders) = Len(Book.orders) + 1
        /\ Len(Book.orders) <= Len(c.orders)
    <3>1. Len(b.orders) = Len(orders) /\ Len(orders) \in Nat
      <4>1. orders \in Seq(OrderRows)
        BY DEF IInv, TypeOK
      <4> QED BY <4>1, <2>1, <2>4, ExceptSeq
    <3>2. Book.orders = orders
      BY BookRows
    <3> QED BY <3>1, <3>2, <2>8
  <2> HIDE DEF m
  <2>10. /\ \A l \in DOMAIN orders : c.orders[l] = IF l = i THEN p ELSE orders[l]
    BY <2>3, <2>8
  <2>11. Filled(Book, c, i, p)
    BY <1>1, <2>10, RecordedRow DEF p
  <2>12. RowsInv(c)
    BY <1>1, <1>3, <2>8, <2>9, <2>11, BookRows, TrailPlaced DEF IsEntry, p
  <2>13. RowsStep(Book, c)
    BY <2>4, <2>9, <2>10, BookRows, SameRowStep DEF RowsStep
  <2>14. RowsAdded(c)
    <3>1. DOMAIN c.orders \ DOMAIN orders \subseteq {m}
      BY <2>2, <2>3, <2>8, BookDomains DEF m
    <3> QED BY <3>1, <2>8 DEF RowsAdded
  <2> QED BY <1>1, <1>5, <2>8, <2>12, <2>13, <2>14, SetRows
<1> QED
  BY <1>4, <1>5

\* The row of the stop was not committed.
LEMMA StopCutRows ==
    ASSUME IInv, RowsInv(Book), NEW i \in DOMAIN orders, NEW q, NEW x \in Nat,
           StopCut(i, q, x)
    PROVE  RowsKept
<1> DEFINE n == CappedFill(orders[i], q + x)
           p == AfterFill(orders[i], n)
<1>1. ReportOf(i, q, x) /\ n > 0
  BY DEF StopCut, EntryRecorded
<1>2. orders' = [orders EXCEPT ![i] = p]
  <2> DEFINE b == FilledBook(i, q, x)
  <2>1. b.orders = [orders EXCEPT ![i] = p]
    BY DEF FilledBook
  <2>2. PICK c \in Unrecorded(b, WithStop(i, q, x, connected)) : SetBook(c)
    BY DEF StopCut
  <2>3. c.orders = b.orders
    <3>1. \A r : [b EXCEPT !.broker = r].orders = b.orders
      BY DEF FilledBook
    <3> HIDE DEF b
    <3> QED BY <2>2, <3>1 DEF Unrecorded
  <2> QED BY <2>1, <2>2, <2>3 DEF SetBook
<1> HIDE DEF n, p
<1> QED
  BY <1>1, <1>2, RecordedRows DEF n, p

\* The row made up for an orphan fill is no entry and has no parent.
LEMMA OrphanRows ==
    ASSUME IInv, RowsInv(Book), NEW j \in DOMAIN broker, NEW q, OrphanFill(j, q)
    PROVE  RowsKept
<1>1. IInv'
  BY OrphanFillInv
<1>2. PICK made : /\ orders' = Append(orders, made)
                  /\ made.role = "trail_stop" /\ made.parent = None
  <2> DEFINE k == [symbol |-> broker[j].symbol,
                   dir |-> IF broker[j].side = "SELL" THEN "long" ELSE "short",
                   interval |-> NoInterval]
             fresh == NewRow(None, k, "trail_stop", q, None)
             new == [fresh EXCEPT !.ibkr = j, !.fillQty = q, !.status = "filled"]
  <2>1. orders' = Append(orders, new)
    BY DEF OrphanFill
  <2> HIDE DEF k
  <2>2. new.role = "trail_stop" /\ new.parent = None
    BY DEF NewRow
  <2> HIDE DEF new
  <2> QED BY <2>1, <2>2
<1>3. orders \in Seq(OrderRows) /\ orders' \in Seq(OrderRows)
  BY <1>1 DEF IInv, TypeOK
<1>4. /\ Len(orders') = Len(orders) + 1 /\ orders'[Len(orders')] = made
      /\ \A i \in DOMAIN orders : orders'[i] = orders[i]
  BY <1>2, <1>3
<1> DEFINE c == [orders |-> orders', broker |-> broker']
<1>5. BookInv(c) /\ c \in Books /\ SetBook(c) /\ c.orders = orders'
  <2>1. c = Book'
    BY DEF Book
  <2>2. BookInv(c)
    BY <1>1, <2>1 DEF IInv
  <2> QED BY <2>2 DEF BookInv, SetBook
<1> HIDE DEF c
<1>6. Longer(Book, c)
  BY <1>4, <1>5, BookRows DEF Longer
<1>7. RowsInv(c) /\ RowsStep(Book, c)
  BY <1>2, <1>4, <1>5, <1>6, BookRows, LongerInv, LongerSteps DEF IsEntry
<1>8. RowsAdded(c)
  <2>1. DOMAIN c.orders \ DOMAIN orders \subseteq {Len(orders')}
    BY <1>3, <1>4, <1>5
  <2> QED BY <2>1, <1>2, <1>4, <1>5 DEF RowsAdded
<1> QED
  BY <1>5, <1>7, <1>8, SetRows

----------------------------------------------------------------------------
(* The theorems.                                                            *)

LEMMA NextRows ==
    ASSUME IInv, RowsInv(Book), [Next]_vars
    PROVE  RowsKept
<1>1. CASE AcceptSignal
  BY <1>1, SameRows DEF AcceptSignal, Accept, bookVars
<1>2. CASE HandleSignal
  <2>1. RejectOffline \/ CloseNothing => UNCHANGED orders
    BY DEF RejectOffline, CloseNothing, bookVars
  <2> QED BY <2>1, <1>2, SameRows, CloseRows, ReplaceRows, OpenRows DEF HandleSignal
<1>3. CASE KnownFill
  <2>1. PICK i \in DOMAIN orders :
           \E q \in Chunks(broker[orders[i].ibkr].pending), x \in 0 .. MaxOverstatement :
              \/ FillIgnored(i, q, x)
              \/ FillRecordedOnly(i, q, x)
              \/ \E trailOk \in {"trail" \notin fail : fail \in Failures} :
                    EntryFilled(i, q, x, trailOk)
              \/ FillLostToDuplicateRow(i, q, x)
              \/ CloseFilled(i, q, x)
    BY <1>3 DEF KnownFill
  <2>2. PICK q \in Chunks(broker[orders[i].ibkr].pending), x \in 0 .. MaxOverstatement :
           \/ FillIgnored(i, q, x)
           \/ FillRecordedOnly(i, q, x)
           \/ \E trailOk \in {"trail" \notin fail : fail \in Failures} :
                 EntryFilled(i, q, x, trailOk)
           \/ FillLostToDuplicateRow(i, q, x)
           \/ CloseFilled(i, q, x)
    BY <2>1
  <2>3. x \in Nat
    BY LimitsAssumption
  <2>4. {"trail" \notin fail : fail \in Failures} \subseteq BOOLEAN
    OBVIOUS
  <2>5. FillIgnored(i, q, x) \/ FillLostToDuplicateRow(i, q, x) => UNCHANGED orders
    BY DEF FillIgnored, FillLostToDuplicateRow
  <2> QED
    BY <2>2, <2>3, <2>4, <2>5, SameRows, FillRecordedOnlyRows, EntryFilledRows
<1>4. CASE UnknownFill
  BY <1>4, OrphanRows DEF UnknownFill
<1>5. CASE BrokerStep
  <2>1. UNCHANGED orders
    BY <1>5 DEF BrokerStep, Execute, ConfirmCancel, ExternalOrder
  <2> QED BY <2>1, SameRows
<1>6. CASE LinkStep
  <2>1. UNCHANGED orders
    BY <1>6 DEF LinkStep, TwsDown, ServerRestart, TwsUp, ReconcileRead, ReconcileWrite,
                bookVars, dbVars
  <2> QED BY <2>1, SameRows
<1>7. CASE CutShort
  <2>1. \/ \E fail \in Failures : SignalCut(fail)
        \/ \E i \in DOMAIN orders, x \in 0 .. MaxOverstatement : \E q : StopCut(i, q, x)
    BY <1>7 DEF CutShort
  <2>2. \A x \in 0 .. MaxOverstatement : x \in Nat
    BY LimitsAssumption
  <2> QED BY <2>1, <2>2, SignalCutRows, StopCutRows
<1>8. CASE UNCHANGED vars
  BY <1>8, SameRows DEF vars
<1> QED
  BY <1>1, <1>2, <1>3, <1>4, <1>5, <1>6, <1>7, <1>8 DEF Next, HandleFill

\* No signal is put back.
LEMMA HandledGrows ==
    ASSUME TypeOK, [Next]_vars
    PROVE  handled' \in Nat /\ handled' >= handled
<1>1. handled \in Nat /\ Len(signals) \in Nat /\ handled <= Len(signals)
  BY DEF TypeOK
<1>2. AcceptSignal \/ UNCHANGED vars => handled' = handled
  BY DEF AcceptSignal, Accept, vars
<1>3. HandleSignal => handled' = handled + 1
  BY DEF HandleSignal, RejectOffline, CloseNothing, CloseSignal, ReplaceEntry, OpenSignal,
         Dequeue
<1>4. HandleFill => handled' = handled
  <2>1. \A i, q, x : /\ FillIgnored(i, q, x) \/ FillLostToDuplicateRow(i, q, x)
                          => handled' = handled
                     /\ FillRecordedOnly(i, q, x) \/ CloseFilled(i, q, x) => handled' = handled
    BY DEF FillIgnored, FillLostToDuplicateRow, FillRecordedOnly, CloseFilled
  <2>2. \A i, q, x, ok : EntryFilled(i, q, x, ok) => handled' = handled
    BY DEF EntryFilled, EntryRecorded
  <2>3. \A j, q : OrphanFill(j, q) => handled' = handled
    BY DEF OrphanFill
  <2> QED BY <2>1, <2>2, <2>3 DEF HandleFill, KnownFill, UnknownFill
<1>5. CutShort => handled' = handled + 1 \/ handled' = handled
  BY DEF CutShort, SignalCut, StopCut, EntryRecorded, Dequeue
<1>6. BrokerStep => handled' = handled
  <2>1. \A j, q : Execute(j, q) \/ ConfirmCancel(j) => handled' = handled
    BY DEF Execute, ConfirmCancel
  <2>2. ExternalOrder => handled' = handled
    BY DEF ExternalOrder
  <2> QED BY <2>1, <2>2 DEF BrokerStep
<1>7. LinkStep => handled' = handled \/ handled' = Len(signals)
  <2>1. TwsDown \/ TwsUp \/ ReconcileRead \/ ReconcileWrite => handled' = handled
    BY DEF TwsDown, TwsUp, ReconcileRead, ReconcileWrite
  <2>2. ServerRestart => handled' = Len(signals)
    BY DEF ServerRestart
  <2> QED BY <2>1, <2>2 DEF LinkStep
<1>8. handled' = handled \/ handled' = handled + 1 \/ handled' = Len(signals)
  BY <1>2, <1>3, <1>4, <1>5, <1>6, <1>7 DEF Next
<1> QED
  BY <1>1, <1>8

\* The orders of signals, in the order of these, none beyond the last one taken.
SignalsFollow ==
    /\ OrdersFollowSignals
    /\ \A i \in DOMAIN orders : orders[i].role # "trail_stop" => orders[i].signal <= handled

LEMMA NextFollows ==
    ASSUME IInv, RowsInv(Book), SignalsFollow, [Next]_vars
    PROVE  SignalsFollow'
<1>1. /\ handled \in Nat /\ handled' \in Nat /\ handled' >= handled
  BY HandledGrows DEF IInv, TypeOK
<1>2. /\ \A i \in DOMAIN orders : /\ orders'[i].signal = orders[i].signal
                                  /\ orders'[i].role = orders[i].role
                                  /\ orders[i].signal \in Nat
      /\ RowsAdded([orders |-> orders'])
  BY NextRows, BookRows, BookDomains DEF RowsKept, RowStep, OrderRows
<1>3. /\ \A i \in DOMAIN orders' : i \in Nat /\ ~(i < i)
      /\ \A i \in DOMAIN orders' \ DOMAIN orders, j \in DOMAIN orders : j \in Nat /\ j < i
  <2>1. orders \in Seq(OrderRows) /\ orders' \in Seq(OrderRows)
    BY NextInv DEF IInv, TypeOK
  <2> QED BY <2>1
<1>4. ASSUME NEW i \in DOMAIN orders' \ DOMAIN orders, orders'[i].role # "trail_stop"
      PROVE  /\ handled' = handled + 1 /\ orders'[i].signal = handled + 1
             /\ \A j \in DOMAIN orders' \ DOMAIN orders :
                   orders'[i].role = "entry" /\ orders'[j].role = "entry" => i = j
  BY <1>2, <1>4, BookRows DEF RowsAdded, PlacedFor, IsEntry
<1>5. ASSUME NEW i \in DOMAIN orders', orders'[i].role # "trail_stop"
      PROVE  orders'[i].signal <= handled'
  BY <1>1, <1>2, <1>4, <1>5 DEF SignalsFollow
<1>6. ASSUME NEW i \in DOMAIN orders', NEW j \in DOMAIN orders', i < j,
             orders'[i].role # "trail_stop", orders'[j].role # "trail_stop"
      PROVE  /\ orders'[i].signal <= orders'[j].signal
             /\ orders'[i].role = "entry" /\ orders'[j].role = "entry"
                => orders'[i].signal # orders'[j].signal
  <2>1. CASE j \in DOMAIN orders
    <3>1. i \in DOMAIN orders
      BY <1>3, <1>6, <2>1
    <3> QED BY <3>1, <2>1, <1>2, <1>6 DEF SignalsFollow, OrdersFollowSignals
  <2>2. CASE i \in DOMAIN orders /\ j \notin DOMAIN orders
    BY <2>2, <1>1, <1>2, <1>4, <1>6 DEF SignalsFollow
  <2>3. CASE i \notin DOMAIN orders /\ j \notin DOMAIN orders
    <3>1. i # j
      BY <1>3, <1>6
    <3> QED BY <3>1, <2>3, <1>1, <1>4, <1>6
  <2> QED BY <2>1, <2>2, <2>3, <1>3, <1>6
<1> QED
  BY <1>5, <1>6 DEF SignalsFollow, OrdersFollowSignals

LEMMA RowsHold == Spec => []RowsInv(Book)
<1>1. Init => RowsInv(Book)
  BY DEF Init, Book, RowsInv, EntriesReplaced, TrailsFollow
<1>2. IInv /\ RowsInv(Book) /\ [Next]_vars => RowsInv(Book)'
  BY NextRows DEF RowsKept
<1> QED
  BY <1>1, <1>2, InvariantHolds, PTL DEF Spec

\* Whatever a step does to the rows, it loses none, changes none that is filled or
\* refused, takes back no fill, and brings a cancelled row back by a fill only.
THEOREM RowsKeepTheirLives == Spec => OrderLifecycle
<1>1. IInv /\ RowsInv(Book) /\ [Next]_vars
         => [/\ Len(orders') >= Len(orders)
             /\ \A i \in DOMAIN orders : RowStep(orders[i], orders'[i])]_vars
  BY NextRows DEF RowsKept
<1> QED
  BY <1>1, RowsHold, InvariantHolds, PTL DEF Spec, OrderLifecycle

\* Rule 5: an entry in flight that is not the newest of its key was replaced.
THEOREM NewestEntryIsLive == Spec => []OnlyNewestEntryIsLive
<1>1. RowsInv(Book) => OnlyNewestEntryIsLive
  BY DEF RowsInv, EntriesReplaced, OnlyNewestEntryIsLive, Book, IsEntry
<1> QED
  BY <1>1, RowsHold, PTL

\* A trailing stop row of an entry belongs to a filled one, has its key and quantity,
\* and is the only one it has, handlers cut short included.
THEOREM TrailsFollowEntries == Spec => []TrailsMatchEntries
<1>1. IInv /\ RowsInv(Book) => TrailsMatchEntries
  <2> SUFFICES ASSUME IInv, RowsInv(Book), NEW e \in DOMAIN orders
               PROVE  /\ \A t \in DOMAIN orders : IsTrailOf(t, e) =>
                            /\ orders[e].role = "entry" /\ orders[e].status = "filled"
                            /\ orders[t].key = orders[e].key /\ orders[t].qty = orders[e].qty
                      /\ \A t, u \in DOMAIN orders : IsTrailOf(t, e) /\ IsTrailOf(u, e) => t = u
    BY DEF TrailsMatchEntries
  <2>1. e # None
    BY BookRows, BookDomains DEF None
  <2> QED BY <2>1, BookRows DEF RowsInv, TrailsFollow, IsTrailOf, IsEntry
<1> QED
  BY <1>1, RowsHold, InvariantHolds, PTL

\* Orders are placed in the order of their signals, and none enters twice, whatever is
\* interrupted or restarted in between.
THEOREM OrdersFollow == Spec => []OrdersFollowSignals
<1>1. Init => SignalsFollow
  BY DEF Init, SignalsFollow, OrdersFollowSignals
<1>2. IInv /\ RowsInv(Book) /\ SignalsFollow /\ [Next]_vars => SignalsFollow'
  BY NextFollows
<1>3. SignalsFollow => OrdersFollowSignals
  BY DEF SignalsFollow
<1> QED
  BY <1>1, <1>2, <1>3, RowsHold, InvariantHolds, PTL DEF Spec
==============================================================================
