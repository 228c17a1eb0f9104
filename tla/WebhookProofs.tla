------------------------------ MODULE WebhookProofs ------------------------------
(***************************************************************************)
(* Theorems about Webhook, for every set of keys, every window, rate and   *)
(* capacity, and every number of requests, restarts and switches.          *)
(***************************************************************************)
EXTENDS Webhook, SequenceTheorems, FiniteSetTheorems, TLAPS

\* What a request is about to write, by what made it: the duplicate query accepts
\* nothing that is ignored, only kernel alerts are informational, and only the
\* query names a duplicate.
JobInv(j) ==
    /\ j.status = "accepted" => ~Ignored(j.key)
    /\ j.status = "rejected" => Ignored(j.key)
    /\ j.status = "informational" => j.key \in InfoKeys
    /\ j.dupOf # None => j.status = "deduped"
    /\ j.visible <= Len(rows)

\* A request has an id exactly from its insert on, and no job before it arrives.
RequestInv(r) ==
    /\ step[r] = "new" => job[r] = Blank
    /\ step[r] \in {"new", "refused", "dedup", "insert"} => id[r] = None
    /\ step[r] = "answer" => id[r] # None
    /\ step[r] = "dedup" => job[r].key \notin InfoKeys
    /\ arrived[r] <= now
    /\ JobInv(job[r])

\* Row i is what request r wrote; the router may have rejected it since.
RowOf(i, r) ==
    /\ rows[i].key = job[r].key /\ rows[i].dupOf = job[r].dupOf
    /\ rows[i].received = job[r].received
    /\ \/ rows[i].status = job[r].status
       \/ job[r].status = "accepted" /\ rows[i].status = "rejected"

\* Each row was written by one request.
RowsInv ==
    /\ \A r \in Requests : id[r] # None => RowOf(id[r], r)
    /\ \A q, r \in Requests : id[q] = id[r] /\ id[r] # None => q = r
    /\ \A i \in DOMAIN rows : \E r \in Requests : id[r] = i

\* The row a duplicate names is one of its key, routed and recent.
DupInv(r) ==
    LET i == job[r].dupOf
    IN  i # None =>
          /\ i \in DOMAIN rows /\ rows[i].key = job[r].key /\ Routed(i) /\ rows[i].dupOf = None
          /\ rows[i].received >= arrived[r] - Window
          /\ id[r] # None => i < id[r]

\* What the duplicate query of an accepted alert could see, and was recent, had been
\* rejected or was no primary, and still is.
QueryInv(r) ==
    Window > 0 /\ job[r].status = "accepted" /\ job[r].key \notin ManualKeys =>
        \A i \in DOMAIN rows :
            /\ i <= job[r].visible /\ rows[i].key = job[r].key
            /\ rows[i].received >= arrived[r] - Window
            => rows[i].status # "accepted"

DeliveryInv ==
    /\ AcceptedAccountedFor
    /\ dropped \cap Answering = {}

\* The limiter's bucket pays for every request it let through: what passed since any
\* moment and what is left stay within the burst and the time since.
RateInv ==
    restarts = 0 =>
        /\ \A from, to \in 0 .. now :
              from <= to => Cardinality(Passed(from, to)) <= Rps + (to - from)
        /\ \A from \in 0 .. now : Cardinality(Passed(from, now)) + Refill <= Rps + (now - from)

IInv ==
    /\ TypeOK
    /\ RowsInv
    /\ \A r \in Requests : RequestInv(r) /\ DupInv(r) /\ QueryInv(r)
    /\ DeliveryInv
    /\ RateInv

----------------------------------------------------------------------------
(* Types.                                                                   *)

LEMMA RequestsAreFinite == IsFiniteSet(Requests)
BY FS_Interval, BoundsAssumption DEF Requests

LEMMA KeyTypes ==
    /\ AlertKeys \subseteq Keys /\ ManualKeys \subseteq Keys /\ Unsupported \in Keys
    /\ Unsupported \notin ManualKeys
BY KeysAssumption DEF Keys

LEMMA NewRowType ==
    ASSUME TypeOK, NEW k \in Keys, NEW status \in Statuses, NEW dup \in Nat,
           NEW visible \in Nat, NEW row, row = NewRow(k, status, dup, visible)
    PROVE  /\ row \in Rows
           /\ row.key = k /\ row.status = status /\ row.dupOf = dup
           /\ row.received = now /\ row.visible = visible
<1>1. now \in Nat
  BY DEF TypeOK
<1> QED
  BY <1>1 DEF NewRow, Rows

LEMMA BlankType ==
    /\ Blank \in Rows /\ Blank.key = Unsupported /\ Blank.status = "unsupported"
    /\ Blank.dupOf = None /\ Blank.visible = 0
BY KeyTypes DEF Blank, Rows, Statuses, None

\* The bucket after a refill.
LEMMA RefillType ==
    ASSUME TypeOK
    PROVE  Refill \in 0 .. Rps /\ Rps \in Nat /\ now \in Nat
<1>1. tokens \in 0 .. Rps /\ refilled \in 0 .. now /\ now \in Nat /\ Rps \in Nat
  BY BoundsAssumption DEF TypeOK
<1> QED
  BY <1>1 DEF Refill

LEMMA RowTypes ==
    ASSUME TypeOK
    PROVE  /\ Len(rows) \in Nat /\ DOMAIN rows = 1 .. Len(rows)
           /\ \A i \in DOMAIN rows : rows[i] \in Rows
           /\ \A r \in Requests : job[r] \in Rows /\ id[r] \in 0 .. Len(rows)
BY DEF TypeOK

----------------------------------------------------------------------------
(* Steps that concern one request, or none, and neither rows nor queue.     *)

\* What an arrival, the duplicate query or a failed insert does to request r.
Quiet(r) ==
    /\ step[r] \in {"new", "dedup", "insert"}
    /\ \E s \in {"refused", "dedup", "insert", "done"} : step' = [step EXCEPT ![r] = s]
    /\ \E j \in Rows : job' = [job EXCEPT ![r] = j]
    /\ \E t \in {arrived[r], now} : arrived' = [arrived EXCEPT ![r] = t]
    /\ tokens' \in 0 .. Rps /\ refilled' \in 0 .. now
    /\ UNCHANGED <<id, rows, delivery, environment>>

LEMMA QuietType ==
    ASSUME TypeOK, NEW r \in Requests, Quiet(r)
    PROVE  TypeOK'
<1>1. /\ \E s \in {"refused", "dedup", "insert", "done"} : step' = [step EXCEPT ![r] = s]
      /\ \E j \in Rows : job' = [job EXCEPT ![r] = j]
      /\ \E t \in {arrived[r], now} : arrived' = [arrived EXCEPT ![r] = t]
      /\ tokens' \in 0 .. Rps /\ refilled' \in 0 .. now
      /\ UNCHANGED <<id, rows, queue, head, dropped, lost, now, accepting, toggles, restarts>>
  BY DEF Quiet, delivery, environment
<1>2. step' \in [Requests -> {"new", "refused", "dedup", "insert", "answer", "done"}]
  BY <1>1 DEF TypeOK
<1>3. job' \in [Requests -> Rows]
  BY <1>1 DEF TypeOK
<1>4. arrived' \in [Requests -> 0 .. MaxTime]
  BY <1>1 DEF TypeOK
<1> QED
  BY <1>1, <1>2, <1>3, <1>4 DEF TypeOK

\* Such a step touches no other request, no row and nothing that is delivered.
LEMMA QuietKeeps ==
    ASSUME IInv, NEW r \in Requests, Quiet(r)
    PROVE  /\ RowsInv' /\ DeliveryInv'
           /\ \A q \in Requests \ {r} : RequestInv(q)' /\ DupInv(q)' /\ QueryInv(q)'
<1>1. /\ UNCHANGED <<id, rows, queue, head, dropped, lost, now>>
      /\ id[r] = None /\ step[r] # "answer" /\ step'[r] # "answer"
      /\ \A q \in Requests \ {r} : /\ step'[q] = step[q] /\ job'[q] = job[q]
                                    /\ arrived'[q] = arrived[q]
  BY DEF Quiet, IInv, TypeOK, RequestInv, delivery, environment
<1>2. RowsInv'
  BY <1>1 DEF IInv, RowsInv, RowOf
<1>3. Answering' = Answering
  BY <1>1 DEF Answering
<1>4. \A i : Routed(i)' = Routed(i)
  BY <1>1 DEF Routed, Ignored
<1>5. DeliveryInv'
  BY <1>1, <1>3, <1>4 DEF IInv, DeliveryInv, AcceptedAccountedFor, Queued
<1>6. ASSUME NEW q \in Requests \ {r}
      PROVE  RequestInv(q)' /\ DupInv(q)' /\ QueryInv(q)'
  <2>1. RequestInv(q) /\ DupInv(q) /\ QueryInv(q)
    BY DEF IInv
  <2>2. RequestInv(q)'
    BY <2>1, <1>1 DEF RequestInv, JobInv, Ignored
  <2>3. DupInv(q)'
    BY <2>1, <1>1, <1>4 DEF DupInv
  <2>4. QueryInv(q)'
    BY <2>1, <1>1 DEF QueryInv
  <2> QED BY <2>2, <2>3, <2>4
<1> QED
  BY <1>2, <1>5, <1>6

----------------------------------------------------------------------------
(* The limiter.                                                             *)

LEMMA PassedIsFinite ==
    ASSUME NEW from, NEW to
    PROVE  /\ IsFiniteSet(Passed(from, to)) /\ Cardinality(Passed(from, to)) \in Nat
           /\ IsFiniteSet(Passed(from, to)') /\ Cardinality(Passed(from, to)') \in Nat
<1>1. Passed(from, to) \in SUBSET Requests /\ Passed(from, to)' \in SUBSET Requests
  BY DEF Passed
<1>2. IsFiniteSet(Passed(from, to)) /\ IsFiniteSet(Passed(from, to)')
  BY <1>1, RequestsAreFinite, FS_Subset
<1> QED
  BY <1>2, FS_CardinalityType

\* Requests of step r aside, nobody passes or is forgotten in a step.
Elsewhere(r) ==
    \A q \in Requests \ {r} :
        /\ step'[q] \notin {"new", "refused"} => step[q] \notin {"new", "refused"}
        /\ job'[q].key = job[q].key /\ arrived'[q] = arrived[q]

\* A step in which request r does not pass keeps the bound.
LEMMA PassedShrinks ==
    ASSUME NEW r, Elsewhere(r), NEW from, NEW to,
           r \in Requests /\ r \in Passed(from, to)' => r \in Passed(from, to)
    PROVE  /\ Passed(from, to)' \subseteq Passed(from, to)
           /\ Cardinality(Passed(from, to)') <= Cardinality(Passed(from, to))
<1>1. Passed(from, to)' \in SUBSET Passed(from, to)
  BY DEF Passed, Elsewhere
<1> QED
  BY <1>1, PassedIsFinite, FS_Subset

LEMMA RateKept ==
    ASSUME IInv, UNCHANGED <<now, tokens, refilled>>, restarts' = 0 => restarts = 0,
           NEW r, Elsewhere(r),
           \A from, to : r \in Requests /\ r \in Passed(from, to)' => r \in Passed(from, to)
    PROVE  RateInv'
<1>1. \A from, to : /\ Cardinality(Passed(from, to)') <= Cardinality(Passed(from, to))
                    /\ Cardinality(Passed(from, to)') \in Nat
                    /\ Cardinality(Passed(from, to)) \in Nat
  BY PassedShrinks, PassedIsFinite
<1>2. Refill' = Refill /\ Refill \in Nat /\ Rps \in Nat /\ now \in Nat
  BY RefillType DEF IInv, Refill
<1>3. SUFFICES ASSUME restarts' = 0
      PROVE  /\ \A from, to \in 0 .. now :
                   from <= to => Cardinality(Passed(from, to)') <= Rps + (to - from)
             /\ \A from \in 0 .. now :
                   Cardinality(Passed(from, now)') + Refill <= Rps + (now - from)
  BY <1>2 DEF RateInv
<1>4. ASSUME NEW from \in 0 .. now, NEW to \in 0 .. now, from <= to
      PROVE  Cardinality(Passed(from, to)') <= Rps + (to - from)
  <2>1. Cardinality(Passed(from, to)) <= Rps + (to - from)
    BY <1>3, <1>4 DEF IInv, RateInv
  <2> QED BY <2>1, <1>1, <1>2
<1>5. ASSUME NEW from \in 0 .. now
      PROVE  Cardinality(Passed(from, now)') + Refill <= Rps + (now - from)
  <2>1. Cardinality(Passed(from, now)) + Refill <= Rps + (now - from)
    BY <1>3 DEF IInv, RateInv
  <2> QED BY <2>1, <1>1, <1>2
<1> QED
  BY <1>4, <1>5

\* A request that takes a token pays for itself.
LEMMA RateTaken ==
    ASSUME IInv, NEW r \in Requests, TakesToken(r), Elsewhere(r),
           UNCHANGED <<now, restarts>>
    PROVE  RateInv'
<1>1. /\ now \in Nat /\ Rps \in Nat /\ Refill \in 1 .. Rps
      /\ tokens' = Refill - 1 /\ refilled' = now /\ arrived'[r] = now
      /\ step[r] = "new"
  BY RefillType DEF TakesToken, Arriving, IInv, TypeOK
<1>2. Refill' = Refill - 1
  BY <1>1 DEF Refill
<1>3. SUFFICES ASSUME restarts = 0
      PROVE  /\ \A from, to \in 0 .. now :
                   from <= to => Cardinality(Passed(from, to)') <= Rps + (to - from)
             /\ \A from \in 0 .. now :
                   Cardinality(Passed(from, now)') + (Refill - 1) <= Rps + (now - from)
  BY <1>2 DEF RateInv
<1>4. ASSUME NEW from \in 0 .. now
      PROVE  Cardinality(Passed(from, now)') + (Refill - 1) <= Rps + (now - from)
  <2>1. Passed(from, now)' \in SUBSET (Passed(from, now) \cup {r})
    BY DEF Passed, Elsewhere
  <2>2. /\ IsFiniteSet(Passed(from, now) \cup {r})
        /\ Cardinality(Passed(from, now) \cup {r}) <= Cardinality(Passed(from, now)) + 1
        /\ Cardinality(Passed(from, now) \cup {r}) \in Nat
    <3>1. IsFiniteSet(Passed(from, now)) /\ Cardinality(Passed(from, now)) \in Nat
      BY PassedIsFinite
    <3> HIDE DEF Passed
    <3> QED BY <3>1, FS_AddElement
  <2>3. Cardinality(Passed(from, now)') <= Cardinality(Passed(from, now)) + 1
    BY <2>1, <2>2, PassedIsFinite, FS_Subset
  <2>4. Cardinality(Passed(from, now)) + Refill <= Rps + (now - from)
    BY <1>3 DEF IInv, RateInv
  <2> QED BY <2>3, <2>4, <1>1, PassedIsFinite
<1>5. ASSUME NEW from \in 0 .. now, NEW to \in 0 .. now, from <= to
      PROVE  Cardinality(Passed(from, to)') <= Rps + (to - from)
  <2>1. CASE to = now
    BY <2>1, <1>1, <1>4, PassedIsFinite
  <2>2. CASE to # now
    <3>1. r \notin Passed(from, to)'
      BY <2>2, <1>1 DEF Passed
    <3>2. Cardinality(Passed(from, to)') <= Cardinality(Passed(from, to))
      BY <3>1, PassedShrinks
    <3>3. Cardinality(Passed(from, to)) <= Rps + (to - from)
      BY <1>3, <1>5 DEF IInv, RateInv
    <3> QED BY <3>2, <3>3, <1>1, PassedIsFinite
  <2> QED BY <2>1, <2>2
<1> QED
  BY <1>4, <1>5

\* A refused request leaves an empty bucket empty.
LEMMA RateRefused ==
    ASSUME IInv, NEW r \in Requests, RateLimited(r)
    PROVE  RateInv'
<1>1. /\ tokens' = Refill /\ refilled' = now /\ step' = [step EXCEPT ![r] = "refused"]
      /\ UNCHANGED <<now, restarts, arrived, job>> /\ Refill \in 0 .. Rps
      /\ now \in Nat /\ Rps \in Nat
  BY RefillType DEF RateLimited, Becomes, environment, IInv
<1>2. Refill' = Refill
  BY <1>1 DEF Refill
<1>3. ASSUME NEW q \in Requests PROVE step'[q] \notin {"new", "refused"} => step'[q] = step[q]
  BY <1>1 DEF IInv, TypeOK
<1>4. \A from, to : /\ Cardinality(Passed(from, to)') <= Cardinality(Passed(from, to))
                    /\ Cardinality(Passed(from, to)') \in Nat
                    /\ Cardinality(Passed(from, to)) \in Nat
  <2>1. Elsewhere(r)
    BY <1>1, <1>3 DEF Elsewhere
  <2>2. \A from, to : r \notin Passed(from, to)'
    BY <1>1 DEF Passed, IInv, TypeOK
  <2> QED BY <2>1, <2>2, PassedShrinks, PassedIsFinite
<1>5. SUFFICES ASSUME restarts = 0
      PROVE  /\ \A from, to \in 0 .. now :
                   from <= to => Cardinality(Passed(from, to)') <= Rps + (to - from)
             /\ \A from \in 0 .. now :
                   Cardinality(Passed(from, now)') + Refill <= Rps + (now - from)
  BY <1>1, <1>2 DEF RateInv
<1>6. ASSUME NEW from \in 0 .. now, NEW to \in 0 .. now, from <= to
      PROVE  Cardinality(Passed(from, to)') <= Rps + (to - from)
  <2>1. Cardinality(Passed(from, to)) <= Rps + (to - from)
    BY <1>5, <1>6 DEF IInv, RateInv
  <2> QED BY <2>1, <1>1, <1>4
<1>7. ASSUME NEW from \in 0 .. now
      PROVE  Cardinality(Passed(from, now)') + Refill <= Rps + (now - from)
  <2>1. Cardinality(Passed(from, now)) + Refill <= Rps + (now - from)
    BY <1>5 DEF IInv, RateInv
  <2> QED BY <2>1, <1>1, <1>4
<1> QED
  BY <1>6, <1>7

\* A tick adds at most one token, and nobody has passed in the new tick yet.
LEMMA RateTick ==
    ASSUME IInv, Tick
    PROVE  RateInv'
<1>1. /\ now' = now + 1 /\ UNCHANGED <<tokens, refilled, restarts, step, arrived, job>>
      /\ now \in Nat /\ now' \in Nat /\ Rps \in Nat
  BY RefillType DEF Tick, intake, requests, IInv
<1>2. /\ Refill' \in 0 .. Rps /\ Refill \in 0 .. Rps /\ Refill' <= Refill + 1
  <2>1. tokens \in 0 .. Rps /\ refilled \in 0 .. now
    BY DEF IInv, TypeOK
  <2> QED BY <1>1, <2>1 DEF Refill
<1>3. \A r \in Requests : arrived[r] \in Nat /\ arrived[r] <= now
  BY DEF IInv, TypeOK, RequestInv
<1>4. \A from, to : Passed(from, to)' = Passed(from, to)
  BY <1>1 DEF Passed
<1>5. SUFFICES ASSUME restarts = 0
      PROVE  /\ \A from, to \in 0 .. now + 1 :
                   from <= to => Cardinality(Passed(from, to)) <= Rps + (to - from)
             /\ \A from \in 0 .. now + 1 :
                   Cardinality(Passed(from, now + 1)) + Refill' <= Rps + ((now + 1) - from)
  <2> DEFINE R == Refill'
  <2>1. \A from : Passed(from, now)' = Passed(from, now + 1)
    BY <1>1 DEF Passed
  <2> QED BY <1>1, <1>4, <2>1 DEF RateInv
<1>6. ASSUME NEW from \in 0 .. now + 1
      PROVE  Cardinality(Passed(from, now + 1)) + Refill' <= Rps + ((now + 1) - from)
  <2>1. CASE from = now + 1
    <3>1. Passed(from, now + 1) = {}
      BY <2>1, <1>1, <1>3 DEF Passed
    <3> QED BY <3>1, <2>1, <1>1, <1>2, FS_EmptySet
  <2>2. CASE from # now + 1
    <3>1. from \in 0 .. now
      BY <2>2, <1>1
    <3>2. Passed(from, now + 1) = Passed(from, now)
      <4>1. \A r \in Requests : arrived[r] \in from .. now + 1 <=> arrived[r] \in from .. now
        BY <1>1, <1>3, <3>1
      <4> QED BY <4>1 DEF Passed
    <3>3. Cardinality(Passed(from, now)) + Refill <= Rps + (now - from)
      BY <1>5, <3>1 DEF IInv, RateInv
    <3> HIDE DEF Passed
    <3> QED BY <3>1, <3>2, <3>3, <1>1, <1>2, PassedIsFinite
  <2> QED BY <2>1, <2>2
<1>7. ASSUME NEW from \in 0 .. now + 1, NEW to \in 0 .. now + 1, from <= to
      PROVE  Cardinality(Passed(from, to)) <= Rps + (to - from)
  <2>1. CASE to = now + 1
    BY <2>1, <1>1, <1>2, <1>6, PassedIsFinite
  <2>2. CASE to # now + 1
    <3>1. from \in 0 .. now /\ to \in 0 .. now
      BY <2>2, <1>1, <1>7
    <3> QED BY <3>1, <1>5, <1>7 DEF IInv, RateInv
  <2> QED BY <2>1, <2>2
<1> QED
  BY <1>6, <1>7

----------------------------------------------------------------------------
(* Every step preserves the invariant: arrivals and the duplicate query.    *)

LEMMA QuietInv ==
    ASSUME IInv, NEW r \in Requests, Quiet(r),
           RequestInv(r)', DupInv(r)', QueryInv(r)', RateInv'
    PROVE  IInv'
<1>1. TypeOK'
  BY QuietType DEF IInv
<1>2. \A q \in Requests : RequestInv(q)' /\ DupInv(q)' /\ QueryInv(q)'
  BY QuietKeeps
<1> QED
  BY <1>1, <1>2, QuietKeeps DEF IInv

\* A request that ends without a row.
LEMMA NoRowInv ==
    ASSUME IInv, NEW r \in Requests, RateLimited(r) \/ Refuse(r)
    PROVE  IInv'
<1>1. /\ step[r] = "new" /\ step' = [step EXCEPT ![r] = IF Refill < 1 THEN "refused" ELSE "done"]
      /\ UNCHANGED <<job, id, rows, queue, head, dropped, lost, now, accepting, toggles, restarts>>
      /\ \E t \in {arrived[r], now} : arrived' = [arrived EXCEPT ![r] = t]
      /\ tokens' \in 0 .. Rps /\ refilled' \in 0 .. now
  <2>1. Refill \in 0 .. Rps /\ now \in Nat /\ Rps \in Nat
    BY RefillType DEF IInv
  <2>2. arrived = [arrived EXCEPT ![r] = arrived[r]]
    BY DEF IInv, TypeOK
  <2> QED BY <2>1, <2>2 DEF RateLimited, Refuse, TakesToken, Arriving, Becomes, delivery, environment
<1>2. /\ job[r] = Blank /\ id[r] = None /\ job' = [job EXCEPT ![r] = Blank] /\ now \in Nat
  BY <1>1 DEF IInv, TypeOK, RequestInv
<1>3. Quiet(r)
  BY <1>1, <1>2, BlankType DEF Quiet, delivery, environment
<1>4. job'[r] = Blank /\ id'[r] = None /\ step'[r] \in {"refused", "done"}
      /\ arrived'[r] <= now'
  BY <1>1, <1>2 DEF IInv, TypeOK, RequestInv
<1>5. RequestInv(r)' /\ DupInv(r)' /\ QueryInv(r)'
  BY <1>4, <1>1, RowTypes, BlankType DEF IInv, RequestInv, JobInv, DupInv, QueryInv
<1>6. RateInv'
  <2>1. CASE RateLimited(r)
    BY <2>1, RateRefused
  <2>2. CASE Refuse(r)
    <3>1. Elsewhere(r)
      BY <2>2, <1>1 DEF Elsewhere, Refuse, TakesToken, IInv, TypeOK
    <3> QED BY <2>2, <3>1, <1>1, RateTaken DEF Refuse
  <2> QED BY <2>1, <2>2
<1> QED
  BY <1>3, <1>5, <1>6, QuietInv

\* A request that takes a token and goes on with job j.
LEMMA ArrivalInv ==
    ASSUME IInv, NEW r \in Requests, TakesToken(r), NEW j \in Rows,
           job' = [job EXCEPT ![r] = j],
           NEW s \in {"dedup", "insert"}, step' = [step EXCEPT ![r] = s],
           UNCHANGED <<id, rows, delivery, environment>>,
           j.status \in {"informational", "unsupported"}, j.dupOf = None, j.visible = 0,
           j.status = "informational" => j.key \in InfoKeys,
           s = "dedup" => j.key \notin InfoKeys
    PROVE  IInv'
<1>1. /\ step[r] = "new" /\ Refill \in 1 .. Rps /\ now \in Nat /\ Rps \in Nat
      /\ tokens' = Refill - 1 /\ refilled' = now /\ arrived' = [arrived EXCEPT ![r] = now]
      /\ UNCHANGED <<now, restarts>>
  BY RefillType DEF TakesToken, Arriving, environment, IInv
<1>2. Quiet(r)
  <2>1. Refill - 1 \in 0 .. Rps /\ now \in 0 .. now
    BY <1>1
  <2>2. /\ \E u \in {"refused", "dedup", "insert", "done"} : step' = [step EXCEPT ![r] = u]
        /\ \E i \in Rows : job' = [job EXCEPT ![r] = i]
        /\ \E t \in {arrived[r], now} : arrived' = [arrived EXCEPT ![r] = t]
    BY <1>1
  <2> QED BY <2>1, <2>2, <1>1 DEF Quiet
<1>3. /\ step'[r] = s /\ job'[r] = j /\ arrived'[r] = now
      /\ id'[r] = None
  BY <1>1 DEF IInv, TypeOK, RequestInv
<1>4. RequestInv(r)' /\ DupInv(r)' /\ QueryInv(r)'
  BY <1>1, <1>3, RowTypes DEF IInv, RequestInv, JobInv, DupInv, QueryInv
<1>5. RateInv'
  <2>1. Elsewhere(r)
    BY <1>1 DEF Elsewhere, IInv, TypeOK
  <2> QED BY <2>1, <1>1, RateTaken
<1> QED
  BY <1>2, <1>4, <1>5, QuietInv

LEMMA StoreUnsupportedInv ==
    ASSUME IInv, NEW r \in Requests, StoreUnsupported(r)
    PROVE  IInv'
<1>1. PICK j \in Rows : /\ j = NewRow(Unsupported, "unsupported", None, 0)
                        /\ j.status = "unsupported" /\ j.dupOf = None /\ j.visible = 0
  BY NewRowType, KeyTypes DEF IInv, Statuses, None
<1>2. /\ TakesToken(r) /\ job' = [job EXCEPT ![r] = j] /\ step' = [step EXCEPT ![r] = "insert"]
      /\ UNCHANGED <<id, rows, delivery, environment>>
  BY <1>1 DEF StoreUnsupported, Becomes
<1> QED
  BY <1>1, <1>2, ArrivalInv

LEMMA AlertInv ==
    ASSUME IInv, NEW r \in Requests, NEW k \in AlertKeys, Alert(r, k)
    PROVE  IInv'
<1>1. TakesToken(r) /\ UNCHANGED <<id, rows, delivery, environment>> /\ k \in Keys
      /\ step[r] = "new"
  BY KeyTypes DEF Alert, TakesToken, Arriving
<1>2. CASE k \in InfoKeys
  <2>1. PICK j \in Rows : /\ j = NewRow(k, "informational", None, 0) /\ j.key = k
                          /\ j.status = "informational" /\ j.dupOf = None /\ j.visible = 0
    BY <1>1, NewRowType DEF IInv, Statuses, None
  <2>2. job' = [job EXCEPT ![r] = j] /\ step' = [step EXCEPT ![r] = "insert"]
    BY <2>1, <1>2 DEF Alert, Becomes
  <2> QED BY <2>1, <2>2, <1>1, <1>2, ArrivalInv
<1>3. CASE k \notin InfoKeys
  <2>1. PICK j \in Rows : /\ j = [Blank EXCEPT !.key = k] /\ j.key = k
                          /\ j.status = "unsupported" /\ j.dupOf = None /\ j.visible = 0
    <3>1. /\ Blank.status = "unsupported" /\ Blank.dupOf = None /\ Blank.visible = 0
          /\ [Blank EXCEPT !.key = k] \in Rows
      BY <1>1, BlankType DEF Rows
    <3>2. /\ [Blank EXCEPT !.key = k].key = k
          /\ [Blank EXCEPT !.key = k].status = "unsupported"
          /\ [Blank EXCEPT !.key = k].dupOf = None /\ [Blank EXCEPT !.key = k].visible = 0
      BY <3>1, BlankType DEF Rows, Blank
    <3> QED BY <3>1, <3>2
  <2>2. job' = [job EXCEPT ![r] = j] /\ step' = [step EXCEPT ![r] = "dedup"]
    <3>1. job[r] = Blank
      BY <1>1 DEF IInv, RequestInv
    <3> QED BY <2>1, <3>1, <1>3 DEF Alert, Becomes
  <2> QED BY <2>1, <2>2, <1>1, <1>3, ArrivalInv
<1> QED
  BY <1>2, <1>3

\* A request that goes on without a token: what passed, passed before.
LEMMA PassedAlready ==
    ASSUME IInv, NEW r \in Requests, Quiet(r), UNCHANGED <<tokens, refilled, arrived>>,
           \/ job'[r].key \in ManualKeys
           \/ step[r] \in {"dedup", "insert"} /\ job'[r].key = job[r].key
    PROVE  RateInv'
<1>1. /\ UNCHANGED <<now, restarts, tokens, refilled, arrived>>
      /\ \A q \in Requests \ {r} : step'[q] = step[q] /\ job'[q] = job[q]
  BY DEF Quiet, environment, IInv, TypeOK
<1>2. Elsewhere(r)
  BY <1>1 DEF Elsewhere
<1>3. \A from, to : r \in Requests /\ r \in Passed(from, to)' => r \in Passed(from, to)
  BY <1>1 DEF Passed
<1> QED
  BY <1>1, <1>2, <1>3, RateKept

LEMMA ManualCloseInv ==
    ASSUME IInv, NEW r \in Requests, NEW k \in ManualKeys, ManualClose(r, k)
    PROVE  IInv'
<1>1. /\ step[r] = "new" /\ step' = [step EXCEPT ![r] = "insert"]
      /\ UNCHANGED <<tokens, refilled, arrived, id, rows, delivery, environment>>
      /\ tokens \in 0 .. Rps /\ refilled \in 0 .. now
  BY DEF ManualClose, Arriving, Becomes, intake, IInv, TypeOK
<1>2. PICK j \in Rows : /\ j = NewRow(k, "accepted", None, Len(rows)) /\ j.key = k
                        /\ j.status = "accepted" /\ j.dupOf = None /\ j.visible = Len(rows)
  BY NewRowType, KeyTypes, RowTypes DEF IInv, Statuses, None
<1>3. job' = [job EXCEPT ![r] = j]
  BY <1>2 DEF ManualClose
<1>4. Quiet(r)
  <2>1. arrived = [arrived EXCEPT ![r] = arrived[r]]
    BY DEF IInv, TypeOK
  <2> QED BY <1>1, <1>3, <2>1 DEF Quiet
<1>5. step'[r] = "insert" /\ job'[r] = j /\ id'[r] = None /\ arrived'[r] <= now'
      /\ rows' = rows
  BY <1>1, <1>3 DEF IInv, TypeOK, RequestInv, environment
<1>6. ~Ignored(k)
  BY KeysAssumption DEF Ignored
<1>7. RequestInv(r)' /\ DupInv(r)' /\ QueryInv(r)'
  <2>1. JobInv(j)'
    BY <1>2, <1>5, <1>6, RowTypes DEF JobInv, Ignored, IInv
  <2> QED BY <2>1, <1>2, <1>5 DEF RequestInv, DupInv, QueryInv
<1>8. RateInv'
  BY <1>1, <1>2, <1>4, <1>5, PassedAlready
<1> QED
  BY <1>4, <1>7, <1>8, QuietInv

\* What the duplicate query finds: a primary of the key, routed and recent.
LEMMA DuplicatesArePrimaries ==
    ASSUME IInv, NEW r \in Requests, job[r].key \notin InfoKeys, NEW i \in Duplicates(r)
    PROVE  /\ i \in DOMAIN rows /\ rows[i].key = job[r].key
           /\ rows[i].status = "accepted" /\ Routed(i) /\ rows[i].dupOf = None
           /\ rows[i].received >= arrived[r] - Window
<1>1. /\ i \in DOMAIN rows /\ rows[i].key = job[r].key
      /\ rows[i].received >= arrived[r] - Window
      /\ rows[i].status \in {"accepted", "informational"}
  BY DEF Duplicates, Recent
<1>2. PICK q \in Requests : id[q] = i
  BY <1>1 DEF IInv, RowsInv
<1>3. i # None
  BY <1>1, RowTypes DEF IInv, None
<1>4. RowOf(i, q) /\ JobInv(job[q])
  BY <1>2, <1>3 DEF IInv, RowsInv, RequestInv
<1>5. rows[i].status = "accepted" /\ ~Ignored(rows[i].key) /\ rows[i].dupOf = None
  BY <1>1, <1>4 DEF RowOf, JobInv
<1> QED
  BY <1>1, <1>5 DEF Routed

LEMMA DedupInv ==
    ASSUME IInv, NEW r \in Requests, Dedup(r)
    PROVE  IInv'
<1>1. /\ step[r] = "dedup" /\ step' = [step EXCEPT ![r] = "insert"]
      /\ UNCHANGED <<tokens, refilled, arrived, id, rows, delivery, environment>>
      /\ tokens \in 0 .. Rps /\ refilled \in 0 .. now
  BY DEF Dedup, Becomes, intake, IInv, TypeOK
<1>2. job[r].key \in Keys /\ job[r].key \notin InfoKeys /\ Len(rows) \in Nat
  BY <1>1, RowTypes DEF IInv, RequestInv, Rows
<1>3. PICK j \in Rows :
        /\ job' = [job EXCEPT ![r] = j] /\ j.key = job[r].key /\ j.visible = Len(rows)
        /\ \/ j.status = "deduped" /\ j.dupOf \in Duplicates(r)
           \/ /\ Duplicates(r) = {} /\ j.dupOf = None
              /\ j.status = IF Ignored(j.key) THEN "rejected" ELSE "accepted"
  <2>1. CASE \E i \in Latest(Duplicates(r)) :
               job' = [job EXCEPT ![r] = NewRow(job[r].key, "deduped", i, Len(rows))]
    <3>1. PICK i \in Duplicates(r) :
            job' = [job EXCEPT ![r] = NewRow(job[r].key, "deduped", i, Len(rows))]
      BY <2>1 DEF Latest
    <3>2. i \in Nat
      BY <1>2, DuplicatesArePrimaries, RowTypes DEF IInv
    <3> DEFINE j == NewRow(job[r].key, "deduped", i, Len(rows))
    <3>3. /\ j \in Rows /\ j.key = job[r].key /\ j.status = "deduped"
          /\ j.dupOf = i /\ j.visible = Len(rows)
      <4>1. TypeOK /\ "deduped" \in Statuses /\ job[r].key \in Keys /\ Len(rows) \in Nat
        BY <1>2 DEF IInv, Statuses
      <4> QED BY <4>1, <3>2, NewRowType
    <3> HIDE DEF j
    <3> QED BY <3>1, <3>3 DEF j
  <2>2. CASE /\ Duplicates(r) = {}
             /\ job' = [job EXCEPT ![r] =
                          NewRow(job[r].key, IF Ignored(job[r].key) THEN "rejected"
                                             ELSE "accepted", None, Len(rows))]
    <3>1. (IF Ignored(job[r].key) THEN "rejected" ELSE "accepted") \in Statuses
      BY DEF Statuses
    <3> DEFINE status == IF Ignored(job[r].key) THEN "rejected" ELSE "accepted"
               j == NewRow(job[r].key, status, None, Len(rows))
    <3>2. /\ j \in Rows /\ j.key = job[r].key /\ j.status = status
          /\ j.dupOf = None /\ j.visible = Len(rows)
      <4>1. TypeOK /\ None \in Nat /\ job[r].key \in Keys /\ Len(rows) \in Nat
        BY <1>2 DEF IInv, None
      <4>2. status \in Statuses
        BY <3>1
      <4> HIDE DEF status
      <4> QED BY <4>1, <4>2, NewRowType
    <3>3. /\ job' = [job EXCEPT ![r] = j]
          /\ j.status = IF Ignored(j.key) THEN "rejected" ELSE "accepted"
      BY <2>2, <3>2
    <3> HIDE DEF j
    <3> QED BY <2>2, <3>2, <3>3
  <2> QED BY <2>1, <2>2 DEF Dedup
<1>4. Quiet(r)
  <2>1. arrived = [arrived EXCEPT ![r] = arrived[r]]
    BY DEF IInv, TypeOK
  <2> QED BY <1>1, <1>3, <2>1 DEF Quiet
<1>5. step'[r] = "insert" /\ job'[r] = j /\ id'[r] = None /\ arrived'[r] <= now'
      /\ rows' = rows /\ arrived'[r] = arrived[r]
  BY <1>1, <1>3 DEF IInv, TypeOK, RequestInv, environment
<1>6. RequestInv(r)'
  <2>1. JobInv(j)'
    BY <1>2, <1>3, <1>5 DEF JobInv, Ignored
  <2> QED BY <2>1, <1>5 DEF RequestInv
<1>7. DupInv(r)'
  <2>1. \A i : Routed(i)' = Routed(i)
    BY <1>5 DEF Routed, Ignored
  <2>2. CASE j.status = "deduped"
    BY <2>1, <2>2, <1>2, <1>3, <1>5, DuplicatesArePrimaries DEF DupInv
  <2>3. CASE j.dupOf = None
    BY <2>3, <1>5 DEF DupInv
  <2> QED BY <2>2, <2>3, <1>3
<1>8. QueryInv(r)'
  <2>1. SUFFICES ASSUME Window > 0, j.status = "accepted", NEW i \in DOMAIN rows,
                        rows[i].key = j.key, rows[i].received >= arrived[r] - Window
                 PROVE  rows[i].status # "accepted"
    BY <1>5 DEF QueryInv
  <2>2. Duplicates(r) = {}
    BY <1>3, <2>1
  <2> QED BY <2>1, <2>2, <1>3 DEF Duplicates, Recent
<1>9. RateInv'
  BY <1>1, <1>3, <1>4, <1>5, PassedAlready
<1> QED
  BY <1>4, <1>6, <1>7, <1>8, <1>9, QuietInv

LEMMA InsertFailsInv ==
    ASSUME IInv, NEW r \in Requests, InsertFails(r)
    PROVE  IInv'
<1>1. /\ step[r] = "insert" /\ step' = [step EXCEPT ![r] = "done"]
      /\ UNCHANGED <<tokens, refilled, arrived, job, id, rows, delivery, environment>>
      /\ tokens \in 0 .. Rps /\ refilled \in 0 .. now
  BY DEF InsertFails, Becomes, intake, IInv, TypeOK
<1>2. Quiet(r)
  <2>1. arrived = [arrived EXCEPT ![r] = arrived[r]] /\ job = [job EXCEPT ![r] = job[r]]
        /\ job[r] \in Rows
    BY DEF IInv, TypeOK
  <2> QED BY <1>1, <2>1 DEF Quiet
<1>3. step'[r] = "done" /\ job'[r] = job[r] /\ id' = id /\ arrived' = arrived /\ rows' = rows
      /\ now' = now
  BY <1>1 DEF IInv, TypeOK, environment
<1>4. RequestInv(r)' /\ DupInv(r)' /\ QueryInv(r)'
  <2>1. RequestInv(r) /\ DupInv(r) /\ QueryInv(r)
    BY DEF IInv
  <2>2. \A i : Routed(i)' = Routed(i)
    BY <1>3 DEF Routed, Ignored
  <2>3. JobInv(job[r])'
    BY <2>1, <1>3 DEF RequestInv, JobInv, Ignored
  <2> QED BY <2>1, <2>2, <2>3, <1>3 DEF RequestInv, DupInv, QueryInv
<1>5. RateInv'
  BY <1>1, <1>2, <1>3, PassedAlready
<1> QED
  BY <1>2, <1>4, <1>5, QuietInv

----------------------------------------------------------------------------
(* Rows, the queue, and the rest of the server.                             *)

\* Rows are neither added nor changed, but that a routed one may be rejected.
RowsStay ==
    /\ rows' \in Seq(Rows) /\ Len(rows') = Len(rows)
    /\ \A i \in DOMAIN rows :
         /\ rows'[i].key = rows[i].key /\ rows'[i].dupOf = rows[i].dupOf
         /\ rows'[i].received = rows[i].received
         /\ \/ rows'[i].status = rows[i].status
            \/ Routed(i) /\ rows'[i].status = "rejected"

\* No request changes what it writes or has written, at most it ends.
RequestsStay ==
    /\ UNCHANGED <<arrived, job, id>> /\ now' \in Nat /\ now <= now'
    /\ \A q \in Requests : \/ step'[q] = step[q]
                           \/ step[q] # "new" /\ step'[q] = "done"

\* A row is routed exactly when its request accepted it.
LEMMA RoutedWhenAccepted ==
    ASSUME IInv, NEW r \in Requests, id[r] # None
    PROVE  /\ id[r] \in DOMAIN rows
           /\ Routed(id[r]) <=> job[r].status = "accepted"
<1>1. id[r] \in DOMAIN rows
  BY RowTypes DEF IInv, None
<1>2. RowOf(id[r], r) /\ JobInv(job[r])
  BY DEF IInv, RowsInv, RequestInv
<1> QED
  BY <1>1, <1>2 DEF RowOf, JobInv, Routed

LEMMA StayInv ==
    ASSUME IInv, RowsStay, RequestsStay
    PROVE  /\ RowsInv'
           /\ \A r \in Requests : RequestInv(r)' /\ DupInv(r)' /\ QueryInv(r)'
           /\ \A i \in DOMAIN rows : Routed(i)' <=> Routed(i)
           /\ DOMAIN rows' = DOMAIN rows
<1>1. DOMAIN rows' = DOMAIN rows /\ Len(rows') = Len(rows)
  BY RowTypes DEF RowsStay, IInv
<1>2. \A i \in DOMAIN rows : Routed(i)' <=> Routed(i)
  BY DEF RowsStay, Routed, Ignored
<1>3. ASSUME NEW r \in Requests, id[r] # None
      PROVE  RowOf(id[r], r)'
  <2>1. id[r] \in DOMAIN rows /\ (Routed(id[r]) <=> job[r].status = "accepted")
    BY <1>3, RoutedWhenAccepted
  <2>2. RowOf(id[r], r)
    BY <1>3 DEF IInv, RowsInv
  <2> QED BY <2>1, <2>2 DEF RowOf, RowsStay, RequestsStay
<1>4. RowsInv'
  BY <1>1, <1>3 DEF RowsInv, IInv, RequestsStay
<1>5. ASSUME NEW r \in Requests
      PROVE  RequestInv(r)' /\ DupInv(r)' /\ QueryInv(r)'
  <2>1. RequestInv(r) /\ DupInv(r) /\ QueryInv(r)
    BY DEF IInv
  <2>2. /\ job'[r] = job[r] /\ id'[r] = id[r] /\ arrived'[r] = arrived[r] /\ arrived'[r] <= now'
        /\ step'[r] = step[r] \/ (step[r] # "new" /\ step'[r] = "done")
    <3>1. arrived[r] \in Nat /\ arrived[r] <= now /\ now \in Nat
      BY <2>1 DEF IInv, TypeOK, RequestInv
    <3> QED BY <3>1 DEF RequestsStay
  <2>3. JobInv(job[r])'
    BY <2>1, <1>1, <2>2 DEF RequestInv, JobInv, Ignored
  <2>4. RequestInv(r)'
    BY <2>1, <2>2, <2>3 DEF RequestInv
  <2>5. DupInv(r)'
    BY <2>1, <2>2, <1>1, <1>2 DEF DupInv, RowsStay
  <2>6. QueryInv(r)'
    BY <2>1, <2>2, <1>1 DEF QueryInv, RowsStay
  <2> QED BY <2>4, <2>5, <2>6
<1> QED
  BY <1>1, <1>2, <1>4, <1>5

LEMMA InsertInv ==
    ASSUME IInv, NEW r \in Requests, Insert(r)
    PROVE  IInv'
<1> DEFINE n == Len(rows)
<1>1. /\ step[r] = "insert" /\ step' = [step EXCEPT ![r] = "answer"]
      /\ rows' = Append(rows, job[r]) /\ id' = [id EXCEPT ![r] = n + 1]
      /\ UNCHANGED <<tokens, refilled, arrived, job, queue, head, dropped, lost,
                     now, accepting, toggles, restarts>>
      /\ id[r] = None /\ n \in Nat
  BY RowTypes DEF Insert, Becomes, intake, delivery, environment, IInv, RequestInv
<1>2. /\ rows' \in Seq(Rows) /\ Len(rows') = n + 1 /\ rows'[n + 1] = job[r]
      /\ \A i \in DOMAIN rows : rows'[i] = rows[i]
      /\ DOMAIN rows = 1 .. n /\ DOMAIN rows' = 1 .. n + 1
  <2>1. rows \in Seq(Rows) /\ job[r] \in Rows
    BY DEF IInv, TypeOK
  <2> QED BY <2>1, <1>1, RowTypes DEF IInv
<1>3. /\ step'[r] = "answer" /\ id'[r] = n + 1
      /\ \A q \in Requests \ {r} : step'[q] = step[q] /\ id'[q] = id[q]
      /\ \A q \in Requests : id[q] \in 0 .. n
  BY <1>1 DEF IInv, TypeOK
<1>4. TypeOK'
  <2>1. step' \in [Requests -> {"new", "refused", "dedup", "insert", "answer", "done"}]
    BY <1>1 DEF IInv, TypeOK
  <2>2. id' \in [Requests -> 0 .. Len(rows')]
    BY <1>1, <1>2, <1>3 DEF IInv, TypeOK
  <2>3. queue' \in Seq(DOMAIN rows') /\ dropped' \subseteq DOMAIN rows' /\ lost' \subseteq DOMAIN rows'
    BY <1>1, <1>2 DEF IInv, TypeOK
  <2> QED BY <1>1, <1>2, <2>1, <2>2, <2>3 DEF IInv, TypeOK
<1>5. \A i \in DOMAIN rows : Routed(i)' <=> Routed(i)
  BY <1>2 DEF Routed, Ignored
<1>6. RowsInv'
  <2>1. RowOf(id[r], r)'
    BY <1>1, <1>2, <1>3 DEF RowOf
  <2>2. ASSUME NEW q \in Requests \ {r}, id[q] # None
        PROVE  RowOf(id[q], q)'
    <3>1. RowOf(id[q], q) /\ id[q] \in DOMAIN rows
      BY <2>2, <1>2, <1>3 DEF IInv, RowsInv, None
    <3> QED BY <3>1, <1>1, <1>2, <1>3 DEF RowOf
  <2>3. \A q \in Requests : id'[q] # None => RowOf(id[q], q)'
    BY <2>1, <2>2, <1>3
  <2>4. \A q, p \in Requests : id'[q] = id'[p] /\ id'[p] # None => q = p
    BY <1>1, <1>3 DEF IInv, RowsInv
  <2>5. \A i \in DOMAIN rows' : \E q \in Requests : id'[q] = i
    <3>1. \A i \in DOMAIN rows : \E q \in Requests \ {r} : id[q] = i
      BY <1>1, <1>2 DEF IInv, RowsInv, None
    <3> QED BY <3>1, <1>1, <1>2, <1>3
  <2> QED BY <2>3, <2>4, <2>5 DEF RowsInv
<1>7. ASSUME NEW q \in Requests
      PROVE  RequestInv(q)' /\ DupInv(q)' /\ QueryInv(q)'
  <2>1. RequestInv(q) /\ DupInv(q) /\ QueryInv(q)
    BY DEF IInv
  <2>2. job[q].visible \in Nat /\ job[q].visible <= n /\ job[q].dupOf \in Nat
    BY <2>1, RowTypes DEF IInv, RequestInv, JobInv, Rows
  <2>3. RequestInv(q)'
    <3>1. JobInv(job[q])'
      BY <2>1, <2>2, <1>1, <1>2 DEF RequestInv, JobInv, Ignored
    <3> QED BY <3>1, <2>1, <1>1, <1>3 DEF RequestInv, None
  <2>4. DupInv(q)'
    BY <2>1, <1>1, <1>2, <1>3, <1>5 DEF DupInv
  <2>5. QueryInv(q)'
    BY <2>1, <2>2, <1>1, <1>2 DEF QueryInv
  <2> QED BY <2>3, <2>4, <2>5
<1>8. DeliveryInv'
  <2>1. Answering' = Answering \cup {n + 1}
    BY <1>1, <1>3 DEF Answering
  <2>2. Queued' = Queued /\ Queued \subseteq DOMAIN rows /\ dropped \subseteq DOMAIN rows
    BY <1>1 DEF Queued, IInv, TypeOK
  <2>3. n + 1 \notin DOMAIN rows
    BY <1>1, <1>2
  <2>4. AcceptedAccountedFor'
    <3>1. \A i, m \in DOMAIN queue : queue[i] = queue[m] => i = m
      BY DEF IInv, DeliveryInv, AcceptedAccountedFor
    <3>2. \A i \in Queued' : Routed(i)' /\ i \notin dropped' \cup Answering'
      BY <1>1, <1>5, <2>1, <2>2, <2>3 DEF IInv, DeliveryInv, AcceptedAccountedFor
    <3>3. \A i \in DOMAIN rows' :
             Routed(i)' => i \in Queued' \cup dropped' \cup lost' \cup Answering'
      BY <1>1, <1>2, <1>5, <2>1, <2>2 DEF IInv, DeliveryInv, AcceptedAccountedFor
    <3> QED BY <3>1, <3>2, <3>3, <1>1 DEF AcceptedAccountedFor
  <2> QED BY <2>1, <2>2, <2>3, <2>4, <1>1 DEF IInv, DeliveryInv
<1>9. RateInv'
  <2>1. Elsewhere(r)
    BY <1>1, <1>3 DEF Elsewhere
  <2>2. \A from, to : r \in Passed(from, to)' => r \in Passed(from, to)
    BY <1>1 DEF Passed
  <2> QED BY <2>1, <2>2, <1>1, RateKept
<1> QED
  BY <1>4, <1>6, <1>7, <1>8, <1>9 DEF IInv

LEMMA AnswerInv ==
    ASSUME IInv, NEW r \in Requests, Answer(r)
    PROVE  IInv'
<1>1. /\ step[r] = "answer" /\ step' = [step EXCEPT ![r] = "done"]
      /\ UNCHANGED <<tokens, refilled, arrived, job, id, rows, head, lost,
                     now, accepting, toggles, restarts>>
      /\ id[r] # None
  BY DEF Answer, Becomes, intake, environment, IInv, RequestInv
<1>2. /\ step'[r] = "done"
      /\ \A q \in Requests \ {r} : step'[q] = step[q]
      /\ id[r] \in DOMAIN rows /\ (Routed(id[r]) <=> job[r].status = "accepted")
  BY <1>1, RoutedWhenAccepted DEF IInv, TypeOK
<1>3. RowsStay /\ RequestsStay
  BY <1>1, <1>2, RefillType DEF RowsStay, RequestsStay, IInv, TypeOK
<1>4. \A i \in DOMAIN rows : Routed(i)' <=> Routed(i)
  BY <1>3, StayInv
<1>5. Answering' = Answering \ {id[r]} /\ id[r] \in Answering
  <2>1. \A q \in Requests \ {r} : id[q] # id[r]
    BY <1>1 DEF IInv, RowsInv
  <2> QED BY <2>1, <1>1, <1>2 DEF Answering
<1>6. \/ job[r].status # "accepted" /\ UNCHANGED <<queue, dropped>>
      \/ job[r].status = "accepted" /\ queue' = Append(queue, id[r]) /\ UNCHANGED dropped
      \/ job[r].status = "accepted" /\ dropped' = dropped \cup {id[r]} /\ UNCHANGED queue
  BY DEF Answer
<1>7. queue \in Seq(DOMAIN rows) /\ head \in 0 .. Len(queue)
      /\ dropped \subseteq DOMAIN rows /\ lost \subseteq DOMAIN rows
  BY DEF IInv, TypeOK
<1>8. queue' = Append(queue, id[r]) =>
        /\ queue' \in Seq(DOMAIN rows) /\ Len(queue') = Len(queue) + 1
        /\ DOMAIN queue' = DOMAIN queue \cup {Len(queue) + 1}
        /\ queue'[Len(queue) + 1] = id[r]
        /\ \A m \in DOMAIN queue : queue'[m] = queue[m]
  BY <1>2, <1>7
<1>9. TypeOK'
  <2>1. step' \in [Requests -> {"new", "refused", "dedup", "insert", "answer", "done"}]
    BY <1>1 DEF IInv, TypeOK
  <2>2. queue' \in Seq(DOMAIN rows) /\ head \in 0 .. Len(queue') /\ dropped' \subseteq DOMAIN rows
    BY <1>2, <1>6, <1>7, <1>8
  <2> QED BY <1>1, <2>1, <2>2 DEF IInv, TypeOK
<1>10. DeliveryInv'
  <2>1. /\ \A m, p \in DOMAIN queue : queue[m] = queue[p] => m = p
        /\ \A i \in Queued : Routed(i) /\ i \notin dropped \cup Answering
        /\ \A i \in DOMAIN rows : Routed(i) => i \in Queued \cup dropped \cup lost \cup Answering
        /\ dropped \cap Answering = {} /\ Queued \subseteq DOMAIN rows
    BY <1>7 DEF IInv, DeliveryInv, AcceptedAccountedFor, Queued
  <2>2. CASE job[r].status # "accepted" /\ UNCHANGED <<queue, dropped>>
    <3>1. Queued' = Queued
      BY <2>2 DEF Queued
    <3> QED BY <2>1, <2>2, <3>1, <1>1, <1>2, <1>4, <1>5 DEF DeliveryInv, AcceptedAccountedFor
  <2>3. CASE job[r].status = "accepted" /\ queue' = Append(queue, id[r]) /\ UNCHANGED dropped
    <3>1. Queued' = Queued \cup {id[r]}
      BY <2>3, <1>8 DEF Queued
    <3>2. \A m, p \in DOMAIN queue' : queue'[m] = queue'[p] => m = p
      <4>1. \A m \in DOMAIN queue : queue[m] # id[r]
        BY <2>1, <1>5 DEF Queued
      <4> QED BY <4>1, <2>1, <2>3, <1>8
    <3>3. \A i \in Queued' : Routed(i)' /\ i \notin dropped' \cup Answering'
      BY <3>1, <2>1, <2>3, <1>2, <1>4, <1>5
    <3>4. \A i \in DOMAIN rows' :
            Routed(i)' => i \in Queued' \cup dropped' \cup lost' \cup Answering'
      BY <3>1, <2>1, <2>3, <1>1, <1>4, <1>5
    <3>5. dropped' \cap Answering' = {}
      BY <2>1, <2>3, <1>5
    <3> QED BY <3>2, <3>3, <3>4, <3>5 DEF DeliveryInv, AcceptedAccountedFor
  <2>4. CASE job[r].status = "accepted" /\ dropped' = dropped \cup {id[r]} /\ UNCHANGED queue
    <3>1. Queued' = Queued
      BY <2>4 DEF Queued
    <3>2. \A i \in Queued' : Routed(i)' /\ i \notin dropped' \cup Answering'
      BY <3>1, <2>1, <2>4, <1>4, <1>5
    <3>3. \A i \in DOMAIN rows' :
            Routed(i)' => i \in Queued' \cup dropped' \cup lost' \cup Answering'
      BY <3>1, <2>1, <2>4, <1>1, <1>4, <1>5
    <3>4. dropped' \cap Answering' = {}
      BY <2>1, <2>4, <1>5
    <3> QED BY <3>2, <3>3, <3>4, <2>1, <2>4 DEF DeliveryInv, AcceptedAccountedFor
  <2> QED BY <1>6, <2>2, <2>3, <2>4
<1>11. RateInv'
  <2>1. Elsewhere(r)
    BY <1>1, <1>2 DEF Elsewhere
  <2>2. \A from, to : r \in Passed(from, to)' => r \in Passed(from, to)
    BY <1>1 DEF Passed
  <2> QED BY <2>1, <2>2, <1>1, RateKept
<1> QED
  BY <1>3, <1>9, <1>10, <1>11, StayInv DEF IInv

LEMMA ConsumeInv ==
    ASSUME IInv, Consume
    PROVE  IInv'
<1>1. /\ head < Len(queue) /\ head' = head + 1
      /\ UNCHANGED <<tokens, refilled, step, arrived, job, id, queue, dropped, lost,
                     now, accepting, toggles, restarts>>
      /\ \/ UNCHANGED rows
         \/ rows' = [rows EXCEPT ![queue[head + 1]].status = "rejected"]
  BY DEF Consume, intake, requests, environment
<1>2. queue[head + 1] \in DOMAIN rows /\ Routed(queue[head + 1]) /\ head + 1 \in 0 .. Len(queue)
  <2>1. queue \in Seq(DOMAIN rows) /\ head \in 0 .. Len(queue)
    BY DEF IInv, TypeOK
  <2>2. head + 1 \in DOMAIN queue
    BY <1>1, <2>1
  <2>3. queue[head + 1] \in Queued
    BY <2>2 DEF Queued
  <2> QED BY <2>1, <2>2, <2>3 DEF IInv, DeliveryInv, AcceptedAccountedFor
<1>3. RowsStay
  <2>1. CASE UNCHANGED rows
    BY <2>1 DEF RowsStay, IInv, TypeOK
  <2>2. CASE rows' = [rows EXCEPT ![queue[head + 1]].status = "rejected"]
    <3>1. PICK i \in DOMAIN rows : i = queue[head + 1] /\ Routed(i)
      BY <1>2
    <3>2. rows' = [rows EXCEPT ![i] = [rows[i] EXCEPT !.status = "rejected"]]
          /\ rows \in Seq(Rows) /\ rows[i] \in Rows
      BY <2>2, <3>1, RowTypes DEF IInv, TypeOK
    <3>3. [rows[i] EXCEPT !.status = "rejected"] \in Rows
      BY <3>2 DEF Rows, Statuses
    <3>4. rows' \in Seq(Rows) /\ Len(rows') = Len(rows)
      BY <3>1, <3>2, <3>3, ExceptSeq
    <3>5. \A m \in DOMAIN rows : rows'[m] = IF m = i THEN [rows[i] EXCEPT !.status = "rejected"]
                                                    ELSE rows[m]
      BY <3>1, <3>2
    <3> QED BY <3>1, <3>2, <3>4, <3>5 DEF RowsStay, Rows
  <2> QED BY <1>1, <2>1, <2>2
<1>4. RequestsStay
  BY <1>1, RefillType DEF RequestsStay, IInv
<1>5. (\A i \in DOMAIN rows : Routed(i)' <=> Routed(i)) /\ DOMAIN rows' = DOMAIN rows
  BY <1>3, <1>4, StayInv
<1>6. TypeOK'
  BY <1>1, <1>2, <1>3, <1>5 DEF IInv, TypeOK, RowsStay
<1>7. DeliveryInv'
  <2>1. Queued' = Queued /\ Answering' = Answering /\ Queued \subseteq DOMAIN rows
    BY <1>1 DEF Queued, Answering, IInv, TypeOK
  <2> QED BY <2>1, <1>1, <1>5 DEF IInv, DeliveryInv, AcceptedAccountedFor
<1>8. RateInv'
  <2>1. \A from, to : Passed(from, to)' = Passed(from, to)
    BY <1>1 DEF Passed
  <2>2. Refill' = Refill
    BY <1>1 DEF Refill
  <2> QED BY <2>1, <2>2, <1>1 DEF IInv, RateInv
<1> QED
  BY <1>3, <1>4, <1>6, <1>7, <1>8, StayInv DEF IInv

LEMMA RestartInv ==
    ASSUME IInv, ServerRestart
    PROVE  IInv'
<1>1. /\ tokens' = Rps /\ refilled' = now /\ accepting' = TRUE
      /\ restarts < MaxRestarts /\ restarts' = restarts + 1
      /\ step' = [r \in Requests |-> IF step[r] = "new" THEN "new" ELSE "done"]
      /\ head' = Len(queue)
      /\ lost' = lost \cup {queue[n] : n \in head + 1 .. Len(queue)}
                      \cup {id[r] : r \in {q \in Requests : /\ step[q] = "answer"
                                                            /\ job[q].status = "accepted"}}
      /\ UNCHANGED <<arrived, job, id, rows, queue, dropped, now, toggles>>
  BY DEF ServerRestart
<1>2. RowsStay
  BY <1>1 DEF RowsStay, IInv, TypeOK
<1>3. RequestsStay
  BY <1>1, RefillType DEF RequestsStay, IInv, TypeOK
<1>4. \A r \in Requests : step[r] = "answer" => /\ id[r] \in DOMAIN rows
                                                /\ Routed(id[r]) <=> job[r].status = "accepted"
  BY RoutedWhenAccepted DEF IInv, RequestInv
<1>5. TypeOK'
  <2>1. queue \in Seq(DOMAIN rows) /\ head \in 0 .. Len(queue) /\ now \in 0 .. MaxTime
        /\ lost \subseteq DOMAIN rows /\ restarts \in 0 .. MaxRestarts
        /\ Rps \in Nat /\ MaxTime \in Nat /\ MaxRestarts \in Nat
    BY BoundsAssumption DEF IInv, TypeOK
  <2>2. step' \in [Requests -> {"new", "refused", "dedup", "insert", "answer", "done"}]
    BY <1>1
  <2>3. \A n \in head + 1 .. Len(queue) : queue[n] \in DOMAIN rows
    BY <2>1
  <2>4. lost' \subseteq DOMAIN rows
    BY <2>1, <2>3, <1>1, <1>4
  <2>5. /\ tokens' \in 0 .. Rps /\ refilled' \in 0 .. now /\ accepting' \in BOOLEAN
        /\ restarts' \in 0 .. MaxRestarts /\ head' \in 0 .. Len(queue)
    BY <2>1, <1>1
  <2> QED BY <2>2, <2>4, <2>5, <1>1 DEF IInv, TypeOK
<1>6. DeliveryInv'
  <2>1. Answering' = {} /\ Queued' = Queued /\ Queued \subseteq DOMAIN rows
    BY <1>1 DEF Answering, Queued, IInv, TypeOK
  <2>2. \A i : Routed(i)' <=> Routed(i)
    BY <1>1 DEF Routed, Ignored
  <2>3. \A i \in Answering : Routed(i) => i \in lost'
    BY <1>1, <1>4 DEF Answering
  <2>4. lost \subseteq lost'
    BY <1>1
  <2> QED BY <2>1, <2>2, <2>3, <2>4, <1>1 DEF IInv, DeliveryInv, AcceptedAccountedFor
<1>7. RateInv'
  BY <1>1 DEF RateInv, IInv, TypeOK
<1> QED
  BY <1>2, <1>3, <1>5, <1>6, <1>7, StayInv DEF IInv

\* A tick, a switch of the gate, or nothing.
LEMMA QuietServerInv ==
    ASSUME IInv, Tick \/ ToggleGate \/ UNCHANGED vars
    PROVE  IInv'
<1>1. /\ UNCHANGED <<tokens, refilled, step, arrived, job, id, rows, queue, head, dropped, lost,
                     restarts>>
      /\ accepting' \in BOOLEAN /\ toggles' \in 0 .. MaxToggles
      /\ now' \in 0 .. MaxTime /\ now \in Nat /\ now <= now'
  <2>1. /\ now \in 0 .. MaxTime /\ accepting \in BOOLEAN /\ toggles \in 0 .. MaxToggles
        /\ MaxTime \in Nat /\ MaxToggles \in Nat
    BY BoundsAssumption DEF IInv, TypeOK
  <2>2. CASE Tick
    BY <2>1, <2>2 DEF Tick, intake, requests, delivery
  <2>3. CASE ToggleGate
    <3>1. accepting' \in BOOLEAN
      BY <2>1, <2>3 DEF ToggleGate
    <3> QED BY <2>1, <2>3, <3>1 DEF ToggleGate, intake, requests, delivery
  <2>4. CASE UNCHANGED vars
    BY <2>1, <2>4 DEF vars, intake, requests, delivery, environment
  <2> QED BY <2>2, <2>3, <2>4
<1>2. RowsStay
  BY <1>1 DEF RowsStay, IInv, TypeOK
<1>3. RequestsStay
  BY <1>1 DEF RequestsStay
<1>4. TypeOK'
  BY <1>1 DEF IInv, TypeOK
<1>5. DeliveryInv'
  BY <1>1 DEF IInv, DeliveryInv, AcceptedAccountedFor, Queued, Answering, Routed, Ignored
<1>6. RateInv'
  <2>1. CASE Tick
    BY <2>1, RateTick
  <2>2. CASE UNCHANGED now
    <3>1. \A from, to : Passed(from, to)' = Passed(from, to)
      BY <1>1 DEF Passed
    <3>2. Refill' = Refill
      BY <1>1, <2>2 DEF Refill
    <3> QED BY <3>1, <3>2, <1>1, <2>2 DEF IInv, RateInv
  <2> QED BY <2>1, <2>2 DEF ToggleGate, vars, environment
<1> QED
  BY <1>2, <1>3, <1>4, <1>5, <1>6, StayInv DEF IInv

LEMMA InitInv ==
    ASSUME Init
    PROVE  IInv
<1>1. /\ now = 0 /\ accepting = TRUE /\ toggles = 0 /\ restarts = 0
      /\ tokens = Rps /\ refilled = 0
      /\ step = [r \in Requests |-> "new"] /\ arrived = [r \in Requests |-> 0]
      /\ job = [r \in Requests |-> Blank] /\ id = [r \in Requests |-> None]
      /\ rows = <<>> /\ queue = <<>> /\ head = 0 /\ dropped = {} /\ lost = {}
  BY DEF Init
<1>2. Rps \in Nat /\ MaxTime \in Nat /\ MaxToggles \in Nat /\ MaxRestarts \in Nat
  BY BoundsAssumption
<1>3. /\ Len(rows) = 0 /\ DOMAIN rows = {} /\ rows \in Seq(Rows)
      /\ Len(queue) = 0 /\ DOMAIN queue = {} /\ queue \in Seq({})
  BY <1>1
<1>4. TypeOK
  <2>1. /\ step \in [Requests -> {"new", "refused", "dedup", "insert", "answer", "done"}]
        /\ arrived \in [Requests -> 0 .. MaxTime] /\ job \in [Requests -> Rows]
        /\ id \in [Requests -> 0 .. Len(rows)]
    BY <1>1, <1>2, <1>3, BlankType DEF None
  <2> QED BY <2>1, <1>1, <1>2, <1>3 DEF TypeOK
<1>5. RowsInv
  BY <1>1, <1>3 DEF RowsInv
<1>6. ASSUME NEW r \in Requests
      PROVE  RequestInv(r) /\ DupInv(r) /\ QueryInv(r)
  BY <1>1, <1>3, <1>6, BlankType DEF RequestInv, JobInv, DupInv, QueryInv
<1>7. DeliveryInv
  BY <1>1, <1>3 DEF DeliveryInv, AcceptedAccountedFor, Queued, Answering
<1>8. RateInv
  <2>1. \A from, to : Passed(from, to) = {}
    BY <1>1 DEF Passed
  <2>2. Refill \in Nat /\ Refill <= Rps
    BY <1>1, <1>2 DEF Refill
  <2> QED BY <2>1, <2>2, <1>1, <1>2, FS_EmptySet DEF RateInv
<1> QED
  BY <1>4, <1>5, <1>6, <1>7, <1>8 DEF IInv

LEMMA NextInv ==
    ASSUME IInv, [Next]_vars
    PROVE  IInv'
<1>1. ASSUME NEW r \in Requests, Arrive(r)
      PROVE  IInv'
  <2>1. CASE RateLimited(r) \/ Refuse(r)
    BY <2>1, NoRowInv
  <2>2. CASE StoreUnsupported(r)
    BY <2>2, StoreUnsupportedInv
  <2>3. CASE \E k \in AlertKeys : Alert(r, k)
    BY <2>3, AlertInv
  <2>4. CASE \E k \in ManualKeys : ManualClose(r, k)
    BY <2>4, ManualCloseInv
  <2> QED BY <1>1, <2>1, <2>2, <2>3, <2>4 DEF Arrive
<1>2. ASSUME NEW r \in Requests, Handle(r)
      PROVE  IInv'
  BY <1>2, DedupInv, InsertInv, InsertFailsInv, AnswerInv DEF Handle
<1>3. CASE Consume
  BY <1>3, ConsumeInv
<1>4. CASE ServerRestart
  BY <1>4, RestartInv
<1>5. CASE Tick \/ ToggleGate \/ UNCHANGED vars
  BY <1>5, QuietServerInv
<1> QED
  BY <1>1, <1>2, <1>3, <1>4, <1>5 DEF Next

LEMMA InvariantHolds == Spec => []IInv
<1>1. Init => IInv
  BY InitInv
<1>2. IInv /\ [Next]_vars => IInv'
  BY NextInv
<1> QED
  BY <1>1, <1>2, PTL DEF Spec

----------------------------------------------------------------------------
(* The theorems.                                                            *)

\* The state of the intake keeps its types, whatever the interleaving of handlers.
THEOREM WebhookTypeCorrect == Spec => []TypeOK
<1>1. IInv => TypeOK
  BY DEF IInv
<1> QED
  BY <1>1, InvariantHolds, PTL

\* An accepted row is queued exactly once, or is answering, dropped by a full queue or
\* lost with the process, and nothing else is queued (webhook.py: push, then put_nowait).
THEOREM EverySignalAccounted == Spec => []AcceptedAccountedFor
<1>1. IInv => AcceptedAccountedFor
  BY DEF IInv, DeliveryInv
<1> QED
  BY <1>1, InvariantHolds, PTL

\* A duplicate names a routed alert of its key within the window, never a duplicate
\* (the duplicate query of webhook.py reads only primaries).
THEOREM DuplicatesName == Spec => []DuplicatesNamePrimaries
<1>1. IInv => DuplicatesNamePrimaries
  BY DEF IInv, DupInv, DuplicatesNamePrimaries
<1> QED
  BY <1>1, InvariantHolds, PTL

\* Two alerts of one key within the window are both routed only if the second looked
\* before the first was written, or the router had rejected the first.
THEOREM DuplicatesOverlap == Spec => []OnlyOverlappingDuplicates
<1>1. ASSUME IInv PROVE OnlyOverlappingDuplicates
  <2>1. SUFFICES ASSUME NEW q \in Requests, NEW r \in Requests, Repeats(q, r),
                        Routed(id[q]), Routed(id[r]), job[r].visible >= id[q]
                 PROVE  rows[id[q]].status = "rejected"
    BY <1>1, RowTypes DEF OnlyOverlappingDuplicates, IInv, Rows
  <2>2. id[q] \in DOMAIN rows /\ id[r] # None /\ RowOf(id[q], q) /\ QueryInv(r)
    BY <1>1, <2>1, RowTypes DEF IInv, RowsInv, Repeats, None
  <2>3. job[r].status = "accepted"
    BY <1>1, <2>1, <2>2, RoutedWhenAccepted
  <2>4. rows[id[q]].received >= arrived[r] - Window
    <3>1. rows[id[q]] \in Rows
      BY <1>1, <2>2, RowTypes DEF IInv
    <3>2. rows[id[q]].received \in Nat
      BY <3>1 DEF Rows
    <3>3. arrived[r] \in Nat /\ Window \in Nat
      BY <1>1, BoundsAssumption DEF IInv, TypeOK
    <3> QED BY <3>2, <3>3, <2>1, <2>2 DEF Repeats, RowOf
  <2>5. rows[id[q]].status # "accepted"
    BY <2>1, <2>2, <2>3, <2>4 DEF QueryInv, Repeats, RowOf
  <2> QED BY <2>1, <2>5 DEF Routed
<1> QED
  BY <1>1, InvariantHolds, PTL

\* Until the first restart, a span of t ticks lets at most Rps + t requests through
\* (TokenBucket of webhook.py).
THEOREM RateIsBounded == Spec => []RateBounded
<1>1. IInv => RateBounded
  BY DEF IInv, RateInv, RateBounded
<1> QED
  BY <1>1, InvariantHolds, PTL

----------------------------------------------------------------------------
(* The producer implements its side of SignalQueue.                         *)

Waiting == SubSeq(queue, head + 1, Len(queue))
Accepted == {i \in DOMAIN rows : Routed(i)}

\* What waits in the queue.
LEMMA WaitingTypes ==
    ASSUME TypeOK
    PROVE  /\ Len(Waiting) = Len(queue) - head
           /\ head = Len(queue) => Waiting = <<>>
           /\ head < Len(queue) => Waiting # <<>>
           /\ head < Len(queue) => Tail(Waiting) = SubSeq(queue, head + 2, Len(queue))
<1>1. queue \in Seq(DOMAIN rows) /\ head \in 0 .. Len(queue) /\ Len(queue) \in Nat
  BY DEF TypeOK
<1>2. /\ \A i \in head + 1 .. Len(queue) : queue[i] \in DOMAIN rows
      /\ head + 1 \in Int /\ Len(queue) \in Int
  BY <1>1
<1>3. Len(Waiting) = IF head + 1 <= Len(queue) THEN Len(queue) - (head + 1) + 1 ELSE 0
  BY <1>2, SubSeqProperties DEF Waiting
<1>4. head = Len(queue) => Waiting = <<>>
  BY <1>1, SubSeqEmpty DEF Waiting
<1>5. head < Len(queue) => Tail(Waiting) = SubSeq(queue, head + 2, Len(queue))
  <2>1. SUFFICES ASSUME head < Len(queue)
                 PROVE  Tail(Waiting) = SubSeq(queue, head + 2, Len(queue))
    OBVIOUS
  <2>2. head + 1 \in 1 .. Len(queue) /\ Len(queue) \in head + 1 .. Len(queue)
    BY <1>1, <2>1
  <2>3. Tail(Waiting) = SubSeq(queue, (head + 1) + 1, Len(queue))
    BY <1>1, <2>2, HeadTailOfSubSeq DEF Waiting
  <2> QED BY <2>3, <1>1
<1> QED
  BY <1>1, <1>3, <1>4, <1>5

\* The queue grows at its end, however much of it was taken.
LEMMA AppendWaits ==
    ASSUME TypeOK, NEW i \in DOMAIN rows
    PROVE  SubSeq(Append(queue, i), head + 1, Len(queue) + 1) = Append(Waiting, i)
<1>1. queue \in Seq(DOMAIN rows) /\ head \in 0 .. Len(queue) /\ Len(queue) \in Nat
  BY DEF TypeOK
<1>2. /\ Append(queue, i) \in Seq(DOMAIN rows) /\ Len(Append(queue, i)) = Len(queue) + 1
      /\ \A n \in 1 .. Len(queue) : Append(queue, i)[n] = queue[n]
      /\ Append(queue, i)[Len(queue) + 1] = i
  BY <1>1
<1> DEFINE q == Append(queue, i)  l == Len(queue) - head
           new == SubSeq(q, head + 1, Len(queue) + 1)  old == SubSeq(queue, head + 1, Len(queue))
<1>3. /\ new \in Seq(DOMAIN rows) /\ Len(new) = l + 1
      /\ \A n \in 1 .. l + 1 : new[n] = q[head + n]
  <2> HIDE DEF q
  <2>1. /\ \A n \in head + 1 .. Len(queue) + 1 : q[n] \in DOMAIN rows
        /\ head + 1 \in Int /\ Len(queue) + 1 \in Int
    BY <1>1, <1>2 DEF q
  <2>2. /\ new \in Seq(DOMAIN rows)
        /\ Len(new) = IF head + 1 <= Len(queue) + 1 THEN Len(queue) + 1 - (head + 1) + 1 ELSE 0
        /\ \A n \in 1 .. Len(queue) + 1 - (head + 1) + 1 : new[n] = q[head + 1 + n - 1]
    BY <2>1, SubSeqProperties
  <2> QED BY <2>2, <1>1
<1>4. /\ old \in Seq(DOMAIN rows) /\ Len(old) = l
      /\ \A n \in 1 .. l : old[n] = queue[head + n]
  <2>1. /\ \A n \in head + 1 .. Len(queue) : queue[n] \in DOMAIN rows
        /\ head + 1 \in Int /\ Len(queue) \in Int
    BY <1>1
  <2>2. /\ old \in Seq(DOMAIN rows)
        /\ Len(old) = IF head + 1 <= Len(queue) THEN Len(queue) - (head + 1) + 1 ELSE 0
        /\ \A n \in 1 .. Len(queue) - (head + 1) + 1 : old[n] = queue[head + 1 + n - 1]
    BY <2>1, SubSeqProperties
  <2> QED BY <2>2, <1>1
<1>5. new = Append(old, i)
  <2> HIDE DEF new, old
  <2>1. /\ Append(old, i) \in Seq(DOMAIN rows) /\ Len(Append(old, i)) = l + 1
        /\ \A n \in 1 .. l : Append(old, i)[n] = old[n]
        /\ Append(old, i)[l + 1] = i
    BY <1>4
  <2>2. ASSUME NEW n \in 1 .. l + 1 PROVE new[n] = Append(old, i)[n]
    <3>1. CASE n = l + 1
      BY <3>1, <2>1, <1>1, <1>2, <1>3
    <3>2. CASE n # l + 1
      <4>1. n \in 1 .. l /\ head + n \in 1 .. Len(queue)
        BY <3>2, <1>1
      <4>2. new[n] = q[head + n] /\ old[n] = queue[head + n] /\ Append(old, i)[n] = old[n]
        BY <4>1, <2>1, <1>3, <1>4
      <4>3. q[head + n] = queue[head + n]
        BY <4>1, <1>2
      <4> QED BY <4>2, <4>3
    <3> QED BY <3>1, <3>2
  <2>3. Len(new) = Len(Append(old, i)) /\ \A n \in 1 .. Len(new) : new[n] = Append(old, i)[n]
    BY <2>1, <2>2, <1>3
  <2>4. new \in Seq(DOMAIN rows) /\ Append(old, i) \in Seq(DOMAIN rows)
    BY <2>1, <1>3
  <2> DEFINE longer == Append(old, i)
  <2>5. /\ new \in Seq(DOMAIN rows) /\ longer \in Seq(DOMAIN rows) /\ Len(new) = Len(longer)
        /\ \A n \in 1 .. Len(new) : new[n] = longer[n]
    BY <2>3, <2>4
  <2> HIDE DEF longer
  <2>6. new = longer
    BY <2>5, SeqEqual
  <2> QED BY <2>6 DEF longer
<1> QED
  BY <1>5 DEF Waiting

\* There are no more rows than requests, so a request that writes one has a number for it.
LEMMA RowsAreFewer ==
    ASSUME IInv, NEW r \in Requests, id[r] = None
    PROVE  Len(rows) + 1 \in Requests
<1> DEFINE Others == Requests \ {r}  Written == 1 .. Len(rows)  n == Len(rows)
<1>1. MaxRequests \in Nat /\ n \in Nat /\ DOMAIN rows = Written
  BY BoundsAssumption, RowTypes DEF IInv
<1>2. /\ Cardinality(Requests) = MaxRequests
      /\ IsFiniteSet(Others) /\ Cardinality(Others) = Cardinality(Requests) - 1
  <2>1. Cardinality(Requests) = MaxRequests
    BY <1>1, FS_Interval DEF Requests
  <2>2. IsFiniteSet(Others) /\ Cardinality(Others) = Cardinality(Requests) - 1
    BY RequestsAreFinite, FS_RemoveElement
  <2> QED BY <2>1, <2>2
<1>3. \A i \in Written : \E q \in Others : id[q] = i
  BY <1>1 DEF IInv, RowsInv, None
<1> DEFINE writes == [q \in Others |-> IF id[q] \in Written THEN id[q] ELSE 1]
<1>4. CASE n = 0
  BY <1>1, <1>4 DEF Requests
<1>5. CASE n # 0
  <2>1. 1 \in Written
    BY <1>1, <1>5
  <2>2. writes \in Surjection(Others, Written)
    BY <2>1, <1>3 DEF Surjection
  <2>3. Cardinality(Written) <= Cardinality(Others)
    BY <2>2, <1>2, FS_Surjection
  <2>4. Cardinality(Written) = n
    BY <1>1, <1>5, FS_Interval
  <2> QED BY <2>3, <2>4, <1>1, <1>2 DEF Requests
<1> QED
  BY <1>4, <1>5

\* So every id is the number of a request.
LEMMA RowsNumbered ==
    ASSUME IInv
    PROVE  Len(rows) <= MaxRequests
<1> DEFINE Written == 1 .. Len(rows)  n == Len(rows)
<1>1. /\ MaxRequests \in Nat /\ n \in Nat /\ DOMAIN rows = Written
      /\ Cardinality(Requests) = MaxRequests
  BY BoundsAssumption, RowTypes, FS_Interval DEF IInv, Requests
<1>2. CASE n # 0
  <2> DEFINE writes == [q \in Requests |-> IF id[q] \in Written THEN id[q] ELSE 1]
  <2>1. 1 \in Written
    BY <1>1, <1>2
  <2>2. writes \in Surjection(Requests, Written)
    BY <2>1, <1>1 DEF Surjection, IInv, RowsInv
  <2>3. Cardinality(Written) <= Cardinality(Requests)
    BY <2>2, RequestsAreFinite, FS_Surjection
  <2>4. Cardinality(Written) = n
    BY <1>1, <1>2, FS_Interval
  <2> QED BY <2>3, <2>4, <1>1
<1> QED
  BY <1>1, <1>2

\* Requests that answer are told by their ids.
LEMMA OneAnswer ==
    ASSUME IInv, NEW r \in Requests, step[r] = "answer"
    PROVE  /\ id[r] \in DOMAIN rows /\ id[r] # None
           /\ Routed(id[r]) <=> job[r].status = "accepted"
           /\ id[r] \in InRequest <=> job[r].status = "accepted"
<1>1. id[r] # None
  BY DEF IInv, RequestInv
<1>2. id[r] \in DOMAIN rows /\ (Routed(id[r]) <=> job[r].status = "accepted")
  BY <1>1, RoutedWhenAccepted
<1>3. \A q \in Requests : id[q] = id[r] => q = r
  BY <1>1 DEF IInv, RowsInv
<1> QED
  BY <1>1, <1>2, <1>3 DEF InRequest

LEMMA InsertAccepts ==
    ASSUME IInv, NEW r \in Requests, Insert(r)
    PROVE  (\E i \in Requests : Delivery!Accept(i)) \/ UNCHANGED Delivery!vars
<1> DEFINE n == Len(rows)
<1>1. /\ step[r] = "insert" /\ step' = [step EXCEPT ![r] = "answer"]
      /\ rows' = Append(rows, job[r]) /\ id' = [id EXCEPT ![r] = n + 1]
      /\ UNCHANGED <<job, queue, head>> /\ id[r] = None /\ n \in Nat
  BY RowTypes DEF Insert, Becomes, delivery, IInv, RequestInv
<1>2. /\ rows'[n + 1] = job[r] /\ \A i \in DOMAIN rows : rows'[i] = rows[i]
      /\ DOMAIN rows = 1 .. n /\ DOMAIN rows' = DOMAIN rows \cup {n + 1}
      /\ n + 1 \notin DOMAIN rows
  <2>1. rows \in Seq(Rows) /\ job[r] \in Rows
    BY DEF IInv, TypeOK
  <2> QED BY <2>1, <1>1, RowTypes DEF IInv
<1>3. /\ step'[r] = "answer" /\ id'[r] = n + 1
      /\ \A q \in Requests \ {r} : step'[q] = step[q] /\ id'[q] = id[q]
  BY <1>1 DEF IInv, TypeOK
<1>4. JobInv(job[r])
  BY DEF IInv, RequestInv
<1>5. \A i \in DOMAIN rows : Routed(i)' <=> Routed(i)
  BY <1>2 DEF Routed, Ignored
<1>6. PICK i \in Requests : i = n + 1
  BY <1>1, RowsAreFewer
<1>7. Routed(i)' <=> job[r].status = "accepted"
  BY <1>2, <1>4, <1>6 DEF Routed, Ignored, JobInv
<1>8. Waiting' = Waiting
  BY <1>1 DEF Waiting
<1>9. CASE job[r].status = "accepted"
  <2>1. Accepted' = Accepted \cup {i} /\ i \notin Accepted
    BY <1>2, <1>5, <1>6, <1>7, <1>9 DEF Accepted
  <2>2. InRequest' = InRequest \cup {i}
    BY <1>1, <1>3, <1>6, <1>9 DEF InRequest
  <2> QED BY <2>1, <2>2, <1>8 DEF Delivery!Accept, Accepted, Waiting
<1>10. CASE job[r].status # "accepted"
  <2>1. Accepted' = Accepted
    BY <1>2, <1>5, <1>6, <1>7, <1>10 DEF Accepted
  <2>2. InRequest' = InRequest
    BY <1>1, <1>3, <1>10 DEF InRequest
  <2> QED BY <2>1, <2>2, <1>8 DEF Delivery!vars, Accepted, Waiting
<1> QED
  BY <1>9, <1>10

LEMMA AnswerQueues ==
    ASSUME IInv, NEW r \in Requests, Answer(r)
    PROVE  (\E i \in Requests : Delivery!Queue(i)) \/ UNCHANGED Delivery!vars
<1>1. /\ step[r] = "answer" /\ step' = [step EXCEPT ![r] = "done"]
      /\ UNCHANGED <<job, id, rows, head>>
  BY DEF Answer, Becomes
<1>2. /\ step'[r] = "done" /\ \A q \in Requests \ {r} : step'[q] = step[q]
  BY <1>1 DEF IInv, TypeOK
<1>3. Accepted' = Accepted
  BY <1>1 DEF Accepted, Routed, Ignored
<1>4. InRequest' = InRequest \ {id[r]}
  <2>1. \A q \in Requests \ {r} : id[q] # id[r]
    BY <1>1, OneAnswer DEF IInv, RowsInv
  <2> QED BY <2>1, <1>1, <1>2 DEF InRequest
<1>5. id[r] \in DOMAIN rows /\ (id[r] \in InRequest <=> job[r].status = "accepted")
  BY <1>1, OneAnswer
<1>6. Len(Waiting) = Len(queue) - head /\ Len(queue) \in Nat /\ head \in Nat
  BY WaitingTypes DEF IInv, TypeOK
<1>7. CASE job[r].status = "accepted"
  <2>1. PICK i \in Requests : i = id[r]
    <3>1. Len(rows) <= MaxRequests
      BY RowsNumbered DEF IInv
    <3> QED BY <3>1, <1>5, RowTypes, BoundsAssumption DEF IInv, Requests
  <2>2. Waiting' = IF Len(Waiting) < Capacity THEN Append(Waiting, i) ELSE Waiting
    <3>1. CASE Len(queue) - head < Capacity
      <4>1. queue' = Append(queue, i) /\ Len(queue') = Len(queue) + 1
        <5>1. queue' = Append(queue, i)
          BY <3>1, <2>1, <1>7 DEF Answer
        <5>2. queue \in Seq(DOMAIN rows) /\ i \in DOMAIN rows
          BY <2>1, <1>5 DEF IInv, TypeOK
        <5> QED BY <5>1, <5>2
      <4>2. SubSeq(Append(queue, i), head + 1, Len(queue) + 1) = Append(Waiting, i)
        <5>1. TypeOK /\ i \in DOMAIN rows
          BY <2>1, <1>5 DEF IInv
        <5> QED BY <5>1, AppendWaits
      <4>3. Waiting' = SubSeq(Append(queue, i), head + 1, Len(queue) + 1)
        BY <4>1, <1>1 DEF Waiting
      <4> QED BY <4>2, <4>3, <3>1, <1>6
    <3>2. CASE ~(Len(queue) - head < Capacity)
      <4>1. queue' = queue
        BY <3>2, <1>7 DEF Answer
      <4>2. Waiting' = Waiting
        BY <4>1, <1>1 DEF Waiting
      <4> QED BY <4>2, <3>2, <1>6
    <3> QED BY <3>1, <3>2
  <2> QED BY <2>1, <2>2, <1>3, <1>4, <1>5, <1>7 DEF Delivery!Queue, Accepted, Waiting
<1>8. CASE job[r].status # "accepted"
  <2>1. InRequest' = InRequest
    BY <1>4, <1>5, <1>8
  <2>2. Waiting' = Waiting
    BY <1>1, <1>8 DEF Answer, Waiting
  <2> QED BY <2>1, <2>2, <1>3 DEF Delivery!vars, Accepted, Waiting
<1> QED
  BY <1>7, <1>8

\* The router rejects only what was accepted.
LEMMA ConsumeKeepsAccepted ==
    ASSUME IInv, Consume
    PROVE  Accepted' = Accepted
<1>1. /\ head < Len(queue) /\ queue \in Seq(DOMAIN rows) /\ head \in 0 .. Len(queue)
      /\ rows \in Seq(Rows)
      /\ UNCHANGED rows \/ rows' = [rows EXCEPT ![queue[head + 1]].status = "rejected"]
  BY DEF Consume, IInv, TypeOK
<1>2. PICK i \in DOMAIN rows : i = queue[head + 1] /\ Routed(i)
  <2>1. head + 1 \in DOMAIN queue
    BY <1>1
  <2>2. queue[head + 1] \in Queued /\ queue[head + 1] \in DOMAIN rows
    BY <2>1, <1>1 DEF Queued
  <2> QED BY <2>2 DEF IInv, DeliveryInv, AcceptedAccountedFor
<1>3. rows[i] \in Rows /\ DOMAIN rows' = DOMAIN rows
  BY <1>1, <1>2, RowTypes DEF IInv
<1>4. ASSUME NEW m \in DOMAIN rows PROVE Routed(m)' <=> Routed(m)
  <2>1. CASE m = i
    BY <2>1, <1>1, <1>2, <1>3 DEF Routed, Ignored, Rows
  <2>2. CASE m # i
    BY <2>2, <1>1, <1>2 DEF Routed, Ignored
  <2> QED BY <2>1, <2>2
<1> QED
  BY <1>3, <1>4 DEF Accepted

LEMMA ConsumeTakes ==
    ASSUME IInv, Consume
    PROVE  Delivery!Take
<1>1. /\ head < Len(queue) /\ head' = head + 1
      /\ UNCHANGED <<step, job, id, queue>>
  BY DEF Consume, requests
<1>2. Accepted' = Accepted
  BY ConsumeKeepsAccepted
<1>3. InRequest' = InRequest
  BY <1>1 DEF InRequest
<1>4. Waiting # <<>> /\ Waiting' = Tail(Waiting)
  <2>1. Waiting # <<>> /\ Tail(Waiting) = SubSeq(queue, head + 2, Len(queue))
    BY <1>1, WaitingTypes DEF IInv
  <2>2. head' + 1 = head + 2
    BY <1>1 DEF IInv, TypeOK
  <2>3. Waiting' = SubSeq(queue, head' + 1, Len(queue))
    BY <1>1 DEF Waiting
  <2> QED BY <2>1, <2>2, <2>3
<1> QED
  BY <1>2, <1>3, <1>4 DEF Delivery!Take, Accepted, Waiting

LEMMA RestartCrashes ==
    ASSUME IInv, ServerRestart
    PROVE  Delivery!Crash
<1>1. /\ step' = [r \in Requests |-> IF step[r] = "new" THEN "new" ELSE "done"]
      /\ head' = Len(queue) /\ UNCHANGED <<rows, queue>>
  BY DEF ServerRestart
<1>2. Accepted' = Accepted
  BY <1>1 DEF Accepted, Routed, Ignored
<1>3. InRequest' = {}
  BY <1>1 DEF InRequest
<1>4. Waiting' = <<>>
  <2>1. Len(queue) + 1 \in Int /\ Len(queue) \in Int /\ Len(queue) < Len(queue) + 1
    BY DEF IInv, TypeOK
  <2>2. SubSeq(queue, Len(queue) + 1, Len(queue)) = <<>>
    BY <2>1, SubSeqEmpty
  <2> QED BY <2>2, <1>1 DEF Waiting
<1> QED
  BY <1>2, <1>3, <1>4 DEF Delivery!Crash, Accepted, Waiting

\* Before a request has its row, and when it ends without one, nothing is delivered.
LEMMA QuietDelivers ==
    ASSUME IInv, NEW r \in Requests, Arrive(r) \/ Dedup(r) \/ InsertFails(r)
    PROVE  UNCHANGED Delivery!vars
<1> DEFINE NoAnswer ==
             /\ step[r] # "answer" /\ UNCHANGED <<id, rows, queue, head>>
             /\ \E s \in {"refused", "dedup", "insert", "done"} : step' = [step EXCEPT ![r] = s]
             /\ \A q \in Requests \ {r} : job'[q] = job[q]
<1>1. NoAnswer
  <2>1. CASE RateLimited(r) \/ Refuse(r) \/ InsertFails(r)
    BY <2>1 DEF RateLimited, Refuse, InsertFails, TakesToken, Arriving, Becomes, delivery
  <2>2. CASE StoreUnsupported(r)
    BY <2>2 DEF StoreUnsupported, TakesToken, Arriving, Becomes, delivery, IInv, TypeOK
  <2>3. ASSUME NEW k, Alert(r, k)
        PROVE  NoAnswer
    BY <2>3 DEF Alert, TakesToken, Arriving, Becomes, delivery, IInv, TypeOK
  <2>4. ASSUME NEW k, ManualClose(r, k)
        PROVE  NoAnswer
    BY <2>4 DEF ManualClose, Arriving, Becomes, delivery, IInv, TypeOK
  <2>5. CASE Dedup(r)
    BY <2>5 DEF Dedup, Becomes, delivery, IInv, TypeOK
  <2> QED BY <2>1, <2>2, <2>3, <2>4, <2>5 DEF Arrive
<1>2. \A q \in Requests : /\ step'[q] = "answer" <=> step[q] = "answer"
                          /\ step[q] = "answer" => job'[q] = job[q]
  BY <1>1 DEF IInv, TypeOK
<1>3. InRequest' = InRequest
  BY <1>1, <1>2 DEF InRequest
<1>4. Accepted' = Accepted /\ Waiting' = Waiting
  BY <1>1 DEF Accepted, Routed, Ignored, Waiting
<1> QED
  BY <1>3, <1>4 DEF Delivery!vars, Accepted, Waiting

\* The producer's side of the queue: what is accepted is queued at most once, in the
\* order of the answers, and only a full queue or the end of the process loses it.
THEOREM QueuesSignalsOnce == Spec => SignalsQueuedOnce
<1>1. Init => Delivery!Init
  <2> SUFFICES ASSUME Init PROVE Delivery!Init
    OBVIOUS
  <2>1. IInv
    BY InitInv
  <2>2. rows = <<>> /\ queue = <<>> /\ head = 0 /\ step = [r \in Requests |-> "new"]
    BY DEF Init
  <2>3. Accepted = {} /\ InRequest = {}
    BY <2>2 DEF Accepted, InRequest
  <2>4. Waiting = <<>>
    BY <2>1, <2>2, WaitingTypes DEF IInv
  <2> QED
    BY <2>3, <2>4 DEF Delivery!Init, Accepted, Waiting
<1>2. IInv /\ [Next]_vars => [Delivery!Next]_(Delivery!vars)
  <2> SUFFICES ASSUME IInv, [Next]_vars
               PROVE  Delivery!Next \/ UNCHANGED Delivery!vars
    OBVIOUS
  <2>1. ASSUME NEW r \in Requests, Arrive(r) \/ Handle(r)
        PROVE  Delivery!Next \/ UNCHANGED Delivery!vars
    <3>1. CASE Insert(r)
      BY <3>1, InsertAccepts DEF Delivery!Next
    <3>2. CASE Answer(r)
      BY <3>2, AnswerQueues DEF Delivery!Next
    <3>3. CASE Arrive(r) \/ Dedup(r) \/ InsertFails(r)
      BY <3>3, QuietDelivers
    <3> QED BY <2>1, <3>1, <3>2, <3>3 DEF Handle
  <2>2. CASE Consume
    BY <2>2, ConsumeTakes DEF Delivery!Next
  <2>3. CASE ServerRestart
    BY <2>3, RestartCrashes DEF Delivery!Next
  <2>4. CASE Tick \/ ToggleGate \/ UNCHANGED vars
    <3>1. UNCHANGED <<step, job, id, rows, queue, head>>
      BY <2>4 DEF Tick, ToggleGate, vars, requests, delivery
    <3>2. Accepted' = Accepted /\ Waiting' = Waiting /\ InRequest' = InRequest
      BY <3>1 DEF Accepted, Routed, Ignored, Waiting, InRequest
    <3> QED BY <3>2 DEF Delivery!vars, Accepted, Waiting
  <2> QED
    BY <2>1, <2>2, <2>3, <2>4 DEF Next
<1> QED
  BY <1>1, <1>2, InvariantHolds, PTL DEF Spec, SignalsQueuedOnce, Delivery!Spec
=============================================================================
