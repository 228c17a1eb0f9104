----------------------------- MODULE AlertsProofs -----------------------------
(***************************************************************************)
(* Theorems about Alerts, and about Webhook on the keys that Alerts finds  *)
(* in any set of bodies: whatever the strategy sends, in either format, is *)
(* dispatched as the handler its alert stands for.                         *)
(***************************************************************************)
EXTENDS MCWebhook, WebhookProofs

\* Actions of an alert once buy and sell are resolved.
AlertActions == ValidActions \ {"buy", "sell"}

\* Bodies B parse to the keys of alerts, as the webhook sorts them; the dashboard
\* injects closes only.
KeysParsedFrom(B) ==
    /\ \A b \in B : b.json \in BOOLEAN /\ b.priced \in BOOLEAN
    /\ AlertKeys = KeysOf({AlertOf(b) : b \in {x \in B : Parse(x).kind = "alert"}})
    /\ InfoKeys = {k \in AlertKeys : k.action \in Kernels}
    /\ ShortKeys = {k \in AlertKeys : OpensShort(k.action)}
    /\ \A k \in ManualKeys : k.action \in {"close_long", "close_short"}

----------------------------------------------------------------------------
(* The parser and the tables of actions.                                    *)

\* A set of places in a table of ten has a first one.
LEMMA Smallest ==
    ASSUME NEW S, S \subseteq 1 .. 10, S # {}
    PROVE  \E n \in S : \A m \in S : n <= m
<1> DEFINE Goal == \E n \in S : \A m \in S : n <= m
<1>1. Goal \/ S \cap 1 .. 1 = {}
  OBVIOUS
<1>2. Goal \/ S \cap 1 .. 2 = {}
  BY <1>1
<1>3. Goal \/ S \cap 1 .. 3 = {}
  BY <1>2
<1>4. Goal \/ S \cap 1 .. 4 = {}
  BY <1>3
<1>5. Goal \/ S \cap 1 .. 5 = {}
  BY <1>4
<1>6. Goal \/ S \cap 1 .. 6 = {}
  BY <1>5
<1>7. Goal \/ S \cap 1 .. 7 = {}
  BY <1>6
<1>8. Goal \/ S \cap 1 .. 8 = {}
  BY <1>7
<1>9. Goal \/ S \cap 1 .. 9 = {}
  BY <1>8
<1>10. Goal \/ S \cap 1 .. 10 = {}
  BY <1>9
<1> QED
  BY <1>10

LEMMA PhrasesAre ==
    /\ DOMAIN Phrases = 1 .. 10
    /\ \A n \in 1 .. 10 : Phrases[n][2] \in ValidActions
<1>1. DOMAIN Phrases = 1 .. 10
  BY DEF Phrases
<1>2. ASSUME NEW n \in 1 .. 10
      PROVE  Phrases[n][2] \in ValidActions
  <2>1. /\ Phrases[1][2] = "open_long" /\ Phrases[2][2] = "close_long"
        /\ Phrases[3][2] = "open_short" /\ Phrases[4][2] = "close_short"
        /\ Phrases[5][2] = "kernel_bullish" /\ Phrases[6][2] = "kernel_bearish"
        /\ Phrases[7][2] = "l-ts" /\ Phrases[8][2] = "s-ts"
        /\ Phrases[9][2] = "long" /\ Phrases[10][2] = "short"
    BY DEF Phrases
  <2>2. n \in {1, 2, 3, 4, 5, 6, 7, 8, 9, 10}
    OBVIOUS
  <2> DEFINE a == Phrases[n][2]
  <2>3. a \in {"open_long", "close_long", "open_short", "close_short", "kernel_bullish",
               "kernel_bearish", "l-ts", "s-ts", "long", "short"}
    BY <2>1, <2>2
  <2> HIDE DEF a
  <2>4. a \in ValidActions
    BY <2>3 DEF ValidActions, Kernels
  <2> QED BY <2>4 DEF a
<1> QED
  BY <1>1, <1>2

\* The first phrase found is one of the table.
LEMMA FirstIsFound ==
    ASSUME NEW b, Found(b) # {}
    PROVE  FirstFound(b) \in Found(b) /\ FirstFound(b) \in 1 .. 10
<1>1. Found(b) \subseteq 1 .. 10
  BY PhrasesAre DEF Found
<1>2. \E n \in Found(b) : \A m \in Found(b) : n <= m
  <2> DEFINE S == Found(b)
  <2>1. S \subseteq 1 .. 10 /\ S # {}
    BY <1>1
  <2> HIDE DEF S
  <2>2. \E n \in S : \A m \in S : n <= m
    BY <2>1, Smallest
  <2> QED BY <2>2 DEF S
<1>3. FirstFound(b) \in Found(b)
  <2> DEFINE S == Found(b)
  <2> HIDE DEF S
  <2>1. (CHOOSE n \in S : \A m \in S : n <= m) \in S
    BY <1>2 DEF S
  <2> QED BY <2>1 DEF FirstFound, S
<1> QED
  BY <1>1, <1>3

\* What parse_signal returns for an alert.
LEMMA ParseIs ==
    ASSUME NEW b, b.json \in BOOLEAN, b.priced \in BOOLEAN, Parse(b).kind = "alert"
    PROVE  \E action \in ValidActions : \E raw, strategy, qty :
               Parse(b) = ParsedAlert(action, b.symbol, raw, strategy, qty)
<1>1. CASE b.json /\ JsonAction(b) # Absent
  <2>1. Parse(b) = ParseJson(b)
    BY <1>1 DEF Parse
  <2>2. ~(JsonAction(b) \notin ValidActions \/ b.symbol.root = Absent)
    BY <2>1 DEF ParseJson, Refused
  <2> QED BY <2>1, <2>2 DEF ParseJson
<1>2. CASE ~(b.json /\ JsonAction(b) # Absent)
  <2>1. Parse(b) = ParseText(b)
    BY <1>2 DEF Parse
  <2>2. b.phrases \cap {"open position", "close position"} = {} /\ Found(b) # {} /\ b.priced
    <3>1. ParseText(b).kind = "alert"
      BY <2>1
    <3>2. CASE b.phrases \cap {"open position", "close position"} # {}
      BY <3>1, <3>2 DEF ParseText, Combined
    <3>3. CASE /\ b.phrases \cap {"open position", "close position"} = {}
               /\ Found(b) = {} \/ ~b.priced
      BY <3>1, <3>3 DEF ParseText, Refused
    <3> QED BY <3>2, <3>3
  <2>3. Parse(b) = ParsedAlert(Phrases[FirstFound(b)][2], b.symbol, TextInterval(b), "ldc", {})
    BY <2>1, <2>2 DEF ParseText
  <2>4. FirstFound(b) \in 1 .. 10
    BY <2>2, FirstIsFound
  <2>5. \A n \in 1 .. 10 : Phrases[n][2] \in ValidActions
    BY PhrasesAre
  <2>6. Phrases[FirstFound(b)][2] \in ValidActions
    BY <2>4, <2>5
  <2> QED BY <2>3, <2>6
<1> QED
  BY <1>1, <1>2

\* parse_signal lets through actions of its table only, and no generic order is left.
LEMMA AlertActionsAre ==
    ASSUME NEW b, b.json \in BOOLEAN, b.priced \in BOOLEAN, Parse(b).kind = "alert"
    PROVE  AlertOf(b).action \in AlertActions
<1>1. PICK action \in ValidActions : \E raw, strategy, qty :
         Parse(b) = ParsedAlert(action, b.symbol, raw, strategy, qty)
  BY ParseIs
<1>2. PICK raw, strategy, qty : Parse(b) = ParsedAlert(action, b.symbol, raw, strategy, qty)
  BY <1>1
<1>3. AlertOf(b).action = IF action = "buy" THEN "open_long"
                          ELSE IF action = "sell" THEN "open_short" ELSE action
  BY <1>2 DEF AlertOf, Resolved, ParsedAlert
<1> QED
  BY <1>3 DEF AlertActions, ValidActions, Kernels

\* The router's dispatch and the table of actions agree on every action but those of
\* kernel alerts, and a handler opens a short exactly for what the toggle refuses.
THEOREM TablesAgree ==
    \A action \in AlertActions \ Kernels :
        /\ Handler(action) = ActionMeta(action) /\ Handler(action) # <<"skip", "none">>
        /\ Handler(action) = <<"open", "short">> <=> OpensShort(action)
BY DEF AlertActions, ValidActions, Kernels, Handler, ActionMeta, OpensShort, Absent

----------------------------------------------------------------------------
(* What is accepted is dispatched.                                          *)

\* What the duplicate query is asked for, and what it accepts, is an alert the router
\* handles or an injected close.
Handled == (AlertKeys \ InfoKeys) \cup ManualKeys

DispatchInv ==
    \A r \in Requests :
        /\ step[r] = "dedup" => job[r].key \in Handled
        /\ job[r].status = "accepted" => job[r].key \in Handled

LEMMA DispatchInit == Init => DispatchInv
BY DEF Init, DispatchInv, Blank

\* Other requests keep their step and their job.
LEMMA DispatchJob ==
    ASSUME TypeOK, DispatchInv, NEW r \in Requests, NEW j, NEW s,
           step' = [step EXCEPT ![r] = s], job' = [job EXCEPT ![r] = j],
           s = "dedup" => j.key \in Handled,
           j.status = "accepted" => j.key \in Handled
    PROVE  DispatchInv'
BY DEF TypeOK, DispatchInv, Handled, AlertKeys

LEMMA DispatchSame ==
    ASSUME TypeOK, DispatchInv, UNCHANGED job,
           \A r \in Requests : step'[r] = "dedup" => step[r] = "dedup"
    PROVE  DispatchInv'
BY DEF DispatchInv, Handled, AlertKeys

LEMMA DispatchNext ==
    ASSUME IInv, DispatchInv, [Next]_vars
    PROVE  DispatchInv'
<1>0. TypeOK /\ \A r \in Requests : RequestInv(r)
  BY DEF IInv
<1>1. CASE UNCHANGED vars
  BY <1>1, <1>0, DispatchSame DEF vars, requests
<1>2. CASE Consume \/ ToggleGate \/ ServerRestart \/ Tick
  <2>1. CASE Consume \/ ToggleGate \/ Tick
    BY <2>1, <1>0, DispatchSame DEF Consume, ToggleGate, Tick, requests
  <2>2. CASE ServerRestart
    BY <2>2, <1>0, DispatchSame DEF ServerRestart
  <2> QED BY <1>2, <2>1, <2>2
<1>3. ASSUME NEW r \in Requests, Arrive(r)
      PROVE  DispatchInv'
  <2>1. CASE RateLimited(r) \/ Refuse(r)
    BY <2>1, <1>0, DispatchSame DEF RateLimited, Refuse, Becomes, TypeOK
  <2>2. CASE StoreUnsupported(r)
    <3> DEFINE j == NewRow(Unsupported, "unsupported", None, 0)
    <3>1. step' = [step EXCEPT ![r] = "insert"] /\ job' = [job EXCEPT ![r] = j]
      BY <2>2 DEF StoreUnsupported, Becomes
    <3>2. j.status # "accepted"
      BY DEF NewRow
    <3> HIDE DEF j
    <3> QED BY <1>0, <3>1, <3>2, DispatchJob
  <2>3. ASSUME NEW k \in AlertKeys, Alert(r, k)
        PROVE  DispatchInv'
    <3>1. CASE k \in InfoKeys
      <4> DEFINE j == NewRow(k, "informational", None, 0)
      <4>1. step' = [step EXCEPT ![r] = "insert"] /\ job' = [job EXCEPT ![r] = j]
        BY <2>3, <3>1 DEF Alert, Becomes
      <4>2. j.status # "accepted"
        BY DEF NewRow
      <4> HIDE DEF j
      <4> QED BY <1>0, <4>1, <4>2, DispatchJob
    <3>2. CASE k \notin InfoKeys
      <4> DEFINE j == [job[r] EXCEPT !.key = k]
      <4>1. step' = [step EXCEPT ![r] = "dedup"] /\ job' = [job EXCEPT ![r] = j]
        BY <2>3, <3>2 DEF Alert, Becomes
      <4>2. j.key = k
        BY <1>0 DEF TypeOK, Rows
      <4>3. k \in Handled
        BY <3>2 DEF Handled
      <4> HIDE DEF j
      <4> QED BY <1>0, <4>1, <4>2, <4>3, DispatchJob
    <3> QED BY <3>1, <3>2
  <2>4. ASSUME NEW k \in ManualKeys, ManualClose(r, k)
        PROVE  DispatchInv'
    <3> DEFINE j == NewRow(k, "accepted", None, Len(rows))
    <3>1. step' = [step EXCEPT ![r] = "insert"] /\ job' = [job EXCEPT ![r] = j]
      BY <2>4 DEF ManualClose, Becomes
    <3>2. j.key \in Handled
      BY DEF NewRow, Handled
    <3> HIDE DEF j
    <3> QED BY <1>0, <3>1, <3>2, DispatchJob
  <2> QED BY <1>3, <2>1, <2>2, <2>3, <2>4 DEF Arrive
<1>4. ASSUME NEW r \in Requests, Handle(r)
      PROVE  DispatchInv'
  <2>1. CASE Dedup(r)
    <3>1. step[r] = "dedup" /\ job[r].key \in Handled
      BY <2>1 DEF Dedup, DispatchInv
    <3>2. PICK status, dup :
             /\ step' = [step EXCEPT ![r] = "insert"]
             /\ job' = [job EXCEPT ![r] = NewRow(job[r].key, status, dup, Len(rows))]
      BY <2>1 DEF Dedup, Becomes
    <3> DEFINE j == NewRow(job[r].key, status, dup, Len(rows))
    <3>3. j.key \in Handled
      BY <3>1 DEF NewRow
    <3> HIDE DEF j
    <3>4. job' = [job EXCEPT ![r] = j]
      BY <3>2 DEF j
    <3> QED BY <1>0, <3>2, <3>3, <3>4, DispatchJob
  <2>2. CASE Insert(r) \/ InsertFails(r) \/ Answer(r)
    BY <2>2, <1>0, DispatchSame DEF Insert, InsertFails, Answer, Becomes, TypeOK
  <2> QED BY <1>4, <2>1, <2>2 DEF Handle
<1> QED
  BY <1>1, <1>2, <1>3, <1>4 DEF Next

\* The key of an accepted row.
LEMMA AcceptedIsHandled ==
    ASSUME IInv, DispatchInv, NEW i \in DOMAIN rows, rows[i].status = "accepted"
    PROVE  rows[i].key \in Handled /\ ~Ignored(rows[i].key)
<1>1. PICK r \in Requests : id[r] = i
  BY DEF IInv, RowsInv
<1>2. i # None
  BY DEF IInv, TypeOK, None
<1>3. rows[i].key = job[r].key /\ job[r].status = "accepted"
  BY <1>1, <1>2 DEF IInv, RowsInv, RowOf
<1> QED
  BY <1>3 DEF IInv, DispatchInv, RequestInv, JobInv

\* Whatever bodies are sent: an accepted alert is dispatched to the handler it stands
\* for, never skipped, and with IGNORE_SHORT_SIGNALS none of them opens a short.
THEOREM AlertsAreRouted ==
    ASSUME NEW B, KeysParsedFrom(B)
    PROVE  Spec => []RoutedAsMeant
<1>1. \A k \in AlertKeys : k.action \in AlertActions
  <2> TAKE k \in AlertKeys
  <2>1. PICK a \in {AlertOf(b) : b \in {x \in B : Parse(x).kind = "alert"}} : k = DedupKey(a)
    BY DEF KeysParsedFrom, KeysOf
  <2>2. PICK b \in B : Parse(b).kind = "alert" /\ a = AlertOf(b)
    BY <2>1
  <2>3. b.json \in BOOLEAN /\ b.priced \in BOOLEAN
    BY DEF KeysParsedFrom
  <2>4. a.action \in AlertActions
    BY <2>2, <2>3, AlertActionsAre
  <2> QED BY <2>1, <2>4 DEF DedupKey
<1>2. ASSUME NEW k \in Handled
      PROVE  /\ k.action \in AlertActions \ Kernels
             /\ OpensShort(k.action) => k \in ShortKeys
  <2>1. CASE k \in AlertKeys \ InfoKeys
    BY <1>1, <2>1 DEF KeysParsedFrom
  <2>2. CASE k \in ManualKeys
    <3>1. k.action \in {"close_long", "close_short"}
      BY <2>2 DEF KeysParsedFrom
    <3> QED BY <3>1 DEF AlertActions, ValidActions, Kernels, OpensShort
  <2> QED BY <2>1, <2>2 DEF Handled
<1>3. IInv /\ DispatchInv => RoutedAsMeant
  <2> SUFFICES ASSUME IInv, DispatchInv, NEW i \in DOMAIN rows, rows[i].status = "accepted"
               PROVE  LET action == rows[i].key.action
                      IN  /\ Handler(action) # <<"skip", "none">>
                          /\ Handler(action) = ActionMeta(action)
                          /\ IgnoreShort => Handler(action) # <<"open", "short">>
    BY DEF RoutedAsMeant
  <2>1. rows[i].key \in Handled /\ ~Ignored(rows[i].key)
    BY AcceptedIsHandled
  <2>2. /\ rows[i].key.action \in AlertActions \ Kernels
        /\ IgnoreShort => ~OpensShort(rows[i].key.action)
    BY <2>1, <1>2 DEF Ignored
  <2> QED BY <2>2, TablesAgree
<1>4. Init => IInv /\ DispatchInv
  BY InitInv, DispatchInit
<1>5. IInv /\ DispatchInv /\ [Next]_vars => (IInv /\ DispatchInv)'
  BY NextInv, DispatchNext
<1> QED
  BY <1>3, <1>4, <1>5, PTL DEF Spec

----------------------------------------------------------------------------
(* Quantities.                                                              *)

\* No setting is negative: int() of an override takes any sign.
QuantitiesNotNegative ==
    /\ \A c \in DOMAIN IntervalQty : IntervalQty[c] \in Nat
    /\ \A s \in DOMAIN SymbolQty : SymbolQty[s] \in Nat

\* resolve_qty and the router's default give every alert at least one unit, whatever
\* number it names, or none.
THEOREM EveryAlertAsksForSomething ==
    ASSUME QuantitiesNotNegative, NEW a,
           a.qty = {} \/ \E q \in Int : a.qty = {q}
    PROVE  OrderedQty(a) \in Nat \ {0}
<1>1. DefaultQty \in Nat \ {0}
  BY QuantitiesAssumption
<1>2. ResolvedQty(a) \in Nat
  <2>1. CASE \E q \in a.qty : q > 0
    <3>1. PICK q \in Int : a.qty = {q} /\ q > 0
      BY <2>1
    <3>2. (CHOOSE x \in a.qty : TRUE) = q
      BY <3>1
    <3> QED BY <2>1, <3>1, <3>2 DEF ResolvedQty
  <2>2. CASE ~\E q \in a.qty : q > 0
    BY <1>1, <2>2 DEF ResolvedQty, QuantitiesNotNegative
  <2> QED BY <2>1, <2>2
<1> QED
  BY <1>1, <1>2 DEF OrderedQty

\* Every accepted entry asks for at least one unit: proved for every configuration
\* whose overrides are not negative.
THEOREM EntriesAskForUnits ==
    ASSUME QuantitiesNotNegative
    PROVE  Spec => []EntriesAskForSomething
<1>1. ASSUME NEW action, NEW interval, NEW s \in {Spy, Mbt}, NEW qty \in {{}, {-2}, {0}, {3}},
             Handler(action)[1] = "open"
      PROVE  OrderedQty(AlertOf(Json(action, Absent, s, interval, qty))) > 0
  <2> DEFINE b == Json(action, Absent, s, interval, qty)
             a == AlertOf(b)
  <2>1. action \in {"open_long", "long", "open_short", "short"}
    BY <1>1 DEF Handler
  <2>2. /\ b.json = TRUE /\ b.action = action /\ b.signalId = Absent /\ b.symbol = s
        /\ b.qty = qty
    BY DEF Json
  <2>3. s.root # Absent
    <3>1. CASE s = Spy
      BY <3>1 DEF Spy, Absent
    <3>2. CASE s = Mbt
      BY <3>2 DEF Mbt, Absent
    <3> QED BY <3>1, <3>2
  <2> HIDE DEF b
  <2>4. JsonAction(b) = action
    BY <2>2 DEF JsonAction, ValidActions, Kernels, Absent
  <2>5. action \in ValidActions /\ action # Absent
    BY <2>1 DEF ValidActions, Kernels, Absent
  <2>6. \E raw, strategy : Parse(b) = ParsedAlert(action, s, raw, strategy, qty)
    BY <2>2, <2>3, <2>4, <2>5 DEF Parse, ParseJson
  <2>7. PICK raw, strategy : Parse(b) = ParsedAlert(action, s, raw, strategy, qty)
    BY <2>6
  <2>8. a = ParsedAlert(action, s, raw, strategy, qty)
    BY <2>1, <2>7 DEF AlertOf, Resolved, ParsedAlert
  <2>9. a.qty = qty
    BY <2>8 DEF ParsedAlert
  <2> HIDE DEF a
  <2>10. a.qty = {} \/ \E q \in Int : a.qty = {q}
    <3>1. -2 \in Int /\ 0 \in Int /\ 3 \in Int
      OBVIOUS
    <3> QED BY <3>1, <2>9
  <2>11. OrderedQty(a) \in Nat \ {0}
    BY <2>10, EveryAlertAsksForSomething
  <2> QED BY <2>11 DEF a, b
<1>2. EntriesAskForSomething
  BY <1>1 DEF EntriesAskForSomething
<1> QED
  BY <1>2, PTL

----------------------------------------------------------------------------
(* Formats and timeframes.                                                  *)

\* The words of the table.
LEMMA WordsAre ==
    \A m \in 1 .. 10 :
        /\ m = 1 => Phrases[m][1] = "open long"
        /\ m = 2 => Phrases[m][1] = "close long"
        /\ m = 3 => Phrases[m][1] = "open short"
        /\ m = 4 => Phrases[m][1] = "close short"
        /\ m = 5 => Phrases[m][1] = "kernel bullish"
        /\ m = 6 => Phrases[m][1] = "kernel bearish"
        /\ m = 7 => Phrases[m][1] = "l-ts"
        /\ m = 8 => Phrases[m][1] = "s-ts"
        /\ m = 9 => Phrases[m][1] = "long"
        /\ m = 10 => Phrases[m][1] = "short"
<1> TAKE m \in 1 .. 10
<1>1. /\ Phrases[1][1] = "open long" /\ Phrases[2][1] = "close long"
      /\ Phrases[3][1] = "open short" /\ Phrases[4][1] = "close short"
      /\ Phrases[5][1] = "kernel bullish" /\ Phrases[6][1] = "kernel bearish"
      /\ Phrases[7][1] = "l-ts" /\ Phrases[8][1] = "s-ts"
      /\ Phrases[9][1] = "long" /\ Phrases[10][1] = "short"
  BY DEF Phrases
<1> QED
  BY <1>1

\* The words that stand before a documented message's own are not in it.
LEMMA EarlierWords ==
    \A m \in 1 .. 10 :
        /\ Phrases[m][1] \in {"open long", "long"} => m \in 1 .. 10
        /\ Phrases[m][1] \in {"close long", "long"} => m \in 2 .. 10
        /\ Phrases[m][1] \in {"open short", "short"} => m \in 3 .. 10
        /\ Phrases[m][1] \in {"close short", "short"} => m \in 4 .. 10
        /\ Phrases[m][1] \in {"kernel bullish"} => m \in 5 .. 10
        /\ Phrases[m][1] \in {"kernel bearish"} => m \in 6 .. 10
<1> TAKE m \in 1 .. 10
<1> DEFINE w == Phrases[m][1]
<1>1. /\ m = 1 => w = "open long"
      /\ m = 2 => w = "close long"
      /\ m = 3 => w = "open short"
      /\ m = 4 => w = "close short"
      /\ m = 5 => w = "kernel bullish"
      /\ m = 6 => w = "kernel bearish"
      /\ m = 7 => w = "l-ts"
      /\ m = 8 => w = "s-ts"
      /\ m = 9 => w = "long"
      /\ m = 10 => w = "short"
  BY WordsAre
<1> HIDE DEF w
<1>2. w \in {"close long", "long"} => m \in 2 .. 10
  <2>1. w \in {"close long", "long"} => m \notin {1}
    BY <1>1
  <2>2. m \notin {1} => m \in 2 .. 10
    OBVIOUS
  <2> QED BY <2>1, <2>2
<1>3. w \in {"open short", "short"} => m \in 3 .. 10
  <2>1. w \in {"open short", "short"} => m \notin {1, 2}
    BY <1>1
  <2>2. m \notin {1, 2} => m \in 3 .. 10
    OBVIOUS
  <2> QED BY <2>1, <2>2
<1>4. w \in {"close short", "short"} => m \in 4 .. 10
  <2>1. w \in {"close short", "short"} => m \notin {1, 2, 3}
    BY <1>1
  <2>2. m \notin {1, 2, 3} => m \in 4 .. 10
    OBVIOUS
  <2> QED BY <2>1, <2>2
<1>5. w \in {"kernel bullish"} => m \in 5 .. 10
  <2>1. w \in {"kernel bullish"} => m \notin {1, 2, 3, 4}
    BY <1>1
  <2>2. m \notin {1, 2, 3, 4} => m \in 5 .. 10
    OBVIOUS
  <2> QED BY <2>1, <2>2
<1>6. w \in {"kernel bearish"} => m \in 6 .. 10
  <2>1. w \in {"kernel bearish"} => m \notin {1, 2, 3, 4, 5}
    BY <1>1
  <2>2. m \notin {1, 2, 3, 4, 5} => m \in 6 .. 10
    OBVIOUS
  <2> QED BY <2>1, <2>2
<1> QED
  BY <1>2, <1>3, <1>4, <1>5, <1>6 DEF w

\* The place in the table of the first word of a message.
FirstWordIn(n, phrases) ==
    /\ Phrases[n][1] \in phrases
    /\ \A m \in 1 .. 10 : Phrases[m][1] \in phrases => m \in n .. 10

\* What the documented messages say, and where the table of phrases finds it first.
LEMMA DocumentedIs ==
    ASSUME NEW d \in Documented
    PROVE  /\ d.action \in AlertActions
           /\ d.phrases \cap {"open position", "close position"} = {}
           /\ \E n \in 1 .. 10 : FirstWordIn(n, d.phrases) /\ Phrases[n][2] = d.action
<1>1. \/ d = [action |-> "open_long", phrases |-> {"open long", "long"}]
      \/ d = [action |-> "close_long", phrases |-> {"close long", "long"}]
      \/ d = [action |-> "open_short", phrases |-> {"open short", "short"}]
      \/ d = [action |-> "close_short", phrases |-> {"close short", "short"}]
      \/ d = [action |-> "kernel_bullish", phrases |-> {"kernel bullish"}]
      \/ d = [action |-> "kernel_bearish", phrases |-> {"kernel bearish"}]
  BY DEF Documented
<1>2. CASE d = [action |-> "open_long", phrases |-> {"open long", "long"}]
  <2>1. d.action = "open_long" /\ d.phrases = {"open long", "long"}
    BY <1>2
  <2>2. d.action \in AlertActions /\ d.phrases \cap {"open position", "close position"} = {}
    BY <2>1 DEF AlertActions, ValidActions, Kernels
  <2>3. Phrases[1][1] \in d.phrases /\ Phrases[1][2] = d.action
    BY <2>1 DEF Phrases
  <2>4. \A m \in 1 .. 10 : Phrases[m][1] \in d.phrases => m \in 1 .. 10
    BY <2>1, EarlierWords
  <2>5. FirstWordIn(1, d.phrases) /\ 1 \in 1 .. 10
    BY <2>3, <2>4 DEF FirstWordIn
  <2> QED BY <2>2, <2>3, <2>5
<1>3. CASE d = [action |-> "close_long", phrases |-> {"close long", "long"}]
  <2>1. d.action = "close_long" /\ d.phrases = {"close long", "long"}
    BY <1>3
  <2>2. d.action \in AlertActions /\ d.phrases \cap {"open position", "close position"} = {}
    BY <2>1 DEF AlertActions, ValidActions, Kernels
  <2>3. Phrases[2][1] \in d.phrases /\ Phrases[2][2] = d.action
    BY <2>1 DEF Phrases
  <2>4. \A m \in 1 .. 10 : Phrases[m][1] \in d.phrases => m \in 2 .. 10
    BY <2>1, EarlierWords
  <2>5. FirstWordIn(2, d.phrases) /\ 2 \in 1 .. 10
    BY <2>3, <2>4 DEF FirstWordIn
  <2> QED BY <2>2, <2>3, <2>5
<1>4. CASE d = [action |-> "open_short", phrases |-> {"open short", "short"}]
  <2>1. d.action = "open_short" /\ d.phrases = {"open short", "short"}
    BY <1>4
  <2>2. d.action \in AlertActions /\ d.phrases \cap {"open position", "close position"} = {}
    BY <2>1 DEF AlertActions, ValidActions, Kernels
  <2>3. Phrases[3][1] \in d.phrases /\ Phrases[3][2] = d.action
    BY <2>1 DEF Phrases
  <2>4. \A m \in 1 .. 10 : Phrases[m][1] \in d.phrases => m \in 3 .. 10
    BY <2>1, EarlierWords
  <2>5. FirstWordIn(3, d.phrases) /\ 3 \in 1 .. 10
    BY <2>3, <2>4 DEF FirstWordIn
  <2> QED BY <2>2, <2>3, <2>5
<1>5. CASE d = [action |-> "close_short", phrases |-> {"close short", "short"}]
  <2>1. d.action = "close_short" /\ d.phrases = {"close short", "short"}
    BY <1>5
  <2>2. d.action \in AlertActions /\ d.phrases \cap {"open position", "close position"} = {}
    BY <2>1 DEF AlertActions, ValidActions, Kernels
  <2>3. Phrases[4][1] \in d.phrases /\ Phrases[4][2] = d.action
    BY <2>1 DEF Phrases
  <2>4. \A m \in 1 .. 10 : Phrases[m][1] \in d.phrases => m \in 4 .. 10
    BY <2>1, EarlierWords
  <2>5. FirstWordIn(4, d.phrases) /\ 4 \in 1 .. 10
    BY <2>3, <2>4 DEF FirstWordIn
  <2> QED BY <2>2, <2>3, <2>5
<1>6. CASE d = [action |-> "kernel_bullish", phrases |-> {"kernel bullish"}]
  <2>1. d.action = "kernel_bullish" /\ d.phrases = {"kernel bullish"}
    BY <1>6
  <2>2. d.action \in AlertActions /\ d.phrases \cap {"open position", "close position"} = {}
    BY <2>1 DEF AlertActions, ValidActions, Kernels
  <2>3. Phrases[5][1] \in d.phrases /\ Phrases[5][2] = d.action
    BY <2>1 DEF Phrases
  <2>4. \A m \in 1 .. 10 : Phrases[m][1] \in d.phrases => m \in 5 .. 10
    BY <2>1, EarlierWords
  <2>5. FirstWordIn(5, d.phrases) /\ 5 \in 1 .. 10
    BY <2>3, <2>4 DEF FirstWordIn
  <2> QED BY <2>2, <2>3, <2>5
<1>7. CASE d = [action |-> "kernel_bearish", phrases |-> {"kernel bearish"}]
  <2>1. d.action = "kernel_bearish" /\ d.phrases = {"kernel bearish"}
    BY <1>7
  <2>2. d.action \in AlertActions /\ d.phrases \cap {"open position", "close position"} = {}
    BY <2>1 DEF AlertActions, ValidActions, Kernels
  <2>3. Phrases[6][1] \in d.phrases /\ Phrases[6][2] = d.action
    BY <2>1 DEF Phrases
  <2>4. \A m \in 1 .. 10 : Phrases[m][1] \in d.phrases => m \in 6 .. 10
    BY <2>1, EarlierWords
  <2>5. FirstWordIn(6, d.phrases) /\ 6 \in 1 .. 10
    BY <2>3, <2>4 DEF FirstWordIn
  <2> QED BY <2>2, <2>3, <2>5
<1> QED
  BY <1>1, <1>2, <1>3, <1>4, <1>5, <1>6, <1>7

\* The key of a documented alert in either format.
LEMMA DocumentedKey ==
    ASSUME NEW d \in Documented, NEW symbol, symbol.root # Absent, NEW raw
    PROVE  LET key == [symbol |-> symbol.root, action |-> d.action, strategy |-> "ldc",
                       interval |-> Normalized(raw)]
           IN  /\ DedupKey(AlertOf(Message(d.phrases, symbol, raw))) = key
               /\ DedupKey(AlertOf(Json(d.action, Absent, symbol, raw, {}))) = key
<1> DEFINE key == [symbol |-> symbol.root, action |-> d.action, strategy |-> "ldc",
                   interval |-> Normalized(raw)]
           m == Message(d.phrases, symbol, raw)
           j == Json(d.action, Absent, symbol, raw, {})
<1>1. d.action \in ValidActions /\ d.action \notin {Absent, "buy", "sell"}
  <2>1. d.action \in AlertActions
    BY DocumentedIs
  <2> QED BY <2>1 DEF AlertActions, ValidActions, Kernels, Absent
<1>2. DedupKey(AlertOf(j)) = key
  <2>1. /\ j.json = TRUE /\ j.action = d.action /\ j.signalId = Absent /\ j.symbol = symbol
        /\ j.qty = {} /\ j.strategy = Absent /\ j.interval = raw
    BY DEF Json
  <2> HIDE DEF j
  <2>2. JsonAction(j) = d.action
    BY <2>1 DEF JsonAction, ValidActions, Kernels, Absent
  <2>3. Parse(j) = ParsedAlert(d.action, symbol, raw, "ldc", {})
    BY <2>1, <2>2, <1>1 DEF Parse, ParseJson
  <2>4. AlertOf(j) = ParsedAlert(d.action, symbol, raw, "ldc", {})
    BY <2>3, <1>1 DEF AlertOf, Resolved, ParsedAlert
  <2> QED BY <2>4 DEF DedupKey, ParsedAlert
<1>3. DedupKey(AlertOf(m)) = key
  <2>1. /\ m.json = FALSE /\ m.phrases = d.phrases /\ m.priced = TRUE /\ m.symbol = symbol
        /\ m.brackets = <<raw>>
    BY DEF Message
  <2> HIDE DEF m
  <2>2. TextInterval(m) = raw
    BY <2>1 DEF TextInterval
  <2>3. Found(m) # {} /\ Phrases[FirstFound(m)][2] = d.action
    <3>1. PICK n \in 1 .. 10 : FirstWordIn(n, d.phrases) /\ Phrases[n][2] = d.action
      BY DocumentedIs
    <3>2. Found(m) \subseteq 1 .. 10 /\ n \in Found(m) /\ \A k \in Found(m) : n <= k
      <4>1. Found(m) = {k \in 1 .. 10 : Phrases[k][1] \in d.phrases}
        BY <2>1, PhrasesAre DEF Found
      <4>2. \A k \in Found(m) : k \in n .. 10
        BY <3>1, <4>1 DEF FirstWordIn
      <4>3. \A k \in Found(m) : n <= k
        BY <4>2
      <4> QED BY <3>1, <4>1, <4>3 DEF FirstWordIn
    <3>3. FirstFound(m) \in Found(m) /\ FirstFound(m) <= n
      <4> DEFINE S == Found(m)
      <4> HIDE DEF S
      <4>1. \E x \in S : \A k \in S : x <= k
        BY <3>2 DEF S
      <4>2. LET c == CHOOSE x \in S : \A k \in S : x <= k
            IN  c \in S /\ \A k \in S : c <= k
        BY <4>1
      <4> QED BY <4>2, <3>2 DEF FirstFound, S
    <3>4. FirstFound(m) = n
      BY <3>2, <3>3
    <3> QED BY <3>1, <3>2, <3>4
  <2>4. m.phrases \cap {"open position", "close position"} = {}
    BY <2>1, DocumentedIs
  <2>5. Parse(m) = ParsedAlert(d.action, symbol, raw, "ldc", {})
    BY <2>1, <2>2, <2>3, <2>4 DEF Parse, ParseText
  <2>6. AlertOf(m) = ParsedAlert(d.action, symbol, raw, "ldc", {})
    BY <2>5, <1>1 DEF AlertOf, Resolved, ParsedAlert
  <2> QED BY <2>6 DEF DedupKey, ParsedAlert
<1> QED
  BY <1>2, <1>3

\* The default message and the JSON body of a documented alert are one alert to the
\* duplicate query, on every symbol and timeframe.
THEOREM FormatsNameOneAlert ==
    ASSUME NEW d \in Documented, NEW symbol, symbol.root # Absent, NEW raw
    PROVE  DedupKey(AlertOf(Message(d.phrases, symbol, raw)))
              = DedupKey(AlertOf(Json(d.action, Absent, symbol, raw, {})))
BY DocumentedKey

\* normalize_interval and the timeframes: label and length.
LEMMA LabelsAre ==
    ASSUME NEW r \in RawIntervals
    PROVE  /\ Seconds[r] \in {1, 60, 900, 3600, 86400}
           /\ Normalized(r) = "1s" <=> Seconds[r] = 1
           /\ Normalized(r) = "1m" <=> Seconds[r] = 60
           /\ Normalized(r) = "15m" <=> Seconds[r] = 900
           /\ Normalized(r) = "1h" <=> Seconds[r] = 3600
           /\ Normalized(r) = "1D" <=> Seconds[r] = 86400
<1>1. CASE r = "S"
  <2>1. Normalized("S") = "1s"
    BY DEF Normalized, IntervalMap
  <2>2. Seconds["S"] = 1
    BY DEF Seconds, RawIntervals
  <2> QED BY <1>1, <2>1, <2>2
<1>2. CASE r = "1S"
  <2>1. Normalized("1S") = "1s"
    BY DEF Normalized, IntervalMap
  <2>2. Seconds["1S"] = 1
    BY DEF Seconds, RawIntervals
  <2> QED BY <1>2, <2>1, <2>2
<1>3. CASE r = "1s"
  <2>1. Normalized("1s") = "1s"
    BY DEF Normalized, IntervalMap
  <2>2. Seconds["1s"] = 1
    BY DEF Seconds, RawIntervals
  <2> QED BY <1>3, <2>1, <2>2
<1>4. CASE r = "1"
  <2>1. Normalized("1") = "1m"
    BY DEF Normalized, IntervalMap
  <2>2. Seconds["1"] = 60
    BY DEF Seconds, RawIntervals
  <2> QED BY <1>4, <2>1, <2>2
<1>5. CASE r = "1m"
  <2>1. Normalized("1m") = "1m"
    BY DEF Normalized, IntervalMap
  <2>2. Seconds["1m"] = 60
    BY DEF Seconds, RawIntervals
  <2> QED BY <1>5, <2>1, <2>2
<1>6. CASE r = "15"
  <2>1. Normalized("15") = "15m"
    BY DEF Normalized, IntervalMap
  <2>2. Seconds["15"] = 900
    BY DEF Seconds, RawIntervals
  <2> QED BY <1>6, <2>1, <2>2
<1>7. CASE r = "15m"
  <2>1. Normalized("15m") = "15m"
    BY DEF Normalized, IntervalMap
  <2>2. Seconds["15m"] = 900
    BY DEF Seconds, RawIntervals
  <2> QED BY <1>7, <2>1, <2>2
<1>8. CASE r = "60"
  <2>1. Normalized("60") = "1h"
    BY DEF Normalized, IntervalMap
  <2>2. Seconds["60"] = 3600
    BY DEF Seconds, RawIntervals
  <2> QED BY <1>8, <2>1, <2>2
<1>9. CASE r = "1h"
  <2>1. Normalized("1h") = "1h"
    BY DEF Normalized, IntervalMap
  <2>2. Seconds["1h"] = 3600
    BY DEF Seconds, RawIntervals
  <2> QED BY <1>9, <2>1, <2>2
<1>10. CASE r = "1D"
  <2>1. Normalized("1D") = "1D"
    BY DEF Normalized, IntervalMap
  <2>2. Seconds["1D"] = 86400
    BY DEF Seconds, RawIntervals
  <2> QED BY <1>10, <2>1, <2>2
<1> QED
  BY <1>1, <1>2, <1>3, <1>4, <1>5, <1>6, <1>7, <1>8, <1>9, <1>10 DEF RawIntervals

\* Two timeframes get one label exactly when they are equally long.
THEOREM LabelsKeepTimeframes ==
    \A r, s \in RawIntervals : Normalized(r) = Normalized(s) <=> Seconds[r] = Seconds[s]
<1> TAKE r, s \in RawIntervals
<1>1. Seconds[r] \in {1, 60, 900, 3600, 86400}
  BY LabelsAre
<1>2. CASE Seconds[r] = 1
  <2>1. Normalized(r) = "1s"
    BY <1>2, LabelsAre
  <2>2. Normalized(s) = "1s" <=> Seconds[s] = 1
    BY LabelsAre
  <2> QED BY <1>2, <2>1, <2>2
<1>3. CASE Seconds[r] = 60
  <2>1. Normalized(r) = "1m"
    BY <1>3, LabelsAre
  <2>2. Normalized(s) = "1m" <=> Seconds[s] = 60
    BY LabelsAre
  <2> QED BY <1>3, <2>1, <2>2
<1>4. CASE Seconds[r] = 900
  <2>1. Normalized(r) = "15m"
    BY <1>4, LabelsAre
  <2>2. Normalized(s) = "15m" <=> Seconds[s] = 900
    BY LabelsAre
  <2> QED BY <1>4, <2>1, <2>2
<1>5. CASE Seconds[r] = 3600
  <2>1. Normalized(r) = "1h"
    BY <1>5, LabelsAre
  <2>2. Normalized(s) = "1h" <=> Seconds[s] = 3600
    BY LabelsAre
  <2> QED BY <1>5, <2>1, <2>2
<1>6. CASE Seconds[r] = 86400
  <2>1. Normalized(r) = "1D"
    BY <1>6, LabelsAre
  <2>2. Normalized(s) = "1D" <=> Seconds[s] = 86400
    BY LabelsAre
  <2> QED BY <1>6, <2>1, <2>2
<1> QED
  BY <1>1, <1>2, <1>3, <1>4, <1>5, <1>6

\* On an hourly chart, a close finds the interval its open stored exactly when its own
\* chart is hourly.
THEOREM TimeframesAreKept ==
    ASSUME \A k \in AlertKeys :
              \E r \in RawIntervals : Seconds[r] = Hour /\ k.interval = Normalized(r)
    PROVE  Spec => []TimeframesKept
<1>1. ASSUME NEW k \in AlertKeys, NEW s \in RawIntervals
      PROVE  k.interval = AlertOf(Message({"close long", "long"}, Mbt, s)).interval
                <=> Seconds[s] = Hour
  <2>1. PICK r \in RawIntervals : Seconds[r] = Hour /\ k.interval = Normalized(r)
    OBVIOUS
  <2> DEFINE d == [action |-> "close_long", phrases |-> {"close long", "long"}]
             a == AlertOf(Message({"close long", "long"}, Mbt, s))
  <2>2. d \in Documented /\ Mbt.root # Absent /\ d.phrases = {"close long", "long"}
    BY DEF Documented, Mbt, Absent
  <2> HIDE DEF d
  <2>3. DedupKey(AlertOf(Message(d.phrases, Mbt, s)))
           = [symbol |-> Mbt.root, action |-> d.action, strategy |-> "ldc",
              interval |-> Normalized(s)]
    BY <2>2, DocumentedKey
  <2>4. a.interval = Normalized(s)
    BY <2>2, <2>3 DEF DedupKey
  <2>5. Normalized(r) = Normalized(s) <=> Seconds[r] = Seconds[s]
    BY LabelsKeepTimeframes
  <2> QED BY <2>1, <2>4, <2>5
<1>2. TimeframesKept
  BY <1>1 DEF TimeframesKept
<1> QED
  BY <1>2, PTL

\* Alerts of the hourly MBT chart under the default strategy, whatever they ask for.
HourlyMbtKeys == {[symbol |-> Mbt.root, action |-> action, strategy |-> "ldc",
                   interval |-> Normalized("60")] : action \in AlertActions}

\* An alert stored from either format is found again, as its own duplicate, by the
\* default message and by the JSON body of every documented action.
THEOREM FormatsAgreeOnAlerts ==
    ASSUME AlertKeys \subseteq HourlyMbtKeys
    PROVE  Spec => []FormatsAgree
<1>1. ASSUME NEW k \in AlertKeys, NEW d \in Documented, k.action = d.action
      PROVE  /\ DedupKey(AlertOf(Message(d.phrases, Mbt, "60"))) = k
             /\ DedupKey(AlertOf(Json(d.action, Absent, Mbt, "60", {}))) = k
  <2>1. PICK action \in AlertActions :
           k = [symbol |-> Mbt.root, action |-> action, strategy |-> "ldc",
                interval |-> Normalized("60")]
    BY DEF HourlyMbtKeys
  <2>2. k = [symbol |-> Mbt.root, action |-> d.action, strategy |-> "ldc",
             interval |-> Normalized("60")]
    BY <1>1, <2>1
  <2>3. Mbt.root # Absent
    BY DEF Mbt, Absent
  <2> QED BY <2>2, <2>3, DocumentedKey
<1>2. FormatsAgree
  BY <1>1 DEF FormatsAgree
<1> QED
  BY <1>2, PTL
=============================================================================
