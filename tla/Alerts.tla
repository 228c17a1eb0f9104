-------------------------------- MODULE Alerts --------------------------------
(***************************************************************************)
(* server/signal_parser.py with the resolutions webhook.py and config.py   *)
(* apply to its result: from the body of a webhook to the alert, its       *)
(* deduplication key, its quantity and the handler the router calls.       *)
(*                                                                         *)
(* A body is what the parser can tell of it: whether it is a JSON object   *)
(* and the fields of that object, and which phrases, price, brackets and   *)
(* segments its text has, which every body has.  A raw symbol is a root    *)
(* and, for a continuous future, the suffix TradingView adds.              *)
(***************************************************************************)
EXTENDS Integers, Sequences

CONSTANTS
    IntervalQty,    \* SYMBOL_INTERVAL_QTY_*: by root and interval, where it is a number
    SymbolQty,      \* SYMBOL_QTY_*: by root, where it is a number
    DefaultQty      \* DEFAULT_QTY

ASSUME QuantitiesAssumption ==
    /\ \A c \in DOMAIN IntervalQty : IntervalQty[c] \in Int
    /\ \A s \in DOMAIN SymbolQty : SymbolQty[s] \in Int
    /\ DefaultQty \in Nat \ {0}

Absent == "absent"
NoInterval == "none"

Kernels == {"kernel_bullish", "kernel_bearish"}
ValidActions ==
    {"open_long", "close_long", "open_short", "close_short", "long", "short",
     "l-ts", "s-ts", "buy", "sell"} \cup Kernels

\* _ACTION_META: position action and direction; a generic order has neither yet.
ActionMeta(action) ==
    CASE action \in {"open_long", "long"}   -> <<"open", "long">>
      [] action \in {"close_long", "l-ts"}  -> <<"close", "long">>
      [] action \in {"open_short", "short"} -> <<"open", "short">>
      [] action \in {"close_short", "s-ts"} -> <<"close", "short">>
      [] OTHER                              -> <<Absent, Absent>>

----------------------------------------------------------------------------
(* normalize_interval.                                                      *)

IntervalMap ==
    [raw \in {"S", "1S", "1", "3", "5", "15", "30", "45", "60"} |->
        CASE raw \in {"S", "1S"} -> "1s" [] raw = "1" -> "1m" [] raw = "3" -> "3m"
          [] raw = "5" -> "5m" [] raw = "15" -> "15m" [] raw = "30" -> "30m" [] raw = "45" -> "45m"
          [] raw = "60" -> "1h"]

\* Seeded fault: an hour gets the label of its minutes.
NormalizedByMinutes(raw) ==
    IF raw = "" THEN NoInterval
    ELSE IF raw = "60" THEN "60m"
    ELSE IF raw \in DOMAIN IntervalMap THEN IntervalMap[raw] ELSE raw

Normalized(raw) ==
    IF raw = "" THEN NoInterval
    ELSE IF raw \in DOMAIN IntervalMap THEN IntervalMap[raw] ELSE raw

----------------------------------------------------------------------------
(* parse_signal.                                                            *)

Refused == [kind |-> "refused"]
Combined == [kind |-> "unsupported"]

ParsedAlert(action, symbol, raw, strategy, qty) ==
    [kind |-> "alert", action |-> action, symbol |-> symbol.root,
     interval |-> Normalized(raw), strategy |-> strategy, qty |-> qty]

\* A recognized signal_id takes precedence over the action.
JsonAction(b) == IF b.signalId \in ValidActions THEN b.signalId ELSE b.action

ParseJson(b) ==
    IF JsonAction(b) \notin ValidActions \/ b.symbol.root = Absent THEN Refused
    ELSE ParsedAlert(JsonAction(b), b.symbol, b.interval,
                     IF b.strategy = Absent THEN "ldc" ELSE b.strategy, b.qty)

\* Phrases of a text and the action they stand for, in the order they are tried.
Phrases ==
    << <<"open long", "open_long">>, <<"close long", "close_long">>,
       <<"open short", "open_short">>, <<"close short", "close_short">>,
       <<"kernel bullish", "kernel_bullish">>, <<"kernel bearish", "kernel_bearish">>,
       <<"l-ts", "l-ts">>, <<"s-ts", "s-ts">>, <<"long", "long">>, <<"short", "short">> >>

Found(b) == {n \in DOMAIN Phrases : Phrases[n][1] \in b.phrases}

\* Seeded fault: the words long and short alone are looked for first.
LastFound(b) == CHOOSE n \in Found(b) : \A m \in Found(b) : m <= n

FirstFound(b) == CHOOSE n \in Found(b) : \A m \in Found(b) : n <= m

\* The first pair of brackets, or else the last of three or more segments.
TextInterval(b) == IF b.brackets # <<>> THEN Head(b.brackets) ELSE b.segment

ParseText(b) ==
    IF b.phrases \cap {"open position", "close position"} # {} THEN Combined
    ELSE IF Found(b) = {} \/ ~b.priced THEN Refused
    ELSE ParsedAlert(Phrases[FirstFound(b)][2], b.symbol, TextInterval(b), "ldc", {})

\* A JSON object that names no action is read as text.
Parse(b) == IF b.json /\ JsonAction(b) # Absent THEN ParseJson(b) ELSE ParseText(b)

----------------------------------------------------------------------------
(* What the webhook and the router make of an alert.                        *)

\* _resolve_generic_action
Resolved(a) ==
    IF a.action = "buy" THEN [a EXCEPT !.action = "open_long"]
    ELSE IF a.action = "sell" THEN [a EXCEPT !.action = "open_short"]
    ELSE a

\* The alert of a body that parses.
AlertOf(b) == Resolved(Parse(b))

DedupKey(a) ==
    [symbol |-> a.symbol, action |-> a.action, strategy |-> a.strategy, interval |-> a.interval]

\* Seeded fault: the alias is forgotten.
OpensShortByName(action) == action = "open_short"

\* The short-signal toggle.
OpensShort(action) == action \in {"open_short", "short"}

\* Seeded fault: a signal's quantity is taken as it is.
QtyAsSent(a) == IF a.qty # {} THEN CHOOSE q \in a.qty : TRUE ELSE DefaultQty

\* resolve_qty of an open
ResolvedQty(a) ==
    IF \E q \in a.qty : q > 0 THEN CHOOSE q \in a.qty : TRUE
    ELSE IF <<a.symbol, a.interval>> \in DOMAIN IntervalQty THEN IntervalQty[<<a.symbol, a.interval>>]
    ELSE IF a.symbol \in DOMAIN SymbolQty THEN SymbolQty[a.symbol]
    ELSE DefaultQty

\* The router takes the default when the webhook resolved 0.
OrderedQty(a) == IF ResolvedQty(a) = 0 THEN DefaultQty ELSE ResolvedQty(a)

\* _process: the handler called, by the action of the alert.
Handler(action) ==
    CASE action \in {"open_long", "long"}    -> <<"open", "long">>
      [] action \in {"open_short", "short"}  -> <<"open", "short">>
      [] action \in {"close_long", "l-ts"}   -> <<"close", "long">>
      [] action \in {"close_short", "s-ts"}  -> <<"close", "short">>
      [] OTHER                               -> <<"skip", "none">>
=============================================================================
