------------------------------- MODULE MCWebhook -------------------------------
(***************************************************************************)
(* Webhook on the keys that Alerts finds in a set of bodies, and what the  *)
(* two promise together.                                                   *)
(***************************************************************************)
EXTENDS Webhook, Alerts, TLC

\* One override of each kind; the second is 0, which the router replaces.
MCIntervalQty == <<"SPY", "1h">> :> 4
MCSymbolQty == "MBT" :> 0

Spy == [root |-> "SPY", suffix |-> ""]
Mbt == [root |-> "MBT", suffix |-> "1!"]

Json(action, signalId, symbol, interval, qty) ==
    [json |-> TRUE, action |-> action, signalId |-> signalId, symbol |-> symbol,
     strategy |-> Absent, interval |-> interval, qty |-> qty,
     phrases |-> {}, priced |-> FALSE, brackets |-> <<>>, segment |-> ""]

\* The strategy's default messages: a phrase, SYMBOL@PRICE and the interval in brackets.
Message(phrases, symbol, interval) ==
    [json |-> FALSE, action |-> Absent, signalId |-> Absent, symbol |-> symbol,
     strategy |-> Absent, interval |-> "", qty |-> {},
     phrases |-> phrases, priced |-> TRUE, brackets |-> <<interval>>, segment |-> ""]

\* The documented messages, with the action a JSON body gives for the same alert.
Documented ==
    { [action |-> "open_long",   phrases |-> {"open long", "long"}],
      [action |-> "close_long",  phrases |-> {"close long", "long"}],
      [action |-> "open_short",  phrases |-> {"open short", "short"}],
      [action |-> "close_short", phrases |-> {"close short", "short"}],
      [action |-> "kernel_bullish", phrases |-> {"kernel bullish"}],
      [action |-> "kernel_bearish", phrases |-> {"kernel bearish"}] }

\* What charts write for their timeframe, with its length in seconds.
RawIntervals == {"S", "1S", "1s", "1", "1m", "15", "15m", "60", "1h", "1D"}
Seconds == [raw \in RawIntervals |->
    CASE raw \in {"S", "1S", "1s"} -> 1 [] raw \in {"1", "1m"} -> 60 [] raw \in {"15", "15m"} -> 900
      [] raw \in {"60", "1h"} -> 3600 [] raw = "1D" -> 86400]

\* The bodies of the run, all of an hourly chart: entries of both directions in both
\* formats, generic orders, an order named by its signal_id, and a kernel alert.
Bodies ==
    { Json("buy", Absent, Mbt, "60", {}),
      Message({"open long", "long"}, Mbt, "1h"),
      Json("sell", Absent, Mbt, "1h", {}),
      Json("sell", "short", Mbt, "60", {2}),
      Message({"kernel bullish"}, Mbt, "60") }
Hour == 3600

AlertsOfBodies == {AlertOf(b) : b \in Bodies}
KeysOf(S) == {DedupKey(a) : a \in S}

MCInfoKeys == KeysOf({a \in AlertsOfBodies : a.action \in Kernels})
MCShortKeys == KeysOf({a \in AlertsOfBodies : OpensShort(a.action)})
MCTradeKeys == KeysOf(AlertsOfBodies) \ (MCInfoKeys \cup MCShortKeys)

AdminClose ==
    [symbol |-> "MBT", action |-> "close_long", strategy |-> "admin", interval |-> "1h"]
MCManualKeys == {AdminClose}

----------------------------------------------------------------------------
(* Properties.                                                              *)

\* The webhook and the router read an action each by its own table: whatever is
\* accepted is dispatched to the handler its alert stands for, never skipped, and
\* with IGNORE_SHORT_SIGNALS nothing that is accepted opens a short, by any name.
RoutedAsMeant ==
    \A i \in DOMAIN rows : rows[i].status = "accepted" =>
        LET action == rows[i].key.action
        IN  /\ Handler(action) # <<"skip", "none">>
            /\ Handler(action) = ActionMeta(action)
            /\ IgnoreShort => Handler(action) # <<"open", "short">>

\* A close finds the position of its open whichever format either came in: a stored
\* interval is the one a close gets exactly when its chart has the same timeframe.
TimeframesKept ==
    \A i \in DOMAIN rows, r \in RawIntervals : rows[i].key \in AlertKeys =>
        (   rows[i].key.interval = AlertOf(Message({"close long", "long"}, Mbt, r)).interval
        <=> Seconds[r] = Hour )

\* The default message and the JSON body of an alert are one alert: either finds the
\* row of the other as its duplicate.
FormatsAgree ==
    \A i \in DOMAIN rows, d \in Documented :
        rows[i].key \in AlertKeys /\ rows[i].key.action = d.action
            => /\ DedupKey(AlertOf(Message(d.phrases, Mbt, "60"))) = rows[i].key
               /\ DedupKey(AlertOf(Json(d.action, Absent, Mbt, "60", {}))) = rows[i].key

\* Every accepted entry asks for at least one unit, whatever quantity the alert names and
\* the settings give, unless those are negative, which nothing refuses: OrderRouter
\* assumes it of its signals.
EntriesAskForSomething ==
    \A i \in DOMAIN rows, s \in {Spy, Mbt}, qty \in {{}, {-2}, {0}, {3}} :
        rows[i].status = "accepted" /\ Handler(rows[i].key.action)[1] = "open"
            => OrderedQty(AlertOf(Json(rows[i].key.action, Absent, s,
                                       rows[i].key.interval, qty))) > 0
=============================================================================
