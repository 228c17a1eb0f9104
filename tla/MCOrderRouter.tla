---------------------------- MODULE MCOrderRouter ----------------------------
(***************************************************************************)
(* OrderRouter on small instances: values for the cfgs, and the quiet      *)
(* market, an environment in which nothing races.                          *)
(***************************************************************************)
EXTENDS OrderRouter, TLC

NoFailure == {{}}
AnyOneFailure == {{}} \cup {{c} : c \in Calls}
Interruption == {{}, {"commit"}}

\* Bounds of router_partial.  An order nobody at the bridge placed, known by a quantity
\* no order of the bridge has, comes with one signal and no loss; orders that lost their
\* row to a restart come with two signals.  A loss or restart comes with signals that
\* carry an interval.
ExternalAlone ==
    \/ \A j \in DOMAIN broker : IsExternal(j) => broker[j].qty \notin ExternalQtys
    \/ Len(signals) <= 1 /\ drops = 0

LossWithIntervals == drops = 0 \/ \A n \in DOMAIN signals : signals[n].key.interval # NoInterval

\* A signal is handled only when everything before it has settled, and an order
\* the bridge asked to cancel does not execute any more.
QuietExecute ==
    \E j \in DOMAIN broker : /\ broker[j].cancel # "asked"
                             /\ \E q \in 1 .. broker[j].qty : Execute(j, q)

QuietNext ==
    \/ AcceptSignal
    \/ Settled /\ HandleSignal
    \/ HandleFill
    \/ QuietExecute
    \/ \E j \in DOMAIN broker : ConfirmCancel(j)

QuietSpec == Init /\ [][QuietNext]_vars
=============================================================================
