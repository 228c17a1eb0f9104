---------------------------- MODULE MCMaintenance ----------------------------
(***************************************************************************)
(* Maintenance on small instances, and the quiet market: an environment in *)
(* which nothing races, apart from the sequence's own orders.              *)
(***************************************************************************)
EXTENDS Maintenance, TLC

NoFailure == {{}}
ExitMayFail == {{}, {"exitSame"}}
AnyOneFailure == {{}} \cup {{c} : c \in Calls}
Interruption == {{}, {"commit"}}

Cycling == stage \notin {"normal", "closed", "maintenance"}

\* An order the bridge asked to cancel does not execute any more, and a trailing
\* stop is not hit during the close sequence.
QuietExecute ==
    \E j \in DOMAIN broker :
        /\ broker[j].cancel # "asked"
        /\ Cycling => ~\E i \in DOMAIN orders : orders[i].ibkr = j /\ orders[i].role = "trail_stop"
        /\ \E q \in 1 .. broker[j].qty : Execute(j, q)

\* A signal arrives, and is handled, only when everything before it has settled.
Quiet == Settled /\ handled = Len(signals) /\ passing = 0

QuietNext ==
    \/ Quiet /\ (EnterPreClose \/ PassGate)
    \/ CycleStep
    \/ QueuePassed
    \/ /\ \/ Settled /\ HandleSignal
          \/ HandleFill
          \/ QuietExecute
          \/ \E j \in DOMAIN broker : ConfirmCancel(j)
       /\ UNCHANGED cycleVars

QuietSpec == MInit /\ [][QuietNext]_allVars

\* Requests and queued signals are dealt with before the window begins: the
\* sequence starts minutes ahead of it.
PromptNext == MNext /\ (stage' = "maintenance" => passing = 0 /\ handled = Len(signals))
PromptSpec == MInit /\ [][PromptNext]_allVars
=============================================================================
