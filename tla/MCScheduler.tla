----------------------------- MODULE MCScheduler -----------------------------
(***************************************************************************)
(* The windows of the default settings, all enabled, on a day of ten ticks. *)
(***************************************************************************)
EXTENDS Scheduler

Daily(start, end) ==
    [kind |-> "daily", startDay |-> 0, start |-> start, endDay |-> 0, end |-> end]

\* Nightly over midnight, 17:00 - 18:00, and Friday 16:00 - Sunday 17:00: the
\* pre-close moment of the second comes while the third is being served.
DefaultWindows ==
    << Daily(9, 1), Daily(6, 7),
       [kind |-> "weekly", startDay |-> 4, start |-> 5, endDay |-> 6, end |-> 6] >>
=============================================================================
