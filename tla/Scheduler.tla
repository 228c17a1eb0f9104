------------------------------ MODULE Scheduler ------------------------------
(***************************************************************************)
(* server/maintenance.py: the loop that closes the gate of the webhook     *)
(* before each maintenance window and opens it again, and the window       *)
(* arithmetic it sleeps by.                                                *)
(*                                                                         *)
(* Local time is a clock of Week ticks that wraps around; deadlines are    *)
(* kept as the ticks left.  Changes of daylight saving time are left out.  *)
(* Module Maintenance models what _run_close_sequence does; here it only   *)
(* takes time, and may raise.                                              *)
(***************************************************************************)
EXTENDS Integers, Sequences, FiniteSets

CONSTANTS
    Windows,    \* the enabled definitions, in the order of _compute_next_window
    DayTicks,   \* ticks of a day
    Before      \* MAINTENANCE_CLOSE_MINUTES_BEFORE, in ticks

Week == 7 * DayTicks
Clock == 0 .. Week - 1
Defs == DOMAIN Windows

\* A daily window ignores its days, a weekly one names the days it begins and ends.
WindowDefs == [kind : {"daily", "weekly"}, startDay : 0 .. 6, start : 0 .. DayTicks - 1,
               endDay : 0 .. 6, end : 0 .. DayTicks - 1]

ASSUME TicksAssumption == DayTicks \in Nat \ {0} /\ Before \in Nat
ASSUME WindowsAssumption == Windows \in Seq(WindowDefs)

VARIABLES
    now,        \* local time of the week
    phase,      \* where _run is
    left,       \* ticks left to pre_close, window start and window end
    mode,       \* MaintenanceScheduler.mode
    accepting,  \* webhook._accepting_signals
    awaited     \* history: definitions whose last pre-close moment the loop slept until

vars == <<now, phase, left, mode, accepting, awaited>>

Phases == {"compute", "sleep_pre", "closing", "sleep_start", "sleep_end", "crashed", "stopped"}
NoWindow == [pre |-> 0, start |-> 0, end |-> 0]

Init ==
    /\ now \in Clock /\ phase = "compute" /\ left = NoWindow
    /\ mode = "normal" /\ accepting = TRUE /\ awaited = {}

----------------------------------------------------------------------------
(* Window arithmetic.  A candidate is an occurrence beginning on the day    *)
(* `ahead` days from today.                                                 *)

Today == now \div DayTicks
TimeOfDay == now % DayTicks

\* Seeded fault: a daily window always ends on the next day.
DaysToEndOvernight(w) ==
    IF w.kind = "daily" THEN 1
    ELSE LET d == (w.endDay - w.startDay) % 7 IN IF d = 0 THEN 7 ELSE d

\* Seeded fault: a daily window always ends on its own day.
DaysToEndSameDay(w) ==
    IF w.kind = "daily" THEN 0
    ELSE LET d == (w.endDay - w.startDay) % 7 IN IF d = 0 THEN 7 ELSE d

\* Days from the beginning to the end: a daily window may cross midnight, a weekly
\* one that ends on its own weekday lasts until the next week.
DaysToEnd(w) ==
    IF w.kind = "daily"
    THEN IF w.end <= w.start THEN 1 ELSE 0
    ELSE LET d == (w.endDay - w.startDay) % 7 IN IF d = 0 THEN 7 ELSE d

Occurrence(w, ahead) ==
    LET midnight == ahead * DayTicks - TimeOfDay
    IN  [pre |-> midnight + w.start - Before,
         start |-> midnight + w.start,
         end |-> midnight + DaysToEnd(w) * DayTicks + w.end]

Days(w) == IF w.kind = "daily" THEN 0 .. 2
           ELSE {d \in 0 .. 8 : (Today + d) % 7 = w.startDay}

Upcoming(w) == {ahead \in Days(w) : Occurrence(w, ahead).pre > 0}

\* The earliest occurrence whose pre-close moment lies ahead; none when Before is
\* longer than the days that are looked at.
Candidates(w) ==
    {Occurrence(w, ahead) : ahead \in {a \in Upcoming(w) : \A b \in Upcoming(w) : a <= b}}

\* Seeded fault: the first enabled definition wins, however far away.
FirstByDefinition ==
    {c \in UNION {Candidates(Windows[i]) : i \in Defs} :
        \E i \in Defs : c \in Candidates(Windows[i]) /\ \A j \in Defs : i <= j}

\* The candidate whose pre-close comes soonest, the first of equals.
NextWindow ==
    {c \in UNION {Candidates(Windows[i]) : i \in Defs} :
        \E i \in Defs :
           /\ c \in Candidates(Windows[i])
           /\ \A j \in Defs : \A d \in Candidates(Windows[j]) :
                 c.pre < d.pre \/ (c.pre = d.pre /\ i <= j)}

----------------------------------------------------------------------------
(* The loop.                                                                *)

ComputeNextWindow ==
    /\ phase = "compute"
    /\ IF NextWindow = {}
       THEN phase' = "crashed" /\ UNCHANGED left
       ELSE \E w \in NextWindow : phase' = "sleep_pre" /\ left' = w
    /\ UNCHANGED <<now, mode, accepting, awaited>>

EnterPreClose ==
    /\ phase = "sleep_pre" /\ left.pre <= 0
    /\ phase' = "closing" /\ mode' = "pre_close" /\ accepting' = FALSE
    /\ UNCHANGED <<now, left, awaited>>

CloseSequenceEnds ==
    /\ phase = "closing"
    /\ phase' = "sleep_start"
    /\ UNCHANGED <<now, left, mode, accepting, awaited>>

\* A database error in the sequence ends the loop; the gate stays as it is.
CloseSequenceRaises ==
    /\ phase = "closing"
    /\ phase' = "crashed"
    /\ UNCHANGED <<now, left, mode, accepting, awaited>>

EnterMaintenance ==
    /\ phase = "sleep_start" /\ left.start <= 0
    /\ phase' = "sleep_end" /\ mode' = "maintenance" /\ accepting' = FALSE
    /\ UNCHANGED <<now, left, awaited>>

\* Seeded fault: the mode returns to normal, the gate is forgotten.
ExitWithGateClosed ==
    /\ phase = "sleep_end" /\ left.end <= 0
    /\ phase' = "compute" /\ mode' = "normal"
    /\ UNCHANGED <<now, left, accepting, awaited>>

ExitMaintenance ==
    /\ phase = "sleep_end" /\ left.end <= 0
    /\ phase' = "compute" /\ mode' = "normal" /\ accepting' = TRUE
    /\ UNCHANGED <<now, left, awaited>>

Wake == ComputeNextWindow \/ EnterPreClose \/ EnterMaintenance \/ ExitMaintenance

----------------------------------------------------------------------------
(* The process and the clock.                                               *)

Stop ==
    /\ phase \notin {"crashed", "stopped"}
    /\ phase' = "stopped"
    /\ UNCHANGED <<now, left, mode, accepting, awaited>>

ServerRestart ==
    /\ phase' = "compute" /\ left' = NoWindow
    /\ mode' = "normal" /\ accepting' = TRUE /\ awaited' = {}
    /\ UNCHANGED now

\* What the documents mean by a window: definition i is in its window at time t,
\* or t is its pre-close moment.
At(day, time) == day * DayTicks + time

Begins(i, d) == At(IF Windows[i].kind = "daily" THEN d ELSE Windows[i].startDay, Windows[i].start)

Lasts(i) == LET w == Windows[i]
                span == IF w.kind = "daily" THEN (w.end - w.start) % DayTicks
                        ELSE (At(w.endDay, w.end) - At(w.startDay, w.start)) % Week
            IN  IF span # 0 THEN span ELSE IF w.kind = "daily" THEN DayTicks ELSE Week

InWindow(i, t) == \E d \in 0 .. 6 : (t - Begins(i, d)) % Week < Lasts(i)
PreCloseMoment(i, t) == \E d \in 0 .. 6 : (t + Before - Begins(i, d)) % Week = 0

\* The clock waits for a wake-up that is due: a tick is long compared with the
\* 30 s the loop sleeps at a time.
Due == \/ phase = "compute"
       \/ phase = "sleep_pre" /\ left.pre <= 0
       \/ phase = "sleep_start" /\ left.start <= 0
       \/ phase = "sleep_end" /\ left.end <= 0

Less(n) == IF n > 0 THEN n - 1 ELSE n

Tick ==
    LET moments == {i \in Defs : PreCloseMoment(i, now')}
    IN  /\ ~Due
        /\ now' = (now + 1) % Week
        /\ left' = [pre |-> Less(left.pre), start |-> Less(left.start), end |-> Less(left.end)]
        /\ awaited' = (awaited \ moments)
                      \cup (IF phase = "sleep_pre" /\ Cardinality(moments) = 1
                            THEN moments ELSE {})
        /\ UNCHANGED <<phase, mode, accepting>>

Next == Wake \/ CloseSequenceEnds \/ CloseSequenceRaises \/ Stop \/ ServerRestart \/ Tick

\* The loop is a task of the event loop, and each wait of the close sequence is
\* bounded by a timeout.
Fairness == WF_vars(Wake) /\ WF_vars(CloseSequenceEnds) /\ WF_vars(Tick)

Spec == Init /\ [][Next]_vars /\ Fairness

----------------------------------------------------------------------------
(* Properties.                                                              *)

TypeOK ==
    /\ now \in Clock /\ phase \in Phases
    /\ left \in [pre : Nat, start : Nat, end : Nat]
    /\ mode \in {"normal", "pre_close", "maintenance"}
    /\ accepting \in BOOLEAN /\ awaited \subseteq Defs

Running == phase \notin {"crashed", "stopped"} /\ ~Due

\* "repeat every day": a window is kept, from its start to its end, whenever the
\* loop was asleep at its pre-close moment; it is missed only if that moment came
\* while another window was being served, with that of another window, or before
\* the process started.
WindowsKept == Running => \A i \in awaited : InWindow(i, now) => ~accepting

\* Signals are refused only in a window, between its pre-close moment and its start,
\* and while the close sequence runs late.
RefusesOnlyForWindows ==
    Running /\ ~accepting /\ phase # "closing" =>
        \E i \in Defs : InWindow(i, now) \/ InWindow(i, (now + left.start) % Week)

\* "Window end: resumes signals": the gate opens again unless the loop has died.
SignalsResume == ~accepting ~> accepting \/ phase \in {"crashed", "stopped"}
=============================================================================
