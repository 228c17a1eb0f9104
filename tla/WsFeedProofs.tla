------------------------------ MODULE WsFeedProofs ------------------------------
(***************************************************************************)
(* Theorems about WsFeed and the connection it shows, for every set of     *)
(* accounts, every set of clients and every number of changes.             *)
(***************************************************************************)
EXTENDS WsFeed, SequenceTheorems, TLAPS

\* Where the loop and the socket can be together: the loop connects only once the
\* tasks of the last session have run, the socket comes up only while it connects,
\* and a session that is up has been looked at by the guardrail.
LoopInv ==
    /\ loop = "connecting" => link # "up" /\ tasks = <<>>
    /\ link = "syncing" => loop = "connecting"
    /\ link = "up" => \/ checked \in {"ok", "unwired"} /\ account = Expected
                      \/ checked \in {"error", "kept"}
    /\ link = "up" => tasks = <<>>
    /\ \A n \in DOMAIN tasks : tasks[n] = FALSE

\* The status client c shows once all that is being sent to it has arrived.
WillShow(c, l) ==
    \/ \E n \in DOMAIN outbox[c] :
          /\ outbox[c][n].link = l
          /\ \A m \in DOMAIN outbox[c] : m > n => outbox[c][m].link = "none"
    \/ (\A n \in DOMAIN outbox[c] : outbox[c][n].link = "none") /\ shown[c] = l

\* What was announced of the last session need not be what became of it.
Excused == checked \in {"error", "kept"} \/ EndUnheard

\* Unless the loop is about to announce something, a live client no send to which has
\* failed shows the status of the link or will be told by what is being sent or by a
\* task that waits.
StatusInv(c) ==
    step[c] = "live" /\ c \notin lagging /\ loop \notin {"connecting", "stopped"} /\ ~Excused =>
        /\ link = "up" => WillShow(c, "up")
        /\ link = "down" => WillShow(c, "down") \/ tasks # <<>>

\* The changes client c was told of or will be by what is being sent to it.
Told(c) == received[c] \cup UNION {outbox[c][n].changes : n \in DOMAIN outbox[c]}

\* From the moment a snapshot has been read, no change that is broadcast is outside of
\* the tables it read, the events the client gets, and the broadcasts that have not begun.
ChangeInv(c) ==
    c \notin lagging =>
        /\ step[c] = "read" => 1 .. changes \subseteq due \cup silent \cup read[c] \cup Told(c)
        /\ step[c] = "live" => 1 .. changes \subseteq due \cup silent \cup Told(c)

IInv ==
    /\ TypeOK
    /\ ExecutionsHeardOnce
    /\ LoopInv
    /\ \A c \in Clients : StatusInv(c) /\ ChangeInv(c)

----------------------------------------------------------------------------
(* Sequences.                                                               *)

\* A function on 1 .. n is a sequence of length n.
LEMMA FunctionIsSeq ==
    ASSUME NEW S, NEW n \in Nat, NEW f \in [1 .. n -> S]
    PROVE  f \in Seq(S) /\ Len(f) = n
<1>1. f \in Seq(S)
  BY SeqDef
<1>2. DOMAIN f = 1 .. Len(f) /\ Len(f) \in Nat
  BY <1>1
<1> QED
  BY <1>2

----------------------------------------------------------------------------
(* The connection.                                                          *)

\* A session that ends leaves one announcement per attached handler, and no other.
LEMMA LinkEndsReturns ==
    ASSUME ConnTypeOK, LoopInv, LinkEnds
    PROVE  /\ link' = "down" /\ tasks' \in Seq(BOOLEAN)
           /\ \A n \in DOMAIN tasks' : tasks'[n] = FALSE
           /\ handlers["disconnected"] > 0 => tasks' # <<>>
<1> DEFINE h == handlers["disconnected"]
           more == [n \in 1 .. h |-> FALSE]
<1>1. h \in Nat /\ tasks \in Seq(BOOLEAN)
  BY DEF ConnTypeOK, Events
<1>2. more \in Seq(BOOLEAN) /\ Len(more) = h
  <2>1. more \in [1 .. h -> BOOLEAN]
    OBVIOUS
  <2> HIDE DEF more
  <2> QED BY <2>1, <1>1, FunctionIsSeq
<1>3. \A n \in 1 .. h : more[n] = FALSE
  OBVIOUS
<1>4. link' = "down" /\ tasks' = tasks \o more
  BY DEF LinkEnds
<1> HIDE DEF more
<1>5. /\ tasks' \in Seq(BOOLEAN) /\ Len(tasks') = Len(tasks) + h
      /\ DOMAIN tasks' = 1 .. Len(tasks')
      /\ \A n \in 1 .. Len(tasks') : tasks'[n] = IF n <= Len(tasks) THEN tasks[n]
                                                  ELSE more[n - Len(tasks)]
  <2>1. /\ tasks \o more \in Seq(BOOLEAN)
        /\ Len(tasks \o more) = Len(tasks) + Len(more)
        /\ \A n \in 1 .. Len(tasks) + Len(more) :
              (tasks \o more)[n] = IF n <= Len(tasks) THEN tasks[n] ELSE more[n - Len(tasks)]
    BY <1>1, <1>2, ConcatProperties
  <2> QED BY <2>1, <1>2, <1>4
<1>6. ASSUME NEW n \in DOMAIN tasks' PROVE tasks'[n] = FALSE
  <2>1. CASE n <= Len(tasks)
    <3>1. n \in DOMAIN tasks
      BY <2>1, <1>1, <1>5
    <3> QED BY <3>1, <2>1, <1>5 DEF LoopInv
  <2>2. CASE ~(n <= Len(tasks))
    <3>1. n - Len(tasks) \in 1 .. h
      BY <2>2, <1>1, <1>5
    <3> QED BY <3>1, <2>2, <1>3, <1>5
  <2> QED BY <2>1, <2>2
<1>7. h > 0 => tasks' # <<>>
  BY <1>1, <1>5
<1> QED
  BY <1>4, <1>5, <1>6, <1>7

\* What a step of the connection means for the status clients are shown: it announces
\* what the link has become, leaves everything as it was, or leaves a task that will.
ConnEffect ==
    /\ calls' = <<>> \/ \E up \in BOOLEAN : calls' = <<up>>
    /\ loop' \notin {"connecting", "stopped"} /\ ~Excused' =>
          \/ calls' = <<TRUE>> /\ link' = "up"
          \/ calls' = <<FALSE>> /\ link' = "down"
          \/ calls' = <<>> /\ link' = "down" /\ tasks' # <<>>
          \/ /\ calls' = <<>> /\ UNCHANGED <<link, tasks>> /\ ~Excused
             /\ loop \notin {"connecting", "stopped"}

ConnInv == ConnTypeOK /\ ExecutionsHeardOnce /\ LoopInv

\* Going to sleep, waking up and waiting change nothing but the place of the loop.
LEMMA LoopMovesInv ==
    ASSUME ConnInv, WakeUp \/ Announced \/ Reconciled
    PROVE  ConnInv' /\ ConnEffect
<1>1. /\ UNCHANGED <<link, account, checked, handlers, raised, tasks>>
      /\ calls' = <<>> /\ loop' \in LoopStates
      /\ loop \notin {"connecting", "stopped"} /\ loop' # "stopped"
      /\ loop' = "connecting" => link = "down" /\ tasks = <<>>
  BY DEF WakeUp, Announced, Reconciled, LoopStates
<1>2. ConnEffect
  BY <1>1 DEF ConnEffect, Excused, EndUnheard
<1> QED
  BY <1>1, <1>2 DEF ConnInv, ConnTypeOK, ExecutionsHeardOnce, LoopInv, LoopStates

LEMMA ConnectingInv ==
    ASSUME ConnInv, SocketUp \/ ConnectFails
    PROVE  ConnInv' /\ ConnEffect
<1>1. CASE SocketUp
  <2>1. ConnEffect
    BY <1>1 DEF SocketUp, ConnEffect
  <2> QED BY <1>1, <2>1 DEF SocketUp, ConnInv, ConnTypeOK, ExecutionsHeardOnce, LoopInv, LoopStates
<1>2. CASE ConnectFails
  <2>1. /\ link' = "down" /\ tasks' \in Seq(BOOLEAN)
        /\ \A n \in DOMAIN tasks' : tasks'[n] = FALSE
    BY <1>2, LinkEndsReturns DEF ConnectFails, ConnInv, ConnTypeOK, LoopInv
  <2>2. calls' = <<FALSE>> /\ calls' \in Seq(BOOLEAN)
    BY <1>2 DEF ConnectFails
  <2>3. ConnEffect
    BY <2>1, <2>2 DEF ConnEffect
  <2> QED BY <2>1, <2>2, <2>3, <1>2 DEF ConnectFails, ConnInv, ConnTypeOK, ExecutionsHeardOnce,
                                       LoopInv, LoopStates
<1> QED
  BY <1>1, <1>2

\* The wiring: a removal that raises is what a handler too many is owed to, and one
\* that was attached is there.
LEMMA WireReturns ==
    ASSUME ConnInv, NEW removed, NEW attached, Wire(removed, attached)
    PROVE  /\ handlers' \in [Events -> Nat] /\ raised' \in [Events -> Nat]
           /\ \A e \in Events : handlers'[e] <= 1 + raised'[e]
           /\ \A e \in Events \cap attached : handlers'[e] >= 1
<1>1. \A e \in Events : /\ handlers[e] \in Nat /\ raised[e] \in Nat
                        /\ handlers[e] <= 1 + raised[e]
  BY DEF ConnInv, ConnTypeOK, ExecutionsHeardOnce
<1>2. /\ handlers' = [e \in Events |->
                       (IF e \in removed /\ handlers[e] > 0 THEN handlers[e] - 1 ELSE handlers[e])
                       + IF e \in attached THEN 1 ELSE 0]
      /\ raised' = [e \in Events |-> raised[e] + IF e \in removed THEN 0 ELSE 1]
  BY DEF Wire
<1>3. ASSUME NEW e \in Events
      PROVE  /\ handlers'[e] \in Nat /\ raised'[e] \in Nat
             /\ handlers'[e] <= 1 + raised'[e]
             /\ e \in attached => handlers'[e] >= 1
  BY <1>1, <1>2
<1> QED
  BY <1>2, <1>3

\* The guardrail: whatever it finds, the loop leaves "connecting" with an announcement.
LEMMA GuardrailInv ==
    ASSUME ConnInv, Verified \/ Mismatch \/ MismatchKept \/ GuardrailRaises
    PROVE  ConnInv' /\ ConnEffect
<1>1. /\ loop = "connecting" /\ loop' = "announcing" /\ tasks = <<>>
      /\ account' = account
  BY DEF Verified, Mismatch, MismatchKept, GuardrailRaises, Returns, ConnInv, LoopInv
<1>2. CASE Verified
  <2>1. calls' = <<TRUE>> /\ calls' \in Seq(BOOLEAN)
    BY <1>2 DEF Verified
  <2>2. ConnEffect
    BY <1>2, <2>1 DEF Verified, ConnEffect
  <2>3. PICK removed \in SUBSET Events, attached \in {{}, {"execDetails"}, Events} :
          /\ Wire(removed, attached)
          /\ checked' = IF attached = Events THEN "ok" ELSE "unwired"
    BY <1>2 DEF Verified
  <2>4. /\ handlers' \in [Events -> Nat] /\ raised' \in [Events -> Nat]
        /\ \A e \in Events : handlers'[e] <= 1 + raised'[e]
        /\ \A e \in Events \cap attached : handlers'[e] >= 1
    BY <2>3, WireReturns
  <2>5. ExecutionsHeardOnce' /\ checked' \in {"ok", "unwired"}
    BY <2>3, <2>4 DEF ExecutionsHeardOnce
  <2> QED BY <1>1, <1>2, <2>1, <2>2, <2>4, <2>5 DEF Verified, ConnInv, ConnTypeOK, LoopInv,
                                                   LoopStates, Verdicts
<1>3. CASE Mismatch
  <2>1. calls' = <<FALSE>> /\ calls' \in Seq(BOOLEAN)
    BY <1>3 DEF Mismatch
  <2>2. /\ link' = "down" /\ tasks' \in Seq(BOOLEAN)
        /\ \A n \in DOMAIN tasks' : tasks'[n] = FALSE
    BY <1>3, LinkEndsReturns DEF Mismatch, ConnInv
  <2>3. ConnEffect
    BY <2>1, <2>2 DEF ConnEffect
  <2> QED BY <1>1, <1>3, <2>1, <2>2, <2>3 DEF Mismatch, ConnInv, ConnTypeOK, ExecutionsHeardOnce,
                                             LoopInv, LoopStates
<1>4. CASE MismatchKept \/ GuardrailRaises
  <2>0. calls' = <<FALSE>>
    BY <1>4, Zenon DEF MismatchKept, GuardrailRaises
  <2>1. /\ calls' = <<FALSE>> /\ calls' \in Seq(BOOLEAN) /\ checked' \in {"error", "kept"}
        /\ link' = "up" /\ UNCHANGED <<handlers, raised, tasks>>
    <3>1. <<FALSE>> \in Seq(BOOLEAN)
      OBVIOUS
    <3> QED BY <3>1, <2>0, <1>4 DEF MismatchKept, GuardrailRaises
  <2>2. ConnEffect
    BY <2>1 DEF ConnEffect, Excused
  <2> QED BY <1>1, <2>1, <2>2 DEF ConnInv, ConnTypeOK, ExecutionsHeardOnce,
                                 LoopInv, LoopStates, Verdicts
<1> QED
  BY <1>2, <1>3, <1>4

\* A session that is lost is announced by a task, which its handler creates.
LEMMA SessionEndsInv ==
    ASSUME ConnInv, LinkLost \/ RunTask \/ Stop
    PROVE  ConnInv' /\ ConnEffect
<1>1. CASE LinkLost
  <2>1. /\ link' = "down" /\ tasks' \in Seq(BOOLEAN)
        /\ \A n \in DOMAIN tasks' : tasks'[n] = FALSE
        /\ handlers["disconnected"] > 0 => tasks' # <<>>
    BY <1>1, LinkEndsReturns DEF LinkLost, ConnInv
  <2>2. /\ loop # "connecting" /\ checked \in Verdicts
        /\ checked = "ok" => handlers["disconnected"] > 0
        /\ handlers["disconnected"] \in Nat
    BY <1>1 DEF LinkLost, ConnInv, ConnTypeOK, ExecutionsHeardOnce, LoopInv, Verdicts, Events
  <2>3. /\ calls' = <<>> /\ calls' \in Seq(BOOLEAN)
        /\ UNCHANGED <<account, checked, loop, handlers, raised>>
    BY <1>1 DEF LinkLost
  <2>4. ConnEffect
    <3>1. ~Excused' => tasks' # <<>>
      BY <2>1, <2>2, <2>3 DEF Excused, EndUnheard, Verdicts
    <3> QED BY <3>1, <2>1, <2>3 DEF ConnEffect
  <2> QED BY <2>1, <2>2, <2>3, <2>4 DEF ConnInv, ConnTypeOK, ExecutionsHeardOnce, LoopInv
<1>2. CASE RunTask
  <2>1. /\ tasks' \in Seq(BOOLEAN) /\ Head(tasks) = FALSE
        /\ \A n \in DOMAIN tasks' : tasks'[n] = FALSE
    <3>1. tasks \in Seq(BOOLEAN) /\ tasks # <<>> /\ tasks' = Tail(tasks)
      BY <1>2 DEF RunTask, ConnInv, ConnTypeOK
    <3>2. /\ tasks' \in Seq(BOOLEAN) /\ 1 \in DOMAIN tasks /\ Head(tasks) = tasks[1]
          /\ \A n \in DOMAIN tasks' : n + 1 \in DOMAIN tasks /\ tasks'[n] = tasks[n + 1]
      BY <3>1
    <3> QED BY <3>2 DEF ConnInv, LoopInv
  <2>2. calls' = <<FALSE>> /\ calls' \in Seq(BOOLEAN)
    <3>1. <<FALSE>> \in Seq(BOOLEAN)
      OBVIOUS
    <3>2. calls' = <<FALSE>>
      BY <1>2, <2>1, Zenon DEF RunTask
    <3> QED BY <3>1, <3>2
  <2>3. link = "down" /\ loop # "connecting"
    BY <1>2 DEF RunTask, ConnInv, ConnTypeOK, LoopInv
  <2>4. UNCHANGED <<link, account, checked, loop, handlers, raised>>
    BY <1>2 DEF RunTask
  <2>5. ConnEffect
    BY <2>2, <2>3, <2>4 DEF ConnEffect
  <2> QED BY <2>1, <2>2, <2>3, <2>4, <2>5 DEF ConnInv, ConnTypeOK, ExecutionsHeardOnce, LoopInv
<1>3. CASE Stop
  <2>1. /\ link' = "down" /\ tasks' \in Seq(BOOLEAN)
        /\ \A n \in DOMAIN tasks' : tasks'[n] = FALSE
    BY <1>3, LinkEndsReturns DEF Stop, ConnInv, ConnTypeOK, LoopInv
  <2>2. ConnEffect
    BY <1>3 DEF Stop, ConnEffect
  <2> QED BY <1>3, <2>1, <2>2 DEF Stop, ConnInv, ConnTypeOK, ExecutionsHeardOnce,
                                 LoopInv, LoopStates
<1> QED
  BY <1>1, <1>2, <1>3

LEMMA ConnNextInv ==
    ASSUME ConnInv, ConnNext
    PROVE  ConnInv' /\ ConnEffect
BY LoopMovesInv, ConnectingInv, GuardrailInv, SessionEndsInv DEF ConnNext, LoopStep

----------------------------------------------------------------------------
(* What a client will show and was told, message by message.                *)

LEMMA MessageTypes ==
    /\ \A c \in Changes : Event(c) \in Messages /\ Event(c).link = "none"
                           /\ Event(c).changes = {c}
    /\ \A up \in BOOLEAN : Status(up) \in Messages /\ Status(up).changes = {}
    /\ Status(TRUE).link = "up" /\ Status(FALSE).link = "down"
BY DEF Event, Status, Messages

\* A message put at the end is shown last, and nothing told before is forgotten.
LEMMA AppendShows ==
    ASSUME NEW c \in Clients, outbox[c] \in Seq(Messages), NEW m \in Messages,
           outbox'[c] = Append(outbox[c], m),
           shown'[c] = shown[c], received'[c] = received[c]
    PROVE  /\ \A l : m.link = "none" /\ WillShow(c, l) => WillShow(c, l)'
           /\ m.link # "none" => WillShow(c, m.link)'
           /\ Told(c) \cup m.changes \subseteq Told(c)'
<1> DEFINE n == Len(outbox[c]) + 1
<1>1. /\ n \in Nat /\ DOMAIN outbox[c] = 1 .. n - 1 /\ DOMAIN outbox'[c] = 1 .. n
      /\ outbox'[c][n] = m
      /\ \A i \in 1 .. n - 1 : outbox'[c][i] = outbox[c][i]
  OBVIOUS
<1> HIDE DEF n
<1>2. ASSUME NEW l, m.link = "none", WillShow(c, l) PROVE WillShow(c, l)'
  <2>1. ASSUME NEW i \in DOMAIN outbox[c], outbox[c][i].link = l,
               \A j \in DOMAIN outbox[c] : j > i => outbox[c][j].link = "none"
        PROVE  WillShow(c, l)'
    <3>1. i \in DOMAIN outbox'[c] /\ outbox'[c][i].link = l
      BY <2>1, <1>1
    <3>2. ASSUME NEW j \in DOMAIN outbox'[c], j > i PROVE outbox'[c][j].link = "none"
      BY <3>2, <2>1, <1>1, <1>2
    <3> QED BY <3>1, <3>2 DEF WillShow
  <2>2. CASE (\A i \in DOMAIN outbox[c] : outbox[c][i].link = "none") /\ shown[c] = l
    <3>1. ASSUME NEW j \in DOMAIN outbox'[c] PROVE outbox'[c][j].link = "none"
      BY <2>2, <1>1, <1>2
    <3> QED BY <3>1, <2>2 DEF WillShow
  <2> QED BY <2>1, <2>2, <1>2 DEF WillShow
<1>3. WillShow(c, m.link)'
  <2>1. n \in DOMAIN outbox'[c] /\ ~\E j \in DOMAIN outbox'[c] : j > n
    BY <1>1
  <2> QED BY <2>1, <1>1 DEF WillShow
<1>4. Told(c) \cup m.changes \subseteq Told(c)'
  <2>1. \A i \in DOMAIN outbox[c] : i \in DOMAIN outbox'[c] /\ outbox'[c][i] = outbox[c][i]
    BY <1>1
  <2>2. n \in DOMAIN outbox'[c]
    BY <1>1
  <2> QED BY <2>1, <2>2, <1>1 DEF Told
<1> QED
  BY <1>2, <1>3, <1>4

\* Nothing to send leaves a client as it is.
LEMMA SameOutbox ==
    ASSUME NEW c \in Clients, outbox'[c] = outbox[c],
           shown'[c] = shown[c], received'[c] = received[c]
    PROVE  /\ \A l : WillShow(c, l) => WillShow(c, l)'
           /\ Told(c)' = Told(c)
BY DEF WillShow, Told

\* A broadcast of at most one message reaches the clients that are registered.
LEMMA BroadcastReturns ==
    ASSUME TypeOK, NEW m \in Messages, Broadcast(<<m>>)
    PROVE  /\ outbox' \in [Clients -> Seq(Messages)]
           /\ \A c \in Clients : outbox'[c] = IF c \in registered THEN Append(outbox[c], m)
                                               ELSE outbox[c]
<1>1. \A c \in Clients : outbox[c] \in Seq(Messages)
  BY DEF TypeOK
<1>2. \A c \in Clients : outbox[c] \o <<m>> = Append(outbox[c], m)
  BY <1>1, AppendIsConcat
<1>3. outbox' = [c \in Clients |-> IF c \in registered THEN outbox[c] \o <<m>> ELSE outbox[c]]
  BY DEF Broadcast
<1>4. outbox' = [c \in Clients |-> IF c \in registered THEN Append(outbox[c], m) ELSE outbox[c]]
  BY <1>2, <1>3
<1>5. \A c \in Clients : Append(outbox[c], m) \in Seq(Messages)
  BY <1>1
<1> QED
  BY <1>1, <1>4, <1>5

LEMMA BroadcastNothing ==
    ASSUME TypeOK, Broadcast(<<>>)
    PROVE  outbox' = outbox
<1>1. \A c \in Clients : outbox[c] \in Seq(Messages)
  BY DEF TypeOK
<1>2. \A c \in Clients : outbox[c] \o <<>> = outbox[c]
  BY <1>1, ConcatEmptySeq
<1>3. outbox' = [c \in Clients |-> IF c \in registered THEN outbox[c] \o <<>> ELSE outbox[c]]
  BY DEF Broadcast
<1>4. outbox = [c \in Clients |-> outbox[c]]
  BY DEF TypeOK
<1> QED
  BY <1>2, <1>3, <1>4

----------------------------------------------------------------------------
(* Every step preserves the invariant.                                      *)

LEMMA InitInv == Init => IInv
<1> SUFFICES ASSUME Init PROVE IInv
  OBVIOUS
<1>1. TypeOK
  BY AccountsAssumption, ChangesAssumption
     DEF Init, ConnInit, TypeOK, ConnTypeOK, LoopStates, Verdicts, Messages
<1>2. ExecutionsHeardOnce /\ LoopInv
  BY DEF Init, ConnInit, ExecutionsHeardOnce, LoopInv
<1>3. \A c \in Clients : StatusInv(c) /\ ChangeInv(c)
  BY DEF Init, StatusInv, ChangeInv
<1> QED
  BY <1>1, <1>2, <1>3 DEF IInv

\* The feed's own steps leave the connection alone.
LEMMA FeedOnlyInv ==
    ASSUME IInv, FeedOnly
    PROVE  ConnInv' /\ ConnTypeOK'
BY DEF IInv, TypeOK, FeedOnly, ConnInv, ConnTypeOK, ExecutionsHeardOnce, LoopInv

\* A client none of whose messages, place or tables change keeps its invariants while
\* the connection rests.
LEMMA BystanderInv ==
    ASSUME IInv, NEW c \in Clients,
           UNCHANGED <<link, checked, loop, handlers, tasks, changes, due, silent>>,
           outbox'[c] = outbox[c], step'[c] = step[c], read'[c] = read[c],
           received'[c] = received[c], shown'[c] = shown[c],
           c \in lagging => c \in lagging'
    PROVE  StatusInv(c)' /\ ChangeInv(c)'
<1>1. StatusInv(c) /\ ChangeInv(c)
  BY DEF IInv
<1>2. Excused' <=> Excused
  BY DEF Excused, EndUnheard
<1>3. (\A l : WillShow(c, l) => WillShow(c, l)') /\ Told(c)' = Told(c)
  BY SameOutbox
<1> QED
  BY <1>1, <1>2, <1>3 DEF StatusInv, ChangeInv

\* An announcement reaches every live client; without one the link has not changed,
\* or a task will announce it.
LEMMA ConnectionInv ==
    ASSUME IInv, Connection
    PROVE  IInv'
<1>1. /\ ConnNext
      /\ UNCHANGED <<changes, due, silent, registered, step, read, received, lagging, shown>>
      /\ Broadcast([n \in DOMAIN calls' |-> Status(calls'[n])])
  BY DEF Connection, BroadcastStatus
<1>2. ConnInv' /\ ConnEffect
  BY <1>1, ConnNextInv DEF IInv, TypeOK, ConnInv
<1>3. TypeOK
  BY DEF IInv
<1>4. CASE calls' = <<>>
  <2>1. Broadcast(<<>>)
    BY <1>1, <1>4
  <2>2. outbox' = outbox
    BY <1>3, <2>1, BroadcastNothing
  <2>3. TypeOK'
    BY <1>1, <1>2, <1>3, <2>2 DEF TypeOK, ConnInv
  <2>4. ASSUME NEW c \in Clients PROVE StatusInv(c)' /\ ChangeInv(c)'
    <3>1. StatusInv(c) /\ ChangeInv(c)
      BY DEF IInv
    <3>2. Told(c)' = Told(c) /\ \A l : WillShow(c, l) => WillShow(c, l)'
      BY <1>1, <2>2, SameOutbox
    <3> QED BY <3>1, <3>2, <1>1, <1>2, <1>4 DEF StatusInv, ChangeInv, ConnEffect
  <2> QED BY <1>2, <2>3, <2>4 DEF IInv, ConnInv
<1>5. ASSUME NEW up \in BOOLEAN, calls' = <<up>> PROVE IInv'
  <2>1. Broadcast(<<Status(up)>>)
    <3>1. DOMAIN calls' = {1} /\ calls'[1] = up
      BY <1>5
    <3>2. [n \in DOMAIN calls' |-> Status(calls'[n])] = <<Status(up)>>
      BY <3>1
    <3> QED BY <3>2, <1>1
  <2>2. Status(up) \in Messages /\ Status(up).link = IF up THEN "up" ELSE "down"
    BY MessageTypes DEF Status
  <2>3. /\ outbox' \in [Clients -> Seq(Messages)]
        /\ \A c \in Clients : outbox'[c] = IF c \in registered THEN Append(outbox[c], Status(up))
                                            ELSE outbox[c]
    BY <1>3, <2>1, <2>2, BroadcastReturns
  <2>4. TypeOK'
    BY <1>1, <1>2, <1>3, <2>3 DEF TypeOK, ConnInv
  <2>5. ASSUME NEW c \in Clients PROVE StatusInv(c)' /\ ChangeInv(c)'
    <3>1. ChangeInv(c) /\ outbox[c] \in Seq(Messages)
      BY <1>3 DEF IInv, TypeOK
    <3>2. CASE c \notin registered
      BY <3>2, <1>1, <1>3 DEF TypeOK, StatusInv, ChangeInv
    <3>3. CASE c \in registered
      <4>1. WillShow(c, Status(up).link)' /\ Told(c) \subseteq Told(c)'
        <5>1. /\ Status(up).link # "none" => WillShow(c, Status(up).link)'
              /\ Told(c) \cup Status(up).changes \subseteq Told(c)'
          BY <3>1, <3>3, <1>1, <2>2, <2>3, AppendShows
        <5> QED BY <5>1, <2>2
      <4>2. ChangeInv(c)'
        BY <4>1, <3>1, <1>1 DEF ChangeInv
      <4>3. StatusInv(c)'
        BY <4>1, <1>2, <1>5, <2>2 DEF StatusInv, ConnEffect
      <4> QED BY <4>2, <4>3
    <3> QED BY <3>2, <3>3
  <2> QED BY <1>2, <2>4, <2>5 DEF IInv, ConnInv
<1> QED
  BY <1>2, <1>4, <1>5 DEF ConnEffect

\* A committed change is due until its broadcast begins, or silent.
LEMMA CommitInv ==
    ASSUME IInv, Commit \/ CommitSilently
    PROVE  IInv'
<1>1. /\ changes < MaxChanges /\ changes' = changes + 1
      /\ due' \cup silent' = due \cup silent \cup {changes + 1}
      /\ due' \subseteq due \cup {changes + 1} /\ silent' \subseteq silent \cup {changes + 1}
      /\ FeedOnly /\ UNCHANGED <<registered, step, outbox, read, received, lagging, shown>>
      /\ UNCHANGED <<link, checked, loop, handlers, tasks>>
  BY DEF Commit, CommitSilently, FeedOnly
<1>2. changes \in Nat /\ 1 .. changes' = 1 .. changes \cup {changes + 1}
  BY <1>1 DEF IInv, TypeOK
<1>3. TypeOK'
  <2>1. TypeOK /\ ConnTypeOK'
    BY <1>1, FeedOnlyInv DEF IInv
  <2>2. changes' \in 0 .. MaxChanges /\ due' \subseteq 1 .. changes' /\ silent' \subseteq 1 .. changes'
    BY <2>1, <1>1, <1>2, ChangesAssumption DEF TypeOK
  <2> QED BY <2>1, <2>2, <1>1 DEF TypeOK
<1>4. ASSUME NEW c \in Clients PROVE StatusInv(c)' /\ ChangeInv(c)'
  <2>1. StatusInv(c) /\ ChangeInv(c)
    BY DEF IInv
  <2>2. Told(c)' = Told(c) /\ \A l : WillShow(c, l) => WillShow(c, l)'
    BY <1>1, SameOutbox
  <2>3. Excused' <=> Excused
    BY <1>1 DEF Excused, EndUnheard
  <2>4. ChangeInv(c)'
    BY <2>1, <2>2, <1>1, <1>2 DEF ChangeInv
  <2> QED BY <2>1, <2>2, <2>3, <2>4, <1>1 DEF StatusInv
<1> QED
  BY <1>1, <1>3, <1>4, FeedOnlyInv DEF IInv, ConnInv

\* A change is told to every registered client when it stops being due.
LEMMA BroadcastChangeInv ==
    ASSUME IInv, BroadcastChange
    PROVE  IInv'
<1>1. PICK e \in due : due' = due \ {e} /\ Broadcast(<<Event(e)>>)
  BY DEF BroadcastChange
<1>2. FeedOnly /\ UNCHANGED <<changes, silent, registered, step, read, received, lagging, shown>>
      /\ UNCHANGED <<link, checked, loop, handlers, tasks>>
  BY DEF BroadcastChange, FeedOnly
<1>3. TypeOK /\ e \in Changes
  BY <1>1, ChangesAssumption DEF IInv, TypeOK, Changes
<1>4. Event(e) \in Messages /\ Event(e).link = "none" /\ Event(e).changes = {e}
  BY <1>3, MessageTypes
<1>5. /\ outbox' \in [Clients -> Seq(Messages)]
      /\ \A c \in Clients : outbox'[c] = IF c \in registered THEN Append(outbox[c], Event(e))
                                          ELSE outbox[c]
  BY <1>1, <1>3, <1>4, BroadcastReturns
<1>6. TypeOK'
  BY <1>1, <1>2, <1>3, <1>5, FeedOnlyInv DEF TypeOK
<1>7. ASSUME NEW c \in Clients PROVE StatusInv(c)' /\ ChangeInv(c)'
  <2>1. StatusInv(c) /\ ChangeInv(c) /\ outbox[c] \in Seq(Messages)
    BY <1>3 DEF IInv, TypeOK
  <2>2. CASE c \notin registered
    BY <2>2, <1>2, <1>3 DEF TypeOK, StatusInv, ChangeInv
  <2>3. CASE c \in registered
    <3>1. /\ \A l : WillShow(c, l) => WillShow(c, l)'
          /\ Told(c) \cup {e} \subseteq Told(c)'
      BY <2>1, <2>3, <1>2, <1>4, <1>5, AppendShows
    <3>2. due \cup Told(c) \subseteq due' \cup Told(c)'
      BY <3>1, <1>1
    <3>3. ChangeInv(c)'
      BY <2>1, <3>2, <1>2 DEF ChangeInv
    <3>4. Excused' <=> Excused
      BY <1>2 DEF Excused, EndUnheard
    <3> QED BY <2>1, <3>1, <3>3, <3>4, <1>2 DEF StatusInv
  <2> QED BY <2>2, <2>3
<1> QED
  BY <1>2, <1>6, <1>7, FeedOnlyInv DEF IInv, ConnInv

\* A client that connects, and one that reads the tables, shows nothing yet.
LEMMA RegisterInv ==
    ASSUME IInv, NEW d \in Clients, Register(d) \/ ReadTables(d)
    PROVE  IInv'
<1>1. /\ FeedOnly
      /\ UNCHANGED <<link, checked, loop, handlers, tasks, changes, due, silent, outbox>>
      /\ UNCHANGED <<received, lagging, shown>>
  BY DEF Register, ReadTables, FeedOnly
<1>2. TypeOK
  BY DEF IInv
<1>3. 1 .. changes \in SUBSET Changes
  BY <1>2, ChangesAssumption DEF TypeOK, Changes
<1>4. TypeOK' /\ step'[d] \in {"registered", "read"}
      /\ (step'[d] = "read" => read'[d] = 1 .. changes)
  <2>1. CASE Register(d)
    BY <1>1, <1>2, <2>1, FeedOnlyInv DEF Register, TypeOK
  <2>2. CASE ReadTables(d)
    BY <1>1, <1>2, <1>3, <2>2, FeedOnlyInv DEF ReadTables, TypeOK
  <2> QED BY <2>1, <2>2
<1>5. ASSUME NEW c \in Clients PROVE StatusInv(c)' /\ ChangeInv(c)'
  <2>1. CASE c = d
    BY <2>1, <1>1, <1>4 DEF StatusInv, ChangeInv
  <2>2. CASE c # d
    <3>1. /\ step'[c] = step[c] /\ read'[c] = read[c] /\ received'[c] = received[c]
          /\ shown'[c] = shown[c] /\ outbox'[c] = outbox[c]
      BY <2>2, <1>1, <1>2 DEF Register, ReadTables, TypeOK
    <3> QED BY <3>1, <1>1, BystanderInv
  <2> QED BY <2>1, <2>2
<1> QED
  BY <1>1, <1>4, <1>5, FeedOnlyInv DEF IInv, ConnInv

\* The snapshot tells what the tables showed and what the link is now.
LEMMA SendSnapshotInv ==
    ASSUME IInv, NEW d \in Clients, SendSnapshot(d)
    PROVE  IInv'
<1>1. /\ FeedOnly
      /\ UNCHANGED <<link, checked, loop, handlers, tasks, changes, due, silent>>
      /\ UNCHANGED <<registered, received, lagging, shown>>
      /\ step[d] = "read" /\ step' = [step EXCEPT ![d] = "live"]
      /\ read' = [read EXCEPT ![d] = {}]
      /\ outbox' = [outbox EXCEPT ![d] = Append(@, Snapshot(d))]
  BY DEF SendSnapshot, FeedOnly
<1>2. TypeOK
  BY DEF IInv
<1>3. PICK m \in Messages : /\ m = Snapshot(d) /\ m.changes = read[d]
                            /\ m.link = IF link = "down" THEN "down" ELSE "up"
  <2>1. read[d] \in SUBSET Changes
    BY <1>2 DEF TypeOK
  <2>2. Snapshot(d) \in Messages
    BY <2>1 DEF Snapshot, Messages
  <2> QED BY <2>2 DEF Snapshot
<1>4. outbox[d] \in Seq(Messages) /\ outbox'[d] = Append(outbox[d], m)
      /\ Append(outbox[d], m) \in Seq(Messages)
  BY <1>1, <1>2, <1>3 DEF TypeOK
<1>5. TypeOK'
  BY <1>1, <1>2, <1>4, FeedOnlyInv DEF TypeOK
<1>6. ASSUME NEW c \in Clients PROVE StatusInv(c)' /\ ChangeInv(c)'
  <2>1. CASE c = d
    <3>1. /\ m.link # "none" => WillShow(d, m.link)'
          /\ Told(d) \cup m.changes \subseteq Told(d)'
      BY <1>1, <1>4, AppendShows
    <3>2. ChangeInv(d)
      BY DEF IInv
    <3>3. step'[d] = "live"
      BY <1>1, <1>2 DEF TypeOK
    <3>4. ChangeInv(d)'
      BY <3>1, <3>2, <3>3, <1>1, <1>3 DEF ChangeInv
    <3>5. StatusInv(d)'
      BY <3>1, <3>3, <1>1, <1>3 DEF StatusInv
    <3> QED BY <2>1, <3>4, <3>5
  <2>2. CASE c # d
    <3>1. step'[c] = step[c] /\ outbox'[c] = outbox[c] /\ read'[c] = read[c]
      BY <2>2, <1>1, <1>2 DEF TypeOK
    <3> QED BY <3>1, <1>1, BystanderInv
  <2> QED BY <2>1, <2>2
<1> QED
  BY <1>1, <1>5, <1>6, FeedOnlyInv DEF IInv, ConnInv

\* A message that arrives is told and shown.
LEMMA SentInv ==
    ASSUME IInv, NEW d \in Clients, Sent(d)
    PROVE  IInv'
<1>1. /\ FeedOnly
      /\ UNCHANGED <<link, checked, loop, handlers, tasks, changes, due, silent>>
      /\ UNCHANGED <<registered, step, read, lagging>>
      /\ outbox[d] # <<>> /\ outbox' = [outbox EXCEPT ![d] = Tail(@)]
  BY DEF Sent, FeedOnly
<1>2. TypeOK
  BY DEF IInv
<1>3. PICK m \in Messages : m = Head(outbox[d])
  BY <1>1, <1>2 DEF TypeOK
<1>4. /\ received' = [received EXCEPT ![d] = @ \cup m.changes]
      /\ shown' = [shown EXCEPT ![d] = IF m.link = "none" THEN @ ELSE m.link]
  BY <1>3 DEF Sent
<1> DEFINE n == Len(outbox[d])
<1>5. /\ outbox[d] \in Seq(Messages) /\ n \in Nat \ {0} /\ DOMAIN outbox[d] = 1 .. n
      /\ outbox'[d] \in Seq(Messages) /\ DOMAIN outbox'[d] = 1 .. n - 1
      /\ outbox[d][1] = m
      /\ \A i \in 1 .. n - 1 : outbox'[d][i] = outbox[d][i + 1]
  BY <1>1, <1>2, <1>3 DEF TypeOK
<1>6. received'[d] = received[d] \cup m.changes
      /\ shown'[d] = IF m.link = "none" THEN shown[d] ELSE m.link
  BY <1>2, <1>4 DEF TypeOK
<1>7. TypeOK'
  <2>1. m.changes \subseteq Changes /\ m.link \in {"none", "up", "down"}
    BY DEF Messages
  <2> QED BY <2>1, <1>1, <1>2, <1>4, <1>5, FeedOnlyInv DEF TypeOK
<1>8. Told(d) \subseteq Told(d)'
  <2>1. ASSUME NEW e, NEW i \in DOMAIN outbox[d], e \in outbox[d][i].changes
        PROVE  e \in Told(d)'
    <3>1. CASE i = 1
      BY <3>1, <2>1, <1>5, <1>6 DEF Told
    <3>2. CASE i # 1
      <4>1. i - 1 \in DOMAIN outbox'[d] /\ outbox'[d][i - 1] = outbox[d][i]
        BY <3>2, <1>5
      <4> QED BY <4>1, <2>1 DEF Told
    <3> QED BY <3>1, <3>2
  <2>2. received[d] \subseteq Told(d)'
    BY <1>6 DEF Told
  <2> QED BY <2>1, <2>2 DEF Told
<1>9. ASSUME NEW l, l # "none", WillShow(d, l) PROVE WillShow(d, l)'
  <2>1. ASSUME NEW i \in DOMAIN outbox[d], outbox[d][i].link = l,
               \A j \in DOMAIN outbox[d] : j > i => outbox[d][j].link = "none"
        PROVE  WillShow(d, l)'
    <3>1. ASSUME NEW j \in DOMAIN outbox'[d], j + 1 > i PROVE outbox'[d][j].link = "none"
      <4>1. j + 1 \in DOMAIN outbox[d] /\ outbox'[d][j] = outbox[d][j + 1]
        BY <1>5
      <4> QED BY <4>1, <3>1, <2>1
    <3>2. CASE i = 1
      <4>1. \A j \in DOMAIN outbox'[d] : outbox'[d][j].link = "none"
        BY <3>1, <3>2, <1>5
      <4>2. m.link = l
        BY <3>2, <2>1, <1>5
      <4> QED BY <4>1, <4>2, <1>6, <1>9 DEF WillShow
    <3>3. CASE i # 1
      <4>1. i - 1 \in DOMAIN outbox'[d] /\ outbox'[d][i - 1].link = l
        BY <3>3, <2>1, <1>5
      <4>2. \A j \in DOMAIN outbox'[d] : j > i - 1 => outbox'[d][j].link = "none"
        BY <3>1, <1>5
      <4> QED BY <4>1, <4>2 DEF WillShow
    <3> QED BY <3>2, <3>3
  <2>2. CASE (\A i \in DOMAIN outbox[d] : outbox[d][i].link = "none") /\ shown[d] = l
    <3>1. m.link = "none" /\ shown'[d] = l
      BY <2>2, <1>5, <1>6
    <3>2. ASSUME NEW i \in DOMAIN outbox'[d] PROVE outbox'[d][i].link = "none"
      <4>1. i + 1 \in DOMAIN outbox[d] /\ outbox'[d][i] = outbox[d][i + 1]
        BY <1>5
      <4> QED BY <4>1, <2>2
    <3> QED BY <3>1, <3>2 DEF WillShow
  <2> QED BY <2>1, <2>2, <1>9 DEF WillShow
<1>10. ASSUME NEW c \in Clients PROVE StatusInv(c)' /\ ChangeInv(c)'
  <2>1. CASE c = d
    <3>1. StatusInv(d) /\ ChangeInv(d)
      BY DEF IInv
    <3>2. WillShow(d, "up") => WillShow(d, "up")'
      BY <1>9
    <3>3. WillShow(d, "down") => WillShow(d, "down")'
      BY <1>9
    <3>4. Excused' <=> Excused
      BY <1>1 DEF Excused, EndUnheard
    <3>5. ChangeInv(d)'
      BY <3>1, <1>1, <1>8 DEF ChangeInv
    <3> QED BY <2>1, <3>1, <3>2, <3>3, <3>4, <3>5, <1>1 DEF StatusInv
  <2>2. CASE c # d
    <3>1. /\ outbox'[c] = outbox[c] /\ received'[c] = received[c] /\ shown'[c] = shown[c]
      BY <2>2, <1>1, <1>2, <1>4 DEF TypeOK
    <3> QED BY <3>1, <1>1, BystanderInv
  <2> QED BY <2>1, <2>2
<1> QED
  BY <1>1, <1>7, <1>10, FeedOnlyInv DEF IInv, ConnInv

\* A client a send to which has failed is promised nothing any more.
LEMMA LaggingInv ==
    ASSUME IInv, NEW d \in Clients, Fails(d) \/ Prune(d)
    PROVE  IInv'
<1>1. /\ FeedOnly
      /\ UNCHANGED <<link, checked, loop, handlers, tasks, changes, due, silent>>
      /\ UNCHANGED <<step, read, received, shown>>
      /\ lagging' = lagging \cup {d} /\ registered' \in {registered, registered \ {d}}
      /\ \/ outbox' = outbox
         \/ outbox[d] # <<>> /\ outbox' = [outbox EXCEPT ![d] = Tail(@)]
  BY DEF Fails, Prune, FeedOnly
<1>2. TypeOK
  BY DEF IInv
<1>3. d \in registered \cup lagging
  <2>1. CASE Fails(d)
    BY <2>1, <1>2 DEF Fails, TypeOK
  <2>2. CASE Prune(d)
    BY <2>2 DEF Prune
  <2> QED BY <2>1, <2>2
<1>4. outbox' \in [Clients -> Seq(Messages)]
  <2>1. outbox \in [Clients -> Seq(Messages)]
    BY <1>2 DEF TypeOK
  <2>2. CASE outbox' = outbox
    BY <2>1, <2>2
  <2>3. CASE outbox[d] # <<>> /\ outbox' = [outbox EXCEPT ![d] = Tail(@)]
    <3>1. outbox[d] \in Seq(Messages) /\ outbox[d] # <<>>
      BY <2>1, <2>3
    <3>2. Tail(outbox[d]) \in Seq(Messages)
      BY <3>1
    <3> QED BY <2>1, <2>3, <3>2
  <2> QED BY <1>1, <2>2, <2>3
<1>5. TypeOK'
  <2>1. registered' \cup lagging' = {c \in Clients : step'[c] # "away"}
    BY <1>1, <1>2, <1>3 DEF TypeOK
  <2>2. \A c \in Clients : step'[c] = "away" => outbox'[c] = <<>>
    BY <1>1, <1>2 DEF TypeOK
  <2> QED BY <2>1, <2>2, <1>1, <1>2, <1>4, FeedOnlyInv DEF TypeOK
<1>6. ASSUME NEW c \in Clients PROVE StatusInv(c)' /\ ChangeInv(c)'
  <2>1. CASE c = d
    BY <2>1, <1>1 DEF StatusInv, ChangeInv
  <2>2. CASE c # d
    <3>1. outbox'[c] = outbox[c]
      BY <2>2, <1>1, <1>2 DEF TypeOK
    <3> QED BY <3>1, <1>1, BystanderInv
  <2> QED BY <2>1, <2>2
<1> QED
  BY <1>1, <1>5, <1>6, FeedOnlyInv DEF IInv, ConnInv

\* A client whose handler has ended shows nothing.
LEMMA EndInv ==
    ASSUME IInv, NEW d \in Clients, End(d)
    PROVE  IInv'
<1>1. /\ FeedOnly
      /\ UNCHANGED <<link, checked, loop, handlers, tasks, changes, due, silent>>
      /\ outbox' = [outbox EXCEPT ![d] = <<>>] /\ registered' = registered \ {d}
      /\ lagging' = lagging \ {d} /\ step' = [step EXCEPT ![d] = "away"]
      /\ read' = [read EXCEPT ![d] = {}] /\ received' = [received EXCEPT ![d] = {}]
      /\ shown' = [shown EXCEPT ![d] = "none"]
  BY DEF End, Forget, FeedOnly
<1>2. TypeOK
  BY DEF IInv
<1>3. TypeOK'
  BY <1>1, <1>2, FeedOnlyInv DEF TypeOK
<1>4. ASSUME NEW c \in Clients PROVE StatusInv(c)' /\ ChangeInv(c)'
  <2>1. CASE c = d
    BY <2>1, <1>1, <1>2 DEF StatusInv, ChangeInv, TypeOK
  <2>2. CASE c # d
    <3>1. /\ step'[c] = step[c] /\ outbox'[c] = outbox[c] /\ read'[c] = read[c]
          /\ received'[c] = received[c] /\ shown'[c] = shown[c]
      BY <2>2, <1>1, <1>2 DEF TypeOK
    <3>2. c \in lagging => c \in lagging'
      BY <2>2, <1>1
    <3> QED BY <3>1, <3>2, <1>1, BystanderInv
  <2> QED BY <2>1, <2>2
<1> QED
  BY <1>1, <1>3, <1>4, FeedOnlyInv DEF IInv, ConnInv

LEMMA NextInv == IInv /\ [Next]_vars => IInv'
<1> SUFFICES ASSUME IInv, [Next]_vars PROVE IInv'
  OBVIOUS
<1>1. CASE Connection \/ Commit \/ CommitSilently \/ BroadcastChange
  BY <1>1, ConnectionInv, CommitInv, BroadcastChangeInv
<1>2. ASSUME NEW c \in Clients,
             \/ Register(c) \/ ReadTables(c) \/ SendSnapshot(c)
             \/ Sent(c) \/ Fails(c) \/ Prune(c) \/ End(c)
      PROVE IInv'
  BY <1>2, RegisterInv, SendSnapshotInv, SentInv, LaggingInv, EndInv
<1>3. CASE UNCHANGED vars
  <2>1. /\ UNCHANGED <<link, account, checked, loop, handlers, raised, tasks, calls>>
        /\ UNCHANGED <<changes, due, silent, registered, step, outbox, read, received, lagging, shown>>
    BY <1>3 DEF vars, connVars, feedVars
  <2>2. TypeOK' /\ ExecutionsHeardOnce' /\ LoopInv'
    BY <2>1 DEF IInv, TypeOK, ConnTypeOK, ExecutionsHeardOnce, LoopInv
  <2>3. ASSUME NEW c \in Clients PROVE StatusInv(c)' /\ ChangeInv(c)'
    BY <2>1, BystanderInv
  <2> QED BY <2>2, <2>3 DEF IInv
<1> QED
  BY <1>1, <1>2, <1>3 DEF Next

----------------------------------------------------------------------------
(* The theorems.                                                            *)

\* The invariant holds of every behaviour, whatever the fairness.
LEMMA InvariantHolds == Spec => []IInv
BY InitInv, NextInv, PTL DEF Spec

\* Every state is well formed; the broadcasts' set of clients (_clients of websocket.py)
\* holds only clients whose handler runs, and all of those no send to which has failed.
THEOREM FeedTypeCorrect == Spec => []TypeOK
<1>1. IInv => TypeOK
  BY DEF IInv
<1> QED
  BY <1>1, InvariantHolds, PTL

\* However often ibkr.py has reconnected, each handler is attached at most once, and once
\* more for each removal that raised, and at least once to a session whose wiring did not
\* raise: _wire_events neither collects handlers nor loses one for good.
THEOREM HeardOnce == Spec => []ExecutionsHeardOnce
<1>1. IInv => ExecutionsHeardOnce
  BY DEF IInv
<1> QED
  BY <1>1, InvariantHolds, PTL

\* The reconnect loop never sleeps on a session of an account other than
\* EXPECTED_IBKR_ACCOUNT, unless the accounts could not be read or disconnect() raised.
THEOREM RestsOnlyOnExpected == Spec => []RestsOnExpectedAccount
<1>1. IInv => RestsOnExpectedAccount
  BY DEF IInv, LoopInv, RestsOnExpectedAccount
<1> QED
  BY <1>1, InvariantHolds, PTL

\* A dashboard no send to which has failed, and that was sent everything, knows of every
\* change whose broadcast has begun, whenever it connected: the snapshot and the events
\* leave no gap.  The changes the code commits without an event are left out.
THEOREM NoGapAfterSnapshot == Spec => []NoChangeMissed
<1>1. IInv => NoChangeMissed
  <2> SUFFICES ASSUME IInv, NEW c \in Clients, UpToDate(c)
               PROVE  1 .. changes \ (due \cup silent) \subseteq received[c]
    BY DEF NoChangeMissed
  <2>1. ChangeInv(c) /\ step[c] = "live" /\ outbox[c] = <<>> /\ c \notin lagging
    BY DEF IInv, UpToDate
  <2>2. Told(c) = received[c]
    BY <2>1 DEF Told
  <2> QED BY <2>1, <2>2 DEF ChangeInv
<1> QED
  BY <1>1, InvariantHolds, PTL

\* A dashboard no send to which has failed, and that was sent everything, shows whether
\* the link is up once the loop is at rest, except where ibkr.py announced the end of a
\* session it did not end, or could not attach the handler of the session's end.
THEOREM StatusIsShown == Spec => []LinkShown
<1>1. IInv => LinkShown
  <2> SUFFICES ASSUME IInv, NEW c \in Clients,
                      UpToDate(c), loop = "asleep", tasks = <<>>,
                      checked \notin {"error", "kept"}, ~EndUnheard
               PROVE  shown[c] = IF link = "down" THEN "down" ELSE "up"
    BY DEF LinkShown
  <2>1. StatusInv(c) /\ step[c] = "live" /\ outbox[c] = <<>> /\ c \notin lagging /\ ~Excused
    BY DEF IInv, UpToDate, Excused
  <2>2. link \in {"down", "up"}
    BY DEF IInv, TypeOK, ConnTypeOK, LoopInv
  <2>3. \A l : WillShow(c, l) => shown[c] = l
    BY <2>1 DEF WillShow
  <2> QED BY <2>1, <2>2, <2>3 DEF StatusInv
<1> QED
  BY <1>1, InvariantHolds, PTL
=============================================================================
