# AlgoTrader Bridge in TLA+

The bridge receives TradingView alerts over HTTP, decides what to trade, places
orders with Interactive Brokers (IBKR) through TWS, and keeps its own tables of
signals, orders, positions and trades. This directory holds TLA+ modules of that
program, TLC configurations that check them on small instances, and TLAPS proofs
of the results that matter most for every instance.

`PROJECT.json` lists components, runs, mutants, hazards, findings and theorems,
and maps each definition to the source lines it stands for.

## 1. The system

Everything runs in one Python process on one asyncio event loop. Tasks
interleave only at `await`; the hard behaviour comes from the queue between the
webhook and the router, from per-symbol locks, from a broker that executes and
cancels on its own time, and from a connection that comes and goes.

| Component | State | Operations | Talks to |
|---|---|---|---|
| Webhook (`server/webhook.py`) | rows of `signals`, rate-limit window, accepting flag | parse, gate, dedup, persist, push, enqueue; inject a close | queue, WebSocket feed, maintenance gate |
| Order router (`server/order_router.py`) | rows of `orders`, `positions`, `trade_history`; `_symbol_locks` | consume a signal: open, replace, flip, close; process a fill; place trailing stops | queue, IBKR client, feed |
| IBKR client (`server/ibkr.py`) | `connected`, pending trades | place market/trail, cancel, execution callbacks, reconnect loop, account guardrail, position reconciliation | TWS, fill callbacks of the router, database |
| Maintenance scheduler (`server/maintenance.py`) | current and next window, gate | wait for a window, close the gate, close or cancel everything, reopen | webhook flag, IBKR client, database |
| Signal parser, config (`server/signal_parser.py`, `config.py`) | none (pure) | parse JSON or text alerts; resolve contract, quantity, trail offset, interval | webhook, router |
| WebSocket feed (`server/websocket.py`) | connected clients | snapshot on connect, broadcast | router, webhook |
| REST API (`server/api.py`) | none | queries; admin close; clear database | database, webhook |
| Lifespan, database (`server/main.py`, `database.py`, `models.py`) | queue, schema | start, stop, migrate | all |
| Dashboard, nginx, compose, operator scripts | | presentation, deployment, stand-alone tools | |

### What is hard, and what correctness means, per component

* **Order router.** A replaced entry keeps executing until its cancellation is
  confirmed; a close signal and a trailing stop act on one position; executions
  arrive in parts, late, or combined with another order's; a broker call may
  fail in the middle of a handler; the connection drops between a placement and
  its fill. *Correct* means: no execution is lost or counted twice on a row; at
  most one unreplaced entry of a key can still fill; no filled entry gets more than
  one stop, nor one of another size, and none stays without; the row of a working
  order stays in flight until somebody tries to cancel it; the positions table ends
  up equal to the broker's; each signal is consumed, in order, and each report
  processed.
* **IBKR client.** Handlers are attached at each reconnection; the guardrail looks
  at the account after the socket is up; reconciliation reads the broker, awaits,
  then writes positions without the symbol lock; executions during a disconnection
  are never reported; several exceptions are caught and passed over. *Correct* means:
  each execution is heard once; the loop never rests on a session of another account
  and never gives up; where an exception was passed over, the damage is no more than
  what it explains.
* **Webhook.** Concurrent requests pass the gate and the duplicate query before
  either is persisted; persist, push and enqueue are separate awaits; a full
  queue is only logged. *Correct* means: of two identical alerts one is handled;
  an accepted signal reaches the queue once and the router in order.
* **Signal parser, config.** Aliases, formats and precedence rules are spread over
  three files. *Correct* means: an alert is dispatched as what it stands for, one
  alert has one key in either format, and an entry asks for at least one unit.
* **Maintenance.** The gate is read long before a signal is queued; the close
  sequence takes no symbol lock and sets an order's broker id after the
  placement returns; window arithmetic has boundaries. *Correct* means: nothing
  opens between gate and reopening, everything is closed that should be, and the
  next window is the right one; and signals are accepted again afterwards.
* **WebSocket feed.** A client is registered before its snapshot is sent; one a send
  to which failed stays registered until the sends to all the others have ended.
  *Correct* means: no change falls between snapshot and events, and at rest
  the status shown is the link's.

## 2. What is modelled

### `OrderBook`: order rows and the broker's orders

A *book* is a record of two sequences: `orders[i]`, the row of table `orders`
with id `i`, and `broker[j]`, the order IBKR knows under `ibkr_order_id` `j`.
`Submit`, `CancelRows`, `AfterFill` and `TakeReport` are the places where
`order_router.py` calls `place_market`/`place_trail`, `cancel_order`, and the
fill arithmetic; a handler that makes several calls is their composition.

| In the code | In the module |
|---|---|
| `Order` row | `OrderRows`: signal, key (symbol, direction, interval), role, qty, fillQty, status, ibkr, parent, replacedBy |
| a column that is `NULL` | `None` (0); a `NULL` interval is `"none"`, its position label is `"unknown"` |
| `place_*` returning an id or `None` | `Submit(book, row, ok)`: the row is written either way, `submitted` or `error` |
| `_find_inflight_entry`, `_find_active_trail_for_position` (`ORDER BY id DESC LIMIT 1`) | `Newest(InFlightEntries(..))`, `Newest(ActiveTrails(..))` |
| `cancel_order` + the row set to `cancelled` | `CancelRows`: the row changes at once, the broker is asked or the call fails |
| the cap on reported quantity and the status that follows | `CappedFill`, `AfterFill` |

The broker is external. Its order carries what has been executed, what part of
that is *pending* (in a fill task of the bridge) and what part is *lost*
(executed while no callback was wired). Cancelling is asked, then confirmed by a
separate step, and executions may come in between.

### `OrderRouter`: signals, handlers, fills, link

State: `signals` and `handled` (the queue is the unhandled suffix), the book,
`pos`/`posRows` (quantity and existence of `positions` rows), `trades` (number
of `trade_history` rows per key), `connected`, and the reconciliation's phase and
snapshot. Fixed settings (`MAX_POSITION_SIZE`, `MAX_OPEN_POSITIONS`,
`PARTIAL_FILL_REPLACEMENT_MODE`, `DISABLE_TRAIL`, `IGNORE_SHORT_SIGNALS`, the
daily loss limit) are constants.

| Action | Code |
|---|---|
| `AcceptSignal` | the end of `handle_webhook`: row persisted as accepted, signal queued |
| `RejectOffline` | `_process` when TWS is not connected |
| `CloseNothing`, `CloseSignal` | `_handle_close` with `_place_close_for_position` |
| `ReplaceEntry` | `_handle_open` when an entry of the key is in flight: `_replace_order`, with the exit of a partial fill in mode `replace` |
| `OpenSignal` | `_handle_open` otherwise: close the same side, cancel the opposite entry, close the opposite side, `_risk_checks`, `_place_entry` |
| `FillIgnored`, `FillRecordedOnly`, `EntryFilled`, `CloseFilled`, `FillLostToDuplicateRow` | `_process_fill` on a known row, by branch; `EntryFilled` includes `_place_trail_after_entry` |
| `OrphanFill` | `_process_fill` on an order with no row |
| `CutShort`: `SignalCut`, `StopCut` | a handler that ends between two of its commits: `_consume` and the fill task survive the exception, or the process ends |
| `Execute`, `ConfirmCancel`, `ExternalOrder` | IBKR (external) |
| `TwsDown`, `TwsUp`, `ServerRestart` | `_on_disconnected`, `_reconnect_loop`, a restart of the process |
| `ReconcileRead`, `ReconcileWrite` | `_reconcile_on_connect`, before and after its `await` |

**Why a handler is one action, or a part of it.** `_process` and `_process_fill` hold
the lock of the symbol from before their first read to after their last write, and two
symbols share no order, position or broker order. Handlers of one symbol are
therefore serialised; the broker and the connection are not, and run between any
two of them. Two reads go beyond the symbol: `MAX_OPEN_POSITIONS` counts
positions of all symbols, and the connection flag is tested when the signal is
taken. A handler during which the connection drops is one whose later calls
fail, which is what the `Failures` constant ranges over.

A handler has several transactions, and the lock does not make them one. With
`"commit"` in `Failures` a handler may stop at any of its awaits: before or after any
call to the broker, and before or after any commit (`Unrecorded` gives both books for
one step of a handler, `CloseCuts`, `ReplaceCuts` and `OpenCuts` the steps). What it
leaves is a cancellation no row shows, an order with no row, an old position closed and
no new one opened, or a filled entry with no stop (`StopCut`, `order_router.py:612` to
`:723`). Then the next handler runs, or `ServerRestart` follows, which is a restart in
the middle of a handler. In runs without `"commit"` a restart falls between handlers
only. An exception in a fill's first transaction, which loses the execution altogether,
is left out; the loss itself is finding 3.

**Assumptions about what is outside.** IBKR numbers orders uniquely for this
client. Executions made while the bridge is disconnected are never reported to
it: callbacks are wired after `connectAsync` returned and the code asks for no
past executions. `TwsUp` stands for connect, guardrail and wiring together. The
alert's ticker and IBKR's contract symbol are one name (where they differ is a
listed hazard). No execution is smaller than `MinLot` unless it completes the
order. A combined execution may overstate the quantity of the entry it fills by
at most `MaxOverstatement`.

**Abstracted.** Prices, P&L, commissions, timestamps, messages and log lines. The
sum behind the daily loss limit is a nondeterministic choice once a trade exists
(`LossMayBeHit`). The static refusals of `_risk_checks` (allowed symbols, live
trading) are left out; an error of the database is one of the things that cut a handler
short.

Operators commented *Seeded fault* are not used by the specification: they are
wrong variants of the operator below them, and each property is shown to fail
when the variant takes that operator's place.

### `Webhook`: concurrent requests up to the queue

A handler runs uninterrupted between awaits that suspend it, so a request is a
process with four steps.

| Action | Code |
|---|---|
| `Arrive`: `RateLimited`, `Refuse`, `StoreUnsupported`, `Alert` | `handle_webhook` down to the first suspension: token bucket, parse, secret, gate. The limiter's lock is never held across a suspension, and `_resolve_generic_action` suspends nowhere |
| `ManualClose` | `inject_close_signal`: no limit, gate or duplicate query |
| `Dedup` | the query of `_find_recent_duplicate` returns; its cutoff was computed at arrival; the short toggle follows |
| `Insert`, `InsertFails` | `_persist_signal` |
| `Answer` | `_push_signal` has returned, `put_nowait`, response |
| `Consume` | the router takes a signal and may reject it |
| `ToggleGate`, `ServerRestart`, `Tick` | maintenance gate, restart, clock |

An alert is its dedup key `(symbol, raw_action, strategy, interval)`: a model value
in the runs about overlap, a record computed by `Alerts` in `webhook_delivery`.
Keys are sorted into routed, short, kernel and manual ones because the handler
treats those differently. A tick is `1/rps` seconds. Two parts of the
state are observations the code does not make: `visible` (how many rows the
duplicate query could see) and `lost` (accepted rows whose request or queue entry
ended with the process). Clearing the database, which deletes rows of `signals`,
is not modelled.

`OrderRouter` takes up where this module ends: its `signals` are the accepted rows
in queue order, and its `AcceptSignal` is `Answer` on an accepted row.

### `SignalQueue`: what lies between the two

The abstract specification of the path from an accepted alert to the router:
signals are accepted, queued at most once, taken in queue order, and lost only to
a full queue or to the end of the process. `Webhook!SignalsQueuedOnce` is
`Delivery!Spec` under the mapping `accepted` = routed rows, `answering` =
accepted rows whose request has not put them in the queue yet; it is checked, with up
to three signals in any order of their answers, and proved.
`OrderRouter!SignalsTakenInOrder` is `Delivery!Spec` with `queue` = the unhandled suffix
of `signals`. In `OrderRouter` a queue could hardly be anything else, so the refinement
is proved and not checked; what the runs check of the order is its effect on the orders,
`OrdersFollowSignals`.

### `Alerts`: what an alert means

Pure operators for `signal_parser.py`, `normalize_interval`, `resolve_qty` and
the router's dispatch: `Parse` (`ParseJson`, `ParseText`), `Resolved`,
`DedupKey`, `ResolvedQty`, `OrderedQty`, `Handler`. A body is a record of what the
parser can tell of it: the fields of its JSON object, or the phrases, price,
brackets and segments of its text. `MCWebhook` turns a set of bodies into the keys
of `Webhook` and states properties of the rows the webhook stores. Trail offsets,
contract specifications and the validation of settings are left out.

### `Scheduler`: windows and the loop that sleeps by them

| Action or operator | Code |
|---|---|
| `Occurrence`, `Days`, `Candidates` | `_next_daily_window`, `_next_weekly_window` |
| `NextWindow`, `ComputeNextWindow` | `_compute_next_window` |
| `EnterPreClose`, `EnterMaintenance`, `ExitMaintenance` | the methods of those names after `_sleep_until` |
| `CloseSequenceEnds`, `CloseSequenceRaises` | `_run_close_sequence`, here only as time that passes |
| `Stop`, `ServerRestart` | `stop`, a new process |
| `Tick` | the clock; it waits for a wake-up that is due, since a tick is long compared with the 30 s the loop sleeps |

Time is local time of a week that wraps around. Changes of daylight saving time
are left out. `awaited` is an observation: the definitions whose last pre-close
moment the loop was asleep for.

### `Maintenance`: the close sequence (extends `OrderRouter`)

The sequence is a task that takes no symbol lock, so each of its awaits is a step
between which every action of `OrderRouter` may happen.

| Action | Code |
|---|---|
| `EnterPreClose`, `EnterMaintenance`, `ExitMaintenance` | the gate; here the sequence may begin at any time |
| `PassGate`, `QueuePassed` | `handle_webhook` up to the gate, and from the insert to `put_nowait` |
| `ReadTrails`, `ReadPositions`, `ReadEntries` | the three queries |
| `CancelOrder`, `CancelCommit` | `_cancel_order`: broker asked and row read, then status overwritten |
| `PlaceExit`, `RecordExitId`, `StopWaiting` | `_close_position`: row and placement, id recorded, flat or timed out |
| `Verify` | the last query; `maintenance_close_failed` or `maintenance_close_complete` |
| `RestartAll` | a restart also forgets the sequence, the gate and requests in progress |

### `IbkrConnection` and `WsFeed`: the link and who is told of it

`IbkrConnection` is `_reconnect_loop` with guardrail, wiring and announcements;
`WsFeed` extends it with the feed, because each announcement is a broadcast the
loop waits for.

| Action | Code |
|---|---|
| `WakeUp`, `SocketUp`, `ConnectFails` | an attempt; the socket is up, and `connected` true, before `connectAsync` returns |
| `Verified`, `Wire` | the account is the expected one; `_wire_events` removes each handler once and attaches it, and either may raise, which the code passes over |
| `Mismatch`, `MismatchKept` | another account: `disconnect()` ends the session, or raises and the session stays up |
| `GuardrailRaises` | the accounts cannot be read; like the two above it suspends nowhere before the announcement |
| `Announced`, `Reconciled` | `on_status` and `_reconcile_on_connect` return |
| `LinkLost`, `RunTask` | `_on_disconnected` and the task it creates |
| `Commit`, `BroadcastChange` | a commit of router or webhook, and the broadcast that follows it |
| `CommitSilently` | a commit no broadcast follows: `order_router.py:249`, `258`, `275`, `314`, `ibkr.py:443` |
| `Register`, `ReadTables`, `SendSnapshot` | `ws_feed`, `_build_snapshot` |
| `Sent`, `Fails` | a send ends; or it raises or times out, and the client *lags*: it stays registered, and may get what is sent next |
| `Prune` | the `broadcast` that failed drops the client once its last send has ended; the close of its socket may fail |
| `End` | `ws_feed` ends: the client left, its socket was closed, or the snapshot raised |

A message is the set of changes it tells of and the status it shows. `Prune` may come
at any time after the failed send, whichever broadcast that belonged to, and need not
come at all; the code waits for the other sends of that broadcast. Heartbeats and
authentication are left out.

## 3. The runs

| Run | Expect | Question |
|---|---|---|
| `router_partial` | pass | Two signals with and without an interval, executions in parts and overstated, any single broker call of a handler failing, any handler cut short between its commits, one connection loss or restart, one signal waiting behind another, an order nobody at the bridge placed beside a single signal: `TypeOK`, `FillsConserved`, `OnlyNewestEntryIsLive`, `TrailsMatchEntries`, `OrdersFollowSignals`, `OrderLifecycle` |
| `maintenance_quiet` | pass | Three signals, two intervals and two windows where only the close sequence races with fills, and exits may be refused: `PositionsInSync`, `AlertOrFlat`, `WindowIsFlat` |
| `maintenance_faults` | pass | The close sequence against a signal, handlers cut short, an order with no row, a connection loss and a restart, under fairness: `MTypeOK`, `WorkingOrdersTracked`, `SignalsConsumed`, `FillsProcessed`, `SignalsResume` |
| `webhook_burst` | pass | Three overlapping requests, answered in any order, at the edges of the window and of the bucket, a queue of two and a restart: `RateBounded`, `OnlyOverlappingDuplicates`, `DuplicatesNamePrimaries`, and the refinement `SignalsQueuedOnce` |
| `webhook_delivery` | pass | Bodies of both formats and manual closes, a queue of one, the gate closing and opening, a restart, under fairness: `TypeOK`, `AcceptedAccountedFor`, `SignalsDelivered`, and what the stored rows mean: `RoutedAsMeant`, `TimeframesKept`, `FormatsAgree`, `EntriesAskForSomething` |
| `scheduler_week` | pass | The three default windows over the whole week, from any starting time: `TypeOK`, `WindowsKept`, `RefusesOnlyForWindows`, `SignalsResume` |
| `dashboard` | pass | The reconnect loop, with sessions lost, refused, of another account or impossible to end and handlers that cannot be removed or attached; and a dashboard that comes, goes and fails to be sent to: `TypeOK`, `ExecutionsHeardOnce`, `RestsOnExpectedAccount`, `NoChangeMissed`, `LinkShown`, `KeepsTrying` |
| `router_sync_partial` | violation | The quiet market with executions in parts: `PositionsInSync` |
| `router_trade_once` | violation | A close racing a trailing stop: `OneTradePerEntry` |
| `router_no_stop` | violation | A fill handler cut short, then reconnection and reconciliation: `StopsRestored` |
| `router_no_interval` | violation | Alerts without an interval: `EveryFillRecorded` |
| `maintenance_late` | violation | An alert that passed the gate just before it closed: `WindowIsFlat` |

What some of these say, and what they do not:

* **`WindowsKept`** does not say that every window is kept. The loop looks for the
  next window only when the last one has ended, so a window whose pre-close
  moment falls inside another is missed: with the three default windows enabled,
  the 17:00 window of Sunday, whose pre-close moment is inside the weekend window
  that ends at 17:00 (`maintenance.py:4` says the windows repeat every day). The
  property states exactly which windows may be missed.
* **`RefusesOnlyForWindows`** and **`SignalsResume`** of `Scheduler` except a crashed
  or stopped loop, which leaves the gate as it is. A restart opens the gate, also
  inside a window.
* **`RefusesOnlyForWindows`** is about windows that do not begin and end on one weekday
  with the end later in the day; see the hypothesis in section 5.
* **`WindowIsFlat`** holds where alerts are quiet before a window, and fails for one
  alert at the wrong moment (finding 4).
* **`AlertOrFlat`** allows an alert to be raised for a position that has been closed
  meanwhile, never the opposite.
* **`TrailsMatchEntries`** says that no position is stopped twice or for too much. That
  it is stopped at all it does not say: a handler may be cut short before the stop
  (finding 5), and a stop that could not be placed leaves a row in error, which the code
  announces and never retries.
* **`OrdersFollowSignals`** compares the rows of entries and exits with the signals they
  were placed for: their order is that of the signals, and no signal enters twice, also
  across a restart. That none is left out is `SignalsConsumed`. Stops carry the signal of
  an entry that may fill at any time, and are left out.
* **`OnlyOverlappingDuplicates`** says which duplicates are accepted: those that looked
  before the first was written. `AlgoTrader_Bridge_PRD.md:679` and `:1114` promise that
  every duplicate and every retry within the window is caught; the query and the insert
  are two awaits (`webhook.py:211`, `235`).
* **`WorkingOrdersTracked`** is about orders that have a row and that nobody tried to
  cancel. A row is set to `cancelled` also when the cancellation failed, and the order
  of a handler that died before its commit has no row.
* **`NoChangeMissed`** is about knowledge: every change whose broadcast has begun is in
  the snapshot or in an event of a client no send to which has failed. An older snapshot
  that arrives after a newer event overwrites what the page shows, since messages carry
  no version; and a client that missed an event stays connected, and gets later ones,
  until it is pruned. Changes committed silently reach a client with its next snapshot.
* **`LinkShown`** and **`RestsOnExpectedAccount`** except what the passed-over exceptions
  cause: a session that the guardrail announced as ended and could not end, or whose
  accounts it could not read, and (for the first) a session nobody was told the end of
  because attaching `_on_disconnected` raised.
* **`ExecutionsHeardOnce`** says how often an execution is handled at most: once, and
  once more for each removal of the handler that ever raised; and that a session whose
  wiring did not raise is listened to. Executions made while the link was down are
  brought up to date by the library without an event.

### Bounds, and why they are enough

* `Symbols = {spy}`: two symbols share nothing but the count of open positions,
  and `maintenance_quiet` reaches that limit with two intervals of one symbol.
* `MaxSignals` is 3 where order matters over a whole cycle (open, flip, close;
  open, re-entry, close), and 2 where executions are split: two signals already
  give replacement, re-entry and close of an entry in every stage of filling.
  `maintenance_faults` has one: the races are with the sequence. Short entries are
  ignored in `router_partial`, so that it has no flips; `maintenance_quiet` has them with
  whole executions, and the proofs with executions in parts.
* `Qtys = {2}` with `MinLot = 1` is the smallest quantity with a proper part.
  `maintenance_quiet` has 1 and 3 around `MaxPositionSize = 2`, so the size check
  both passes and refuses.
* `MaxOpenPositions = 1` in `maintenance_quiet`: with two open positions the
  exit of one, filling before its row has its broker id, is taken for an orphan
  and may be subtracted from the other, and `PositionsInSync` fails. That hazard
  is listed at `maintenance.py:396`; no document speaks of it.
* `MaxWindows = 2` there, so that a window can begin with what the last one left;
  1 elsewhere.
* `MaxDrops = 1`: one loss or restart, then reconnection and reconciliation. Where
  handlers are cut short (`router_partial`, `router_no_stop`, `maintenance_faults`) it
  may come in the middle of one, elsewhere between two.
* `MaxExternal = 1` of quantity 3 in `maintenance_faults` and `router_partial`: an orphan
  larger than any position. In `router_partial` the state constraint `ExternalAlone` keeps
  such an order out of behaviours with two signals, or with a loss; there the orders with
  no row are those that handlers cut short leave, whose fills are orphans beside
  replacements and re-entries. The bound counts those orders too. Elsewhere it is 0. The
  second constraint of that run, `LossWithIntervals`, keeps alerts without an interval and
  losses or restarts apart. The proofs have no such bounds.
* `MaxOverstatement = 1`. `MaxQueued` is 1 where no property is about the queue: a queue
  no longer than one only removes delays the scheduler may add anyway. It is 2 in
  `router_partial` and `maintenance_faults`.
* `webhook_burst` has 3 requests because a duplicate of a duplicate needs three,
  a window of one tick and a clock of two (inside, on and outside the window), and
  a bucket of two. Its queue holds two signals: they wait there in either order of their
  rows, and the third may find the queue full. `webhook_delivery` has two requests, one
  queue slot (so the second may find it full), two switches of the gate and one restart.
  Its bodies are five alerts of one chart, among them two of one meaning in different
  formats.
* `scheduler_week` has a day of ten ticks, enough to keep all the default times and
  their pre-close moments apart or adjacent as they are; the week is a cycle, so no bound on time is needed.
* `dashboard` has one client and one change, which a snapshot shows or does not show,
  silent or broadcast, two accounts, and one removal of a handler that raises
  (`MaxRaised = 1`); attachments raise as often as they like. Clients meet in two places
  only: an announcement waits for the sends to all of them, and one that failed stays in
  the set until the sends to the others have ended. With one client the model has both:
  the announcement waits for its sends, and it may lag for as long as it stays, because
  nothing makes `Prune` happen. Two clients and a change are beyond thirty million
  states; the proofs are for any number of clients, changes and failures.

Deadlock is checked for `Scheduler` and `WsFeed`, whose behaviours never end. It is not
checked elsewhere: when every alert of the bound has been accepted and everything has
filled, the model has nothing left to do. The program would wait for the next alert.

### Fairness

`Maintenance!FairMSpec` assumes weak fairness of `HandleSignal` and of `HandleFill`: the
consumer is one task and each fill is a task of its own, the event loop schedules
both, the consumer's loop catches every exception of a handler, and every broker call
they await is bounded by a timeout, so the symbol lock is always released. It assumes the
same of the close sequence, each of whose waits has a timeout
(`CLOSE_FILL_TIMEOUT_SECONDS`), and of a request in progress. Nothing is assumed of the
broker, the connection, or the arrival of alerts: `SignalsConsumed` and `FillsProcessed`
hold offline too.

`Webhook!FairSpec` assumes weak fairness of each request's handler and of the
consumer: database calls return or raise, and a push ends because each send to a
WebSocket client has a timeout. Nothing is assumed of the gate: `SignalsDelivered`
holds when it closes for ever.

`Scheduler!Spec` assumes that time passes, that a due wake-up happens and that the
close sequence ends; a crash or a stop may come instead. `WsFeed!Spec` assumes that the
reconnect loop and its tasks run on, and that a send ends or fails
(`SEND_TIMEOUT_SECONDS`); it assumes neither that a change is broadcast, nor that a failed
client is pruned, nor that TWS ever answers, nor that a session lasts.

### `QuietSpec`

`PositionsInSync` is false in general (positions are not reference-counted
against late fills), so it is stated where it is meant to hold: a signal is
handled only once everything before it has settled, and an order the bridge
asked to cancel does not execute any more. In that market a stop may still be
hit at any moment before the next signal, though not during the close sequence.
With whole executions the positions table then always returns to the broker's
holdings; with split executions it does not, because of the first finding below.
`MCMaintenance!QuietSpec` adds the close sequence, whose own orders may fill at
any moment, also before their rows know their broker id.

## 4. Findings

1. **`router_sync_partial`**: `_apply_close_to_position` is given the row's
   *cumulative* `fill_qty` at each execution (`order_router.py:622`), so a close
   of 2 filled as 1 + 1 subtracts 1 and then 2. A flat position hides it; after a
   re-entry whose exit fills in parts the database holds less than the broker.
   The module's docstring says the router keeps the positions table in sync.
2. **`router_trade_once`**: a close signal and a trailing stop both fill.
   `AlgoTrader_Bridge_PRD.md:1139` says the second "sees qty=0 and takes no
   position action"; the code subtracts nothing, finds the position flat, and
   writes a second trade.
3. **`router_no_interval`**: an alert without an interval stores a `NULL`
   interval on the order and `"unknown"` on the position. The fill handler looks
   a position up only when the order has an interval, so the second entry inserts
   a duplicate row, the unique constraint raises, and the fill is rolled back:
   the executed entry has no recorded fill, which `order_router.py:9` rules out.

4. **`maintenance_late`**: the gate is tested when a request arrives
   (`webhook.py:185`), the signal is queued some awaits later, and the consumer
   does not look at the gate. An alert that passed just before the gate closed may
   be placed after the close sequence reported complete, minutes before the window:
   the window begins with a working entry and no alert, which
   `AlgoTrader_Bridge_PRD.md:480` rules out.

5. **`router_no_stop`**: the fill handler commits the filled entry and its position
   (`order_router.py:612`) and then broadcasts, places the trailing stop and commits its
   row (`:723`). A restart or an exception in between leaves the position without a stop.
   `AlgoTrader_Bridge_PRD.md:702` and `:1110` say that on reconnection the stops of
   filled entries without one are placed again; `_reconcile_on_connect` reads and writes
   positions only.

## 5. The proofs

Eight modules hold proofs. Each theorem is about every value of the constants that
the named assumptions of its module admit, and of the hypotheses it states.

| Module | Theorems, and the property each proves of the specification |
|---|---|
| `OrderRouterProofs` | `TypeCorrect` (`TypeOK`), `FillsAreConserved` (`FillsConserved`), `WorkingOrdersAreTracked` (`WorkingOrdersTracked`), `TakesSignalsInOrder` (`SignalsTakenInOrder`) |
| `OrderRowsProofs` | `RowsKeepTheirLives` (`OrderLifecycle`), `NewestEntryIsLive` (`OnlyNewestEntryIsLive`), `TrailsFollowEntries` (`TrailsMatchEntries`), `OrdersFollow` (`OrdersFollowSignals`) |
| `MaintenanceProofs` | `MaintenanceTypeCorrect` (`MTypeOK`), `OrdersStayTracked` (`WorkingOrdersTracked` under the close sequence), `NoFillIsInvented`, `QueueSurvivesMaintenance` (`SignalsTakenInOrder` under the close sequence) |
| `QuietProofs` | `QuietWindowIsFlat` (`WindowIsFlat`), `QuietPositionsInSync` (`PositionsInSync`), `QuietAlertOrFlat` (`AlertOrFlat`), all of `QuietSpec` |
| `WebhookProofs` | `WebhookTypeCorrect` (`TypeOK`), `EverySignalAccounted` (`AcceptedAccountedFor`), `DuplicatesName` (`DuplicatesNamePrimaries`), `DuplicatesOverlap` (`OnlyOverlappingDuplicates`), `RateIsBounded` (`RateBounded`), `QueuesSignalsOnce` (`SignalsQueuedOnce`) |
| `AlertsProofs` | `TablesAgree`, `AlertsAreRouted` (`RoutedAsMeant`), `EveryAlertAsksForSomething`, `EntriesAskForUnits` (`EntriesAskForSomething`), `FormatsNameOneAlert`, `LabelsKeepTimeframes`, `TimeframesAreKept` (`TimeframesKept`), `FormatsAgreeOnAlerts` (`FormatsAgree`) |
| `SchedulerProofs` | `SchedulerTypeCorrect` (`TypeOK`), `RefusalsAreForWindows` (`RefusesOnlyForWindows`), `AwaitedWindowsAreKept` (`WindowsKept`) |
| `WsFeedProofs` | `FeedTypeCorrect` (`TypeOK`), `HeardOnce` (`ExecutionsHeardOnce`), `RestsOnlyOnExpected` (`RestsOnExpectedAccount`), `NoGapAfterSnapshot` (`NoChangeMissed`), `StatusIsShown` (`LinkShown`) |

**Hypotheses.** What a theorem assumes beyond the assumptions on the constants is in
its statement:

* `AwaitedWindowsAreKept`: `Before <= DayTicks`. `_compute_next_window` looks at a
  daily window today and on the next two days (at a weekly one eight days ahead); when
  the pre-close moment is more than a day before the window it may overlook one, or
  find none and raise. `config.py` sets no limit.
* `RefusalsAreForWindows`: a weekly window whose two weekdays are the same does not
  end later in the day than it begins. The code ends such a window on that weekday of
  the next week (`% 7 or 7`, `maintenance.py:94`), so that signals would be refused a
  week longer than the settings describe. Nothing refuses such a setting; none of the
  default windows is like that.
* `EveryAlertAsksForSomething`, `EntriesAskForUnits`: no configured quantity is
  negative (`QuantitiesNotNegative`). `resolve_qty` does not check it.
* `AlertsAreRouted`: the webhook's keys are those a set of bodies parses to
  (`KeysParsedFrom`), whichever set that is, and the dashboard injects closes only.
* `TimeframesAreKept`: the charts of the alerts are hourly, which is how the property
  is stated.
* `FormatsAgreeOnAlerts`: the keys of the alerts are those of the hourly MBT chart under
  the default strategy (`HourlyMbtKeys`), which is the chart the property speaks of.
* `QuietWindowIsFlat`: alerts carry an interval (`NoInterval \notin Intervals`); without
  one an executed entry may be rolled back (finding 3) and stay in flight for ever.
* `QuietPositionsInSync`, `QuietAlertOrFlat`: alerts carry an interval, there are finitely
  many symbols and intervals (the properties add up over them), and
  * orders execute at once (`[]Whole`, about the behaviour): with executions in parts the
    database loses count (finding 1, run `router_sync_partial`);
  * no call that cancels a trailing stop of a key that is being closed, and no exit of
    the opposite position, fails (`ClosesTaken`). A stop that was not cancelled
    may execute beside the exit that replaced it; a flip whose exit was refused leaves
    both directions open, and a later fill is subtracted from the wrong one (see the
    hazards). Entries, exits of the key itself and the stops that follow an entry may be
    refused;
  * a symbol has at most one position at a time (`OnePerSymbol`: `MaxOpenPositions` is at
    most 1, or all alerts have one interval). Executions carry no interval, so a second
    position of the symbol could be charged with the first one's fills.

  The instance of `maintenance_quiet` satisfies all of them: checked as one more invariant
  of that run, the three hold in each of its 959,206 states.
* `Webhook`'s `KeysAssumption`: a manual key is never one of a short alert that is
  ignored (`inject_close_signal` builds only `close_` actions, `webhook.py:318`).

### The router

None of its safety properties is inductive: that a row has recorded all the broker
executed says nothing about a second row with the same broker id, or about an
order nobody has a row for. The invariant is

    IInv == TypeOK /\ (open signals have a quantity) /\ BookInv(Book)

    BookInv(b) ==  b \in Books
               /\  every broker id on a row is one the broker knows, and no two
                   rows share one                                      (IdsSound)
               /\  no row records more than its quantity; its status
                   agrees with what it records                         (RowSound)
               /\  no order executes more than its quantity, reports no
                   more than it executed, and stops when complete    (OrderSound)
               /\  each row the bridge placed accounts for its broker
                   order: recorded + pending + lost = executed, at most
                   for rows without an interval, and an order that
                   works and is not being cancelled is in flight   (RowsAccounted)

The argument has two layers. First, one lemma per kind of change of a book says that it preserves `BookInv`: a submission (`SubmitInv`), a
cancellation (`CancelInv`), a fill (`FillInv`), a made-up row for an orphan
(`MadeUpRowInv`), a report dropped with its transaction (`DropReportInv`), a step
of the broker (`OrderUpdateInv`). Then one lemma per action
composes them in the order in which the handler makes its calls, and adds type
correctness of what the book does not hold. `NextInv` collects them by cases of
`Next`; the theorems follow with `PTL`.

`OrderRowsProofs` adds `RowsInv(Book)` to it. `EntriesReplaced`: an entry that was
cancelled has been replaced, and so has one in flight while a newer one of its key
exists; the first half is what keeps a late fill from bringing an unreplaced entry
back. `TrailsFollow`: a stop with a parent belongs to a filled entry, has its key and
quantity, and no two stops belong to one; that a filled entry is never filled again,
which `RowSound` gives, is what makes it inductive. A handler's calls before its entry
are summarised by `Arranged`: rows in flight may be cancelled, entries by a signal,
and exits are added for it. `OrdersFollow` needs one more fact, that no entry or exit is
of a signal behind the last one taken (`SignalsFollow`): what a handler adds is for the
next signal, with one entry at most, after the exits (`PlacedFor`, `RowsAdded`), and
nothing ever puts a signal back (`HandledGrows`).

A handler cut short has done some of its steps. Each of its books is either one the
lemmas above have reached already or that with the broker of the next one
(`Unrecorded`), so two facts suffice: the invariants hold at each step of a handler, and
they hold of rows that have not heard of the broker's latest order or cancellation.
`SignalCutInv`, `StopCutInv` and their counterparts in the other modules say so.

`TakesSignalsInOrder` is a refinement: `AcceptQueues`, `DequeueTakes` and
`RestartCrashes` show that accepting, handling and restarting map to
`AcceptAndQueue`, `Take` and `Crash` of `SignalQueue`, and every other step
stutters; `TypeOK` gives what `Waiting`, the suffix of the signals, needs.

### The close sequence

Under `Maintenance!MSpec` the same tables are changed without the lock, and `BookInv`
does not hold: an exit's row has no broker id until the placement has returned, a row
made up for its order may have the id meanwhile, so that two rows name one order, and
a late commit overwrites the status of a row that was filled. `FillsConserved` fails
there. What is left is

    RouterInv == TypeOK /\ (open signals have a quantity) /\ Linked(Book)

`Linked`: each row the bridge placed has recorded no more than its order executed
and delivered, and is in flight while the order is left alone, that is, works and
nobody tried to cancel it. The sequence's part, `CycleInv`, says that the order of the
row about to be overwritten is not left alone, because the broker was asked first, and
that an exit without an id is still the fresh row of the order it was placed as.

These facts must survive whatever the router does between two steps of the sequence.
Instead of proving that action by action, each of the router's actions is shown once to
lead to a book that *follows* the old one (`Follows`: rows keep their order, an exit
without an id is left alone, no order comes back to being left alone), a relation that
is transitive, and `CycleKept` shows that `CycleInv` survives any such step. `MInv` was
model-checked on the instance of `maintenance_faults`, and on a larger one for five
million states, before it was proved. `NoFillIsInvented` says what remains of
`FillsConserved`: a row records at most what was executed. `QueueSurvivesMaintenance`
repeats the refinement of `SignalQueue`: no step of the sequence touches the queue.

### The quiet market

`QuietWindowIsFlat` is about `QuietSpec`: signals are handled one at a time, and the
gate closes when everything has settled; executions come in parts, reports wait, orders
are refused and cancellations fail. That the sequence found the database flat when it
verified is not enough for the rest of the window: an entry still in flight could fill
after that. The invariant on top of `MInv` is

    QuietInv == EntriesFollowed(Book, ExitIds) /\ QuietCycle

`EntriesFollowed`: each entry was refused, or is the only row of its order, was not
cancelled and lost nothing, and is in flight exactly as long as it has not recorded all
of its quantity. So an entry whose order is complete and whose reports were all
handled is filled, and when everything has settled none is in flight
(`SettledEntries`). The ids of exits whose rows have none yet (`ExitIds`) are kept apart
from the entries', or recording one late would give an entry's order a second row.
`QuietCycle`: outside normal trading the gate is closed, nothing is queued and no entry
is in flight, so no step can open a position (`ClosedFills`); the sequence finds no
entry to cancel and overwrites the status of trailing stops only; and once it reported
complete no position is open. Most steps touch no entry at all, which is shown once
(`EntriesLeft`, `LeftEntriesKept`). `QuietInv` was checked on the instance of
`maintenance_quiet` with executions in parts and any one call failing, for four million
states, before it was proved.

`QuietPositionsInSync` and `QuietAlertOrFlat` compare three sums: what the broker holds,
what the orders were told of, and the positions. Equality of sums is far from inductive:
a step keeps it only if each report reaches the row it is for, and finds enough there to
subtract. The invariant on top of `MInv` and `QuietInv` is

    SyncInv == Ledger(WithExits, pos) /\ TrailsWork(WithExits, stale)
               /\ (open positions have a row) /\ ExitSound /\ ClosingSound

* `Ledger`: every broker order has exactly one owner among the rows, of its side, symbol
  and quantity (`Owners`), and rows made up for orphan fills own none; the orders that may
  still fill never claim more than the position of their key has, and no two of them
  compete for it (`Claims`); a symbol keeps at most one position once what is in flight
  has filled (`OneStays`); and what was told is what is held (`Balanced`).
* `WithExits`: an exit of the close sequence counts from the moment it is placed, though
  its row gets the broker id in a later transaction. Its fill may come before that and is
  then taken as an orphan; that is still right, because it closes the whole of the only
  position of its symbol (`OrphanFillSync`).
* `TrailsWork`: a trailing stop in flight in the database may still fill at the broker,
  except the row whose status the sequence is about to overwrite.
* `ClosingSound` says, stage by stage, what may still fill: entries in normal trading
  only, trailing stops until they have been cancelled, and exits after that; the
  quantities the sequence has read are still the positions' when it places its exits.

There is one lemma for each kind of step (`SignalSync`, `FillSync`, `ExecuteSync`,
`PlaceExitSync`, ...). The properties use `MapThenSumSet`, which is defined by recursion
over sets, and no induction theorem can be applied to it here. `SumExists` therefore
argues by a least counterexample: were there a size of subsets up to which the equation
of the sum has no solution, then a least one (`LeastNat`, from the well-foundedness of
`<`), and the solution below it can be extended. `SumAgrees` and `SumInt` do the same
with a smallest set, and from them follow the few laws the ledger needs: an element
added, an element changed, all zero.

### The webhook and the alerts

Each request is described by what it is about to write (`JobInv`, `RequestInv`) and
each row by the one request that wrote it (`RowsInv`). `QueryInv` remembers what the
duplicate query of an accepted alert saw: every recent row of the key that was visible
was not accepted, and stays so. That is the whole argument of
`OnlyOverlappingDuplicates`. `RateInv` is the token bucket's: the requests admitted
since any moment, together with what is left in the bucket, stay within the burst and
the time since. `QueuesSignalsOnce` proves that every step of the webhook is a step of
`SignalQueue` or a stutter.

`AlertsProofs` adds `DispatchInv`: what the duplicate query lets pass is a key some
handler serves. `TablesAgree` compares the parser's table with the router's for every
action; the recursion-free `Parse` is expanded over its ten phrases. `FormatsAgree` is a
property of the keys of a run, proved for those of one chart (`FormatsAgreeOnAlerts`);
`FormatsNameOneAlert` is the statement about the operators behind it, for every symbol
and timeframe.

### The scheduler

Windows repeat each day or week, so the proofs turn days and times of day into
remainders: `Since` is how many ticks ago a definition's last pre-close moment was.
`ServiceInv` ties the gate to the phase and says that a loop that waits or serves does it
for an enabled window. `KeptInv` says that a sleeping loop sleeps to the soonest
pre-close moment of all, and that a window awaited and not ended is being served.

### The link and the feed

`LoopInv` says where loop and socket can be together: the loop connects only once the
tasks of the last session have run, so that what they say is never said after the next
session was announced. `ExecutionsHeardOnce` is inductive because each
wiring removes each handler once before it attaches it once: their number grows only
where the removal raised. `StatusInv`: a client shows the
status of the link or will be told it by what is being sent to it or by a task that
waits, or lags. `ChangeInv`: from the moment a snapshot has been read, no change is
outside of its tables, the events the client gets, the broadcasts that have not begun and
the changes nobody broadcasts, unless the client lags; it may lag for as long as it is
registered, which is why both are about `registered` and `lagging` together.

### Only model-checked

* Liveness under fairness (`SignalsConsumed`, `FillsProcessed`, `SignalsDelivered`,
  `SignalsResume`, `KeepsTrying`) is outside the provers' reach, as is `ENABLED`. The
  induction theorems of the library cannot be applied either; where a sum over a set had
  to be reasoned about, a least counterexample stands for them.
* `PositionsInSync` and `AlertOrFlat` are proved for the quiet market under the conditions
  above; outside of it they fail, for the reasons of findings 1 and 4.

## 6. Where it stands and what is left

Done: the router with its book, the webhook with the meaning of alerts, the maintenance
windows, the close sequence on top of the router, the connection with the dashboard
feed, and the queue as an abstract specification with a refinement on either side. Each
safety property of a passing run is proved, `PositionsInSync` and `AlertOrFlat` for the
quiet market they are stated for.

Left: a ledger of executed entries against exits for the modes `add` and `replace`, as a
substitute for `PositionsInSync` outside the quiet market; and the number of positions
the limit counts while entries are in flight.

**Not modelled.** HTTP and TLS wiring, nginx, the dashboard, migrations, account
snapshots, the REST queries and the analytics built on them (they read and
format); the stand-alone operator scripts, which are clients of TWS of their own;
clearing the database, of which only the effect on later fills is modelled
(`ExternalOrder`); contract specifications, trail offsets and the loading and
validation of settings; daylight saving time; authentication and heartbeats of
the feed; reconciliation against concurrent fills as a property, because
`PositionsInSync` does not survive the executions a disconnection loses.
