# FaCaiBot: specification of the bot

FaCaiBot is a market maker for Polymarket's short binary BTC markets. It rests one
post-only maker order per side (YES, NO), collects fills, hedges an imbalance with a
taker order, and moves to the next market when the current one ends. This directory
holds a TLA+ specification of four parts of it: the trading core, the ingestor thread that
feeds it, the market data it quotes on, and the control plane that stops, restarts and
reconfigures it; with the TLC configurations that check them on small instances, and TLAPS
proofs of the results that hold for every instance.

## 1. Inventory

Paths are relative to the repository.

| Part | State it keeps | Operations | Talks to |
|---|---|---|---|
| Strategy engine (`src/engine/strategy.rs`, `position.rs`; loop in `src/main.rs`) | phase, market, books, position, pending commands, pause / drain / heartbeat flags, `pending_rebalance` | `on_event`, `on_feedback`, `quote_tick`, `set_paused`, `set_draining` | commands to the executor, feedback from it, events from every feed |
| Quoter (`src/engine/quoter.rs`) | per side: the resting order, `pending_post`, `pending_cancel`, the last cleared order | `evaluate_side`, `on_order_posted`, `on_order_failed`, `on_cancel_result`, `on_fill`, `record_ws_fill`, `cancel_*_action` | called by the engine only |
| Live executor (`src/executor/live.rs`) | whether the SDK caches are warm | post, cancel + status query, taker FOK, rotation (`cancel_all`, prewarm) | the CLOB by REST; feedback to the engine with `try_send` |
| Exchange (external) | all orders | accept, match, cancel | user WebSocket |
| User WebSocket (`gateway/polymarket/user_ws.rs`) | none | forwards cumulative fills as events, drops them when the channel is full | engine |
| Rotation manager (`gateway/polymarket/rotation.rs`) | current, prewarmed and last announced market, two timers | expiry, prewarm, retry | engine, market WebSocket |
| Market WebSocket (`market_ws.rs`) | the tokens of its session, back-off | follow the rotations, parse, reconnect | engine |
| Binance feeds (`gateway/binance/ws.rs`, `futures_ws.rs`) | connection | parse, drop what is too old, reconnect | engine |
| Heartbeat (`heartbeat.rs`) | heartbeat id, failure count | authenticate, post every few seconds, recover an id | CLOB, engine |
| Fair value (`engine/fair_value.rs`), trackers and guard (`engine/buildup/`) | strike and its warm-up, volatility rings, signals, estimate | one update per kind of event, `recompute`, `reset` | called by the engine |
| Telegram control (`control/listener.rs`, `handlers.rs`) | last update id, last command time | `/stop`, `/resume`, `/set`, `/shutdown`, `/redeem`; the drain watcher ends the process | Telegram, engine |
| Config editor (`control/config_editor.rs`), service manager (`deploy/facaibot.service`) | `config.toml` | `/set` rewrites it, a start reads it | listener, process |
| Wallet (`control/wallet.rs`) | `redeems.txt`, `redeems.txt.tmp` | automatic redeem, `/redeem`, `/redeem <id>` | the chain |
| Reporting, storage, TLS, signing | files, sockets | send, write | I/O |

**How the core interacts.** The engine is one OS thread, the executor one task. Two
bounded FIFOs join them: commands (blocking send) and feedback (`try_send`, so a full
channel drops a report). An iteration of the engine receives one event, drains all
feedback, handles the event, sends what is pending, runs `quote_tick` and sends its
commands. The engine never learns the state of the exchange directly: only from the
executor's answers and from the WebSocket, which runs at its own pace.

**What is hard.** (a) Three sources report fills of the same order (WebSocket, cancel
result, placement response), in any order and repeatedly. (b) The engine marks a side
pending and must be answered exactly once; a full fill may overtake a cancel's answer.
(c) After a rotation the engine quotes the new market while the executor still works
through the old one's queue, and old answers come back to a reset quoter. (d) A hedge
overlaps maker orders that are in flight. (e) Any REST call may fail after it took
effect. (f) A drain stops on what the quoter knows, and the process then dies under the
executor. (g) The rotation manager awaits network calls inside the arms of its `select!`,
so the expiry timer is served late and what it read may be stale; polling may find the
market that is already running. (h) The market WebSocket may be asleep when the tokens
change. (i) All ingestor tasks share one thread: a blocking send on a full channel stops the
heartbeat and the rotations with it, and the first task that ends ends all. (j) Telegram keeps
updates until they are confirmed, so a listener that starts again meets those its predecessor
handled. (k) Exit codes, drain status and pause travel through channels that keep the latest
value or are dropped with the loop. (l) Redemptions share a temporary file. (m) Events of the
old market arrive after the estimator was reset. PROJECT.json `hazards` lists each with its line.

**What makes each part correct.**
- Counting: never twice (`NoDoubleCount`), never lost when calls succeed (`SettledExact`),
  the quoter's count in step with the position's (`FilledMirrorsCounted`), and all of it
  as an implementation of an abstract ledger (`ImplementsLedger`).
- Requests: a flag stands for exactly one request under way (`FlagsMirrorPipeline`,
  `FlagsNeverStuck`) and is eventually cleared (`SidesUnblock`, `HedgeUnblocks`).
- Orders: one live order per side, none unknown to the engine (`OneLiveOrderPerSide`,
  `NoOrphan`), within the accumulation cap (`MakerCap`).
- Risk: the imbalance has a bound (`ImbalanceBounded`).
- Rotation: `PlacedInCurrentMarket`, `RotationLeavesNothing`.
- Drain: it ends (`DrainEnds`), and before a rotation it leaves nothing on the exchange
  (`DrainBeforeRotation`); after one it does (findings 3 and 6).
- Heartbeat: failures are explained by losses (`FailuresExplained`) and the engine's view
  recovers (`HeartbeatRecovers`).
- Market data: the running sums are the window's (`VolWindow`), the strike is the median of
  the first ticks (`StrikeIsMedian`), orders are priced on the current market only
  (`PricedOnThisMarket`), the guard moves for a reason (`DarkWithReason`).
- Control: commands are carried out once and in their session (`HandledOnce`,
  `StaleNotProcessed`), and an accepted one takes effect (`PauseFollowsOperator`,
  `SetTakesEffect`, `ShutdownStops`); no unredeemed id is lost (`NothingLost`).
- Market rotation: announcements only move forward (`AnnouncedInOrder`) and never stop
  (`AnnouncementsContinue`), the timer is the current market's (`ExpiryFollowsCurrent`), and
  the market WebSocket misses none (`SessionFollows`, `FeedCatchesUp`).

## 2. Modules

| Module | Models | State and actions |
|---|---|---|
| `BotTypes` | commands, feedback, the two channels | `cmdq`, `fbq` |
| `Sizing` | the batch sizing of `quoter.rs` | `OrderSize(shares)`, as recursive functions over the batches |
| `Quoter` | `quoter.rs` | a record of functions of the side; one operator per method |
| `Exchange` | the CLOB, as the code relies on it | `clob`: every accepted order by id |
| `LiveExecutor` | `live.rs` | one action per outcome of a handler; `reply` is the report a handler that has already changed the exchange still owes |
| `StrategyEngine` | `strategy.rs` and the loop of `main.rs` | one action per feedback kind, event kind, control event and branch of `quote_tick` |
| `TradingBot` | the composition | engine, executor, exchange, WebSocket reports, process exit |
| `FillLedger` | abstract specification of fill accounting | matched and counted shares per order |
| `TradingBotProps` | all properties and fairness | |
| `MCTradingBot` | values for the configurations | |
| `RotationManager` | `rotation.rs` | the two arms of the `select!`, and one action per await of each call |
| `MarketFeed` | `market_ws.rs`, following the rotation manager | `session`, the `tokens` it is open for, the watch channel; and the properties of both |
| `Heartbeat` | `heartbeat.rs`, the exchange's session, the engine's count | one action per outcome of a post |
| `Ingestor` | the ingestor thread of `main.rs` | composes `MarketFeed` and `Heartbeat` with the other sessions over the bounded channel; `Running` is false while a send blocks |
| `FairValue` | `fair_value.rs`, `metrics.rs` | pure operators on a record, one per method |
| `MarketData` | `strategy.rs`, as far as market data goes | one action per kind of event; each ends with `FinishIteration`, the end of `on_event` and `quote_tick` |
| `CommandListener` | `listener.rs`, `handlers.rs`, `config_editor.rs`, Telegram's queue of updates | `updates` and `confirmed` are Telegram's; one action per poll outcome and command |
| `RedeemQueue` | `wallet.rs` | files as inodes; each task a program counter, one step per file operation or transaction |
| `ControlPlane` | the two above with the loop of `main.rs`, the drain watcher, the process and its restarts | |
| `SetProofs` | lemmas on finite sets, for the proofs: sums split off any element, ranks number a set | |
| `TradingBotProofs`, `FillProofs`, `FlowProofs`, `SideProofs` | proofs of the trading core, each on top of the one before: types and rotation, counts, flags, and the two sides with their orders and the cap | |
| `IngestorProofs`, `MarketDataProofs`, `ControlProofs` | proofs of the other compositions | |

`TradingBot`, `Ingestor`, `MarketData` and `ControlPlane` are separate compositions. They meet in
the ingestor channel: each treats what the others send through it as an event that may come at any
time, and what it sends as leaving its view. `Ingestor` models the channel's limit; the trading core
takes a rotation whenever one is possible, which covers a rotation delayed by a full channel.

Correspondence worth knowing before reading:

- **An iteration is several steps.** `pc = "recv"` takes one report per action until
  `fbq` is empty, and then an event. The code drains feedback only after an event has
  arrived, but nothing happens between the drain and the handling of that event, so the
  two orders allow the same states. `pc = "quote"` is `quote_tick` and the drain check.
  Control events `continue` and skip it, and leave `pending_commands` unsent.
- **Two-step handlers.** A post, cancel or taker takes effect on the exchange in one
  step and reports in a later one; fills and WebSocket reports may come in between.
  The size a cancel reports is what is matched when the status is queried.
- **Market data is free choice.** Fair value (cold, extreme), edge, price zone, pair
  cost, notional, volatility, book age and the buildup score only choose the branch:
  `QuoteNothing`, `QuoteDark`, `QuoteZone`, `QuoteMakers`, and which sides act. What the
  engine reads of its own state (flags, sizes, imbalance, caps, "a book exists",
  "the book was invalidated") is modelled exactly.
- **The WebSocket** may deliver any cumulative value the order has passed, at any time,
  again, or never. This covers reconnection, drops and reordering.
- **Failures** are enabled by `Faults`: `post` (accepted or filled, then the request
  errors), `cancel`, `status`, `cancelAll`, `prewarm`. Refusals without side effect need
  no fault.
- **`counted`** and **`exec_market`** are ghosts; no guard reads them.

And of the rotation manager:

- **Time is discrete.** One unit is one housekeeping period (5 s). `Tick` passes time only
  while both timers are unready or a call is under way: the task itself takes no time. In
  an await, up to `MaxWait` units pass per arm, the ticks missed meanwhile are `due` and are
  served in a burst, as tokio's interval does. The two arms race when both are ready.
- **A market is its distance from the one running now**, so that the state is finite: all
  names shift when a market ends, and the ones long ended are not told apart (`LongEnded`). Gamma may list
  any of the next `Ahead` markets, or none (`DiscoveryFails`); the parser keeps the soonest
  listed one that ends after the cutoff, which `PollFound` and `PrewarmFound` leave open.
- **`expiry_instant`** turns a wall-clock time into a monotonic one. `Drift` is how much the
  timer may then fire too early by the wall clock; if it does, the manager has no market, and the poll
  finds the old one again. The deduplication by `last_emitted_condition_id` is what keeps
  that from being announced.
- **The watch channel** holds the tokens of the last announced market (`last`) and whether
  its reader has looked at them (`seen`). `OpenSession` is the loop's head, reached when
  `changed()` returns or after the back-off, during which changes are not awaited.
- Left out: order books and tick sizes, and the shutdown flag. The blocking of `tx.send` is
  `Ingestor`'s.
- Properties speak of an announcement as the step that makes `seen` false. An announcement
  made while an earlier one is unseen is not such a step, but the manager never
  reads `seen`, so each announcement also occurs with the earlier one seen.

Of the ingestor thread:

- **The channel** is abstracted to open, full, and full with a blocked send. Rotations and futures
  events are sent with `send`, everything else with `try_send`. While a send blocks no task of the
  thread runs, and the engine's receive is the only way on.
- **Heartbeat ids** are valid, outdated or none: the code never looks at more. A rejection
  carries the id the exchange expects, if it has a session; any other error carries none.
- `lost` and `losses` are histories; `losses` is bounded by `MaxLost`.
- The engine ignores `WsStatus`, so the other sessions need no state: whatever they do, they send or
  drop an event and go on.

Of the market data:

- **Prices are logarithms in whole units**, so that a log-return is a difference and its square
  exact. The rounding of floats is outside the model.
- **A signal** is the number of samples it has and the way it points; each sample may turn it.
  Thresholds and averages become that choice, so a signal counts fully or not at all; at the
  configured `buildup_go_dark_threshold = 1`, dark means all three are saturated.
- **Freshness** is lost by `Ages`. The age of the volatility is renewed by ticks and depth
  snapshots alike, as in the code, and a price or book event of another market arrives at any time.
- `phase` returns to quiet only by a rotation; `quote_tick`'s other returns are the choice to leave
  the guard alone.

Of the control plane:

- **An update's id is its place** in `updates`. `confirmed` is how far Telegram has forgotten; a
  poll confirms what lies before its offset, and a poll that is lost may have done so.
- **Faults** are enabled one by one: a flush or a poll that fails, a refused event, a configuration
  that cannot be written, a value whose type does not load, a crash, an ingestor thread that ends.
- **`ingestor`** says whether the thread outlives the heartbeat's authentication, the only call of its
  tasks whose failure ends it (the others loop for ever). It is chosen when the process starts. `main`
  only looks at the thread once the engine's loop is over, so the effects of its end
  may come at once or at any later time. The engine's other events, most of them the
  ingestor's, may then still come and need not.
- **Two ways out.** The watcher exits with the drain's code half a second after its last message
  (`Exit`); `async_main` returns, with code 0, once the engine, the executor and the ingestor's thread
  have all ended (`MainReturns`). The second needs no message and no pause, so it comes first if it
  comes at all; the model lets either win.
- **The loop** ends with the completing event; afterwards the channel is still open while summaries are
  flushed (`ending`), and then closed (`over`). What is sent in between is accepted and never read.
- **A file is an inode**: a rename moves the inode another task may still write to. A redemption is
  dropped by its time-out at any await; a write under way in the blocking pool completes.

## 3. Runs

All instances have two sides and a handful of orders. `MaxOrders` bounds what the
exchange accepts: when it is used up, posts are rejected and takers killed, which the
code must handle anyway. Share sizes are 1-3 units: enough for partial fills, a full
fill during a cancel, a halved batch, a floored batch and a hedge larger than the lag.

| Run | Checks | Bounds | What it shows |
|---|---|---|---|
| `single` | `TypeOK SettledExact FilledMirrorsCounted FlagsMirrorPipeline OneLiveOrderPerSide NoOrphan MakerCap ImbalanceBounded DrainBeforeRotation` | 3 orders, 1 market, every input, FOK slack 1 | Within a market, with calls that succeed, the bookkeeping is exact, and a drain leaves no order behind (1.2 M states) |
| `rotation` | `NoDoubleCount RotationLeavesNothing PlacedInCurrentMarket ImplementsLedger` | 2 orders, 2 markets, failing post/cancel/status/prewarm, feedback capacity 1 | Rotations that race commands and answers, and accounting that is safe under every failure, dropped reports included (2.5 M states) |
| `liveness` | `FlagsNeverStuck SidesUnblock DrainEnds` | unit sizes, 1 order, 2 markets, failing post/status/cancel_all/prewarm, pause, drain | No flag outlives its answer, no side waits for ever, and a drain ends with the next rotation (287 k states) |
| `hedge` | `HedgeUnblocks` | unit sizes, 2 orders, 1 market, failing post, drain | A hedge that is filled, killed or fails is answered (23 k states) |
| `ingestor` | `IngestorTypeOK ExpiryFollowsCurrent SessionFollows FailuresExplained AnnouncedInOrder AnnouncementsContinue FeedCatchesUp HeartbeatRecovers` | markets of 3 units, prewarming at 2, 2 listed, calls up to 1, drift up to 1, one loss | Rotation, feed and heartbeat over a channel that blocks them |
| `control` | `TypeOK HandledOnce NothingLost PauseFollowsOperator StoppedByOperator SetTakesEffect ShutdownStops StaleNotProcessed` | 2 commands, every fault, 1 crash, one redemption at a time | The operator's commands across restarts (882 k states) |
| `market_data` | `TypeOK VolWindow StrikeIsMedian PricedOnThisMarket DarkWithReason` | 2 prices, 4 per market, rings of 1 and 2, strike from 3 ticks, 2 markets | What quotes are computed from |
| `late_announcement` | `AnnouncedWithTimeLeft` violated | `MarketFeed` alone: markets of 4 units, 3 listed, waits up to 2, drift up to 1 | see Findings |
| `two_live_orders` | `OneLiveOrderPerSide` violated | 3 orders, 2 markets | see Findings |
| `double_fill` | `NoMakerBesideTaker` violated | 3 orders | see Findings |
| `drain_abandons` | `DrainResolves` violated | 2 orders, 2 markets, drain | see Findings |
| `redeem_overlap` | `NothingLost` violated | 2 redemptions at once, 3 ids | see Findings |

Two orders suffice across markets because each race is between one order of the old
market and one of the new. The capacity 8 used elsewhere is never reached: within a
market at most five reports can be under way (`FlagsMirrorPipeline`), and the two-market
instances never fill it; in the code it is 8192. A capacity of 1, in `rotation`, is more than the code
does: by the bound of `FlagsNeverStuckHolds` 8192 reports cannot be under way. It shows that the
accounting would survive even that.

`hedge` has a second order because the one that unbalances the position uses up the first: with a
single order every taker would be killed. Here it is also filled, and filled with the request failing
(`TakerFilled`, `TakerErrored`).

`DrainBeforeRotation` speaks of a drain that no rotation has ended, and `single` checks it in one market. An
instance with 2 orders and 2 markets, in which the drain may begin and end on either side of a
rotation, was checked too (2.2 M states), and `DrainBeforeRotationHolds` is proved for any number
of markets. After the rotation nothing of the kind holds. The rotation empties the quoter, so the loop
stops in the same iteration, whatever the exchange still has of the old market (finding 3); and an
answer of the old market may make the engine forget an order of the new one (finding 1), so that not
even the new market's orders are sure to be gone.

`SettledExact`, `NoOrphan` and `OneLiveOrderPerSide` hold within one market with calls
that succeed, and are checked exactly there. They fail across a rotation (by the findings), as what a
drain leaves behind does (`DrainBeforeRotation`),
and when calls fail: a failed cancel leaves an order nobody tracks, a failed status query
loses fills. What survives every fault is `ImplementsLedger`: shares are never counted
twice. `HeartbeatFailures` is capped at its threshold, beyond which the code never reads it.

`ingestor` is as small as its composition demands: a market has a time before, inside and after the
prewarm window, a call may outlast the market's end, and a second listed market can be skipped to.
What these bounds might hide of the safety properties is covered by proofs for all constants
(`ExpiryFollowsCurrent`, `SessionFollows`, `AnnouncedInOrder`, `FailuresExplained`); the real market
has 60 units. `late_announcement` runs the feed alone with longer markets. One loss takes the heartbeat
through every one of its states.
`MaxWait < Duration` and `Drift < Duration` are assumptions: a call longer than a market
could let several markets end inside one arm. The prewarm lead is at most a market's length, as
configured.

In `control`, two commands are enough for an order of commands, for one that waits behind the other
when the loop ends, and for one that a restart finds unconfirmed. `PollLimit` is not below
`MaxUpdates` there: a backlog above Telegram's limit of 100 is not flushed, which
`StaleNotProcessedHolds` states as its hypothesis. One redemption at a time (`MaxConcurrent = 1`) is
what `NothingLost` needs, and the hypothesis of `NothingLostHolds`. Restarts stay below the unit's
`StartLimitBurst` of 5 in 300 s, except for a configuration that does not load, which ends in `failed`.
`SetTakesEffect` excepts an accepted `/shutdown` and an ingestor thread that has ended, and not that
the process stopped, so that a restart that ends with exit code 0 violates it. `StoppedByOperator` is the
safety side of this: nothing but an accepted `/shutdown` leaves the service stopped, with the one
exception of an ingestor thread that has ended (see the end of Findings).

`market_data` (whose safety properties are all proved for every constant, see below) has a window
that is overwritten at once and one that is overwritten later, an odd
strike warm-up whose median is neither first nor last, and two signals of which one is
futures-derived; four prices fill and wrap both rings. `GoLive >= 1` is an assumption: the smallest
threshold `/set` accepts is positive.

**Deadlock** is checked except where a drain or the single market ends the system.

**Fairness.** `Fairness` assumes the engine thread runs (weak fairness of the feedback and
quote steps), the executor's calls end (weak fairness of `ExecutorStep`), and events keep
arriving (strong fairness of `OnMarketData`: Binance and book feeds stream continuously;
strong because the action is disabled between events). That calls end is an assumption on
the network: neither the executor nor the rotation manager puts a timeout on its REST calls,
so a call that hangs stops that task, and no liveness property survives it. Nothing is assumed of
fills, WebSocket reports, rotations or `quote_tick`'s choices. `DrainEnds` alone assumes, as its
hypothesis, that a rotation that remains possible arrives. Feedback is not dropped in that
run: at capacity 8192 with at most five reports under way it cannot be.

`IngestorFairness` assumes that time passes, that the thread's tasks run whenever no send blocks them and
their calls end, that the engine keeps receiving and in the end leaves room (it is faster than the
feeds; strong fairness), that a poll of Gamma repeated for ever succeeds in the end (the
schedule of the markets is fixed), and that the exchange is reached once the bounded losses
are used up. Prewarming need never succeed, and sessions may fail for ever. The properties allow the
ingestor to end when the heartbeat cannot authenticate.

`Fairness` of `ControlPlane` assumes that the engine takes control events, that the position is
closed in the end while the ingestor's thread runs (the market's rotation resets it, and comes from
that thread), that the drain watcher runs and its messages to
Telegram end, though `post_telegram_message` has no timeout, and that the service
manager starts a process it is to start. Nothing is assumed of the listener: the properties begin
when a command was accepted.

### Findings

1. *Two live orders of one side* (`two_live_orders`). Pending flags are cleared by side, not
   by order: an answer to a post of the old market clears the new market's `pending_post`,
   and the side posts again. `V2_SYSTEM.md:144` promises one resting order per side.
   A stale cancel result does the same: its fill is ignored, but `on_cancel_result(side)` still
   clears the side's slot, against `V2_SYSTEM.md:227`.
2. *A taker beside a live maker* (`double_fill`). A post in flight cannot be cancelled when
   the hedge is sent, and in dark mode the cancel is held back until the next event.
   Against the comment at `src/engine/strategy.rs:933`.
3. *A drain abandons what is open* (`drain_abandons`). A drain that waits for an order, or for
   an answer, usually ends with the next rotation, as the message at `main.rs:211` says. The rotation
   resets the quoter, `has_no_open_position` is true at once, and the loop stops while the
   executor's `cancel_all` is still queued, perhaps behind the very post that puts an order on the
   exchange: this is the run's counterexample. `listener.rs:124` exits after half a second. Nobody is left
   to cancel the order or to record its fills; the exchange's own cancel, when heartbeats stop, is not
   the bot's. Within a market no order is left (`DrainBeforeRotation`), but shares are: the function
   looks at orders, never at the position, and with `MaxMarkets = 1` the counterexample is an exit with
   shares of one side unpaired. Against `README.md:248` ("drains open position first") and
   `README.md:255`.
4. *A market announced after its end* (`late_announcement`). `poll_gamma_and_emit` computes
   `remaining_ms`, awaits the tick size, and tests the value it computed before; the
   books are fetched after the test. Against the comment at
   `src/gateway/polymarket/rotation.rs:302`, that markets "that have time remaining" are
   announced. The engine then holds a market that is over until the next announcement.
5. *Overlapping redemptions lose ids* (`redeem_overlap`). Two redemptions share
   `redeems.txt.tmp`: one renames it while the other has opened and truncated it and not yet written,
   and `redeems.txt` is empty from then on if the process ends or a third reader comes first. Against
   the comment at `src/control/wallet.rs:114`, "atomic write-temp-rename".

The log line at `rotation.rs:106` ("polling Gamma immediately") and `mod.rs:187-189` ("every 10
minutes", "immediate Gamma poll") describe an earlier design: the code waits for the
next housekeeping tick, every 5 s.

Other places where words and code differ, which no run violates a property for:

- If the ingestor's thread has ended, `main` returns with code 0 (`main.rs:475-482`) before the watcher
  gets to `exit(42)`, and `Restart=on-failure` does not start the service again after a `/set`. Against
  the comment at `deploy/facaibot.service:14`, `README.md:242` ("Update config + restart") and
  `ARCHITECTURE.md:235`. It is in the model (`MainReturns`): without its exception
  `ingestor = "ended"`, `StoppedByOperator` is violated.
- `listener.rs:137` "Fetch all pending updates ... but don't process them": a flush that fails is only
  skipped (and has no timeout), and one poll returns at most 100. `HandledOnce` and
  `StaleNotProcessed` therefore except a failed flush. A `/set` that was carried out is then carried
  out again and restarts the bot a second time.
- `/set` accepts a fraction, or `NaN`, for a parameter that is an integer in `config.rs`: the file
  is replaced, the bot drains, and does not start again (`config_loads`, `failed`).
- The heartbeat's guard for the exchange's weekly restart only logs.
- An ingestor task that ends takes the others with it, and nothing restarts the process:
  `ARCHITECTURE` says that a crash is an automatic restart.
- `README.md:138` says the bot writes ids to `redeems.txt`; no code under `src/` does, only the
  operator.
- The unit's comment names `/stop` as the exit with code 0; it is `/shutdown`.

`max_unpaired_shares` is likewise a gate on new posts, not a bound on exposure: the bound
`ImbalanceBounded` states is larger. `V2_SYSTEM.md:312` calls it the "maximum unpaired shares per side",
and `V2_SYSTEM.md:176-183` limits an order's size by `max_by_imbalance = max_unpaired_shares -
unpaired(side)`; the code has no such limit on the size. `single` does not reach it; an instance with a fourth order, a
rebalance threshold of 1 and a taker minimum of 3 does (8.3 M states, so not among the
runs; the properties of `single` hold there too), which shows that the bound cannot be lowered.

## 4. Proofs

`tlapm` checks every leaf; the assumptions are the modules' named `ASSUME`s.

- **`OrderSizeFits`** (`TradingBotProofs`). For all sizing parameters, a side below its cap gets
  a positive size that fits below the cap. Batch sizes and totals are recursive functions;
  that they are defined at every index is proved by a minimal counterexample over the
  well-founded order of `Nat`, as the induction theorems with operator parameters are out
  of reach.
- **`TypeCorrect`** (`TradingBotProofs`). `TypeOK` is not inductive: `CancelStatus` reads the
  order named by the owed report, and a count could go negative if a rebalance had no
  lagging side. The invariant `IInv` adds that every id in a command, a report or the quoter
  is an accepted order (`IdsKnown`, theorem `IdsAlwaysKnown`), and ids stay known because the exchange
  never forgets one. One lemma per action, each split by the conjuncts it can disturb.
- **`PlacedInCurrentMarketHolds`**, **`RotationLeavesNothingHolds`** (`TradingBotProofs`). The
  inductive invariant `MarketChain` says that the rotations queued for the executor lead one
  by one from its market to the engine's, that each other command belongs to the market it
  is queued in, and that what is pending in the engine belongs to the engine's market. The first
  result follows for all faults; the second needs that `cancel_all` does not fail.

- **`NoDoubleCountHolds`**, **`FilledMirrorsCountedHolds`**, **`ImplementsLedgerHolds`**
  (`FillProofs`), for every set of faults. `FillInv` says why a delta is never taken from a stale
  count. An order is the subject of at most one command or report under way (`UnderWayOnce`); its
  announcement finds it untouched by the quoter with nothing counted; it is cancelled at
  most once, since the flag that remembers the cancel is only cleared together with the order;
  and what the quoter holds, or keeps in `last_cleared` for a cancel's late answer, has the count the
  position has. The refinement needs nothing more: its steps are those in which `matched` or
  `counted` grow, and `FillInv` bounds the latter by the former.
- **`FlagsNeverStuckHolds`**, **`FlagsMirrorPipelineHolds`** (`FlowProofs`), for every set of faults.
  `FlowInv` counts what is under way of each kind (posts, cancels, takers with their reports): it is
  at least the flag, and at most the flag plus one for each earlier market, since a
  rotation resets the flags and leaves behind at most what they stood for. So at most five
  reports per market are under way, and a channel of `5 * MaxMarkets` never drops one. That
  hypothesis is needed: with a smaller channel a dropped report leaves its flag set, which is what the
  `rotation` run exercises. Until the first market ends (`market <= 1`) the two bounds meet, and the flag is
  exact.
- **`ImbalanceBoundedHolds`** (`SideProofs`), until the first market ends and for every set of faults. `SideInv` says what
  the engine knows of a side whatever fails: the order it holds has the exchange's side and size,
  a post and a held order exclude each other, and what a cancel is about is that order or the last one
  dropped, then counted in full. So each report counts shares of the order it is taken for.
  `ExposureInv` bounds, for each side, its lead over the other plus what may still be counted for it: the
  rest of its maker order (the largest order while a post is under way) and one hedge under
  way. A post is only sent while the lead is below `MaxUnpaired`, a hedge only while the side lags, and
  either can be decided before the other is counted, which is why the bound adds both to the gate. The
  exact flags of `FlowProofs` give that there is one of each. The configuration must have
  `MinOrderSize <= MaxOrderSize`: otherwise a batch is larger than the largest order the bound speaks of.
- **`SettledExactHolds`**, **`NoOrphanHolds`**, **`DrainBeforeRotationHolds`**,
  **`OneLiveOrderPerSideHolds`** (`SideProofs`), until the first market ends, when no placement, cancel or
  status call fails (`CalmCalls`). How many markets there are does not matter: the invariants
  are carried under `market <= 1`, and markets only move forward (`MarketForward`). On top of `SideInv`, `OrderInv` says where an order is: held by
  the quoter, subject of a report that tells all there is to tell, or settled, that is dead with all of
  it counted. The answer to a post finds its flag set
  and so an empty slot, and a held order that was cancelled has its cancel's answer under way. Both
  hypotheses are needed: after a rotation the invariants no longer tie an answer to an order
  (`two_live_orders` is that failure), and a call that fails after it took effect
  leaves an order nobody tracks. `DrainBeforeRotationHolds` follows because `has_no_open_position`, with
  the flags exact, means that nothing is under way at all. It has `market <= 1` in the
  property itself, as the rotation is how a drain usually ends (finding 3).
- **`MakerCapHolds`** (`SideProofs`), under the same hypotheses. What may yet be counted of an order,
  its claim, is its full size while it is live or not yet counted in full, and what was counted of it
  once that is settled. `CapInv` says that the claims of a side's maker orders stay below
  `MaxTotalShares`, also with the post under way added, and that what was counted of them is not more
  than the position. A post is only sent while the side holds nothing and nothing of it is under way;
  by `OrderInv` all its orders are then settled, so their claims are what was counted, and
  `OrderSizeFits` does the rest. An order's claim never grows after its acceptance. Sums over the
  orders of a side split off one order by the lemmas of `SetProofs`, whose inductions are by a minimal
  counterexample. Both hypotheses are needed: a post that errors after its acceptance leaves an
  order nobody counts, and the position the sizing reads starts again at a rotation.

- **`AnnouncedInOrderHolds`**, **`ExpiryFollowsCurrentHolds`**, **`SessionFollowsHolds`**
  (`IngestorProofs`). The invariant orders the markets the manager holds: the current one is
  the last announced, the prewarmed one and the one being fetched end after it, and without a
  current market the last announced one has at most the running market's place, since the
  timer fired with less than a market's length left (`Drift < Duration`). That these
  orders survive the passing of time needs that at most one market ends during an await
  (`EndedInArm`, from `MaxWait < Duration`). The lemmas on `Remaining` do the arithmetic of the
  schedule, products included, once.

- **`IngestorImplementsFeed`** and what follows from it (`IngestorProofs`). Every step of the thread is
  a step of `MarketFeed` or leaves its variables alone, so the three results above hold of the whole
  thread. **`FailuresExplainedHolds`** needs to count the rejection that is still owed: the
  invariant is `consecutive_failures + Owed <= lost + lost`, and it also gives `IngestorTypeCorrect`.
- **`VolWindowHolds`**, **`StrikeIsMedianHolds`**, **`PricedOnThisMarketHolds`**, **`DarkWithReasonHolds`**,
  **`MarketDataTypeCorrect`** (`MarketDataProofs`), for every capacity, warm-up and number of prices. The
  properties compare the estimator's running state with what it would be if it were computed anew
  from the prices read in this market (`prices`, a history). `Holds` ties the two: place by place, the
  ring holds the squared returns of the last `Capacity` prices and its sum is theirs (`RingHolds`:
  a push replaces the oldest place, so that the sum loses one element and gains one); the warm-up
  buffer holds the first ticks in their order; the strike, once set, is the middle of the sorted
  buffer. Sorting is by rank, and `RankBijection` numbers the buffer, which is why at most
  half of it is below the middle. `BooksOfMarket` says of every book that it is of the active market
  or none: of fresh ones alone it would not be inductive, as best prices renew any book there is. The
  estimate is recomputed at the end of each iteration, so it is on the current strike and price.
- **`HandledOnceHolds`**, **`StaleNotProcessedHolds`** (`ControlProofs`). `Handled` is the update up
  to which everything was handled or flushed. The batch is the run of updates behind it
  (`BatchInv`); what was answered is not beyond it, and never beyond one poll of what is confirmed
  (`AnsweredInv`), which is why the flush of the next session passes all of it, wherever
  the last one ended. The second result assumes that no more is pending than one poll returns.
- **`PauseFollowsOperatorHolds`** (`ControlProofs`), under the same assumption. What an answer
  says of an order and what the engine does with it are steps of two tasks, with a channel between them, so
  `PauseInv` speaks of the flag the engine will have once it has read the channel (`PausedAfter`): it is
  what the last accepted order wants. An accepted order is the newest event of the channel and, by
  `AnsweredInv`, the newest update answered; taking the first event changes nothing (`PausedTail`); and a
  session starts with an empty channel and nothing accepted. Without the assumption a `/stop` that was
  sent before the session, and that its flush did not reach, pauses an engine nobody asked to.

- **`NothingLostHolds`** (`ControlProofs`), for one redemption at a time. `QueueInv` follows the task under
  way: from the moment it has read the file to the rename, every id that was not redeemed is among
  the lines it will write, the temporary file it opened is empty until it writes and then holds just
  these lines, and that file is never `redeems.txt` itself, so a write that outlives its
  redemption does no harm. With two at once the temporary file is shared and this fails (`redeem_overlap`).
- **`ControlTypeCorrect`** (`ControlProofs`) needs no such hypothesis.

**Only model-checked:** the liveness properties (`SidesUnblock`, `HedgeUnblocks`, `DrainEnds`,
`AnnouncementsContinue`, `FeedCatchesUp`, `HeartbeatRecovers`, `SetTakesEffect`, `ShutdownStops`), as
liveness under fairness is out of the prover's reach. Every invariant and action
property a passing run checks is also a theorem, some of them under the hypotheses named above:
`NothingLost` for one redemption at a time, the properties of orders until the first market ends and with
calls that succeed; their runs check them in one market.

## 5. Not modelled, and the plan

Left out for good: prices and floating-point formulas beyond the branches they choose (Student-t,
logit, edge, moving averages), parsers, message texts, storage, TLS. `TickSizeChanged` only fills
an SDK cache; the engine takes the new size whatever market the asset belongs to. The
exchange's own cancel of orders whose heartbeat stopped, and the resolution of an expired market, are
the exchange's. With all books stale, or the fair value at an extreme, `quote_tick` returns early and
leaves resting orders as they are: the model allows it, and no property forbids it. `wallet.rs:355`
counts a transaction without a receipt as redeemed; `NothingLost` takes it as sent. The notification
switches and queries of the listener change nothing else.

Next, in this order:

1. `ClobSafe`: `clob_safe_fok_size` in integer arithmetic, replacing `FokSlack`.
2. The text editing of `config_editor.rs`: which line a key matches.
