# A verification project for onchin-bot

onchin-bot is an arbitrage bot for Solana. A scanner writes a snapshot of
validated pools; the bot reads it, loads the pools over RPC, follows them over a
Yellowstone gRPC stream, keeps a market state per pool, scans tokens for a
profitable pair of swaps, and sends a transaction, by way of its own on-chain
program that runs both swaps and refuses a result below the threshold.

The modules here are translated from that source: `src/src/` is the bot,
`src/programs/two_hop_executor/` the on-chain program. `PROJECT.json` maps every
definition to the lines it stands for and lists runs, mutants, findings, hazards
and theorems.

## Inventory

| Component | State | Operations | What is hard | What makes it correct |
|---|---|---|---|---|
| Account stream (`grpc/subscribe.rs`; `drain_latest_updates`) | bounded channel, overflow buffer, backoff | attempt, read, try_send, flush in parts, reconnect; recv and drain | two threads, full channel, lost streams, a receiver dropped by a reload | per account never an older update after a newer; nothing lost while up; buffered updates arrive, unless others keep coming in; the task ends with its receiver |
| Main loop and hot reload (`main.rs` 728-1182, `validated_snapshot.rs`, `market_universe.rs`) | marker, pending flag, timers, market set, marked tokens, deferral flag | biased select, reload tick, build, reload, scan | another process writes the snapshot at any moment; merging within an interval; starvation; failed builds | every change is read; nothing of dropped markets is left; both sides stay; marks are scanned |
| Market state (`main.rs` 1293-1331, 1349-2361, 2719-3661; `rpc.rs`) | `*_state`, `*_by_token`, `*_vault_to_pool`, array indexes, `hydrated_supporting_pools` | initial load, subscribe, process an update, first-sight hydration | RPC answers against stream updates, partial failure, caps and limits | indexes speak of known pools; a followed reserve is current once drained, unless an older answer came last; a change marks its token |
| On-chain executor (`programs/two_hop_executor`) | token balances around two foreign calls | first leg, measure, inject, second leg, profit check | the called programs are not ours; integers at their limit | kept only with profit; sells what it bought, all of it |
| Snapshot records, market classification | records, owners, account bytes | parse, normalise, classify | half-written files, one bad account | a bad record never takes others with it |
| Token selection and the scan (`main.rs` 4700-5250, 10600-13000) | `program_pair_candidate_feedback`, the wallet balance of the scan | select tokens, enumerate and size pairs, rank, gate, send | limits before filters, fallbacks, feedback that changes the next threshold | the best is sent, nothing that does not pay, no token that was turned down |
| Quoting and planning a trade (`main.rs` 21500-25200, `strategy/`) | the copy of a pool, its bin arrays, the bitmap | walk the bins, plan tip and least profit, choose the arrays of the swap | integer rounding, a copy known in part, a market that moves | a promise is paid; no known array is missing; what lands pays |
| Execution gates and calls (`main.rs` 5533-5900, 7600-19300) | `direct_path_cooldowns`, `execution_attempts`, arrays per pool | gates, build, simulate, send, retry with other arrays | state that ages or changes between the steps of a retry, cooldowns that overwrite each other | cooldowns and spacing hold where no switch lifts them, units fit the plan, the search converges, the call ends |
| Setup of a plan (`main.rs` 25700-26950 and the builders) | cached token accounts and balances | create accounts, wrap sol, initialize the bitmap extension, split into two transactions | readings older than the transactions in the air | every transaction finds its input; the trade stays whole |
| Send path (`main.rs` 6250-6414, 11804-12271; `executor/executor.rs`, `transaction.rs`, `jito.rs`) | lookup-table cache, exhausted flag; the transactions in flight | build, extend the tables, submit, confirm, split, rebuild | lost answers, extensions that fail half way, forks, a stale cache | of one call at most one transaction can land; silence while paused; a retry that can succeed |
| Execution manager (`executor/manager.rs`) | throttle, slots | delay a send | one caller | the delays only |
| Pool scanner (`bin/pool_scanner.rs`), wallet watcher (`bin/jd6_pool_watcher.rs`) | known pools, pending lookups, the state and list files | stream, look up, select, merge with the last round, write | a stream and lookups that overtake each other, cuts between two files, two programs with one file | what is listed can be traded, was seen lately, is current up to an older answer, and is the program's own |
| Tools, configuration | files | create a table, find an address | nothing | - |

How they interact: the scanner's file is shared state with the main loop (no
lock, only a fingerprint of mtime and length). The stream task and the main loop
share one bounded channel per subscription. The main loop owns the market state;
its RPC calls are awaited in the loop, so the state stands still while the chain
and the stream go on. The scan takes the marked tokens and hands candidates to
the send path; the on-chain program is reached by transactions only.

## Modules

* `LatestMailbox` is the abstract specification of a subscription: a box with the
  newest version per account; a newer version may be put in, the reader takes one
  between what it has and what is in the box, and a lost stream forgets.
* `AccountStream` is the task, the channel and the reader. One action per
  `try_send`, per `try_recv`, per attempt. `task` is the place in
  `run_subscription_loop`/`subscribe_once`/`flush_overflow_updates`, `overflow` is
  `overflow_updates`, `flushKeys` the keys of one flush, `queue` the channel,
  `batch` the map built by `drain_latest_updates`, `applied` what
  `process_account_update` has seen. A message exists from the step that reads it.
  Writes go on for ever; from `MaxVersion` on their versions are told apart no more.
* `MainLoop` is `fn main` from the first load on: `marker`, `pending`, `cooled`
  (the minimum interval), the three timers, `markets` (`market_address_set`),
  `hydrated` (keys of the state maps), `inbox` (markets with a queued update),
  `dirty` (`dirty_direct_tokens`), `deferred` (`direct_processing_deferred`).
  `file`/`rev` are the snapshot and its fingerprint, written by `WriteSnapshot`.
* `MarketState` refines what `MainLoop` calls `hydrated`, for the pools of one
  token: `held` is the version known of each pool and vault, `index` the pools in
  `*_by_token`, `vaultMap` and `tracked` the reverse indexes, `followed` what
  `subscribe_current_accounts` listed, `box`/`taken` a `LatestMailbox` that stays up,
  `batch` the drained updates, `done`/`todo`/`answer` the first-sight hydration, in
  which asking and answering are separate steps. The RPC node is another than the one
  that streams: a read returns any version up to the chain's (`Readable`), however old,
  and the history `overtaken` names the pools whose reserve the last answer has set back.
  The stream begins with the channel: what is written between the load and the
  subscription is streamed to nobody.
* `TwoHopExecutor` is the on-chain program over three token accounts; the two legs
  are calls that move balances as a swap may.
* `SendPath` is one call of `send_wrapped_instructions_single_only_with_alt_retry`
  with the rebuild around it, repeated for any plan. `attempt` is the rung of its
  ladder (first send, after an extension, bundle split), `rebuilt` whether the
  plan was built again, `error` the text the next rung is chosen by, `sent` the
  fates of the transactions that may have gone out; `table` is what the chain holds
  of the lookup tables and `cache` the `LOOKUP_TABLE_CACHE`; `todo`, `rest` and
  `flight` are a running extension and the transactions earlier ones gave up on. A
  transaction is too large when more than `Slack` of its addresses are in no table.
* `WindowSearch` holds the operators of the search for the number of bin arrays
  (`window`, the bounds `need` and `most`, 0 for none) and of the count of tick arrays.
* `DirectSend` is one call of a `maybe_send_*` function at a time: `call.at` is its
  place (gates, build, simulate, send), `call.again` whether the plan was rebuilt,
  `cool` is `direct_path_cooldowns`, `attempted` the token's `execution_attempts`,
  `search`/`ticks` what is kept per pool, `free` and `noskip` are the two switches that
  lift gates (`DISABLE_LOCAL_PROFIT_CHECKS`, `DISABLE_DIRECT_SEND_SKIP`). Each family has its row of gates and its own
  operators for what a failure does. `quiet` and `last` are history.
* `ScanRound` is `process_program_pair_tokens`: `filter`, `kept`, `chosen`, `list`,
  `found` and `sent` are the sets the function goes through, `feedback` what outlives it.
* `BinQuote` is the bin walk on whole arrays and the choice of the accounts of a swap;
  `LandedTrade` composes it with a linear PumpSwap pool, the tip and the threshold:
  `copy` is what the bot knows of `chain`, `offer` the quote, `terms` and `window` what
  is built, `result` what the chain makes of it (`strange` only counts, for `PromiseKept`,
  the bins it filled in arrays not held here). The market moves between the steps.
* `PlanFunding` is the setup of a plan: `exists`, `balance`, `extended` are on the chain,
  `listed`, `amount`, `bitmap` the cached readings, `flights` the transactions in
  the air, as lists of instructions, `draft` the plan of the call that runs and `held` the
  setup its caller sends with.
* `PoolRounds` has one action per part of a polling round (fetch, update, write the
  list, write the state) and `Restart` with any of the programs. `PoolScanner` is the
  task of the streaming source with its place `at`, the `stream` of one node, the accounts
  as another, the RPC `node`, knows them, and the files. Every bootstrap, lookup and
  validation reads `node`, which follows `chain` by the action `CatchUp`, when it likes.
* `*Proofs` hold the theorems of a module, `MC*` its instance for TLC.

Composition: `AccountStream` implements `LatestMailbox` (checked and proved); `MarketState`
takes the stream at that abstraction; `MainLoop` takes both at the level of sets
of markets. `ScanRound` starts from the marks of `MainLoop` and ends where
`DirectSend` starts; a send of `DirectSend` is a call of `SendPath`; the executor's
check in `LandedTrade` and `PlanFunding` is what `TwoHopExecutor` does. The writers
of `PoolRounds` and `PoolScanner` are `WriteSnapshot` of `MainLoop`.

Definitions named `Mutant_...` are plausible mistakes in the definition that
follows them. No action uses one; each shows that a property of a run can fail.

## Runs

| Run | Instance | What it shows |
|---|---|---|
| `account_stream` | 2 accounts written without end, 3 versions told apart, channel of 2, flushes of 1, drain of 2, backoff 1 to 2 | no loss while up, implementation of the mailbox, delivery under fairness unless others keep coming into the buffer |
| `main_loop` | 3 markets of 3 venues, 2 tokens, 3 contents, 2 writes of the file, watermarks 2 and 1 | later changes read, marks scanned |
| `two_hop` | amounts 0..3 | profit, and the amounts of the second leg |
| `market_state` | 2 pools in three pairs of venues, 2 positions, 3 reserves, arrays capped at 1, RPC answers any number of writes behind | indexes, currency of reserves up to an older answer |
| `send_path` | 2 tables of 2 places, chunks of 1, 3 plans (one that the tables can take, one they cannot, one that needs none), 2 calls, any transport and switch | one transaction that can land, a second send that fits, tables given up only when full, an end |
| `direct_send` | all families and switches, windows 1 to 3, any window short of liquidity or too large, short and long cooldowns, 3 calls | cooldowns, spacing, units, the search, an end of each call |
| `scan_round` | 2 tokens and an excluded one, 3 paths, 2 sizes, list of 2, one send, 3 scans | the best is sent and pays, the fallback, the feedback loop |
| `pool_rounds` | 5 pools of 2 tokens, one place for a token, 2 misses, all three programs, 3 crashes | tradable tokens, ageing, no mixing of sources |
| `pool_scanner` | 2 pools of a token, 2 prices, 2 messages under way (one a trade), 2 changes, 1 fault, flushes at 2, lookups at 1, an RPC node behind at will | known pools are current unless an older answer came last, traded pools are found, changes are written |
| `landed_trade` | 8 bins in 4 arrays, 3 accounts of arrays in a swap, 2 sizes, 2 rates, tips of every kind, 2 moves of the market | promises kept, known arrays present, trades that pay |
| `plan_funding` | all nine builders, 2 transactions in the air, trades that gain and lose one | inputs funded, trades whole, the account never falls |
| `output_recovered` | as above, without the property | where the simulated output is not what the leg gave |

Why the bounds are enough. Stream: two accounts and a channel of two make the
channel full while both accounts are buffered, a flush of one stops in the middle,
and three versions put one into each of queue, buffer and batch; writes beyond
them repeat the newest, so that the load does not end with the bound. Main loop: two
writes of the file cover a change during the interval, one during a build, and one
after another; the three contents add, remove, swap and empty a side. Market
state: a third reserve lets an RPC answer be newer than a drained update and older
than the chain, or older than both; two positions make an array cap of one bite and end a Pump curve.
Two-hop: three units give a gain, a loss, a threshold and the saturated sum.
Send path: two calls let an extension the first gave up on land during the second;
chunks of one let it fail between two chunks of a table, and two tables between two
tables. Direct send: a long cooldown outlives the clock and a short one does not, so
one that is overwritten shows; three windows give a bound on either side of a window;
three calls let the first learn, the second cool and the third pass. The errors that
widen a window blindly (bitmap, keys) are left out here, as the search means nothing
under them, and so is the lock error, which moves it as the size error does;
`MCDirectSendRetries` has them. Scan: one send
out of a list of two out of three paths exercises both limits, and a third scan meets
what the second has taught after the first has expired. Rounds: two misses and three
crashes cut a round at both files and let a pool age between them. Scanner: one fault
loses a stream, a lookup or a write at any place, and the second change follows it; with two
messages under way an answer comes between two of one pool, before both or after both, or
a trade between; two prices and a start at the lower one make pairs to select.
Landed trade: the second array of one start is empty between full ones, a window of
three cannot hold all four, and both prices round. Funding: two transactions in the
air are one more than the reading that the second was built from.

Further configurations, for a reader to run by hand. `MCAccountStreamAll` checks the
same instance against all properties stated in the module, the proved ones included.
`MCDirectSendRetries` checks `CallReturns` for one call over windows 1 to 6, each of
which may meet any error, bitmap and key errors included: there only the exception of
the property, widening without a bound, keeps a call from returning. `MCPoolScannerWide`
checks the safety of the scanner with an excluded account, a price of 0, trades that
fill the stream, and lookups in batches of 2. They pass. The type invariants of `AccountStream`, `MainLoop`,
`TwoHopExecutor`, `ScanRound` and `PoolRounds` are proved for every instance and in no run. The ones under Observations end in a
counterexample. `MCPoolRounds` and the others of this list need at most five minutes.

Deadlock is checked in `main_loop`, `two_hop`, `market_state` and `pool_scanner`. In
`account_stream` task and reader stop after the receiver is dropped; the other runs end with their bounded calls, scans, crashes,
moves and transactions (`MaxCalls`, `MaxRounds`, `MaxTime`, `MaxCrashes`, `MaxDrift`).

## Fairness

`AccountStream`: the runtime schedules both tasks (weak fairness of flushes, reads,
loop steps), and the server answers connection attempts and sends pings, which
Yellowstone does every few seconds; no update of any account is promised, and none is
excluded: a flush takes keys in any order, as a hash map gives them, and no fairness
between keys is assumed. So `BufferedReachesReader` excepts an account while others come
into the buffer again and again; observation 9 shows that it must.
`MainLoop`: the loop is scheduled and the clock runs. The select is biased, so under
a load that never lets up neither the reload tick nor the scan would come: that the
loop again and again finds the channel empty with no tick due, and again and again
finds a scan possible, are stated as assumptions about the load, not as facts about
the code (`main.rs` 905 is listed as a hazard for that reason).
`SendPath`: the loop runs on within a call. Polls are counted and the submitting
requests have timeouts; the blockhash and status requests (`transaction.rs` 56, 828)
have none, and are assumed to be answered or to fail.
`DirectSend`: the loop awaits the call, which goes on as long as builds, simulations
and sends answer or fail; they poll and wait for bounded times as in `SendPath`. What they
fail with is the chain's choice at every try; nothing is assumed of it but that
a window is not widened without a bound for ever.
`PoolScanner`: the task is always ready to run, the node accepts connections again,
the two intervals run out, and some monitored program always trades; no trade of any
given pool is promised, and `TradedIsKnown` takes one that trades again and again. The RPC
node comes to know every change in the end (`CatchUp`), at no given time.
The other modules are checked for safety only.

## Findings

`output_recovered`: the calibrating simulation runs the setup and both legs, and the
output of the second leg is read out of the quote account as its balance afterwards,
less the cached start balance, plus what the first leg paid (`main.rs` 10505, 10261).
What the setup wraps, in the same simulation, is counted as output, and so is what
trades landed since the reading have brought. From Meteora to PumpSwap the least output is
then too high, and the plan fails whenever the account has to be topped up; from
PumpSwap to Meteora the check at 10287 passes where it should not. The test at 28524
says the function recovers the output; it gives it a start balance that is already
funded.

## Observations

Where the code does less than a document or a message says, seen while modelling. The
configuration named gives TLC's counterexample.

1. The old subscription of a reload notices its closed channel only when it has
   something to send (`subscribe.rs` 290; `MCAccountStreamDropped`).
2. The first marker is read after the first load (`main.rs` 728, 887), so a change in
   between is missed until the next one (`MCMainLoopChangesSinceLoadRead`).
   `LaterChangesRead`, with the start excluded, holds.
3. A reload that fails is not repeated (`main.rs` 1086; `MCMainLoopFailedBuildRepeated`).
4. Scans resume below the high watermark; the low one is only logged (`main.rs` 1137,
   1154; `MCMainLoopPausedUntilLow`).
5. Pools first seen by the stream after a failed load are scanned, but their vaults
   are never subscribed (`main.rs` 1307; `MCMarketStateFollowed`).
6. With RPC transport a failed status counts whatever its commitment
   (`transaction.rs` 882; `MCSendPathForks`). `send_path` takes a failure as final.
7. With the source `onchain` the scanner asks for more trades than its counter can
   reach (`pool_scanner.rs` 4036: hits by three, hits always 1) and lists nothing,
   though `README.md` 43 offers it (`MCPoolRoundsOnchain`).
8. When bitmap errors at a small window alternate with lock errors at a large one the
   search goes back and forth (`main.rs` 15568), and calls restart without end, for a
   bitmap error moves the window without a bound (`MCDirectSendBitmap`). Proof and run
   of `SearchBetween` exclude these errors; `CallReturns` says that
   nothing else keeps a call from returning; `MCDirectSendRetries` includes them.
9. Of the overflow buffer a flush takes as many keys as it may, in the order of a hash map
   and not the longest waiting (`subscribe.rs` 294). While other accounts are buffered again and again
   a silent one may never be sent (`MCAccountStreamStarved`).
10. An RPC answer replaces what the stream has brought, without a comparison of slots
   (`main.rs` 2103, 2173, 2308; both read at "processed", `rpc.rs` 143, from different nodes). One that is
   older stays until the next update of the vault (`MCMarketStateStale`):
   `CurrentWhenDrained` says that this is the only way to a stale reserve. The scanner's lookups do the
   same (`pool_scanner.rs` 1242), and `KnownIsCurrent` says the like.
11. With `DISABLE_DIRECT_SEND_SKIP` no cooldown counts and no attempt is recorded (`main.rs`
   5562, 10617), and with `DISABLE_LOCAL_PROFIT_CHECKS` none is either. The `config.toml` of
   the repository sets both (45, 46): under it `CooldownsHold` and `AttemptsSpaced`, which are
   about the switches' defaults, promise nothing, as the code does.

Others, by reading alone or as the models have them: `DISABLE_LOCAL_PROFIT_CHECKS=true`
is what puts the local checks in force (11375); a too large PumpSwap and Meteora send
sets the cooldown that then refuses its own retry (9045); a feedback record that has
expired but is not pruned is taken up again (4857, 4939); the list is cut before the
filters of the send (10977); an empty selection writes an empty snapshot while an
empty set of known pools leaves the old one (`pool_scanner.rs` 4585, 1366); `jd6`
cannot parse a state file the scanner wrote and fails until it is deleted; the reconnect
backoff of the scanner is never reset (923); a planned tip of 0 is raised by the executor and
not covered by the threshold (21579, `executor.rs` 864), which `LandedPays` excepts; a
quote walks past the arrays it does not hold (23086), and the swap fills them first: each
pays as well as what was quoted, but rounds down bin by bin, so that many small bins of such
an array can take a trade below its promise by up to three units a bin, which the tolerance of
`PromiseKept` counts.

## What is proved

For every value of the constants under the named assumptions (`StreamAssumption`,
`LoopAssumption`, `AmountAssumption`, `SendPathAssumption`, `SendAssumption`, `WindowAssumption`,
`MarketAssumption`, `ScannerAssumption`, `ScanAssumption`, `RoundsAssumption`,
`BinAssumption`, `TradeAssumption`, `FundingAssumption`; TLC evaluates them in the runs):

* `AccountStreamProofs`: `TypeCorrect`, `Ordered` ([]InOrder), `NeverGoesBack`.
  `InOrder` is inductive with the types: reader, batch, queue, buffer and chain
  hold versions of an account in that order, a straight send happens only with an
  empty buffer, and everything in the buffer is at least as new as all that was sent.
  One lemma per kind of move (append, buffer, take, apply) and a frame lemma for
  the rest. That no step makes the reader older follows from it.
  `LosesNothing` and `StreamIsMailbox`: the newest waiting version of an account
  (`GreatestExists`, by well-foundedness of `<` on the bounded versions) is what the
  mailbox's slot holds. `StepKinds` sorts the steps into reads, applications, endings
  and moves; a move from queue or buffer to queue or batch leaves every slot alone
  (`MovesKeep`), a read puts, an application takes, an ending forgets. The order of
  versions is what makes this true: an update that replaces a buffered one, or that
  the batch coalesces away, is never the newer of the two.
  `OutlivesReceiver` and `FreshAfterTraffic` are inductive as they stand.
* `MarketStateProofs`: `TypesHold`, `IndexesStayInStep`, `DrainedIsCurrent`, `ChangesMark` and
  `RoutedAreHydrated`. The second
  is inductive with the types. The third needs `Rounds`: what the batch holds of an
  account is the newest taken from the stream, no answer of the RPC waits outside a
  hydration, and no answer is newer than the chain. An answer newer than the state it
  replaces leaves the update of it in the stream, or is the newest itself; an older one
  puts its pool among the `overtaken`, from where the next update of the vault takes it.
  `ChangesMark` needs only that the mark of a first sight
  outlives the hydration it starts (`MarkedWhileHydrating`). `RoutedAreHydrated` is inductive
  as `LimitsFilled`, with what is still to be asked counted as asked, if a token gets its
  route at a first sight only. A Pump curve could give it one by a second sight, were it
  active again after its completion; it is not, as no update is older than
  what is known of a pool (`ReadInOrder`, over load, subscription, drain and batch).
* `PoolScannerProofs`: `TypesHold` and `KnownStaysCurrent`, for a stream of any length and
  an RPC node any number of changes behind. `KnownIsCurrent` is not inductive: `Current`
  adds that of a pool that is not missed the last message under way says what the chain
  holds, so that reading the last one leaves the pool as it is there. A lookup overtakes
  the messages under way, which then put it right; where none is left about a pool the
  history `missed` takes the pool in if the node is behind, and forgets it if it is not.
* `SnapshotProofs`: the snapshot at both of its ends. Of `PoolRounds`, which writes it:
  `TypesHold`, `FileListsPairs`, `FileForgets`, `FileIsOfItsSource`, for any pools, tokens
  and misses. The rounds of the three sources write one file, so `IInv` speaks of the
  file and of the update under way: what is fresh is a selection, from the stage
  "list" on the next list is an update of the file as it still is (`Stages`), a file
  without a source is empty (`Kept`), and an entry of a
  merged list has a partner of another venue that is missed no more often than
  itself (`Company`): so the pruning drops both in one round and never one of a pair.
  `FilteredFacts` and `MergedPartnered` say what the two ways to an update keep,
  `PutAndCut` what the bounded history of rounds holds. Of `MainLoop`, which reads it
  (`Loop`): `LoopTypesHold`, `TwoSidedAlways`, `OnlyCurrent`, `ChangesKept`.
  The last uses that a build reads the newest revision, which is never behind the
  marker (in `TypeOK`).
* `TradeProofs`: a trade where it is planned and where it is carried out. Of `LandedTrade`:
  `TradeTypesHold`, `MissesOnlyTheNew`, `LandedTradesPay` and `PromisesAreKept`, for any pools, prices, fees,
  slippages, tips and moves of others between quote and landing. Quote and swap go from bin
  to bin by a recursive function; `Iterated` shows once that such steps make a function and
  `UpTo` that what each hands on reaches the last, both from the least element
  of a set of natural numbers (`LeastOf`), so that `WalkFacts` and `SwappedFacts` say what
  any number of bins leaves. `JoinedFacts` says that a list joins the accounts as a
  whole or fills them, and `WindowFacts` follows it through the four lists. The inductive
  `TradeInv` adds to the types that a built trade's least profit is `MinProfit` of its
  tip (`Planned`), and that its accounts hold all that is known or are as many as
  may be (`Accounted`), which nothing on the chain can undo.
  `PromisesAreKept` sets the quote's walk beside the swap's. `Matches` relates the two
  after every bin: while both go on, the swap is ahead only by what bins in arrays not
  held here took, and was paid for it at no less than the price reached; when the swap is
  done first, what it was ahead pays for the rest of the quote; and when the quote is
  done, it is paid. There is one lemma for each way a bin may be filled (`MatchesIdle`,
  `MatchesAfter`, `MatchesStrange`, `MatchesShared`, `MatchesBehind`), all from what one bin
  pays at least (`PaysBounds`, `PaidWorth`) and is quoted at most (`QuotedWorth`); all of it
  is multiplied by the denominator of the fee, so that only the bins round. That prices
  fall from bin to bin is what makes the tolerance one unit of the first price. The
  invariant `Backed` carries the quote from the copy it was taken of to the chain, and says
  that what is paid first buys what was quoted, roundings included (`PaidBuys`).
  Of `TwoHopExecutor`: `ExecTypesHold`; then `StagesHold`, the strengthening that says
  per stage of the instruction how balances and `amountIn` relate to `start`; from
  it `CommitsOnlyProfit`, `SellsOnlyBought`, `OffersAllBought`.
* `PlanProofs`, of `SendPath`: `PausedNeverSends`, whose invariant is inductive as it stands
  (everything that is sent was built, and building reads the switch), and, where
  failures are final (`~Forks`), `OneTransactionLands`. For this `SendInv` adds
  where the call is: wherever it may send again no transaction of it is alive, and
  while it waits for a confirmation only the last one is. `SendTypesHold` is
  inductive with the table an extension works on (`SendTypes`): while chunks are sent some
  table has addresses left (`TargetFacts`), and what it is given is part of what the plan
  needs and no table lists (`MissingTyped`, `RoomTyped`, `ShareTyped`).
  `GivenUpWhenFull` and `TheSecondSendFits` follow a whole extension, chunk by
  chunk, beside those that earlier calls gave up on and that may still land. Their
  invariant `ExtensionInv` has four parts besides the types. Copies of tables are never
  ahead of them (`Grown`). A pass over the sends extends once, so that what lands
  while it waits is its own chunk (`SentOnce`). When addresses are left over, a table and
  what is left for it add up to its capacity (`Filling`, from `SharesFill`), and a plan
  that finds no place at all has seen full copies (`NoSharesFull`). When none are left
  over, each is listed by a table as seen, or is in a table or on its list and the copy
  goes with the end of that list (`Covering`, from `SharesComplete`); forgetting
  the copy there, and not at the end of the extension, is enough for this.
  Of `PlanFunding`: `FundingTypesHold`, `InputIsFunded`, `TradesAreWhole` and
  `QuoteNeverFalls`, for any builders, amounts, gains, balances and number of transactions in
  the air. A setup is `Provided` for when, on the chain as it is now, each account exists
  or is created, the quote account before anything is moved into it; the input is
  there or its shortfall is transferred and then synced; and the extension is there or
  initialized. This is not what a builder checks (it reads caches), so `FundingInv` says it
  of each plan as far as it is built (`Made`: what no step left in `todo` still owes), of
  the setup held (`Serves`) and of every transaction in the air (`Flies`). It is kept
  because cached readings never exceed the chain (`CachesOK`) and the chain only grows
  (`ChainGrows`, from which `ProvidedLater`): a trade that lands, whichever it is, had its
  least gain enforced by the executor or by its last leg (`LandKeeps`). `HoldsStep` and
  `LandsFunded` run a list that is provided for through the chain, instruction by
  instruction; `InPlaceKeepsRest` says that a split by the length of another
  setup leaves the trade whole, and `Serves` that the setup put in place of the new
  one serves as well. That a plan built again before its send may go with the setup of the
  plan before is why `Serves` speaks of `AllowInit`: that plan initialized, or found, the
  extension whenever the new one relies on it.

* `DirectSendProofs`: `CooldownsAreKept`, `AttemptsKeepApart`, `UnitsBelongToPlan`,
  `SearchStaysBetween` and `TypesHold`, for any windows, steps, durations and numbers of
  calls. One lemma, `BehindProceeds`, goes through every way a build, simulation or send can end and says
  what they have in common (`Outcome`): cooldowns are set for the family's own keys,
  only where the call is left or starts again, and never by `rpc_direct`. The inductive
  invariants are then short: `CallInv` (no units before the send; the search sound),
  `AttemptInv` (the last call past the gates is remembered by the attempt it recorded or
  lies back by the interval, for an attempt is pruned no earlier), `CoolInv` (a cooldown
  that runs ends at the latest end ever set, and behind the gates none runs; for the
  families `Held`, none of which there is while skipping is switched off). What makes
  the last inductive is that the gate that asks stands before all that cool
  (`CooldownFirst`). `SearchStaysBetween` assumes that no error moves the window without
  setting a bound, which observation 8 shows to be needed. `TypesHold` bounds the builds of
  a call, which no gate does: each plan beyond the first is for another size or answers the
  failure of the one before, once after a simulation and once after a send (`Counted`).
* `ScanRoundProofs`: `TypesHold`, `TheBestAreSent`, `EverySendPays`, `OthersAreAFallback`
  and `ASendNeverDiscourages`, for any opportunities, limits, weights and margins. The
  code sorts, cuts to `MaxScan`, filters and cuts again; `BestFirst` needs that what
  it cuts is nowhere better than what it keeps. `Listable` shows that a finite set with
  a linear order has an ordered list, `BeforeOrder` that priority, profit and path give
  such an order, and from both `ListedFacts` and `ChosenFacts` say what list and sends
  hold. The inductive invariant `IInv` then says of each stage what it holds: every
  candidate found is well made (`WellMade`: payable if exact, its gate no further from
  its net profit than base and limit allow, one per path), all of them come from
  kept tokens or none does (`KeptOrOthers`), and while sending, what has been sent is the
  taken part of one ordered list of what was found (`Sending`). `EverySendPays` needs in
  addition that a record without evaluations has no near misses, as else a
  path never looked at could have its gate lowered.

Only model-checked: liveness (`BufferedReachesReader`, `LaterChangesRead`,
`MarksAreScanned`, `CallEnds`, `CallReturns`, `SnapshotSettles`, `TradedIsKnown`, and
`BufferedTaskStops` of `MCAccountStreamAll`), which the prover does not do under fairness;
and the properties of the hand-run configurations that end in a counterexample, which the
code does not have.

## What is not modelled, and why

Constant-product and concentrated-liquidity arithmetic (`strategy/quote.rs`, `clmm.rs`,
`program_pairs.rs`), beyond what a profit decides, and quotes in floating point: prices are whole
numbers in `BinQuote`, and the candidates of `ScanRound` have given profits. Bins are held or
empty as the depth says, and fees are one fraction; the variable fee of a pool and its
volatility are left out. PumpSwap's curve is linear in `LandedTrade`, so its price impact
is not seen there. `DirectSend` does not say which error a given build makes, only which
may come at a window; `PlanFunding` wraps and creates, but leaves rents and fees to the
wallet. Nor does it have `DISABLE_LOCAL_PROFIT_CHECKS`, which lowers least outputs of some builders
(`main.rs` 25939): the gain of at least 1 that the executor asks for remains, and it is what
`BalanceNeverFalls` rests on there. The throttle of the manager and Jito's slots only delay: the main
loop awaits each send, so there is no second caller. A lookup table that does not
exist, or is not yet warm when another call reads it, is left out. Instruction layouts and
parsers' byte offsets are data without steps. The
fetch of a snapshot by URL is the same change of revision as the file. A pool's two
vaults are one in `MarketState`, so neither a torn pair of reserves nor an index that names
the wrong side of the right pool is visible there.
The accounts of a listed pool are taken to parse (the build has parsed them), and
every new version of a Pump account to change its reserves. Functions of `main.rs` nobody calls
(`process_direct_tokens`, the `preflight_*` and startup probes among them) are left out.

## Plan

1. The two vaults of a pool as two accounts, composed with a scan, and the completion of
   a Pump curve.
2. Market classification: one record that fails among many.
3. Concentrated-liquidity quotes against a reference walk over hydrated ticks.
4. The warm-up of lookup tables across calls, and the age of a blockhash.
