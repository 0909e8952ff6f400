# Aurum Markets: TLA+ models of the broker

TLA+ specifications of the demo broker in this repository (a NestJS backend with
Prisma/Postgres and Redis, and a Next.js frontend), the TLC configurations that
check them on small instances, and theorems about them that TLAPS checks for every
value of the constants. Paths below are relative to `src/Backend/src/` unless they
start with `src/`.

Run `tlc -workers 2 -config X.cfg M` for a module and configuration of the table of
runs, and `tlapm M.tla` for a proof module. `PROJECT.json` maps every definition to
the lines it models and lists the hazards, findings and mutants.

## 1. The system

| Component | State it keeps | Operations | Hard behaviour | What makes it correct |
|---|---|---|---|---|
| Deposits (`modules/payments/payments.service.ts`, providers) | tables `deposits`, `payment_events`; the timers of simulated payments, in memory | `initiateDeposit`, `handleStkCallback` | callbacks come twice, late, early, at once and contradicting; the provider's HTTP reply is lost; a crash between any two awaits | one credit for a deposit, CONFIRMED exactly when credited, an outcome that agrees with the one event recorded, a callback that is taken up settles the deposit |
| Reconciliation (`reconciliation.service.ts`) | none | `run`, hourly | its queries run between other commits | no false mismatch |
| Wallet and ledger (`modules/wallet`, `modules/ledger`) | journal entries; balances are derived | `transfer`, `requestWithdrawal`, `post`, `balance` | balance checks and posts are separate awaits with no lock; rounding to cents | balanced entries, the payable equals the withdrawal rows, no overdraft |
| Account lock (`trading.service.ts` 68-80) | a map of promises | `withLock` | chained promises resolve a turn of the event loop late | mutual exclusion, order of arrival, no starvation |
| Trading account (`trading.service.ts`) | tables `positions`, `orders`, the account's ledger code | `placeOrder`, `closePosition`, `modifyPosition`, `evaluate`, `applySwaps` | quotes, the rollover and transfers come between the awaits; closes fail half way through a liquidation; restarts | orders fill once, stops and stop-outs happen, liquidation neither too short nor too long, lots and swap are conserved |
| Account engine (`account-engine.service.ts`) | `running`, `lastSwapDay`, in memory | `tick`, `maybeRollSwaps` | an error ends the tick; a restart forgets the day | every due account is evaluated, one charge a night |
| Valuation (`positionMath`, `buildSnapshot`, `getQuote`, `getConvRate`) | none; it reads the last-value cache | valuing an account for snapshots, margin checks, stop-outs; conversion of orders, closes and swaps | positions, quotes and rates are read one await after the other; an instrument may have no quote | every open position counts, each row is its own, nothing is converted at a rate nobody quoted |
| Trading mathematics (`engine.ts`, `common/money`) | none | P&L, margin, level, stop-out plan, settlement lines | ties, boundaries, rounding | worst first, just enough, balanced |
| Snapshots (`trading.service.ts` 106-205) | none | `buildSnapshot`, `emitSnapshot` | built by several awaits outside the lock; they overtake each other | a watcher sees the latest state in the end |
| Gateway (`gateway/quotes.gateway.ts`) | connections with their user, subscriptions and watched accounts; the buffer of frames | `onConnection`, `onMessage`, `flush`, event fan-out, clean-up | the session is looked up before anything is listened to; a socket closes meanwhile; the ownership check is an await | only the owner's connections get an account's data; frames do not go back in time |
| Realtime client (`src/Frontend/src/lib/ws.ts`, stores) | one socket, reference counts, the watched account, stores | `subscribe`, `watchAccount`, reconnect | handlers of an old socket run after a new one is opened | what is subscribed is delivered again after a reconnect, and nothing else |
| Authentication (`modules/auth`) | tables `users`, `sessions` | `register`, `login`, `verifyLoginTotp`, `setupTotp`, `enableTotp`, `disableTotp`, sessions and their guard | every operation reads, awaits and writes; two registrations race; a secret is replaced between check and enable | an enabled factor can be answered, staff use it, a session has the account's password |
| Market data and candles (`modules/market-data`) | last-value cache, the candle being formed, table `candles` | feed callback, `persist`, `backfill`, `getHistory` | writes are not awaited; restarts within a minute; a limit on the rows that are rolled up | a stored minute covers every tick of it, no bar is cut short |
| Chart, sign-in and deposit form (browser) | bars, the step of signing in, the deposit being waited for | `setData`, `update`, submit, poll | history and quotes come in any order; polls overlap | bars ascend and show real prices; a settled deposit is shown |
| Audit, configuration, validation, errors, users, metadata | little or none | | | |
| Other pages and components | presentation | | | |

How they interact. The engine's timer calls `TradingService.evaluate` for each account
with open positions and then the rollover; the owner's requests call the other trading
operations. Both go through `withLock`. Closes post to the ledger, the same ledger the
wallet and the payments service post to; transfers and the rollover do not take the
account lock. Quotes reach trading through the Redis last-value cache, which the feed
overwrites five times a second. Payments are started by a request and finished by a
callback of the provider, with only the database between the two. The gateway gets
prices from the feed's callback and the cache, and accounts from `TradingService`, which
emits a snapshot after each trade and each engine round; a browser tab holds one socket
to it and shares it between its pages. The deposit form polls the payments service over
HTTP. The backend is one Node process, and so is a tab: code between two awaits is
atomic, anything may happen at an await, and a `$transaction` is atomic whatever happens.

## 2. The modules

| Module | Models | State and actions |
|---|---|---|
| `DepositPromise` | what the payments service promises: a deposit is opened, then credited once or failed | `outcome`, `credits`; `Open`, `CreditOnce`, `Fail` |
| `Payments` | deposits, STK callbacks, both providers, reconciliation | tables `deposits`, `events` (payloads; the key is the deposit), `journal`; `Deliver` takes any callback for a deposit whose reference is out; `request[d]` and `handler[h]` are program counters of `initiateDeposit` and `handleStkCallback`, one action for each await |
| `AccountLock` | `withLock` | `locks[a]` and `prev[c]` are the promise in the map and the one a call waits for; `settled` are the chained promises that have resolved; `line` is a history of arrivals |
| `Wallet` | transfers and withdrawals of one client over the ledger | `net[c]` is credits minus debits of a code; a request is checked by one action and posted by another |
| `Engine` | the pure functions of `engine.ts` and the two roundings | operators only |
| `StopOut` | every small book and its stop-out plan, because `Engine` has no state of its own | `cash`, `book`; `AddPosition` |
| `Valuation` | one account's positions in several instruments: last-value cache, market hours, conversion rates, `positionMath`, and the orders, closes, stop-outs and swaps that rest on them | `lvc` the symbols with a quote, `symbol[s]` and `open` the positions, `builds[b]` the valuations under way, `pending` the positions an order waits to open, `call` the holder of the account lock, `tick` the engine, `roll` and `charge` its rollover; `forgotten` is a history |
| `DepositPage` | the deposit form of the wallet page over `DepositPromise` | `form`, the status requests under way (`polls`), the balance query; `outcome` and `credits` belong to the promise |
| `Sessions` | `AuthService` and `SessionGuard` under several browsers | tables `users`, `sessions`; `browser[b]` is its cookie and page; `call[b]` its request between a read and a write; `app` the secrets in authenticator apps |
| `MarketData` | feed callback, candle store, public quotes channel, quotes store, chart, for one instrument | `live`, `writes` (upserts under way), `rows`, `lvc`, `buffer`, `conn`, `wire`, `store`, `chart`; `seen` and `quoted` are histories |
| `Channel` | one tab's `QuotesSocket` and account store, its sockets, the gateway's connections, snapshots | `tab`, `ready[k]`, `up[k]`, `down[k]`, `conn[k]` for each socket; `builds` are the snapshots being built; `book[u]` the account |
| `Trading` | one account under its owner's requests and the engine | tables `positions`, `orders`; `job` is the call that holds the account lock, `closing` its `closeInternal`, `tick` and `roll` the engine, `clock` the day and hour, `paid` and `still` histories |

The modules `MC...` hold what TLC needs: symmetry, the values of `Protections`, the
instruments of the seed. Four of them have a variable `subject`, chosen at the start and
never changed: a behaviour is about one subject and the others stand still, which keeps
parts that do not disturb each other from multiplying. `MCLive` joins the payments
service, the deposit form and the account lock, `MCServices` sessions, candle storage,
quotes and chart, `MCChannel` the tab's subscriptions and its account, `MCFunds` the
wallet, the valuation of positions and the stop-out plan of a book. `PaymentsProofs`,
`AccountLockProofs`, `WalletProofs`, `EngineProofs`, `TradingProofs`, `SessionsProofs`,
`MarketProofs` and `ChannelProofs` hold the theorems; those about `Valuation` are in
`WalletProofs`.

How they compose. `Payments` instantiates `DepositPromise` as `Promise`, with the
refinement mapping `outcome <- the status of each deposit`, `credits <- journal`.
`DepositPage` instantiates the same module as `Service` and runs the form on top of it:
the form is checked against what the service promises, and the service is shown to keep
the promise.
`Trading` extends `Engine` and calls its stop-out plan and settlement lines; `StopOut`
extends it to compare the plan with what it should be. `Valuation` is the part of
`Trading` that `Trading` takes in one step and for one instrument: who has a quote, at
what rate, and which positions are counted. `Trading`
uses what `AccountLock` shows: since calls on an account run one at a time, one variable
`job` is enough, and since every call is served in its order, the evaluation is assumed
strongly fair. `Wallet` and `Trading` each hold the part of the other they need as
single steps (`SettleTrade`; `TransferIn`, `CheckTransferOut`, `PostTransferOut`).
`Channel` has of the account what a watcher can tell: that its positions or its balance
have changed, and whether the engine looks at it (`Trade`, `Transfer`, `Evaluate`).

Definitions introduced by the comment "Variant:" are plausible mistakes (a missing
unique index, a forgotten guard). They are not part of any specification; the mutants
of `PROJECT.json` put them in the place of the real definition to see that the property
notices.

### Abstractions

- Payments: no amounts. The credit is the deposit row's amount at a fixed rate and never
  comes from the callback. The CheckoutRequestID is named by its deposit, being unique
  to it. The route of the callback takes every body (`payments.controller.ts:49-56`) and
  the handler looks at nothing but its reference, result and receipt; so the model does
  not say who sends a callback. Once the reference is out (the provider has accepted the
  push, or the row the client can list has it) any result with any receipt may arrive,
  any number of times, or never. No property speaks of what was paid: the code has
  nothing to tell it by, so what is stored of a deposit is related to the event stored
  for it (`OutcomeAsRecorded`). Callbacks for references nobody has given out only add
  events and are left out. The notification of the success transaction is left out, and
  so is the audit entry after it, which changes nothing else.
- Wallet: amounts count half cents so that rounding to the even cent meets its ties.
- Engine: money counts units of the last stored decimal, and contract size and
  conversion rate are one. The code divides by the leverage; the model multiplies the
  other side of each comparison by it, so it meets no rounding of a quotient (the code
  carries 40 digits).
- Trading: one instrument, quoted from the start, of an account that stays ACTIVE
  (`Valuation` has several, with and without quotes). `buildSnapshot` and `positionMath`
  read quotes, positions and balance by several awaits; the model reads them in one
  step, except where the property is about the reads being apart (fill price before
  margin check, plan before closes, position and quote before settlement, position
  before swap update). The free margin that `placeOrder` compares is rounded to cents in
  the code; the model compares it exactly. Lots are rounded by their column (half away
  from zero), partial closes of 0 lots are the code's "no lots given". Snapshots are in
  `Channel`.
- Valuation: of a price only whether there is one, of a rate only where it came from, so
  whether the margin is enough, whether a trigger or stop is hit, whether a level is
  breached and what a plan closes is left open (`Engine` and `Trading` compute it). The
  engine's tick is a cycle: the evaluation under the lock, triggers first, when the
  account has an open position, then the rollover. A limit or stop order keeps a row of
  `symbol` for the position it may open. The two lookups of `getConvRate` are one step:
  a quote, once cached, stays until the process ends. Restarts of a Redis server are not
  modelled. The account is in dollars, the only case `getConvRate` handles.
- Sessions: a password is right or wrong, a code answers a secret or does not, and the
  secret is in the app once the page has shown it. The guard's read of the session is
  taken together with the operation's own first read; it takes only the user's identity
  and role from the row, which never change. `Expire` is the passing of `expiresAt` and
  may come at any time; the token of the second step expires by the step not being
  taken. `raced` names the users who had two management requests overlap.
- MarketData: one instrument; the mid price stands for the frame. Time is counted in
  ticks of the feed. Volumes of rolled-up bars are left out. `writes` is a set, so the
  upserts may reach the table in any order. The connection is one, and authenticated.
- Channel: each user has one account. Its content is two version numbers, of positions
  and of balance, because a snapshot reads the one and then the other. The read of the
  balance is taken with the sending. A connection whose socket has closed is removed
  with it, and snapshots being built for it are dropped: the code goes on to write to a
  closed socket, which does nothing. Quotes are in `MarketData`; account events (toasts)
  travel as snapshots do and are left out.
- DepositPage: the service reads and answers a status request in two steps, the balance
  query in one. A request that is cancelled has no effect. The form keeps no deposit
  across a reload, so leaving the page loses it.
- Nothing models the order in which the database returns rows: every loop over a query
  takes the rows in any order, and the stop-out plan is made for every order of the
  positions.

## 3. The runs

| Run | Configuration | Bounds | What it shows |
|---|---|---|---|
| `payments` | `MCPayments.cfg` | 2 deposits, 1 receipt number, 2 concurrent callbacks, 2 faults, either provider, any callback; 207k states | type invariant, `OneCreditPerConfirmedDeposit`, `OutcomeAsRecorded`, `ReconciliationAgrees`, and refinement of `DepositPromise` |
| `live` | `MCLive.cfg` | service: 1 deposit with Daraja or 2 that share a receipt with the simulated provider, 2 callbacks, 1 fault; form: 2 deposits, 2 polls at a time, 2 failed requests; lock: 4 calls, 2 accounts; 80k states | `MutualExclusion`, `FirstComeFirstServed`, and under fairness `CallbackSettles`, `SettledIsShown`, `EveryCallIsServed` |
| `payments_early` | `MCPaymentsEarly.cfg` | 1 deposit | violation of `HandledPaymentIsCredited` |
| `funds` | `MCFunds.cfg` | wallet: 2 requests, 2 accounts, 3 amounts, 2 other movements; positions: 4 of the seeded instruments, 2 positions, 1 snapshot besides the lock holder's valuation, either cache, 1 restart; plan: every book of at most 3 positions over 7 P&Ls, 3 notionals, 4 balances; 726k states | `PayableMatchesRequests`, `OverdraftBounded`; `QuotedIsConverted`, `EveryPositionCounts`; `PlanIsWorstFirst`, `PlanIsJustEnough` |
| `wallet_race` | `MCWalletRace.cfg` | 2 requests | violation of `WalletNeverNegative` |
| `trading` | `MCTrading.cfg` | 2 positions, 1 pending order, 2 prices, 1 change of stops, 1 fault; 253k states | `OrderFillsOnce`, `PlanStaysRight`, and under fairness `StopsAreHonoured`, `NeverLeftUnderStopOut`, `OrdersAreTriggered` |
| `trading_swaps` | `MCTradingSwaps.cfg` | 1 position of up to 8 column units, 2 closes, 2 nights (the second triple), 1 transfer, 1 fault; 1.1M states | `LotsWithinRounding`, `SwapIsAccruedOrSettled`, `OneChargePerNight` |
| `plan_boundary` | `MCStopOut.cfg` | books of 2 positions | violation of `PlanRestoresAbove` |
| `trading_sizes` | `MCTradingSizes.cfg` | 1 position, 2 closes | violation of `ClosesStayWithinSize` |
| `valuation_margin` | `MCValuationMargin.cfg` | 2 positions | violation of `MarginCountsAll` |
| `services` | `MCServices.cfg` | 2 users (one staff), 2 browsers, 2 sessions, 2 passwords, 2 secrets; 4 minutes of 2 ticks, 2 prices, bars of 2 minutes, either cache; 727k states | `FactorIsAnswerable`, `StaffUseTheFactor`, `SessionsHaveThePassword`; `StoredMinuteIsWhole`, `HistoryHasNoCutBucket`, `QuotesNeverGoBack`, `ChartIsTrue` |
| `channel` | `MCChannel.cfg` | 2 users at 1 tab, 1 symbol shown by up to 2 components, 3 sockets, 1 fault, 1 change of account or user; 331k states | `OnlyTheOwnerWatches`, `SubscriptionsAgree`, and under fairness `SubscriptionIsKept`, `AccountIsShown` |

Why the bounds are enough. Two deposits sharing the one receipt number make every
collision of unique keys; two callbacks at a time are the least that race, and a third
only queues behind the key the first took. In `live` one deposit with Daraja meets the
early callback, and two of the simulated provider, which differ in nothing but their
receipts, the collision (`DepositBound`). Four calls on an account give a chain with a
middle; the second account shows that chains do not mix. Two racing requests show the
check-then-act gap and the bound `OverdraftBounded` states is proportional to the number
of requests, so three would show nothing new. Three positions give the plan a first, a
middle and a rest, with ties and a level of exactly 50%. Two prices, one below the
stop-loss and one at the target, hit every trigger, and with two positions of either
side one closes at a loss while the other stays. Two nights and one restart give the
repeated charge. Of the instruments one is priced in dollars and trades at the weekend,
one converts by a second instrument, one by the inverse of itself and one is that second
instrument: each way through `getConvRate`, and a position that is quoted beside one
that is not. A valuation with two positions has one to pass over and one to miss.
`Apart` lets the snapshot for a screen begin and end only between the valuations of the
lock's holder and outside the charging of swaps: none of the three changes what another
reads, and the closes, fills and restarts that do still come between its awaits. Two
browsers make every race of two registrations, two set-ups or a set-up and a sign-in; a
third would only repeat one of them. Four minutes give the candle store history before
the first boot, a minute cut by a restart, a missing minute and a bucket that the row
limit could cut; two ticks are a first and a last. One fault costs up to two sockets
(one opened before the old handler runs, which forgets it, and its successor), so three
let the tab settle on a last one; that is what `ChannelAssumption` asks. Two components
on a symbol are needed for a reference count that is not just a flag, and two messages
to the gateway for a subscribe and an unsubscribe under way together. Two deposits and
two polls let an answer about the first come while the form waits for the second. Every
action of every module fires in one of the passing runs.

Deadlock is checked in the runs of `Trading` only: in the others the bounded supply of
requests, amounts, calls and books runs out, and there is nothing left to do.

### Fairness

`withLock`, `Payments` and `Trading` assume weak fairness of the steps the event loop
runs: a continuation that is ready runs, a database call returns or throws, the timer of
the engine fires. No fairness is assumed of clients, customers, prices, faults or time.
For `Channel` these steps are the events of sockets (`OnOpen`, `OnClose`, `Receive`,
`OnMessage`), the reconnect timer, the session lookup, the engine's round and the
reads and the sending of a snapshot; for `DepositPage` the polling timer and the answers
to requests that do not fail. Nobody is made to act: mounting, watching, signing in,
trading and faults are free, and faults are bounded. Nothing makes a callback arrive, a
first time or again: no code asks the provider (the STK Query of
`src/docs/OPERATIONS_NOTES.md:120` is not written), so a deposit whose callback is lost,
or whose handler dies, stays PENDING unless another comes. `CallbackSettles` is therefore
about callbacks that are being handled and timers that are set, and a crash or failed
call, an event recorded too early and a clash of receipts end its wait, by name. Strong
fairness is assumed in two places: of the timer of a simulated payment (`TimerFires`),
because the model's handler slots are bounded and the code's are not; and of
`BeginEvaluation`, the engine's turn at the account lock, because the owner
may take the lock again and again. `EveryCallIsServed` of `AccountLock` justifies the
second: a call that waits gets its turn before any that comes after it.

The liveness properties say that a condition which is due does not stay due: with
prices that keep moving a stop may be hit and left again between two ticks, and the code
promises no more than to look once a second. `AccountIsShown` speaks of a tab that in the
end goes on watching an account the engine looks at, and `SubscriptionIsKept` lets a
request that the gateway lost (`lost[k]`) end the wait, by name.

### Findings

1. An early callback is never credited (`payments_early`). Daraja may call back before
   `initiateDeposit` has stored `providerRef` (lines 44-50). `handleStkCallback` records
   the event of the unknown deposit, and from then on every delivery is a duplicate.
   The comment at `payments.service.ts:70` promises exactly one credit.
2. Concurrent requests overdraw the wallet (`wallet_race`). The balance is read and the
   entry posted in separate awaits, in `transfer` and in `requestWithdrawal`.
   `OverdraftBounded` says by how much at most.
3. Closes finer than the lots column pay out without shrinking the position
   (`trading_sizes`). `closeLots` is checked to be positive and at most the size, never
   to be a multiple of a step, and the remainder is rounded to four decimals.

4. A margin check does not see the whole book (`valuation_margin`). `positionMath` passes
   over positions without a quote; after a restart with the in-process cache over a
   weekend an order in BTCUSD is checked against an account without its losses and
   margins in other instruments. The comment at `trading.service.ts:239` says
   "Free-margin check against current book." `EveryPositionCounts` shows that nothing but
   a loss of the cache while the markets are closed leads to it.
5. A stop-out may leave the margin level at exactly 50% (`plan_boundary`). The loop of
   `stopOutPlan` ends at a level of at least `stopOutLevel` (`engine.ts:152`), where the
   comment at `engine.ts:134` and `src/docs/OPERATIONS_NOTES.md:51` say above it. The gate
   in `applyStopOut` (`trading.service.ts:493`) is open at exactly 50%, where the plan is
   then empty. `PlanIsJustEnough` states what the code does.

What the runs met and no property refutes, because no document promises otherwise or the
property leaves the case out by name (`raced`, `lots > 0`, `used.faults`, `lost`,
`driver = "memory"`, `form.told # d`, `blind`):

- Payments: a payment reported after a failure is a duplicate, and the deposit stays
  failed; `src/docs/OPERATIONS_NOTES.md:128` asks for a query instead ("never assume
  failure on timeout"). A callback that is lost, or whose handler dies, leaves the
  deposit PENDING unless it is sent again.
- Account lock: the clean-up of the map compares two promises that are never the same,
  so an entry stays for every account.
- Trading: a transfer to the wallet looks at the balance and not at the margin in use; a
  pending order is filled without a margin check; an order of an account without
  positions is not looked at; the rollover overwrites a swap that a concurrent close
  settled; a restart within the rollover hour charges the night twice; a partial close
  that leaves a row of zero lots drops its swap.
- Valuation, after the restart of finding 4: a stop-out passes over the same positions; a
  row of a snapshot whose position was passed over shows the profit of another; and the
  rollover, which asks for no quote, charges the swap of a USDJPY position in yen, because
  `getConvRate` answers 1, with a warning, when it finds nothing to convert by.
- Channel: an account without positions is not looked at by the engine, so a stale or
  overtaken snapshot, or one from before a transfer, stays on the screen. What the tab
  sends while the gateway looks its session up is lost, and so is a close: the
  connection of a socket closed then stays in the gateway's map. A socket opened before
  signing in stays unauthenticated, and one opened by the first user goes on to stream
  the first user's account after somebody else signs in. A socket opened while the
  previous one is closing is forgotten by the old one's close handler and goes on
  streaming beside its successor. Nothing reconnects when no symbol is shown, although an
  account is watched.
- Deposit form: an answer about an earlier deposit ends the wait for a later one.
- Sessions: a `setupTotp` that overlaps `enableTotp` or `disableTotp` can leave a
  factor enabled whose secret nobody has seen. The row of a registration stays when a
  later step of it throws.
- Market data: a backfill that was interrupted is never completed; the bar the chart is
  forming after a load misses the ticks of the minute that is still in memory; the
  answer of a Redis server to `subscribe` can be overtaken by a flush.

## 4. What is proved

All theorems hold for every value of the constants that satisfies the module's named
assumption; TLC evaluates the same assumptions on every run.

- `PaymentsProofs`. `TypeCorrect`, `CreditedExactlyWhenConfirmed`, `SettledAsRecorded`,
  `ReconciliationIsQuiet` and the refinement `PaymentsImplementPromise`. The properties
  are not inductive: a confirmation is safe only because no event is recorded for a
  deposit that is still open by the time a second handler commits. The inductive
  invariant `IInv` adds that a deposit has its reference exactly when it has left
  INITIATED and a handler about to commit found it by that reference, that a settled
  deposit has its event recorded, that a receipt is filled in exactly on CONFIRMED rows,
  that entries of the journal and CONFIRMED rows correspond one to one, that a handler
  is about to write what its callback reports, and that what the reconciliation still
  has to check is in the journal. Nothing is assumed of the callbacks. The refinement
  then needs one step lemma per group of actions: quiet steps stutter, `CreateDeposit`
  opens, `ConfirmDeposit` credits, `FailDeposit` fails.
- `AccountLockProofs`. `TypeCorrect`, `ServedInOrder` and `Exclusion`. The invariant
  says that each call in a line waits for the promise of the call just before it, that
  the map holds the last one's, and that a promise is settled only when its call and all
  before it are done.
- `WalletProofs`. `TypeCorrect`, `PayableIsRequested`, and `SerialRequestsNeverOverdraw`:
  with at most one request the wallet is never negative, which places the blame for
  `wallet_race` on concurrency alone. `OverdraftIsBounded` is the other side, for any
  number of requests: the wallet less all debits that have passed their check is never
  below zero by more than the largest debit for each request but one (`OverdraftInv`).
  The sum of those debits is a function of running totals over the numbered requests
  (`Totals`); its lemmas say what a change of one debit does to the total. It assumes
  that there are amounts and requests, and finitely many (`Overlapping`).
- `EngineProofs`. `RoundingError`: half-even rounding is off by at most half a unit.
  `SettlementIsBalanced`: debits equal credits in the lines of every close, so
  `LedgerService.post` cannot refuse one as unbalanced. `WorstFirst` and `JustEnough`:
  the stop-out plan of every book, of any length, with any ties; "enough" is a level of
  at least the stop-out level, as in the code (finding 5). `PlanRight` says of a
  plan that its positions are different and open, each a worst one of those left
  (`Worse`), and that the loop is over after the last and not before; the lemma on
  `LeftAfter` follows the loop turn by turn.
- `WalletProofs`, on `Valuation`, from one invariant `ValueInv`: `ValuesAreTyped`,
  `QuotedConvertsAlways` and `NoPositionIsLeftOut`. None of the properties is inductive.
  They hold because each quote that is there has its rate (`QuotedCanConvert`: the
  instruments quoted together are closed under conversion, which is what
  `ValuationAssumption` asks of the seed), every position was opened in an instrument
  that had a quote and, unless quotes were forgotten, still has it (`KnownIsQuoted`),
  what a call has read so far is converted (`CallSound`, `ChargeSound`), a valuation
  under way has counted each position it has come to (`Sound`), and what the holder of
  the lock values is what is open, since nobody else opens or closes (`LockValues`).
- `SessionsProofs`. `SessionTypesCorrect`, `FactorCanBeAnswered`,
  `StaffAlwaysUseTheFactor`, `OnlyOneRegistrationWins`, `RevokedByTheOwner`, all from one
  invariant `SInv`. Between a read and a write nothing holds the row still, so the
  invariant says what of the read is still true at the write: a request under way is for
  an existing user, and one about to open a session for the password the account has (no
  operation replaces it); a factor about to be enabled was answered, and if nobody
  raced, is the one in the row; no disabling is under way for staff.
- `MarketProofs`. `StoredMinutesAreWhole` from `CandleInv`: the live candle summarises
  what this process has handled of its minute, the writes under way are of minutes that
  are over, so nothing more is added to what they must summarise. `QuotesMoveForward`
  from `QuoteInv`: the times of store, wire, buffer and cache ascend in this order.
  `HistoryIsNeverCut`: `getHistory` reads `limit * tfMin` rows, a bucket has at most
  `tfMin`, and so the bars it returns lie behind any bucket that was cut, however many
  minutes are missing; the lemmas say what the sort (`Ascending`), the cut (`Newest`,
  `LastOf`) and the fold over the rows (`Roll`) return. `MarketTypesCorrect` and
  `TheChartIsTrue` from `ScreenInv`: every candle, frame and bar on its way to the screen
  shows prices that were quoted in its time, and the chart's bars ascend.
- `ChannelProofs`. `TypeCorrect`, and `OwnersOnly` from two more facts: a socket not yet
  opened has no user, no messages and no accounts, and a snapshot being built for one
  socket is of the account of that socket's user. `SubscriptionsSettle` from `SubsInv`:
  what a socket is subscribed to once all that is on its way has been handled is decided,
  symbol by symbol, by the last message that mentions it (`Settles`), and that is always
  what the tab counts; so nothing has to be said about the effect of the whole queue.
- `TradingProofs`. `OrdersFillOnce`, `NightsChargedOnce` and `LotsConserved`. The
  invariant `FillInv` adds that rows keep their columns, and that a row which was never
  opened belongs to no order. `NightInv` adds that a restart, which forgets the last day
  rolled over, allows one charge more, that a rollover under way charges each position
  at most once, and that no tick rolls over while it evaluates stops. `LotsInv` adds
  that a close in whole loses nothing, that a partial close under way is one of the
  position's owner, under his lock, and so settles with the size it read; each adds an
  error of at most half a unit of the column, the bound on `HalfAway`.
  `SwapsAccruedOrSettled` from `SwapInv`: a rollover and a close that do not overlap
  read the swap that is still in the row when they write (`RollReads`, `CloseReads`),
  and each partial close costs one unit of the last decimal at most. `TypesCorrect`
  needs the type of what is left of a plan, hence that a plan is made of open positions.
  `PlanKept` from `PlanInv`: while nothing else moves the account, the level is restored
  after exactly the closes that are left, at every point of the liquidation; a close
  turns the position's profit into balance and leaves equity as it was, so the sums over
  the remaining positions, which `Engine` takes over the book of the plan, are compared
  with sums over the table by a renaming of their indices.

Every invariant of the passing runs, the action property `QuotesNeverGoBack` and the
refinement have a theorem. So have three properties that no run lists, because the
theorem says more than a small instance would: the type invariants of `AccountLock` and
`Wallet`, and `OnlyTheOwnerRevokes`.
Sums, folds and recursive functions enter these proofs. The theorems for induction that
come with TLAPS take an operator as a parameter and cannot be used; the proofs look
instead at a least number, or a smallest set, for which the claim were wrong, which exists
because the order of the naturals is well founded, and refute it.

Only model-checked: the liveness properties (`CallbackSettles`, `SettledIsShown`,
`EveryCallIsServed`, `StopsAreHonoured`, `NeverLeftUnderStopOut`, `OrdersAreTriggered`,
`SubscriptionIsKept`, `AccountIsShown`), because TLAPS proves neither leads-to under
fairness nor `ENABLED`; and that `DepositPage` does what it does on top of the code of
`Payments`, which is the refinement of `DepositPromise` and not a composition of the two.

## 5. What is left

Worth doing next: an abstract specification of the account lock, a queue of calls that
`AccountLock` implements; one for the channel, a register of an account's latest
snapshot, which `AccountIsShown` now states directly; and the events of an account
(toasts) beside its snapshots.

Not modelled, and why:

- The random walk of the simulated feed. The models take any sequence of prices.
- Presentation: the landing, showcase and terms pages, layout, formatting, static
  tables. They keep no state that another part depends on. The terminal and portal pages
  are in the models as far as they subscribe, watch, sign in, draw the chart and poll.
- Reads: lists, statements, summaries, order previews, the list of sessions. They change
  nothing.
- Configuration, validation and the error filter. The bounds the schemas impose are
  guards on the models' inputs, and an error is a step that ends a request.
- The audit trail apart from its failing inside a request: its rows are appended and
  never read by the code.
- Users and metadata: reads, and providers that are not implemented. `roles.guard.ts`
  guards no route.
- The tables for KYC review, payouts and bonuses, which no code uses yet.
