# Models of the trading service

TLA+ models of the Cupo trading service (this repository: a NestJS monorepo with
the applications `api`, `trader`, `feeder`, `ticker` and `user-exchange`), checked
with TLC and, in part, proved with TLAPS. All paths below are relative to `src/`.

Contents: [inventory](#1-inventory) · [modules](#2-modules) · [runs](#3-runs) ·
[bounds](#4-bounds) · [fairness](#5-fairness) · [proofs](#6-proofs) ·
[disagreements](#7-disagreements-and-observations) · [limits](#8-what-is-only-checked-and-what-is-left-out) ·
[plan](#9-plan)

## 1. Inventory

The processes share no memory. They meet in **Redis** (orders, users, prices, keys
with an expiry), in **Bull queues** (also in Redis), in **MongoDB** (archive of
orders, accounts) and over **HTTP** (`user-exchange`, the only process that talks to
the exchanges). `CLOUD-CONFIG.md` deploys one trader, one feeder, one api and three
tickers; the code is written for several of each ("different trader containers",
"main order manager", "main feeder").

| Part | State it keeps | Operations | What is hard |
|---|---|---|---|
| Opening of orders (`apps/trader/.../signal`, `.../orders`) | hash of orders, `opening:` semaphore (30 s), `lastOpenOrder:` pause (34 s) | signal check, OPEN job, cron of stalled orders | every look at semaphore and pause is separated by awaits from its effect; jobs are late, redelivered, cleaned at a start; the answer of the exchange is lost |
| Closing of orders (`.../orders/orders.service.ts`) | the same hash, the wallet | `closeAllOrders`, `closeAllVirtualOrders`, `closeOrder` | four handlers per process, no semaphore, snapshots, partial failure of sale and write |
| Order manager lease (`app.service.ts`, `redis.order.service.ts`) | key `ORDER_MANAGER` | claim, refresh, delete, crons of the main | GET and SET are separate; a dead main must be replaced |
| Signal and close rules (`signal.service.ts`) | trailing stops, settings | CUPO rules, stop losses, close rules | stop read and written in two steps; rules act on one snapshot |
| Signal throttling | list of tickers to check, `signalsPerTime` | `checkNewTickers` | late checks |
| Trader crons of users (`user.service.ts`) | none of their own | `updateTradingStatus`, `continueUserAccountSubscription` | users read once, written one by one; money and marks in two stores |
| User document (`redis.user.service.ts`) | one JSON value per user: settings, keys, virtual balance | `setUser`, `increase/decreaseVirtualBalance`, `getNewPlatformId` | read, change and write as a whole, from five applications; `PUT` and `POST /user` store what their body says |
| Collector (`apps/feeder/.../collector`) | hash of orders, MongoDB, collect jobs | `collectOrders` | copy of a snapshot, then delete by the snapshot; count the jobs, then add one |
| Order API (`apps/api/.../order`) | hash of orders, MongoDB, queue | open, close, cancel, delete | writes beside the handlers |
| Exchange gateway (`apps/user-exchange`) | connections, flag of the balance cron, wallet hash | `openBuy`, `closeOrder`, `getWalletBalances`, crons for balances and connections | answers to keys that were replaced meanwhile, a flag that is not reset, connections that outlive keys |
| Exchange settings (`apps/api/.../user`) | keys, proxy, symbols, status in the user document; proxies in MongoDB | set, clear, erase | whole-document writes beside the gateway's |
| Subscription, accounts, payments, payouts | MongoDB balances and papers, user document | renew, deposit, reward, transfer, withdraw | read, change and write over two stores |
| Ticker feeds (`apps/ticker`) | feeders, main feeder, prices | election, roulette, websocket | election by GET and SET, reconnection |
| Candles, indicators (`apps/feeder`, `libs/timeseries`, `libs/indicators`) | candles, values | load, glue, trim, calculate | boundaries of time frames, gluing in place |
| Sign-in and back office (`apps/api/.../auth`, `.../user`) | user document, codes, sessions, counter of platform numbers | register, verify, restore, approve, edit, erase | every handler writes the copy it has read; the counter is read and written in two calls |
| Notices (`apps/api/.../notify`, `libs/mail`) | marks, mail queue | crons, jobs, requests | mails that fail, marks that expire, a queue that a job pauses |
| Events, marketing, logs, views | lists | | output and views; no other part reads them |

What makes the parts correct:

- **opening**: what the book shows as opened was bought; one job buys once; one opening
  per symbol at a time; no position is lost; an order that waits and a semaphore that is
  held are resolved in the end;
- **closing**: what the book shows as closed was sold; closed is for good; the coins of an
  order are sold once; the wallet covers what the book shows as opened; what is opened can
  be closed;
- **lease**: one main; it keeps the key while it refreshes it; a dead main is replaced;
- **user document**: a request changes only what it is there to change, as long as nobody overtook it;
  the platform numbers the service draws differ;
- **collector**: orders are collected by one job at a time; an order leaves Redis only when the
  archive has it as finished or the user removed it; what is final in the archive stays so;
  every finished order gets there;
- **gateway**: keys are active or broken because the exchange said so of these keys, or the body of a
  request did; connections and wallet follow the keys;
- **feeds**: a price comes back after any failure;
- **accounts**: what is paid is booked once, nothing is overdrawn but by a correction, a trial is used once, who can pay is
  renewed and who cannot is stopped;
- **notices**: whose subscription has ended is told;
- **rules**: no order is sold twice by one check, at a loss only by the rules that are about the symbol;
- **candles**: the glued candle is the fold of its parts.

`PROJECT.json` lists every part with the modules that cover it, and the hazards with
their lines.

## 2. Modules

| Module | Models |
|---|---|
| `OpenOrder` | the life of an order from the signal to the opening: checks, OPEN handlers, cron, clocks, restarts |
| `OrderLife` | the abstract life of a real order, in which an order may also run into trouble; `OpenOrder` implements it under every hazard |
| `CloseOrder` | the closing of the orders of one symbol beside the other writers of the book |
| `OrderArchive` | Redis and MongoDB as the two stores of the orders of a user: collectors, trader, close and removal requests of the API |
| `OrderManagerLease` | the key `ORDER_MANAGER`, the loop around it and the crons of the main |
| `SignalRules` | what a check decides: conditions, close rules, trailing stop, new orders, allowed and disabled symbols, throttling; operators, no state |
| `PaymentDesk`, `Account` | payments, payouts and profiles; the account of a user with its requests and the crons of the trader. `Account` extends `PaymentDesk` |
| `ExchangeSettings`, `ExchangeGateway` | what a user has set for an exchange, and the gateway that reads it and judges the keys. The second extends the first |
| `Users`, `Notices`, `Access` | the user documents as sign-in and back office see them; the mails about subscriptions; the handlers of the API. Each extends the one before |
| `TickerLinks`, `TickerFeed` | the websocket services of the ticker processes; their election, the roulette and the events of the websockets. The second extends the first |
| `Candles` | slots of time frames, readers, gluing, the job that fetches and stores candles, their collector; operators, no state |
| `Sums` | lemmas about the sum of a function over a finite set, for the proofs of `AccountProofs` |
| `...Proofs` | theorems about the module they are named after; those of `SignalRules` are in `CloseOrderProofs`, of `TickerFeed` in `ExchangeGatewayProofs`, of `Users` and `Notices` in `AccessProofs` |
| `MC...` | constants and symmetry for TLC; `MCSignalRules` and `MCCandles` hold the inputs the operators are evaluated over |

The code is single-threaded between two awaits, so an action runs from one call to
Redis, Bull or the exchange to the next; `pc` variables (`checkPc`, `openPc`, `pc`,
`api`) name the call that comes next. What the local variables of a handler hold over an
await is a variable of the model (`seen`, `snap`, `todo`, `copy`); it is reset when the
handler returns or its process dies.

The constant `Hazards` of a module names what may go wrong in its environment; the comments at
`HazardNames` explain the names. The safety properties hold under all of them. Where the code has
nothing against a race or a loss, the property does not assume it away: a *history* variable
collects the orders or users it strikes (`troubled`, `waited`, `contested`, `shared`, `owing`,
`disturbed`, `raced`, `chosen`, `dictated`), and the property says that nobody else is touched.
The exceptions to this are `OneOpenerPerSymbol` (prompt jobs in one container),
`WalletCovers` (one closer) and the liveness properties.

### OpenOrder

One user, one exchange. A *check* is the pair of a trader process and a symbol
(`check_User_OrdersSignalsCUPOStrategy`), a *handler* is one of the OPEN jobs a process
may run at once.

| Variable | Code |
|---|---|
| `status` | hash of orders, `TradeOrder.status`; lower and upper case are one |
| `aged` | `openTime < Date.now() - 60 s` |
| `opening` | key `opening:exchange:user_symbol`, with its expiry |
| `lastOpen` | key `lastOpenOrder:exchange:user`, set or not |
| `queue`, `stalled` | OPEN jobs waiting, and jobs Bull has taken back once |
| `seen`, `seenSymbols`, `checkTodo`, `new` | the locals of a check |
| `job`, `openTodo`, `cronTodo` | the locals of a handler and of the cron |
| `buys` | what the exchange executed (external) |
| `troubled` | history: the real orders one of the hazards has struck |

The check reads the book (`CheckRead`), cancels virtual orders where real ones exist
(`CheckMixed` to `CheckReread`), refreshes the profits of its snapshot (`CheckRefresh`,
which writes whole orders), looks at the pause and the semaphore (`CheckPause`,
`CheckPending`), writes the order (`CreateOrder`), takes the semaphore
(`StartPending`) and sends the job (`SendOpenJob`). The handler takes the job
(`OpenTake`), looks again (`OpenCheckPause`, `OpenCheckPending`), buys (`OpenBuy`),
records the order and starts the pause (`OpenRecord`, `OpenStamp`), corrects the volume
(`OpenAdjust`), cancels the virtual orders (`OpenReadVirtual`, `OpenCancelVirtual`) and
deletes the semaphore (`OpenRelease`). `OpenGiveUp` are the early returns that release
nothing. `CronRead` and `CronCancel` are `checkStalledPendingOrders`. `Restart` is a
process that starts and cleans the queue, `Stall` a process that dies and whose jobs
Bull hands out once more. `Befalls` stands at the steps where a hazard strikes: the lost answer and
the failed write of an order, the jobs and handlers a restart or a death ends, an order older than
a minute that somebody still works on (`slow`), a stale snapshot written over another status
(`reprice`).

### CloseOrder

One user, one symbol. The book holds status and volume, the wallet the free coins; the
price stands still, so the cost of a volume is the volume. A *closer* is a CLOSE handler,
of the kind `all` (`closeAllOrders`: `AllRead` to `AllWrite`, then `AllReadWaiting` and
`CancelWaiting`), `virtual` (`closeAllVirtualOrders`) or `some` (`closeOrder`: `SomeRead`
to `SomeWrite`). `Create` to `OpenAdjust` are the opening in short, `RefreshRead` and
`RefreshWrite` the profit refresh, `Withdraw` the user. History: `sold` counts how often the coins
of an order were sold, `waited` has the orders a CLOSE_ALL found waiting in its second snapshot,
`contested` those whose coins the code does not protect: two handlers had them in hand at once,
their sale was not recorded, or the opening or a stale refresh showed them as OPENED again.

### OrderArchive

One user, one exchange; of an order only the status. `book` is the Redis hash, `archive`
and `deleted` the MongoDB documents.

| Actor | Actions | Code |
|---|---|---|
| trader | `Create`, `Read`, `Write`, `GiveUp` | whatever `OpenOrder` and `CloseOrder` have in full, reduced to what matters here: an actor reads an active order, holds the copy, and writes it with a successor of the status *it has read* |
| senders of collect jobs | `CronCount`, `CronAdd`, `ApiCount`, `ApiAdd` | `collectAllUsersOrders`, the end of `closeUserOrder`; `getJobs_CountCollectOrders` and `addNewJob` are two calls |
| collector | `Collect`, `Copy`, `Copied`, `Delete`, `Collected`, `Crash` | `collectOrders`: snapshot, one `replaceOne` after the other, deletes |
| close request | `ApiClose`, `ApiSale`, `ApiWrite` | `closeUserOrder`: the sale is not awaited and changes the object the request goes on to write |
| removal request | `RemoveStart`, `RemoveFromBook`, `RemoveRead`, `RemoveFromArchive`, `RemoveFails`, `RemoveEnd` | `cancelUserOrder`, `deleteUserOrder`, `deleteAllUserOrder`, `deleteAllUserVirtualOrder` |

History: `created` and `removed` are the orders ever written and those the user removed; `races`
counts how often both senders had counted no job before either added one, `shared` has the orders
two collectors then had in their snapshots at once; `contested` are those that were written over a
newer state, removed while somebody still held a copy, or shared. No lock protects the book and
nothing keeps the senders apart, so a contested order may end as anything; the last two properties
are about the others, and `GoneIsFinal` about all that were not shared.

### OrderManagerLease

`Read` is the GET of `setMainOrderManager()` with the decision on its answer, `Write` the
SET, `Reset` the DEL; nothing ties them together. Time passes in `Tick`; ages stand for
timestamps and stop where the code tells them no further apart. `CronStart` asks
`isMainOrderManager()` and lets the run go on to `CronEnd` whatever happens to the key.
`steady` and `unserved` are history variables: the time since the key was last missing or
old, and since a live process was main.

### SignalRules

`check_User_OrdersSignalsCUPOStrategy` is 900 lines that read one snapshot, decide, and send
jobs; `OpenOrder` and `CloseOrder` have its calls in their order and take its decisions as
free choices. `SignalRules` has the decisions. A check is a record of what the code has read
(prices as whole numbers, percentages in permille); `CupoIndicatorsStrategy` gives the
conditions, `CloseJobs` the jobs of the close rules with the orders passed from rule to rule
and the early returns, `OpenedOrders` the order that is created, `SymbolStop` the trailing stop
after the check, `AllowSymbolTrade` and `DisabledJobs` what may be traded and what the cron of
disabled symbols closes, `NextSignalsPerTime` the throttle. At the end of the module stand the
statements about them (`NamedOnce`, `CupoAsDeclared`, ...), which `MCSignalRules` evaluates over
small inputs and the last section of `CloseOrderProofs` proves for all.

### PaymentDesk and Account

| Variable | Code |
|---|---|
| `payments`, `payouts`, `profiles` | collections `WalletDeposits`, `WalletWithdrawals`, `WithdrawalsProfile` |
| `account` | collection `AccountBalance`: three purses, end of the subscription, automatic renewal, product |
| `user` | of the user document: trading switch, activated products, coupon |
| `partner` | collection of referrals |
| `pc`, `local` | of each request and of both crons: the next call, and the copies it holds |
| `booked`, `trials`, `disturbed`, `owing` | history: what the account should hold, trials used, users of whom a copy grew stale or an actor died, users a correction left with a debt |

The sums of the requests are any whole numbers, negative and zero ones too: the bodies are only
checked to be numbers (`user.interface.ts:834-882`). The four routes that correct an account treat them
differently: `set` stores a debt, `change` passes over what is not positive, `minus` of a negative sum adds,
and only `add` refuses one. A request reads the account with its arrival (`BalanceRequest`), computes (`Set`, `Change`, `Add`,
`Minus`, `Transfer`, `Reset`, `AutoRenew`) and writes (`WriteBalance`); a payment goes on to its
record and to the rewards of two levels of partners (`AddPayment`, `RewardRead`, `RewardWrite`,
`RewardRecord`). A renewal, of a request or of the cron, reads the user, reads the account,
writes the account with charge and extension in one, and marks the product in the user document
(`RenewReadUser` to `RenewMark`). `RenewerStart` to `RenewerFallbackWrite` are the cron around it,
`StopperStart` to `StopperWrite` the cron that stops robots, from one snapshot of the users.
`Crash` ends any of them between two calls.

### ExchangeSettings and ExchangeGateway

One user and one exchange. `doc` is the part of the user document that is about the exchange,
`copy` the copies the writers hold. Requests of the API (`UpdateExchangeKeys`, `SetUserProxy`, the
lists of symbols, `DeleteUser`, `GetExchanges`) read with their arrival and store later
(`WriteSettings`), with the merge of `setUser()` (`Stored`). `UserUpdated` is `PUT /user` and `POST /user`, whose
body may bring exchanges of its own, with any keys and any status (`UserBodies`;
`user.interface.ts:622-630` checks that they are an array, `user.service.ts:186-226` stores them). The gateway has three crons:
connections follow the document (`RefreshRead`, `RefreshApply`, `RefreshBreak`, `RefreshBroken`),
proxies (`UpdateProxyServers`), balances (`CheckStart` to `CheckWrite`, with `CheckThrows` for a
call of Redis that fails). A call of the exchange goes from `Ask` or `CheckAsks` over
`LimitCheck`, `SwitchExchange`, `FetchBalance` or `FetchFails` to the verdict (`Judge`,
`JudgedWrite`) and the wallet (`SetWalletBalance`). `changeExchangeStatus()` is the pair
`JudgeRead` and `JudgeWrite`: it reads the document anew, but does not look whose keys the
exchange was asked about. `confirmed`, `refused`, `misjudged` and `dictated` (the keys a body brought with a verdict) are history.

### Users, Notices and Access

`docs` are the user documents, `counter` the last platform number, `codes` the mailed codes,
`sessions` the tokens. A handler of `Access` (`Login`, `Register`, `RestorePassword`,
`AdminApproved`, `UpdateUser`, `DeleteUser`, ...) makes all its checks and reads with its arrival and
leaves in `req` what it will store and the calls still to come, in their order: `TakeNumber` and
`SaveNumbered` (GET and SET of the counter, then the document), `Save`, `Spend` (the code is
deleted after the write), `Sign`, `Drop`. `Complete` is the merge of `setUser()` with what is
stored. A body of `PUT /user` and `POST /user` (`UserBodies`) may name any field of the document:
`platformId` (`user.interface.ts:529-537`), and, since the pipe has no whitelist (`user.controller.ts:219`), also
the verification, the approval, the password and the roles. `chosen` (history) are the
numbers that came with a body.

`Notices` adds the two crons (`CheckUserSubscriptionEnding`, `CheckUserSubscriptionEnded`),
the mail queue with its workers and the marks that keep a mail from being repeated. A job is taken
(`JobTaken`), looks whether the queue is paused and resumes it (`JobChecked`), and sends the mail and
sets the mark (`MailSent`). A provider that fails is logged and leaves the job without a result, hence
without a mark (`MailFails`; `sendPulse.provider.ts:91`, `email.service.ts`); a call of Redis that
fails before the mail throws, and the processor pauses the whole queue (`JobThrows`;
`email.processor.ts:22-25`), which only a job that was taken before resumes. A mail on demand sets the mark
whether or not the provider failed (`Told`; `notify.service.ts:83-85`).

### TickerFeed

`main`, `available`, `feeders`, `tickers` are the keys of Redis, with ages for timestamps. `ReadMainFeeder`
reads the main feeder and decides, `SetMainTickerFeeder` and `ResetOldMainFeeder` write by what was
read, `RunRoulette` and `SetTickerFeeders` are the two halves of the roulette. `link` is a websocket
service with its flags `connected` and `reconnecting`, its `this.connection` and the websockets that
are open, dialled or closing, of which an old one may report its end when the new one is connected.
`Tick` lets one unit of time pass; its guard says that the crons that run every three seconds have
run in it, but an election that has read may still write after it.

### Candles

A time is a number of minutes, a stored series a function from times to candles. `CandleTime` has the
arithmetic of `getCandleTime()` with its day of the month. A job of `updateCandles()` is the three operators
`Since` (what it reads from Redis), `Fetched` (the packets) and `Write` (what it stores, with the two, four
or half hours glued from it), so that the assumptions of `MCCandles` can put the steps of two jobs in
any order; `AddFetchJobs` is why two can run: it sees the jobs that run, not those that wait.
`GlueOne` is the body of the loop of `glueCandles()`, in place.

### How they fit together

`OpenOrder` and `CloseOrder` work on the same hash of orders; each has the other's writes
in the short form that matters to it (`CloseOrder` has `Create` to `OpenAdjust`,
`OpenOrder` ends where an order is opened). `OrderArchive` takes from both what a writer may
make of the status it has read (`Successors`). `OrderManagerLease` decides which process
runs the cron of `OpenOrder` and the one that sends the collect jobs in `OrderArchive`;
those two modules let one such cron run at a time, which is what `CronAlone` says of a
settled lease. `OpenOrder` implements `OrderLife` under the mapping `Life`.

The jobs of `SignalRules` are what `OpenOrder` and `CloseOrder` let be sent at any time, so their
properties hold whatever the rules say; the assumption `JobsOverlap` shows that the pair of
handlers of `close_races` is one a single check can cause. The orders of those modules reach the
exchange through `ExchangeGateway` (`OpenBuy`, `OrderClosed`), which is where they get the three outcomes
executed, refused and executed without an answer. `Account` is the reason of `BalanceMoves` in
`Notices`, and its `user` and the `docs` of `Users` are fields of the same document: each module has
its own writers in full, and the others do not touch its fields unless they overtake, which is
what `ChangesOnlyItsOwn` is about.

## 3. Runs

| Run | Checks | Question |
|---|---|---|
| `open_races` | `OpenedWasBought`, `BoughtOnce`, `LifeRefined` | every hazard, two handlers, two real orders of one symbol: does OPENED mean bought, does a job buy once, and do the orders no hazard strikes live the abstract life? |
| `open_semaphore` | `TypeOK`, `OneOpenerPerSymbol`, `PendingResolved`, `SemaphoreFreed` | does the read-then-set semaphore exclude two openings when jobs are prompt, and do orders that wait and semaphores end, whatever is lost? |
| `open_position` | `PositionRecorded` | every hazard, a virtual order beside the real one: does a position stay recorded unless a hazard strikes that very order? |
| `close_races` | `ClosedWasSold`, `ClosedForGood`, `SoldOnce` | two handlers by name or CLOSE_ALL beside openings, with failures and restarts: does CLOSED mean sold, and stay, and who sells coins twice? |
| `close_named` | `ClosedWasSold` | the same for closing by name beside openings, withdrawals and stale writers |
| `close_serial` | `TypeOK`, `WalletCovers`, `OpenedGetsClosed` | one handler at a time, a fee and refusals: does the wallet cover the book, is every opened order closed in the end? |
| `archive` | `TypeOK`, `OneCollection`, `GoneIsFinal`, `ArchiveKeepsFinal`, `FinishedIsCollected` | all writers of both stores, senders that miss each other, crashes anywhere: is no order lost between the stores, and is every finished one collected? |
| `lease_handover` | `TypeOK`, `CronAlone`, `FailoverBound`, `HolderKept` | does a lease without a transaction work? |
| `account` | `TypeOK`, `BooksBalance`, `TrialOnce`, `NeverOverdrawn`, `ExpiredIsStopped`, `RenewalHappens` | does money neither appear nor vanish, and do the two crons do what they are for, beside every request, with sums of any sign and deaths between two calls? |
| `gateway` | `TypeOK`, `VerdictIsEarned`, `ConnectionsFollow`, `VerdictSettles` | are keys judged by what the exchange said of them or a body brought with them, and do status, connections and wallet follow in the end? |
| `access` | `TypeOK`, `NumbersDiffer`, `ChangesOnlyItsOwn`, `EndedIsTold` | what do handlers that store whole documents, and bodies that say anything, change besides their own fields, and is everybody told unless the mail queue stays paused? |
| `market` | `LinkHonest`, `FeedComesBack` | are the flags of a websocket service true, and do prices come back after ends, refusals and breaks? |

The runs of closing extend `MCSignalRules` too, so TLC evaluates its assumptions with them: the
statements of `SignalRules` over some thousand checks, and four observations (`JobsOverlap`,
`RealThoughNotAllowed`, `Unattended`, and `ThrottleIsSound`).

The run `market` extends `MCCandles`: slots tile the time (`SlotsTile`), gluing is the fold of the parts
(`GluedIsTheFold`, `OrderOfParts`), readers find the closed candle (`ClosedIsFound`), a job that begins and ends
within a slot leaves everything before it as it ended (`UpdatesAreFinal`), the collector leaves what updates
read (`CollectedIsNotRead`), and the observations of section 7. These are assumptions, without mutants.


For every property of a passing run `PROJECT.json` names a mutant: a changed definition
(in the module, marked "Mutant") under which TLC finds the property violated in the same
run.

`CHECK_DEADLOCK FALSE` stands in the three runs of `CloseOrder`, where the orders of the instance
(`Ids` is a bound) may all be closed and nothing is left to do, and in `access`, where the inputs of
the instance (`MaxInputs`) may be used up. The other runs are checked for deadlock: their crons and
clocks always go on.

## 4. Bounds

- `Ids` bounds the orders ever created. Two orders of one symbol contend for the
  semaphore, a real and a virtual one for the cancellation, and one order alone is enough
  for redelivery and for stale writes over both stores.
- Two handlers: every look-then-act race of the code is between two actors. The handlers
  of `open_races` run in one container; a second one would only add a second check of the
  symbol, and the theorems hold for any number of both.
- `open_position` has a real and a virtual order of one symbol, the pair the cancellation from a
  snapshot is about. `open_races` has two real ones, so that one can be struck and the other not.
- `Lot = 1000` with `BuyFee` 2 (`close_serial`) or 3 (`close_races`) lets the 0.2 % of the
  code's tolerance (`balance / volume >= 0.998`) and of its correction (`volume * 0.998`)
  differ from a whole lot by coins: the fee of 2 is what the correction takes off, the fee
  of 3 is more than one order tolerates. `close_serial` has three orders, so that the
  balance of a CLOSE_ALL is shared by several. `close_named` has a lot of two coins, of
  which one may be withdrawn.
- `close_races` leaves out the profit refresh (`reprice`), which only multiplies its states: `close_named` has
  it, and the theorems about all three properties hold with it.
- `MinLot` is `market.limits.cost.min`, below a lot and above its remainders.
- `archive` has one virtual order, the kind that can take every transition (only a virtual
  one is cancelled after it was opened), two collectors and `MaxMishaps = 1`: a feeder
  dies once, or the senders miss each other once; the one job that is collected again, and the one
  pair of jobs, are the cases of interest. The constraint `SomeOrderApart` ends a behaviour when the
  one order there is has been in two snapshots at once, since no property says anything of it from
  then on. No action relates two
  orders except through the sets they are taken from; with two orders the states are beyond
  a run of minutes, and the invariants and `ArchiveKeepsFinal` are proved for any number.
  `FinishedIsCollected` is checked for one order only.
- `account`: sums of both signs (`Amounts`); a user who is his own partner stands for a chain of partners; a trial that is free and a
  product that costs what one payment brings; three requests, beside both crons. One request at a
  time races with the crons, which is where the renewals meet; a `Window` of 0 makes a renewal
  due at the last moment only, the hardest case.
- `gateway`: bodies bring no exchanges, an empty list, keys with a verdict or keys without a status
  (`SentBodies`); two keys, so that an answer to old ones can meet new ones; two requests and a call
  beside both crons; two inputs (requests, bodies, faults, withdrawals) are enough for each of the races of
  two, and each more multiplies the states by ten.
- `access`: two users, two handlers, three inputs: one to read, one to overtake, and one to bring
  about what they need (a code, a session). The bodies (`SentBodies`) say any one thing each.
- `market`: two processes and one exchange, one fault; a `Lease` and an `Alive` of one unit, because only
  their being passed matters. `SubConnected` has the one exchange whose service keeps further
  websockets (bitfinex).
- `MCSignalRules`: of each rule's threshold one order on either side, and three orders at most, of
  which two make a group.
- `MCCandles`: up to nine hours to glue, a series of twenty hours in packets of four, and minutes over
  three days across the end of February; the code's 64 and 181 would only lengthen the series.
- `Lease = 3`, `MinPause = 2`, `MaxPause = 3`, `Delay = 1`: the code has 60 s, one to two
  seconds and the time of a Redis call. What matters is their order, `Delay < MinPause`;
  the theorems hold for any values of this order. `FailoverBound` is met exactly
  (`Failover` minus one is violated), so no shorter bound would do. `MaxCrashes = 2`
  lets a second main die while the first is being replaced.

## 5. Fairness

`OpenOrder` (`open_semaphore`): the cron and the clocks run for ever (`WF` of `CronRead`,
`Age`, `ExpireOpening`), Bull hands out jobs and handlers go on unless their process dies
(`WF` of `OpenStep`), and a check that has created an order goes on to the job.
`CronCancel` has `SF`: a restart can cut off one run of the cron, but not every run, because
a process restarts at most now and then and the cron runs each minute. Nothing makes a check
start, a price move or the exchange accept.

`CloseOrder` (`close_serial`): a handler that runs goes on and ends (`WF` of its steps
together); `AllRead` and `VirtualRead` have `SF` because the close rule of the signal check
sends a CLOSE_ALL job at every check for as long as it holds; `AllBalance` and `AllSell`
have `SF` because the exchange does not refuse every request for ever. Restarts and lost
answers are not among the hazards of this run.

`OrderArchive` (`archive`): the cron runs every five seconds (`WF` of `CronCount`, `CronAdd`),
a request that has counted the jobs adds one (`WF` of `ApiAdd`), Bull hands out a job and a
collector goes on (`WF` of `CollectorStep`). Traders and users need not do anything.

`Account` (`account`): a request that was begun is gone on with (`WF` of `RequestStep`), the two crons run
for ever (`WF` of their steps), and time passes. Nobody needs to send a request.

`ExchangeGateway` (`gateway`): the same for what was begun, the crons and the calls of the exchange; the
age of the balance and the ban for too many requests pass. `VerdictSettles` excepts the runs in
which a failed call of Redis leaves the flag of the cron set: nothing resets it.

`Access` (`access`): the two crons run for ever, and, while the queue is not paused, a job that waits is
taken, looks and is done with (failures, throws and deaths are among finitely many inputs). A queue
that a throw has paused is resumed by a job taken before, or by nobody: `EndedIsTold` excepts the
runs in which it stays paused.

`TickerFeed` (`market`): crons run, a dial is answered, an own close reports its end (`WF`). A websocket that is open
again and again delivers prices (`SF` of `Prices`), and the roulettes of the processes are not for
ever half done whenever time would pass (`SF` of `Tick`): both take milliseconds, while their
opposite would need the crons to meet for ever at the worst moment.

`OrderManagerLease` needs none: `FailoverBound` is a bounded, hence a safety property;
`Prompt` in `Tick` states how long a step may take.

## 6. Proofs

All proofs are for any sets of containers, handlers, symbols, orders and processes, under every hazard, and use
the named assumptions on the constants only. Three theorems assume more, in their `ASSUME`: `OneOpener`
(one container, prompt jobs), `NamedClosedWasSold` (no CLOSE_ALL) and `TrialsAreGrantedOnce`
(one trial product). TLC checked each invariant first.

A proof may not use induction over data in general (the library's induction theorems take an
operator). What a *sum* over a finite set is can be proved all the same, see `Sums`.

**OpenOrderProofs**
- `TypeCorrect`: `TypeOK`, with `JobsNamed` (a handler that is not idle has a job, a check
  past `create` has an order), without which `status[job[h]]` could not be typed.
- `OpenedAlwaysBought`: `BoughtInv` adds to `OpenedWasBought` that a handler past the
  purchase works for an executed order and that no snapshot (`seen`) shows an order as
  opened that was not bought. The latter is why the stale refresh cannot break it.
- `BoughtAtMostOnce`, under every hazard, redelivery included: `OnePlace` (an order is in
  the queue, with one handler, or with one check, never twice) and `NotYetBought` (before
  its purchase a handler's order has not been bought, or only in an earlier delivery).
- `OneOpener`, with one container, without late and without redelivered jobs:
  `SemaphoreHeld` (who is engaged in a symbol holds its semaphore) and `SemaphoreFree` (a
  check that has seen it free still finds it free). Needs `RefreshInv`: a refresh writes
  only orders that are not being created.
- `PositionsAreRecorded` (`PositionRecorded`), under every hazard: what the exchange has executed is
  OPENED in the book or about to be, unless a hazard has struck that very order. The invariant
  `PositionInv` is about the orders nothing has befallen (`Sound`). `Stage` says what the status of such an order
  tells of its purchase, `UnderWay` what its place (queue, handler, check) tells of both, and `Abandoned`
  that an old one is carried by nobody, so that the cancellation from a snapshot meets no purchase. Most
  steps are `Steady`: whatever they do to struck orders, sound ones stay at their stage; the few others
  (`Advances`) take one sound order on.
- `OpeningRefinesLife` (`LifeRefined`), under every hazard: every step of `OpenOrder` is a
  step of `OrderLife` or a stutter, and the initial states are initial. `QuietIsTrouble`: a step that does not
  create, buy, open or cancel a sound order (`Quiet`) leaves the life of all of them alone but for those it
  brings into trouble; `AdvancesMove` says the same of the four moves. What `OrderLife` asks of the
  state before such a step is `PositionInv`.

**Sums** - of a function over a finite set, by `SumFunctionOnSet` of the community modules, which
adds the elements in an order of its own. `SubsetInduction` is induction over the subsets of a finite
set, stated with a set instead of a predicate, from the well-foundedness of the strict subset
relation; `SumUnique` and `SumExists` make the recursive function of the fold a function of the
set, `SumIsFold` says that `SumFunctionOnSet` is its value, and `SumTakes`, `SumAdds`, `SumMoves`,
`SumSame`, `SumOfPart` are what the other proofs cite: one element may be taken out, put in,
changed, and a part sums to no more than the whole.

**CloseOrderProofs**
All about any number of closers, with openings, refreshes, withdrawals, refusals, lost answers,
failed writes and restarts at any moment.
- `ClosedWasAlwaysSold` and `NamedClosedWasSold` (`ClosedWasSold`): `SaleInv` adds to the property that what
  somebody has read and may write back was active (`ReadActive`), so that no stale write is a CLOSED one,
  and that a closer about to write CLOSED works on orders that were sold or, with CLOSE_ALL, on
  those it has found waiting (`SoldBeforeWrite`). When no CLOSE_ALL is sent nothing is ever found so, and
  the property holds without the exception.
- `ClosedStaysClosed` (`ClosedForGood`): `FreshInv` says that an order that is not opened yet is shown as
  OPENED nowhere, and `HandInv` that a loop is at an order its handler has read as OPENED; `Effect` is what the
  step of a closer may do, namely end what it has read. So only an opening or a refresh can
  make a closed order active again, and only one that had read it before.
- `CoinsAreSoldOnce` (`SoldOnce`): `OnceInv` says of every order nobody contests that it is in one hand at most
  (`OneHand`), that whoever may still sell it (`MaySell`) meets an unsold one, and that a sold one is
  shown as OPENED only until its hand has written it (`Unwritten`).
- `TypeCorrect` (`TypeOK`): volumes, balances and counts are natural numbers, so
  no sale takes more than the wallet has. `CurKnown` adds that a loop is at an order of its snapshot.
- The rules that send the jobs (`SignalRules` has no state, so their theorems stand here):
  `EachNamedOnce`: `NamedApart` of a set of jobs, kept by every rule because it only names orders no
  job of the check has yet (`signal.service.ts:662`). `CupoIsAsDeclared`, `CupoLosesNothing`,
  `CupoKeepsWhatItBought`: the chain of rules equals a flat description (`CupoCloses`), of which each part
  takes orders in profit only (`CupoParts`). `TrailingStopIsBelow`, `CheckAndCronAgree`: for all
  percentages, users, orders and markets.

**OrderArchiveProofs**
- `ArchiveTyping`: `TypeOK`, with `CopiesExist` (whoever holds a copy, or a status in it,
  holds one of an order).
- `CollectionsAreSerial` (`OneCollection`): `OneInv` says that, until the senders miss each other, of what is or becomes a
  collection - a sender that has counted no job, a job in Bull, a collector at work - there is
  at most one (`Alone`, `SendersApart`); `TwoInv` that there are never more than two, because a sender adds
  only after it has counted none, and there are two senders. A crash only turns a collector at work into
  a job.
- `NothingLeavesUnfinished` (`GoneIsFinal`): `CollectInOrder` says of an order that was never shared that what
  a collector copies without being finished is still in the book (or was
  removed), that what it has copied is in the archive, and that every order it deletes is
  *settled*: finished in the archive, or removed by the user. It is an invariant because such an order is
  in one snapshot at a time (`Apart`), however many collectors there are. `RemovalInOrder` says that a
  removal touches the archive only after the book.
- `WhatIsFinalStays` (`ArchiveKeepsFinal`): `FinalInv` is about what is
  *said* of an order nobody has contested - by the book, by the copies, by the snapshots of the collectors.
  `Agreed` (all who have it as finished have it finished in the same way), `Unended` (as long as
  the book has it active, nobody has it as finished) and `Archived` (once the archive has it finished,
  nobody has it active any more, or nobody has it at all) make a stale snapshot harmless.

**OrderManagerLeaseProofs**
- `LeaseTyping`.
- `MainKeepsTheKey` (`HolderKept`): `Fresh` (a main's loop is never later than the lease
  allows), `Rested` (`steady` is 0 when the key is missing or old), `ClaimSeen` (who is
  about to claim or delete has seen the key missing or old `wait` ago) and `RefreshLost`
  (who is about to refresh a key it no longer has lost it within two delays). The last one
  rests on `Delay < MinPause`: without the pause of the loop two processes could take the
  key from each other for ever, which is the mutant `ReadAtOnce`.
- `OneCronProcess` (`CronAlone`): `CronLost` carries the same over the length of a run.
- `MainIsReplaced` (`FailoverBound`): `Waited` follows the time without a main through its three stretches.
  The timestamp of a dead main gets old within `Lease`; from then on, and again once the key is deleted,
  some live process has the *turn* (`Turn`): it has had no call for as long as the stretch may have lasted,
  so its next one falls within its pause, and deletes the old key or claims the missing one (`Due`). A
  delete decided on the old key may take the key from a new main again, but only if it is younger
  than that main's pause (`LastReset`, `Settled`), because a delete takes less than the pause of the loop;
  so it cannot go on for ever. `FailoverAssumption` says so of the constants: the code waits one to two
  seconds, and a call of Redis takes milliseconds.

**AccountProofs**
- `AccountTyping` (`TypeOK`) and `NobodyOverdraws` (`NeverOverdrawn`), for any users, products, sums of either sign and any
  number of requests, with both crons and deaths: `MoneyInv` types every account and every copy, and says
  that a renewal that writes has a copy that suffices for the price it carries (`Placed`). `SolventInv` adds
  that the accounts of users no correction has left with a debt, and all copies of them, are nowhere
  below zero. So nobody has to be alone: a copy may be stale, and what is computed from it is solvent
  all the same.
- `BooksAlwaysBalance` (`BooksBalance`) needs no condition but the one the property states. `FreshInv`:
  every copy held of a user who is not `disturbed` agrees with the document in money and marks
  (`FreshBy`); `Aside` is the exception for the cron that stops robots, which has the user it writes
  off its list. What a request has credited and not yet recorded is *owed* by it (`Owed`), and each
  step moves the same sum between the account, what is owed and what is recorded; since any number of
  requests and payments is involved, these are sums over finite sets, moved by the lemmas of `Sums`.
- `TrialsAreGrantedOnce` (`TrialOnce`), with one trial (`OneTrial`: the service sells one,
  `payment.constant.ts:35`): `TrialInv` says that a user whose trial was used has the mark, or somebody
  is about to set it (`Granted`, `Marking`), and `FreshBy` that nobody renews a trial that is marked. With
  two trials the mark of the one does not refuse the other.

**ExchangeGatewayProofs**
- `GatewayTyping`: `TypeOK`, with `Holding` (who is about to write a document, or to judge, holds
  one, or has an answer).
- `VerdictsAreEarned` (`VerdictIsEarned`), for any number of requests, calls and keys: `Earned` says
  that not only the document but every copy somebody may still write, and every answer not yet
  written, is as sound as the document must be, and the history it is measured by only grows; the keys a
  body brings with a verdict join that history (`dictated`, `SoundDictated`). This
  is why the order of the writers does not matter; `Sound` leaves out whether the entry is there,
  because a copy may be stored over one that has it.
- `FlagsAreHonest` (`LinkHonest` of `TickerLinks`; `TickerFeed` is the instance `Feed`): the counts
  of websockets are kept as natural numbers, and `connected` implies an open `this.connection`; every
  handler that ends a connection clears both flags, which is what makes late events of old websockets
  harmless.

**AccessProofs**, about `Access` with `Users` and `Notices`, for any users, requests, mails and bounds:
- `DocumentsAreComplete` (`TypeOK`). A request is a body and the list of steps it has left; `Paths` are all
  the lists that occur, and a lemma per kind of path says what is left after its first step. `WorkInv`
  says that every request is `Good`: its path is one of them, a body on its way through the counter has
  its number, and whoever will sign a session knows role and device; of the body itself nothing is
  assumed. `CountInv` bounds the sessions: those signed, those still to be signed and the inputs
  left are no more than the inputs there were, because each path signs at most once.
- `NumbersAreGivenOnce` (`NumbersDiffer`): `NumberInv` says who `Owns` a number, by a document or by a
  request that will store one. Of the numbers no body has brought (`Drawn`) none is owned twice, none is
  above the counter but that of the request that is about to write it, and until `raced` there is only
  one such request. The counter
  is written before the document, so a restart in between loses a number and gives none twice.
- `HandlersChangeTheirOwn` (`ChangesOnlyItsOwn`): the body of a request is `Faithful` to the
  document it was made of, until it is stored: storing it over that document would change only the
  fields of its route, of `PUT /user` those its body names and the four that `setUser()` does not merge
  (`Own`; part of `Good`). `setUser()` fills in from the stored document what the copy lacks; without that the
  copy of the login, which has no password, would take it away (mutant `StoredUnverified`).
- They assume that there are addresses and passwords, finitely many requests at a time, and that
  `None` is not a document and `MaxMails` is a natural number.

Liveness stays with TLC (`PendingResolved`, `SemaphoreFreed`, `OpenedGetsClosed`,
`FinishedIsCollected`, `ExpiredIsStopped`, `RenewalHappens`, `ConnectionsFollow`, `VerdictSettles`,
`EndedIsTold`, `FeedComesBack`: fairness is out of the prover's reach), as does what the recursive operators
of `Candles` compute, and `WalletCovers`, which needs one closer at a time and nobody who takes coins away.
Every other property of a run is stated by a theorem.

## 7. Disagreements and observations

Where the code does not do what a comment, a heading or an event of it says (no run is kept for
these; the properties are worded so that they hold all the same):

- The profit refresh writes orders that were closed meanwhile back as OPENED
  (`signal.service.ts:575`); the comment at 561 wants to "update profit into opened orders".
- A virtual order closed by name is sold on the exchange (`orders.service.ts:1000`, the branch has no
  `continue`), against the headings "VIRTUAL ORDER" and "REAL ORDER".
- The volume reduced for want of balance is not the one that is sent
  (`orders.service.ts:1061`); the event at 1065 says "Change order volume due insufficient balance".

Observations about orders, that the assumptions of the properties reflect:

- The pause is read at `signal.service.ts:925` and `orders.service.ts:66` and set after the
  purchase, so every handler that reads in between goes on; the comment at
  `signal.service.ts:923` wants not "too much orders in a short time on the different trader
  containers". Virtual orders are cancelled after the purchase (`orders.service.ts:259`), the
  comment at `redis.order.service.ts:188` says before.
- The refresh also writes virtual orders back that were cancelled meanwhile
  (`signal.service.ts:575` against the cancellation at 480).
- An order that waits in the second snapshot of `closeAllOrders()` is written as CLOSED by
  the loop over all orders (`orders.service.ts:804`) before the code at 852 would cancel it.
  It is in the book as CLOSED and nobody has sold it, and when the opening goes on it is bought after
  that. `ClosedWasSold` excepts these orders (`waited`); without the exception TLC finds one.
- Two CLOSE handlers that have both read an order sell its coins twice, as long as the wallet has as
  much; so does the next job after a lost answer or a failed write (`contested`; without the exception TLC
  breaks `SoldOnce` by each of these).
- Cron and API may both count no job and add one; the slower of the two collectors has its snapshot
  from before the order was closed and writes OPENED over the archived CLOSED, after the other has deleted the
  order from Redis. `GoneIsFinal` excepts the orders both had in their snapshots (`shared`); without
  the exception TLC finds this.
- A closed order is written twice, the second time with price and profit. When the snapshot
  of a collector falls between the two writes and the second one before its delete, the
  archive keeps the order without them.
- `cancelUserOrder()` of an order that no collector has copied yet deletes it from Redis and
  finds nothing to update in MongoDB: it is in neither store. Of an order that is archived as
  CLOSED it makes a cancelled one. A copy made while the user deletes an order replaces the
  document, and with it the `isDeleted` just set.

About the rules:

- One check may send CLOSE for some orders and CLOSE_ALL beside it (`JobsOverlap`), to two handlers
  that run at the same time.
- Averaging and pyramiding add real orders to real ones also where real trade is not allowed, as
  long as virtual orders are (`RealThoughNotAllowed`).
- Users without a list of symbols get no checks for symbols nobody lists once anybody has a list
  (`Unattended`): their orders there are neither closed by a rule nor disabled.
- `cupo.strategy.ts:156` compares the third closed candle with the average of the second.
- The rule about too many symbols and the trailing stop may sell single orders at a loss; the
  step of pyramiding has the default 1 where the rule of risen orders has 10.

About accounts:

- `setUserAccountBalance` compares the end of the subscription, a timestamp, with a number of days
  (`subscription.service.ts:246`), so it always sets it.
- `setUserAccountBalance` stores a negative sum as a debt (`subscription.service.ts:221`); `changeUserAccountBalance`
  passes over a negative or zero sum in silence, and taking a negative sum away adds it. Only the
  first leaves a purse below zero (`owing`).
- The discount coupon is looked at and never marked as used; only the first of several partners
  is rewarded; cancelled, rejected and deleted payments keep their credit.
- A payout request looks at no balance; its cancellation, change and deletion bring a `$set` of their own
  into an update that puts its data under `$set` (`mongodb.service.ts:128`), which MongoDB refuses.

About the gateway:

- The verdict on old keys can be written on new ones; it is corrected by the next balance
  (`VerdictSettles`), or by nobody while the cron's flag is stuck.
- The body of `PUT /user` or `POST /user` may bring exchanges with any keys and any status, active too, which
  the exchange was never asked about (`user.service.ts:186-226`); the next balance corrects a working
  status, while broken keys are left alone until somebody sets them anew.
- Refused orders never mark keys as broken: `openBuy()` and `openSell()` return their promise out of
  the `try` that would look at the error.
- `getExchanges()` writes an empty list of exchanges over keys that were set since it read.
- `updateUserExchanges()` joins its deletes with `changed = changed || ...`, which skips the later ones.

About candles (each is an assumption of `MCCandles`):

- Four hours are glued from the array in which two hours were just glued in place
  (`candles.processor.ts:302` after 261), so the volume of odd hours counts twice (`OddHoursCountTwice`); the
  prices come out right.
- `glueCandles()` pushes the volume where it collects times (`candles.service.ts:147`): a volume above
  the timestamp in milliseconds stops the close from being taken (`VolumeTakenForTime`).
- `finished` compares the slot with the one that ran when the job began: a candle that began meanwhile
  is stored as finished, and no job of its slot looks at it again (`BegunIsFinished`); a pair of
  hours is finished in its second hour (`RunningPairIsFinished`).
- Of two overlapping jobs the older may write last and put a closed candle back as it had begun, until
  the next slot (`OverlapPutsBack`); a packet that is refused leaves a gap as long (`GapsStay`).
- The loop that looks for the last finished candle goes back from the oldest one, so every job fetches
  the whole window (`candles.processor.ts:108`).
- Weeks and three days are counted within the month (`WeeksAreTorn`).

About users:

- `PUT /user` with a part of a document drops roles, order permission, mark of deletion and number.
  A handler that read before `deleteUser()` and writes after it brings the user back, keys included.
- What the body of `PUT /user` or `POST /user` names is stored: a `platformId` somebody else has, the
  verification, the approval, the password as it is sent, the roles.
- `POST /user` without `adminApproved` fails with a TypeError after it has used up a number; after two
  overlapping draws the counter may go backwards.
- A mail the provider refuses is an error the job returns, not one it throws, so Bull never repeats it; the
  provider's other errors are logged only (`sendPulse.provider.ts:91`), and the mail counts as sent. The job
  then sets no mark, for want of a result (`email.service.ts:99`), but a mail on demand marks the user as
  told (`notify.service.ts:83-85`).
- A mail job in which a call of Redis fails pauses the queue of all mails (`email.processor.ts:22-25`); the
  resume is inside a job (17-19), so only one that was taken before the pause lets the mails go on.

## 8. What is only checked, and what is left out

Left out of the modules above:

- SELL orders (`openSellOrder` and the SELL branches of closing): nothing in the trader
  creates them, only the API can.
- In `OpenOrder` and `CloseOrder` the rules that decide whether a signal opens or closes: free choices
  there, `SignalRules` has them.
- Prices, profits and commissions beyond the comparisons of `SignalRules`.
- Virtual money: no module carries the virtual balance.
- Two users: their keys are disjoint; the crons go through them one after the other.
- In `OrderArchive`: the timeout after which Bull fails a job that is still running (300 s),
  the switch that turns collecting off, the rewriting of the deprecated list of events of an
  order, and more than one close and one removal request at a time. An update of
  MongoDB is atomic per document; the documents of a bulk write follow in any order.

- In `SignalRules`: formulas of indicators, the rounding of profits, the texts of the events.
- In `Account` and `PaymentDesk`: the callbacks of the payment provider before they reach
  `addPaymentRequest()`, cents, overlapping runs of one cron.
- In `ExchangeGateway`: markets and their limits, the rounding of volumes, the answers of single
  exchanges, overlapping runs of the cron that refreshes connections; reads that follow one another
  without a write of others in between that matters are one step.
- In `Candles`: summer time, the jobs for the indicators, the copy of old candles in MongoDB, the mark of the last
  request. All packets of a job are read at one moment.
- In `Access`: profile, telegram and indicator settings, signing in as another user, session data.
- In `TickerFeed`: the parsing of the messages of the single exchanges, changes of the list of
  exchanges at run time, markets that cannot be read (`reconnecting` then stays set), further
  websockets that close and are not opened again. The three deletes of a reset are one step, and the
  write of a claim is one with the sweep and the offer that follow it.

The other parts of the repository are listed with their status in `PROJECT.json`. Pure
views and output (tickers, indicators, marketing, log and event API) keep no state another
part depends on. The indicators are floating-point formulas, which
TLC cannot evaluate; only their windows are worth a model.

## 9. Plan

Done: the order path (`OpenOrder`, `OrderLife`, `CloseOrder`, `OrderArchive`, `OrderManagerLease`) with proofs;
the rules (`SignalRules`) with proofs; accounts (`PaymentDesk`, `Account`) with proofs; the gateway (`ExchangeSettings`,
`ExchangeGateway`) with proofs; access and notices (`Users`, `Notices`, `Access`) with proofs; the ticker feeds (`TickerFeed`) with a proof;
the candles (`Candles`) as operators.

Left, in this order:

1. `VirtualBalance` - conservation of virtual money under one writer, and what two lose.
2. The trailing stop of a symbol between two checks, with the profits `OpenOrder` leaves out.
