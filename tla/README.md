# Verification of the FX exchange backend

TLA+ specifications of the wallet, ledger, rate, quote, outbox, registration and history
code of this repository, the TLC configurations that model-check them and the TLAPS proofs
of what matters most. Paths below are relative to the repository; `W:` stands for
`src/wallet/wallet.service.ts`.

## 1. The system

A NestJS application, run as any number of instances over one Postgres, one Redis
and one RabbitMQ. There are no threads inside a handler, but every `await` is a
point where another handler, of the same instance or of another, may run.

| Component | State it keeps | Operations | What makes it correct |
|---|---|---|---|
| `WalletService` | balances, wallets and orders in Postgres; `wallet:balances:<user>` in Redis | `getWallet`, `fundWallet`, `convertFunds` (`tradeFunds`), `executeTrade` | no lost update, no overdraft, balances equal to the ledger, one booking per key and per quote, answers that agree with the book |
| `LockService` | the Redlock `wallet:<user>`, TTL 10 s, 50 retries | `acquire` | one holder per wallet; the lock is released with its handler, however that ends |
| `HouseAccountService` | the house's balance rows, one per currency | `lockBalance` | rows exist and are locked before they are changed |
| `TransactionsService` | journals and their legs | `recordJournalEntry`, `findByIdempotencyKey`, `getTransactions` | journal, legs and outbox row appear together; keys are unique per user; a walk through the pages of a history has no duplicates and no drops |
| `QuoteService` | `fx:quote:<id>` in Redis, TTL 10 s | `createQuote`, `consumeQuote` | redeemed at most once, by its owner, at the price it states; neither lost before it expires nor redeemed long after |
| `FxService` | `fx:rates:fresh` (90 s) and `fx:rates:fallback` | `getRates` | answers with recent rates, or the last known, and never with nothing again |
| `money.ts` | none | `crossRate`, `applySpread`, `convertSubunits`, ... | rounding never makes money |
| Outbox | `outbox_entries` | `addToOutbox`, the poll, the marks, the sweep | every row is published or dead-lettered, none twice claimed |
| `AuthService`, `UsersService` | users in Postgres; `otp:<id>` (600 s) and `otp:attempts:<id>` (900 s) in Redis | `register`, `verifyOtp`, `signin` | one registration per address; its mailed code is the stored one; only time, a cut-short registration and wrong guesses shut a user out; guesses are bounded |
| Mail | the jobs of a BullMQ queue, in Redis | `sendOtp`, the processor | every queued mail is sent or given up |
| HTTP layer, health, logging | none of their own | | not modelled, see section 8 |

How they meet: a handler takes the Redlock of its user's wallet, opens a transaction at
READ COMMITTED, locks the user's rows and then the house's with `SELECT ... FOR UPDATE`,
inserts a journal with its legs and an outbox row, updates the balances, commits, deletes
the cached balances and releases the lock. A trade first looks for its idempotency key and
redeems its quote, before the lock. What runs in the transaction uses the connection of
its query runner, every other query borrows one from the pool of the instance. Reads go
around the lock: they read the cache, or Postgres and then fill the cache. The outbox rows
become visible with the commit, and the pollers of all instances publish them.

What is hard here: two layers of locks, one of which (the Redlock) can expire under its
holder; house rows shared by everybody; lookups of an idempotency key that are separated
from its insert; inserts that wait on uncommitted inserts; a bounded pool from which a
rejected trade takes a second connection; a cache filled by readers who hold no lock;
commits whose outcome is not known; instances that die anywhere; an at-least-once
publisher whose error handling covers more than the publish; keys of Redis whose TTLs
start later than what they stand for, and go on without each other; a code and its counter
that no transaction joins; journals that commit in another order than they are listed in.
The `hazards` of `PROJECT.json` list these at their lines.

## 2. Modules

| Module | What it is |
|---|---|
| `Bookkeeping` | names, requests, the terms of an operation, `Delta` (its double-entry legs), the journal's entries. The constants' assumptions say what DTO validation guarantees. |
| `Ledger` | the abstract specification: requests are asked, booked atomically at most once per (user, key) and quote, and answered in agreement with the book. No locks, no failures. |
| `WalletService` | the four handlers, one action per `await` that reads or changes shared state |
| `WalletProperties` | type invariant, safety, action and liveness properties, the refinement of `Ledger` and the inductive invariant |
| `MCWallet` | instances for TLC |
| `WalletProofs`, `WalletLockProofs`, `ReconstructionProofs` | the theorems about it |
| `Delivery` | the abstract specification of the outbox: which events the broker gets, and how often |
| `Outbox`, `MCOutbox` | the poll of the outbox, its properties and its instances |
| `OutboxProofs` | the theorems about it |
| `Money`, `MCMoney` | the arithmetic of `money.ts`, a user who uses it, and an instance |
| `MoneyProofs` | the theorems about it |
| `Rates` | `FxService.getRates` on a clock: the fresh key, the fetch and its retries, the fallback |
| `Quotes`, `MCQuotes` | `createQuote` and `consumeQuote` on the same clock, composed with `Rates`: `createQuote` makes a call of `getRates` |
| `QuotesProofs` | the theorems about both |
| `Auth`, `MCAuth` | registration, the mail queue and verification |
| `AuthProofs` | the theorems about it |
| `History`, `MCHistory` | `getTransactions`: walks through a history that grows |
| `HistoryProofs` | the theorems about it |

### `WalletService` and the code

A process `p` of `Procs` is one HTTP request: `pc[p]` is the `await` it is at,
`req[p]` its arguments, `terms[p]` the two amounts and currencies once they are
known (at once for a funding, from the rates for a conversion, from the quote for a
trade), `seen[p]` the amounts its transaction read, `res[p]` its answer. A retry by
the client is another process with the same key.

| Code | Model |
|---|---|
| row locks of `SELECT ... FOR UPDATE` and of uncommitted inserts in `balances` | `rowOwner` |
| uncommitted inserts under the unique index (userId, idempotencyKey) | `keyOwner` |
| committed tables | `wallets`, `rows` (which balance rows exist), `bal`, `journal`, `outbox`, `orders` |
| Redis | `holder` (Redlocks), `live` (quotes), `cache` |
| look for the key (W:113, 292, 548) | `CheckKey` |
| `consumeQuote`, GETDEL or GET and DEL | `ConsumeQuote`, `GetdelFails`, `GetQuote`, `DelQuote`, `RestoreQuote`, `QuoteFails` |
| `lockService.acquire` | `Acquire`, `Busy`, `Unlock`, `LeaseExpires` |
| second look of `fundWallet` (W:143) | `Recheck` |
| rates and amount of a conversion (W:318-339) | `Rates` |
| wallet row (W:155, 341, 582) | `FindWallet`, `CreateWallet` |
| balance rows (W:166-187, 357-392, 595-623) | `LockFrom`, `LockTo`, `InsertTo` |
| house rows (W:195, 402-418, 625-646) | `LockHouseFrom`, `LockHouseTo` |
| `recordJournalEntry` | `RecordJournalEntry` |
| updates and COMMIT | `Commit`, `CommitReplyLost` |
| cache DEL, ROLLBACK, rejected order | `Invalidate`, `Rollback`, `SaveRejected` |
| the connection pool (`app.module.ts:40`) and `queryRunner.connect()` | `Instance`, `PoolMax`, `Borrowers`, `PoolFree`, `Connect` |
| from `connect()` to `release()` (W:589, 779) | `Connected` |
| `getWallet` | `ReadCache`, `ReadWallet`, `CreateOwn`, `FillCache` |

What a transaction writes becomes visible with `Commit`: until then only its locks can be
seen, which is what READ COMMITTED shows to others. The statements between the last lock
and COMMIT touch only rows that are already locked, so they are one step. A waiting
statement is an action that is not enabled. A query runner keeps its connection while its
request is at one of `Connected`; any other query borrows one for its own duration, which
is one step, and is not enabled while all `PoolMax` are out. `SaveRejected` is such a
query, made while the query runner still has its connection. `WaitsFor` and `Deadlocked`
are the detector of Postgres, which may abort any transaction of a cycle. A journal is
always written with status SUCCESS, so the branches for PENDING and FAILED journals are
dead code and are not modelled.

Failures are a constant, `Faults`: "crash" (an instance dies: Postgres rolls back,
the Redlock stays until its TTL), "db" (a statement, a connection or only the
reply of COMMIT is lost), "redis", "getdel" (GETDEL fails and GET does not), "fx"
(no rates), "slow" (a Redlock expires under a live handler).

### `Outbox` and the code

A worker is one invocation of `processOutbox`; `setInterval` does not wait for the
one before, so an instance may have several. The rows are numbered by `createdAt`;
they become visible in any order. `claimedAt` is null, "fresh" or "stale" (older
than `OUTBOX_STALE_AFTER_MS`). The claim and each mark are single statements and
single steps; a lost statement may or may not have taken effect.
`SweepScheduled` says whether anything calls `recoverStuckEntries`: as deployed
nothing does, because `@Cron` needs `ScheduleModule`, which no module imports. For the
refinement of `Delivery` an event is settled when its row is PUBLISHED or FAILED and no
worker has it in its hands.

### `Money` and the code

A Decimal is num / 10^scale kept to `Precision` significant digits, rounded
half-even after every operation, as `Decimal.set` says. `ConvertFunds` books what
`convertFunds` computes at the mid rate, `CreateQuote` what a quote pays at the
bid. The house is left out of this module: `WalletService` has it. `MoneyAssumption` says
that amounts and the provider's numbers have no more digits than a Decimal keeps (11 and
17 of 40: a JSON number is a double) and that a Decimal keeps at least three. Powers of
ten are the recursive function `Pow10`, which a proof can unfold.

### `Rates`, `Quotes` and the code

`WalletService` treats the rates of a conversion as some rates or none, and a quote
as a token that may vanish. These two modules have what that leaves out: time. The
clock `now` ticks while handlers wait, but no await, an attempt of the provider
included, takes longer than `Latency`. Rates are told apart by the time at which the
provider sent them.

| Code | Model |
|---|---|
| `fx:rates:fresh`, `EX 90` | `fresh`: the rates and when the key expires |
| `fx:rates:fallback` | `fallback` |
| GET of the fresh key (`fx.service.ts:110`) | `GetFresh` |
| `fetchAndCacheRates`: the request, the retries of `axios-retry`, both SETs, the catch | `Fetch`, `FetchRetried`, `FetchFails`, `SetFresh`, `SetFallback` |
| `getFallbackRates` | `GetFallback` |
| `createQuote` up to the call, the price and `expiresAt`, `SET ... EX` | `AskQuote`, `PriceQuote`, `SetQuote` |
| `expiresAt` in the quote, the TTL of `fx:quote:<id>` | `expires`, `deadline` |
| `consumeQuote`: GETDEL, else GET and DEL, the look at the user, the SET that puts the quote back | `Redeem`, `Getdel`, `GetdelFails`, `Get`, `Del`, `ConsumeFails`, `Restore` |

`redeemedAt` is the moment at which the owner's quote was read in Redis. The SET that
puts a stranger's quote back is issued with a time read from the clock anywhere between
the reply of the GETDEL and the SET.

### `Auth` and the code

`account` is the table `users` by address, `otp` and `attempts` the two keys; a
registration is one POST /auth/register and also the code it generates, a visitor a
client that verifies over and over. `Canonical` is what `RegisterDto` does to an
address; `VerifyOtpDto` does nothing to it, so a visitor asks for the address as it is
written.

| Code | Model |
|---|---|
| `register`: look, INSERT under the unique index, both SETs, the job | `LookForTaken`, `SaveUser`, `SetOtp`, `SetAttempts`, `SendOtp` |
| a job of the queue, its attempts, a worker that dies | `SendMail`, `SendMailFails`, `CrashWorker` |
| `verifyOtp`: look, both GETs, bcrypt, INCR, UPDATE, both DELs | `LookForUser`, `GetOtp`, `GetAttempts`, `Compare`, `IncrAttempts`, `UpdateUser`, `DelOtp`, `DelAttempts`, `VisitFails` |
| the TTLs | `ExpireOtp`, `ExpireAttempts` |

The TTLs are not counted in seconds: the counter is set after the code and for 300 s
longer, so it outlives the code and any request that has read the code, and that is what
`ExpireAttempts` says. A registration that fails ends "codeless" if that leaves its user
without a code, and "failed" otherwise, as the loser at the unique index does. INCR on a
key that has gone makes one without a TTL, which is `life = "forever"`. Requests that
change nothing, such as one for an address nobody has or `signin`, are not steps.

### `History` and the code

A journal is its id, the time its transaction began (`createdAt` is `now()`, which
Postgres fixes at BEGIN) and its content; it appears when it commits. A walk is a
client that asks for page after page with one query, each page below the cursor of the
one before; it may change the page size, and ask again when a request fails.
`SelectIds` is the statement that finds `limit + 1` ids, `Hydrate` the one that loads
them, with the answer. `Matches` is the `EXISTS` filter as it is written: a leg with
the currency and the type, whoever's leg it is.

## 3. Runs

All runs set CHECK_DEADLOCK FALSE: once every request is answered, every row has
settled, no balance can be converted, every code has expired or the bounded clock has
run out and every walk is over, the system really has nothing to do.

| Run | Question | Bounds |
|---|---|---|
| `wallet_faults` | safety under every failure but a failing GETDEL | 2 handlers, 10 kinds of request of 2 users over 2 currencies, 2 keys and one quote; symmetric in the handlers |
| `wallet_ledger` | refinement of `Ledger`, what a step may do to balances, what the Redlock gives while it lasts and that it is released | 3 handlers of one user, with a key shared by two operations, and a trespasser on its quote; crashes and database failures |
| `wallet_live` | progress | 2 handlers on one instance with `PoolMax` 2, among a conversion and a trade in opposite directions, a trade that is rejected, and a reader and a funding whose wallet does not exist yet, every failure |
| `outbox_as_built` | claims are exclusive, sends are bounded, refinement of `Delivery` | 3 rows, 2 workers, batches of 2, 2 retries, 2 faults |
| `outbox_swept` | with the sweep, every row settles | 2 rows, 2 workers, batches of 1, 2 retries, 2 faults |
| `money` | rounding | 3 currencies, 6 tables of rates, balances of 7 subunits, 4 digits |
| `pricing` | how old rates may be, that they never vanish again, how long quotes last | 3 handlers, each one quote or one redemption by the owner or a stranger; a clock to 4 of 2 ticks a second, `FreshTTL` 2, `QuoteTTL` 1 s, `Latency` 1, 1 retry, 1 fault, and GETDEL possibly unknown to the driver; symmetric in the handlers |
| `auth` | one registration per address, codes that work, nobody shut out without a reason, bounded guesses, mails that settle | 2 registrations and 2 visitors of one address in 2 spellings, a limit of 1 guess, 2 attempts of a mail, 2 faults |
| `history` | no duplicates, no drops, and the walk ends | 3 journals (a funding or a trade), 1 walk with or without a filter, pages of 1 or 2, a clock to 2, 1 fault |

Why these are enough: every hazard listed takes two handlers of one wallet, or two of
different wallets that meet on the house rows; the third handler is there for a retry that
meets both the original and another operation of the same user. Two currencies give both
directions of a conversion and the two house rows of the deadlock; two trades on two
connections jam only together, as twenty do on twenty (in the other runs each request has
an instance to itself, and no query waits for a connection: safety does not depend on the
pool, as the theorems show, which hold for every `PoolMax` and `Instance`); balances of 0
to 2 let an operation succeed, run dry or find its row missing. In the outbox two workers
and a batch smaller than the number of rows give split batches, rows left behind and rows
claimed again. `MaxFaults` bounds the faults of a run (liveness cannot be asked for
without such a bound), `MaxRetries` of 2 has a retry and an exhaustion. In `Money` four
digits and small amounts stand to each other as forty digits and the amounts the DTOs
admit: the error of a rate, times the amount, stays below the distance from the exact
result to the next whole subunit. With larger amounts at four digits `NoMoneyMade` fails,
as it would for amounts of some 10^20 at forty.

In `pricing` three handlers are an issuer, a stranger and the owner of one quote, or
three overlapping fetches; two ticks a second make the rounding to seconds visible,
and a clock of 4 lets the fresh key expire while a slow fetch is under way and a quote
be redeemed after it has expired. In `auth` a limit of one guess is overshot by the
second visitor, two spellings collide on one row, and two faults cut a registration
short and fail a verification besides. In `history` three journals give pages that are
full, short and empty, a journal that commits late between two others, and equal
times that only ids tell apart. What these bounds leave open of safety is closed by the theorems
of section 6, which have none.

Each property of a passing run has a seeded bug (`mutants`): an operator marked
"Seeded bug" that stands for a plausible mistake, with which the run fails.

## 4. What disagrees with the documentation

Each of these runs ends with a counterexample and checks one property, taken from
a comment, a DTO or the README.

| Run | What happens |
|---|---|
| `find_deadlock` | user 1 converts A to B, user 2 B to A: each holds the house row the other wants |
| `find_convert_retry` | a retry that passed the only look for its key before the original committed fails instead of replaying |
| `find_stranded` | a row claimed by a replica that died is never taken up again |

Four more that have no run of their own. A rejected trade saves its order through
`orderRepository` (W:761), that is on a second connection, while its query runner keeps the
first until W:779. The pool has `DB_POOL_MAX` connections (20) and no timeout: that many
trades rejected at once on one instance wait for each other for ever, and every later
request of the instance that needs Postgres waits with them. `EveryRequestAnswered`
excepts exactly this, `PoolJammed` for good; without that clause `wallet_live` fails, with two
rejected trades at "reject". A retry of a trade that overlaps the original
finds the quote consumed, where the README promises the original's
result: `TradeRetryReplays` in place of `ConvertRetryReplays`, with `TradeRequests`,
shows it. With "getdel" among the faults two trades may read one quote before either
deletes it and both are booked: `QuoteRedeemedOnce` then fails. A row whose
`markPublished` took effect and lost its reply goes from PUBLISHED back to PENDING,
though `OutboxStatus` calls PUBLISHED terminal: `TerminalStays` fails in
`outbox_as_built`. What is true is weaker, and is `ImplementsDelivery`: a row stays as it
is marked once its worker has let go of it.

Read in the code, and plain enough to need no run: a trade refused for its quote or
by a busy lock leaves no order row, though `order.entity.ts:28` says "One row per
attempted trade"; a conversion is floored (`money.ts:36`), though the README says it
"rounds to the nearest whole subunit" (and then, with a rate of one third, 18
subunits pay 5: the rate is cut before the floor, which `CostsAtMostTwoSubunits`
bounds); a handler slower than the TTL of its Redlock shares its wallet with the
next one, though the README says the lock prevents that. `OneHolderPerWallet` is
checked without "slow" for that reason; the balances stay right with it
(`wallet_faults` and the theorems).

Met while modelling the other parts, and kept in the models as they are:

* no endpoint sends a code again, so a user whose code expires, or whose registration
  fails between the INSERT and the first SET, can neither verify nor register. The same is
  true of one at whose code five wrong guesses have been made, by anyone: the counter stays
  at the limit for 900 s and the code lives 600 s (`ShutOutForAReason` says that nothing
  but these three makes `verifyOtp` refuse to look at a code; `MailedCodeWorks` says how
  many wrong guesses it takes). A code that is stored and whose mail is never queued, or
  given up by the queue, is accepted too, but nobody knows it;
* a mail may go out twice, when a worker dies or its reply is lost after the server took
  it. Both carry the same code, and the model does not count them;
* `RegisterDto` lower-cases the address and `VerifyOtpDto` and `SigninDto` do not: a
  user who spells it as at registration may not be found;
* the counter of wrong guesses is set after the code, so a guess in between is
  forgotten; it is read before the guess is compared, so simultaneous guesses overshoot;
  an INCR after the key has gone leaves a counter that never expires
  (`GuessesBounded` has what remains);
* a quote is never compared with its `expiresAt`: put back under its remaining time
  rounded up it may be redeemed up to a second, and one command, late
  (`RedeemedSoonAfterExpiry`);
* a reader that fetched balances before a commit may cache them after the commit has
  deleted the key: they are then served until another commit deletes it or its TTL of an
  hour is over. The model has the race, and there is no property about it, for the code
  promises none;
* were the sweep scheduled, a slow worker would write back the retry count it claimed
  over a later one, and a row could be sent more often than the limit
  (`SendsWithinRetries` fails in `outbox_swept`);
* an error of Redis after a successful fetch is taken for one of the provider, and the
  fallback is served although rates were just fetched;
* the filter of `getTransactions` looks at any leg of a journal. Every leg of the user
  has a mirror leg of the house, of the other type, so a filter by type alone excludes
  nothing.

## 5. Fairness

`WalletService!Fairness`: a handler that is running goes on (the event loop and the
drivers call back), Postgres aborts a transaction of every deadlock (`deadlock_timeout`).
That Redis drops keys in time is not needed: who finds a lock held gives up. A step that
waits for a row or for a connection is not enabled and is owed nothing; that it is served,
or the pool jammed, is part of what `EveryRequestAnswered` checks. The fairness is weak:
the requests of a run are finitely many and each takes finitely many steps, so that what
one waits for is taken from it finitely often. With requests without end it is the queues
that see to that, of Postgres for a row and of the driver's pool for a connection, both
served in the order of arrival. Clients are not obliged to send anything, failures not to
happen, and a crashed handler never returns.

`Outbox!Fairness`: some invocation keeps polling and working (`setInterval`), time
passes, and the sweep, where it is scheduled, runs every minute.

`Auth!Fairness`: some worker of the mail queue is up and takes a job while there are
any. Nobody is obliged to register, to verify or to expire.

`History!Fairness`: a client that has begun to walk goes on, and its requests come to an
end. Nothing is asked of postings.

`Rates` and `Quotes` state none: their properties are about safety, with bounds on
how long an await may take in place of fairness.

No run with liveness uses symmetry.

## 6. What is proved

`WalletProofs` holds for any sets of users, currencies, keys, handlers, quotes and
requests that meet the assumptions of `Bookkeeping`, and for every `Faults`. The
assumptions: `House` and `None` are not users, currencies or keys; requests have
the types the DTOs give them; quotes are between two different currencies for
positive amounts; opening balances are not negative.

The inductive invariant is `Inv`. `NoOverdraft` and `NoLostUpdate` are not
inductive by themselves; they need:

* `HandlerInv`: which request can be at which `await`, and that its terms are known;
* `RowInv`: only an open transaction owns a row, and what it read there is still
  what is committed (nobody writes a row without owning it);
* `HeldInv`: which rows a transaction owns at each of its steps, and that what it
  read covers what it takes;
* `KeyInv`: a journal key is owned only by the transaction that inserted it, and is
  not booked;
* `AnswerInv`: what a handler will answer agrees with what it has booked;
* `QuoteInv`: where GETDEL works, a quote is in Redis, in the hands of one handler
  or spent.

| Theorem | Statement |
|---|---|
| `Invariance` | `Spec => []Inv` |
| `TypeCorrect` | `Spec => []TypeOK` |
| `UpdatesAreNotLost` | `Spec => []NoLostUpdate`: the row locks suffice, whatever becomes of the Redlock |
| `NeverOverdrawn` | `Spec => []NoOverdraft` |
| `BalancesMoveOnlyByPosting` | `Spec => BalancesMoveByPosting` |
| `StepsBalance` | `Spec => EveryStepBalances` |
| `QuotesPayOnce` | `Spec => []QuoteRedeemedOnce`, if "getdel" is not in `Faults` |
| `Refinement` | `Spec => ImplementsLedger`, if "getdel" is not in `Faults` |

`WalletLockProofs` adds what the Redlock gives, and the orders:

| Theorem | Statement |
|---|---|
| `WalletsAreExclusive` | `Spec => []OneHolderPerWallet`, if "slow" is not in `Faults`, from `LockInv`: a handler between acquire and release is the one Redis has on record |
| `LocksEndWithTheirHandlers` | `Spec => []LockEndsWithItsHandler`, if "redis" is not in `Faults` (a release that fails leaves the lock to its TTL), and whatever the TTL: every way out of a handler goes by `Unlock` (`LeavesByUnlock`) |
| `FundingsNeverCollide` | `Spec => []FundNeverCollides`, if "slow" is not in `Faults`, from `LockInv` and `FundInv`: the key a funding found free under the lock stays free, for whoever books is another user |
| `OrdersAgree` | `Spec => []OrdersMatchLedger`, under every fault, from `OrderInv`: who saved a rejected order has only its lock to release |

`ReconstructionProofs` adds the sum that the ledger is kept for:

| Theorem | Statement |
|---|---|
| `LedgerReconstructs` | `Spec => []LedgerReconstructsBalances`, under every fault |
| `MoneyConserved` | `Spec => []MoneyIsConserved`, if there are finitely many users: what the users and the house hold of a currency adds up to what they held at the start |

`LedgerReconstructsBalances` folds over the legs of a finite but growing journal. The
invariant is `Inv` with `Reconstructible`: the journal is finite, and each balance is its
opening plus `LegsOf` the journal. Induction over finite sets is needed twice: for the fold
to be a sum, from which any element may be taken out (`SumsExist`, `FoldUnique`), and for
that sum to grow by one leg per journal (`SumOfOneMore`). It is done by hand
(`GrowToFinite`), from a smallest counterexample (`LeastNatural`), because the induction
theorems of the library take an operator as a parameter. `CommitReconstructs` then is
`BalancesMoveOnlyByPosting` read as a sum. `MoneyConserved` sums over the owners instead,
and follows from `StepMovesMoney`, as `EveryStepBalances` does, since two entries that
change by opposite amounts leave the sum as it was (`SumMoved`).

`MoneyProofs` holds for any currencies, rates, amounts, spread and precision that meet
`MoneyAssumption`:

| Theorem | Statement |
|---|---|
| `TypeCorrect` | `Spec => []TypeOK` |
| `QuotesPayNoMore` | `Spec => []QuotePaysNoMore` |
| `PaymentsBounded` | `Spec => []PaymentsAreBounded`, if `AmountsFit` |
| `NoMoneyIsMade` | `Spec => NoMoneyMade`, if `RoomForDigits` |
| `DigitsNeeded` | `RoomForDigits` and `AmountsFit` hold if `Precision` is two more than the digits of the largest amount, of a rate and of the two scales together |

The first two are about order: `HalfEvenMono` (rounding two fractions keeps their order,
whatever their denominators), `CutMono` and `RoundedMono` (so does keeping P digits of
two numbers that lose different numbers of digits), `TimesMono`, `FloorMono`. The spread's
factor is at most one, so the bid is at most the mid rate and pays no more.

The other two are about size. `Near(u, w, c)` says that u misses w by c parts in
W = 2 * 10^(P - 1). One rounding misses by one part (`NearestIsNear`), two in a row add
theirs and one more (`NearChains`), so that the mid rate, a quotient rounded twice, misses
by three and the amount by five (`WorthNear`), before the floor. `ConvertNear` has the
result, for all P: what is paid is the floor of the exact worth times 1 - 5/W to 1 + 5/W.
The exact worth is a fraction whose distance to the next subunit is at least one part of
its denominator; `RoomForDigits` says that five parts in W of the largest worth are less
than that. `AmountsFit`, which is weaker, says that they are less than a subunit.

Both hypotheses are about the constants alone. `money.ts` has P = 40 and the DTOs admit
amounts below 10^11 with 2 decimals, which leaves 25 digits for the significant
digits of a rate and its decimals together; the comment of `money.ts:8` counts on 10
decimals, with which 15 digits fit. A rate of 17 digits and 20 decimals is outside the
hypothesis, and there nothing is proved. The
instance of `MCMoney` satisfies `AmountsFit` (TLC evaluates it) and not `RoomForDigits`:
there TLC finds `NoMoneyMade` to hold all the same, and numbers that satisfied both would
not fit the 32 bits of TLC.

`OutboxProofs` holds for any rows, workers, batch size, retry limit and faults:

| Theorem | Statement |
|---|---|
| `OnlySentIsPublished` | `Spec => [](TypeOK /\ PublishedWasSent)`, with or without the sweep |
| `ClaimsAreExclusive` | `Spec => []OneClaimant`, if the sweep is not scheduled: a slow worker is then the only one that could lose its rows to another |
| `SendsAreBounded` | `Spec => []SendsWithinRetries`, if the sweep is not scheduled |
| `DeliveryHolds` | `Spec => ImplementsDelivery`, if the sweep is not scheduled |
| `TypesHold` | `Spec => []TypeOK` |

Its invariant is `DeployedInv`: `SentInv` (a worker that marks a row PUBLISHED has
sent it), `ClaimInv` (a worker holds each of its rows once, and none that is held
can be claimed) and `RetryInv` (what was sent of a row is covered by its retry
count, as stored or as claimed). The refinement also needs `BatchInv`: what a worker has
not yet taken up is PROCESSING, so a worker that dies settles one row at most.

`QuotesProofs` holds for any handlers, TTLs, latency, number of retries and faults, and
any bound on the clock; it assumes what `Rates` and `Quotes` do, above all that an await
takes no longer than the TTL of the fresh key:

| Theorem | Statement |
|---|---|
| `TypesHold` | `Spec => []TypeOK` |
| `RedeemedInTime` | `Spec => []RedeemedSoonAfterExpiry` |
| `QuotesLast` | `Spec => []QuoteLastsUntilExpiry` |
| `FallbackHolds` | `Spec => []FallbackKeepsUp` |
| `RatesRecent` | `Spec => RatesAreRecent` |
| `RatesStayAvailable` | `Spec => NeverUnavailableAgain` |

The invariants are `RatesInv` and `QuotesInv`. `RatesInv` says of each call, by the await
it is at, how old what it holds can be and what it has stored already: whoever has stored
the fresh key holds rates at most one command old, and the rates under the fresh key are
at most one command older than its TTL counts. `QuotesInv` bounds the deadline of a key by
`expiresAt`, the rounding and one command (`QuoteOK`), says for each await of a handler
what is known of its quote (`HandlerOK`), and is stated over all moments at which the
remaining time can be read.

`AuthProofs` holds for any spellings, registrations, visitors, limits and faults:

| Theorem | Statement |
|---|---|
| `TypesHold` | `Spec => []TypeOK` |
| `OneRegistration` | `Spec => []OneRegistrationPerAddress` |
| `CodesWork` | `Spec => []MailedCodeWorks` |
| `NobodyElseIsShutOut` | `Spec => []ShutOutForAReason` |
| `GuessesAreBounded` | `Spec => []GuessesBounded` |

The first four rest on the row that only one registration can have inserted, and on what
is known of its code at each await. `CodesWork` and `NobodyElseIsShutOut` also need that a
counter at the limit means as many wrong guesses (`ExhaustedByGuesses`), from `CountInv`:
no address has more counted, by its counter and by the visitors about to count, than were
made. `GuessesBounded` is far from inductive. `GuessInv`
accounts for every wrong guess: it is counted, or its visitor is about to count it, or its
INCR was lost, or it was counted before the counter was set; and the count and the
guesses under way stay together within the limit and the overlap.

`HistoryProofs` holds for any journals, postings, queries, walks and page sizes:

| Theorem | Statement |
|---|---|
| `TypesHold` | `Spec => []TypeOK` |
| `OrderHolds` | `Spec => []PagesAreInOrder` |
| `CompletenessHolds` | `Spec => []NothingSkipped` |

They rest on the cursor being the key of the last journal listed, on the order of keys
being total, and on the first n of a finite set being an initial segment of it.

The proof of the wallet's invariant has one lemma per group of actions and component of
`Inv`; the action properties and the refinement follow from the invariant and
one analysis of the commit step, the only one that changes balances.

## 7. What is only model-checked

Liveness (`EveryRequestAnswered`, `EverySettles`, `MailSettles`, `WalksEnd`), which is out
of the prover's reach. Every invariant and every action property of a passing run is
proved; `OneHolderPerWallet` and the others with a hypothesis on `Faults` or on the sweep
are proved under it, and the run that checks them meets it. Only `NoMoneyMade` is checked
where its theorem does not reach (section 6).

## 8. What is not modelled

The HTTP layer (filters, interceptors, pipes, middleware, rate limiting, Swagger, health
checks) keeps no state of its own or is a library's; what it guarantees of a request is
an assumption on the requests. Passwords, tokens and `signin` only read. Logging,
formatting and the running of migrations are left out. The check at boot that the house
wallet exists reads once and refuses to start. `updateJournalStatus` and
`getFailedEntries` have no caller that changes state. The widths of numbers (BIGINT
through `Number`, exact up to 2^53) are out of TLC's reach and are not modelled.
The pool of connections is modelled for the wallet's requests alone: what the outbox poll,
histories and the other modules borrow, they borrow for one statement or one transaction
that waits for no second connection, so that they delay a request and do not stop it.
Statements are not split into the client's and the server's half except where a reply
can be lost.

The modules meet in the code at three points that no module composes. `Outbox` takes the
appearance of a row as an action of its own: that it is one step with the journal and the
balances is `BalancesMoveByPosting` of `WalletService`. `convertFunds` fetches rates
under the Redlock: `WalletService` lets the lock expire there ("slow") and any rates or none
come back. `executeTrade` redeems a quote: `WalletService` lets it expire at any moment,
`Quotes` says when it may. A product of two of these modules would have no behaviour
that the parts do not have, since each part already admits every answer of the other.

## 9. Plan

Done: `Bookkeeping`, `Ledger`, `WalletService`, `Outbox`, `Money`, `Rates`, `Quotes`,
`Auth`, `History`, the refinements of `Ledger` and of `Delivery`, with proofs of the safety
properties of all of them.

Left: the width of numbers, that is balances near 2^53 subunits, which TLC cannot count
to; and a bound on `Near` for rates of any number of decimals, with which `NoMoneyIsMade`
would lose its hypothesis or find its counterexample.
