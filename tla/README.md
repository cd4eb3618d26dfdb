# yield-vault: a TLA+ verification project

This directory models yield-vault in TLA+, model-checks the models on small
instances with TLC, and proves theorems about them with TLAPS. Source paths
below are relative to the repository. Everything was translated from the code;
the documentation was used only for what it *claims* of the code.

Checking by hand, in this directory:

    tlc -config MCVault.cfg MCVault        # one run; PROJECT.json lists them all
    tlapm VaultProofs.tla                  # the proofs of one module


## 1. Inventory

yield-vault is a savings vault with lending, on an EVM chain, with a NestJS
backend that indexes its events and a Next.js frontend.

| Component | State it keeps | Operations | Talks to |
|---|---|---|---|
| `Vault.sol` | global interest index, clock of the last update, rate, total principal, a (principal, index) record per depositor | deposit, withdraw, updateInterestRate, updateMinDepositAmount, setLendingPool, transferLiquidity | the asset token; called by users and by the pool |
| `LendingPool.sol` | global borrow index and clock, total borrowed, a (principal, index) position per borrower | borrow, repay, liquidate | vault, registry, oracle, tokens, each inside its own transaction |
| `CollateralRegistry.sol` | configuration per token, balance per user and token, an array of tokens per user, totals | configure, deposit, withdraw, seize | called by the pool (role) and the admin |
| `OracleManager.sol` | list of feeds, history ring of prices | addPriceFeed, removePriceFeed, getAssetPrice(View), getTWAP, isUnderAttack | Chainlink feeds; called by the pool |
| `StrategyManager.sol` | balance per protocol, whitelist, emergency flag, time of last rebalance, roles | add/remove protocol, deploy, withdraw, rebalance, emergency | called by controller and keeper |
| `VaultController.sol` | allocation targets, pause flag, time of last rebalance | updateAllocation, allocateFunds, rebalanceStrategy, harvestYield, pause | vault, pool, strategy manager |
| indexer (`backend/apps/indexer`) | a flag, the contracts found; in the database: state row, events, deposits, withdrawals, loans, repayments, liquidations | startup indexing, ten-second cron, one handler per event, private read routes | the node, the database |
| api-gateway, indexer-provider | none | forward the public read routes | the indexer, over HTTP with retries |
| backend libraries | a request's context, metrics, connection agents | HTTP with retries and timeouts, logging with redaction, errors, validation, API key | everything in the backend |
| frontend | cached reads, form inputs, one transaction under way, timers | approve, deposit, withdraw, wrap, borrow, repay; history and transaction page | wallet, contracts, gateway |
| keeper, analytics | none | empty shells | - |
| scripts | none | deploy and configure, mint, restart | contracts |

What is hard in it, and what makes each component correct:

* **Contracts.** Transactions are atomic and run one after the other, so the
  difficulty is not interleaving inside an operation but long sequences of legal
  calls: two different indexes, records that are re-based whenever their owner
  acts, totals kept beside the records and updated by a formula of their own,
  truncating division, and checked subtraction that turns a rounding error into
  a revert. Correct means: nobody's claim changes but through their own call or
  the passing of time; interest is neither dropped nor paid twice; totals stay
  on the right side of the records; what users pledge is there; liquidity leaves
  only against collateral; an operation users are promised does not revert.
* **Oracle.** Feeds answer, age and disagree at any time; refused prices are not
  recorded. Correct means: the price is a middle one, does not jump, the history
  holds the latest points, and a refusal does not last.
* **Strategy manager and controller.** Protocols come, go and are emptied in any
  order with deployments and rebalances. Correct means: no balance is stranded, a
  rebalance conserves the sum, and an allocation that is reported is true.
* **Indexer.** A cron that fires whether or not the last run has finished, calls
  that fail, errors swallowed at three levels, a process that may die between two
  writes, no transactions, almost no unique keys. Correct means: the stored block
  number never claims a block whose logs were silently skipped, derived rows have
  raw events, one repayment closes one loan, and the index catches up.
* **Read path.** Four layers of tables that rename routes and parameters, two
  concurrent servers, attempts that time out while the indexer still works on
  them, rows that come and loans that are closed meanwhile. Correct means: an answer is of what was asked
  for and as recent as the request, an error has its cause in the layer
  that gives it (a route that is always refused is known as one), every request is
  answered, and a log line carries the trace of its own request.
* **Forms.** Buttons drawn from cached reads, effects that fire a render late,
  timers nobody cancels. Correct means: the page says only what happened, offers
  only what can succeed on current reads, and in the end shows what its own
  transactions have done.
* **Logging.** Payloads nested, long or wide in any dimension, redaction in place on
  a clone that may fail. Correct means: lines stay in their limits, and what is
  redacted is exactly what is sensitive, in the line and nowhere else.

`PROJECT.json` lists the hazards at their lines with the properties that cover
them; those that no property covers say why.


## 2. Modules

| Module | Models | Composes |
|---|---|---|
| `Vault` | the vault | |
| `DepositLedger` | what the vault promises depositors, abstractly | refined by `Vault` (`KeepsLedger`) and, for lenders, by `LendingPool` (`KeepsLenderLedger`) |
| `CollateralRegistry` | the registry | |
| `LendingPool` | the pool | INSTANCEs `Vault` and `CollateralRegistry`, conjoining their actions into its own |
| `OracleManager` | prices of one asset | |
| `StrategyManager` | balances with protocols, roles, emergency mode | |
| `VaultController` | allocation | EXTENDS `StrategyManager`, INSTANCEs `Vault` |
| `EventListener` | the indexer's tasks and tables | |
| `EventIndex` | what the indexer promises those who read its tables, abstractly | refined by `EventListener` (`KeepsIndex`) |
| `ReadRoutes` | the tables of the read path: page, gateway, provider, private routes, queries, DTOs | |
| `RequestPipeline` | requests on their way through both servers | EXTENDS `ReadRoutes` |
| `TransactionForms` | the four forms on their two hooks, the wallet and the chain | |
| `LogPayloads` | what becomes of payloads in the logs | |

`MC<module>` with its `.cfg` instantiates a module for TLC. Proofs: `Arithmetic`
(truncating division, sums over finite functions, lists kept beside mappings, least numbers),
`VaultProofs`, `CollateralProofs` (registry and oracle), `PoolProofs`, `ControllerProofs`,
`IndexerProofs`, `PipelineProofs` (read path and logging), `FormProofs`. Every invariant, action
property and refinement of the passing runs is a theorem; their liveness properties are
model-checked only. The type invariants of `Vault`, `CollateralRegistry` and `EventListener` are
theorems too; a run checks those of the first two as parts of the pool's.

What could come next: the records an index must have in the end (a row that is not refused is
recorded by some task, which is a liveness property of `EventIndex`); the deployment scripts, as a
sequence of transactions that may stop anywhere.


## 3. How the models correspond to the code

The map in `PROJECT.json` gives the lines of every definition. In general:

* One public function of a contract is one action. `require` and checked subtraction
  are guards: a transaction that reverts changes nothing, so it is not a step. A call
  into another contract is that contract's action, conjoined.
* In backend and frontend, a step is the code between two awaits, or one effect,
  timer, click or answer: what JavaScript runs without interruption.
* Amounts, indexes and rates are integers with `\div`, which is Solidity's division
  on unsigned numbers. `ONE` stands for `1e18`, `Bps` and `BasisPoints` for `10000`, `BpsYear` for
  `10000 * 365 days`. The 256-bit upper bound is modelled where the code can meet it
  (`StrategyManager`, whose balances no token limits; `MaxUint`): elsewhere, with
  indexes near `1e18` and amounts far below `1e30`, no product comes near it. Zero,
  the lower bound, is always modelled.
* Names are the source's. Definitions with a name such as `IndexNotStored` that no
  action uses are wrong forms of the definition next to them; each property is
  shown to fail when the code's form is exchanged for such a one.

**Vault.** `UpdateGlobalIndex` stores the value `CurrentIndex` reads, so every
transaction first settles interest; with no principal it moves the clock alone.
`DepositFrom(caller, payer, amount)` separates who is credited from who pays, because
a liquidation deposits in the pool's name. `Tick` is the chain's clock; `FundInterest`
is a plain transfer to the vault's address, the only way interest comes to be backed.

**CollateralRegistry.** `RemoveToken` is the swap-and-pop loop, `PushToken` the condition
under which the array grows. `withdrawCollateral` is modelled though nothing calls it.

**LendingPool.** `Borrow` checks health on the *next* state, as the code does after
writing the position and before moving liquidity (the transfer does not change what is
checked). `Repay` sends tokens straight to the vault; only `Liquidate` deposits them. A
price of 0 stands for an oracle call that reverts. `ValueScale` is the `1e18 * 1e2` of
`_getCollateralValue`. `PriceMoves`, `ConfigureStep` and `SendToPool` (someone sends
collateral tokens to the pool's address) are the environment. `borrowTimestamp` and
`borrowRatePerSecond` are written and never read, and are left out.

**OracleManager.** Nothing kept of one asset is read for another, so the model has
one. `PriceAnswers` is the conjunction of everything `_getPrice` requires, `Price` the
median it then returns. `Ranked` says what the bubble sort puts at a place.
A feed's answer of 0 stands for all answers that are discarded whatever their age.

**StrategyManager.** `Moved` applies both assignments of `rebalance` to storage, one
after the other, so a protocol rebalanced onto itself comes out as it went in.
`GetTotalDeployed` sums over the protocols numbered so far; a sum beyond `MaxUint`
makes `emergencyWithdrawAll` and `allocateFunds` revert. `members` are the roles,
which the deployment never grants to anyone.

**VaultController.** Two operations of the contract are not actions, since no call of them
ever changes a state: `rebalanceStrategy` is `nonReentrant` and calls the `nonReentrant`
`allocateFunds`, so it always reverts (`VaultController.sol:128`), and `harvestYield` only
emits. `AllocateFunds` withdraws in the controller's own name (`TakeFromVault`); the two
withdrawals of one transaction are taken as one.

**EventListener.** A task's `pc` names the await it stands at; a step is the code from
there to the next await. `task[t]` keeps the locals: batch bounds, the contract, the
logs of its fetch still to walk (a set; `First` is the next in the chain's order), the
loan found. `UpdateState` covers `getBlock` and the upsert, `SaveEvent` covers `getBlock`
and the insert; a failure of either is `TaskFails` or `LogFails`. `GetState` cannot fail
as far as its caller can tell: it answers null. `Start` finds the contracts or does not, and
neither costs a fault: the settings of the moment may have no addresses (those of
`config/default.json` are empty) or the artifacts may be missing, and `initializeContracts` then
returns with a warning or logs an error, and nothing else happens. `givenUp` is a history variable, read by
properties alone. A call that fails has no effect; a write that is carried out but whose
answer is lost looks to the database like the crash between two calls, which is modelled.

**ReadRoutes.** One table per layer, keyed by what the layer is asked for; `Forwarded`
follows a request from the gateway's controller to the provider's URL, parameter and
limit. An address is a name and a spelling (lower case, mixed, malformed), because the
indexer stores lower case and the layers differ in where they convert. A total is
represented by the rows it adds up. `NewestOf` is a set of possible answers: ties of
timestamps fall either way.

**RequestPipeline.** A job is a request at the gateway (`<<request, 0>>`) or its n-th attempt
at the indexer. Its stages are the pipeline's order: guard, interceptor, validation pipe,
handler, then interceptor and filter on the way back. `context[job]` is the job's
AsyncLocalStorage store. `Retry` does not end the attempt it gives up on. Whether the
exception filter still runs inside the request's context depends on how the framework
subscribes to the handler, so both are tried (`filterInContext`). `IsInternalTarget`
decides on *kinds* of host names. Of the indexer's writes two matter to who reads: `Index` adds a
row, and `UpdateLoan`, the second half of `handleRepay`, takes a loan out of the active ones
(`closed`). Any active loan of the account may be the one; which it is, and how the lookup races
another run, is `EventListener`'s.

**TransactionForms.** `chain` is what the contracts and tokens hold of the account, `cached`
what the page last read, `reading` the reads under way. An action that changes what an
effect depends on ends with `Effects`, which queues the effect's callback with the values
of that render: `checks` are the `setTimeout(..., 0)` of the approval check, `timers` the
delayed follow-ups of a confirmation. Neither queue is ever cancelled, as in the code.
`Accrue` is the interest on a claim or a debt, which grow in the contracts' views with every second.
No hook re-reads them for that: a value is read when a form is opened, by a transaction's follow-up
and on returning to the window, and `accrued` keeps what has come since.
`Elsewhere` is the account used in another window, for its tokens and allowances; `Revert` may happen for the contract's own
reasons. `DepositScale` is the `1e12` between the 18 decimals `DepositForm` compares with and
the 6 of the token.

**EventIndex.** The tables alone, without tasks: `mined` is the chain's head, `claimed` the stored
block number, `events` and `records` the rows of each log, `credit` the repayment rows that have
closed no loan, `lost` the logs given up, `errors` the calls that failed, `knowing` whether the
process that is up was told of the contracts; who was not loses the logs it claims. `EventListener` maps
`records` to rows of the deposits, withdrawals, repayments and loans tables together, and `credit` to
repayment rows less closed loans. Reading, moving on to another contract or batch and crashing are not seen.

**LogPayloads.** Payloads are trees of texts (of a length), scalars, lists and objects;
`Sanitize` is the interceptor's `sanitizeHttpLogPayload`, `RedactObject` the helper's
recursion. Both are recursive functions on the set of payloads, closed under parts; `Nesting` bounds
how deep each is, which is what makes them trees. A path is a list of child numbers, `Trail` what
lies along it. `SafeClone` says whether the clone shares structure with the data. That what clients
send has no big number in it is `BodiesAreJson`: bodies are parsed from JSON.


## 4. Runs

Passing runs:

| Run | Question | Instance | States |
|---|---|---|---|
| `vault_core` | vault invariants and the refinement of `DepositLedger` | 2 depositors with 2 tokens each, amounts 0-2, 3 rates (one above the cap), 2 ticks, `ONE = 8` | 77 thousand |
| `registry_core` | books of the registry | 2 users, 3 tokens, 3 of a token at most, 5 configurations (4 to refuse or switch off) | 4 thousand |
| `pool_core` | pool, vault and registry together, what lenders have of it (the refinement of `DepositLedger`), what a borrower's pledges are worth | 2 borrowers, 1 lender, 1 token, prices 0/2/5, 1 tick | 246 thousand |
| `oracle_core` | prices | 2 feeds in up to 3 places, prices 0/20/21/30, ring of 2, 3 ticks with window and maximal age of 2 | 213 thousand |
| `platform_core` | strategy manager and controller on a vault | 2 protocol numbers, amounts 1-2 with `MaxUint = 2`, 3 allocations (one that does not sum up), 1 tick | 157 thousand |
| `indexer_core` | what the index may claim (also as the refinement of `EventIndex`), that no log is indexed more often than failures and crashes explain, and that it catches up | startup task and 2 cron runs, contracts found or not at each start, 6 logs (one of every kind) in 2 blocks, 1 fault, 1 crash, with fairness | 529 thousand |
| `gateway_core` | answers, errors, traces, progress of the read path | 2 requests together or 1 of each other route; 6 rows and 1 to come, a loan that is closed and one that will be, limits 2 and 3, 1 retry, hosts and keys in 3 situations | 255 thousand |
| `forms_core` | what each form says, offers and shows | each form, amounts 1-2, claims and debts that grow to 2 (`MaxClaim`), approved in part or not, 1 pending check and 2 timers, with fairness | 1.24 million |
| `log_core` | limits and redaction | presets of sizes 1-5, bodies and data to depth 4 | 825 |

Why these bounds are enough for the interesting cases: in the vault, the unit of 8
makes one tick at the lowest rate a visible interest, truncation happens at every
second step, and two ticks let interest be compounded and grow again; a depositor can
deposit, compound, withdraw in part and withdraw the rest around another depositor's
calls. Three tokens are the smallest array in which the removed, the last and a third
entry differ. In the pool the three prices make the same loan unhealthy, liquidatable or
refused, and one tick at the small scale is interest on a loan of 1. In the oracle,
prices 20 and 21 agree, 30 agrees with neither and is five times the distance the TWAP
check admits; the ring wraps and a point ages out of the window. Two protocols are a
rebalance between two and one onto itself, and with a largest number of 2 both sums and
balances overflow. In the indexer, two cron runs are the smallest overlap, two blocks in
one batch at startup and in one or two cron runs, and one fault and one crash reach every
await; two blocks rather than three since liveness is checked in the same run. On the read
path one retry is a repeated attempt beside one in progress, and the rows include two of the
same time, another account's, and more of a table than a limit; the row to come is a repayment, so
that a loan is closed while lists are being read. A form needs one approval
and one payment with a timer of the first outstanding at the second, hence two timers; claims and
debts start at 1 and may grow by 1, before, between or after the reads and transactions. Log
presets have a different size in every dimension, and payloads one below, at and above each.

Deadlock checking is off where the bounded model stops: the clock and the amounts run
out in `vault_core` and `pool_core`, an indexer whose startup failed has nothing left to do,
every request of `gateway_core` is made once, and a form nobody uses is at rest. Symmetry is
used between depositors, borrowers, tokens and feeds in runs without liveness.

*Fairness.*

* Indexer (`FairSpec`). Weak fairness on each task's next step: Node's event loop runs every
  continuation whose call has answered, and an awaited call answers or fails. On `SyncCheck`:
  the timer keeps firing. On `Start`: the supervisor starts a process that is down (`restart:
  unless-stopped` in docker-compose.microservices.yml). On `Mine`: the chain produces blocks.
  None on `TaskFails`, `LogFails` and `Crash`: nothing has to go wrong. `CatchesUp` is
  conditional on the flag staying up, since a failed startup lowers it for good
  (`indexer_realtime`).
* Read path. Weak fairness on a step of the gateway for some request: the gateway runs, and axios
  ends every attempt after 30 s, so that a waiting request always has a step. Nothing is asked
  of the indexer, which may stay down.
* Forms. Weak fairness on `FireCheck`, `FireTimer` and `Receipt`: timers fire, and the receipt is
  polled for. Strong fairness on the allowance's answer, which the bound on pending checks holds
  up while the user keeps typing. None on the user, the wallet and the chain.

Runs that show a disagreement between the code and what the repository says of it:

| Run | Claimed | Shown |
|---|---|---|
| `vault_anytime` | "Withdraw anytime with accumulated interest" | a full withdrawal after compounding reverts (`Vault.sol:198`) |
| `pool_unhealthy` | "Health Factor < 1.0: Liquidation triggered" | the pool holds none of the pledged tokens to pay the liquidator from (`LendingPool.sol:184`) |
| `indexer_realtime` | "Real-time event indexing" | one failed call at startup ends it (`event-listener.service.ts:144`) |

### Other disagreements met while modelling

They are visible in the models' definitions, and no run is spent on them.

Contracts:

* The last full repayment with interest reverts, since repayments of interest are subtracted from a
  total that does not contain it (`LendingPool.sol:143`), while RepayForm.tsx:197 says a loan is
  repaid to unlock collateral; no function of the pool unlocks it either: `withdrawCollateral`
  is callable by the pool alone, which never calls it.
* `Vault.sol:320` takes a total principal of zero for "no deposits". Compounded interest is not
  in the total, so another depositor's withdrawal can bring it to zero with a deposit left, to
  which no interest accrues from then on.
* Loans are paid out from 125% collateral on (`LendingPool.sol:108`); README.md:219 says 150%.
  The LTV configured in the registry is never read.
* The seized amount is not scaled from asset to collateral units (`LendingPool.sol:180`), so
  a liquidator would receive far less than the bonus CONTRACTS.md and the steering notes promise.
* The borrow rate adds `utilization * slope1`, CONTRACTS.md:104 says `slope1 * utilization / 80%`.
* Once the oracle's ring has wrapped, its last entry is not the latest price, as
  `OracleManager.sol:165` takes it to be.
* `AttackDetected` (`OracleManager.sol:75`) is behind a check that has reverted on the same condition.
* One feed listed twice satisfies `MIN_ORACLES`; the production script lists each feed twice.
* The strategy manager's balances are backed by no token, `maxAllocation` is never enforced, and
  approvals to protocols remain after withdrawals. No script grants `KEEPER_ROLE` or
  `CONTROLLER_ROLE`. `allocateFunds` succeeds only where nothing has to move, and
  `rebalanceStrategy` never.

Indexer and read path:

* An error on one log is swallowed and its block stored as done (`event-listener.service.ts:231`),
  so "complete event history" (README.md:232) holds only up to `givenUp` in `NoSilentGap`.
* Without configured addresses, as in `config/default.json`, the indexer warns, goes on
  (`event-listener.service.ts:40-45`) and stores block after block as indexed with no row of
  any; nothing fails. Started with addresses later, it goes on from the stored number and never
  goes back. `givenUp` holds these logs too.
* `handleLiquidation` reads `args.amount`, which the event does not have (`loans.service.ts:102`):
  it always fails, and no loan is ever marked liquidated.
* A partial repayment marks the loan repaid (`loans.service.ts:72`); RepayForm.tsx:225 says partial
  repayments are allowed.
* The cron asks for all missing blocks at once and does not use `BATCH_SIZE`.
* The liquidations route always answers 400: the gateway sends `borrowerAddress`
  (`loans.controller.ts:55`), the indexer expects `userAddress` (`private-loans.controller.ts:101`).
* `eventsByType` ignores `?limit`. A wrong indexer key is shown to the user as a 401 of their own.
* Traces end at the gateway in the deployed configuration, whose indexer URL is a public name,
  though request-context.ts:9 speaks of end-to-end tracing.
* Errors are counted under status 200, because the metrics interceptor reads the status before the
  filter sets it. The Throttler's guard is never registered. `AxiosModule` is imported nowhere, so
  the teardown of its agents never runs.
* A failed list is shown as an empty one, a failed transaction query as "Transaction not found";
  the net position on the page combines totals of different moments.

Logging:

* The interceptor shortens and does not redact; the helper's own `sanitizeHttpLogPayload` is dead
  code; the presets' `maxApproxBytes` is never read. A repeated attempt hands on data that is
  already a string and would not be redacted; today only reads are sent, which have none.
  The last of several failed attempts is logged once per attempt and once more.

Forms:

* Timers outlive the next click: a late one empties the amount just typed or clears `lastAction`.
  "Borrow confirmed!" is shown after an approval (`BorrowForm.tsx:207`); wrapping is offered again
  until the balance has been read anew; the token balance is never read again after a deposit.
* Claims and debts are shown as they were last read, and only a follow-up, a newly opened form or a
  return to the window reads them again: on a page left open the interest is missing. `SettledIsFresh`
  says that nothing but the interest is. "Max" of the withdrawal and repayment forms takes the
  value shown.
* `DepositForm` compares an amount of 18 decimals with an allowance of 6, `BorrowForm.tsx:156` a
  health factor in wei with 1.5, and the transaction page formats USDT with 18 decimals
  (`page.tsx:259`; `format.ts:5` says 6).


## 5. Proofs

All theorems hold for every value of the constants that satisfies the named assumptions of the
module: any number of accounts, feeds, tasks, logs, requests, retries, faults and crashes. Where a
theorem counts or sums up, the sets in question are assumed finite: accounts, borrowers, users of
the registry, cron runs, the logs of a chain and the rows at the start. At any moment of a real
execution only finitely many have ever occurred.

**Arithmetic.** Division is pinned down by its two bounds (`DivBounds`, `DivUnique`). Sums need an
induction, and the library's induction theorems take an operator as a parameter, which the provers
cannot instantiate. The lemmas argue by a minimal counterexample instead: among the subsets of a
finite domain on which a formula fails there is one with no smaller such subset (`MinimalSubset`),
and taking a member out of it gives the contradiction. Applied to what `SumFunction` unfolds to,
this shows that a sum exists (`SumUnfolds`) and may be taken apart at any term (`SumTakesOut`). What the models' steps
do to sums is then one lemma, `SumChanges`: changing one term changes the sum by the difference.
`SumMonotone` and `SumScales` compare sums, `LeastExists` gives the least number of a set, and from
it `CountsUp` climbs level by level, where the models recurse. `WalkAddsUp` says that walking a list
without repetitions adds up the mapping whose non-zero keys it names.

**VaultProofs.** `VaultInvariant`: `Spec => []IInv`, with `IInv == TypeOK /\ IndexDiscipline`;
`TypeCorrect` and `IndexDisciplined` are its conjuncts. `ShownRateCorrect`: the rate displayed
converts back to the rate in force. `VaultKeepsLedger`: the vault implements `DepositLedger`.
Assumed (`VaultConstants`): the vault's address is neither a depositor nor a recipient, numbers are
naturals, divisors positive, and twice `BpsYear` is at most `ONE`, which rounding to the nearest
basis point needs (`10000 * 365 days` is about `3e11`, `ONE` is `1e18`). `TypeOK` alone is not
inductive: `balanceOf` divides by the depositor's index, and that a quotient is a number at all
needs the index to be positive. It is, because an active record's index was copied from the global
index, which starts at `ONE` and never shrinks, as every update multiplies by at least one
(`ScaleUp`). The refinement adds one observation: a transaction stores the very index the view
function was reading (`StoredIndexIsCurrent`), hence settling interest changes no claim
(`UntouchedClaim`), and a record written at the current index is worth exactly its principal
(`FreshClaim`, from `DivExact`). Then a deposit is a credit, a withdrawal a debit, and only `Tick`
is an accrual. `PrincipalsAreCovered` follows the two sides of the account: a transaction changes
one record by at least what it changes the total by, since a record is re-based at its balance,
which is never below its principal, and by exactly that while the index stands at `ONE`.

**CollateralProofs, the registry.** `RegistryTypeCorrect` and `ArrayNamesWhatIsHeld`, inductive
together. The order of the array plays no part: `PushNames` and `RemoveNames` say once what pushing
and swap-and-pop do to the set of tokens an array names and that it stays free of repetitions; every
operation moves one user (`OneUserMoves`), and pushes or removes exactly when a balance leaves or
reaches zero. `TotalsAreSums` adds `SumChanges` for the one balance that moves.

**CollateralProofs, the oracle.** `OracleTypes`, then four results on what is done with the answers.
`HistoryInOrder`: `Place` turns the k-th oldest point into a place of the array without a remainder
(`OldestStands`); a new point goes to the array's end or to the place of the oldest, and either way
becomes the last in the order, no earlier than any other. `MedianIsMiddle`: in the order of the
sort, price first and place second, no two answers have the same number of others before them, and
each number is below the count, so every rank is taken (`RankedIsMember`) and bounds how many
answers lie below and above (`RankSplits`). `LockoutIsBounded`: a point that has left the window, or
stands at its very edge, weighs nothing, and no weight means no average to differ from.
`PricesDoNotJump`: a weighted average lies between the smallest and the largest of what it averages
(`SumMonotone`, `SumScales`), so a price within the deviation of the average is within it of some
point on either side; the one extra basis point in `Reach` is what the truncated deviation can lose.
The assumptions (`OracleConstants`) include that a feed may be without an answer (`0 \in Answers`),
since every feed starts so.

**ControllerProofs.** `NothingLeftBehind` is not inductive by itself: a deployment asks for a
whitelisted protocol, and only `Numbered` (a whitelisted protocol has a number below the count) says
that `emergencyWithdrawAll` comes by it. `PlatformKeepsBooks` shows that the composed platform takes
only steps of the strategy manager, which carries the invariant over (`PlatformLeavesNothing`).
`AllocationMet` rests on `EmptyHanded`: the controller is no depositor and never comes to have a
deposit, so a withdrawal in its name succeeds for amount zero at most. `BooksAreConserved`, and with
it `PlatformConserves`: a rebalance changes two terms of the sum one after the other, and where the
two are the same protocol it comes out as it went in, since the second assignment reads what the
first has stored.

**PoolProofs.** `PoolInvariant`: pool, vault and registry together keep `PoolInv`, whose conjuncts
are the theorems `PoolTypeCorrect`, `PositionsAreDisciplined`, `PledgesStayHeld` and
`LendersStayCovered`. The vault's part is proved anew, for the transactions as the pool calls them
(`VaultInv`). The borrow index only grows, because its factor is `ONE` plus a product of naturals
whatever the utilization (`BorrowIndexGrows`); so a debt is a number at least as large as what was
recorded, and a position written at the current index is owed exactly (`PositionWritten`, from
`DivExact`), which gives `DebtFollowsTokens`: borrow, repay and liquidate change a debt by the
tokens that move. `LendersStayCovered` needs that as long as the savings index stands at `ONE` every
balance is its principal (`BalanceCovers`), so a withdrawal takes from `totalPrincipal` what it pays
out, and that a liquidation's deposit is in the pool's name. `PositionsAreCounted`: each call
changes one position by at least what it changes `totalBorrowed` by, interest being capitalised in
the position alone. `DebtNeedsCollateral` goes through the actions: repaying and liquidating take
from a debt, everything else leaves it or makes it what it was said to be already, and `borrow`
alone adds to it, after which its own health check must hold. "Owes more" compares the debt stored
at the end with the debt read to the second before, so that interest alone is not a loan.
`LendersKeepLedger` shows that the composition implements `DepositLedger` for the accounts other
than the pool's: a transaction stores the savings index it read (`StoredIndexIsRead`), and writes
lenders' records in their own deposits and withdrawals alone (a liquidation's deposit is in the
pool's name), so loans, repayments and seizures move wallets and no claim. `CollateralCountsOnce`:
the registry's arrays stay in step with the balances under the pool's transactions
(`StepKeepsArrays`), and a walk along such an array adds up all balances (`ValuesAddUp`). Assumed
(`PoolConstants`): the contracts' addresses differ from each other and from the borrowers', numbers
are naturals, divisors positive, and the vault holds no tokens when deployed.

**IndexerProofs.** `ListenerTypes` first (`TypeInv`). `NoGapIsSilent`: the stored number is no
inductive invariant; `Walks` says of every task under way that the blocks before its batch are done
(`Behind`), and that a log of its batch is done or still ahead of it (`Ahead`: in the rest of its
fetch, or of a contract it has not come to). The set of logs that are done only grows, so
overlapping tasks, failures and crashes leave every other task's part true, and writing a smaller
number later claims less. Where the contracts were not found, `UpdateState` gives the batch up in
the same step. `NoRecordWithoutEvent`: rows and tasks are counted together (`RowsInv`); a task
between the insert of the event and that of the record counts as a record to come, and a crash only
takes tasks away. `EveryClosingIsRepaid` counts the tasks between looking a loan up and marking it
in the same way (`ClosedInv`): the repayment row is written before the lookup, and two tasks that
find the same loan have written two. `IndexedOnce`: as long as no runs have overlapped,
one task at most is under way, and a log that has as many rows as it may have (`Due`, one and one
more for each failure and crash) lies behind it: its block is stored, or below the task's batch, or the
task has passed it within the batch (`Past`, `RepeatInv`). So the task inserts no further row of it;
what makes a task walk a log again, a failed call or a crash, adds one to `Due`.
`IndexerKeepsIndex` puts these together to show that the indexer implements `EventIndex`. A handler's
record has an event row to spare and a closed loan has credit because the task itself is counted in
between (`RowInHand`, `ClosingUsesCredit`; two tasks marking one loan take one credit, the second
mark changes nothing). Storing a number is a `Claim` by `IndexInv` after the step, of a block the
chain has by `TypeInv` (`StoringClaims`). Where the contracts were not found, the logs given up
unread with the batch are lost to a claim of a process that does not know them, which is what
`EventIndex` allows such a process and no other; starting one is its `Restart` (`RestartsAreSeen`).

**PipelineProofs.** `TracesAreKept`: `Fits` says for every job what its context holds at each stage,
and what an attempt carries until the indexer reads it; a step changes one job (`OneJobMoves`), and
a crash none of those it leaves in progress. The other three rest on `FlowInv`. It says of an
attempt's answer, from the moment it exists, that it is one the indexer may give with rows and
closed loans between those of the request's arrival and those of now (`Before`), of a status that
its job has cause for, and of each request that the attempts made are the first few of it, and all
of them where it failed with a 500. Rows and closed loans only grow, so that later steps leave this
true; a loan that is active now was so at every moment between, and one closed on arrival at none. `AnswersStayCurrent` needs from the
tables that what the provider asks for is what the gateway was asked (`RoutesFit`): parameter,
spelling, limit, for each route of `Routes`. `PagesStayLatest` needs that cutting lists one by one
and cutting them again together is cutting once (`CutOnce`). `ErrorsStayExplained` needs that no
attempt is given up before the last, that the gateway refuses whatever the indexer would, liquidations
apart (`GatewayRefusesFirst`, compared route by route), and that the indexer refuses every request
for those (`LiquidationsRefused`). Assumed (`PipelineConstants`): requests name routes of the
gateway, those answered at the start were accepted by both servers, rows are finitely many at the
start, the loans closed among them are loans, a host has a kind. Proving it showed that `LimitAsked`
was defined by two overlapping cases; it now says which comes first.

**PipelineProofs, the payloads.** The functions that walk a payload are recursive, and nothing is
proved by induction here; `CountsUp` takes its place, a statement that passes from each nesting
level to the next. First, that the recursions have a value at all: a payload's parts are nested less
deeply, so for every level there is exactly one function on the payloads up to that level, and these
agree (`RedactUnfolds`; `SanitizeUnfolds`, whose values are functions of the depth).
`LoggedLinesFit` then climbs from the deepest level that is shown: at `maxDepth + 1` everything is
replaced and nothing fits; one level up, a payload is logged as it is exactly if it is within the
limits and its parts were, and whatever is logged of it fits with the markers' room (`ListLevel`,
`ObjectLevel`, `ValueLevel`, `LevelsFit`). `RedactionIsExact` goes down along a path instead: at each
step of it what the line shows is the redacted value of what the data has there (`NodesShown`,
`PathsShown`), until a redacted text, which has no parts (`SecretsAreLeaves`); that such a copy can
be written follows level by level again (`RedactedIsCopyable`). Assumed: `PayloadConstants`, that
payloads are JSON values or contain big numbers and have a nesting, presets are natural numbers; and
`BodiesAreJson`.

**FormProofs.** `ConfirmationsAreTrue` follows from `ActionFits`: `lastAction` is empty or the call
of the transaction, since only a click writes another, together with the transaction.
`FreshPaymentsAllowed` needs to know what the approval effect's callbacks will say when they run:
the last one queued decides, and it was queued with the inputs as they are (`CheckFits`); a click
with none outstanding and reads current thus saw the chain's allowance (`AllowanceFits`), which only
the form's own transaction or `Elsewhere` lowers afterwards. That a chain value stays a number,
which a payment from an allowance of `Unlimited` needs, is `FormConstants`. `SettlingRefreshes`
follows every outdated read (`Follows`), one that differs from the chain by more than the interest
since it was made (`Fresh`; interest adds to both sides, `AccrueFollows`, and an answer makes the
read what the chain has): it is one the confirmed transaction touches and whose
follow-up is to come, or is queued, or it is being read. One read is followed up in a roundabout
way: a borrowing takes wrapped tokens, which its own follow-up does not read again; but that empties
the form, the step then shown is "wrap", and the effect of that change queues the follow-up which
does (`WillEmpty`).

*Model-checked only:*

* Liveness (`CatchesUp`, `ApprovalLeadsOn`, `EveryRequestAnswered`): the prover has no rule for
  fairness, whose definition speaks of `ENABLED`.


## 6. What is not modelled

* Deployment scripts: straight lines of awaited transactions run by hand, with no branch, retry or
  state of their own.
* Keeper and analytics (empty shells), health checks, database modules and metric decorators (thin
  wrappers of libraries), decorators no DTO uses, views and configuration, mock contracts (test
  doubles of what the models take as external).
* Reentrancy: every function that calls out is `nonReentrant` and tokens are plain ERC-20s,
  so a transaction is one step. Tokens that take fees or call back are not considered.
* Ownership and roles are modelled as who may take which action; granting and revoking them is
  modelled in the strategy manager alone.
* Plain transfers of the asset to the vault are in `Vault` but not in the pool's composition:
  there `LendersAreBacked` is an equation that such a gift would only tip to the lenders' side.
* Chain reorganisations: the indexer stores a block hash and never compares it; the model's
  chain is final.
* Rows' contents other than what a property reads (hashes, timestamps, JSON), and formatting.
* A crash of the gateway, which keeps nothing: a request it was answering is lost with it. Requests
  of browsers carry no trace header of their own.
* In the forms, a claim withdrawn, a debt repaid or a position liquidated from outside the page: it
  would be shown late like the interest, and no read is made for it. The reads a page makes when a form
  is opened are the initial state.
* The length at which `stringifyLimited` cuts a debug line.
