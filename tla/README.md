# A formal model of eticapool

eticapool is a mining pool for Etica (RandomX proof of work), written for
Node.js. Miners speak Stratum to it, it turns their shares into solutions for
the Etica contract, and pays them what the pool has earned. The modules in this
directory follow the work of a miner through the pool: the job it is given, the
share it hands in, the solution that is sent to the contract, the reward that is
divided, and the payment that is made.

## The system

Everything shared lives in MongoDB; Redis carries shares and events between the
processes when the pool is run as several services (`docker-compose.scaled.yml`).
Every task is an async function on a timer. Inside one process only the `await`s
interleave, but most timers start a task again although the last call has not
returned.

| Part | State it keeps | Operations | What is hard |
|---|---|---|---|
| Stratum worker (`lib/stratum/worker.js`) | login, target, blob, extra nonce, retarget timer | login, getjob, submit, new challenge, retarget, close | the job changes between the check of a share and its record; timers that outlive the socket |
| Share queue (`redis-interface.js`, `queued_shares_list`) | stream with pending entries, or a list | add, read, acknowledge, claim | delivered twice, or never after a fall-back |
| Share processor (`peer-interface.js`) | `miner_pendingshares`, `miner_challengediff`, `totaldiff_challengenumber` | check and count a share, queue a solution | read-compute-write with several processors, crash half way |
| Challenge collector (`token-data-helper.js`) | `miningContractData`, `allminingContracts`, `ethBlockNumber` | read the node, write, announce `newChallenge` | reads torn by a new epoch, overlapping calls |
| Event bus and caches | cached challenge and pool data | publish, invalidate, load | a load that ends after the invalidation |
| Mint transactions (`transaction-coordinator.js`) | `transactions` of type `solution` | queue, broadcast, outdate, monitor | a challenge that is outdated under way |
| Mint detection and rewards | `pool_mints`, `minerData.alltimeTokenBalance` | detect mints, share out a reward | recorded twice, rewarded twice, crash before the award |
| Balance payments (`token-interface.js`) | `minerData.tokensAwarded`, `balance_payments`, two flags | build payments, build batches | overlapping calls, crash between two writes |
| Payment transactions (`transaction-coordinator.js`, `transaction-helper.js`) | `transactions` of type `batched_payment`, one flag | broadcast, monitor, stuck check, stale, requeue | overlapping calls, a transaction sent twice, late answers |
| Payment contract (`BatchedPayments.sol`) | payment ids already paid | `multisend` | the last guard against a double payment |
| Requeue tool (`requeue-revertedtxs.js`) | none | queue reverted batches again | a process of its own, insert then delete |
| Login of the web site (`auth-helper.js`) | `auth_nonces` | nonce, verify | one nonce used by two requests |
| Cleaner, statistics, charts, web API, network of pools, price, logging, scripts, frontends | display and housekeeping | | nothing that a decision of the pool depends on |

The parts form one chain. The collector announces a challenge; workers give jobs
and put shares in the queue; the processor counts them and queues a solution;
the coordinator sends it as a transaction; a detected mint is shared out among
the miners by a `$inc` of `alltimeTokenBalance`; what is owed becomes
`balance_payments`; these are gathered in batches of at most 25 and queued as
transactions; the chain pays; a receipt confirms the payments and adds to
`tokensReceived`.

## What is modelled

Four systems, each with its own specification and runs. They meet at the points
named below; a system takes what comes from its neighbour as an input.

| Module | What it is |
|---|---|
| `StratumWorker` | the stratum server and its workers: start, connection, login, first job, submit, reload, retarget timer, end; the `newChallenge` event |
| `JobSystem` | `StratumWorker` with lost notices and rejected reads; the properties |
| `MiningData` | the contract's epochs, `miningContractData`, `allminingContracts`, `totaldiff_challengenumber`, `miner_challengediff` |
| `ChallengeCollector` | `collectTokenParameters`: reads, comparison, three writes, purge |
| `ShareProcessor` | the Redis stream and its consumer group, the Mongo list, both loops of a share processor, the handling of a share, the cleaner |
| `MintRewards` | `detectPoolMiningSuccess`, `insertMint`, `rewardCrawl`, `processAddressforChallenge` |
| `MiningSystem` | these three together, with failures and crashes; the properties |
| `MintTransactions` | solutions queued, broadcast, outdated, monitored and skipped, and the transfer of tokens that shares their account; the node |
| `MintSystem` | `MintTransactions` with what goes wrong; the properties |
| `PaymentData` | the collections `balance_payments` and `transactions` and the cached block number |
| `BalancePayments` | `buildBalancePayments`, `buildBatchedPaymentTransactions`, and the rewards that come in |
| `PaymentTransactions` | the five tasks on payment transactions, the requeue tool, the node and the contract |
| `PaymentSystem` | both together, with failures and restarts; the properties |
| `PayoutLedger` | the abstract specification: earn, set aside, pay, with no database in it |
| `PaymentInvariants` | the inductive invariants of the payment proofs |
| `MCMining`, `MCMint`, `MCPayments` | instances for TLC |
| `CollectionFacts`, `Payment...Proofs`, `MintProofs`, `JobProofs`, `MiningProofs`, `ShareProofs`, `RewardProofs` | theorems and proofs |

Where they meet: `Submittable` of `ShareProcessor` is what `HandIn` of
`StratumWorker` hands in; `QueueSolution` of `ShareProcessor` is
`QueueMiningSolution` of `MintTransactions`; a mint that succeeds there is a
`MineBlock` of `MiningSystem` in an epoch of `PoolBlocks`; and
`AwardTokensForShares` of `MintRewards` is `AwardTokens` of `BalancePayments`.

**A collection** is the sequence of its documents in insertion order, which is
the order in which `findAll` without a sort returns them. A document that is
deleted keeps its place with the status `deleted`, and an update by `_id` then
does nothing, as in MongoDB.

**A call** of a task is a slot of `BuildRuns`, `BatchRuns`, `BroadcastRuns` and so
on. A slot holds the local variables of the call: what it read, and where it
stands. Two slots are two calls that overlap. A step goes from one `await` that
touches shared state to the next, so anything can happen between a read and the
write that relies on it. The flags (`_buildBalancePaymentsRunning`,
`_buildBatchedPaymentsRunning`, the flag of `monitorMinedPayments`) are state of the
process.

**Epochs.** A challenge, a blob and an epoch number are known by the epoch of the
contract they belong to. A record of the pool has a field for each, because the
collector asks for them one at a time and may get them from two epochs.

**Difficulties.** A sum of difficulties is a tally: how often each share is in it.
A sum that lost a share, or has one twice, shows as such whatever the
difficulties are. The value a reward is divided by is a tally too.

**Jobs.** The blob as it is sent to a miner carries a hash of blob and challenge in
its reserved bytes: a pair of epochs. A job is whole if both are the same.

**Amounts.** A balance payment stores `amountToPay`; the model stores which of the
miner's tokens it pays, numbered in the order in which they were earned
(`from + 1` to `upto`). `amountToPay` is the difference, and nothing in an action
depends on more than that. The two ends are history, and make it possible to say
that no token is paid twice rather than that the sums agree.

**The chain** is the environment. The account signs with its latest nonce, a
transaction with a used nonce is refused, one with the same nonce replaces the
one in the pool, `multisend` reverts when its payment id was paid, or for lack of
funds (`FundsMayRunOut`), and the node may drop a transaction and, when
`StrayMining` is set, a dropped one may still be mined.

**The minting account** signs mints and transfers, and has one place in the node's
pool: of two transactions with the same nonce the node keeps the one it has,
unless the other pays ten percent more. `MintTransactions` therefore has the gas
prices of the code.

**Failures.** A fault is a database call or an answer of the node that fails in
one call, or the death of the token collector, which loses the local state of
all its calls and lowers its flags. `MaxFaults` bounds their number. A share
processor that dies loses what it was doing and comes back under another consumer
name. In `MintSystem` a transaction the node drops, a call that lasts until the
next one starts, and a transaction that is given up although it may still be mined
are faults as well; in `JobSystem` a notice that is lost.

### Abstractions

- Amounts are natural numbers. The doubles and strings of the code, and the two
  decimal digits they lose, are not modelled.
- `block` counts from the beginning of a behaviour, so a block number that was
  never cached (null) is not modelled.
- A batch without payments is not queued; the code queues one when all the
  payments it found have an invalid address, and `broadcastTransaction` marks it
  skipped without a call to the node.
- `getTransactionCount` and `estimateGas` are one step, and so are the two reads
  with which the stale and requeue tasks begin; a check takes the members of its
  list in any order.
- `CustomMinPayout` and `ValidMiners` are constants: a miner does not change its
  settings while the model runs.
- A submitted share is valid: what `handlePeerShareSubmit` refuses for its form,
  its hash or its target touches no state. Which shares meet the mining target is
  the constant `Solvers`.
- `Together` is the number of share processors at work. It is one in every run, as
  both compose files start one; with two, the read-compute-write of `totaldiff`
  loses shares, which is why the code must not be scaled there. That two names
  exist shows the change from a dead process to its successor.
- `Settled`: a mint is shared out when the collector has gone on and no processor
  is at a share of its epoch. Nothing in the code makes sure of it, only the
  seconds between the timers. The run `late` drops it (`LateShares`).
- `NotAtWork`: the cleaner forgets shares that are a thousand epochs old; no
  processor has held one for that long. The runs use a delay of 0 and 1 epochs.
- A read of the database in `StratumWorker` is one step with the code that waits for
  it. The notice of a new challenge leaves the collector three requests after the
  data were written, so that it does not overtake an older answer. Epochs are
  minutes apart, so one notice is on its way at a time, and those of the first
  fifteen seconds have gone when the server begins to listen.
- `hasTokens` is whether the minting account holds tokens: the amount of a transfer
  is all of it.
- The timer of the requeue tool is empty (`update()`), so its method is an action
  an operator takes.
- Bounds: `MaxEarned` on what a miner earns, `MaxBlock` on blocks, `MaxSent` on
  transactions sent, `MaxFaults` on failures, `MaxEpoch` on epochs, `MaxSubmitted`
  on shares handed in, `MaxMints` on recorded mints, `MaxLogins` on logins of a
  connection. They are guards of `AwardTokens`, `NewBlock`, `AcceptMultisend`,
  `Fault`, `NewEpoch`, `OthersMine`, `NewChallenge`, `Submittable`, `InsertMint` and
  `Login`.

## What TLC checks

| Run | Instance | Properties |
|---|---|---|
| `books` | the two build tasks with two slots each, two miners with different thresholds, three tokens, one fault | `NeverOverpaid`, `BooksBalance`, `StampedIsQueued`, `BatchIsFinal` |
| `chain` | one queued batch; two broadcasts, monitor, stuck check, stale, requeue; two transactions sent; one fault; the node does its worst | `PaidAtMostOnce`, `ConfirmedIsPaid`, `SuccessIsPaid` |
| `pipeline` | from a reward to the chain, one slot per task, the requeue tool, two batches, one fault | `TypeOK`, `PaidAtMostOnce`, `KeepsTheLedger` |
| `confirmed` | one queued batch, one slot per task, no fault, a funded contract, two blocks, fair | `PaidIsConfirmed` |
| `credited` | one queued batch, no fault; expected to fail | `CreditedOnce` |
| `unconfirmed` | as `confirmed`, with one fault; expected to fail | `PaidIsConfirmed` |
| `shares` | two of three shares handed in, stream and list, one process under two names, two epochs, one fault | `TypeOK`, `UsedAtMostOnce`, `TotalCoversMiners`, `NothingLost` |
| `handled` | one share, three epochs, the stream, a cleaner that forgets after one epoch, two faults, fair | `UsedAtMostOnce`, `ShareIsHandled`, `DataCatchesUp` |
| `rewards` | three blocks of the pool in five epochs, a window of two, two scans, two crawls, a pool that may be poor, two faults, fair | `RewardedOnce`, `WithinReward`, `NobodyForgotten`, `StatusFourNever`, `MintIsShared` |
| `late` | one block, one share of its epoch still to come, no fault; expected to fail | `RewardedOnce` |
| `mints` | two solutions of one challenge, two broadcast slots, the transfer, one fault, fair | `TypeOK`, `MinedSolutionIsKept`, `PendingNotDisplaced`, `QueueMovesOn` |
| `jobs` | one connection, two messages at once, two epochs, one fault, fair | `TypeOK`, `WorkIsNotLost`, `JobNeverGoesBack`, `WorkerCatchesUp`, `RetargetLives` |

The properties, in words (their comments in the modules say more):

- `NeverOverpaid`: the payments of a miner cover disjoint tokens, and no more are
  counted as awarded than were earned.
- `BooksBalance`, `StampedIsQueued`: without a failure no token, and no payment,
  is left behind. With a failure they may be: a crash between the update of
  `tokensAwarded` and the insert loses a payment (on the safe side for the pool),
  and a crash before `addTransactionToQueue` leaves payments stamped with the uuid
  of a batch that does not exist. Both are why the properties say `faults = 0`.
- `BatchIsFinal`: a payment never changes its batch and never loses its
  confirmation.
- `PaidAtMostOnce`: however often a batch is sent, it is paid once. The tasks do
  not prevent a second sending; the contract prevents the second payment.
- `ConfirmedIsPaid`, `SuccessIsPaid`: what the pool reports as paid was paid.
- `KeepsTheLedger`: the whole pipeline implements `PayoutLedger`. Earned is
  `alltimeTokenBalance`, reserved is `tokensAwarded`, paid are the payments of the
  transactions that succeeded, each with the hash it was paid by, so that a
  payment in two of them counts as two.
- `PaidIsConfirmed`: what the chain has paid is in the end confirmed.
- `UsedAtMostOnce`: a share is credited once and sent to the contract once, however
  often it is submitted, delivered, claimed and retried, and although the cleaner
  forgets its digest: by then the blob has changed.
- `TotalCoversMiners`, `NothingLost`: what a miner is credited with is in the total
  the reward is divided by; without a failure the two agree share by share, and a
  solution is queued. After a crash between the two a share may be in the total
  only, or twice in it, to the disadvantage of all miners.
- `ShareIsHandled`: what the stream has taken is acknowledged in the end.
- `DataCatchesUp`: once the last epoch has come, its challenge, with its own blob and
  number, is in force and can be counted for. A record torn between two epochs has
  the older challenge, since that is read first, and is replaced by the next call.
  A failure between the writes is not made good: the next call finds the challenge
  in force and returns.
- `RewardedOnce`, `WithinReward`, `NobodyForgotten`, `MintIsShared`: a mint goes to each
  miner of the window once, in parts that add up to no more than the whole, and
  in the end every mint is dealt with, though a scan may record it twice and a
  crawl may fail anywhere. `StatusFourNever` is what a comment of the code says of
  one of its statuses.
- `MinedSolutionIsKept`: `OutdateMintTransactions` never deletes a solution that was
  mined, as long as nothing goes wrong. With a dropped transaction or two
  overlapping broadcasts it may.
- `PendingNotDisplaced`: a transfer never takes the place of a mint the queue waits
  for. It may take that of a second attempt, which nothing waits for.
- `QueueMovesOn`: the minting queue gets empty again and again, whatever fails.
- `JobNeverGoesBack`, `WorkIsNotLost`: whichever of update, reload and first job is
  slower, a miner is not sent an older blob, and a share is not handed in under an
  older one.
- `WorkerCatchesUp`: every miner gets the last challenge, by the notice or, if that
  was lost, by its next share.
- `RetargetLives`: however logins, notices and the delay of the timer mix, an interval
  runs for every miner.

**Why the bounds are enough.** Two slots of a task show every overlap of two
calls, and a third call finds nothing the second did not. Three tokens and two
thresholds let a miner be paid by threshold, by the daily sweep, twice, and not
at all. Two sent transactions are a batch and its second attempt, with the same
nonce or the next. One fault at any step meets every half-finished call.

On the mining side two shares of one miner under one blob show a lost or repeated
addition, the third, of another miner under the next blob, the change of epochs;
a batch of two shows both the next entry of a batch and the next batch. Five
epochs with a window of two have a block whose record is missing, one with a
miner that has no share of it, and one with a miner outside the window. Two
scans record a mint twice. Two solutions of one challenge are one that is mined
and one that is outdated by it. `jobs` needs two epochs, the one a worker starts
with and the next. A third epoch, with one call at a time, and a second login, without
a fault, were checked once and break none of its properties.

**Fairness** (`PaymentSystem!Fairness`). Timers keep firing and calls that were
made go on, so each step of a task is weakly fair. One request for a receipt may
fail, but not every one for ever: taking a receipt that exists is strongly fair.
Nothing is assumed of the chain, of failures, or of the operator.

`MiningSystem!Fairness`: the collector, the scan and the crawl are timers; a share
processor that died is started again (`restart: unless-stopped`), its loop goes on,
once a minute begins with a claim (strongly fair, since the loop passes that point
again and again), and what a dead consumer holds is idle for good, so that a claim
takes all of it. `MintSystem!Fairness`: timers and calls go on, a transaction in the
pool of the node is mined, and one that is lost gets thirty blocks old.
`JobSystem!Fairness`: the server starts, timers fire, calls go on, and a miner with a
job goes on finding shares. A new epoch, a login, or the end of a connection is
never assumed.

**What `PaidIsConfirmed` rests on.** Each of these assumptions of the run
`confirmed` was dropped in turn, and TLC then finds a batch that is paid and never
confirmed:

- no fault: a crash before the hash is stored (run `unconfirmed`);
- one broadcast at a time: of two overlapping ones the second overwrites the hash;
- a funded contract: a stuck check that read an old hash writes `reverted` late,
  over the new state of a transaction that was queued and sent again;
- no mining of dropped transactions: the hash of the first attempt is gone when
  it is mined after all;
- no run of the requeue tool: it deletes by `_id` a document that was reverted
  when it read it, and may have been settled since.

**Findings.** Three of the runs show the code doing what a comment in it denies:
`credited`, that payments are credited once (`transaction-helper.js:486`);
`unconfirmed`, that transactions mined after they were skipped do not stay in a
loop (`transaction-coordinator.js:314`); and `late`, that a mint that was shared out
is not used again (`transaction-coordinator.js:751`): a share that is counted while
the crawl fills in missing rows leaves two rows, and the miner is rewarded for both.

Two more came up while the modules were written and have no run of their own. A
share whose hash was checked under one blob may name the next: the notice of a new
challenge comes during the `await` at `worker.js:348`, and the share processor, which
compares blobs only, takes the hash as trustworthy (`peer-interface.js:300`). And
the retarget interval of a socket that closes without an `end` event is never
cleared (`worker.js:74`); nor is one whose handle a second delayed start has
overwritten (`worker.js:496`).

## What is proved

The proofs are checked by TLAPS for every value of the constants that the named
assumptions allow: any number of miners, calls, payments, transactions and faults.

- `TypeCorrect` (`PaymentBooksProofs`): `Spec => []TypeOK`. Not inductive as it
  stands: a call that is about to insert a payment must have a miner, and a call
  that settles a transaction must have one that exists. `TypeInvariant` adds these
  references.
- `NeverOverpays` (`PaymentBooksProofs`): `Spec => []NeverOverpaid`. The invariant
  `Books` adds that the flag keeps calls apart (`OneBuild`) and what a call still
  knows of the rows it read (`BuildSnapshot`): the balance only grew since,
  `tokensAwarded` is unchanged for the miners it has not come to, and the payment
  it is about to insert begins where the miner's last one ended, or after it.
- `NoTokenIsLeftOut` (`PaymentBooksProofs`): `Spec => []BooksBalance`, inductive together
  with `Books`. Between its two writes a call is the only one, and knows up to where its
  miner is covered; since `tokensAwarded` was above that, nothing else can cover it.

- `PaysAtMostOnce` (`PaymentChainProofs`): `Spec => []PaidAtMostOnce`. The invariant
  `Batches` says why the uuid of a batch can stand for its payments: a call that
  puts a batch together is alone, its uuid is on the payments it has stamped and
  in no transaction yet (`OneBatch`); a transaction, queued or sent, holds exactly
  the payments that carry its uuid (`WholeBatches`), copies made by the tool
  included; and the contract knows the uuid of each transaction that succeeded, no
  two of which share one (`PaidUuids`). Two successes that hold one payment then
  carry its uuid, and are one.
- `BatchStaysFinal`: `Spec => BatchIsFinal`, an action property, from the same
  invariant: only payments without a uuid are stamped.
- `NoPaymentIsLeftBehind`: `Spec => []StampedIsQueued`. `StampedHasBatch` says of
  the uuid alone that a transaction or a call that is stamping has it; which payments
  those hold is `Batches`.
- `ConfirmationsAreTrue` and `SuccessesArePaid`: `Spec => []ConfirmedIsPaid` and
  `Spec => []SuccessIsPaid`. `Confirmations` adds what is known of the hashes: one
  that is stored, remembered by a broadcast or read by a check is the hash of a
  transaction with the same uuid (`OwnHashes`), even after a later broadcast has
  overwritten it; and a check that says "success" has one that succeeded
  (`CheckKnows`). `ChainInvariance` states the whole invariant.
- `ImplementsTheLedger`: `Spec => KeepsTheLedger`, the
  refinement of `PayoutLedger`, from `TypeInvariant`, `Books` and `Batches`: a reward
  is an `Earn`, the write of `tokensAwarded` a `Reserve`, a transaction that
  succeeds a `Pay` of pieces that are disjoint because the payments of a miner are
  (`NeverOverpaid`) and because no two successes share a uuid.

The proofs rest on the assumptions named in the modules only, which type the
constants and keep `None` out of `Uuids` and the two kinds of checks apart. That
a uuid is fresh when it is drawn, and that the contract refuses one it knows, are
parts of the model (`FreshUuids`, `AlreadyPaid`).

`CollectionFacts` holds the lemmas about sequences the provers need. The proofs
are laid out one step per action. As most steps leave most of the state alone,
`PaymentChainProofs` first shows, task by task, which frames a step keeps ("no
payment changes its batch", "no hash is recorded", "what was paid stays paid"),
and argues about a step itself only where it breaks one. TLC checks
`NeverOverpaid`, `PaidAtMostOnce` and the others; the invariants of the proofs were
checked on the same instances before they were proved.

- `TypeCorrect` (`MintProofs`): `Spec => []TypeOK` of `MintSystem`. `MintInvariant`
  adds that a call which has picked a document has one that is there, since
  documents are deleted while calls run, that a call counts no further than the
  four statuses it deletes (`CallOK`), and that every hash the books remember is
  that of a transaction at the price of the first attempt, never of the second
  (`FullPrice`).
- `SolutionKeepsItsPlace`: `Spec => PendingNotDisplaced`, an action property. By
  `FullPrice` an awaited transaction pays 200 gwei and a transfer at most 1.9, so
  the node keeps the one it has; all else the account sends is a solution.
  `FullPrice` holds because the hash of a second attempt, at 1.5 gwei, is never
  recorded (`transaction-helper.js:197`), which is a hazard of its own: a solution
  sent that way is not awaited, and a transfer may displace it.

- `SolutionStaysInBooks`: `Spec => []MinedSolutionIsKept`: as long as nothing has
  failed, the document of a solution the chain has accepted is pending or a success,
  or the call that sent it is about to write that; the deletes of the other calls
  spare both statuses.

On the mining side:

- `TypeCorrect`, `WorkNotLost` and `JobGoesForward` (`JobProofs`): `Spec => []TypeOK`,
  `Spec => []WorkIsNotLost` and `Spec => JobNeverGoesBack` of `JobSystem`, from one
  invariant: the handle of a retarget interval is set only while one runs, and a
  chain of blobs none of which is newer than the next: the job the miner has, what
  its worker would send, what the worker has loaded, what the pool has.
- `TypeCorrect` and `NoRowFoundClosed` (`MiningProofs`): `Spec => []TypeOK` and
  `Spec => []StatusFourNever` of `MiningSystem`. `MiningInvariant` says what each call
  has in hand at each of its steps; for the second theorem that only one crawl runs
  (`OneCrawl`) and that the rows on its list are still open (`RowsOpen`).
- `TotalIsEnough` (`ShareProofs`): `Together = 1` implies `Spec => []TotalCoversMiners`.
  The total is written before the row, from what was read before; `SumsInvariant`
  says that no other call has written either in between, that after the write of the
  total it is ahead of every row of the challenge by the share at hand (`Ahead`), and
  that what was read of the row is still in it (`RowRead`).
- `UsesAtMostOnce`: `Together = 1` implies `Spec /\ []Timely => []UsedAtMostOnce`. What
  is in a row or queued has its digest in `miner_pendingshares`, or is too old to come
  back (`UsesKnown`); a call between its look for the digest and the credit has a share
  that is in neither (`ProcessUses`).
- `LosesNothing`: under the same hypotheses `[]NothingLost`, from the sums, the uses and
  `LossInvariant`, which says where a counted share is while nothing has failed.

- `NobodyRewardedTwice` (`RewardProofs`): `Together = 1` and `~LateShares` imply
  `Spec /\ []InTurn => []RewardedOnce`. A mint is opened when its epoch is settled, and what
  is settled stays so (`SettledStays`): no record, total or row of the challenges up to it is
  written by the collector or a share processor again. `BooksInvariant` adds that what a
  collector call has read is not older than what is in force (`Forward`), that a miner has
  one row per challenge (`RowsUnique`, `NoRowYet`), that a reward belongs to a closed row of
  its challenge (`RewardsBook`), and that the row of a crawl which is about to award has no
  reward yet (`CrawlsBook`).
- `PartsAddUpToOne`: under the same hypotheses `[]WithinReward`. `CrawlsSum` says what a crawl
  has added up at each of its steps: its total is the sum of the window up to the record it
  has come to (`WindowSum`), there is only one such sum (`WindowHasOneSum`), and what it has
  for the miner at hand is within the totals of the same challenges, since by `SumsInvariant`
  each row is within the total of its challenge. `RewardsSum` says the same of the rewards
  that were given, and stays true since a settled epoch keeps its totals.
- `NobodyIsForgotten`: under the same hypotheses and `[]Whole`, `[]NobodyForgotten`.
  `ServeInvariant` says, while nothing has failed and no row has been given up (`Clean`),
  what a crawl still owes at each of its steps (`CrawlServes`): a challenge of the window
  that has a total is among the records left or in its list; a miner of the window is in its
  list or has a row, and then has a row left or a reward; a sum that has passed a challenge
  with a share of the miner is not empty. A closed row was rewarded, is about to be, or
  is of a miner outside the window (`RowsServe`), so that a mint whose rows are all closed
  has served everybody (`MintsServe`). It rests on `RecordsWhole` and `TotalsRecorded`: a
  challenge that shares were counted for has a record of its own; and on that nobody comes
  into the window of a settled epoch. TLC checked the invariant before it was proved, in
  the instance of `rewards` and in one where collector, share processor, scan and crawl all
  run (1.7 million states).

`Together = 1` is the deployment of the repository: one share processor at a time. With
two, two of them read the same total and the second write drops the share of the first.
`Timely` says that the reads of a collector call, and the challenge a share is counted for,
are not behind by more than half of `EpochCountDelay`, which is a thousand epochs, about a
week, in `cleaner-coordinator.js:78`. It is needed: with a delay of 0 TLC finds a share
whose challenge was read torn, whose digest the cleaner then deletes while it is delivered
again.

`InTurn` says that a call of the collector is over when the next one begins: three reads
and three writes within the interval of its timer, which the code does not enforce
(`token-data-helper.js:172`). It is needed too: with two overlapping calls TLC finds that the
older one writes its challenge back after the mint of that epoch was shared out, shares come
in for it again, and a second record of the mint rewards them. The run `rewards` begins
when the shares have come in and has no collector at work; what the theorems add to it is
that nothing the collector, the share processors and the faults may do in turn changes what
a settled block is divided by. `~LateShares` is the `Settled` of the abstractions above; the
run `late` shows what happens without it.

`Whole` says that the epoch does not change between the reads of one collector call, so
that the challenge and the epoch it writes belong together. The code reads them by separate
requests and ensures nothing of the kind. With `InTurn` alone TLC finds a miner forgotten:
a torn read records challenge 1 under epoch 2, shares are counted for challenge 1, and the
next call puts challenge 2 in the place of that record. Challenge 1 then has no record, its
shares fall out of every window, and the mint of epoch 2 is shared out without their miner.
`RewardedOnce` and `WithinReward` do not need it.

Every safety invariant and action property of the passing runs is stated by a theorem.
Only model-checked are the liveness properties, which are outside the prover's reach:
`PaidIsConfirmed`, `ShareIsHandled`, `DataCatchesUp`, `MintIsShared`, `QueueMovesOn`,
`WorkerCatchesUp` and `RetargetLives`. That a sum of a window is the same whoever adds it
up would be an induction over its epochs; the proof takes the first epoch at which two sums
part instead.

## What is not modelled

- The login of the web site (`auth-helper.js`): a component of its own, see the plan.
- The difficulty a worker chooses for its miner and the hashrate figures: numbers
  for display or between bounds that `handlePeerShareSubmit` checks again.
- The caches of the web pages, statistics, charts, the list of all mints, the network
  of pools, prices, logging, the frontends: nothing the pool decides depends on
  them.
- The scripts: run by hand on a copy of the database.

## Plan

What is left is the login of the web site: the nonce of a login is found, checked and
deleted in separate steps (`auth-helper.js:43`), which a module of its own would check
for two requests with the same signature.
