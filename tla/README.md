# A verification project for Tucanbit-tvs

TVS is the transaction verification service of a payment system.  It looks in
its database for deposit sessions and withdrawals that are pending, asks Helius
(an indexer of the Solana chain) whether the coins have moved, records a
transaction, changes the user's balance and tells the user's browser over a
WebSocket.  These modules model what it does, TLC checks small instances of
them and TLAPS proves theorems about all instances.

Paths below are relative to the repository; `VS` stands for
`internal/application/verificationservice/verification_service_impl.go`.

## Inventory

| Component | State it keeps | Operations | Talks to |
|---|---|---|---|
| Poller (`VS:65-222`) | the page it walks, the batch it collects | one tick: sessions, then withdrawals; expire, fail, dispatch | database, hub, worker pools |
| Worker pool (`VS:224-264`) | a semaphore of 10 per batch | start a goroutine per row, drain | workers |
| Deposit worker (`VS:266-413`, `615-766`) | session copy, attempt, balance read | claim, check, verify, record, credit, complete, give back | database, Helius, rates, hub |
| Withdrawal worker (`VS:415-613`, `768-885`) | withdrawal copy, attempt, balance read | claim, check, verify, record, debit, release, complete, give back, fail | database, Helius, hub |
| Repositories and statements (`internal/repositories`) | the tables | one SQL statement each; only the claim is inside a transaction | PostgreSQL |
| Helius client (`internal/infrastructure/rpc/helius.go`) | none | VerifyDeposit, VerifyWithdrawal | Helius |
| Exchange-rate client (`internal/infrastructure/clients`) | none between calls | GetExchangeRate with retries and backoff | CoinCap |
| Currency rounding (`pkg/currency`) | none | BankersRound, CryptoToUSDCents | deposit worker |
| WebSocket hub (`internal/server/websocket`, handlers) | map of connections, three channels | register, unregister, broadcast | browsers, everyone who broadcasts |
| Server and main (`internal/server`, `cmd/tvs`) | where main is, the listener, a signal | start, serve, shut down within ten seconds | all |
| Middleware and authentication (`internal/server/middleware`, `internal/application/auth`) | none that changes | admit or refuse a request | handlers |
| Message, status, webhook, health and test handlers | none | answer, broadcast, upgrade | hub |
| Configuration, database handle, logging | set once | load, open, close | main |

What is hard here:

* **Interleavings.**  The poller walks a copy of the pending rows while
  goroutines of this and earlier ticks change them.  The claim of a row takes
  no lock (`VS:267-294`), balances are written as absolute values computed from
  an earlier read (`VS:733`, `VS:845`) while reservations and releases change
  the same row with relative updates.
* **Partial failure and crashes.**  Recording, changing the balance, releasing a
  reservation and changing the status are separate statements.  Each can fail,
  or be applied and have its answer lost; a retry starts from the beginning; a
  crash leaves what is done done.
* **Retries without memory.**  The checks that would recognise a retry compare an
  id that is never filled (`transaction_repo_impl.go:238-264`), and
  `reservation_released` is never written (`withdrawal_repo_impl.go:27`).
* **Liveness.**  A row can be stranded in "processing", where no tick looks, or
  cycle for ever.
* **Pages of a moving result.**  The pending rows are read by LIMIT and OFFSET
  while goroutines take rows out of the result and others enter at its front
  (`VS:93`, `VS:132`).
* **Everyone waits for the hub.**  Poller, workers and handlers block on its
  channels, and it writes to browsers without a deadline (`ws_hub.go:109`); a
  shutdown waits for handlers that wait for it.
* **One payment, searched three times.**  `VerifyDeposit` searches with a
  truncated amount, `processVerifiedDeposit` with the exact one, and the sender
  is found by a third rule (`VS:986`).

What makes each component correct is the list of properties below; the hazards
they are aimed at, with their lines, are in `PROJECT.json`.

## The modules

| Module | Models | Runs | Proofs |
|---|---|---|---|
| `DepositVerification` | poller and workers for deposit sessions | 3 | `DepositVerificationProofs` |
| `WithdrawalVerification` | poller and workers for withdrawals | 5 | `WithdrawalVerificationProofs`, `WithdrawalMoneyProofs` |
| `WsHub` | the hub, its connections and the goroutines that broadcast | `hub` | `WsHubProofs` |
| `WorkerPool` | the semaphore and the drain of a batch | `poller` | `WorkerPoolProofs` |
| `AbstractPool` | what a batch promises; `WorkerPool` implements it | `poller` | `WorkerPoolProofs` |
| `PendingScan` | the walk over the pages of both tables | `poller` | `PollerProofs` |
| `Poller` | `PendingScan` and `WorkerPool` composed over the same rows | `poller` | `PollerProofs` |
| `ExchangeRates` | one call for a rate with its retries | `recording` | `RecordingProofs` |
| `PaymentMatching` | the Helius client, the searches for a payment, the rounding | `recording` | `RecordingProofs` |
| `TransactionRepository` | the table `transactions`, its statements and their mapping | `recording` | `RecordingProofs` |
| `Recording` | the three composed: what is written down of a payment | `recording` | `RecordingProofs` |
| `Authentication` | what the two middlewares admit | `server` | `HttpServerProofs` |
| `HttpServer` | main, requests, a coarse hub, signals and the shutdown | `server` | `HttpServerProofs` |

`MC...` modules only give constants their values and choose initial states.

### DepositVerification

The state is the database (`status`, `rows`, `balance`), the outside world
(`paid`, `aged`), the poller (`scan`, `todo`, `batch`), the goroutines that wait
for a slot of the semaphore (`backlog`), the goroutines that run (`pc`, `job`,
`seen`, `attempt`, `read`) and what clients were told (`notified`).  The rest is
bookkeeping for the properties, which no guard reads except to bound it.

| Action | Code |
|---|---|
| `LoadPage`, `SkipRow`, `ExpireRow`, `BatchRow`, `Dispatch` | `processPendingSessions` |
| `Begin`, `Claim` | `verifySolanaSession` up to the commit |
| `Check` | the broadcast of "processing", the lookup of a transaction, the currency, the exchange rate |
| `VerifyFound`, `VerifyFailed` | a turn of the retry loop |
| `Create`, `GetBalance`, `UpdateBalance`, `CompleteSession`, `Announce` | `processVerifiedDeposit` |
| `Reset` | putting the session back to pending |
| `Crash` | the end of the process and a new start |

A write that can fail has three outcomes: done, not done with an error, and done
with an error (`Outcome`).  A call that only asks has two (`Answer`).

Amounts are cents.  A transfer is "full" when it reaches the exact amount, and
"short" when it only reaches the amount truncated to base units, which
`VerifyDeposit` accepts and `processVerifiedDeposit` does not.

### WithdrawalVerification

The same shape, with `reserved` and `units` beside `balance`, the transaction
hash in `sent` and in the copies of a page (`hashed`), and the poller's steps of
`markWithdrawalFailed` (`FailRow`, `Unreserve`, `LogRelease`, `FailAgain`).  The
service that reserves the balance, inserts the withdrawal and sends the coins is
not in the repository: `Request` is the statement `ReserveBalance` that the
repository offers it, `Send` writes the hash of a pending withdrawal.  The
worker's own branch for an empty hash (`VS:455-460`) is unreachable, because a
row is handed to a worker only with a hash on its page and a hash is never
erased (`COALESCE` in `UpdateWithdrawal`); it is left out.  The branch for an
unmatched transaction without an error (`VS:521-527`) is unreachable too; the
run `withdrawal_unmatched` is about that.

### WsHub

The three channels, the map (`known` are its keys, `clients` the entries), the
hub's place in its loop, and the stage of each connection.  The hub's deletion
of connections while it iterates over the map is modelled write by write
(`Visit`, `WriteSucceeds`, `WriteFails`, `EndVisit`), because connections and
peers go on meanwhile.  That the hub writes itself, message after message, is
what keeps an older status of a session from arriving after a newer one
(`Written`, `InOrder`); the usual remedy for its writes without a deadline, a
goroutine for each write, is the defect `WrittenByGoroutine` and is refuted.  A
write that does not return is left to `HttpServer`.

| Action | Code |
|---|---|
| `Upgrade`, `Register`, `ReadFails`, `Unregister` | `HandleWebSocket` and its reader |
| `Prepare`, `Send` | the three `Broadcast...` methods, called by poller, workers and message handler |
| `TakeRegister`, `TakeUnregister`, `TakeMessage` | the cases of the `select` in `Run` |
| `Visit`, `WriteSucceeds`, `WriteFails`, `EndVisit`, `EndDelivery` | the delivery of one message |

A connection whose unregistration overtakes its registration (two channels, one
`select`) becomes a ghost: it stays in the map until a write to it fails.
`GhostsOvertook` says that there is no other way to become one.

### WorkerPool and AbstractPool

A batch puts a token into its semaphore and starts a goroutine for each row
(`Acquire`, `Start`), then fills the semaphore itself (`Drain`) and returns; a
goroutine verifies its row (`Verified`) and takes a token out (`Release`).
`AbstractPool` promises one goroutine for each row, in order, at most `Slots` at
a time, and a return after the last; the refinement mapping sends "leaving" and
"gone" to finished.  The verification modules are about what a goroutine does
and abstract the pool to a number of workers, over all batches.

### PendingScan and Poller

`PendingScan` has the walk of both functions of a tick, with `offset` and `page`
as the code has them; its decisions (`Skipped`, `Ends`, `NextOffset`,
`LastPage`) are operators.  `Poller` adds the pool of an earlier tick, whose
goroutines change the statuses the next page is cut from, and rows that arrive.
A page is what its statement says: the rows whose `Place` among the pending ones
is beyond the offset and at most `Limit` further (`Cut`).  That order is taken
for a strict one: `ORDER BY created_at` leaves rows of the same microsecond in
any order, and what is said of pages is not said of a table with such a tie.
The goroutines that later ticks start are in the model as well, one for a row
and without the pool that paces them (`TakeUp`, `FindTaken`, `Finish`), so that
rows leave and enter the result for as long as the process runs.

| Action | Code |
|---|---|
| `BeginScan` | a tick of `StartTransactionVerification`: sessions, then withdrawals |
| `LoadSessions`, `LoadWithdrawals`, `LoadFailed` | the query of a page; an error drops what was gathered |
| `PassOver`, `Gather`, `EndRow`, `EndRowFailed` | the loop over the page |
| `DispatchGathered` | the `switch` over the chains at the end of both functions (`VS:134-151`, `VS:205-222`) |
| `ReadRow`, `NoLongerPending`, `ClaimRow`, `PutDown` | what the walk sees of a goroutine of the pool |
| `TakeUp`, `FindTaken`, `Finish` | what it sees of a goroutine of a later tick |
| `Arrive` | another service inserts a row |

`Watch` keeps, for the properties, which rows were pending all the time and how
many left and entered.  `EndRow` of a withdrawal is one step here; its four
statements are in `WithdrawalVerification`.

### Recording and what it is composed of

The goroutine of one session or withdrawal: `Check`, `AskRate` with the steps
of `ExchangeRates`, `HaveRate`, `Verify` (a turn of the retry loop with any
answer of Helius), `Match` (`processVerifiedDeposit` or
`processVerifiedWithdrawal` up to the INSERT), `Record`, and `ClaimAgain` on a
later tick.

Amounts are whole numbers of fractions of a base unit, so that a session can ask
for less than a base unit and a product can be cut off.  `slack` says whether
the floating-point product of `VS:335` falls short of a whole number.  The two
multiplications on the way to cents (`utils.go:16`, `utils.go:33`) may come to
any value within `Error` of the exact product (`Products`): for an amount worth
1.015 dollars the code computes 101.49999999999999 and credits 101 cents, where
the exact tie would make it 102.  From the product on the code loses nothing,
since the difference of a float and the whole float next to it is exact, and
`BankersRound` is what it does.  So the nearest cent, and of two the even one, is
what the code takes of the computed product and not of the exact one.  An
error of Helius is its kind, since `isTransientError` looks at its text;
`noMints` cannot occur with the present configuration, since a cluster without
mints has no URL either.  The backoff is exclusive-or, as the code computes it:
the constant `ExclusiveOr`, which the run gives the value `^^` of `Bitwise`, and
of which the proofs assume only that its result is a natural number that is 0
just for equal arguments (`ExclusiveOrAssumption`, which the run checks).

### HttpServer and Authentication

main from the configuration to the closed database, the goroutine that listens,
signals, and requests that pass the middlewares of their route to a handler.
The hub is that of `WsHub` with its channels reduced to how many wait, and
without that module's assumption that every write returns: `Stall` is a peer
that does not read, `Deliver` may then stop the hub.

| Action | Code |
|---|---|
| `LoadConfig`, `ConnectDatabase`, `StartHub`, `StartPoller` | `main.go` |
| `Start`, `Listen`, `Signal`, `BeginShutdown`, `Drained`, `TimePasses`, `TimedOut` | `server.go`, `Start` |
| `CloseDatabase` | the deferred `ShutDown` |
| `GlobalMiddleware`, `GroupMiddleware` | `SetupMiddleware`, `AuthMiddleware`, `APIKeyMiddleware` |
| `Health`, `HandlePDMWebhook`, `HandleMessage`, `TestWebSocket`, `HandleWebSocket` | the handlers |
| `Send`, `Register`, `PeerMoves` | a handler at a channel of the hub; the reader of a connection |
| `TakeRegister`, `TakeUnregister`, `Deliver` | `Run` |
| `Notify` | a broadcast of the poller or a worker |

## What the runs show

| Run | Bounds | Shows |
|---|---|---|
| `deposit_faults` | 2 workers, 1 retry; either 1 session, 1 fault anywhere and 1 crash, or 2 sessions of 1 user, or 1 session in an unknown currency beside one of a PDM chain | no double credit except after a raced claim or an error after the credit; credits have rows; nothing is recorded for a short transfer; completed means credited; what strands a session; what can leave "completed"; the balance is below its credits only after two windows overlapped, and never above |
| `deposit_settles` | 1 session, 2 workers, 1 recoverable fault, fair | a paid session ends for good |
| `deposit_duplicate_row` (violation) | 1 session, 2 workers | a session is recorded twice: the constraint the code looks for does not exist |
| `withdrawal_faults` | 2 workers, 1 retry; either 1 withdrawal, 1 fault anywhere and 1 crash, or 3 that no processor can verify | the same questions for the debit; a failed withdrawal is never debited, and is released unless a step of failing it failed |
| `withdrawal_shared` | 2 withdrawals of 1 user, 2 workers | cents are conserved unless the balance changed under a debit; reservations are released once and not by others |
| `withdrawal_settles` | 1 withdrawal, 2 workers, 1 recoverable fault, fair | failed is final; a confirmed withdrawal ends for good; one that stays without a hash is failed |
| `withdrawal_unmatched` (violation) | 1 withdrawal, 1 worker, fair | a withdrawal with another transaction's hash is never failed |
| `withdrawal_unlogged` (violation) | 1 withdrawal | releases never reach `balance_logs` |
| `hub` | 2 connections of 1 of 2 users, 1 sender, 3 messages, channels of 1, fair | who receives what and in which order; no open connection is lost; what becomes a ghost; no empty entry stays; whoever waits for a channel goes on; a connection whose peer went away is closed or a ghost |
| `poller` | 2 sessions, 4 withdrawals, pages of 1, a pool of 2 goroutines (both have one session, which expires) and 1 slot, any number of returns, 1 arrival, 1 fault, fair | a walk misses no more rows than left the result, and repeats no more than entered it; the pool keeps its promise meanwhile and the batch returns; a row that can be verified is handed over or taken up if walks under which no row leaves come again and again |
| `recording` | 14 kinds of sessions and withdrawals, 8 transactions in answers of at most 2, 3 retries, 2 rows | every row is backed by a transfer of its mint to its address, with its amount, and the cents nearest to what the floating-point product may have come to; the two searches disagree by truncation only; requests for a rate come in no bursts |
| `server` | 2 requests out of 14, a good and a forged token, 2 moments, channels of 1, fair | a signal ends the process, though the hub may be stopped; the database is closed only after every request was answered; a request is answered unless the hub it waits for is stopped |

Why the bounds are enough: the interesting cases take two goroutines at one row,
or at two rows of one user, and one fault or crash between two statements; each
run has these, and the mutants listed in `PROJECT.json` show that a plausible
mistake in the code is found within the bounds.  The proofs remove the bounds
for the properties they cover.  One retry stands for three, because the retries
of the loop change nothing but the attempt; the liveness runs and the larger
shared runs have none.
`MaxBacklog` (goroutines of one row waiting for a slot) is 1: a second one would
be like the first, which already finds the row claimed or claims it in a race.
The verification modules allow sessions and withdrawals that ended before
(completed and paid, or failed and released) and any number of faults and
crashes already spent in their initial states, so that one run looks at several
scenarios (`AloneWithFaults`, `Together`, `Unverifiable` of the `MC` modules)
and the deposit theorems hold of all of them; `FreshSpec` starts with nothing
ended.
`MaxRows` makes the counter of rows of a withdrawal saturate, since a withdrawal
can be recorded again on every tick.  Symmetry over the workers is used where
only safety is checked.  The run of the hub does not check for deadlock: when all
messages of the bound are sent and all connections have left, it rests.  It
takes a capacity of 1 for the code's 100, which fills as the code's does; so does
`server`.  The run `server` does not check for deadlock because the process may
end, and `recording` because a row may be recorded for good.

In `poller` nothing bounds how often a row is given back; a page holds one row,
so that the four withdrawals (one too young to be failed, one of a PDM chain, one
to be failed and one that can be verified) take five pages and the walk can lose
its place between any two.  `QuietWalksReachAll` has its condition because
without it the property is false: TLC shows the expired session passed by for
ever, while the newer one is claimed and given back under every walk.  The code
promises no more than the condition gives, since every unpaid session is given
back on every tick (`VS:397`) and ticks wait for no goroutine.  In `recording`
the three bases of the backoff are one that does not wait once (1), the default
that a base of 0 gives, and one beyond the cap of 30 seconds; prices of 1 and 3
over eight fractions of a cent give values with and without a tie, and an `Error`
of one fraction takes the product to either side of it.

Seven facts worth knowing that no statement of the source contradicts, and that
are therefore exceptions in the properties rather than findings:

* Two goroutines can credit a session twice (`raced`), and an error after the
  credit, also one that is only a lost answer, makes the retry credit it again
  (`halfway`).
* One failed request for the exchange rate leaves a session in "processing" for
  ever; the message of that error speaks of a default rate (`VS:328`), which
  does not exist.  So does an unknown currency.
* A withdrawal can be failed, and its reservation given back, after its coins
  were sent: the poller decides on the copy of its page (`WithdrawalsSettle`
  has to allow "failed").
* The debit is taken from the balance that is not reserved, before the
  reservation is released.  A withdrawal of more than half of the funds is
  refused, put back and recorded again on every tick; `withdrawal_settles` gives
  the user enough.
* A session whose transfer lies between the truncated and the exact amount is
  verified by the client and given back by the service on every tick
  (`MismatchIsTruncation` says that there is no other such case).
* What `TransactionRepository` reads back of a row lacks six columns, its owner
  among them.  The sender recorded of a deposit is that of the first transfer
  with a recipient, not of the one that paid.
* A peer that does not read stops the hub and, once its channel is full, every
  goroutine that broadcasts (`AnsweredUnlessStuck`).

## Fairness

`WF(Poller)`: the ticker fires for ever and a tick's loop runs on.
`WF(Worker(w))`: a goroutine that runs is scheduled, and every call it makes
returns (the HTTP clients have timeouts).  `SF(Begin)` per row: a batch starts
its goroutines in order as slots get free, so that a queued row is not passed
over for ever by others.  For the hub, `WF` of its loop, of each connection's
handler and reader and of each sender: whoever waits for room in a channel goes
on when there is some.  That `select` and a channel are fair among those who
wait need not be assumed while messages and connections are bounded.  For the
pool, and for the goroutines of later ticks that have a row to verify, `WF` of
the batch and of each goroutine, which means that a verification returns: its
calls have timeouts and its retries an end.  For the poller's walk,
`WF`: the ticker ticks and the loop goes on.  For the server, `WF` of main, of
the listener, of the clock during a shutdown and of the steps of the hub and of
each request, and `SF` of each request's `Send`, because a Go channel serves
those who wait for it in order, so that a handler is not passed over for ever by
the poller's broadcasts.  A peer that does not read may never read again, and
nobody has to send a request or a signal.
Customers, transfers, time, faults and crashes are
never assumed to happen or to stop, beyond the bounds on faults and crashes.

## What is proved

Each theorem says that a property holds of every behaviour of a specification,
for all values of the constants that the assumptions of its module allow: any
sets of sessions, withdrawals, users, workers, connections and requests, tables
of any length, any capacities, and any bounds on faults, crashes and messages.
Hardly any of the properties is inductive as it stands, and what had to be added
is the argument for it.  The strengthened invariants were checked by TLC on the
instances of the runs first.

### Deposits (`DepositVerificationProofs`)

Type correctness, `CreditedOnce`, `CreditsAreRecorded`, `PaidBeforeRecorded`,
`CompletedMeansCredited`, `CompletedStays`, `NeverOverCredited`, `NoLostCredit`,
`StrandedForAReason`.

* `Typed`: `TypeOK`, and that a goroutine that is not idle has a session.
* `OnceInv`: unless a session was claimed in a race, at most one goroutine is
  between its claim and its end and the session is not pending meanwhile; with
  no exception at all it has at most one credit, after which it is never pending
  and its goroutine is about to complete it.
* `CreditInv`: the credits of a session and the goroutines that may still credit
  it, together, are no more than its rows.
* `ProgressInv`: what must have happened at each step of a worker: from `create`
  on the payment is full, from `getbal` on there is a row, from `complete` on a
  credit.
* `MoneyInv`: for a user without overlap, what a goroutine between GetBalance
  and UpdateBalance has read is still the balance, and there is one such
  goroutine; for any user it is at most what is booked.
* `AttendedInv`: a session in "processing" has a goroutine or an excuse, and an
  excuse never goes away.

### Withdrawals (`WithdrawalVerificationProofs`, `WithdrawalMoneyProofs`)

Type correctness, `NeverFailedAndDebited`, `FailedIsFinal`; `DebitedOnce`,
`ReleasedOnce`, `StrandedForAReason`; `Conserved`, `ReservationHeld`,
`CompletedMeansSettled`, `FailedIsReleased`: all the safety properties of the
module, in two files of which the second builds on the first.

* `PageInv` is why the poller and the workers never meet.  Neither looks at the
  other's status; what keeps them apart is the hash.  A withdrawal that a worker
  has, will have or had in hand was on a page with its hash; a hash is never
  taken back; and so the page from which the poller fails a withdrawal, which
  is the one page there is, cannot show that withdrawal without one.
* `OnceInv` is that of the deposits for the debit, with the release after it
  (`SpendingOK`): what was debited is past its debit, what was released past its
  release.
* `MoneyInv`: for an undisturbed user, what a worker about to debit has read is
  still the balance.
* `HeldInv`: as long as no withdrawal of a user was released twice, what is
  reserved is exactly the sum over the withdrawals that are there and not
  released.  The sum is the size of a set (`Held`) of pairs of a withdrawal and
  a cent, so that it needs no recursion.  `ReservationHeld` follows for a
  withdrawal that no other has robbed because its own cents are in that set.
* `ProgressInv` and `ReleaseInv`: what is true at each step of a worker, with
  "released" weakened to "released, or robbed by another withdrawal of the user"
  (`Settled`), since the statement refuses to release more than is reserved; and
  the poller's place between failing a row and releasing its reservation.
* `AttendedInv` is that of the deposits.

### The pool and the walk (`WorkerPoolProofs`, `PollerProofs`)

`WorkerPoolProofs` proves `TypeOK`, `SlotsAccounted` and `ImplementsPool` for the
pool alone.  The inductive invariant adds to the first two that rows from `next`
on have no goroutine, and what the batch has drained at each of its places
(`StartedInOrder`).  At most `Slots` at a time then follows from the accounting,
and so does the empty set of owners when the drain is complete.

`PollerProofs` proves that the pool stays that pool beside the walk
(`PollerIsPool`: no step of `Poller` does to it what `WorkerPool` does not
allow), and hence `PollerKeepsSlots` and `PollerImplementsPool`; and the two
properties of the walk, `SkipsAreDepartures` and `RepeatsAreArrivals`.  These
are counting arguments:

* A page is the set of rows whose place is in the window behind the offset
  (`PageIsWindow`, from `CountIsInjective` and `CountIsOnto`: places are the
  numbers from 1 to the size of the result, each once).
* A change of a status leaves the result as it is, takes one row out, or puts
  one in (`ChangeOfStatus`), and each moves a place by at most one
  (`CountWithout`, `CountWith`).
* `ScanInv`: the rows that were pending all the time, are unread and have slipped
  in front of the offset (`Missed`) are no more than the departures, because
  each departure lets one place slip; and the repetitions so far with the rows
  that are read and behind the offset again (`Repeatable`) are no more than the
  arrivals.  The empty page at the end means that the offset has passed all
  that is pending, so that everything unread is missed.

### The hub (`WsHubProofs`)

`Consistent` (with the types), `OnlyOwnMessages`, `InOrder`, `ClosedOrKnown`,
`GhostsOvertook`: all the safety properties of the module.

* `HubInv`: while the hub writes, only the entry it visits may be empty
  (`MapOK`), what it has in hand in each phase (`PhaseOK`), and that a message
  in a sender's hand counts against the bound (`RoomOK`).
* `OwnInv`: an entry holds connections of its user, and who is visited is
  whom the message is for.
* `OrderInv`: numbers increase along the channel, the message in hand is older
  than the channel, and what a connection has got is older than what it may
  still be written.
* `LossInv`: a connection is reachable (closed, in the map or on its way in) from
  its registration on, not only after its end; and a ghost overtook itself even
  while its registration still waits.

### The server (`HttpServerProofs`)

`GracefulMeansAnswered`: from the shutdown on nothing listens, so that what
`Shutdown` found answered stays answered until the database is closed
(`StopInv`).  And `OnlyVouchedFor`, which the module states: no handler but the
health check runs, and none broadcasts or registers a connection, for a call
without an API key or a genuine token, because a request's call changes only
when a reader ends it (`EveryStep` has all that a step can do to a request).

### What is recorded (`RecordingProofs`)

All three properties of `Recording`: `RowsArePaid`, `MismatchIsTruncation` and
`AtMostOneBurst`, for any prices, amounts, fractions, lists of transactions and
numbers of rows and retries; and `CentsAreClose`: the cents of a deposit are off
its exact value by no more than half a cent and the error of the product,
whatever amount, rate and error.

* `BankersRoundIsNearest` is about the rounding alone: it gives the cent nearest
  to the computed product, and of two the even one.  That the tie is looked for
  after `math.Round` is right because `math.Round` leaves a tie half a cent too
  high, never too low.  `CentsAreClose` adds the error of the product to it.
* `MinIsThere`: the first element of a search exists.  It comes from the
  well-foundedness of the naturals (`WFMin`), whose statement is about a set and
  needs no induction; `MatchedAmountIsMoved` and `FromAddressIsSender` follow.
* `RequiredIsClose`: what `VerifyDeposit` asks for is at most one unit below the
  session's amount.
* `RateInv`: each wait is that of the attempt it came after, so that two waits of
  zero would be two attempts equal to one base.
* `StepsInv`: between VerifyDeposit and the INSERT the payment that was found is
  still in the answer that is searched, and the draft is paid (`Paid`).
* `TableInv`: every row passed the constraints, is verified and is paid.

### How the proofs are laid out

Each component has an `Init...` and a `...Step` lemma for every invariant, with a
case per action, an `Always...` lemma that combines them, and the theorems.
Actions that change none of the variables an invariant reads are covered by one
lemma (`QuietOnce`, `QuietMoney`, `StepOfNothing`).

### Only model-checked

* Liveness: `PaidSessionsSettle`, `WithdrawalsSettle`, `SendersGoOn`,
  `GoneAreClosed`, `BatchReturns`, `QuietWalksReachAll`, `ShutdownEnds`,
  `AnsweredUnlessStuck` need ENABLED and fairness, which are out of the prover's
  reach.
* What the three violation runs refute.

## Plan

1. A ledger that states what deposits and withdrawals promise together, and the
   two verification modules shown to implement it where they do.
2. The number of goroutines of one row over all batches, from
   `RepeatsAreArrivals` and the pool.

## Not modelled

* `Update`, `UpdateStatus`, `GetByID` and the lists of the transaction
  repository, which nothing calls.  Whoever begins to use them should know that
  `Update` writes back the columns the mapping leaves out, and that
  `UpdateStatus` writes `verified_at` and `metadata` besides the status.
* Floating-point numbers beyond an error of their products; the text in which
  amounts (18 decimals) and rates (6) are stored.
* Rows with the same `created_at`, of which pages by OFFSET promise nothing.
* Code that nothing calls: `GenerateJWTWithVerification`, the repository of user
  sessions (`authrepo`), `GetUserBalances`, `GetMultipleExchangeRates`,
  `CORS()`, and in the generated packages the statements no repository calls
  (`DeleteTransaction`, `GetTransactionStats` and the copies each package has of
  the others' statements), `Prepare` and `Close`.
* The structs of the generated `models.go`: the tables of the whole platform,
  of which this service uses five, whose columns are in the modules as far as
  they decide anything.
* Ethereum and Tron processors and the Alchemy client are stubs.
  `VerifyTransactionFromPDMWebhook` returns nil, and the handler of the webhook
  does not even call it.  PDM rows are skipped by the code and so here.
* The setting `concurrent_workers` is read by nothing: the pool has ten slots.
* Logging, the wording of messages and answers, CORS headers, formatting of
  amounts, and the table of CoinCap's names for currencies.
* That a websocket outlives its token: no code looks at a token again.
* Admin review and cancellation of withdrawals belong to another service.
