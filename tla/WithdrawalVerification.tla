----------------------- MODULE WithdrawalVerification -----------------------
(***************************************************************************)
(* The withdrawal half of the verification service.  Another service       *)
(* reserves a part of the user's balance, inserts the withdrawal as        *)
(* pending, sends the coins and writes the transaction hash.  Here a       *)
(* poller scans the pending withdrawals and fails the ones that stay       *)
(* without a hash, and the goroutines it starts look for the transaction,  *)
(* record it, debit the balance, release the reservation and complete the  *)
(* withdrawal.  As for deposits only the claim is a database transaction:  *)
(* every other statement is an action of its own.                          *)
(*                                                                         *)
(* Faults are bounded by MaxFaults, crashes by MaxCrashes, goroutines      *)
(* queued for one withdrawal by MaxBacklog; rows are counted up to         *)
(* MaxRows, because a withdrawal can be retried, and recorded again,       *)
(* without end.                                                            *)
(***************************************************************************)
EXTENDS Naturals, FiniteSets

CONSTANTS
    Withdrawals,  \* withdrawals, by withdrawal_id
    Users,        \* their owners
    Workers,      \* goroutines that can be running at the same time
    Owner,        \* withdrawal -> its user_id
    Amount,       \* withdrawal -> its usd_amount_cents
    Reserved,     \* withdrawal -> its amount_reserved_cents
    Funds,        \* user -> cents on the balance at first
    ChainOf,      \* withdrawal -> kind of chain_id: "solana", "pdm", "other"
    Supported,    \* withdrawals whose crypto_currency is SOL, USDC or USDT
    Matching,     \* withdrawals whose transaction is the transfer asked for
    NoWithdrawal, \* the empty withdrawal id
    Aging,        \* withdrawals that live to be two polling intervals old
    MaxRetries,   \* maxRetries of verifySolanaWithdrawal
    MaxRows,      \* rows of one withdrawal are counted up to here
    Faulty,       \* the fault points that may strike
    MaxFaults,    \* how many faults may strike altogether
    MaxCrashes,   \* how often the process may be killed and started again
    MaxBacklog    \* goroutines of a withdrawal waiting for their semaphore

\* The points where a call can return an error.
FaultPoints == {"load", "fail", "unreserve", "again", "begin", "commit",
                "helius", "create", "getbal", "debit", "release", "complete",
                "reset"}

ASSUME WithdrawalsAssumption ==
    /\ NoWithdrawal \notin Withdrawals
    /\ Owner \in [Withdrawals -> Users]
    /\ Amount \in [Withdrawals -> Nat \ {0}]
    /\ Reserved \in [Withdrawals -> Nat \ {0}]
    /\ Funds \in [Users -> Nat]
    /\ ChainOf \in [Withdrawals -> {"solana", "pdm", "other"}]
    /\ Supported \subseteq Withdrawals
    /\ Matching \subseteq Withdrawals
    /\ Aging \subseteq Withdrawals

ASSUME BoundsAssumption ==
    /\ MaxRetries \in Nat
    /\ MaxRows \in Nat \ {0}
    /\ Faulty \subseteq FaultPoints
    /\ MaxFaults \in Nat
    /\ MaxCrashes \in Nat
    /\ MaxBacklog \in Nat \ {0}

VARIABLES
    \* The database.
    status,     \* withdrawal -> withdrawals.status, "absent" before the insert
    sent,       \* withdrawals with a tx_hash
    rows,       \* withdrawal -> rows in transactions recorded for it
    logged,     \* withdrawals whose release has a row in balance_logs
    balance,    \* user -> balances.amount_cents of the USD row
    units,      \* user -> balances.amount_units of that row, in cents
    reserved,   \* user -> balances.reserved_cents of that row
    \* The outside world.
    confirmed,  \* withdrawals whose transaction Helius reports as a match
    old,        \* withdrawals older than two polling intervals
    \* The poller.
    scan,       \* the next statement of the poller
    todo,       \* withdrawals of the loaded page still to be walked
    hashed,     \* those of the page whose copy has a hash
    cur,        \* the withdrawal markWithdrawalFailed works on
    batch,      \* chainWithdrawals
    backlog,    \* withdrawal -> goroutines waiting for a semaphore slot
    \* The worker goroutines.
    pc,         \* worker -> its next statement
    job,        \* worker -> the withdrawal it verifies
    seen,       \* worker -> the status its SELECT returned
    attempt,    \* worker -> the attempt of the verification loop
    read,       \* worker -> the balance its GetBalance returned
    \* What websocket clients were told.
    notified,   \* withdrawal -> statuses broadcast for it
    \* Bookkeeping that the code does not have.
    faults,     \* faults so far
    struck,     \* the points where they struck
    crashes,    \* crashes so far
    debits,     \* withdrawal -> how often its amount was debited
    released,   \* withdrawal -> how often its reservation was released
    out,        \* user -> cents debited from the balance altogether
    raced,      \* claimed after their status changed under the claim
    halfway,    \* withdrawals whose worker saw an error after the debit
    disturbed   \* users whose balance changed under a read of GetBalance

dbVars     == <<status, sent, rows, logged, balance, units, reserved>>
moneyVars  == <<balance, units, reserved>>
worldVars  == <<confirmed, old>>
pollerVars == <<scan, todo, hashed, cur, batch>>
workerVars == <<pc, job, seen, attempt, read>>
faultVars  == <<faults, struck>>
ghostVars  == <<debits, released, out, raced, halfway, disturbed>>
vars == <<dbVars, worldVars, pollerVars, backlog, workerVars, notified,
          faultVars, crashes, ghostVars>>

Statuses == {"absent", "pending", "processing", "completed", "failed"}
Steps == {"idle", "claim", "check", "verify", "create", "getbal", "debit",
          "release", "complete", "announce", "reset"}
\* Steps taken by a worker that has moved its withdrawal to processing and has
\* neither finished nor given it back.
Holding == {"check", "verify", "create", "getbal", "debit", "release",
            "complete", "reset"}

Holders(x) == {w \in Workers : job[w] = x /\ pc[w] \in Holding}

\* What GetBalance returns of a balance: cents and units.
Reading == [cents : Nat, units : Nat]
NoReading == [cents |-> 0, units |-> 0]

TypeOK ==
    /\ status \in [Withdrawals -> Statuses]
    /\ sent \subseteq Withdrawals
    /\ rows \in [Withdrawals -> 0..MaxRows]
    /\ logged \subseteq Withdrawals
    /\ balance \in [Users -> Nat]
    /\ units \in [Users -> Nat]
    /\ reserved \in [Users -> Nat]
    /\ confirmed \subseteq Withdrawals
    /\ old \subseteq Withdrawals
    /\ scan \in {"idle", "walk", "unreserve", "log", "again"}
    /\ todo \subseteq Withdrawals
    /\ hashed \subseteq Withdrawals
    /\ cur \in Withdrawals \cup {NoWithdrawal}
    /\ batch \subseteq Withdrawals
    /\ backlog \in [Withdrawals -> 0..MaxBacklog]
    /\ pc \in [Workers -> Steps]
    /\ job \in [Workers -> Withdrawals \cup {NoWithdrawal}]
    /\ seen \in [Workers -> Statuses]
    /\ attempt \in [Workers -> 0..MaxRetries]
    /\ read \in [Workers -> Reading]
    /\ notified \in [Withdrawals -> SUBSET Statuses]
    /\ faults \in 0..MaxFaults
    /\ struck \subseteq Faulty
    /\ crashes \in 0..MaxCrashes
    /\ debits \in [Withdrawals -> Nat]
    /\ released \in [Withdrawals -> Nat]
    /\ out \in [Users -> Nat]
    /\ raced \subseteq Withdrawals
    /\ halfway \subseteq Withdrawals
    /\ disturbed \subseteq Users

\* Withdrawals that are yet to be made, and some that failed in an earlier life
\* of the service.  The bounds on faults and crashes may be spent already.
Init ==
    /\ status \in [Withdrawals -> {"absent", "failed"}]
    /\ sent = {}
    /\ rows = [x \in Withdrawals |-> 0]
    /\ logged = {}
    /\ balance = Funds
    /\ units = Funds
    /\ reserved = [u \in Users |-> 0]
    /\ confirmed = {}
    /\ old = {x \in Withdrawals : status[x] = "failed"}
    /\ scan = "idle"
    /\ todo = {}
    /\ hashed = {}
    /\ cur = NoWithdrawal
    /\ batch = {}
    /\ backlog = [x \in Withdrawals |-> 0]
    /\ pc = [w \in Workers |-> "idle"]
    /\ job = [w \in Workers |-> NoWithdrawal]
    /\ seen = [w \in Workers |-> "pending"]
    /\ attempt = [w \in Workers |-> 0]
    /\ read = [w \in Workers |-> NoReading]
    /\ notified = [x \in Withdrawals |-> {}]
    /\ faults \in 0..MaxFaults
    /\ struck = {}
    /\ crashes \in 0..MaxCrashes
    /\ debits = [x \in Withdrawals |-> 0]
    /\ released = [x \in Withdrawals |-> IF status[x] = "failed" THEN 1 ELSE 0]
    /\ out = [u \in Users |-> 0]
    /\ raced = {}
    /\ halfway = {}
    /\ disturbed = {}

-----------------------------------------------------------------------------
(* Faults, and the balance row under a worker's read.                       *)

Strikes(p) ==
    /\ p \in Faulty /\ faults < MaxFaults
    /\ faults' = faults + 1
    /\ struck' = struck \cup {p}

\* A write succeeds and is applied, or returns an error: the client cannot
\* tell whether the database applied it before the connection was lost.
Outcome(p, ok, applied) ==
    \/ ok /\ applied /\ UNCHANGED faultVars
    \/ ~ok /\ Strikes(p)

\* A read or a remote call succeeds or returns an error.
Answer(p, ok) ==
    \/ ok /\ UNCHANGED faultVars
    \/ ~ok /\ Strikes(p)

\* The balance of u changes while one of the goroutines W is between its
\* GetBalance and its UpdateBalance of that user.
Disturbs(u, W) ==
    disturbed' = IF \E v \in W : pc[v] = "debit" /\ Owner[job[v]] = u
                   THEN disturbed \cup {u} ELSE disturbed

\* Every change of a status is this UPDATE, which keeps a hash that is there.
Put(x, st, applied) ==
    status' = IF applied THEN [status EXCEPT ![x] = st] ELSE status

\* A seeded defect, as those below: every reservation of the user is released.
ReleaseAll(x, applied, W) ==
    LET u == Owner[x] IN
    IF applied
      THEN /\ reserved' = [reserved EXCEPT ![u] = 0]
           /\ balance' = [balance EXCEPT ![u] = @ + reserved[u]]
           /\ released' = [released EXCEPT ![x] = @ + 1]
           /\ Disturbs(u, W)
      ELSE UNCHANGED <<reserved, balance, released, disturbed>>

\* ReleaseReservedBalance touches no row, and reports no error, when less than
\* the amount is reserved.  ReservationReleased, which would skip it, is read
\* from a column that no statement ever sets.
Release(x, applied, W) ==
    LET u == Owner[x] IN
    IF applied /\ reserved[u] >= Reserved[x]
      THEN /\ reserved' = [reserved EXCEPT ![u] = @ - Reserved[x]]
           /\ balance' = [balance EXCEPT ![u] = @ + Reserved[x]]
           /\ released' = [released EXCEPT ![x] = @ + 1]
           /\ Disturbs(u, W)
      ELSE UNCHANGED <<reserved, balance, released, disturbed>>

-----------------------------------------------------------------------------
(* The service that makes withdrawals, and time.                            *)

\* One statement moves the amount, if there is enough.
Reserve(u, cents) ==
    /\ balance[u] >= cents
    /\ balance' = [balance EXCEPT ![u] = @ - cents]
    /\ reserved' = [reserved EXCEPT ![u] = @ + cents]

\* ReserveBalance comes first, then the row appears.
Request(x) ==
    LET u == Owner[x] IN
    /\ status[x] = "absent"
    /\ Reserve(u, Reserved[x])
    /\ status' = [status EXCEPT ![x] = "pending"]
    /\ Disturbs(u, Workers)
    /\ UNCHANGED <<sent, rows, logged, units, worldVars, pollerVars, backlog,
                   workerVars, notified, faultVars, crashes, debits, released,
                   out, raced, halfway>>

\* The coins are sent and the hash of the transaction is written.
Send(x) ==
    /\ status[x] = "pending" /\ x \notin sent
    /\ sent' = sent \cup {x}
    /\ UNCHANGED <<status, rows, logged, moneyVars, worldVars, pollerVars,
                   backlog, workerVars, notified, faultVars, crashes,
                   ghostVars>>

\* Helius reports the transaction, and it is the transfer asked for.
Confirm(x) ==
    /\ x \in (sent \cap Matching) \ confirmed
    /\ confirmed' = confirmed \cup {x}
    /\ UNCHANGED <<dbVars, old, pollerVars, backlog, workerVars, notified,
                   faultVars, crashes, ghostVars>>

Age(x) ==
    /\ status[x] # "absent" /\ x \in Aging \ old
    /\ old' = old \cup {x}
    /\ UNCHANGED <<dbVars, confirmed, pollerVars, backlog, workerVars,
                   notified, faultVars, crashes, ghostVars>>

-----------------------------------------------------------------------------
(* Seeded defects: how the decisions below could plausibly go wrong.  They  *)
(* are not part of the model; each shows that a property notices it.        *)

TimesOut(x) == x \notin hashed \/ x \in old
AlwaysTooEarly(x) == x \notin hashed
OneRetryTooMany(a) == a <= MaxRetries
AdvancesWithoutRelease(ok) == "walk"
IgnoresDebitError(ok) == "release"
GivesUpSilently == "idle"
PutsBack == "pending"
DebitsReservation(before, x) == before - Reserved[x]

-----------------------------------------------------------------------------
(* The decisions of the poller and of a worker, by name.                    *)

Listed(st) == st = "pending"
\* The processors of the Ethereum and Tron chains only log.
HasProcessor(x) == ChainOf[x] = "solana"
NoHash(x) == x \notin hashed
TooEarly(x) == NoHash(x) /\ x \notin old
StillPending(st) == st = "pending"

\* mapToDomainTransaction never fills WithdrawalID, so the withdrawal id of a
\* transaction read back from the database is always the empty one.
MappedWithdrawal(x) == NoWithdrawal

\* GetByWithdrawalID and GetByHash find a row, and the row names x.
AlreadyRecorded(x) == rows[x] > 0 /\ MappedWithdrawal(x) = x

\* mapCryptoToSPLTokenType knows the currency.
KnownCurrency(x) == x \in Supported

\* VerifyWithdrawal returns true only together with a nil error, and an error
\* whenever it returns false.
Verified(x) == x \in confirmed

RetriesLeft(a) == a < MaxRetries

NewAmount(before, x) == before - Amount[x]

\* Neither the cents nor the units may become negative.  The cents are those
\* that are not reserved: the withdrawal's own reservation is not counted.
Sufficient(r, x) == r.cents >= Amount[x] /\ r.units >= Amount[x]

AfterFail(ok) == IF ok THEN "unreserve" ELSE "walk"
AfterCreate(ok) == IF ok THEN "getbal" ELSE "reset"
AfterDebit(ok) == IF ok THEN "release" ELSE "reset"
AfterRelease(ok) == IF ok THEN "complete" ELSE "reset"
AfterAttempts == "reset"
FinalStatus == "completed"
ResetStatus == "pending"

\* A release is logged with these values.  balance_logs takes the components
\* below only, and for USD no units.
ReleaseLog(x) == [component |-> "withdrawal", units |-> Reserved[x]]
LogAccepted(row) ==
    row.component \in {"real_money", "bonus_money", "points"} /\ row.units = 0

-----------------------------------------------------------------------------
(* The poller.                                                              *)

\* ListPendingWithdrawals: the page is a copy.
LoadPage ==
    /\ scan = "idle"
    /\ scan' = "walk"
    /\ todo' = {x \in Withdrawals : Listed(status[x])}
    /\ hashed' = todo' \cap sent
    /\ UNCHANGED <<dbVars, worldVars, cur, batch, backlog, workerVars,
                   notified, faultVars, crashes, ghostVars>>

\* A withdrawal of a PDM chain, or one without a hash that is young.
SkipRow(x) ==
    /\ scan = "walk" /\ x \in todo
    /\ ChainOf[x] = "pdm" \/ TooEarly(x)
    /\ todo' = todo \ {x}
    /\ UNCHANGED <<dbVars, worldVars, scan, hashed, cur, batch, backlog,
                   workerVars, notified, faultVars, crashes, ghostVars>>

BatchRow(x) ==
    /\ scan = "walk" /\ x \in todo
    /\ ChainOf[x] # "pdm" /\ ~NoHash(x)
    /\ todo' = todo \ {x}
    /\ batch' = batch \cup {x}
    /\ UNCHANGED <<dbVars, worldVars, scan, hashed, cur, backlog, workerVars,
                   notified, faultVars, crashes, ghostVars>>

\* markWithdrawalFailed: UpdateWithdrawal, which keeps a hash written since the
\* page was loaded.  After an error the next row is looked at.
FailRow(x) ==
    \E ok, applied \in BOOLEAN :
        /\ scan = "walk" /\ x \in todo
        /\ ChainOf[x] # "pdm" /\ NoHash(x) /\ ~TooEarly(x)
        /\ Outcome("fail", ok, applied)
        /\ todo' = todo \ {x}
        /\ scan' = AfterFail(ok)
        /\ cur' = IF scan' = "walk" THEN NoWithdrawal ELSE x
        /\ Put(x, "failed", applied)
        /\ UNCHANGED <<sent, rows, logged, moneyVars, worldVars, hashed, batch,
                       backlog, workerVars, notified, crashes, ghostVars>>

\* markWithdrawalFailed broadcasts and returns.
Failed ==
    /\ scan' = "walk"
    /\ cur' = NoWithdrawal
    /\ notified' = [notified EXCEPT ![cur] = @ \cup {"failed"}]

\* An error of the release is only logged, and nobody tries again.
Unreserve ==
    \E ok, applied \in BOOLEAN :
        /\ scan = "unreserve"
        /\ Outcome("unreserve", ok, applied)
        /\ Release(cur, applied, Workers)
        /\ IF ok THEN scan' = "log" /\ UNCHANGED <<cur, notified>> ELSE Failed
        /\ UNCHANGED <<status, sent, rows, logged, units, worldVars, todo,
                       hashed, batch, backlog, workerVars, crashes, debits,
                       out, raced, halfway>>

InsertLog(x, row) ==
    logged' = IF LogAccepted(row) THEN logged \cup {x} ELSE logged

\* LogBalanceChange, whose error is ignored.
LogRelease ==
    /\ scan = "log"
    /\ scan' = "again"
    /\ InsertLog(cur, ReleaseLog(cur))
    /\ UNCHANGED <<status, sent, rows, moneyVars, worldVars, todo, hashed, cur,
                   batch, backlog, workerVars, notified, faultVars, crashes,
                   ghostVars>>

\* The second UpdateWithdrawal writes the status again, and not the release
\* of the reservation it is meant to record.
FailAgain ==
    \E ok, applied \in BOOLEAN :
        /\ scan = "again"
        /\ Outcome("again", ok, applied)
        /\ Put(cur, "failed", applied)
        /\ Failed
        /\ UNCHANGED <<sent, rows, logged, moneyVars, worldVars, todo, hashed,
                       batch, backlog, workerVars, crashes, ghostVars>>

\* The page after the last row is empty and the batch is handed to the chain
\* processors; or loading that page fails and the batch is dropped.
Dispatch ==
    \E ok \in BOOLEAN :
        /\ scan = "walk" /\ todo = {}
        /\ Answer("load", ok)
        /\ LET started == {x \in batch : ok /\ HasProcessor(x)}
           IN  /\ \A x \in started : backlog[x] < MaxBacklog
               /\ backlog' = [x \in Withdrawals |->
                     IF x \in started THEN backlog[x] + 1 ELSE backlog[x]]
        /\ scan' = "idle" /\ batch' = {} /\ hashed' = {}
        /\ UNCHANGED <<dbVars, worldVars, todo, cur, workerVars, notified,
                       crashes, ghostVars>>

Poller ==
    \/ LoadPage
    \/ \E x \in Withdrawals : SkipRow(x) \/ BatchRow(x) \/ FailRow(x)
    \/ Unreserve \/ LogRelease \/ FailAgain
    \/ Dispatch

-----------------------------------------------------------------------------
(* A worker goroutine: verifySolanaWithdrawal and                           *)
(* processVerifiedWithdrawal.                                               *)

At(w, step) == pc[w] = step
Go(w, step) == pc' = [pc EXCEPT ![w] = step]

\* The goroutine of worker w returns; its slot of the semaphore is free.
Return(w) ==
    /\ Go(w, "idle")
    /\ job' = [job EXCEPT ![w] = NoWithdrawal]
    /\ seen' = [seen EXCEPT ![w] = "pending"]
    /\ attempt' = [attempt EXCEPT ![w] = 0]
    /\ read' = [read EXCEPT ![w] = NoReading]

\* The SELECT of the claim.
StatusOf(x) == status[x]

\* BeginTx and GetByWithdrawalIDTx: read committed and without a row lock.
Begin(w, x) ==
    \E ok \in BOOLEAN :
        /\ At(w, "idle") /\ backlog[x] > 0
        /\ Answer("begin", ok)
        /\ backlog' = [backlog EXCEPT ![x] = @ - 1]
        /\ IF ok /\ StillPending(StatusOf(x))
             THEN /\ Go(w, "claim")
                  /\ job' = [job EXCEPT ![w] = x]
                  /\ seen' = [seen EXCEPT ![w] = StatusOf(x)]
             ELSE UNCHANGED <<pc, job, seen>>
        /\ UNCHANGED <<dbVars, worldVars, pollerVars, attempt, read, notified,
                       crashes, ghostVars>>

\* UpdateWithdrawalStatusTx and Commit.
Claim(w) ==
    \E ok, applied \in BOOLEAN :
        LET x == job[w] IN
        /\ At(w, "claim")
        /\ Outcome("commit", ok, applied)
        /\ Put(x, "processing", applied)
        /\ raced' = IF applied /\ status[x] # seen[w] THEN raced \cup {x}
                                                      ELSE raced
        /\ IF ok THEN Go(w, "check") /\ UNCHANGED <<job, seen, attempt, read>>
                 ELSE Return(w)
        /\ UNCHANGED <<sent, rows, logged, moneyVars, worldVars, pollerVars,
                       backlog, notified, crashes, debits, released, out,
                       halfway, disturbed>>

\* The broadcast of "processing" and what can end the verification before it
\* starts: both returns leave the withdrawal in "processing".
Check(w) ==
    LET x == job[w] IN
    /\ At(w, "check")
    /\ notified' = [notified EXCEPT ![x] = @ \cup {"processing"}]
    /\ IF ~AlreadyRecorded(x) /\ KnownCurrency(x)
         THEN Go(w, "verify") /\ UNCHANGED <<job, seen, attempt, read>>
         ELSE Return(w)
    /\ UNCHANGED <<dbVars, worldVars, pollerVars, backlog, faultVars, crashes,
                   ghostVars>>

\* One turn of the loop finds the transfer.
VerifyFound(w) ==
    LET x == job[w] IN
    /\ At(w, "verify")
    /\ Verified(x)
    /\ IF AlreadyRecorded(x)
         THEN Return(w)
         ELSE Go(w, "create") /\ UNCHANGED <<job, seen, attempt, read>>
    /\ UNCHANGED <<dbVars, worldVars, pollerVars, backlog, notified, faultVars,
                   crashes, ghostVars>>

\* One turn of the loop fails: the transfer is not there, or the call failed.
\* A transient error is tried again.
VerifyFailed(w) ==
    \E ok, transient \in BOOLEAN :
        /\ At(w, "verify")
        /\ Answer("helius", ok)
        /\ ok => ~Verified(job[w]) /\ transient
        /\ IF transient /\ RetriesLeft(attempt[w])
             THEN attempt' = [attempt EXCEPT ![w] = @ + 1] /\ UNCHANGED pc
             ELSE Go(w, AfterAttempts) /\ UNCHANGED attempt
        /\ UNCHANGED <<dbVars, worldVars, pollerVars, backlog, job, seen, read,
                       notified, crashes, ghostVars>>

Create(w) ==
    \E ok, applied \in BOOLEAN :
        LET x == job[w] IN
        /\ At(w, "create")
        /\ Outcome("create", ok, applied)
        /\ rows' = IF applied /\ rows[x] < MaxRows
                     THEN [rows EXCEPT ![x] = @ + 1] ELSE rows
        /\ Go(w, AfterCreate(ok))
        /\ UNCHANGED <<status, sent, logged, moneyVars, worldVars, pollerVars,
                       backlog, job, seen, attempt, read, notified, crashes,
                       ghostVars>>

ReadBalance(u) == [cents |-> balance[u], units |-> units[u]]

\* GetBalance and the check of what it returned.
GetBalance(w) ==
    \E ok \in BOOLEAN :
        LET x == job[w]
            r == ReadBalance(Owner[x])
        IN
        /\ At(w, "getbal")
        /\ Answer("getbal", ok)
        /\ IF ok /\ Sufficient(r, x)
             THEN Go(w, "debit") /\ read' = [read EXCEPT ![w] = r]
             ELSE Go(w, "reset") /\ UNCHANGED read
        /\ UNCHANGED <<dbVars, worldVars, pollerVars, backlog, job, seen,
                       attempt, notified, crashes, ghostVars>>

\* The UPDATE sets both amounts, whatever they have become.
WriteBalance(u, c, n) ==
    /\ balance' = [balance EXCEPT ![u] = c]
    /\ units' = [units EXCEPT ![u] = n]

\* UpdateBalance writes the differences computed from the balance read before.
UpdateBalance(w) ==
    \E ok, applied \in BOOLEAN :
        LET x == job[w]
            u == Owner[x]
        IN
        /\ At(w, "debit")
        /\ Outcome("debit", ok, applied)
        /\ IF applied
             THEN /\ WriteBalance(u, NewAmount(read[w].cents, x),
                                     NewAmount(read[w].units, x))
                  /\ out' = [out EXCEPT ![u] = @ + Amount[x]]
                  /\ debits' = [debits EXCEPT ![x] = @ + 1]
                  /\ Disturbs(u, Workers \ {w})
             ELSE UNCHANGED <<balance, units, out, debits, disturbed>>
        /\ halfway' = IF applied /\ ~ok THEN halfway \cup {x} ELSE halfway
        /\ Go(w, AfterDebit(ok))
        /\ read' = [read EXCEPT ![w] = NoReading]
        /\ UNCHANGED <<status, sent, rows, logged, reserved, worldVars,
                       pollerVars, backlog, job, seen, attempt, notified,
                       crashes, released, raced>>

ReleaseReserved(w) ==
    \E ok, applied \in BOOLEAN :
        LET x == job[w] IN
        /\ At(w, "release")
        /\ Outcome("release", ok, applied)
        /\ Release(x, applied, Workers \ {w})
        /\ halfway' = IF ok THEN halfway ELSE halfway \cup {x}
        /\ Go(w, AfterRelease(ok))
        /\ UNCHANGED <<status, sent, rows, logged, units, worldVars,
                       pollerVars, backlog, job, seen, attempt, read, notified,
                       crashes, debits, out, raced>>

\* UpdateWithdrawal with the status completed.
Complete(w) ==
    \E ok, applied \in BOOLEAN :
        LET x == job[w] IN
        /\ At(w, "complete")
        /\ Outcome("complete", ok, applied)
        /\ Put(x, FinalStatus, applied)
        /\ halfway' = IF ok THEN halfway ELSE halfway \cup {x}
        /\ Go(w, IF ok THEN "announce" ELSE "reset")
        /\ UNCHANGED <<sent, rows, logged, moneyVars, worldVars, pollerVars,
                       backlog, job, seen, attempt, read, notified, crashes,
                       debits, released, out, raced, disturbed>>

\* BroadcastWithdrawal of the completed withdrawal.
Announce(w) ==
    /\ At(w, "announce")
    /\ notified' = [notified EXCEPT ![job[w]] = @ \cup {"completed"}]
    /\ Return(w)
    /\ UNCHANGED <<dbVars, worldVars, pollerVars, backlog, faultVars, crashes,
                   ghostVars>>

\* The withdrawal is given back for another tick; an error is only logged.
Reset(w) ==
    \E ok, applied \in BOOLEAN :
        /\ At(w, "reset")
        /\ Outcome("reset", ok, applied)
        /\ Put(job[w], ResetStatus, applied)
        /\ Return(w)
        /\ UNCHANGED <<sent, rows, logged, moneyVars, worldVars, pollerVars,
                       backlog, notified, crashes, ghostVars>>

Worker(w) ==
    \/ \E x \in Withdrawals : Begin(w, x)
    \/ Claim(w) \/ Check(w)
    \/ VerifyFound(w) \/ VerifyFailed(w)
    \/ Create(w) \/ GetBalance(w) \/ UpdateBalance(w) \/ ReleaseReserved(w)
    \/ Complete(w) \/ Announce(w) \/ Reset(w)

\* The process ends and is started again with nothing in memory.
Crash ==
    /\ crashes < MaxCrashes
    /\ crashes' = crashes + 1
    /\ scan' = "idle" /\ todo' = {} /\ hashed' = {}
    /\ cur' = NoWithdrawal /\ batch' = {}
    /\ backlog' = [x \in Withdrawals |-> 0]
    /\ pc' = [w \in Workers |-> "idle"]
    /\ job' = [w \in Workers |-> NoWithdrawal]
    /\ seen' = [w \in Workers |-> "pending"]
    /\ attempt' = [w \in Workers |-> 0]
    /\ read' = [w \in Workers |-> NoReading]
    /\ UNCHANGED <<dbVars, worldVars, notified, faultVars, ghostVars>>

Next ==
    \/ \E x \in Withdrawals : Request(x) \/ Send(x) \/ Confirm(x) \/ Age(x)
    \/ Poller
    \/ \E w \in Workers : Worker(w)
    \/ Crash

Spec == Init /\ [][Next]_vars

-----------------------------------------------------------------------------
(* Safety.                                                                  *)

\* A withdrawal is debited at most once, unless a worker claimed it after its
\* status had changed under the worker's own SELECT, or a worker saw an error
\* after debiting it and gave it back for another try.
DebitedOnce ==
    \A x \in Withdrawals : debits[x] > 1 => x \in raced \cup halfway

\* Its reservation is released at most once, by the poller that fails it or by
\* the worker that completes it, with the same two exceptions.  Nothing in the
\* database says so: reservation_released is never written, and the guard of
\* ReleaseReservedBalance is about the sum of all reservations of the user.
ReleasedOnce ==
    \A x \in Withdrawals : released[x] > 1 => x \in raced \cup halfway

\* Unless the balance changed between the GetBalance and the UpdateBalance of
\* a debit, no cent appears or is lost: what is free, what is reserved and what
\* went out add up to the funds, and the units follow the debits.
Conserved ==
    \A u \in Users \ disturbed :
        /\ balance[u] + reserved[u] + out[u] = Funds[u]
        /\ units[u] + out[u] = Funds[u]

\* Another withdrawal of the same user was released twice, and took the
\* reservation of x.
Robbed(x) ==
    \E y \in Withdrawals \ {x} : Owner[y] = Owner[x] /\ released[y] > 1

\* What is reserved for a withdrawal that is neither completed nor failed stays
\* reserved until its own release.
ReservationHeld ==
    \A x \in Withdrawals :
        status[x] # "absent" /\ released[x] = 0 /\ ~Robbed(x) =>
            reserved[Owner[x]] >= Reserved[x]

\* No withdrawal is failed, and its reservation given back, after or before it
\* was recorded or debited, although the poller fails it from a page that may
\* be stale while workers take no notice of "failed".
NeverFailedAndDebited ==
    \A x \in Withdrawals :
        "failed" \in notified[x] \cup {status[x]} =>
            debits[x] = 0 /\ rows[x] = 0

\* When the poller is done with a failed withdrawal its reservation is back on
\* the balance, unless the process crashed in between or one of the two
\* statements returned an error.
FailedIsReleased ==
    \A x \in Withdrawals :
        status[x] = "failed" /\ cur # x /\ ~Robbed(x) =>
            \/ released[x] > 0
            \/ crashes > 0
            \/ struck \cap {"fail", "unreserve"} # {}

\* No withdrawal is completed, and no client told so, without its transaction
\* row, its debit and its release: the last of four separate statements says
\* that the first three happened.
CompletedMeansSettled ==
    \A x \in Withdrawals :
        "completed" \in notified[x] \cup {status[x]} =>
            rows[x] > 0 /\ debits[x] > 0 /\ (released[x] > 0 \/ Robbed(x))

\* The withdrawals the service can verify.
Payable == {x \in Supported : ChainOf[x] = "solana"}

Stranded(x) == status[x] = "processing" /\ Holders(x) = {}

\* A withdrawal is left in "processing" with nobody working on it, which no
\* later tick repairs, only by a crash, an unsupported currency, or a failed
\* commit or reset.
StrandedForAReason ==
    \A x \in Withdrawals : Stranded(x) =>
        \/ x \notin Supported
        \/ crashes > 0
        \/ struck \cap {"commit", "reset"} # {}

\* "failed" is final, and a withdrawal never becomes failed once it has been
\* processed: workers and the poller write the status without looking at it,
\* but no worker is ever at a withdrawal the poller fails.
FailedIsFinal ==
    [][\A x \in Withdrawals :
          /\ status[x] = "failed" => status'[x] = "failed"
          /\ status'[x] = "failed" => status[x] \in {"pending", "failed"}
      ]_vars

-----------------------------------------------------------------------------
(* Liveness.                                                                *)

\* The poller ticks for ever, a goroutine that started runs on, and a queued
\* withdrawal is not passed over for ever.
Fairness ==
    /\ WF_vars(Poller)
    /\ \A w \in Workers : WF_vars(Worker(w))
    /\ \A x \in Withdrawals : SF_vars(\E w \in Workers : Begin(w, x))

FairSpec == Spec /\ Fairness

\* A withdrawal whose transfer Helius reports ends for good, in spite of races
\* and of every fault after which the worker gives it back: completed, or
\* failed by the poller from a page loaded before its hash was written.  It
\* takes a balance that is enough for every debit made on the way.  And one
\* that stays without a hash is failed, so that its reservation comes back.
WithdrawalsSettle ==
    /\ \A x \in Payable :
           x \in confirmed ~> [](status[x] \in {"completed", "failed"})
    /\ \A x \in Withdrawals :
           ChainOf[x] # "pdm" =>
               (x \in old ~> x \in sent \/ status[x] = "failed")

-----------------------------------------------------------------------------
(* What the source says of itself and the code does not do.                 *)

\* "No matching transaction found after retries": a withdrawal whose hash is
\* that of some other transaction is marked as failed.
UnmatchedAreFailed ==
    \A x \in Payable \ Matching : x \in sent ~> status[x] = "failed"

\* Every release of the reservation of a failed withdrawal is logged in
\* balance_logs, by the time the second update of the withdrawal is made.
ReleasesAreLogged ==
    \A x \in Withdrawals :
        released[x] > 0 /\ "failed" \in notified[x] => x \in logged

=============================================================================
