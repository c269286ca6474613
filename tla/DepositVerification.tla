------------------------ MODULE DepositVerification ------------------------
(***************************************************************************)
(* The deposit half of the verification service: one poller that scans the *)
(* pending deposit sessions, and the goroutines it starts for the sessions *)
(* on Solana, each claiming a session, looking for its payment, recording  *)
(* a transaction row, crediting the owner's balance and completing the     *)
(* session.  The service keeps nothing of this in one database             *)
(* transaction but the claim, so every statement is an action of its own   *)
(* and everything may happen between two of them.                          *)
(*                                                                         *)
(* A statement or a call that fails is a fault; faults are bounded by      *)
(* MaxFaults, crashes by MaxCrashes and the goroutines queued for one      *)
(* session by MaxBacklog.  Workers is the number of goroutines that are    *)
(* past their semaphore at one time.                                       *)
(***************************************************************************)
EXTENDS Naturals, FiniteSets

CONSTANTS
    Sessions,    \* deposit sessions, by session_id
    Users,       \* owners of sessions and balances
    Workers,     \* goroutines that can be running at the same time
    Owner,       \* session -> its user_id
    Cents,       \* session -> the USD cents its payment is worth
    ChainOf,     \* session -> kind of chain_id: "solana", "pdm" or "other"
    Supported,   \* the sessions whose crypto_currency is SOL, USDC or USDT
    NoSession,   \* the empty session id
    MaxRetries,  \* maxRetries of verifySolanaSession
    Transfers,   \* session -> the transfers its customer may make
    Aging,       \* the sessions that live to be older than the time limit
    Faulty,      \* the fault points that may strike
    MaxFaults,   \* how many faults may strike altogether
    MaxCrashes,  \* how often the process may be killed and started again
    MaxBacklog   \* goroutines of one session waiting for their semaphore

\* The points where a call can return an error.
FaultPoints == {"load", "expire", "begin", "commit", "rate", "helius",
                "create", "getbal", "balance", "complete", "reset"}

ASSUME SessionsAssumption ==
    /\ NoSession \notin Sessions
    /\ Owner \in [Sessions -> Users]
    /\ Cents \in [Sessions -> Nat \ {0}]
    /\ ChainOf \in [Sessions -> {"solana", "pdm", "other"}]
    /\ Supported \subseteq Sessions
    /\ Aging \subseteq Sessions

ASSUME TransfersAssumption ==
    Transfers \in [Sessions -> SUBSET {"short", "full"}]

ASSUME BoundsAssumption ==
    /\ MaxRetries \in Nat
    /\ Faulty \subseteq FaultPoints
    /\ MaxFaults \in Nat
    /\ MaxCrashes \in Nat
    /\ MaxBacklog \in Nat \ {0}

VARIABLES
    \* The database.
    status,     \* session -> deposit_sessions.status
    rows,       \* session -> number of rows in transactions recorded for it
    balance,    \* user -> balances.amount_cents of the USD row
    \* The outside world.
    paid,       \* session -> the best transfer made to its wallet
    aged,       \* sessions older than SessionTimeoutHours
    \* The poller.
    scan,       \* "idle" or "walk"
    todo,       \* sessions of the loaded page still to be walked
    batch,      \* chainSessions: sessions to hand to the chain processors
    backlog,    \* session -> goroutines waiting for a semaphore slot
    \* The worker goroutines.
    pc,         \* worker -> its next statement
    job,        \* worker -> the session it verifies
    seen,       \* worker -> the status its SELECT returned
    attempt,    \* worker -> the attempt of the verification loop
    read,       \* worker -> the balance its GetBalance returned
    \* What websocket clients were told.
    notified,   \* session -> statuses broadcast for it
    \* Bookkeeping that the code does not have.
    faults,     \* faults so far
    struck,     \* the points where they struck
    crashes,    \* crashes so far
    credits,    \* session -> how often its value was added to a balance
    booked,     \* user -> cents added to the balance by all credits
    raced,      \* sessions claimed after their status changed under the claim
    halfway,    \* sessions whose worker saw an error after crediting them
    overlap     \* users with two workers between GetBalance and UpdateBalance

dbVars     == <<status, rows, balance>>
worldVars  == <<paid, aged>>
pollerVars == <<scan, todo, batch>>
workerVars == <<pc, job, seen, attempt, read>>
faultVars  == <<faults, struck>>
ghostVars  == <<credits, booked, raced, halfway, overlap>>
vars == <<dbVars, worldVars, pollerVars, backlog, workerVars, notified,
          faultVars, crashes, ghostVars>>

Statuses == {"pending", "processing", "completed", "expired"}
Payments == {"none", "short", "full"}
Steps == {"idle", "claim", "check", "verify", "create", "getbal", "balance",
          "complete", "announce", "reset"}
\* Steps taken by a worker that has moved its session to processing and has
\* neither finished nor given it back.
Holding == {"check", "verify", "create", "getbal", "balance", "complete",
            "reset"}

Holders(s) == {w \in Workers : job[w] = s /\ pc[w] \in Holding}

TypeOK ==
    /\ status \in [Sessions -> Statuses]
    /\ rows \in [Sessions -> Nat]
    /\ balance \in [Users -> Nat]
    /\ paid \in [Sessions -> Payments]
    /\ aged \subseteq Sessions
    /\ scan \in {"idle", "walk"}
    /\ todo \subseteq Sessions
    /\ batch \subseteq Sessions
    /\ backlog \in [Sessions -> 0..MaxBacklog]
    /\ pc \in [Workers -> Steps]
    /\ job \in [Workers -> Sessions \cup {NoSession}]
    /\ seen \in [Workers -> Statuses]
    /\ attempt \in [Workers -> 0..MaxRetries]
    /\ read \in [Workers -> Nat]
    /\ notified \in [Sessions -> SUBSET Statuses]
    /\ faults \in 0..MaxFaults
    /\ struck \subseteq Faulty
    /\ crashes \in 0..MaxCrashes
    /\ credits \in [Sessions -> Nat]
    /\ booked \in [Users -> Nat]
    /\ raced \subseteq Sessions
    /\ halfway \subseteq Sessions
    /\ overlap \subseteq Users

\* The database of a service that starts: sessions are pending or were expired
\* in an earlier life, and customers may have paid for any of them.  The bounds
\* on faults and crashes may be spent already.
Init ==
    /\ status \in [Sessions -> {"pending", "expired"}]
    /\ rows = [s \in Sessions |-> 0]
    /\ balance = [u \in Users |-> 0]
    /\ paid \in [Sessions -> Payments]
    /\ aged = {s \in Sessions : status[s] = "expired"}
    /\ scan = "idle"
    /\ todo = {}
    /\ batch = {}
    /\ backlog = [s \in Sessions |-> 0]
    /\ pc = [w \in Workers |-> "idle"]
    /\ job = [w \in Workers |-> NoSession]
    /\ seen = [w \in Workers |-> "pending"]
    /\ attempt = [w \in Workers |-> 0]
    /\ read = [w \in Workers |-> 0]
    /\ notified = [s \in Sessions |-> {}]
    /\ faults \in 0..MaxFaults
    /\ struck = {}
    /\ crashes \in 0..MaxCrashes
    /\ credits = [s \in Sessions |-> 0]
    /\ booked = [u \in Users |-> 0]
    /\ raced = {}
    /\ halfway = {}
    /\ overlap = {}

-----------------------------------------------------------------------------
(* Faults.                                                                  *)

Strikes(p) ==
    /\ p \in Faulty /\ faults < MaxFaults
    /\ faults' = faults + 1
    /\ struck' = struck \cup {p}

\* A write succeeds and is applied, or returns an error: the client cannot
\* tell whether the database applied it before the connection was lost.
Outcome(p, ok, applied) ==
    \/ ok /\ applied /\ UNCHANGED faultVars
    \/ ~ok /\ Strikes(p)

\* A read or a remote call succeeds or returns an error.
Answer(p, ok) ==
    \/ ok /\ UNCHANGED faultVars
    \/ ~ok /\ Strikes(p)

-----------------------------------------------------------------------------
(* The outside world: customers pay and time passes.                        *)

\* Only the best single transfer counts, the code never adds two up.  "short"
\* is a transfer that reaches the required amount truncated to base units,
\* which is what VerifyDeposit compares, and not the exact amount, which is
\* what processVerifiedDeposit compares.
Pay(s) ==
    /\ \E amount \in Transfers[s] :
          /\ paid[s] # "full" /\ paid[s] # amount
          /\ paid' = [paid EXCEPT ![s] = amount]
    /\ UNCHANGED <<dbVars, aged, pollerVars, backlog, workerVars, notified,
                   faultVars, crashes, ghostVars>>

\* The session gets older than SessionTimeoutHours.
Age(s) ==
    /\ s \in Aging \ aged
    /\ aged' = aged \cup {s}
    /\ UNCHANGED <<dbVars, paid, pollerVars, backlog, workerVars, notified,
                   faultVars, crashes, ghostVars>>

-----------------------------------------------------------------------------
(* The poller.                                                              *)

Listed(st) == st = "pending"
HasProcessor(s) == ChainOf[s] = "solana"
TooOld(s) == s \in aged

\* ListPendingDepositSessions: the page is a copy, the rows can change while
\* the poller walks it.
LoadPage ==
    /\ scan = "idle"
    /\ scan' = "walk"
    /\ todo' = {s \in Sessions : Listed(status[s])}
    /\ UNCHANGED <<dbVars, worldVars, batch, backlog, workerVars, notified,
                   faultVars, crashes, ghostVars>>

\* A session of a PDM chain is left alone, at any age.
SkipRow(s) ==
    /\ scan = "walk" /\ s \in todo
    /\ ChainOf[s] = "pdm"
    /\ todo' = todo \ {s}
    /\ UNCHANGED <<dbVars, worldVars, scan, batch, backlog, workerVars,
                   notified, faultVars, crashes, ghostVars>>

\* A session that is too old is expired whatever has become of its row since
\* the page was loaded, and broadcast as expired even when the update failed.
ExpireRow(s) ==
    \E ok, applied \in BOOLEAN :
        /\ scan = "walk" /\ s \in todo
        /\ ChainOf[s] # "pdm" /\ TooOld(s)
        /\ Outcome("expire", ok, applied)
        /\ todo' = todo \ {s}
        /\ status' = IF applied THEN [status EXCEPT ![s] = "expired"]
                                ELSE status
        /\ notified' = [notified EXCEPT ![s] = @ \cup {"expired"}]
        /\ UNCHANGED <<rows, balance, worldVars, scan, batch, backlog,
                       workerVars, crashes, ghostVars>>

BatchRow(s) ==
    /\ scan = "walk" /\ s \in todo
    /\ ChainOf[s] # "pdm" /\ ~TooOld(s)
    /\ todo' = todo \ {s}
    /\ batch' = batch \cup {s}
    /\ UNCHANGED <<dbVars, worldVars, scan, backlog, workerVars, notified,
                   faultVars, crashes, ghostVars>>

\* The page that comes after the last row is empty and the batch is handed
\* to the chain processors, of which only Solana's does anything; or loading
\* that page fails and the whole batch is dropped until the next tick.
Dispatch ==
    \E ok \in BOOLEAN :
        /\ scan = "walk" /\ todo = {}
        /\ Answer("load", ok)
        /\ LET started == {s \in batch : ok /\ HasProcessor(s)}
           IN  /\ \A s \in started : backlog[s] < MaxBacklog
               /\ backlog' = [s \in Sessions |->
                     IF s \in started THEN backlog[s] + 1 ELSE backlog[s]]
        /\ scan' = "idle"
        /\ batch' = {}
        /\ UNCHANGED <<dbVars, worldVars, todo, workerVars, notified,
                       crashes, ghostVars>>

Poller ==
    \/ LoadPage
    \/ \E s \in Sessions : SkipRow(s) \/ ExpireRow(s) \/ BatchRow(s)
    \/ Dispatch

-----------------------------------------------------------------------------
(* Seeded defects: how the decisions below could plausibly go wrong.  They  *)
(* are not part of the model; each shows that a property notices it.        *)

UncheckedStatus(st) == TRUE
OneRetryTooMany(a) == a <= MaxRetries
AnyTransferMatches(p) == p # "none"
ForgetsOldAmount(old, s) == Cents[s]
AddsTwice(old, s) == old + 2 * Cents[s]
IgnoresBalanceError(ok) == "complete"
GivesUpSilently == "idle"
SkipsRecording(ok) == "getbal"
PutsBack == "pending"

-----------------------------------------------------------------------------
(* The decisions of a worker, by name.                                      *)

StillPending(st) == st = "pending"

\* mapToDomainTransaction never fills DepositSessionID, so the session id of a
\* transaction read back from the database is always the empty one.
MappedSession(s) == NoSession

\* GetByDepositSessionID and GetByHash find a row, and the row names s.
AlreadyRecorded(s) == rows[s] > 0 /\ MappedSession(s) = s

\* mapCryptoToSPLTokenType knows the currency.
KnownCurrency(s) == s \in Supported

RetriesLeft(a) == a < MaxRetries

\* VerifyDeposit compares with the truncated amount, processVerifiedDeposit
\* with the exact one.
Verified(p) == p # "none"
Matched(p) == p = "full"

NewAmount(old, s) == old + Cents[s]

AfterCreate(ok) == IF ok THEN "getbal" ELSE "reset"
AfterBalance(ok) == IF ok THEN "complete" ELSE "reset"
AfterAttempts == "reset"
FinalStatus == "completed"
ResetStatus == "pending"

-----------------------------------------------------------------------------
(* A worker goroutine: verifySolanaSession and processVerifiedDeposit.      *)

At(w, step) == pc[w] = step
Go(w, step) == pc' = [pc EXCEPT ![w] = step]

\* The goroutine of worker w returns; its slot of the semaphore is free.
Return(w) ==
    /\ Go(w, "idle")
    /\ job' = [job EXCEPT ![w] = NoSession]
    /\ seen' = [seen EXCEPT ![w] = "pending"]
    /\ attempt' = [attempt EXCEPT ![w] = 0]
    /\ read' = [read EXCEPT ![w] = 0]

\* BeginTx and GetBySessionIDTx: read committed and without a row lock.
Begin(w, s) ==
    \E ok \in BOOLEAN :
        /\ At(w, "idle") /\ backlog[s] > 0
        /\ Answer("begin", ok)
        /\ backlog' = [backlog EXCEPT ![s] = @ - 1]
        /\ IF ok /\ StillPending(status[s])
             THEN /\ Go(w, "claim")
                  /\ job' = [job EXCEPT ![w] = s]
                  /\ seen' = [seen EXCEPT ![w] = status[s]]
             ELSE UNCHANGED <<pc, job, seen>>
        /\ UNCHANGED <<dbVars, worldVars, pollerVars, attempt, read, notified,
                       crashes, ghostVars>>

\* UpdateDepositSessionStatusTx and Commit.  The update names the session only,
\* never the status it expects to replace.
Claim(w) ==
    \E ok, applied \in BOOLEAN :
        LET s == job[w] IN
        /\ At(w, "claim")
        /\ Outcome("commit", ok, applied)
        /\ status' = IF applied THEN [status EXCEPT ![s] = "processing"]
                                ELSE status
        /\ raced' = IF applied /\ status[s] # seen[w] THEN raced \cup {s}
                                                      ELSE raced
        /\ IF ok THEN Go(w, "check") /\ UNCHANGED <<job, seen, attempt, read>>
                 ELSE Return(w)
        /\ UNCHANGED <<rows, balance, worldVars, pollerVars, backlog, notified,
                       crashes, credits, booked, halfway, overlap>>

\* The broadcast of "processing" and all that can end the verification before
\* it starts; each of these returns leaves the session in "processing".
Check(w) ==
    \E ok \in BOOLEAN :
        LET s == job[w] IN
        /\ At(w, "check")
        /\ Answer("rate", ok)
        /\ notified' = [notified EXCEPT ![s] = @ \cup {"processing"}]
        /\ IF ok /\ ~AlreadyRecorded(s) /\ KnownCurrency(s)
             THEN Go(w, "verify") /\ UNCHANGED <<job, seen, attempt, read>>
             ELSE Return(w)
        /\ UNCHANGED <<dbVars, worldVars, pollerVars, backlog, crashes,
                       ghostVars>>

\* One turn of the loop finds the payment.  processVerifiedDeposit then looks
\* for the transfer again in the same answer, so its outcome is decided here.
VerifyFound(w) ==
    LET s == job[w] IN
    /\ At(w, "verify")
    /\ Verified(paid[s])
    /\ IF AlreadyRecorded(s)
         THEN Return(w)
         ELSE /\ Go(w, IF Matched(paid[s]) THEN "create" ELSE "reset")
              /\ UNCHANGED <<job, seen, attempt, read>>
    /\ UNCHANGED <<dbVars, worldVars, pollerVars, backlog, notified, faultVars,
                   crashes, ghostVars>>

\* One turn of the loop fails: no payment, which Helius' client reports as an
\* error, or a call that failed.  A transient error is tried again.
VerifyFailed(w) ==
    \E ok, transient \in BOOLEAN :
        LET s == job[w] IN
        /\ At(w, "verify")
        /\ Answer("helius", ok)
        /\ ok => ~Verified(paid[s]) /\ transient
        /\ IF transient /\ RetriesLeft(attempt[w])
             THEN attempt' = [attempt EXCEPT ![w] = @ + 1] /\ UNCHANGED pc
             ELSE Go(w, AfterAttempts) /\ UNCHANGED attempt
        /\ UNCHANGED <<dbVars, worldVars, pollerVars, backlog, job, seen, read,
                       notified, crashes, ghostVars>>

Create(w) ==
    \E ok, applied \in BOOLEAN :
        /\ At(w, "create")
        /\ Outcome("create", ok, applied)
        /\ rows' = IF applied THEN [rows EXCEPT ![job[w]] = @ + 1] ELSE rows
        /\ Go(w, AfterCreate(ok))
        /\ UNCHANGED <<status, balance, worldVars, pollerVars, backlog, job,
                       seen, attempt, read, notified, crashes, ghostVars>>

GetBalance(w) ==
    \E ok \in BOOLEAN :
        LET u == Owner[job[w]]
            others == {v \in Workers \ {w} :
                          pc[v] = "balance" /\ Owner[job[v]] = u}
        IN
        /\ At(w, "getbal")
        /\ Answer("getbal", ok)
        /\ IF ok THEN /\ Go(w, "balance")
                      /\ read' = [read EXCEPT ![w] = balance[u]]
                      /\ overlap' = IF others = {} THEN overlap
                                                   ELSE overlap \cup {u}
                 ELSE Go(w, "reset") /\ UNCHANGED <<read, overlap>>
        /\ UNCHANGED <<dbVars, worldVars, pollerVars, backlog, job, seen,
                       attempt, notified, crashes, credits, booked, raced,
                       halfway>>

\* UpdateBalance writes the sum computed from the balance read before.
UpdateBalance(w) ==
    \E ok, applied \in BOOLEAN :
        LET s == job[w]
            u == Owner[s]
        IN
        /\ At(w, "balance")
        /\ Outcome("balance", ok, applied)
        /\ IF applied
             THEN /\ balance' = [balance EXCEPT ![u] = NewAmount(read[w], s)]
                  /\ booked' = [booked EXCEPT ![u] = @ + Cents[s]]
                  /\ credits' = [credits EXCEPT ![s] = @ + 1]
             ELSE UNCHANGED <<balance, booked, credits>>
        /\ halfway' = IF applied /\ ~ok THEN halfway \cup {s} ELSE halfway
        /\ Go(w, AfterBalance(ok))
        /\ read' = [read EXCEPT ![w] = 0]
        /\ UNCHANGED <<status, rows, worldVars, pollerVars, backlog, job, seen,
                       attempt, notified, crashes, raced, overlap>>

CompleteSession(w) ==
    \E ok, applied \in BOOLEAN :
        LET s == job[w] IN
        /\ At(w, "complete")
        /\ Outcome("complete", ok, applied)
        /\ status' = IF applied THEN [status EXCEPT ![s] = FinalStatus]
                                ELSE status
        /\ halfway' = IF ok THEN halfway ELSE halfway \cup {s}
        /\ Go(w, IF ok THEN "announce" ELSE "reset")
        /\ UNCHANGED <<rows, balance, worldVars, pollerVars, backlog, job,
                       seen, attempt, read, notified, crashes, credits, booked,
                       raced, overlap>>

\* BroadcastDepositSession of the completed session.
Announce(w) ==
    /\ At(w, "announce")
    /\ notified' = [notified EXCEPT ![job[w]] = @ \cup {"completed"}]
    /\ Return(w)
    /\ UNCHANGED <<dbVars, worldVars, pollerVars, backlog, faultVars, crashes,
                   ghostVars>>

\* The session is given back for another tick; an error of this update is only
\* logged and a successful one is not broadcast.
Reset(w) ==
    \E ok, applied \in BOOLEAN :
        /\ At(w, "reset")
        /\ Outcome("reset", ok, applied)
        /\ status' = IF applied THEN [status EXCEPT ![job[w]] = ResetStatus]
                                ELSE status
        /\ Return(w)
        /\ UNCHANGED <<rows, balance, worldVars, pollerVars, backlog, notified,
                       crashes, ghostVars>>

Worker(w) ==
    \/ \E s \in Sessions : Begin(w, s)
    \/ Claim(w) \/ Check(w)
    \/ VerifyFound(w) \/ VerifyFailed(w)
    \/ Create(w) \/ GetBalance(w) \/ UpdateBalance(w)
    \/ CompleteSession(w) \/ Announce(w) \/ Reset(w)

\* The process ends, by a signal or by a failure: main does not wait for the
\* goroutines.  The next process starts its poller with nothing in memory and
\* looks at pending rows only.
Crash ==
    /\ crashes < MaxCrashes
    /\ crashes' = crashes + 1
    /\ scan' = "idle" /\ todo' = {} /\ batch' = {}
    /\ backlog' = [s \in Sessions |-> 0]
    /\ pc' = [w \in Workers |-> "idle"]
    /\ job' = [w \in Workers |-> NoSession]
    /\ seen' = [w \in Workers |-> "pending"]
    /\ attempt' = [w \in Workers |-> 0]
    /\ read' = [w \in Workers |-> 0]
    /\ UNCHANGED <<dbVars, worldVars, notified, faultVars, ghostVars>>

Next ==
    \/ \E s \in Sessions : Pay(s) \/ Age(s)
    \/ Poller
    \/ \E w \in Workers : Worker(w)
    \/ Crash

Spec == Init /\ [][Next]_vars

-----------------------------------------------------------------------------
(* Safety.                                                                  *)

\* A session is credited at most once, whatever crashes and whatever call
\* fails before the credit, unless one of two things happened: a worker claimed
\* it after its status had changed under the worker's own SELECT (the claim of
\* verifySolanaSession takes no row lock and does not repeat its guard), or a
\* worker saw an error after crediting it and gave it back for another try.
CreditedOnce ==
    \A s \in Sessions : credits[s] > 1 => s \in raced \cup halfway

\* Every credit leaves its own row in transactions: the money on a balance is
\* always accounted for, even when sessions are verified twice.
CreditsAreRecorded ==
    \A s \in Sessions : credits[s] <= rows[s]

\* A row is recorded, and so a credit given, only for a session whose wallet
\* received one transfer of the exact amount, although VerifyDeposit lets the
\* truncated amount through.
PaidBeforeRecorded ==
    \A s \in Sessions : rows[s] > 0 => paid[s] = "full"

\* No session is completed, and no client told so, without its credit and its
\* transaction row: the last of three separate statements says the first two
\* happened.
CompletedMeansCredited ==
    \A s \in Sessions :
        "completed" \in notified[s] \cup {status[s]} =>
            credits[s] > 0 /\ rows[s] > 0

\* The absolute write of UpdateBalance can lose other credits but never adds
\* more than the credits that were made.
NeverOverCredited ==
    \A u \in Users : balance[u] <= booked[u]

\* A balance is exactly the sum of its credits as long as no two workers were
\* between GetBalance and UpdateBalance of the same user at the same time.
NoLostCredit ==
    \A u \in Users \ overlap : balance[u] = booked[u]

\* The sessions the service can verify.
Payable == {s \in Supported : ChainOf[s] = "solana"}

Stranded(s) == status[s] = "processing" /\ Holders(s) = {}

\* A session is left in "processing" with nobody working on it, which no later
\* tick repairs, only by a crash, an unsupported currency, or a failed commit,
\* rate request or reset.  No other fault and no interleaving strands it.
StrandedForAReason ==
    \A s \in Sessions : Stranded(s) =>
        \/ s \notin Supported
        \/ crashes > 0
        \/ struck \cap {"commit", "rate", "reset"} # {}

\* A completed session changes its status only through a worker that claimed
\* it in a race or that saw an error from the very update that completed it, or
\* through the poller expiring it from a page loaded earlier.
CompletedStays ==
    [][\A s \in Sessions :
          status[s] = "completed" /\ status'[s] # "completed" =>
              \/ s \in raced' \cup halfway'
              \/ s \in aged /\ status'[s] = "expired"
      ]_vars

-----------------------------------------------------------------------------
(* Liveness.                                                                *)

\* The poller ticks for ever, a goroutine that started runs on, and a batch
\* starts its sessions in order as slots get free, so that a queued session is
\* not passed over for ever.  Nothing is assumed of customers and of time.
Fairness ==
    /\ WF_vars(Poller)
    /\ \A w \in Workers : WF_vars(Worker(w))
    /\ \A s \in Sessions : SF_vars(\E w \in Workers : Begin(w, s))

FairSpec == Spec /\ Fairness

Settled(s) == status[s] \in {"completed", "expired"}

\* A session that has been paid ends, and stays, completed or expired, in
\* spite of races, timeouts and every fault after which the worker gives the
\* session back.
PaidSessionsSettle ==
    \A s \in Payable : paid[s] = "full" ~> []Settled(s)

-----------------------------------------------------------------------------
(* What the source says of itself and the code does not do.                 *)

\* "Transaction already created by another process, skipping": the worker
\* expects the unique constraint unique_deposit_transaction to refuse a second
\* row of a session.
OneRowPerSession ==
    \A s \in Sessions : rows[s] <= 1

=============================================================================
