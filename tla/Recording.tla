----------------------------- MODULE Recording -----------------------------
(***************************************************************************)
(* What gets written down of a payment.  The goroutine of one session or   *)
(* one withdrawal asks for the rate (ExchangeRates), asks Helius and looks *)
(* for the payment in the answer (PaymentMatching) and inserts a row       *)
(* (TransactionRepository), as often as it is given the row back.  The     *)
(* credit, the debit and the statuses are left to DepositVerification and  *)
(* WithdrawalVerification, for which a payment is only there or not.       *)
(***************************************************************************)
EXTENDS ExchangeRates, PaymentMatching, TransactionRepository

CONSTANTS
    Subjects,     \* the sessions and withdrawals that may be verified
    Histories,    \* what the chain may hold for an address, newest first
    MaxAttempts   \* maxRetries of verifySolanaSession and verifySolanaWithdrawal

\* A session is asked for in a currency and a chain that nobody checked.
DepositSessions ==
    [id : STRING, type : {"deposit"}, chain : STRING, crypto : STRING,
     network : STRING, address : STRING, amount : Nat]

\* A withdrawal has its rate and its value in cents already.
Withdrawals ==
    [id : STRING, type : {"withdrawal"}, chain : STRING, crypto : STRING,
     network : STRING, address : STRING, amount : Nat,
     source : STRING, cents : Nat, rate : Nat]

ASSUME RecordingAssumption ==
    /\ Subjects \subseteq DepositSessions \cup Withdrawals
    /\ Histories \subseteq Seq(HeliusTransactions)
    /\ MaxAttempts \in Nat

VARIABLES
    subject,  \* the row that is verified
    slack,    \* whether the product for its amount falls short of the exact one
    recPc,    \* where its goroutine is
    tries,    \* turns of its loop that failed
    listing,  \* the answer in which a payment was found
    draft     \* the row about to be inserted

recordVars == <<subject, slack, recPc, tries, listing, draft>>
recordingVars == <<rateVars, transactions, recordVars>>

NoDraft == <<>>

RecordingInit ==
    /\ RatesInit
    /\ transactions = <<>>
    /\ subject \in Subjects
    /\ slack \in 0..1
    /\ recPc = "check"
    /\ tries = 0
    /\ listing = <<>>
    /\ draft = NoDraft

IsDeposit == subject.type = "deposit"

\* What is asked of Helius.
Params ==
    [address |-> subject.address, token |-> subject.crypto,
     cluster |-> ClusterOf[subject.chain]]

\* The lookup by owner finds a row, and the row names the owner.
AlreadyRecorded ==
    IF IsDeposit
      THEN \E tx \in GetByDepositSessionID(subject.id) : tx.session = subject.id
      ELSE \E tx \in GetByWithdrawalID(subject.id) : tx.withdrawal = subject.id

HashRecorded(tx) ==
    \E known \in GetByHash(subject.chain, tx.signature) :
        subject.id \in {known.session, known.withdrawal}

Goto(step) == recPc' = step

-----------------------------------------------------------------------------
(* The goroutine.                                                           *)

\* Before the first request.  Who ends here leaves the row in 'processing'.
Check ==
    /\ recPc = "check"
    /\ IF AlreadyRecorded \/ subject.crypto \notin TokenTypes \/ subject.chain \notin DOMAIN ClusterOf
         THEN Goto("over")
         ELSE Goto(IF IsDeposit THEN "rate" ELSE "verify")
    /\ UNCHANGED <<rateVars, transactions, subject, slack, tries, listing, draft>>

AskRate ==
    /\ recPc = "rate" /\ ratePc \notin {"got", "failed"}
    /\ RateStep
    /\ UNCHANGED <<transactions, recordVars>>

\* GetExchangeRate returns.
HaveRate ==
    /\ recPc = "rate" /\ ratePc \in {"got", "failed"}
    /\ Goto(IF ratePc = "got" THEN "verify" ELSE "over")
    /\ ratePc' = "idle" /\ attempt' = 0 /\ waits' = <<>>
    /\ UNCHANGED <<base, rate, transactions, subject, slack, tries, listing, draft>>

\* The error of one turn of the loop.
Result(answer, list) ==
    IF IsDeposit
      THEN VerifyDeposit(Params, RequiredAmount(subject.amount, Params, slack), answer, list)
      ELSE VerifyWithdrawal(Params, subject.amount, answer, list)

Verify ==
    \E answer \in Answers, history \in Histories :
        LET list == GetSignaturesForAddress(history)
            err == Result(answer, list)
        IN
        /\ recPc = "verify"
        /\ IF err = "none"
             THEN Goto("match") /\ listing' = list /\ tries' = 0
             ELSE /\ IF IsTransientError(err) /\ tries < MaxAttempts
                       THEN UNCHANGED recPc /\ tries' = tries + 1
                       ELSE Goto("givenBack") /\ tries' = 0
                  /\ UNCHANGED listing
        /\ UNCHANGED <<rateVars, transactions, subject, slack, draft>>

\* The fields that both kinds of rows take from the subject.  That the amounts and
\* the rate are written as text of 18 and 6 decimals is left out.
Row(tx) ==
    [session |-> "", withdrawal |-> "", chain |-> subject.chain, network |-> subject.network,
     hash |-> tx.signature, from |-> "", to |-> subject.address, amount |-> subject.amount,
     cents |-> NoCents, rate |-> rate, time |-> tx.timestamp, status |-> "verified",
     type |-> subject.type, processor |-> "internal", metadata |-> tx]

DepositRow(tx, cents) ==
    [Row(tx) EXCEPT !.session = subject.id, !.from = GetFromAddress(tx, Params),
                    !.amount = MatchedAmount(tx, Params, subject.amount), !.cents = cents]

WithdrawalRow(tx) ==
    [Row(tx) EXCEPT !.withdrawal = subject.id, !.from = subject.source,
                    !.cents = subject.cents, !.rate = subject.rate]

Match ==
    LET found == IF IsDeposit THEN Matching(listing, Params, subject.amount)
                 ELSE DOMAIN listing
        tx == listing[Min(found)]
    IN
    /\ recPc = "match"
    /\ IF AlreadyRecorded THEN Goto("over") /\ UNCHANGED draft
       ELSE IF found = {} THEN Goto("givenBack") /\ UNCHANGED draft
       ELSE IF HashRecorded(tx) THEN Goto("over") /\ UNCHANGED draft
       ELSE /\ Goto("create")
            /\ IF IsDeposit
                 THEN \E cents \in CryptoToUSDCents(
                                     MatchedAmount(tx, Params, subject.amount), rate) :
                          draft' = DepositRow(tx, cents)
                 ELSE draft' = WithdrawalRow(tx)
    /\ listing' = <<>>
    /\ UNCHANGED <<rateVars, transactions, subject, slack, tries>>

\* The INSERT, which can be refused or fail; what comes after it can fail too
\* and then the row is given back although its transaction is recorded.
Record ==
    /\ recPc = "create"
    /\ \/ Create(draft) \/ UNCHANGED transactions
    /\ \/ transactions' # transactions /\ Goto("over")
       \/ Goto("givenBack")
    /\ draft' = NoDraft
    /\ UNCHANGED <<rateVars, subject, slack, tries, listing>>

\* A later tick claims the row again.
ClaimAgain ==
    /\ recPc = "givenBack" /\ Len(transactions) < MaxRows
    /\ Goto("check")
    /\ rate' = NoPrice
    /\ UNCHANGED <<base, ratePc, attempt, waits, transactions, subject, slack,
                   tries, listing, draft>>

RecordingNext ==
    \/ Check \/ AskRate \/ HaveRate \/ Verify \/ Match \/ Record \/ ClaimAgain

RecordingSpec == RecordingInit /\ [][RecordingNext]_recordingVars

-----------------------------------------------------------------------------
(* Properties.                                                              *)

Nearest(n, d, c) ==
    /\ 2 * Distance(n, d, c) <= d
    /\ 2 * Distance(n, d, c) = d => c % 2 = 0

\* The cents of a value are off it by half a cent and the error of the product
\* at most.
IsWorth(amount, price, cents) ==
    \E n \in Products(amount * price) : Nearest(n, FractionsPerCent, cents)

\* The row is a whole transaction, and backed by the one it names.
IsPaid(row) ==
    LET tx == row.metadata
        moved == {t \in Range(IF subject.crypto = "SOL" THEN tx.native ELSE tx.tokens) :
                     /\ t.to = subject.address
                     /\ subject.crypto # "SOL" =>
                            t.mint = Mints[ClusterOf[row.chain]][subject.crypto]}
    IN
    /\ row \in Transactions(HeliusTransactions)
    /\ row.hash = tx.signature /\ tx.type = "TRANSFER"
    /\ row.amount >= subject.amount
    /\ \E t \in moved : t.amount >= row.amount
    /\ IsDeposit =>
          /\ \E t \in moved : t.amount = row.amount
          /\ \E t \in Range(tx.native) \cup Range(tx.tokens) : t.from = row.from
          /\ IsWorth(row.amount, row.rate, row.cents)

\* Every row that was recorded is paid: in the transaction it names a transfer
\* of the right mint moved the row's amount, and no less than was asked for, to
\* the address of the session or withdrawal.  A deposit's row has the value of
\* just that transfer at its rate, and a sender that is one of the transaction's.
\* The value is the cent nearest to what the floating-point product came to, and
\* the even one of two; of the exact product that cannot be said.
RowsArePaid == \A row \in Range(transactions) : IsPaid(row)

\* VerifyDeposit and processVerifiedDeposit search the same answer with two
\* amounts.  They disagree, and give a paid session back, only about a transfer
\* that is short of the session's amount by no more than one base unit.
MismatchIsTruncation ==
    (recPc = "match" /\ IsDeposit /\ Matching(listing, Params, subject.amount) = {}) =>
        \E tx \in Range(listing) : \E t \in Range(TransfersOf(tx, Params)) :
            /\ t.to = subject.address
            /\ t.amount < subject.amount
            /\ t.amount >= subject.amount - Fractions[GetDecimals(Params.cluster, Params.token)]

\* A call never sends more than two of its requests without a pause between
\* them, although the waits do not grow: exclusive-or with a base is zero for
\* one attempt only.
AtMostOneBurst ==
    \A i, j \in DOMAIN waits : waits[i] <= 0 /\ waits[j] <= 0 => i = j
=============================================================================
