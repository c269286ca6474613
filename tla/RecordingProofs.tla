-------------------------- MODULE RecordingProofs --------------------------
(***************************************************************************)
(* Proofs about Recording and the modules it is composed of, for any       *)
(* prices, amounts, transactions and numbers of rows and retries: what the *)
(* rounding and the search for a payment return, the waits of a call for a *)
(* rate, and that what is recorded was paid.                               *)
(***************************************************************************)
EXTENDS Recording, WellFoundedInduction, SequenceTheorems, TLAPS

-----------------------------------------------------------------------------
(* Cents.                                                                   *)

\* The quotient is the only number of times that b fits into a.
LEMMA DivisionLemma ==
    ASSUME NEW a \in Nat, NEW b \in Nat \ {0}
    PROVE  /\ a \div b \in Nat
           /\ b * (a \div b) <= a
           /\ a < b * (a \div b) + b
BY SMT

\* RoundHalfAway is nowhere further from the value than half a cent, and from
\* half a cent goes up.
LEMMA RoundHalfAwayIsNearest ==
    ASSUME NEW n \in Nat, NEW d \in Nat \ {0}
    PROVE  /\ RoundHalfAway(n, d) \in Nat
           /\ 2 * (RoundHalfAway(n, d) * d) <= 2 * n + d
           /\ 2 * n + d < 2 * (RoundHalfAway(n, d) * d) + 2 * d
<1>1. 2 * n + d \in Nat /\ 2 * d \in Nat \ {0}
      OBVIOUS
<1> DEFINE r == (2 * n + d) \div (2 * d)
<1>2. r \in Nat /\ (2 * d) * r <= 2 * n + d /\ 2 * n + d < (2 * d) * r + 2 * d
      BY ONLY <1>1, DivisionLemma
<1> HIDE DEF r
<1>3. (2 * d) * r = 2 * (r * d)
      BY <1>2
<1>4. r = RoundHalfAway(n, d)
      BY DEF r, RoundHalfAway
<1> QED
    BY <1>2, <1>3, <1>4

\* BankersRound is the cent nearest to what the product came to, and of two the
\* even one: what is half a cent away is recognised after the rounding and the
\* odd cent, which is one too many, taken back.
LEMMA BankersRoundIsNearest ==
    ASSUME NEW n \in Nat, NEW d \in Nat \ {0}
    PROVE  /\ BankersRound(n, d) \in Int
           /\ Nearest(n, d, BankersRound(n, d))
<1> DEFINE r == RoundHalfAway(n, d)
           p == r * d
<1>1. r \in Nat /\ p \in Nat /\ 2 * p <= 2 * n + d /\ 2 * n + d < 2 * p + 2 * d
      <2>1. r \in Nat /\ 2 * p <= 2 * n + d /\ 2 * n + d < 2 * p + 2 * d
            BY ONLY RoundHalfAwayIsNearest, n \in Nat, d \in Nat \ {0}
      <2> HIDE DEF r
      <2> QED
          BY <2>1
<1>2. (r - 1) * d = p - d
      BY <1>1
<1>3. BankersRound(n, d) = IF 2 * Distance(n, d, r) # d \/ r % 2 = 0 THEN r ELSE r - 1
      BY DEF BankersRound
<1>4. Distance(n, d, r) = IF n >= p THEN n - p ELSE p - n
      BY DEF Distance
<1>5. Distance(n, d, r - 1) = IF n >= p - d THEN n - (p - d) ELSE (p - d) - n
      BY <1>2 DEF Distance
<1> HIDE DEF r, p
<1>6. CASE 2 * Distance(n, d, r) # d \/ r % 2 = 0
      BY <1>1, <1>3, <1>4, <1>6 DEF Nearest
<1>7. CASE 2 * Distance(n, d, r) = d /\ r % 2 # 0
      <2>1. (r - 1) % 2 = 0 /\ r - 1 \in Int
            BY <1>1, <1>7
      <2>2. 2 * Distance(n, d, r - 1) = d
            BY <1>1, <1>4, <1>5, <1>7
      <2> QED
          BY <1>3, <1>7, <2>1, <2>2 DEF Nearest
<1> QED
    BY <1>1, <1>6, <1>7

\* The products are whole numbers of fractions, near the exact one.
LEMMA ProductsAreClose ==
    ASSUME NEW exact \in Nat, NEW n \in Products(exact)
    PROVE  n \in Nat /\ n <= exact + Error /\ exact <= n + Error
<1>1. Error \in Nat
      BY MatchingAssumption
<1>2. CASE exact = 0
      BY <1>1, <1>2 DEF Products
<1>3. CASE exact # 0
      BY <1>1, <1>3 DEF Products
<1> QED
    BY <1>2, <1>3

\* The cents of an amount are off its exact value by no more than half a cent and
\* the error of the two multiplications: recognising a tie after the rounding
\* adds nothing to it.
THEOREM CentsAreClose ==
    ASSUME NEW amount \in Nat, NEW price \in Nat,
           NEW cents \in CryptoToUSDCents(amount, price)
    PROVE  /\ cents \in Int
           /\ IsWorth(amount, price, cents)
           /\ 2 * Distance(amount * price, FractionsPerCent, cents)
                 <= FractionsPerCent + 2 * Error
<1> DEFINE exact == amount * price
           d == FractionsPerCent
<1>1. exact \in Nat /\ d \in Nat \ {0} /\ Error \in Nat
      BY MatchingAssumption
<1>2. PICK n \in Products(exact) : cents = BankersRound(n, d)
      BY DEF CryptoToUSDCents
<1> HIDE DEF exact, d
<1>3. n \in Nat /\ n <= exact + Error /\ exact <= n + Error
      BY <1>1, ProductsAreClose
<1>4. cents \in Int /\ Nearest(n, d, cents)
      BY <1>1, <1>2, <1>3, BankersRoundIsNearest
<1>5. IsWorth(amount, price, cents)
      BY <1>4 DEF IsWorth, exact, d
<1>6. 2 * Distance(exact, d, cents) <= d + 2 * Error
      <2> DEFINE p == cents * d
      <2>1. p \in Int
            BY <1>1, <1>4
      <2>2. 2 * (IF n >= p THEN n - p ELSE p - n) <= d
            BY <1>4 DEF Nearest, Distance
      <2>3. Distance(exact, d, cents) = IF exact >= p THEN exact - p ELSE p - exact
            BY DEF Distance
      <2> HIDE DEF p
      <2> QED
          BY <1>1, <1>3, <2>1, <2>2, <2>3
<1> QED
    BY <1>4, <1>5, <1>6 DEF exact, d

-----------------------------------------------------------------------------
(* First elements.                                                          *)

\* A set of numbers has a least one, which Min finds.
LEMMA MinIsThere ==
    ASSUME NEW S, S \subseteq Nat, S # {}
    PROVE  Min(S) \in S /\ \A y \in S : Min(S) =< y
<1> DEFINE Less == {p \in Nat \X Nat : p[1] < p[2]}
<1>1. IsWellFoundedOn(Less, Nat)
      BY NatLessThanWellFounded DEF OpToRel
<1>2. PICK x \in S : \A y \in S : ~ (<<y, x>> \in Less)
      BY <1>1, WFMin
<1>3. ASSUME NEW y \in S PROVE x =< y
      <2>1. y \in Nat /\ x \in Nat
            OBVIOUS
      <2>2. ~ (y < x)
            <3> SUFFICES ASSUME y < x PROVE FALSE
                OBVIOUS
            <3>1. <<y, x>> \in Less
                  BY <2>1
            <3> QED
                BY <1>2, <3>1
      <2> QED
          BY <2>1, <2>2
<1> HIDE DEF Less
<1> QED
    BY <1>3 DEF Min

-----------------------------------------------------------------------------
(* The call for a rate.                                                     *)

Calls == {"idle", "request", "asleep", "got", "failed"}

Sleeping == IF ratePc = "asleep" THEN 1 ELSE 0

\* Each wait is that of the attempt it came after.
WaitsOK ==
    /\ waits \in Seq(Int)
    /\ Len(waits) = attempt + Sleeping
    /\ \A i \in DOMAIN waits : waits[i] = CalculateBackoff(i - 1, base)

RateInv ==
    /\ base \in BackoffBases
    /\ ratePc \in Calls
    /\ attempt \in 0..MaxRetries
    /\ rate \in Prices \cup {NoPrice}
    /\ ratePc = "got" => rate \in Prices
    /\ ratePc = "idle" => attempt = 0
    /\ ratePc = "asleep" => attempt < MaxRetries
    /\ recPc # "rate" => ratePc = "idle"
    /\ WaitsOK

-----------------------------------------------------------------------------
(* What a row must be, and what is known on the way to it.                  *)

Rows == Transactions(HeliusTransactions)

\* The transfers of a transaction that pay the subject.
Moved(tx) == {t \in Range(TransfersOf(tx, Params)) : GoesTo(t, Params)}

\* IsPaid in terms of the search.  Only the table refuses a row without a recipient,
\* and only a recipient shows that the transaction has a sender.
Paid(row) ==
    /\ row \in Rows
    /\ row.chain = subject.chain
    /\ row.hash = row.metadata.signature /\ row.metadata.type = "TRANSFER"
    /\ row.amount >= subject.amount
    /\ \E t \in Moved(row.metadata) : t.amount >= row.amount
    /\ IsDeposit =>
          /\ \E t \in Moved(row.metadata) : t.amount = row.amount
          /\ row.to # "" =>
                \E t \in Range(TransfersOf(row.metadata, Params)) : t.from = row.from
          /\ IsWorth(row.amount, row.rate, row.cents)

\* VerifyDeposit or VerifyWithdrawal has found a payment.
Found ==
    IF IsDeposit
      THEN \E tx \in Range(listing) :
              Pays(tx, Params, RequiredAmount(subject.amount, Params, slack))
      ELSE listing # <<>> /\ Pays(listing[1], Params, subject.amount)

Steps == {"check", "rate", "verify", "match", "create", "givenBack", "over"}

StepsInv ==
    /\ subject \in Subjects
    /\ slack \in 0..1
    /\ recPc \in Steps
    /\ tries \in Nat
    /\ listing \in Seq(HeliusTransactions)
    /\ recPc \in {"rate", "verify", "match"} =>
          subject.crypto \in TokenTypes /\ subject.chain \in DOMAIN ClusterOf
    /\ recPc \in {"verify", "match"} /\ IsDeposit => rate \in Prices
    /\ recPc = "match" => Found
    /\ recPc = "create" => draft.status = "verified" /\ Paid(draft)

TableInv ==
    /\ transactions \in Seq(Rows)
    /\ \A id \in Ids :
          /\ Accepted(transactions[id])
          /\ transactions[id].status = "verified"
          /\ Paid(transactions[id])

RecordingInv == RateInv /\ StepsInv /\ TableInv

-----------------------------------------------------------------------------
(* The waits.                                                               *)

LEMMA BackoffIsInt ==
    ASSUME NEW a \in 0..MaxRetries, NEW b \in BackoffBases
    PROVE  CalculateBackoff(a, b) \in Int
BY ExclusiveOrAssumption DEF CalculateBackoff, Raw

LEMMA InitRate == RecordingInit => RateInv
BY RatesAssumption DEF RecordingInit, RatesInit, RateInv, Calls, WaitsOK, Sleeping

LEMMA RateStepKeeps ==
    ASSUME RateInv, RateStep, recPc = "rate", recPc' = "rate"
    PROVE  RateInv'
<1>1. CASE GetExchangeRate
      BY <1>1 DEF GetExchangeRate, RateInv, Calls, WaitsOK, Sleeping
<1>2. CASE Wake
      BY <1>2, RatesAssumption DEF Wake, RateInv, Calls, WaitsOK, Sleeping
<1>3. CASE ParseCoinCapResponse
      BY <1>3 DEF ParseCoinCapResponse, RateInv, Calls, WaitsOK, Sleeping
<1>4. ASSUME NEW outcome \in Outcomes, HandleErrorResponse(outcome)
      PROVE  RateInv'
      BY <1>4 DEF HandleErrorResponse, RateInv, Calls, WaitsOK, Sleeping
<1>5. ASSUME NEW outcome \in Outcomes, RetryAfter(outcome)
      PROVE  RateInv'
      <2> DEFINE wait == CalculateBackoff(attempt, base)
      <2>1. wait \in Int
            BY BackoffIsInt DEF RateInv
      <2>2. /\ ratePc = "request" /\ ratePc' = "asleep" /\ attempt < MaxRetries
            /\ waits' = Append(waits, wait)
            /\ UNCHANGED <<base, attempt, rate>>
            BY <1>5 DEF RetryAfter
      <2> HIDE DEF wait
      <2>3. /\ waits \in Seq(Int) /\ Len(waits) = attempt /\ attempt \in Nat
            /\ \A i \in 1..attempt : waits[i] = CalculateBackoff(i - 1, base)
            BY <2>2, RatesAssumption DEF RateInv, WaitsOK, Sleeping
      <2>4. waits' \in Seq(Int) /\ Len(waits') = attempt + 1
            BY <2>1, <2>2, <2>3
      <2>5. ASSUME NEW i \in DOMAIN waits'
            PROVE  waits'[i] = CalculateBackoff(i - 1, base)
            <3>1. CASE i \in 1..attempt
                  BY <2>1, <2>2, <2>3, <3>1
            <3>2. CASE i = attempt + 1
                  BY <2>1, <2>2, <2>3, <3>2 DEF wait
            <3> QED
                BY <2>3, <2>4, <3>1, <3>2
      <2>6. WaitsOK'
            BY <2>2, <2>4, <2>5 DEF WaitsOK, Sleeping
      <2> QED
          BY <2>2, <2>6 DEF RateInv, Calls
<1> QED
    BY <1>1, <1>2, <1>3, <1>4, <1>5 DEF RateStep

LEMMA RateInvStep ==
    RateInv /\ [RecordingNext]_recordingVars => RateInv'
<1> SUFFICES ASSUME RateInv, [RecordingNext]_recordingVars PROVE RateInv'
    OBVIOUS
<1> USE DEF RateInv, WaitsOK, Sleeping, rateVars
<1>1. CASE Check
      BY <1>1 DEF Check, Goto
<1>2. CASE AskRate
      BY <1>2, RateStepKeeps DEF AskRate, recordVars
<1>3. CASE HaveRate
      BY <1>3, RatesAssumption DEF HaveRate, Goto, Calls
<1>4. CASE Verify
      BY <1>4 DEF Verify, Goto
<1>5. CASE Match
      BY <1>5 DEF Match, Goto
<1>6. CASE Record
      BY <1>6 DEF Record, Goto
<1>7. CASE ClaimAgain
      BY <1>7 DEF ClaimAgain, Goto
<1>8. CASE UNCHANGED recordingVars
      BY <1>8 DEF recordingVars, recordVars
<1> QED
    BY <1>1, <1>2, <1>3, <1>4, <1>5, <1>6, <1>7, <1>8 DEF RecordingNext

LEMMA AlwaysRate == RecordingSpec => []RateInv
BY InitRate, RateInvStep, PTL DEF RecordingSpec

\* A call for a rate never sends more than two of its requests without a pause
\* between them, whatever the base and however many retries there are: its
\* waits are those of its attempts, and ^ is zero for one of them at most.
THEOREM AtMostOneBurstCorrect == RecordingSpec => []AtMostOneBurst
<1>1. RateInv => AtMostOneBurst
      <2> SUFFICES ASSUME RateInv, NEW i \in DOMAIN waits, NEW j \in DOMAIN waits,
                          waits[i] <= 0, waits[j] <= 0
                   PROVE  i = j
          BY DEF AtMostOneBurst
      <2>1. ASSUME NEW k \in DOMAIN waits, waits[k] <= 0
            PROVE  k \in Nat /\ k - 1 = Base(base)
            <3>1. k \in 1..MaxRetries /\ k - 1 \in 0..MaxRetries
                  <4>1. waits \in Seq(Int) /\ Len(waits) <= MaxRetries
                        BY RatesAssumption DEF RateInv, WaitsOK, Sleeping
                  <4> QED
                      BY <4>1, RatesAssumption
            <3>2. CalculateBackoff(k - 1, base) <= 0
                  BY <2>1 DEF RateInv, WaitsOK
            <3>3. ExclusiveOr(Base(base), k - 1) \in Nat
                  BY <3>1, ExclusiveOrAssumption DEF RateInv
            <3>4. ExclusiveOr(Base(base), k - 1) = 0
                  BY <3>2, <3>3 DEF CalculateBackoff, Raw
            <3> QED
                BY <3>1, <3>4, ExclusiveOrAssumption DEF RateInv
      <2> QED
          BY <2>1
<1> QED
    BY <1>1, AlwaysRate, PTL

-----------------------------------------------------------------------------
(* Lemmas about the search for a payment.                                   *)

LEMMA TransfersAreTyped ==
    ASSUME NEW tx \in HeliusTransactions, NEW p
    PROVE  TransfersOf(tx, p) \in Seq(Transfers)
BY DEF HeliusTransactions, TransfersOf

\* The first transfer that is enough is one that is enough.
LEMMA MatchedAmountIsMoved ==
    ASSUME NEW tx \in HeliusTransactions, NEW p, NEW amount \in Nat,
           \E t \in Range(TransfersOf(tx, p)) : GoesTo(t, p) /\ Enough(t, amount)
    PROVE  /\ MatchedAmount(tx, p, amount) \in Nat
           /\ MatchedAmount(tx, p, amount) >= amount
           /\ \E t \in Range(TransfersOf(tx, p)) :
                 GoesTo(t, p) /\ t.amount = MatchedAmount(tx, p, amount)
<1> DEFINE transfers == TransfersOf(tx, p)
           enough == {i \in DOMAIN transfers :
                         GoesTo(transfers[i], p) /\ Enough(transfers[i], amount)}
<1>1. transfers \in Seq(Transfers)
      BY TransfersAreTyped
<1>2. MatchedAmount(tx, p, amount) = transfers[Min(enough)].amount
      BY DEF MatchedAmount
<1> HIDE DEF transfers
<1>3. enough # {}
      BY DEF Range, transfers
<1>4. enough \subseteq Nat
      BY <1>1
<1> DEFINE i == Min(enough)
           t == transfers[i]
<1>5. i \in enough
      BY <1>3, <1>4, MinIsThere
<1> HIDE DEF i
<1>6. t \in Transfers /\ t \in Range(transfers) /\ GoesTo(t, p) /\ Enough(t, amount)
      <2>1. i \in DOMAIN transfers /\ GoesTo(t, p) /\ Enough(t, amount)
            BY <1>5
      <2>2. t \in Transfers
            BY <1>1, <2>1
      <2>3. t \in Range(transfers)
            BY <2>1 DEF Range
      <2> QED
          BY <2>1, <2>2, <2>3
<1>7. t.amount \in Nat /\ t.amount >= amount
      BY <1>6 DEF Transfers, Enough
<1> QED
    BY <1>2, <1>6, <1>7 DEF transfers, i

\* A transaction that names a recipient has a sender.
LEMMA FromAddressIsSender ==
    ASSUME NEW tx \in HeliusTransactions, NEW p
    PROVE  /\ GetFromAddress(tx, p) \in Text
           /\ (\E t \in Range(TransfersOf(tx, p)) : t.to # "") =>
                 \E t \in Range(TransfersOf(tx, p)) : t.from = GetFromAddress(tx, p)
<1> DEFINE transfers == TransfersOf(tx, p)
           named == {i \in DOMAIN transfers : transfers[i].to # ""}
<1>1. transfers \in Seq(Transfers)
      BY TransfersAreTyped
<1>2. GetFromAddress(tx, p) = IF named = {} THEN "" ELSE transfers[Min(named)].from
      BY DEF GetFromAddress
<1> HIDE DEF transfers
<1>3. named \subseteq Nat
      <2>1. DOMAIN transfers \subseteq Nat
            BY <1>1
      <2>2. named \subseteq DOMAIN transfers
            OBVIOUS
      <2> QED
          BY <2>1, <2>2
<1>4. CASE named = {}
      <2>1. \A i \in DOMAIN transfers : transfers[i].to = ""
            BY <1>4
      <2>2. \A t \in Range(transfers) : t.to = ""
            BY <2>1 DEF Range
      <2>3. GetFromAddress(tx, p) = ""
            BY <1>2, <1>4
      <2>4. "" \in Text
            BY DEF Text
      <2> HIDE DEF named
      <2> QED
          BY <2>2, <2>3, <2>4 DEF transfers
<1>5. CASE named # {}
      <2> DEFINE i == Min(named)
                 t == transfers[i]
      <2>1. i \in DOMAIN transfers
            BY <1>3, <1>5, MinIsThere
      <2> HIDE DEF i
      <2>2. t \in Transfers /\ t \in Range(transfers)
            BY <1>1, <2>1 DEF Range
      <2>3. t.from \in STRING
            BY <2>2 DEF Transfers
      <2> QED
          BY <1>2, <1>5, <2>2, <2>3 DEF transfers, i, Text
<1> QED
    BY <1>4, <1>5

\* What VerifyDeposit asks for is the session's amount in whole units, or one
\* unit less if that is what it is already.
LEMMA RequiredIsClose ==
    ASSUME NEW amount \in Nat, NEW p, NEW s \in 0..1
    PROVE  LET unit == Fractions[GetDecimals(p.cluster, p.token)]
           IN  /\ unit \in Nat \ {0}
               /\ RequiredAmount(amount, p, s) \in Int
               /\ RequiredAmount(amount, p, s) >= amount - unit
<1> DEFINE unit == Fractions[GetDecimals(p.cluster, p.token)]
           q == amount \div unit
           short == IF amount % unit = 0 /\ amount >= unit THEN s ELSE 0
<1>1. unit \in Nat \ {0}
      BY MatchingAssumption DEF GetDecimals
<1>2. RequiredAmount(amount, p, s) = unit * (q - short)
      BY DEF RequiredAmount
<1> HIDE DEF unit
<1>3. q \in Nat /\ unit * q <= amount /\ amount < unit * q + unit
      BY <1>1, DivisionLemma
<1>4. amount % unit = 0 => amount = unit * q
      BY <1>1
<1> HIDE DEF q
<1>5. CASE short = 0
      <2>1. unit * (q - short) = unit * q
            BY <1>1, <1>3, <1>5
      <2>2. unit * q \in Int
            BY <1>1, <1>3
      <2> QED
          BY <1>1, <1>2, <1>3, <2>1, <2>2 DEF unit
<1>6. CASE short = 1
      <2>1. amount = unit * q
            BY <1>4, <1>6
      <2>2. unit * (q - short) = unit * q - unit
            BY <1>1, <1>3, <1>6
      <2> QED
          BY <1>1, <1>2, <2>1, <2>2 DEF unit
<1> QED
    BY <1>5, <1>6

-----------------------------------------------------------------------------
(* The table.                                                               *)

\* The one statement that changes the table adds the draft at its end.
LEMMA TableStep ==
    ASSUME TableInv, [RecordingNext]_recordingVars
    PROVE  \/ transactions' = transactions
           \/ /\ recPc = "create" /\ Accepted(draft)
              /\ transactions' = Append(transactions, draft)
<1>1. CASE Record
      BY <1>1 DEF Record, Create, CreateTransaction
<1>2. CASE Check \/ AskRate \/ HaveRate \/ Verify \/ Match \/ ClaimAgain
      BY <1>2 DEF Check, AskRate, HaveRate, Verify, Match, ClaimAgain
<1>3. CASE UNCHANGED recordingVars
      BY <1>3 DEF recordingVars
<1> QED
    BY <1>1, <1>2, <1>3 DEF RecordingNext

LEMMA SubjectStays ==
    [RecordingNext]_recordingVars => UNCHANGED <<subject, slack>>
BY DEF RecordingNext, recordingVars, recordVars, Check, AskRate, HaveRate, Verify,
       Match, Record, ClaimAgain

LEMMA PaidStays ==
    ASSUME UNCHANGED <<subject, slack>>, NEW row, Paid(row)
    PROVE  Paid(row)'
BY DEF Paid, Moved, Params, IsDeposit

-----------------------------------------------------------------------------
(* The rows that are drafted.                                               *)

SubjectOK ==
    /\ subject.amount \in Nat
    /\ {subject.id, subject.chain, subject.network, subject.address} \subseteq STRING
    /\ ~IsDeposit => /\ subject.type = "withdrawal"
                     /\ subject.source \in STRING
                     /\ subject.cents \in Nat /\ subject.rate \in Nat

LEMMA SubjectIsTyped == StepsInv => SubjectOK
BY RecordingAssumption
   DEF StepsInv, SubjectOK, IsDeposit, DepositSessions, Withdrawals

\* What a row has of its subject and of its transaction, field by field.
Fields(tx) ==
    [session |-> "", withdrawal |-> "", chain |-> subject.chain,
     network |-> subject.network, hash |-> tx.signature, from |-> "",
     to |-> subject.address, amount |-> subject.amount, cents |-> NoCents,
     rate |-> rate, time |-> tx.timestamp, status |-> "verified",
     type |-> subject.type, processor |-> "internal", metadata |-> tx]

\* A deposit's draft is of the first transaction that pays it.
LEMMA DepositRowIsPaid ==
    ASSUME StepsInv, IsDeposit, rate \in Prices, NEW tx \in HeliusTransactions,
           tx.type = "TRANSFER",
           \E t \in Range(TransfersOf(tx, Params)) :
               GoesTo(t, Params) /\ Enough(t, subject.amount),
           NEW cents \in CryptoToUSDCents(MatchedAmount(tx, Params, subject.amount), rate)
    PROVE  DepositRow(tx, cents).status = "verified" /\ Paid(DepositRow(tx, cents))
<1> DEFINE amount == MatchedAmount(tx, Params, subject.amount)
           from == GetFromAddress(tx, Params)
           row == DepositRow(tx, cents)
<1>1. SubjectOK
      BY SubjectIsTyped
<1>2. /\ amount \in Nat /\ amount >= subject.amount
      /\ \E t \in Moved(tx) : t.amount = amount
      BY <1>1, MatchedAmountIsMoved DEF SubjectOK, Moved
<1>3. from \in Text
      BY FromAddressIsSender
<1>4. rate \in Nat
      BY RatesAssumption
<1>5. cents \in Int /\ IsWorth(amount, rate, cents)
      BY <1>2, <1>4, CentsAreClose
<1>6. subject.address # "" =>
          \E t \in Range(TransfersOf(tx, Params)) : t.from = from
      <2>1. \E t \in Range(TransfersOf(tx, Params)) : t.to = subject.address
            BY DEF GoesTo, Params
      <2> QED
          BY <2>1, FromAddressIsSender
<1> HIDE DEF amount, from
<1>7. row = [session |-> subject.id, withdrawal |-> "", chain |-> subject.chain,
             network |-> subject.network, hash |-> tx.signature, from |-> from,
             to |-> subject.address, amount |-> amount, cents |-> cents,
             rate |-> rate, time |-> tx.timestamp, status |-> "verified",
             type |-> subject.type, processor |-> "internal", metadata |-> tx]
      <2> DEFINE common == Row(tx)
      <2>1. common = Fields(tx)
            BY DEF Row, Fields
      <2>2. row = [common EXCEPT !.session = subject.id, !.from = from,
                                 !.amount = amount, !.cents = cents]
            BY DEF DepositRow, amount, from
      <2> HIDE DEF common
      <2> QED
          BY <2>1, <2>2 DEF Fields
<1> HIDE DEF row
<1>8. tx.signature \in STRING /\ tx.timestamp \in Nat
      BY DEF HeliusTransactions
<1>9. row \in Rows
      BY <1>1, <1>2, <1>3, <1>4, <1>5, <1>7, <1>8
         DEF Rows, Transactions, SubjectOK, IsDeposit, Text, Statuses, Types, Processors
<1>10. row.status = "verified" /\ row.chain = subject.chain
       /\ row.hash = tx.signature /\ row.metadata = tx /\ row.amount = amount
       /\ row.to = subject.address /\ row.from = from /\ row.rate = rate
       /\ row.cents = cents
       BY <1>7
<1>11. Paid(row)
       <2>1. \E t \in Moved(tx) : t.amount >= amount
             BY <1>2
       <2> QED
           BY <1>2, <1>5, <1>6, <1>9, <1>10, <2>1 DEF Paid
<1> QED
    BY <1>10, <1>11 DEF row

\* A withdrawal's draft is of the one transaction that was asked for.
LEMMA WithdrawalRowIsPaid ==
    ASSUME StepsInv, ~IsDeposit, NEW tx \in HeliusTransactions,
           Pays(tx, Params, subject.amount)
    PROVE  WithdrawalRow(tx).status = "verified" /\ Paid(WithdrawalRow(tx))
<1> DEFINE row == WithdrawalRow(tx)
<1>1. SubjectOK
      BY SubjectIsTyped
<1>2. row = [session |-> "", withdrawal |-> subject.id, chain |-> subject.chain,
             network |-> subject.network, hash |-> tx.signature,
             from |-> subject.source, to |-> subject.address,
             amount |-> subject.amount, cents |-> subject.cents,
             rate |-> subject.rate, time |-> tx.timestamp, status |-> "verified",
             type |-> subject.type, processor |-> "internal", metadata |-> tx]
      <2> DEFINE common == Row(tx)
      <2>1. common = Fields(tx)
            BY DEF Row, Fields
      <2>2. row = [common EXCEPT !.withdrawal = subject.id, !.from = subject.source,
                                 !.cents = subject.cents, !.rate = subject.rate]
            BY DEF WithdrawalRow
      <2> HIDE DEF common
      <2> QED
          BY <2>1, <2>2 DEF Fields
<1> HIDE DEF row
<1>3. tx.signature \in STRING /\ tx.timestamp \in Nat
      BY DEF HeliusTransactions
<1>4. row \in Rows
      <2>1. /\ subject.type = "withdrawal" /\ subject.source \in STRING
            /\ subject.amount \in Nat /\ subject.cents \in Nat /\ subject.rate \in Nat
            /\ subject.id \in STRING /\ subject.chain \in STRING
            /\ subject.network \in STRING /\ subject.address \in STRING
            BY <1>1 DEF SubjectOK
      <2>2. subject.cents \in Int
            BY <2>1
      <2> QED
          BY <1>2, <1>3, <2>1, <2>2
             DEF Rows, Transactions, Text, Statuses, Types, Processors
<1>5. row.status = "verified" /\ row.chain = subject.chain
      /\ row.hash = tx.signature /\ row.metadata = tx /\ row.amount = subject.amount
      BY <1>2
<1>6. tx.type = "TRANSFER" /\ \E t \in Moved(tx) : t.amount >= subject.amount
      BY DEF Pays, Moved
<1>7. Paid(row)
      <2>1. row.amount >= subject.amount
            BY <1>1, <1>5 DEF SubjectOK
      <2>2. \E t \in Moved(row.metadata) : t.amount >= row.amount
            BY <1>5, <1>6
      <2>3. /\ row.chain = subject.chain
            /\ row.hash = row.metadata.signature /\ row.metadata.type = "TRANSFER"
            BY <1>5, <1>6
      <2> QED
          BY <1>4, <2>1, <2>2, <2>3, Zenon DEF Paid
<1> QED
    BY <1>5, <1>7 DEF row

-----------------------------------------------------------------------------
(* The goroutine.                                                           *)

LEMMA InitSteps == RecordingInit => StepsInv /\ TableInv
<1> SUFFICES ASSUME RecordingInit PROVE StepsInv /\ TableInv
    OBVIOUS
<1>1. StepsInv
      BY DEF RecordingInit, StepsInv, Steps
<1>2. transactions = <<>>
      BY DEF RecordingInit
<1>3. TableInv
      BY <1>2 DEF TableInv, Ids
<1> QED
    BY <1>1, <1>3

\* An answer without an error is one in which the payment was found.
LEMMA VerifySteps ==
    ASSUME RateInv, StepsInv, Verify
    PROVE  StepsInv'
<1>1. PICK answer \in Answers, history \in Histories :
        LET list == GetSignaturesForAddress(history)
            err == Result(answer, list)
        IN
        /\ recPc = "verify"
        /\ IF err = "none"
             THEN Goto("match") /\ listing' = list /\ tries' = 0
             ELSE /\ IF IsTransientError(err) /\ tries < MaxAttempts
                       THEN UNCHANGED recPc /\ tries' = tries + 1
                       ELSE Goto("givenBack") /\ tries' = 0
                  /\ UNCHANGED listing
        /\ UNCHANGED <<rateVars, transactions, subject, slack, draft>>
      BY DEF Verify
<1> DEFINE list == GetSignaturesForAddress(history)
           err == Result(answer, list)
<1>2. list \in Seq(HeliusTransactions)
      <2>1. history \in Seq(HeliusTransactions)
            BY RecordingAssumption
      <2> DEFINE n == IF Len(history) < ListLimit THEN Len(history) ELSE ListLimit
      <2>2. n \in 0..Len(history)
            BY <2>1, MatchingAssumption
      <2> HIDE DEF n
      <2>3. SubSeq(history, 1, n) \in Seq(HeliusTransactions)
            BY <2>1, <2>2, SubSeqProperties
      <2> QED
          BY <2>3 DEF GetSignaturesForAddress, n
<1> HIDE DEF list
<1>3. UNCHANGED <<subject, slack, draft, rate>>
      BY <1>1 DEF rateVars
<1>4. CASE err = "none"
      <2>1. recPc = "verify" /\ recPc' = "match" /\ listing' = list /\ tries' = 0
            BY <1>1, <1>4 DEF Goto, list
      <2>2. Found'
            <3>1. CASE IsDeposit
                  <4>1. \E tx \in Range(list) :
                           Pays(tx, Params, RequiredAmount(subject.amount, Params, slack))
                        BY <1>4, <3>1 DEF Result, VerifyDeposit
                  <4>2. IsDeposit'
                        BY <1>3, <3>1 DEF IsDeposit
                  <4>3. Params' = Params
                        BY <1>3 DEF Params
                  <4>4. listing' = list /\ subject' = subject /\ slack' = slack
                        BY <1>3, <2>1
                  <4> QED
                      BY <4>1, <4>2, <4>3, <4>4 DEF Found
            <3>2. CASE ~IsDeposit
                  <4>1. list # <<>> /\ Pays(Head(list), Params, subject.amount)
                        BY <1>4, <3>2 DEF Result, VerifyWithdrawal
                  <4>2. Head(list) = list[1]
                        BY <1>2, <4>1
                  <4>3. ~IsDeposit'
                        BY <1>3, <3>2 DEF IsDeposit
                  <4>4. Params' = Params
                        BY <1>3 DEF Params
                  <4>5. listing' = list /\ subject' = subject
                        BY <1>3, <2>1
                  <4> QED
                      BY <4>1, <4>2, <4>3, <4>4, <4>5 DEF Found
            <3> QED
                BY <3>1, <3>2
      <2> QED
          BY <1>2, <1>3, <2>1, <2>2 DEF StepsInv, Steps, IsDeposit
<1>5. CASE err # "none"
      <2>1. /\ recPc' \in {"verify", "givenBack"} /\ recPc = "verify"
            /\ tries' \in Nat /\ listing' = listing
            BY <1>1, <1>5 DEF Goto, StepsInv, list
      <2> QED
          BY <1>3, <2>1 DEF StepsInv, Steps, IsDeposit
<1> QED
    BY <1>4, <1>5

LEMMA MatchSteps ==
    ASSUME StepsInv, Match
    PROVE  StepsInv'
<1> DEFINE found == IF IsDeposit THEN Matching(listing, Params, subject.amount)
                    ELSE DOMAIN listing
           i == Min(found)
           tx == listing[i]
<1>1. /\ recPc = "match" /\ listing' = <<>>
      /\ UNCHANGED <<rate, subject, slack, tries>>
      BY DEF Match, rateVars
<1>2. \/ recPc' \in {"over", "givenBack"}
      \/ /\ recPc' = "create" /\ found # {}
         /\ IF IsDeposit
              THEN \E cents \in CryptoToUSDCents(
                                  MatchedAmount(tx, Params, subject.amount), rate) :
                       draft' = DepositRow(tx, cents)
              ELSE draft' = WithdrawalRow(tx)
      BY DEF Match, Goto
<1>3. ASSUME recPc' = "create"
      PROVE  (draft.status = "verified" /\ Paid(draft))'
      <2>1. listing \in Seq(HeliusTransactions) /\ Found
            BY <1>1 DEF StepsInv
      <2>2. found \subseteq DOMAIN listing /\ DOMAIN listing \subseteq Nat
            BY <2>1 DEF Matching
      <2>3. i \in found
            BY <1>2, <1>3, <2>2, MinIsThere
      <2>4. tx \in HeliusTransactions
            BY <2>1, <2>2, <2>3
      <2>5. ASSUME NEW row, draft' = row, row.status = "verified", Paid(row)
            PROVE  (draft.status = "verified" /\ Paid(draft))'
            <3>1. Paid(row)'
                  BY <1>1, <2>5, PaidStays
            <3> QED
                BY <2>5, <3>1
      <2>6. CASE IsDeposit
            <3>1. /\ tx.type = "TRANSFER"
                  /\ \E t \in Range(TransfersOf(tx, Params)) :
                        GoesTo(t, Params) /\ Enough(t, subject.amount)
                  BY <2>3, <2>6 DEF Matching
            <3>2. rate \in Prices
                  BY <1>1, <2>6 DEF StepsInv
            <3> HIDE DEF tx
            <3>3. PICK cents \in CryptoToUSDCents(
                                      MatchedAmount(tx, Params, subject.amount), rate) :
                          draft' = DepositRow(tx, cents)
                  BY <1>2, <1>3, <2>6
            <3>4. /\ DepositRow(tx, cents).status = "verified"
                  /\ Paid(DepositRow(tx, cents))
                  BY <2>4, <2>6, <3>1, <3>2, DepositRowIsPaid
            <3> QED
                BY <2>5, <3>3, <3>4
      <2>7. CASE ~IsDeposit
            <3>1. Pays(tx, Params, subject.amount)
                  <4>1. listing # <<>> /\ Pays(listing[1], Params, subject.amount)
                        BY <2>1, <2>7 DEF Found
                  <4>2. i = 1
                        <5>1. found = 1..Len(listing)
                              BY <2>1, <2>7
                        <5>2. i \in found /\ \A j \in found : i =< j
                              BY <1>2, <1>3, <2>2, MinIsThere
                        <5> QED
                            BY <5>1, <5>2
                  <4> QED
                      BY <4>1, <4>2
            <3> HIDE DEF tx
            <3>2. WithdrawalRow(tx).status = "verified" /\ Paid(WithdrawalRow(tx))
                  BY <2>4, <2>7, <3>1, WithdrawalRowIsPaid
            <3>3. draft' = WithdrawalRow(tx)
                  BY <1>2, <1>3, <2>7
            <3> QED
                BY <2>5, <3>2, <3>3
      <2> QED
          BY <2>6, <2>7
<1>4. listing' \in Seq(HeliusTransactions)
      BY <1>1
<1> HIDE DEF found, tx
<1> QED
    BY <1>1, <1>2, <1>3, <1>4 DEF StepsInv, Steps

LEMMA StepsInvStep ==
    ASSUME RateInv, StepsInv, TableInv, [RecordingNext]_recordingVars
    PROVE  StepsInv'
<1>1. CASE Check
      BY <1>1 DEF Check, Goto, StepsInv, Steps, IsDeposit
<1>2. CASE AskRate
      <2>1. recPc = "rate" /\ UNCHANGED recordVars
            BY <1>2 DEF AskRate
      <2> QED
          BY <2>1 DEF recordVars, StepsInv, Steps
<1>3. CASE HaveRate
      BY <1>3 DEF HaveRate, Goto, RateInv, StepsInv, Steps, IsDeposit
<1>4. CASE Verify
      BY <1>4, VerifySteps
<1>5. CASE Match
      BY <1>5, MatchSteps
<1>6. CASE Record
      BY <1>6 DEF Record, Goto, StepsInv, Steps
<1>7. CASE ClaimAgain
      BY <1>7 DEF ClaimAgain, Goto, StepsInv, Steps
<1>8. CASE UNCHANGED recordingVars
      <2>1. UNCHANGED <<rate, subject, slack, recPc, tries, listing, draft>>
            BY <1>8 DEF recordingVars, recordVars, rateVars
      <2>2. Found => Found'
            BY <2>1 DEF Found, IsDeposit, Params
      <2>3. Paid(draft) => Paid(draft)'
            BY <2>1 DEF Paid, Moved, Params, IsDeposit
      <2> QED
          BY <2>1, <2>2, <2>3 DEF StepsInv, IsDeposit
<1> QED
    BY <1>1, <1>2, <1>3, <1>4, <1>5, <1>6, <1>7, <1>8 DEF RecordingNext

LEMMA TableInvStep ==
    ASSUME StepsInv, TableInv, [RecordingNext]_recordingVars
    PROVE  TableInv'
<1>1. UNCHANGED <<subject, slack>>
      BY SubjectStays
<1>2. transactions \in Seq(Rows)
      BY DEF TableInv
<1>3. CASE transactions' = transactions
      <2>1. ASSUME NEW id \in Ids
            PROVE  Paid(transactions[id])'
            <3>1. PICK row : transactions[id] = row /\ Paid(row)
                  BY <2>1 DEF TableInv
            <3>2. Paid(row)'
                  BY <1>1, <3>1, PaidStays
            <3>3. transactions[id]' = row
                  BY <1>3, <3>1
            <3> QED
                BY <3>2, <3>3
      <2> QED
          BY <1>3, <2>1 DEF TableInv, Ids, Accepted
<1>4. CASE /\ recPc = "create" /\ Accepted(draft)
           /\ transactions' = Append(transactions, draft)
      <2>1. draft.status = "verified" /\ Paid(draft) /\ draft \in Rows
            BY <1>4 DEF StepsInv, Paid
      <2>2. transactions' \in Seq(Rows) /\ Len(transactions') = Len(transactions) + 1
            BY <1>2, <1>4, <2>1
      <2>3. ASSUME NEW id \in DOMAIN transactions'
            PROVE  \E row : /\ transactions'[id] = row /\ Accepted(row)
                            /\ row.status = "verified" /\ Paid(row)
            <3>1. CASE id = Len(transactions) + 1
                  <4>1. transactions'[id] = draft
                        BY <1>2, <1>4, <2>1, <3>1
                  <4> QED
                      BY <1>4, <2>1, <4>1
            <3>2. CASE id # Len(transactions) + 1
                  <4>1. id \in DOMAIN transactions
                        BY <1>2, <2>2, <3>2
                  <4>2. transactions'[id] = transactions[id]
                        BY <1>2, <1>4, <2>1, <4>1
                  <4> QED
                      BY <4>1, <4>2 DEF TableInv, Ids
            <3> QED
                BY <3>1, <3>2
      <2>4. ASSUME NEW id \in DOMAIN transactions'
            PROVE  (Accepted(transactions[id]) /\ transactions[id].status = "verified"
                       /\ Paid(transactions[id]))'
            <3>1. PICK row : /\ transactions'[id] = row /\ Accepted(row)
                             /\ row.status = "verified" /\ Paid(row)
                  BY <2>3
            <3>2. Paid(row)'
                  BY <1>1, <3>1, PaidStays
            <3> QED
                BY <3>1, <3>2 DEF Accepted
      <2> QED
          BY <2>2, <2>4 DEF TableInv, Ids
<1> QED
    BY <1>3, <1>4, TableStep

LEMMA AlwaysRecording == RecordingSpec => []RecordingInv
<1>1. RecordingInit => RecordingInv
      BY InitRate, InitSteps DEF RecordingInv
<1>2. RecordingInv /\ [RecordingNext]_recordingVars => RecordingInv'
      BY RateInvStep, StepsInvStep, TableInvStep DEF RecordingInv
<1> QED
    BY <1>1, <1>2, PTL DEF RecordingSpec

-----------------------------------------------------------------------------
(* The properties.                                                          *)

\* Every row that was recorded is backed by the transaction it names, which
\* moved its amount, and no less than was asked for, to the address of the
\* session or withdrawal; a deposit's row has the value of that transfer, in the
\* cents nearest to a product that floating-point numbers may have come to.
\* This holds for every amount, rate and list of transactions.
THEOREM RowsArePaidCorrect == RecordingSpec => []RowsArePaid
<1>1. RecordingInv => RowsArePaid
      <2> SUFFICES ASSUME RecordingInv, NEW row \in Range(transactions)
                   PROVE  IsPaid(row)
          BY DEF RowsArePaid
      <2>1. Paid(row) /\ row.to # ""
            BY DEF RecordingInv, TableInv, Ids, Range, Accepted
      <2> DEFINE tx == row.metadata
                 moved == {t \in Range(IF subject.crypto = "SOL" THEN tx.native ELSE tx.tokens) :
                              /\ t.to = subject.address
                              /\ subject.crypto # "SOL" =>
                                     t.mint = Mints[ClusterOf[row.chain]][subject.crypto]}
      <2>2. Params.token = subject.crypto /\ Params.address = subject.address
            /\ Params.cluster = ClusterOf[subject.chain]
            BY DEF Params
      <2>3. row.chain = subject.chain
            BY <2>1 DEF Paid
      <2>4. moved = Moved(tx)
            BY <2>2, <2>3 DEF Moved, TransfersOf, GoesTo, GetMintAddress
      <2>5. Range(TransfersOf(tx, Params)) \subseteq Range(tx.native) \cup Range(tx.tokens)
            BY DEF TransfersOf
      <2> QED
          BY <2>1, <2>4, <2>5 DEF IsPaid, Paid, Rows
<1> QED
    BY <1>1, AlwaysRecording, PTL

\* VerifyDeposit and processVerifiedDeposit disagree about an answer only where
\* a transfer is short of the session's amount by no more than one base unit,
\* whatever the amount and however the product that is cut off was rounded.
THEOREM MismatchIsTruncationCorrect == RecordingSpec => []MismatchIsTruncation
<1>1. RecordingInv => MismatchIsTruncation
      <2> SUFFICES ASSUME RecordingInv, recPc = "match", IsDeposit,
                          Matching(listing, Params, subject.amount) = {}
                   PROVE  \E tx \in Range(listing) : \E t \in Range(TransfersOf(tx, Params)) :
                              /\ t.to = subject.address
                              /\ t.amount < subject.amount
                              /\ t.amount >= subject.amount
                                     - Fractions[GetDecimals(Params.cluster, Params.token)]
          BY DEF MismatchIsTruncation
      <2> DEFINE unit == Fractions[GetDecimals(Params.cluster, Params.token)]
                 required == RequiredAmount(subject.amount, Params, slack)
      <2>1. subject.amount \in Nat /\ slack \in 0..1 /\ listing \in Seq(HeliusTransactions)
            BY SubjectIsTyped DEF RecordingInv, StepsInv, SubjectOK
      <2>2. PICK tx \in Range(listing) : Pays(tx, Params, required)
            BY DEF RecordingInv, StepsInv, Found
      <2>3. PICK t \in Range(TransfersOf(tx, Params)) :
                GoesTo(t, Params) /\ t.amount >= required
            BY <2>2 DEF Pays
      <2>4. tx \in HeliusTransactions
            BY <2>1, <2>2 DEF Range
      <2>5. t.amount \in Nat
            <3>1. TransfersOf(tx, Params) \in Seq(Transfers)
                  BY <2>4, TransfersAreTyped
            <3>2. t \in Transfers
                  BY <3>1 DEF Range
            <3> QED
                BY <3>2 DEF Transfers
      <2>6. ~ Enough(t, subject.amount)
            BY <2>2, <2>3 DEF Matching, Range, Pays
      <2>7. t.amount < subject.amount
            BY <2>1, <2>5, <2>6 DEF Enough
      <2>8. unit \in Nat /\ required \in Int /\ required >= subject.amount - unit
            BY <2>1, RequiredIsClose
      <2> HIDE DEF unit, required
      <2>9. t.amount >= subject.amount - unit
            BY <2>1, <2>3, <2>5, <2>8
      <2> QED
          BY <2>2, <2>3, <2>7, <2>9 DEF GoesTo, Params, unit
<1> QED
    BY <1>1, AlwaysRecording, PTL
=============================================================================
