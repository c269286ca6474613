-------------------------- MODULE PaymentMatching --------------------------
(***************************************************************************)
(* How a payment is found in what Helius answers and what it is worth: the *)
(* Helius client (VerifyDeposit, VerifyWithdrawal and the lookups they     *)
(* need), the search that processVerifiedDeposit repeats in the answer,    *)
(* and the rounding to cents.                                              *)
(*                                                                         *)
(* An amount is a whole number of fractions, Fractions[d] of which make    *)
(* one base unit of a currency with d decimals: a session may ask for less *)
(* than a base unit, and the chain moves whole ones.  The code multiplies  *)
(* floating-point numbers: what a product comes to is any value near the   *)
(* exact one, both where VerifyDeposit's amount is cut off and where a     *)
(* value is rounded to cents.                                              *)
(***************************************************************************)
EXTENDS Integers, Sequences, SequencesExt

CONSTANTS
    BaseURLs,         \* clusters the configuration has a URL for
    Mints,            \* cluster -> token -> mint address, where configured
    Fractions,        \* decimals -> fractions in a base unit
    FractionsPerCent, \* fractions that are worth a cent at a rate of 1
    Error,            \* fractions by which a value in cents may be off the exact one
    ListLimit         \* transactions Helius lists for an address

Clusters == {"devnet", "testnet", "mainnet-beta"}

\* What Helius says of a transaction, as far as the code looks at it.  The rest
\* is decoded and never used, whether the transaction failed included.
Transfers == [from : STRING, to : STRING, amount : Nat, mint : STRING]
HeliusTransactions ==
    [signature : STRING, type : STRING, timestamp : Nat,
     native : Seq(Transfers), tokens : Seq(Transfers)]

ASSUME MatchingAssumption ==
    /\ BaseURLs \subseteq Clusters /\ DOMAIN Mints \subseteq Clusters
    /\ Fractions \in [{6, 9} -> Nat \ {0}]
    /\ FractionsPerCent \in Nat \ {0}
    /\ {Error, ListLimit} \subseteq Nat

-----------------------------------------------------------------------------
(* Seeded defects: how the decisions below could plausibly go wrong.  They  *)
(* are not part of the model; each shows that a property notices it.        *)

AnyMint(t, p) == t.to = p.address
MoreThan(t, least) == t.amount > least
Truncated(n, d) == n \div d

-----------------------------------------------------------------------------
(* Names of the configuration.                                              *)

\* mapCryptoToSPLTokenType knows these; everything else is an error.
TokenTypes == {"SOL", "USDC", "USDT"}

\* mapChainIDToClusterType.
ClusterOf ==
    [c \in {"sol-mainnet", "sol-testnet"} |->
        IF c = "sol-mainnet" THEN "mainnet-beta" ELSE "testnet"]

GetDecimals(cluster, token) ==
    IF token = "SOL" \/ cluster = "testnet" THEN 9 ELSE 6

\* The error of GetMintAddress, which is not asked for SOL.
MintError(p) ==
    IF p.token = "SOL" THEN "none"
    ELSE IF p.cluster \notin DOMAIN Mints THEN "noMints"
    ELSE IF p.token \notin DOMAIN Mints[p.cluster] THEN "noMint"
    ELSE "none"

GetMintAddress(p) == Mints[p.cluster][p.token]

\* isTransientError looks at the text of an error.  That a cluster has no mints
\* at all is not among the texts it knows, and neither is an address without a
\* payment: both are tried again.
IsTransientError(err) ==
    err \notin {"noBaseURL", "badRequest", "noJSON", "noMint"}

-----------------------------------------------------------------------------
(* Requests.                                                                *)

\* What becomes of a request: the list asked for, or an error.  "busy" is a
\* status of 429 or 5xx and "denied" one that is none of these and not 400 or 401.
Answers == {"none", "unreachable", "badRequest", "busy", "denied", "cutOff", "noJSON"}

Requested(cluster, answer) ==
    IF cluster \notin BaseURLs THEN "noBaseURL" ELSE answer

\* The newest transactions of an address, of which there may be more.
GetSignaturesForAddress(history) ==
    SubSeq(history, 1, IF Len(history) < ListLimit THEN Len(history) ELSE ListLimit)

-----------------------------------------------------------------------------
(* Transfers.                                                               *)

TransfersOf(tx, p) == IF p.token = "SOL" THEN tx.native ELSE tx.tokens

\* The transfer is of the currency and goes to the address asked for.
GoesTo(t, p) ==
    t.to = p.address /\ (p.token # "SOL" => t.mint = GetMintAddress(p))

Enough(t, least) == t.amount >= least

Pays(tx, p, least) ==
    /\ tx.type = "TRANSFER"
    /\ \E t \in Range(TransfersOf(tx, p)) : GoesTo(t, p) /\ t.amount >= least

\* The amount of a session in whole base units, cut off.  The product of two
\* floating-point numbers may fall short of a whole number by its last bit;
\* slack says whether it does.
RequiredAmount(amount, p, slack) ==
    LET unit == Fractions[GetDecimals(p.cluster, p.token)]
        short == IF amount % unit = 0 /\ amount >= unit THEN slack ELSE 0
    IN  unit * ((amount \div unit) - short)

\* The error VerifyDeposit returns, "none" when it has found a payment.
VerifyDeposit(p, required, answer, list) ==
    LET sent == Requested(p.cluster, answer)
    IN  IF sent # "none" THEN sent
        ELSE IF MintError(p) # "none" THEN MintError(p)
        ELSE IF \E tx \in Range(list) : Pays(tx, p, required) THEN "none"
        ELSE "noPayment"

\* VerifyWithdrawal asks for one hash and looks at the first answer.
VerifyWithdrawal(p, amount, answer, list) ==
    LET sent == Requested(p.cluster, answer)
    IN  IF sent # "none" THEN sent
        ELSE IF list = <<>> THEN "noTransaction"
        ELSE IF Head(list).type # "TRANSFER" THEN "notATransfer"
        ELSE IF MintError(p) # "none" THEN MintError(p)
        ELSE IF Pays(Head(list), p, amount) THEN "none"
        ELSE "noWithdrawal"

\* processVerifiedDeposit: where in the answer the transactions are that pay the
\* exact amount.  The first of them is taken, and in that the first such transfer.
Matching(list, p, amount) ==
    {i \in DOMAIN list :
        /\ list[i].type = "TRANSFER"
        /\ \E t \in Range(TransfersOf(list[i], p)) : GoesTo(t, p) /\ Enough(t, amount)}

MatchedAmount(tx, p, amount) ==
    LET transfers == TransfersOf(tx, p)
        enough == {i \in DOMAIN transfers :
                      GoesTo(transfers[i], p) /\ Enough(transfers[i], amount)}
    IN  transfers[Min(enough)].amount

\* The sender of the first transfer that names a recipient, which need not be
\* the transfer that matched.
GetFromAddress(tx, p) ==
    LET transfers == TransfersOf(tx, p)
        named == {i \in DOMAIN transfers : transfers[i].to # ""}
    IN  IF named = {} THEN "" ELSE transfers[Min(named)].from

-----------------------------------------------------------------------------
(* Cents.                                                                   *)

\* What the two multiplications of floating-point numbers in CryptoToUSDCents
\* and BankersRound may come to where the exact product is n.
Products(n) ==
    IF n = 0 THEN {0} ELSE (IF n > Error THEN n - Error ELSE 0)..(n + Error)

\* math.Round of a value n / d that is not negative.
RoundHalfAway(n, d) == (2 * n + d) \div (2 * d)

Distance(n, d, c) == IF n >= c * d THEN n - c * d ELSE c * d - n

\* From the product on nothing is lost: the difference of a float and the float
\* next to it that is whole is exact, and a half is one, too.
BankersRound(n, d) ==
    LET rounded == RoundHalfAway(n, d)
    IN  IF 2 * Distance(n, d, rounded) # d \/ rounded % 2 = 0
          THEN rounded ELSE rounded - 1

\* The cents an amount may be worth.
CryptoToUSDCents(amount, rate) ==
    {BankersRound(n, FractionsPerCent) : n \in Products(amount * rate)}
=============================================================================
