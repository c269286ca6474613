-------------------------- MODULE ExchangeRates --------------------------
(***************************************************************************)
(* The exchange-rate client: one call of GetExchangeRate, which asks the   *)
(* API of CoinCap for the price of a currency and repeats the request a    *)
(* few times when it times out or the service is busy, after a wait that   *)
(* calculateBackoff computes with ^.  In Go that is exclusive-or, not a    *)
(* power, so that the waits do not grow as the name suggests.              *)
(***************************************************************************)
EXTENDS Integers, Sequences

CONSTANTS
    ExclusiveOr(_, _),  \* ^ of Go
    Prices,        \* prices the service may report, per unit of currency
    MaxRetries,    \* config max_retries
    BackoffBases   \* values the configuration may give retry_backoff_base

NoPrice == -1

ASSUME RatesAssumption ==
    /\ Prices \subseteq Nat
    /\ MaxRetries \in Nat
    /\ BackoffBases \subseteq Int

\* calculateBackoff takes 2 for a base that is not positive.
Base(b) == IF b <= 0 THEN 2 ELSE b

\* Of the digits of ^ only this matters: they are all zero for equal numbers.
ASSUME ExclusiveOrAssumption ==
    \A b \in BackoffBases, a \in 0..MaxRetries :
        /\ ExclusiveOr(Base(b), a) \in Nat
        /\ ExclusiveOr(Base(b), a) = 0 <=> Base(b) = a

VARIABLES
    base,     \* retry_backoff_base of this process
    ratePc,   \* where the call is
    attempt,  \* its recursion depth
    rate,     \* what it returns
    waits     \* history: seconds slept before each of its requests but the first

rateVars == <<base, ratePc, attempt, rate, waits>>

-----------------------------------------------------------------------------
(* Seeded defects: how the decisions below could plausibly go wrong.  They  *)
(* are not part of the model; each shows that a property notices it.        *)

ShiftForXor(a, b) == b \div 2^a

-----------------------------------------------------------------------------
(* The decisions, by name.                                                  *)

\* What can become of a request: an error of the connection, a status other
\* than 200, or a body, which may be cut off, no JSON or without a number.
Outcomes == {"timeout", "refused", "busy", "unknown", "cutOff", "noNumber", "price"}

ShouldRetry(outcome) == outcome = "timeout"
ShouldRetryStatusCode(outcome) == outcome = "busy"

Raw(a, b) == ExclusiveOr(b, a)

CalculateBackoff(a, b) ==
    LET seconds == Raw(a, Base(b))
    IN  IF seconds > 30 THEN 30 ELSE seconds

-----------------------------------------------------------------------------
(* The call.                                                                *)

RatesInit ==
    /\ base \in BackoffBases
    /\ ratePc = "idle" /\ attempt = 0
    /\ rate = NoPrice
    /\ waits = <<>>

GetExchangeRate ==
    /\ ratePc = "idle"
    /\ ratePc' = "request"
    /\ UNCHANGED <<base, attempt, rate, waits>>

\* The request is worth another one, and there is one left.
RetryAfter(outcome) ==
    /\ ratePc = "request"
    /\ ShouldRetry(outcome) \/ ShouldRetryStatusCode(outcome)
    /\ attempt < MaxRetries
    /\ waits' = Append(waits, CalculateBackoff(attempt, base))
    /\ ratePc' = "asleep"
    /\ UNCHANGED <<base, attempt, rate>>

Wake ==
    /\ ratePc = "asleep"
    /\ attempt' = attempt + 1
    /\ ratePc' = "request"
    /\ UNCHANGED <<base, rate, waits>>

\* An error is final; of a bad answer the body goes into the message.
HandleErrorResponse(outcome) ==
    /\ ratePc = "request"
    /\ outcome # "price"
    /\ (ShouldRetry(outcome) \/ ShouldRetryStatusCode(outcome)) => attempt >= MaxRetries
    /\ ratePc' = "failed"
    /\ UNCHANGED <<base, attempt, rate, waits>>

ParseCoinCapResponse ==
    /\ ratePc = "request"
    /\ rate' \in Prices
    /\ ratePc' = "got"
    /\ UNCHANGED <<base, attempt, waits>>

RateStep ==
    \/ GetExchangeRate \/ Wake \/ ParseCoinCapResponse
    \/ \E outcome \in Outcomes : RetryAfter(outcome) \/ HandleErrorResponse(outcome)
=============================================================================
