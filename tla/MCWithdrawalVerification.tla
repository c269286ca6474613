---------------------- MODULE MCWithdrawalVerification ----------------------
(* Constants for the model-checking runs of WithdrawalVerification.         *)
EXTENDS WithdrawalVerification, TLC

CONSTANTS x1, x2, x3, x4, u1, w1, w2

OneOwner == x1 :> u1
OneAmount == x1 :> 2
OneReserved == x1 :> 3
OneChain == x1 :> "solana"
\* Enough for the reservation and two debits.
Rich == u1 :> 7
\* Enough for every debit that races and one fault can cause.
Plenty == u1 :> 13

SharedOwner == x1 :> u1 @@ x2 :> u1
SharedAmount == x1 :> 1 @@ x2 :> 2
SharedReserved == x1 :> 2 @@ x2 :> 2
SharedChain == x1 :> "solana" @@ x2 :> "solana"
SharedFunds == u1 :> 6

\* x2 is on Solana in an unknown currency, x3 and x4 on chains without a
\* processor.
AllOwner == [x \in Withdrawals |-> u1]
AllAmount == x1 :> 2 @@ x2 :> 1 @@ x3 :> 1 @@ x4 :> 1
AllReserved == x1 :> 3 @@ x2 :> 1 @@ x3 :> 1 @@ x4 :> 1
AllChain == x1 :> "solana" @@ x2 :> "solana" @@ x3 :> "pdm" @@ x4 :> "other"

\* The withdrawals of L are yet to be made; the others failed before.
Live(L) == \A x \in Withdrawals : status[x] = "absent" <=> x \in L

\* One withdrawal with every fault and a crash; and the three that nobody can
\* verify after the last fault and crash.
AloneWithFaults == Live({x1}) /\ faults = 0 /\ crashes = 0
Unverifiable == Live({x2, x3, x4}) /\ faults = MaxFaults /\ crashes = MaxCrashes

AllInit == Init /\ (AloneWithFaults \/ Unverifiable)
AllSpec == AllInit /\ [][Next]_vars

\* Nothing has failed before.
FreshInit == Init /\ Live(Withdrawals) /\ faults = 0
FreshSpec == FreshInit /\ [][Next]_vars
FreshFairSpec == FreshSpec /\ Fairness

\* Faults after which the next tick tries again, by the worker's giving the
\* withdrawal back or by the poller's finding it still pending.
Recoverable == {"fail", "helius", "create", "debit", "release", "complete"}
WorkerSymmetry == Permutations(Workers)
=============================================================================
