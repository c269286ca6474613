----------------------- MODULE MCDepositVerification -----------------------
(* Constants for the model-checking runs of DepositVerification.            *)
EXTENDS DepositVerification, TLC

CONSTANTS s1, s2, s3, s4, s5, u1, w1, w2

OneOwner == s1 :> u1
OneCents == s1 :> 3
OneChain == s1 :> "solana"
OneTransfers == s1 :> {"short", "full"}
OneFullTransfer == s1 :> {"full"}

\* s3 is in a currency the service does not know, and s5 on a PDM chain, where
\* it stays in the pages of the poller.
AllOwner == [s \in Sessions |-> u1]
AllCents == s1 :> 3 @@ s2 :> 1 @@ s3 :> 1 @@ s4 :> 2 @@ s5 :> 1
AllChain == [s \in Sessions |-> IF s = s5 THEN "pdm" ELSE "solana"]
AllTransfers ==
    s1 :> {"short", "full"} @@ s2 :> {"full"} @@ s3 :> {} @@ s4 :> {"full"} @@ s5 :> {}

\* The sessions of L are pending and unpaid; the others ended before.
Live(L) ==
    /\ \A s \in Sessions : status[s] = "pending" <=> s \in L
    /\ \A s \in Sessions : paid[s] = IF s \in L THEN "none" ELSE "full"

\* One session with every fault and a crash; two of one user, and the two that
\* nobody can verify, after the last fault and crash.
Spent == faults = MaxFaults /\ crashes = MaxCrashes
AloneWithFaults == Live({s1}) /\ faults = 0 /\ crashes = 0
Together == Live({s2, s4}) /\ Spent
Unverifiable == Live({s3, s5}) /\ Spent

AllInit == Init /\ (AloneWithFaults \/ Together \/ Unverifiable)
AllSpec == AllInit /\ [][Next]_vars

\* Nothing was paid or has ended before.
FreshInit == Init /\ Live(Sessions) /\ faults = 0
FreshSpec == FreshInit /\ [][Next]_vars
FreshFairSpec == FreshSpec /\ Fairness

\* Faults after which the worker gives the session back.
Recoverable == {"load", "begin", "helius", "create", "getbal", "balance",
                "complete"}
WorkerSymmetry == Permutations(Workers)
=============================================================================
