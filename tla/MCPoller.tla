----------------------------- MODULE MCPoller -----------------------------
(* Constants for the model-checking run of Poller.  Sessions: 1 has expired, *)
(* and both goroutines of the pool have it from before that; 2 arrives       *)
(* during the run.  Withdrawals, newest first: 7 has no hash yet, 6 belongs  *)
(* to a PDM chain, 5 has had no hash for so long that it is failed (which    *)
(* moves the next one up a place), and 4 is sent.                            *)
EXTENDS Poller

MCSessions == <<2, 1>>
MCWithdrawals == <<7, 6, 5, 4>>
MCChain == [r \in TableRows |-> IF r = 6 THEN "pdm" ELSE "solana"]
MCEarlierBatch == <<1, 1>>
=============================================================================
