------------------------------ MODULE Poller ------------------------------
(***************************************************************************)
(* The poller and what its ticks leave running: PendingScan walks over the *)
(* tables while the pool of an earlier tick (WorkerPool) is still at its   *)
(* batch and other services make rows.  StartTransactionVerification waits *)
(* for none of them.                                                       *)
(*                                                                         *)
(* A goroutine is looked at only for what the walk can see of it: it       *)
(* claims its row, which takes it out of 'pending', and ends it or gives   *)
(* it back.  The verification modules have the rest.  Nothing bounds how   *)
(* often a row is given back: an unpaid session is, on every tick.         *)
(***************************************************************************)
EXTENDS PendingScan, WorkerPool

CONSTANTS
    EarlierBatch, \* the rows of the pool, in order
    Arriving      \* rows that are made during the run

ASSUME PollerAssumption ==
    /\ EarlierBatch \in [Rows -> TableRows]
    /\ Arriving \subseteq TableRows

VARIABLES
    stage,   \* goroutine of the pool -> "none", "begun" or "claimed"
    claimed  \* rows that goroutines of later ticks have claimed

goVars == <<stage, claimed>>
pollerVars == <<scanVars, vars, goVars>>

PollerInit ==
    /\ status = [r \in TableRows |-> IF r \in Arriving THEN "absent" ELSE "pending"]
    /\ ScanInit
    /\ Init
    /\ stage = [g \in Rows |-> "none"]
    /\ claimed = {}

-----------------------------------------------------------------------------
(* A goroutine of the pool.                                                 *)

\* verifySolanaSession or verifySolanaWithdrawal returns.
Over(g) ==
    /\ Verified(g)
    /\ stage' = [stage EXCEPT ![g] = "none"]

At(g, where) == job[g] = "running" /\ stage[g] = where

\* The row is read: nothing is done to one that is not pending any more.
NoLongerPending(g) ==
    /\ At(g, "none") /\ status[EarlierBatch[g]] # "pending"
    /\ Over(g)
    /\ UNCHANGED <<scanVars, claimed>>

ReadRow(g) ==
    /\ At(g, "none") /\ status[EarlierBatch[g]] = "pending"
    /\ stage' = [stage EXCEPT ![g] = "begun"]
    /\ UNCHANGED <<scanVars, vars, claimed>>

SetStatus(r, to) ==
    /\ status' = [status EXCEPT ![r] = to]
    /\ Watch
    /\ UNCHANGED walkVars

\* The claim is committed, whatever became of the row since it was read.
ClaimRow(g) ==
    /\ At(g, "begun")
    /\ SetStatus(EarlierBatch[g], "processing")
    /\ stage' = [stage EXCEPT ![g] = "claimed"]
    /\ UNCHANGED <<vars, queued, claimed>>

\* The row is ended, or given back because there is nothing to see of it yet
\* or something failed.  One that is left in 'processing' is ended for the walk.
PutDown(g) ==
    /\ At(g, "claimed")
    /\ \E to \in {"ended", "pending"} : SetStatus(EarlierBatch[g], to)
    /\ Over(g)
    /\ UNCHANGED <<queued, claimed>>

GoroutineStep(g) ==
    \/ NoLongerPending(g) \/ ReadRow(g) \/ ClaimRow(g)
    \/ PutDown(g)
    \/ Release(g) /\ UNCHANGED <<scanVars, goVars>>

-----------------------------------------------------------------------------
(* The goroutines of later ticks, without the pool that paces them and with  *)
(* one for a row: the race of two for a row is that of the pool's with these.*)

\* Only such rows are handed to goroutines.
Verifiable(r) == Chain[r] = "solana" /\ r \notin Unsent

TakeUp(r) ==
    /\ r \in queued /\ status[r] = "pending"
    /\ SetStatus(r, "processing")
    /\ queued' = queued \ {r}
    /\ claimed' = claimed \cup {r}

FindTaken(r) ==
    /\ r \in queued /\ status[r] # "pending"
    /\ queued' = queued \ {r}
    /\ UNCHANGED <<status, walkVars, view, claimed>>

Finish(r) ==
    /\ r \in claimed
    /\ \E to \in {"ended", "pending"} : SetStatus(r, to)
    /\ claimed' = claimed \ {r}
    /\ UNCHANGED queued

LaterStep(r) ==
    /\ TakeUp(r) \/ FindTaken(r) \/ Finish(r)
    /\ UNCHANGED <<vars, stage>>

-----------------------------------------------------------------------------

WalkStep == Walk /\ UNCHANGED <<vars, goVars>>
BatchStep == Batch /\ UNCHANGED <<scanVars, goVars>>

Outside ==
    /\ \E r \in TableRows : Arrive(r)
    /\ UNCHANGED <<vars, goVars>>

PollerNext ==
    \/ WalkStep \/ BatchStep \/ Outside
    \/ \E g \in Rows : GoroutineStep(g)
    \/ \E r \in TableRows : LaterStep(r)

\* The ticker ticks and the poller's loop goes on, the batch and the goroutines
\* run.  Nobody has to make rows.
PollerSpec ==
    /\ PollerInit /\ [][PollerNext]_pollerVars
    /\ WF_pollerVars(WalkStep) /\ WF_pollerVars(BatchStep)
    /\ \A g \in Rows : WF_pollerVars(GoroutineStep(g))
    /\ \A r \in {r \in TableRows : Verifiable(r)} : WF_pollerVars(LaterStep(r))

-----------------------------------------------------------------------------
(* Properties.                                                              *)

\* A walk over the table of r is over, and no row left the result under it.
QuietWalk(r) == scanPc = "dispatch" /\ r \in RowsOf(table) /\ view.left = 0

\* A row that can be verified leaves 'pending' or is handed to a goroutine if
\* again and again a tick gets through its table without a row leaving under it:
\* whatever else moves, comes or is given back between ticks, and though a walk
\* may meet rows that enter.  (Without quiet ticks it may wait for ever: its
\* neighbours can be claimed and given back under every walk.)
QuietWalksReachAll ==
    \A r \in TableRows :
        Verifiable(r) =>
            ([]<>QuietWalk(r)
             => (status[r] = "pending" ~> (r \in queued \/ status[r] # "pending")))
=============================================================================
