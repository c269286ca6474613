---------------------------- MODULE WorkerPool ----------------------------
(***************************************************************************)
(* The pool of a batch, processSolanaSessions and, with the same code,     *)
(* processSolanaWithdrawals: a buffered channel is the semaphore.  The     *)
(* batch puts a token into it and starts a goroutine for each row, and a   *)
(* goroutine takes a token out when it has verified its row, whatever the  *)
(* outcome.  In the end the batch fills the channel itself, which it can   *)
(* only when no goroutine's token is left in it.                           *)
(*                                                                         *)
(* Every batch has a channel of its own, so that a module about one batch  *)
(* is about all of them.  What a goroutine does with its row is not looked *)
(* at here; DepositVerification and WithdrawalVerification are about that. *)
(***************************************************************************)
EXTENDS Naturals, FiniteSets

CONSTANTS
    Jobs,   \* number of rows of the batch
    Slots   \* maxWorkers

ASSUME PoolAssumption ==
    /\ Jobs \in Nat
    /\ Slots \in Nat \ {0}

VARIABLES
    pc,         \* where the batch is
    next,       \* the row that is started next
    semaphore,  \* tokens in the channel
    drained,    \* tokens the batch put into it in the end
    job         \* row -> where its goroutine is

vars == <<pc, next, semaphore, drained, job>>

Rows == 1..Jobs
Places == {"waiting", "running", "leaving", "gone"}

TypeOK ==
    /\ pc \in {"acquire", "start", "drain", "returned"}
    /\ next \in 1..(Jobs + 1)
    /\ semaphore \in 0..Slots
    /\ drained \in 0..Slots
    /\ job \in [Rows -> Places]

Init ==
    /\ pc = "acquire"
    /\ next = 1
    /\ semaphore = 0
    /\ drained = 0
    /\ job = [j \in Rows |-> "waiting"]

-----------------------------------------------------------------------------
(* Seeded defects: how the decisions below could plausibly go wrong.  They  *)
(* are not part of the model; each shows that a property notices it.        *)

OneTooMany(tokens) == tokens <= Slots
OneTooFew(n) == n = Slots - 1
KeepsToken(tokens) == tokens
NeverFull(n) == n > Slots

-----------------------------------------------------------------------------
(* The decisions, by name.                                                  *)

HasRoom(tokens) == tokens < Slots
Given(tokens) == tokens - 1
Full(n) == n = Slots

-----------------------------------------------------------------------------
(* The batch.                                                               *)

Acquire ==
    /\ pc = "acquire" /\ next \in Rows
    /\ HasRoom(semaphore)
    /\ semaphore' = semaphore + 1
    /\ pc' = "start"
    /\ UNCHANGED <<next, drained, job>>

Start ==
    /\ pc = "start"
    /\ job' = [job EXCEPT ![next] = "running"]
    /\ next' = next + 1
    /\ pc' = "acquire"
    /\ UNCHANGED <<semaphore, drained>>

EndLoop ==
    /\ pc = "acquire" /\ next \notin Rows
    /\ pc' = "drain"
    /\ UNCHANGED <<next, semaphore, drained, job>>

Drain ==
    /\ pc = "drain" /\ ~Full(drained)
    /\ HasRoom(semaphore)
    /\ semaphore' = semaphore + 1
    /\ drained' = drained + 1
    /\ UNCHANGED <<pc, next, job>>

Return ==
    /\ pc = "drain" /\ Full(drained)
    /\ pc' = "returned"
    /\ UNCHANGED <<next, semaphore, drained, job>>

Batch == Acquire \/ Start \/ EndLoop \/ Drain \/ Return

-----------------------------------------------------------------------------
(* The goroutine of row j.                                                  *)

\* verifySolanaSession returns, with an error or without.
Verified(j) ==
    /\ job[j] = "running"
    /\ job' = [job EXCEPT ![j] = "leaving"]
    /\ UNCHANGED <<pc, next, semaphore, drained>>

\* The deferred receive.
Release(j) ==
    /\ job[j] = "leaving" /\ semaphore > 0
    /\ semaphore' = Given(semaphore)
    /\ job' = [job EXCEPT ![j] = "gone"]
    /\ UNCHANGED <<pc, next, drained>>

Goroutine(j) == Verified(j) \/ Release(j)

Next == Batch \/ \E j \in Rows : Goroutine(j)

Spec == Init /\ [][Next]_vars

-----------------------------------------------------------------------------
(* Properties.                                                              *)

Owners == {j \in Rows : job[j] \in {"running", "leaving"}}

\* The channel holds one token for each goroutine that is not gone, one for
\* the row about to be started and those of the drain, and nothing else: no
\* token is lost or given back twice, and so the drain has to wait for every
\* goroutine and for nothing more.
SlotsAccounted ==
    semaphore = Cardinality(Owners) + drained + (IF pc = "start" THEN 1 ELSE 0)

\* The pool keeps what AbstractPool promises: every row verified once, in order,
\* no more than Slots at a time, and no return before the last one.
Pool == INSTANCE AbstractPool WITH
    waiting  <- {j \in Rows : job[j] = "waiting"},
    running  <- {j \in Rows : job[j] = "running"},
    finished <- {j \in Rows : job[j] \in {"leaving", "gone"}},
    returned <- pc = "returned"

ImplementsPool == Pool!Spec

\* The batch and its goroutines run, and a verification returns: its calls have
\* timeouts and its retries an end.
Fairness ==
    /\ WF_vars(Batch)
    /\ \A j \in Rows : WF_vars(Goroutine(j))

FairSpec == Spec /\ Fairness

\* The batch returns in the end, so that its goroutine does not wait in the
\* drain for ever.
BatchReturns == <>(pc = "returned")
=============================================================================
