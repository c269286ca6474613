--------------------- MODULE DepositVerificationProofs ---------------------
(***************************************************************************)
(* Proofs about DepositVerification, for any sets of sessions, users and   *)
(* workers and any bounds.                                                 *)
(***************************************************************************)
EXTENDS DepositVerification, FiniteSetTheorems, TLAPS

USE SessionsAssumption, BoundsAssumption

-----------------------------------------------------------------------------
(* Type correctness.                                                        *)

\* A worker has a session whenever it is not idle.
JobOK == \A w \in Workers : pc[w] # "idle" => job[w] \in Sessions

Typed == TypeOK /\ JobOK

LEMMA InitTyped == Init => Typed
BY DEF Init, Typed, TypeOK, JobOK, Statuses, Payments, Steps, FaultPoints

LEMMA PollerTyped == Typed /\ Poller => Typed'
<1> SUFFICES ASSUME Typed, Poller PROVE Typed'
    OBVIOUS
<1> USE DEF Typed, TypeOK, JobOK, dbVars, worldVars, workerVars, ghostVars,
        faultVars, pollerVars
<1>1. CASE LoadPage
      BY <1>1, SMTT(30) DEF LoadPage
<1>2. ASSUME NEW s \in Sessions, SkipRow(s) PROVE Typed'
      BY <1>2, SMTT(30) DEF SkipRow
<1>3. ASSUME NEW s \in Sessions, ExpireRow(s) PROVE Typed'
      BY <1>3, SMTT(30) DEF ExpireRow, Outcome, Strikes, Statuses
<1>4. ASSUME NEW s \in Sessions, BatchRow(s) PROVE Typed'
      BY <1>4, SMTT(30) DEF BatchRow
<1>5. CASE Dispatch
      BY <1>5, SMTT(30) DEF Dispatch, Answer, Strikes
<1> QED
    BY <1>1, <1>2, <1>3, <1>4, <1>5 DEF Poller

LEMMA WorkerTyped ==
    ASSUME Typed, NEW w \in Workers, Worker(w)
    PROVE  Typed'
<1> USE DEF Typed, TypeOK, JobOK, dbVars, worldVars, workerVars, ghostVars,
        faultVars, pollerVars, At, Go, Return, Outcome, Answer, Strikes,
        Statuses, Steps
<1>1. ASSUME NEW s \in Sessions, Begin(w, s) PROVE Typed'
      <2>1. faults' \in 0..MaxFaults /\ struck' \subseteq Faulty
            BY <1>1 DEF Begin
      <2>2. backlog' = [backlog EXCEPT ![s] = @ - 1] /\ backlog[s] > 0
            BY <1>1 DEF Begin
      <2>3. backlog' \in [Sessions -> 0..MaxBacklog]
            BY <2>2
      <2>4. /\ pc' \in [Workers -> Steps]
            /\ job' \in [Workers -> Sessions \cup {NoSession}]
            /\ seen' \in [Workers -> Statuses]
            /\ JobOK'
            BY <1>1, SMTT(30) DEF Begin
      <2>5. UNCHANGED <<dbVars, worldVars, pollerVars, attempt, read, notified,
                        crashes, ghostVars>>
            BY <1>1, SMTT(30) DEF Begin
      <2> QED
            BY <2>1, <2>3, <2>4, <2>5
<1>2. CASE Claim(w)
      BY <1>2, SMTT(30) DEF Claim
<1>3. CASE Check(w)
      BY <1>3, SMTT(30) DEF Check
<1>4. CASE VerifyFound(w)
      BY <1>4, SMTT(30) DEF VerifyFound
<1>5. CASE VerifyFailed(w)
      BY <1>5, SMTT(30) DEF VerifyFailed, RetriesLeft, AfterAttempts
<1>6. CASE Create(w)
      BY <1>6, SMTT(30) DEF Create, AfterCreate
<1>7. CASE GetBalance(w)
      BY <1>7, SMTT(30) DEF GetBalance
<1>8. CASE UpdateBalance(w)
      BY <1>8, SMTT(30) DEF UpdateBalance, NewAmount, AfterBalance
<1>9. CASE CompleteSession(w)
      BY <1>9, SMTT(30) DEF CompleteSession, FinalStatus
<1>10. CASE Announce(w)
      BY <1>10, SMTT(30) DEF Announce
<1>11. CASE Reset(w)
      BY <1>11, SMTT(30) DEF Reset, ResetStatus
<1> QED
    BY <1>1, <1>2, <1>3, <1>4, <1>5, <1>6, <1>7, <1>8, <1>9, <1>10, <1>11 DEF Worker

LEMMA TypedStep == Typed /\ [Next]_vars => Typed'
<1> SUFFICES ASSUME Typed, [Next]_vars PROVE Typed'
    OBVIOUS
<1>1. ASSUME NEW s \in Sessions, Pay(s) \/ Age(s) PROVE Typed'
      BY <1>1, TransfersAssumption
      DEF Pay, Age, Typed, TypeOK, JobOK, Payments, dbVars, worldVars,
                  workerVars, ghostVars, faultVars, pollerVars
<1>2. CASE Poller
      BY <1>2, PollerTyped
<1>3. ASSUME NEW w \in Workers, Worker(w) PROVE Typed'
      BY <1>3, WorkerTyped
<1>4. CASE Crash
      BY <1>4 DEF Crash, Typed, TypeOK, JobOK, Statuses, Steps, dbVars,
                  worldVars, ghostVars, faultVars
<1>5. CASE UNCHANGED vars
      BY <1>5 DEF vars, Typed, TypeOK, JobOK, dbVars, worldVars, workerVars,
                  ghostVars, faultVars, pollerVars
<1> QED
    BY <1>1, <1>2, <1>3, <1>4, <1>5 DEF Next

LEMMA AlwaysTyped == Spec => []Typed
BY InitTyped, TypedStep, PTL DEF Spec

\* Every variable keeps its type: in particular no worker tries more often
\* than MaxRetries allows and no balance becomes negative.
THEOREM TypeCorrect == Spec => []TypeOK
BY AlwaysTyped, PTL DEF Typed

-----------------------------------------------------------------------------
(* A session is credited once.  Unless it is in raced, the session has at   *)
(* most one holder and is not pending while it has one; unless it is in     *)
(* halfway too, a credited session is not pending and its only possible     *)
(* holder is about to complete it.                                          *)

Holds(w, s) == job[w] = s /\ pc[w] \in Holding

SeenOK == \A w \in Workers : pc[w] = "claim" => seen[w] = "pending"

LoneHolder ==
    \A s \in Sessions \ raced, v, w \in Workers :
        Holds(v, s) /\ Holds(w, s) => v = w

HeldNotPending ==
    \A s \in Sessions \ raced, w \in Workers :
        Holds(w, s) => status[s] # "pending"

CreditedOK ==
    \A s \in Sessions \ (raced \cup halfway) :
        /\ credits[s] <= 1
        /\ credits[s] = 1 =>
              /\ status[s] # "pending"
              /\ \A w \in Workers : Holds(w, s) => pc[w] = "complete"

OnceInv == SeenOK /\ LoneHolder /\ HeldNotPending /\ CreditedOK

LEMMA InitOnce == Init => OnceInv
BY DEF Init, OnceInv, SeenOK, LoneHolder, HeldNotPending, CreditedOK, Holds,
       Holding

LEMMA PollerOnce == Typed /\ OnceInv /\ Poller => OnceInv'
<1> SUFFICES ASSUME Typed, OnceInv, Poller PROVE OnceInv'
    OBVIOUS
<1> USE DEF Typed, TypeOK, OnceInv, SeenOK, LoneHolder, HeldNotPending,
        CreditedOK, Holds, dbVars, workerVars, ghostVars
<1>1. CASE LoadPage
      BY <1>1, SMTT(30) DEF LoadPage
<1>2. ASSUME NEW s \in Sessions, SkipRow(s) PROVE OnceInv'
      BY <1>2, SMTT(30) DEF SkipRow
<1>3. ASSUME NEW s \in Sessions, ExpireRow(s) PROVE OnceInv'
      BY <1>3, SMTT(30) DEF ExpireRow
<1>4. ASSUME NEW s \in Sessions, BatchRow(s) PROVE OnceInv'
      BY <1>4, SMTT(30) DEF BatchRow
<1>5. CASE Dispatch
      BY <1>5, SMTT(30) DEF Dispatch
<1> QED
    BY <1>1, <1>2, <1>3, <1>4, <1>5 DEF Poller

\* The steps of a worker that change neither status nor credits keep the
\* invariant because they add no holder.
LEMMA QuietOnce ==
    ASSUME Typed, OnceInv, NEW w \in Workers, NEW step \in Steps \ {"claim"},
           pc[w] \in (Holding \cup {"announce"}) \ {"complete"},
           pc' = [pc EXCEPT ![w] = step],
           pc[w] = "announce" => step = "idle",
           \/ UNCHANGED <<job, seen>>
           \/ /\ step = "idle"
              /\ job' = [job EXCEPT ![w] = NoSession]
              /\ seen' = [seen EXCEPT ![w] = "pending"],
           UNCHANGED <<status, credits, raced, halfway>>
    PROVE  OnceInv'
<1>1. \A v \in Workers, s \in Sessions : Holds(v, s)' => Holds(v, s)
      BY DEF Holds, Holding, Typed, TypeOK
<1>2. SeenOK'
      BY DEF Typed, TypeOK, OnceInv, SeenOK
<1>3. LoneHolder' /\ HeldNotPending'
      BY <1>1 DEF OnceInv, LoneHolder, HeldNotPending
<1>4. ASSUME NEW s \in Sessions \ (raced \cup halfway), credits[s] = 1,
             NEW v \in Workers, Holds(v, s)'
      PROVE  pc'[v] = "complete"
      <2>1. pc[v] = "complete"
            BY <1>1, <1>4 DEF OnceInv, CreditedOK
      <2> QED
          BY <2>1 DEF Typed, TypeOK
<1>5. CreditedOK'
      BY <1>4 DEF OnceInv, CreditedOK
<1> QED
    BY <1>2, <1>3, <1>5 DEF OnceInv

LEMMA BeginOnce ==
    ASSUME Typed, OnceInv, NEW w \in Workers, NEW s \in Sessions, Begin(w, s)
    PROVE  OnceInv'
<1> USE DEF Begin, At, Go, StillPending, dbVars, ghostVars
<1>1. \A v \in Workers, r \in Sessions : Holds(v, r)' <=> Holds(v, r)
      BY DEF Holds, Holding, Typed, TypeOK
<1>2. SeenOK'
      BY DEF Typed, TypeOK, OnceInv, SeenOK
<1>3. LoneHolder' /\ HeldNotPending'
      BY <1>1 DEF OnceInv, LoneHolder, HeldNotPending
<1>4. \A v \in Workers, r \in Sessions : Holds(v, r) => pc'[v] = pc[v]
      BY DEF Holds, Holding, Typed, TypeOK
<1>5. CreditedOK'
      BY <1>1, <1>4 DEF OnceInv, CreditedOK
<1> QED
    BY <1>2, <1>3, <1>5 DEF OnceInv

LEMMA ClaimOnce ==
    ASSUME Typed, OnceInv, NEW w \in Workers, Claim(w)
    PROVE  OnceInv'
<1> DEFINE s == job[w]
<1> USE DEF Claim, At, Go, Return, Outcome, Statuses
<1>1. s \in Sessions /\ seen[w] = "pending"
      BY DEF Typed, JobOK, OnceInv, SeenOK
<1>2. \A v \in Workers \ {w}, r \in Sessions :
          (Holds(v, r)' <=> Holds(v, r)) /\ pc'[v] = pc[v]
      BY DEF Holds, Typed, TypeOK
<1>3. \A r \in Sessions : Holds(w, r)' => r = s /\ status'[r] = "processing"
      BY <1>1 DEF Holds, Holding, Typed, TypeOK
<1>4. \A r \in Sessions : ~Holds(w, r)
      BY DEF Holds, Holding
<1>5. status' = [status EXCEPT ![s] = "processing"] \/ status' = status
      OBVIOUS
<1>6. s \notin raced' => status' = status \/ status[s] = "pending"
      BY <1>1
<1>7. raced \subseteq raced' /\ halfway' = halfway /\ credits' = credits
      BY DEF dbVars
<1>8. \A r \in Sessions : Holds(w, r)' /\ r \notin raced' =>
          status[r] = "pending"
      BY <1>1, <1>3 DEF Holds, Holding, Typed, TypeOK
<1>9. SeenOK'
      BY DEF Typed, TypeOK, OnceInv, SeenOK
<1>10. LoneHolder'
       BY <1>2, <1>3, <1>4, <1>7, <1>8 DEF OnceInv, LoneHolder, HeldNotPending
<1>11. HeldNotPending'
       BY <1>1, <1>2, <1>3, <1>5, <1>7
       DEF OnceInv, HeldNotPending, Typed, TypeOK
<1>12. CreditedOK'
       BY <1>1, <1>2, <1>3, <1>5, <1>7, <1>8
       DEF OnceInv, CreditedOK, Typed, TypeOK
<1> QED
    BY <1>9, <1>10, <1>11, <1>12 DEF OnceInv

LEMMA UpdateBalanceOnce ==
    ASSUME Typed, OnceInv, NEW w \in Workers, UpdateBalance(w)
    PROVE  OnceInv'
<1> DEFINE s == job[w]
<1>1. s \in Sessions /\ Holds(w, s) /\ pc[w] = "balance"
      BY DEF Typed, JobOK, Holds, Holding, UpdateBalance, At
<1>2. PICK ok, applied \in BOOLEAN :
          /\ ok => applied
          /\ pc' = [pc EXCEPT ![w] = IF ok THEN "complete" ELSE "reset"]
          /\ credits' = IF applied THEN [credits EXCEPT ![s] = @ + 1]
                                   ELSE credits
          /\ halfway' = IF applied /\ ~ok THEN halfway \cup {s} ELSE halfway
          /\ UNCHANGED <<status, job, seen, raced>>
      BY DEF UpdateBalance, Outcome, Go, AfterBalance
<1>3. \A v \in Workers, r \in Sessions : Holds(v, r)' <=> Holds(v, r)
      BY <1>1, <1>2 DEF Holds, Holding, Typed, TypeOK
<1>4. SeenOK' /\ LoneHolder' /\ HeldNotPending'
      BY <1>2, <1>3
      DEF OnceInv, SeenOK, LoneHolder, HeldNotPending, Typed, TypeOK
<1>5. credits \in [Sessions -> Nat]
      BY DEF Typed, TypeOK
<1>6. ASSUME s \notin raced \cup halfway PROVE credits[s] = 0
      <2>1. credits[s] <= 1 /\ credits[s] # 1
            BY <1>1, <1>6 DEF OnceInv, CreditedOK
      <2> QED
          BY <2>1, <1>1, <1>5
<1>7. ASSUME s \notin raced
      PROVE  /\ status[s] # "pending"
             /\ \A v \in Workers : Holds(v, s) => v = w
      BY <1>1, <1>7 DEF OnceInv, LoneHolder, HeldNotPending
<1>8. ASSUME NEW r \in Sessions, r \notin raced \cup halfway'
      PROVE  /\ credits'[r] <= 1
             /\ credits'[r] = 1 =>
                   /\ status[r] # "pending"
                   /\ \A v \in Workers : Holds(v, r) => pc'[v] = "complete"
      <2>1. r \notin raced \cup halfway
            BY <1>2, <1>8
      <2>2. CASE r = s
            <3>1. credits[s] = 0
                  BY <1>6, <2>1, <2>2
            <3>2. CASE applied
                  <4>1. ok
                        BY <1>1, <1>2, <1>8, <2>2, <3>2
                  <4>2. pc'[w] = "complete"
                        BY <1>2, <4>1 DEF Typed, TypeOK
                  <4>3. credits'[s] = 1
                        BY <1>1, <1>2, <1>5, <3>1, <3>2
                  <4> QED
                      BY <1>7, <2>1, <2>2, <4>2, <4>3
            <3>3. CASE ~applied
                  <4>1. credits' = credits
                        BY <1>2, <3>3
                  <4> QED
                      BY <2>2, <3>1, <4>1
            <3> QED
                BY <3>2, <3>3
      <2>3. CASE r # s
            <3>1. credits'[r] = credits[r]
                  BY <1>2, <1>5, <2>3
            <3>2. \A v \in Workers : Holds(v, r) => pc'[v] = pc[v]
                  BY <1>2, <2>3 DEF Holds, Typed, TypeOK
            <3> QED
                BY <2>1, <3>1, <3>2 DEF OnceInv, CreditedOK
      <2> QED
          BY <2>2, <2>3
<1>9. CreditedOK'
      BY <1>2, <1>3, <1>8 DEF CreditedOK
<1> QED
    BY <1>4, <1>9 DEF OnceInv

LEMMA CompleteSessionOnce ==
    ASSUME Typed, OnceInv, NEW w \in Workers, CompleteSession(w)
    PROVE  OnceInv'
<1> DEFINE s == job[w]
<1> USE DEF CompleteSession, At, Go, FinalStatus, Outcome
<1>1. s \in Sessions /\ Holds(w, s)
      BY DEF Typed, JobOK, Holds, Holding
<1>2. \A v \in Workers, r \in Sessions : Holds(v, r)' => Holds(v, r)
      BY DEF Holds, Holding, Typed, TypeOK
<1>3. \A r \in Sessions : status'[r] = status[r] \/ status'[r] = "completed"
      BY DEF Typed, TypeOK
<1>4. SeenOK' /\ LoneHolder' /\ HeldNotPending'
      BY <1>2, <1>3
      DEF OnceInv, SeenOK, LoneHolder, HeldNotPending, Typed, TypeOK
<1>5. s \in halfway' \/ ~Holds(w, s)'
      BY <1>1 DEF Holds, Holding, Typed, TypeOK
<1>6. \A r \in Sessions \ {s} : ~Holds(w, r)
      BY DEF Holds
<1>7. \A v \in Workers \ {w} : pc'[v] = pc[v]
      BY DEF Typed, TypeOK
<1>8. CreditedOK'
      BY <1>2, <1>3, <1>5, <1>6, <1>7 DEF OnceInv, CreditedOK
<1> QED
    BY <1>4, <1>8 DEF OnceInv

LEMMA ResetOnce ==
    ASSUME Typed, OnceInv, NEW w \in Workers, Reset(w)
    PROVE  OnceInv'
<1>1. PICK s \in Sessions : s = job[w] /\ Holds(w, s) /\ pc[w] = "reset"
      BY DEF Typed, JobOK, Holds, Holding, Reset, At
<1>2. PICK applied \in BOOLEAN :
          /\ pc' = [pc EXCEPT ![w] = "idle"]
          /\ job' = [job EXCEPT ![w] = NoSession]
          /\ seen' = [seen EXCEPT ![w] = "pending"]
          /\ status' = IF applied THEN [status EXCEPT ![s] = "pending"]
                                  ELSE status
          /\ UNCHANGED <<credits, raced, halfway>>
      BY <1>1 DEF Reset, Go, Return, ResetStatus, ghostVars
<1>3. \A v \in Workers, r \in Sessions :
          Holds(v, r)' => Holds(v, r) /\ v # w /\ pc'[v] = pc[v]
      BY <1>2 DEF Holds, Holding, Typed, TypeOK
<1>4. s \notin raced => \A v \in Workers : ~Holds(v, s)'
      BY <1>1, <1>3 DEF OnceInv, LoneHolder
<1>5. s \notin raced \cup halfway => credits[s] # 1
      BY <1>1 DEF OnceInv, CreditedOK
<1>6. \A r \in Sessions \ {s} : status'[r] = status[r]
      <2>1. status \in [Sessions -> Statuses]
            BY DEF Typed, TypeOK
      <2> QED
          BY <1>2, <2>1
<1>7. SeenOK'
      BY <1>2 DEF OnceInv, SeenOK, Typed, TypeOK
<1>8. LoneHolder'
      BY <1>2, <1>3 DEF OnceInv, LoneHolder
<1>9. HeldNotPending'
      BY <1>2, <1>3, <1>4, <1>6 DEF OnceInv, HeldNotPending
<1>10. CreditedOK'
       BY <1>2, <1>3, <1>5, <1>6 DEF OnceInv, CreditedOK
<1> QED
    BY <1>7, <1>8, <1>9, <1>10 DEF OnceInv

LEMMA WorkerOnce ==
    ASSUME Typed, OnceInv, NEW w \in Workers, Worker(w)
    PROVE  OnceInv'
<1> USE DEF At, Go, Return, Holding, Steps, dbVars, ghostVars
<1>1. ASSUME NEW s \in Sessions, Begin(w, s) PROVE OnceInv'
      BY <1>1, BeginOnce
<1>2. CASE Claim(w)
      BY <1>2, ClaimOnce
<1>3. CASE Check(w)
      <2>1. PICK step \in {"verify", "idle"} : Go(w, step)
            BY <1>3 DEF Check
      <2> QED
          BY <1>3, <2>1, QuietOnce DEF Check
<1>4. CASE VerifyFound(w)
      <2>1. PICK step \in {"create", "reset", "idle"} : Go(w, step)
            BY <1>4 DEF VerifyFound
      <2> QED
          BY <1>4, <2>1, QuietOnce DEF VerifyFound
<1>5. CASE VerifyFailed(w)
      <2>1. PICK step \in {"verify", "reset"} : Go(w, step)
            BY <1>5 DEF VerifyFailed, AfterAttempts, Typed, TypeOK
      <2> QED
          BY <1>5, <2>1, QuietOnce DEF VerifyFailed
<1>6. CASE Create(w)
      <2>1. PICK step \in {"getbal", "reset"} : Go(w, step)
            BY <1>6 DEF Create, AfterCreate
      <2> QED
          BY <1>6, <2>1, QuietOnce DEF Create
<1>7. CASE GetBalance(w)
      <2>1. PICK step \in {"balance", "reset"} : Go(w, step)
            BY <1>7 DEF GetBalance
      <2> QED
          BY <1>7, <2>1, QuietOnce DEF GetBalance
<1>8. CASE UpdateBalance(w)
      BY <1>8, UpdateBalanceOnce
<1>9. CASE CompleteSession(w)
      BY <1>9, CompleteSessionOnce
<1>10. CASE Announce(w)
       BY <1>10, QuietOnce DEF Announce
<1>11. CASE Reset(w)
       BY <1>11, ResetOnce
<1> QED
    BY <1>1, <1>2, <1>3, <1>4, <1>5, <1>6, <1>7, <1>8, <1>9, <1>10, <1>11
    DEF Worker

LEMMA OnceStep == Typed /\ OnceInv /\ [Next]_vars => OnceInv'
<1> SUFFICES ASSUME Typed, OnceInv, [Next]_vars PROVE OnceInv'
    OBVIOUS
<1>1. ASSUME NEW s \in Sessions, Pay(s) \/ Age(s) PROVE OnceInv'
      BY <1>1 DEF Pay, Age, OnceInv, SeenOK, LoneHolder, HeldNotPending,
                  CreditedOK, Holds, dbVars, workerVars, ghostVars
<1>2. CASE Poller
      BY <1>2, PollerOnce
<1>3. ASSUME NEW w \in Workers, Worker(w) PROVE OnceInv'
      BY <1>3, WorkerOnce
<1>4. CASE Crash
      BY <1>4 DEF Crash, OnceInv, SeenOK, LoneHolder, HeldNotPending,
                  CreditedOK, Holds, Holding, dbVars, ghostVars
<1>5. CASE UNCHANGED vars
      BY <1>5 DEF vars, OnceInv, SeenOK, LoneHolder, HeldNotPending,
                  CreditedOK, Holds, dbVars, workerVars, ghostVars
<1> QED
    BY <1>1, <1>2, <1>3, <1>4, <1>5 DEF Next

LEMMA AlwaysOnce == Spec => []OnceInv
BY AlwaysTyped, InitOnce, OnceStep, PTL DEF Spec

\* A session is credited at most once unless it was claimed in a race or its
\* worker saw an error after the credit; no crash and no other failing call
\* credits it twice.
THEOREM CreditedOnceCorrect == Spec => []CreditedOnce
<1>1. Typed /\ OnceInv => CreditedOnce
      BY DEF Typed, TypeOK, OnceInv, CreditedOK, CreditedOnce
<1> QED
    BY <1>1, AlwaysTyped, AlwaysOnce, PTL

-----------------------------------------------------------------------------
(* What a worker's position says of its session: past the lookup the        *)
(* session is paid in full, past the insert it has a row, past the credit   *)
(* it is credited.                                                          *)

PaidOK ==
    \A s \in Sessions :
        /\ rows[s] > 0 => paid[s] = "full"
        /\ \A w \in Workers :
              job[w] = s /\ pc[w] \in {"create", "getbal", "balance",
                                       "complete", "announce"} =>
                  paid[s] = "full"

RecordedOK ==
    \A s \in Sessions, w \in Workers : job[w] = s =>
        /\ pc[w] \in {"getbal", "balance", "complete", "announce"} =>
              rows[s] > 0
        /\ pc[w] \in {"complete", "announce"} => credits[s] > 0

ProgressInv == PaidOK /\ RecordedOK /\ CompletedMeansCredited

LEMMA InitProgress == Init => ProgressInv
BY DEF Init, ProgressInv, PaidOK, RecordedOK, CompletedMeansCredited

LEMMA PollerProgress == Typed /\ ProgressInv /\ Poller => ProgressInv'
<1> SUFFICES ASSUME Typed, ProgressInv, Poller PROVE ProgressInv'
    OBVIOUS
<1> USE DEF Typed, TypeOK, ProgressInv, PaidOK, RecordedOK,
        CompletedMeansCredited, dbVars, worldVars, workerVars, ghostVars
<1>1. CASE LoadPage
      BY <1>1, SMTT(30) DEF LoadPage
<1>2. ASSUME NEW s \in Sessions, SkipRow(s) PROVE ProgressInv'
      BY <1>2, SMTT(30) DEF SkipRow
<1>3. ASSUME NEW s \in Sessions, ExpireRow(s) PROVE ProgressInv'
      BY <1>3, SMTT(30) DEF ExpireRow
<1>4. ASSUME NEW s \in Sessions, BatchRow(s) PROVE ProgressInv'
      BY <1>4, SMTT(30) DEF BatchRow
<1>5. CASE Dispatch
      BY <1>5, SMTT(30) DEF Dispatch
<1> QED
    BY <1>1, <1>2, <1>3, <1>4, <1>5 DEF Poller

LEMMA ClaimProgress ==
    ASSUME Typed, ProgressInv, NEW w \in Workers, Claim(w)
    PROVE  ProgressInv'
<1>1. /\ pc[w] = "claim" /\ pc'[w] \in {"check", "idle"}
      /\ \A v \in Workers \ {w} : pc'[v] = pc[v] /\ job'[v] = job[v]
      BY DEF Claim, At, Go, Return, Typed, TypeOK
<1>2. \A s \in Sessions : status'[s] = status[s] \/ status'[s] = "processing"
      BY DEF Claim, Typed, TypeOK
<1>3. UNCHANGED <<rows, paid, credits, notified>>
      BY DEF Claim, worldVars
<1>4. PaidOK' /\ RecordedOK'
      BY <1>1, <1>3 DEF ProgressInv, PaidOK, RecordedOK
<1>5. CompletedMeansCredited'
      BY <1>2, <1>3 DEF ProgressInv, CompletedMeansCredited
<1> QED
    BY <1>4, <1>5 DEF ProgressInv

LEMMA UpdateBalanceProgress ==
    ASSUME Typed, ProgressInv, NEW w \in Workers, UpdateBalance(w)
    PROVE  ProgressInv'
<1>1. /\ pc[w] = "balance" /\ pc'[w] \in {"complete", "reset"}
      /\ \A v \in Workers \ {w} : pc'[v] = pc[v]
      BY DEF UpdateBalance, At, Go, AfterBalance, Typed, TypeOK
<1>2. UNCHANGED <<rows, paid, job, status, notified>>
      BY DEF UpdateBalance, worldVars
<1>3. \A s \in Sessions : credits[s] > 0 => credits'[s] > 0
      <2>1. \/ credits' = credits
            \/ credits' = [credits EXCEPT ![job[w]] = @ + 1]
            BY DEF UpdateBalance
      <2>2. credits \in [Sessions -> Nat]
            BY DEF Typed, TypeOK
      <2> QED
          BY <2>1, <2>2
<1>4. pc'[w] = "complete" => credits'[job[w]] > 0
      <2>1. job[w] \in Sessions
            BY <1>1 DEF Typed, JobOK
      <2>2. ASSUME pc'[w] = "complete"
            PROVE  credits' = [credits EXCEPT ![job[w]] = @ + 1]
            BY <2>2 DEF UpdateBalance, Outcome, Go, AfterBalance, Typed, TypeOK
      <2> QED
          BY <2>1, <2>2 DEF Typed, TypeOK
<1>5. PaidOK' /\ RecordedOK'
      BY <1>1, <1>2, <1>3, <1>4 DEF ProgressInv, PaidOK, RecordedOK
<1>6. CompletedMeansCredited'
      BY <1>2, <1>3 DEF ProgressInv, CompletedMeansCredited
<1> QED
    BY <1>5, <1>6 DEF ProgressInv

LEMMA WorkerProgress ==
    ASSUME Typed, ProgressInv, NEW w \in Workers, Worker(w)
    PROVE  ProgressInv'
<1> USE DEF Typed, TypeOK, JobOK, ProgressInv, PaidOK, RecordedOK,
        CompletedMeansCredited, dbVars, worldVars, ghostVars, At, Go, Return,
        Outcome
<1>1. ASSUME NEW s \in Sessions, Begin(w, s) PROVE ProgressInv'
      BY <1>1, SMTT(30) DEF Begin
<1>2. CASE Claim(w)
      BY <1>2, ClaimProgress
<1>3. CASE Check(w)
      BY <1>3, SMTT(30) DEF Check
<1>4. CASE VerifyFound(w)
      BY <1>4, SMTT(30) DEF VerifyFound, Matched, AlreadyRecorded, MappedSession
<1>5. CASE VerifyFailed(w)
      BY <1>5, SMTT(30) DEF VerifyFailed, AfterAttempts
<1>6. CASE Create(w)
      BY <1>6, SMTT(30) DEF Create, AfterCreate
<1>7. CASE GetBalance(w)
      BY <1>7, SMTT(30) DEF GetBalance
<1>8. CASE UpdateBalance(w)
      BY <1>8, UpdateBalanceProgress
<1>9. CASE CompleteSession(w)
      BY <1>9, SMTT(30) DEF CompleteSession, FinalStatus
<1>10. CASE Announce(w)
      BY <1>10, SMTT(30) DEF Announce
<1>11. CASE Reset(w)
      BY <1>11, SMTT(30) DEF Reset, ResetStatus
<1> QED
    BY <1>1, <1>2, <1>3, <1>4, <1>5, <1>6, <1>7, <1>8, <1>9, <1>10, <1>11 DEF Worker

LEMMA ProgressStep == Typed /\ ProgressInv /\ [Next]_vars => ProgressInv'
<1> SUFFICES ASSUME Typed, ProgressInv, [Next]_vars PROVE ProgressInv'
    OBVIOUS
<1>1. ASSUME NEW s \in Sessions, Pay(s) \/ Age(s) PROVE ProgressInv'
      BY <1>1 DEF Pay, Age, Typed, TypeOK, ProgressInv, PaidOK, RecordedOK,
                  CompletedMeansCredited, dbVars, workerVars, ghostVars
<1>2. CASE Poller
      BY <1>2, PollerProgress
<1>3. ASSUME NEW w \in Workers, Worker(w) PROVE ProgressInv'
      BY <1>3, WorkerProgress
<1>4. CASE Crash
      BY <1>4 DEF Crash, ProgressInv, PaidOK, RecordedOK,
                  CompletedMeansCredited, dbVars, worldVars, ghostVars
<1>5. CASE UNCHANGED vars
      BY <1>5 DEF vars, ProgressInv, PaidOK, RecordedOK,
                  CompletedMeansCredited, dbVars, worldVars, workerVars,
                  ghostVars
<1> QED
    BY <1>1, <1>2, <1>3, <1>4, <1>5 DEF Next

LEMMA AlwaysProgress == Spec => []ProgressInv
BY AlwaysTyped, InitProgress, ProgressStep, PTL DEF Spec

\* A transaction row is recorded only for a session paid in full.
THEOREM PaidBeforeRecordedCorrect == Spec => []PaidBeforeRecorded
<1>1. ProgressInv => PaidBeforeRecorded
      BY DEF ProgressInv, PaidOK, PaidBeforeRecorded
<1> QED
    BY <1>1, AlwaysProgress, PTL

\* No session is completed, and no client told so, without its credit and its
\* transaction row.
THEOREM CompletedMeansCreditedCorrect == Spec => []CompletedMeansCredited
BY AlwaysProgress, PTL DEF ProgressInv

-----------------------------------------------------------------------------
(* A completed session stays so: a worker that could put it back holds a    *)
(* credited session, and such a holder is about to complete it.             *)

LEMMA CompletedStep ==
    ASSUME Typed, OnceInv, ProgressInv, Next, NEW s \in Sessions,
           status[s] = "completed", status'[s] # "completed",
           s \notin raced' \cup halfway'
    PROVE  s \in aged /\ status'[s] = "expired"
<1> USE DEF Typed, TypeOK
<1>1. CASE \E r \in Sessions : Pay(r) \/ Age(r)
      BY <1>1 DEF Pay, Age, dbVars
<1>2. CASE Poller
      <2>1. PICK r \in Sessions : ExpireRow(r)
            BY <1>2 DEF Poller, LoadPage, SkipRow, BatchRow, Dispatch, dbVars
      <2> QED
          BY <2>1 DEF ExpireRow, TooOld
<1>3. ASSUME NEW w \in Workers, Worker(w)
      PROVE  s \in aged /\ status'[s] = "expired"
      <2>1. CASE Claim(w)
            <3>1. seen[w] = "pending"
                  BY <2>1 DEF Claim, At, OnceInv, SeenOK
            <3>2. job[w] = s /\ status'[s] = "processing"
                  BY <2>1 DEF Claim
            <3> QED
                BY <2>1, <3>1, <3>2 DEF Claim
      <2>2. CASE CompleteSession(w)
            BY <2>2 DEF CompleteSession, FinalStatus
      <2>3. CASE Reset(w)
            <3>1. job[w] = s /\ pc[w] = "reset"
                  BY <2>3 DEF Reset, At
            <3>2. s \notin raced \cup halfway
                  BY <2>3 DEF Reset, ghostVars
            <3>3. credits[s] = 1
                  <4>1. credits[s] > 0 /\ credits[s] <= 1
                        BY <3>2 DEF ProgressInv, CompletedMeansCredited,
                                    OnceInv, CreditedOK
                  <4> QED
                      BY <4>1
            <3>4. pc[w] = "complete"
                  BY <3>1, <3>2, <3>3
                  DEF OnceInv, CreditedOK, Holds, Holding
            <3> QED
                BY <3>1, <3>4
      <2> QED
          BY <1>3, <2>1, <2>2, <2>3
          DEF Worker, Begin, Check, VerifyFound, VerifyFailed, Create,
              GetBalance, UpdateBalance, Announce, dbVars
<1>4. CASE Crash
      BY <1>4 DEF Crash, dbVars
<1> QED
    BY <1>1, <1>2, <1>3, <1>4 DEF Next

\* A completed session is changed only after a race, after an error that
\* followed the credit, or by the poller expiring it from an old page.
THEOREM CompletedStaysCorrect == Spec => CompletedStays
<1>1. Typed /\ OnceInv /\ ProgressInv /\ [Next]_vars =>
        [\A s \in Sessions :
            status[s] = "completed" /\ status'[s] # "completed" =>
                \/ s \in raced' \cup halfway'
                \/ s \in aged /\ status'[s] = "expired"]_vars
      BY CompletedStep
<1> QED
    BY <1>1, AlwaysTyped, AlwaysOnce, AlwaysProgress, PTL
    DEF Spec, CompletedStays

-----------------------------------------------------------------------------
(* The money of a user.  A worker between GetBalance and UpdateBalance      *)
(* holds a sum no larger than what was booked; without an overlap it is the *)
(* only one and holds the balance itself.                                   *)

Updating(w, u) == pc[w] = "balance" /\ Owner[job[w]] = u

MoneyInv ==
    /\ NeverOverCredited
    /\ \A u \in Users, w \in Workers : Updating(w, u) => read[w] <= booked[u]
    /\ \A u \in Users \ overlap :
          /\ balance[u] = booked[u]
          /\ \A w \in Workers : Updating(w, u) => read[w] = balance[u]
          /\ \A v, w \in Workers : Updating(v, u) /\ Updating(w, u) => v = w

LEMMA InitMoney == Init => MoneyInv
BY DEF Init, MoneyInv, NeverOverCredited, Updating

\* A step that touches no balance and lets no further worker update one.
LEMMA QuietMoney ==
    ASSUME Typed, MoneyInv, UNCHANGED <<balance, booked, overlap>>,
           \A w \in Workers : pc'[w] = "balance" =>
               /\ pc[w] = "balance"
               /\ job'[w] = job[w]
               /\ read'[w] = read[w]
    PROVE  MoneyInv'
<1>1. \A w \in Workers, u \in Users :
          Updating(w, u)' => Updating(w, u) /\ read'[w] = read[w]
      BY DEF Updating
<1> QED
    BY <1>1 DEF MoneyInv, NeverOverCredited

LEMMA GetBalanceMoney ==
    ASSUME Typed, MoneyInv, NEW w \in Workers, GetBalance(w)
    PROVE  MoneyInv'
<1>1. PICK u \in Users : u = Owner[job[w]]
      BY DEF GetBalance, At, Typed, JobOK
<1>2. pc[w] = "getbal" /\ UNCHANGED <<balance, booked, job>>
      BY DEF GetBalance, At, dbVars
<1>3. CASE pc'[w] # "balance"
      <2>1. UNCHANGED overlap /\ pc' \in [Workers -> Steps]
            /\ \A v \in Workers \ {w} : pc'[v] = pc[v] /\ read'[v] = read[v]
            BY <1>3 DEF GetBalance, Go, Typed, TypeOK, Steps
      <2> QED
          BY <1>2, <1>3, <2>1, QuietMoney
<1>4. CASE pc'[w] = "balance"
      <2>1. /\ read' = [read EXCEPT ![w] = balance[u]]
            /\ pc' = [pc EXCEPT ![w] = "balance"]
            /\ overlap' = IF {v \in Workers \ {w} : Updating(v, u)} = {}
                            THEN overlap ELSE overlap \cup {u}
            BY <1>1, <1>4 DEF GetBalance, Go, Typed, TypeOK, Updating
      <2>2. \A v \in Workers \ {w}, x \in Users :
                (Updating(v, x)' <=> Updating(v, x)) /\ read'[v] = read[v]
            BY <1>2, <2>1 DEF Updating, Typed, TypeOK
      <2>3. \A x \in Users : Updating(w, x)' => x = u /\ read'[w] = balance[u]
            BY <1>1, <1>2, <2>1 DEF Updating, Typed, TypeOK
      <2>4. \A x \in Users \ overlap' : x \notin overlap
            BY <2>1
      <2>5. u \notin overlap' =>
                \A v \in Workers \ {w} : ~Updating(v, u)
            BY <2>1
      <2>6. NeverOverCredited'
            BY <1>2 DEF MoneyInv, NeverOverCredited
      <2>7. \A x \in Users, v \in Workers :
                Updating(v, x)' => read'[v] <= booked'[x]
            BY <1>2, <2>2, <2>3 DEF MoneyInv, NeverOverCredited
      <2>8. \A x \in Users \ overlap' :
                /\ balance'[x] = booked'[x]
                /\ \A v \in Workers : Updating(v, x)' => read'[v] = balance'[x]
                /\ \A v, y \in Workers :
                      Updating(v, x)' /\ Updating(y, x)' => v = y
            BY <1>2, <2>2, <2>3, <2>4, <2>5 DEF MoneyInv
      <2> QED
          BY <2>6, <2>7, <2>8 DEF MoneyInv
<1> QED
    BY <1>3, <1>4

LEMMA UpdateBalanceMoney ==
    ASSUME Typed, MoneyInv, NEW w \in Workers, UpdateBalance(w)
    PROVE  MoneyInv'
<1>1. PICK s \in Sessions, u \in Users :
          s = job[w] /\ u = Owner[s] /\ pc[w] = "balance"
      BY DEF UpdateBalance, At, Typed, JobOK
<1>2. /\ pc' \in [Workers -> Steps] /\ pc'[w] # "balance"
      /\ \A v \in Workers \ {w} : pc'[v] = pc[v] /\ read'[v] = read[v]
      /\ UNCHANGED <<job, overlap>>
      BY DEF UpdateBalance, Go, AfterBalance, Typed, TypeOK, Steps
<1>3. CASE UNCHANGED <<balance, booked>>
      BY <1>2, <1>3, QuietMoney
<1>4. CASE /\ balance' = [balance EXCEPT ![u] = read[w] + Cents[s]]
           /\ booked' = [booked EXCEPT ![u] = @ + Cents[s]]
      <2>1. /\ balance \in [Users -> Nat] /\ booked \in [Users -> Nat]
            /\ read \in [Workers -> Nat] /\ Cents[s] \in Nat
            BY DEF Typed, TypeOK
      <2>2. Updating(w, u) /\ read[w] <= booked[u]
            BY <1>1 DEF Updating, MoneyInv
      <2>3. /\ balance'[u] = read[w] + Cents[s]
            /\ booked'[u] = booked[u] + Cents[s]
            /\ \A x \in Users \ {u} :
                  balance'[x] = balance[x] /\ booked'[x] = booked[x]
            BY <1>4, <2>1
      <2>4. \A v \in Workers, x \in Users :
                Updating(v, x)' =>
                    v # w /\ Updating(v, x) /\ read'[v] = read[v]
            BY <1>2 DEF Updating
      <2>5. u \notin overlap =>
                /\ balance'[u] = booked'[u]
                /\ \A v \in Workers : ~Updating(v, u)'
            BY <2>1, <2>2, <2>3, <2>4 DEF MoneyInv
      <2>6. NeverOverCredited'
            BY <2>1, <2>2, <2>3 DEF MoneyInv, NeverOverCredited
      <2>7. \A x \in Users, v \in Workers :
                Updating(v, x)' => read'[v] <= booked'[x]
            BY <2>1, <2>3, <2>4 DEF MoneyInv
      <2>8. \A x \in Users \ overlap :
                /\ balance'[x] = booked'[x]
                /\ \A v \in Workers : Updating(v, x)' => read'[v] = balance'[x]
                /\ \A v, y \in Workers :
                      Updating(v, x)' /\ Updating(y, x)' => v = y
            BY <2>3, <2>4, <2>5 DEF MoneyInv
      <2> QED
          BY <1>2, <2>6, <2>7, <2>8 DEF MoneyInv
<1> QED
    BY <1>1, <1>3, <1>4 DEF UpdateBalance, NewAmount

LEMMA MoneyStep == Typed /\ MoneyInv /\ [Next]_vars => MoneyInv'
<1> SUFFICES ASSUME Typed, MoneyInv, [Next]_vars PROVE MoneyInv'
    OBVIOUS
<1> USE DEF dbVars, workerVars, ghostVars
<1>1. ASSUME NEW s \in Sessions, Pay(s) \/ Age(s) PROVE MoneyInv'
      BY <1>1, QuietMoney DEF Pay, Age
<1>2. CASE Poller
      BY <1>2, QuietMoney
      DEF Poller, LoadPage, SkipRow, ExpireRow, BatchRow, Dispatch
<1>3. ASSUME NEW w \in Workers, Worker(w) PROVE MoneyInv'
      <2> USE DEF Typed, TypeOK, At, Go, Return
      <2>1. ASSUME NEW s \in Sessions, Begin(w, s) PROVE MoneyInv'
            BY <2>1, QuietMoney DEF Begin
      <2>2. CASE Claim(w)
            BY <2>2, QuietMoney DEF Claim
      <2>3. CASE Check(w)
            BY <2>3, QuietMoney DEF Check
      <2>4. CASE VerifyFound(w)
            BY <2>4, QuietMoney DEF VerifyFound
      <2>5. CASE VerifyFailed(w)
            BY <2>5, QuietMoney DEF VerifyFailed, AfterAttempts
      <2>6. CASE Create(w)
            BY <2>6, QuietMoney DEF Create, AfterCreate
      <2>7. CASE GetBalance(w)
            BY <2>7, GetBalanceMoney
      <2>8. CASE UpdateBalance(w)
            BY <2>8, UpdateBalanceMoney
      <2>9. CASE CompleteSession(w)
            BY <2>9, QuietMoney DEF CompleteSession
      <2>10. CASE Announce(w)
            BY <2>10, QuietMoney DEF Announce
      <2>11. CASE Reset(w)
            BY <2>11, QuietMoney DEF Reset
      <2> QED
          BY <1>3, <2>1, <2>2, <2>3, <2>4, <2>5, <2>6, <2>7, <2>8, <2>9, <2>10,
             <2>11 DEF Worker
<1>4. CASE Crash
      BY <1>4, QuietMoney DEF Crash
<1>5. CASE UNCHANGED vars
      BY <1>5, QuietMoney DEF vars
<1> QED
    BY <1>1, <1>2, <1>3, <1>4, <1>5 DEF Next

LEMMA AlwaysMoney == Spec => []MoneyInv
BY AlwaysTyped, InitMoney, MoneyStep, PTL DEF Spec

\* A balance is never more than the sum of the credits made.
THEOREM NeverOverCreditedCorrect == Spec => []NeverOverCredited
BY AlwaysMoney, PTL DEF MoneyInv

\* A balance is the sum of its credits as long as no two updates overlapped.
THEOREM NoLostCreditCorrect == Spec => []NoLostCredit
<1>1. MoneyInv => NoLostCredit
      BY DEF MoneyInv, NoLostCredit
<1> QED
    BY <1>1, AlwaysMoney, PTL

-----------------------------------------------------------------------------
(* Every credit has a row of its own: so has every worker that is past its  *)
(* insert and may still credit.                                             *)

Crediting(s) == {w \in Workers : job[w] = s /\ pc[w] \in {"getbal", "balance"}}

CreditInv ==
    \A s \in Sessions :
        /\ IsFiniteSet(Crediting(s))
        /\ credits[s] + Cardinality(Crediting(s)) <= rows[s]

LEMMA InitCredit == Init => CreditInv
<1> SUFFICES ASSUME Init, NEW s \in Sessions
             PROVE  /\ IsFiniteSet(Crediting(s))
                    /\ credits[s] + Cardinality(Crediting(s)) <= rows[s]
    BY DEF CreditInv
<1>1. Crediting(s) = {}
      BY DEF Init, Crediting
<1> QED
    BY <1>1, FS_EmptySet DEF Init

\* A step that lets no further worker credit.
LEMMA QuietCredit ==
    ASSUME Typed, CreditInv, UNCHANGED <<rows, credits>>,
           \A w \in Workers : pc'[w] \in {"getbal", "balance"} =>
               pc[w] \in {"getbal", "balance"} /\ job'[w] = job[w]
    PROVE  CreditInv'
<1> SUFFICES ASSUME NEW s \in Sessions
             PROVE  /\ IsFiniteSet(Crediting(s)')
                    /\ credits[s] + Cardinality(Crediting(s)') <= rows[s]
    BY DEF CreditInv
<1>1. /\ IsFiniteSet(Crediting(s))
      /\ credits[s] + Cardinality(Crediting(s)) <= rows[s]
      BY DEF CreditInv
<1>2. Crediting(s)' \in SUBSET Crediting(s)
      BY DEF Crediting
<1>3. /\ IsFiniteSet(Crediting(s)')
      /\ Cardinality(Crediting(s)') <= Cardinality(Crediting(s))
      BY <1>1, <1>2, FS_Subset
<1>4. Cardinality(Crediting(s)) \in Nat /\ Cardinality(Crediting(s)') \in Nat
      BY <1>1, <1>3, FS_CardinalityType
<1> QED
    BY <1>1, <1>3, <1>4 DEF Typed, TypeOK

LEMMA CreateCredit ==
    ASSUME Typed, CreditInv, NEW w \in Workers, Create(w)
    PROVE  CreditInv'
<1>1. PICK r \in Sessions : r = job[w] /\ pc[w] = "create"
      BY DEF Create, At, Typed, JobOK
<1>2. /\ pc' \in {[pc EXCEPT ![w] = "getbal"], [pc EXCEPT ![w] = "reset"]}
      /\ pc'[w] = "getbal" => rows' = [rows EXCEPT ![r] = @ + 1]
      /\ rows' \in {rows, [rows EXCEPT ![r] = @ + 1]}
      /\ UNCHANGED <<job, credits>>
      BY <1>1 DEF Create, Outcome, Go, AfterCreate, ghostVars, Typed, TypeOK
<1> SUFFICES ASSUME NEW s \in Sessions
             PROVE  /\ IsFiniteSet(Crediting(s)')
                    /\ credits'[s] + Cardinality(Crediting(s)') <= rows'[s]
    BY DEF CreditInv
<1>3. /\ IsFiniteSet(Crediting(s))
      /\ credits[s] + Cardinality(Crediting(s)) <= rows[s]
      /\ Cardinality(Crediting(s)) \in Nat
      BY FS_CardinalityType DEF CreditInv
<1>4. CASE s = r /\ pc'[w] = "getbal"
      <2>1. Crediting(s)' = Crediting(s) \cup {w} /\ w \notin Crediting(s)
            BY <1>1, <1>2, <1>4 DEF Crediting, Typed, TypeOK
      <2>2. /\ IsFiniteSet(Crediting(s)')
            /\ Cardinality(Crediting(s)') = Cardinality(Crediting(s)) + 1
            BY <1>3, <2>1, FS_AddElement
      <2>3. rows'[s] = rows[s] + 1
            BY <1>2, <1>4 DEF Typed, TypeOK
      <2> QED
          BY <1>2, <1>3, <2>2, <2>3 DEF Typed, TypeOK
<1>5. CASE ~(s = r /\ pc'[w] = "getbal")
      <2>1. Crediting(s)' = Crediting(s)
            BY <1>1, <1>2, <1>5 DEF Crediting, Typed, TypeOK
      <2>2. rows'[s] >= rows[s]
            BY <1>2 DEF Typed, TypeOK
      <2>3. rows'[s] \in Nat
            BY <1>2 DEF Typed, TypeOK
      <2> QED
          BY <1>2, <1>3, <2>1, <2>2, <2>3 DEF Typed, TypeOK
<1> QED
    BY <1>4, <1>5

LEMMA UpdateBalanceCredit ==
    ASSUME Typed, CreditInv, NEW w \in Workers, UpdateBalance(w)
    PROVE  CreditInv'
<1>1. PICK r \in Sessions : r = job[w] /\ pc[w] = "balance"
      BY DEF UpdateBalance, At, Typed, JobOK
<1>2. /\ \A v \in Workers : pc'[v] =
             IF v = w THEN pc'[w] ELSE pc[v]
      /\ pc'[w] \in {"complete", "reset"}
      /\ credits' \in {credits, [credits EXCEPT ![r] = @ + 1]}
      /\ UNCHANGED <<job, rows>>
      BY <1>1 DEF UpdateBalance, Go, AfterBalance, Typed, TypeOK
<1> SUFFICES ASSUME NEW s \in Sessions
             PROVE  /\ IsFiniteSet(Crediting(s)')
                    /\ credits'[s] + Cardinality(Crediting(s)') <= rows'[s]
    BY DEF CreditInv
<1>3. /\ IsFiniteSet(Crediting(s))
      /\ credits[s] + Cardinality(Crediting(s)) <= rows[s]
      /\ Cardinality(Crediting(s)) \in Nat
      BY FS_CardinalityType DEF CreditInv
<1>4. CASE s = r
      <2>1. Crediting(s)' = Crediting(s) \ {w} /\ w \in Crediting(s)
            BY <1>1, <1>2, <1>4 DEF Crediting
      <2>2. /\ IsFiniteSet(Crediting(s)')
            /\ Cardinality(Crediting(s)') = Cardinality(Crediting(s)) - 1
            BY <1>3, <2>1, FS_RemoveElement
      <2>3. credits'[s] \in {credits[s], credits[s] + 1}
            BY <1>2, <1>4 DEF Typed, TypeOK
      <2> QED
          BY <1>2, <1>3, <2>2, <2>3 DEF Typed, TypeOK
<1>5. CASE s # r
      <2>1. Crediting(s)' = Crediting(s) /\ credits'[s] = credits[s]
            BY <1>1, <1>2, <1>5 DEF Crediting, Typed, TypeOK
      <2> QED
          BY <1>2, <1>3, <2>1
<1> QED
    BY <1>4, <1>5

LEMMA CreditStep == Typed /\ CreditInv /\ [Next]_vars => CreditInv'
<1> SUFFICES ASSUME Typed, CreditInv, [Next]_vars PROVE CreditInv'
    OBVIOUS
<1> USE DEF dbVars, workerVars, ghostVars
<1>1. ASSUME NEW s \in Sessions, Pay(s) \/ Age(s) PROVE CreditInv'
      BY <1>1, QuietCredit DEF Pay, Age
<1>2. CASE Poller
      BY <1>2, QuietCredit
      DEF Poller, LoadPage, SkipRow, ExpireRow, BatchRow, Dispatch
<1>3. ASSUME NEW w \in Workers, Worker(w) PROVE CreditInv'
      <2> USE DEF Typed, TypeOK, At, Go, Return
      <2>1. ASSUME NEW s \in Sessions, Begin(w, s) PROVE CreditInv'
            BY <2>1, QuietCredit DEF Begin
      <2>2. CASE Claim(w)
            BY <2>2, QuietCredit DEF Claim
      <2>3. CASE Check(w)
            BY <2>3, QuietCredit DEF Check
      <2>4. CASE VerifyFound(w)
            BY <2>4, QuietCredit DEF VerifyFound
      <2>5. CASE VerifyFailed(w)
            BY <2>5, QuietCredit DEF VerifyFailed, AfterAttempts
      <2>6. CASE Create(w)
            BY <2>6, CreateCredit
      <2>7. CASE GetBalance(w)
            BY <2>7, QuietCredit DEF GetBalance
      <2>8. CASE UpdateBalance(w)
            BY <2>8, UpdateBalanceCredit
      <2>9. CASE CompleteSession(w)
            BY <2>9, QuietCredit DEF CompleteSession
      <2>10. CASE Announce(w)
             BY <2>10, QuietCredit DEF Announce
      <2>11. CASE Reset(w)
             BY <2>11, QuietCredit DEF Reset
      <2> QED
          BY <1>3, <2>1, <2>2, <2>3, <2>4, <2>5, <2>6, <2>7, <2>8, <2>9, <2>10,
             <2>11 DEF Worker
<1>4. CASE Crash
      BY <1>4, QuietCredit DEF Crash
<1>5. CASE UNCHANGED vars
      BY <1>5, QuietCredit DEF vars
<1> QED
    BY <1>1, <1>2, <1>3, <1>4, <1>5 DEF Next

LEMMA AlwaysCredit == Spec => []CreditInv
BY AlwaysTyped, InitCredit, CreditStep, PTL DEF Spec

\* A session has at least as many rows as credits, even when several workers
\* verify it at once: no credit shares its row with another.
THEOREM CreditsAreRecordedCorrect == Spec => []CreditsAreRecorded
<1>1. ASSUME Typed, CreditInv, NEW s \in Sessions
      PROVE  credits[s] <= rows[s]
      <2>1. /\ credits[s] + Cardinality(Crediting(s)) <= rows[s]
            /\ Cardinality(Crediting(s)) \in Nat
            BY <1>1, FS_CardinalityType DEF CreditInv
      <2>2. credits[s] \in Nat /\ rows[s] \in Nat
            BY <1>1 DEF Typed, TypeOK
      <2> QED
          BY <2>1, <2>2
<1>2. Typed /\ CreditInv => CreditsAreRecorded
      BY <1>1 DEF CreditsAreRecorded
<1> QED
    BY <1>2, AlwaysTyped, AlwaysCredit, PTL

-----------------------------------------------------------------------------
(* Who strands a session.                                                   *)

Excused(s) ==
    \/ s \notin Supported
    \/ crashes > 0
    \/ struck \cap {"commit", "rate", "reset"} # {}

\* A session in processing keeps a holder.
Attended(s) ==
    status[s] = "processing" => Excused(s) \/ \E w \in Workers : Holds(w, s)

AttendedInv == \A s \in Sessions : Attended(s)

LEMMA AttendedIsEnough ==
    AttendedInv => StrandedForAReason
BY DEF AttendedInv, Attended, Excused, StrandedForAReason, Stranded, Holders, Holds

LEMMA InitAttended == Init => AttendedInv
BY DEF Init, AttendedInv, Attended

\* An excuse never goes away.
LEMMA ExcusedStays ==
    ASSUME Typed, [Next]_vars, NEW s \in Sessions, Excused(s)
    PROVE  Excused(s)'
<1>1. crashes' = crashes \/ crashes' = crashes + 1
      BY DEF Typed, TypeOK, Next, Poller, LoadPage, SkipRow, ExpireRow,
         BatchRow, Dispatch, Pay, Age, Worker, Begin, Claim, Check,
         VerifyFound, VerifyFailed, Create, GetBalance, UpdateBalance,
         CompleteSession, Announce, Reset, Crash, vars
<1>2. struck \subseteq struck'
      BY DEF Next, Poller, LoadPage, SkipRow, ExpireRow,
         BatchRow, Dispatch, Pay, Age, Worker, Begin, Claim, Check,
         VerifyFound, VerifyFailed, Create, GetBalance, UpdateBalance,
         CompleteSession, Announce, Reset, Crash, vars, Outcome, Answer,
         Strikes, faultVars
<1> QED
    <2>1. crashes > 0 => crashes' > 0
          BY <1>1 DEF Typed, TypeOK
    <2> QED
        BY <1>2, <2>1 DEF Excused

LEMMA PollerAttended ==
    ASSUME Typed, Poller, NEW s \in Sessions
    PROVE  status'[s] = "processing" => status[s] = "processing"
BY DEF Typed, TypeOK, Poller, LoadPage, SkipRow, ExpireRow, BatchRow, Dispatch,
       dbVars

\* A worker that stops holding a session has moved it out of "processing" or
\* leaves an excuse behind.
LEMMA WorkerAttended ==
    ASSUME Typed, AttendedInv, NEW w \in Workers,
           Worker(w), NEW s \in Sessions, status'[s] = "processing",
           ~Excused(s)'
    PROVE  \E v \in Workers : Holds(v, s)'
<1> USE DEF Typed, TypeOK, JobOK, At, Go, Return, Holds, Holding
<1>1. ~Excused(s)
      BY ExcusedStays DEF Next
<1>2. \A v \in Workers \ {w} : Holds(v, s)' <=> Holds(v, s)
      BY DEF Worker, Begin, Claim, Check, VerifyFound, VerifyFailed, Create,
         GetBalance, UpdateBalance, CompleteSession, Announce, Reset
<1>3. CASE status[s] # "processing"
      <2>1. CASE Claim(w)
            <3>1. job[w] = s
                  BY <1>3, <2>1 DEF Claim
            <3>2. pc'[w] = "check" /\ job' = job
                  BY <2>1, <3>1 DEF Claim, Outcome, Strikes, Excused
            <3> QED
                BY <3>1, <3>2
      <2>2. status'[s] = status[s] \/ Claim(w) \/ status'[s] # "processing"
            BY DEF Worker, Begin, Check, VerifyFound, VerifyFailed, Create,
               GetBalance, UpdateBalance, CompleteSession, Announce, Reset,
               FinalStatus, ResetStatus, dbVars
      <2> QED
          BY <1>3, <2>1, <2>2
<1>4. CASE status[s] = "processing"
      <2>1. PICK v \in Workers : Holds(v, s)
            BY <1>1, <1>4 DEF AttendedInv, Attended
      <2>2. CASE v # w
            BY <1>2, <2>1, <2>2
      <2>3. CASE v = w
            <3>1. ASSUME Check(w) PROVE Holds(w, s)'
                  <4>1. PICK ok \in BOOLEAN :
                            /\ ok \/ struck' = struck \cup {"rate"}
                            /\ ok /\ s \in Supported =>
                                  Go(w, "verify") /\ job' = job
                        BY <2>1, <2>3, <3>1
                        DEF Check, KnownCurrency, AlreadyRecorded,
                            MappedSession, Answer, Strikes
                  <4>2. s \in Supported
                        BY <1>1, SMTT(30) DEF Excused
                  <4>3. ok
                        BY <4>1 DEF Excused
                  <4> QED
                      BY <2>1, <2>3, <4>1, <4>2, <4>3
            <3>2. ASSUME VerifyFound(w) PROVE Holds(w, s)'
                  BY <2>1, <2>3, <3>2
                  DEF VerifyFound, AlreadyRecorded, MappedSession
            <3>3. ASSUME VerifyFailed(w) PROVE Holds(w, s)'
                  BY <2>1, <2>3, <3>3 DEF VerifyFailed, AfterAttempts
            <3>4. ASSUME Create(w) PROVE Holds(w, s)'
                  BY <2>1, <2>3, <3>4 DEF Create, AfterCreate
            <3>5. ASSUME GetBalance(w) PROVE Holds(w, s)'
                  BY <2>1, <2>3, <3>5 DEF GetBalance
            <3>6. ASSUME UpdateBalance(w) PROVE Holds(w, s)'
                  BY <2>1, <2>3, <3>6 DEF UpdateBalance, AfterBalance
            <3>7. ASSUME CompleteSession(w) PROVE Holds(w, s)'
                  BY <2>1, <2>3, <3>7
                  DEF CompleteSession, FinalStatus, Outcome
            <3>8. ASSUME Reset(w) PROVE FALSE
                  <4>1. PICK ok, applied \in BOOLEAN :
                            /\ ok => applied
                            /\ ok \/ struck' = struck \cup {"reset"}
                            /\ applied =>
                                  status' = [status EXCEPT ![s] = "pending"]
                        BY <2>1, <2>3, <3>8
                        DEF Reset, ResetStatus, Outcome, Strikes
                  <4>2. ok
                        BY <4>1 DEF Excused
                  <4> QED
                      BY <4>1, <4>2
            <3>9. pc[w] \in Holding
                  BY <2>1, <2>3
            <3> QED
                BY <2>1, <2>3, <3>1, <3>2, <3>3, <3>4, <3>5, <3>6, <3>7, <3>8,
                   <3>9 DEF Worker, Begin, Claim, Announce
      <2> QED
          BY <2>2, <2>3
<1> QED
    BY <1>3, <1>4

LEMMA AttendedStep == Typed /\ AttendedInv /\ [Next]_vars => AttendedInv'
<1> SUFFICES ASSUME Typed, AttendedInv, [Next]_vars,
                    NEW s \in Sessions, status'[s] = "processing",
                    ~Excused(s)'
             PROVE  \E w \in Workers : Holds(w, s)'
    BY DEF AttendedInv, Attended
<1>1. ~Excused(s)
      BY ExcusedStays
<1>2. status[s] = "processing" => \E w \in Workers : Holds(w, s)
      BY <1>1 DEF AttendedInv, Attended
<1>3. CASE (\E r \in Sessions : Pay(r) \/ Age(r)) \/ UNCHANGED vars
      BY <1>2, <1>3 DEF Pay, Age, vars, Holds, dbVars, workerVars
<1>4. CASE Poller
      <2>1. UNCHANGED <<pc, job>>
            BY <1>4 DEF Poller, LoadPage, SkipRow, ExpireRow, BatchRow,
                    Dispatch, workerVars
      <2> QED
          BY <1>2, <1>4, <2>1, PollerAttended DEF Holds
<1>5. ASSUME NEW w \in Workers, Worker(w)
      PROVE  \E v \in Workers : Holds(v, s)'
      BY <1>5, WorkerAttended
<1>6. ~Crash
      BY DEF Crash, Excused, Typed, TypeOK
<1> QED
    BY <1>3, <1>4, <1>5, <1>6 DEF Next

\* Only a crash, an unsupported currency, or a failed commit, rate request or
\* reset leaves a session in "processing" with nobody working on it.
THEOREM StrandedForAReasonCorrect == Spec => []StrandedForAReason
BY AlwaysTyped, InitAttended, AttendedStep, AttendedIsEnough, PTL DEF Spec
=============================================================================
