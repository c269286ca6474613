-------------------- MODULE WithdrawalVerificationProofs --------------------
(***************************************************************************)
(* Proofs about WithdrawalVerification, for any sets of withdrawals, users *)
(* and workers and any bounds: type correctness, why the poller never      *)
(* fails a withdrawal that a worker has, or will have, in hand, why a      *)
(* withdrawal is debited and its reservation released once, and that it is *)
(* not abandoned.                                                          *)
(***************************************************************************)
EXTENDS WithdrawalVerification, TLAPS

USE WithdrawalsAssumption, BoundsAssumption

-----------------------------------------------------------------------------
(* Type correctness.                                                        *)

\* A worker has a withdrawal whenever it is not idle.
JobOK == \A w \in Workers : pc[w] # "idle" => job[w] \in Withdrawals

\* What a worker is about to debit is there in the balance it read.
ReadOK == \A w \in Workers : pc[w] = "debit" => Sufficient(read[w], job[w])

\* markWithdrawalFailed has a withdrawal exactly while it runs.
CurOK == scan \in {"unreserve", "log", "again"} <=> cur \in Withdrawals

Typed == TypeOK /\ JobOK /\ ReadOK /\ CurOK

LEMMA InitTyped == Init => Typed
BY DEF Init, Typed, TypeOK, JobOK, ReadOK, CurOK, Statuses, Steps, FaultPoints,
       Reading, NoReading

LEMMA PollerTyped == Typed /\ Poller => Typed'
<1> SUFFICES ASSUME Typed, Poller PROVE Typed'
    OBVIOUS
<1> USE DEF Typed, TypeOK, JobOK, ReadOK, CurOK, dbVars, moneyVars, worldVars,
        workerVars, ghostVars, faultVars, pollerVars
<1>1. CASE LoadPage
      BY <1>1, SMTT(30) DEF LoadPage
<1>2. ASSUME NEW x \in Withdrawals, SkipRow(x) PROVE Typed'
      BY <1>2, SMTT(30) DEF SkipRow
<1>3. ASSUME NEW x \in Withdrawals, BatchRow(x) PROVE Typed'
      BY <1>3, SMTT(30) DEF BatchRow
<1>4. ASSUME NEW x \in Withdrawals, FailRow(x) PROVE Typed'
      BY <1>4, SMTT(30) DEF FailRow, Outcome, Strikes, Statuses, Put, AfterFail
<1>5. CASE Unreserve
      BY <1>5, SMTT(30)
      DEF Unreserve, Outcome, Strikes, Statuses, Release, Disturbs, Failed
<1>6. CASE LogRelease
      BY <1>6, SMTT(30) DEF LogRelease, InsertLog
<1>7. CASE FailAgain
      BY <1>7, SMTT(30)
      DEF FailAgain, Outcome, Strikes, Statuses, Put, Failed
<1>8. CASE Dispatch
      BY <1>8, SMTT(30) DEF Dispatch, Answer, Strikes
<1> QED
    BY <1>1, <1>2, <1>3, <1>4, <1>5, <1>6, <1>7, <1>8 DEF Poller

LEMMA WorkerTyped ==
    ASSUME Typed, NEW w \in Workers, Worker(w)
    PROVE  Typed'
<1> USE DEF Typed, TypeOK, JobOK, ReadOK, CurOK, dbVars, moneyVars, worldVars,
        workerVars, ghostVars, faultVars, pollerVars, At, Go, Return, Outcome,
        Answer, Strikes, Statuses, Steps
<1>0. NoReading \in Reading
      BY DEF NoReading, Reading
<1>1. ASSUME NEW x \in Withdrawals, Begin(w, x) PROVE Typed'
      <2>1. faults' \in 0..MaxFaults /\ struck' \subseteq Faulty
            BY <1>1 DEF Begin
      <2>2. backlog' = [backlog EXCEPT ![x] = @ - 1] /\ backlog[x] > 0
            BY <1>1 DEF Begin
      <2>3. backlog' \in [Withdrawals -> 0..MaxBacklog]
            BY <2>2
      <2>4. /\ pc' \in [Workers -> Steps]
            /\ job' \in [Workers -> Withdrawals \cup {NoWithdrawal}]
            /\ seen' \in [Workers -> Statuses]
            /\ JobOK' /\ ReadOK'
            BY <1>1, SMTT(30) DEF Begin, StatusOf
      <2>5. UNCHANGED <<dbVars, worldVars, pollerVars, attempt, read, notified,
                        crashes, ghostVars>>
            BY <1>1, SMTT(30) DEF Begin
      <2> QED
            BY <2>1, <2>3, <2>4, <2>5
<1>2. CASE Claim(w)
      BY <1>0, <1>2, SMTT(30) DEF Claim, Put
<1>3. CASE Check(w)
      BY <1>0, <1>3, SMTT(30) DEF Check
<1>4. CASE VerifyFound(w)
      BY <1>0, <1>4, SMTT(30) DEF VerifyFound
<1>5. CASE VerifyFailed(w)
      BY <1>0, <1>5, SMTT(30) DEF VerifyFailed, RetriesLeft, AfterAttempts
<1>6. CASE Create(w)
      BY <1>0, <1>6, SMTT(30) DEF Create, AfterCreate
<1>7. CASE GetBalance(w)
      <2>1. PICK x \in Withdrawals, r \in Reading :
                /\ x = job[w] /\ r = ReadBalance(Owner[x])
            BY <1>7 DEF GetBalance, ReadBalance, Reading
      <2>2. \/ /\ Sufficient(r, x)
               /\ pc' = [pc EXCEPT ![w] = "debit"]
               /\ read' = [read EXCEPT ![w] = r]
            \/ pc' = [pc EXCEPT ![w] = "reset"] /\ UNCHANGED read
            BY <1>7, <2>1 DEF GetBalance
      <2>3. pc' \in [Workers -> Steps] /\ read' \in [Workers -> Reading]
            BY <2>2
      <2>4. JobOK' /\ ReadOK'
            BY <1>7, <2>1, <2>2 DEF GetBalance
      <2>5. faults' \in 0..MaxFaults /\ struck' \subseteq Faulty
            BY <1>7 DEF GetBalance
      <2> QED
          BY <1>7, <2>3, <2>4, <2>5 DEF GetBalance
<1>8. CASE UpdateBalance(w)
      <2>1. PICK x \in Withdrawals, u \in Users, ok, applied \in BOOLEAN :
                /\ x = job[w] /\ u = Owner[x] /\ pc[w] = "debit"
                /\ Outcome("debit", ok, applied)
                /\ IF applied
                     THEN /\ WriteBalance(u, NewAmount(read[w].cents, x),
                                             NewAmount(read[w].units, x))
                          /\ out' = [out EXCEPT ![u] = @ + Amount[x]]
                          /\ debits' = [debits EXCEPT ![x] = @ + 1]
                     ELSE UNCHANGED <<balance, units, out, debits>>
                /\ halfway' \in {halfway, halfway \cup {x}}
                /\ disturbed' \in {disturbed, disturbed \cup {u}}
                /\ pc' = [pc EXCEPT ![w] = AfterDebit(ok)]
                /\ read' = [read EXCEPT ![w] = NoReading]
            BY <1>8 DEF UpdateBalance, Disturbs
      <2>2. /\ NewAmount(read[w].cents, x) \in Nat
            /\ NewAmount(read[w].units, x) \in Nat
            /\ Amount[x] \in Nat
            BY <2>1 DEF NewAmount, Sufficient, Reading
      <2>3. /\ balance' \in [Users -> Nat] /\ units' \in [Users -> Nat]
            /\ out' \in [Users -> Nat] /\ debits' \in [Withdrawals -> Nat]
            BY <2>1, <2>2 DEF WriteBalance
      <2>4. /\ pc' \in [Workers -> Steps] /\ pc'[w] # "debit"
            /\ read' \in [Workers -> Reading]
            /\ \A v \in Workers \ {w} : pc'[v] = pc[v] /\ read'[v] = read[v]
            BY <1>0, <2>1 DEF AfterDebit
      <2>5. JobOK' /\ ReadOK'
            BY <1>8, <2>1, <2>4 DEF UpdateBalance
      <2>6. faults' \in 0..MaxFaults /\ struck' \subseteq Faulty
            BY <2>1
      <2> QED
          BY <1>8, <2>1, <2>3, <2>4, <2>5, <2>6 DEF UpdateBalance
<1>9. CASE ReleaseReserved(w)
      <2>1. PICK x \in Withdrawals, u \in Users, ok, applied \in BOOLEAN :
                /\ x = job[w] /\ u = Owner[x] /\ pc[w] = "release"
                /\ Outcome("release", ok, applied)
                /\ \/ /\ reserved[u] >= Reserved[x]
                      /\ reserved' = [reserved EXCEPT ![u] = @ - Reserved[x]]
                      /\ balance' = [balance EXCEPT ![u] = @ + Reserved[x]]
                      /\ released' = [released EXCEPT ![x] = @ + 1]
                   \/ UNCHANGED <<reserved, balance, released>>
                /\ halfway' \in {halfway, halfway \cup {x}}
                /\ disturbed' \in {disturbed, disturbed \cup {u}}
                /\ pc' = [pc EXCEPT ![w] = AfterRelease(ok)]
            BY <1>9 DEF ReleaseReserved, Release, Disturbs
      <2>2. /\ balance' \in [Users -> Nat] /\ reserved' \in [Users -> Nat]
            /\ released' \in [Withdrawals -> Nat]
            /\ disturbed' \subseteq Users
            BY <2>1
      <2>3. /\ pc' \in [Workers -> Steps] /\ pc'[w] # "debit"
            /\ \A v \in Workers \ {w} : pc'[v] = pc[v]
            BY <2>1 DEF AfterRelease
      <2>4. JobOK' /\ ReadOK'
            BY <1>9, <2>1, <2>3 DEF ReleaseReserved
      <2>5. faults' \in 0..MaxFaults /\ struck' \subseteq Faulty
            BY <2>1
      <2> QED
          BY <1>9, <2>1, <2>2, <2>3, <2>4, <2>5 DEF ReleaseReserved
<1>10. CASE Complete(w)
      BY <1>0, <1>10, SMTT(30) DEF Complete, Put, FinalStatus
<1>11. CASE Announce(w)
      BY <1>0, <1>11, SMTT(30) DEF Announce
<1>12. CASE Reset(w)
      BY <1>0, <1>12, SMTT(30) DEF Reset, Put, ResetStatus
<1> QED
    BY <1>1, <1>2, <1>3, <1>4, <1>5, <1>6, <1>7, <1>8, <1>9, <1>10, <1>11,
       <1>12 DEF Worker

LEMMA TypedStep == Typed /\ [Next]_vars => Typed'
<1> SUFFICES ASSUME Typed, [Next]_vars PROVE Typed'
    OBVIOUS
<1> USE DEF Typed, TypeOK, JobOK, ReadOK, CurOK, dbVars, moneyVars, worldVars,
        ghostVars, faultVars
<1>1. ASSUME NEW x \in Withdrawals, Request(x) PROVE Typed'
      BY <1>1, SMTT(30) DEF Request, Reserve, Disturbs, Statuses, workerVars, pollerVars
<1>2. ASSUME NEW x \in Withdrawals, Send(x) \/ Confirm(x) \/ Age(x)
      PROVE  Typed'
      BY <1>2, SMTT(30) DEF Send, Confirm, Age, workerVars, pollerVars
<1>3. CASE Poller
      BY <1>3, PollerTyped
<1>4. ASSUME NEW w \in Workers, Worker(w) PROVE Typed'
      BY <1>4, WorkerTyped
<1>5. CASE Crash
      BY <1>5, SMTT(30) DEF Crash, Statuses, Steps, Reading, NoReading
<1>6. CASE UNCHANGED vars
      BY <1>6 DEF vars, workerVars, pollerVars
<1> QED
    BY <1>1, <1>2, <1>3, <1>4, <1>5, <1>6 DEF Next

LEMMA AlwaysTyped == Spec => []Typed
BY InitTyped, TypedStep, PTL DEF Spec

\* Every variable keeps its type: in particular no balance, no reservation and
\* no number of units becomes negative, whatever was read before it is written.
THEOREM TypeCorrect == Spec => []TypeOK
BY AlwaysTyped, PTL DEF Typed

-----------------------------------------------------------------------------
(* The poller fails withdrawals from a page that may be stale, and workers  *)
(* never look at "failed".  What keeps them apart is the hash: a withdrawal *)
(* that a worker has, will have or had in hand was on a page with its hash, *)
(* a hash is never taken back, and a page loaded later shows it.            *)

Touched(x) ==
    \/ x \in batch \/ backlog[x] > 0 \/ \E w \in Workers : job[w] = x
    \/ status[x] \in {"processing", "completed"}
    \/ rows[x] > 0 \/ debits[x] > 0
    \/ released[x] > 0 /\ status[x] # "failed"

Handled(x) ==
    /\ x \in sent
    /\ x \in todo => x \in hashed
    /\ status[x] \notin {"failed", "absent"}

HandledOK == \A x \in Withdrawals : Touched(x) => Handled(x)

\* What the page says of a row stays true of the database.
HashedOK ==
    \A x \in hashed : x \in sent /\ status[x] \notin {"failed", "absent"}
TodoOK == \A x \in todo : status[x] \notin {"failed", "absent"}

FailedOK ==
    \A x \in Withdrawals :
        "failed" \in notified[x] \/ cur = x => status[x] = "failed"

\* The poller releases the reservation of a withdrawal once.
FreshOK == scan = "unreserve" => released[cur] = 0

PageInv == HandledOK /\ HashedOK /\ TodoOK /\ FailedOK /\ FreshOK

LEMMA InitPage == Init => PageInv
BY DEF Init, PageInv, HandledOK, HashedOK, TodoOK, FailedOK, FreshOK, Touched,
       Handled

\* A worker changes nothing but the withdrawal it has, or takes from the
\* backlog, and never writes "failed".
LEMMA WorkerTouches ==
    ASSUME Typed, NEW w \in Workers, Worker(w)
    PROVE  /\ UNCHANGED <<sent, pollerVars>>
           /\ \A x \in Withdrawals :
                 /\ Touched(x)' => Touched(x)
                 /\ \/ status'[x] = status[x]
                    \/ Touched(x) /\ status'[x] \notin {"failed", "absent"}
                 /\ released'[x] = released[x] \/ Touched(x)
                 /\ "failed" \in notified'[x] => "failed" \in notified[x]
<1> USE DEF Typed, TypeOK, JobOK, Touched, dbVars, moneyVars, pollerVars,
        workerVars, ghostVars, At, Go, Return
<1>1. ASSUME NEW x \in Withdrawals, Begin(w, x)
      PROVE  /\ UNCHANGED <<dbVars, pollerVars, notified, ghostVars>>
             /\ \A y \in Withdrawals : Touched(y)' => Touched(y)
      <2>1. /\ backlog' = [backlog EXCEPT ![x] = @ - 1] /\ backlog[x] > 0
            /\ job' \in {job, [job EXCEPT ![w] = x]}
            /\ UNCHANGED <<dbVars, pollerVars, notified, ghostVars>>
            BY <1>1 DEF Begin
      <2>2. /\ \A y \in Withdrawals : backlog'[y] > 0 => backlog[y] > 0
            /\ \A v \in Workers : job'[v] \in {job[v], x}
            BY <2>1
      <2> QED
          BY <2>1, <2>2
<1>2. CASE Claim(w)
      BY <1>2, SMTT(30) DEF Claim, Put
<1>3. CASE Check(w)
      BY <1>3, SMTT(30) DEF Check
<1>4. CASE VerifyFound(w)
      BY <1>4, SMTT(30) DEF VerifyFound
<1>5. CASE VerifyFailed(w)
      BY <1>5, SMTT(30) DEF VerifyFailed
<1>6. CASE Create(w)
      BY <1>6, SMTT(30) DEF Create
<1>7. CASE GetBalance(w)
      BY <1>7, SMTT(30) DEF GetBalance
<1>8. CASE UpdateBalance(w)
      BY <1>8, SMTT(30) DEF UpdateBalance
<1>9. CASE ReleaseReserved(w)
      BY <1>9, SMTT(30) DEF ReleaseReserved, Release
<1>10. CASE Complete(w)
      BY <1>10, SMTT(30) DEF Complete, Put, FinalStatus
<1>11. CASE Announce(w)
      BY <1>11, SMTT(30) DEF Announce
<1>12. CASE Reset(w)
      BY <1>12, SMTT(30) DEF Reset, Put, ResetStatus
<1> QED
    BY <1>1, <1>2, <1>3, <1>4, <1>5, <1>6, <1>7, <1>8, <1>9, <1>10, <1>11,
       <1>12 DEF Worker

LEMMA WorkerPage ==
    ASSUME Typed, PageInv, NEW w \in Workers, Worker(w)
    PROVE  PageInv'
<1> USE DEF PageInv, HandledOK, HashedOK, TodoOK, FailedOK, FreshOK
<1>1. UNCHANGED <<sent, todo, hashed, cur, scan>>
      BY WorkerTouches DEF pollerVars
<1>2. HandledOK'
      BY <1>1, WorkerTouches DEF Handled
<1>3. HashedOK' /\ TodoOK'
      BY <1>1, WorkerTouches DEF Typed, TypeOK
<1>4. \A x \in Withdrawals : status[x] = "failed" => ~Touched(x)
      BY DEF Handled
<1>5. FailedOK' /\ FreshOK'
      BY <1>1, <1>4, WorkerTouches DEF Typed, CurOK
<1> QED
    BY <1>2, <1>3, <1>5

LEMMA FailRowPage ==
    ASSUME Typed, PageInv, NEW x \in Withdrawals, FailRow(x)
    PROVE  PageInv'
<1> USE DEF Typed, TypeOK, PageInv, HandledOK, HashedOK, TodoOK, FailedOK, FreshOK
<1>1. PICK ok, applied \in BOOLEAN :
          /\ ok => applied
          /\ x \in todo /\ x \notin hashed /\ scan = "walk"
          /\ todo' = todo \ {x}
          /\ IF ok THEN scan' = "unreserve" /\ cur' = x
                   ELSE scan' = "walk" /\ cur' = NoWithdrawal
          /\ status' = IF applied THEN [status EXCEPT ![x] = "failed"]
                                  ELSE status
      BY DEF FailRow, Outcome, AfterFail, Put, NoHash
<1>2. UNCHANGED <<sent, rows, hashed, batch, backlog, job, notified, debits,
                  released>>
      BY DEF FailRow, workerVars, ghostVars
<1>3. ~Touched(x) /\ released[x] = 0
      BY <1>1 DEF Touched, Handled
<1>4. \A y \in Withdrawals \ {x} : status'[y] = status[y]
      BY <1>1
<1>5. \A y \in Withdrawals : Touched(y)' => Touched(y) /\ y # x
      BY <1>1, <1>2, <1>3, <1>4 DEF Touched
<1>6. HandledOK'
      BY <1>1, <1>2, <1>4, <1>5 DEF Handled
<1>7. HashedOK' /\ TodoOK'
      BY <1>1, <1>2, <1>4
<1>8. FailedOK'
      BY <1>1, <1>2
<1>9. FreshOK'
      BY <1>1, <1>2, <1>3
<1> QED
    BY <1>6, <1>7, <1>8, <1>9

LEMMA PollerPage == Typed /\ PageInv /\ Poller => PageInv'
<1> SUFFICES ASSUME Typed, PageInv, Poller PROVE PageInv'
    OBVIOUS
<1> USE DEF Typed, TypeOK, CurOK, PageInv, HandledOK, HashedOK, TodoOK,
        FailedOK, FreshOK, Touched, Handled, dbVars, moneyVars, workerVars,
        ghostVars
<1>1. CASE LoadPage
      BY <1>1, SMTT(30) DEF LoadPage, Listed
<1>2. ASSUME NEW x \in Withdrawals, SkipRow(x) PROVE PageInv'
      BY <1>2, SMTT(30) DEF SkipRow
<1>3. ASSUME NEW x \in Withdrawals, BatchRow(x) PROVE PageInv'
      BY <1>3, SMTT(30) DEF BatchRow, NoHash
<1>4. ASSUME NEW x \in Withdrawals, FailRow(x) PROVE PageInv'
      BY <1>4, FailRowPage
<1>5. CASE Unreserve
      BY <1>5, SMTT(30) DEF Unreserve, Release, Failed
<1>6. CASE LogRelease
      BY <1>6, SMTT(30) DEF LogRelease
<1>7. CASE FailAgain
      BY <1>7, SMTT(30) DEF FailAgain, Put, Failed
<1>8. CASE Dispatch
      BY <1>8, SMTT(30) DEF Dispatch
<1> QED
    BY <1>1, <1>2, <1>3, <1>4, <1>5, <1>6, <1>7, <1>8 DEF Poller

LEMMA PageStep == Typed /\ PageInv /\ [Next]_vars => PageInv'
<1> SUFFICES ASSUME Typed, PageInv, [Next]_vars PROVE PageInv'
    OBVIOUS
<1> USE DEF Typed, TypeOK, CurOK, PageInv, HandledOK, HashedOK, TodoOK,
        FailedOK, FreshOK, Touched, Handled, dbVars, moneyVars, worldVars,
        pollerVars, workerVars, ghostVars
<1>1. ASSUME NEW x \in Withdrawals, Request(x) PROVE PageInv'
      BY <1>1, SMTT(30) DEF Request
<1>2. ASSUME NEW x \in Withdrawals, Send(x) PROVE PageInv'
      BY <1>2, SMTT(30) DEF Send
<1>3. ASSUME NEW x \in Withdrawals, Confirm(x) \/ Age(x) PROVE PageInv'
      BY <1>3, SMTT(30) DEF Confirm, Age
<1>4. CASE Poller
      BY <1>4, PollerPage
<1>5. ASSUME NEW w \in Workers, Worker(w) PROVE PageInv'
      BY <1>5, WorkerPage
<1>6. CASE Crash
      BY <1>6, SMTT(30) DEF Crash
<1>7. CASE UNCHANGED vars
      BY <1>7 DEF vars
<1> QED
    BY <1>1, <1>2, <1>3, <1>4, <1>5, <1>6, <1>7 DEF Next

LEMMA AlwaysPage == Spec => []PageInv
BY AlwaysTyped, InitPage, PageStep, PTL DEF Spec

\* No withdrawal is failed, nor its client told so, before or after it was
\* recorded or debited, however old the page that the poller fails it from.
THEOREM NeverFailedAndDebitedCorrect == Spec => []NeverFailedAndDebited
<1>1. Typed /\ PageInv => NeverFailedAndDebited
      BY DEF Typed, TypeOK, PageInv, HandledOK, FailedOK, Touched, Handled,
             NeverFailedAndDebited
<1> QED
    BY <1>1, AlwaysTyped, AlwaysPage, PTL

-----------------------------------------------------------------------------
(* The way into "failed" and out of it.                                     *)

LEMMA FailedFinalStep ==
    ASSUME Typed, PageInv, [Next]_vars, NEW x \in Withdrawals
    PROVE  /\ status[x] = "failed" => status'[x] = "failed"
           /\ status'[x] = "failed" => status[x] \in {"pending", "failed"}
<1> USE DEF Typed, TypeOK, Statuses
<1>1. status[x] = "failed" => ~Touched(x)
      BY DEF PageInv, HandledOK, Handled
<1>2. ASSUME NEW w \in Workers, Worker(w)
      PROVE  /\ status[x] = "failed" => status'[x] = "failed"
             /\ status'[x] = "failed" => status[x] = "failed"
      BY <1>1, <1>2, WorkerTouches
<1>3. ASSUME NEW y \in Withdrawals, FailRow(y)
      PROVE  /\ status[x] = "failed" => status'[x] = "failed"
             /\ status'[x] = "failed" => status[x] \in {"pending", "failed"}
      <2>1. y \in todo /\ y \notin hashed
            BY <1>3 DEF FailRow, NoHash
      <2>2. status[y] = "pending"
            BY <2>1 DEF PageInv, HandledOK, TodoOK, Touched, Handled
      <2> QED
          BY <1>3, <2>2 DEF FailRow, Put
<1>4. CASE FailAgain
      BY <1>4 DEF FailAgain, Put, CurOK, PageInv, FailedOK
<1>5. ASSUME NEW y \in Withdrawals, Request(y)
      PROVE  /\ status[x] = "failed" => status'[x] = "failed"
             /\ status'[x] = "failed" => status[x] = "failed"
      BY <1>5 DEF Request
<1>6. CASE UNCHANGED status
      BY <1>6
<1> QED
    BY <1>2, <1>3, <1>4, <1>5, <1>6
    DEF Next, Poller, LoadPage, SkipRow, BatchRow, Unreserve, LogRelease,
        Dispatch, Send, Confirm, Age, Crash, vars, dbVars

\* "failed" is final, and only a withdrawal that is pending becomes failed.
THEOREM FailedIsFinalCorrect == Spec => FailedIsFinal
<1>1. Typed /\ PageInv /\ [Next]_vars =>
        [\A x \in Withdrawals :
            /\ status[x] = "failed" => status'[x] = "failed"
            /\ status'[x] = "failed" => status[x] \in {"pending", "failed"}
        ]_vars
      BY FailedFinalStep
<1> QED
    BY <1>1, AlwaysTyped, AlwaysPage, PTL DEF Spec, FailedIsFinal

-----------------------------------------------------------------------------
(* Unless it is in raced, a withdrawal has at most one holder and is not    *)
(* pending while it has one; unless it is in halfway too, one that was      *)
(* debited or released is not pending and its only possible holder is past  *)
(* that statement.                                                          *)

Holds(w, x) == job[w] = x /\ pc[w] \in Holding

SeenOK == \A w \in Workers : pc[w] = "claim" => seen[w] = "pending"

LoneHolder ==
    \A x \in Withdrawals \ raced, v, w \in Workers :
        Holds(v, x) /\ Holds(w, x) => v = w

HeldNotPending ==
    \A x \in Withdrawals \ raced, w \in Workers :
        Holds(w, x) => status[x] # "pending"

SpentOK(x) ==
    /\ debits[x] <= 1 /\ released[x] <= 1
    /\ debits[x] = 1 =>
          /\ status[x] # "pending"
          /\ \A w \in Workers : Holds(w, x) => pc[w] \in {"release", "complete"}
    /\ released[x] = 1 =>
          /\ status[x] # "pending"
          /\ \A w \in Workers : Holds(w, x) => pc[w] = "complete"

SpendingOK == \A x \in Withdrawals \ (raced \cup halfway) : SpentOK(x)

OnceInv == SeenOK /\ LoneHolder /\ HeldNotPending /\ SpendingOK

LEMMA InitOnce == Init => OnceInv
BY DEF Init, OnceInv, SeenOK, LoneHolder, HeldNotPending, SpendingOK, SpentOK,
       Holds, Holding

LEMMA PollerOnce == Typed /\ PageInv /\ OnceInv /\ Poller => OnceInv'
<1> SUFFICES ASSUME Typed, PageInv, OnceInv, Poller PROVE OnceInv'
    OBVIOUS
<1>1. UNCHANGED <<pc, job, seen, debits, raced, halfway>>
      BY DEF Poller, LoadPage, SkipRow, BatchRow, FailRow, Unreserve,
             LogRelease, FailAgain, Dispatch, workerVars, ghostVars
<1>2. \A x \in Withdrawals : status'[x] # status[x] => status'[x] = "failed"
      BY DEF Poller, LoadPage, SkipRow, BatchRow, FailRow, Unreserve,
             LogRelease, FailAgain, Dispatch, Put, dbVars, Typed, TypeOK
<1>3. SeenOK' /\ LoneHolder'
      BY <1>1 DEF OnceInv, SeenOK, LoneHolder, Holds
<1>4. HeldNotPending'
      BY <1>1, <1>2 DEF OnceInv, HeldNotPending, Holds
<1>5. \A x \in Withdrawals : released'[x] # released[x] =>
          /\ released[x] = 0 /\ released'[x] = 1
          /\ status[x] = "failed"
          /\ \A w \in Workers : job[w] # x
      <2>1. ASSUME NEW x \in Withdrawals, released'[x] # released[x]
            PROVE  scan = "unreserve" /\ x = cur /\ released'[x] = released[x] + 1
            BY <2>1
            DEF Poller, LoadPage, SkipRow, BatchRow, FailRow, Unreserve,
                LogRelease, FailAgain, Dispatch, Release, ghostVars, Typed,
                TypeOK
      <2>2. scan = "unreserve" /\ cur \in Withdrawals =>
                /\ released[cur] = 0 /\ status[cur] = "failed"
                /\ ~Touched(cur)
            BY DEF PageInv, FreshOK, FailedOK, HandledOK, Handled
      <2> QED
          BY <2>1, <2>2 DEF Touched
<1>6. SpendingOK'
      BY <1>1, <1>2, <1>5 DEF OnceInv, SpendingOK, SpentOK, Holds
<1> QED
    BY <1>3, <1>4, <1>6 DEF OnceInv

\* The steps of a worker that change no status, debit nothing and release
\* nothing keep the invariant because they add no holder.
LEMMA QuietOnce ==
    ASSUME Typed, OnceInv, NEW w \in Workers, NEW step \in Steps \ {"claim"},
           pc[w] \in (Holding \cup {"announce"}) \ {"release", "complete"},
           pc' = [pc EXCEPT ![w] = step],
           pc[w] = "announce" => step = "idle",
           \/ UNCHANGED <<job, seen>>
           \/ /\ step = "idle"
              /\ job' = [job EXCEPT ![w] = NoWithdrawal]
              /\ seen' = [seen EXCEPT ![w] = "pending"],
           UNCHANGED <<status, debits, released, raced, halfway>>
    PROVE  OnceInv'
<1>1. \A v \in Workers, x \in Withdrawals : Holds(v, x)' => Holds(v, x)
      BY DEF Holds, Holding, Typed, TypeOK
<1>2. SeenOK'
      BY DEF Typed, TypeOK, OnceInv, SeenOK
<1>3. LoneHolder' /\ HeldNotPending'
      BY <1>1 DEF OnceInv, LoneHolder, HeldNotPending
<1>4. \A v \in Workers : pc[v] \in {"release", "complete"} => pc'[v] = pc[v]
      BY DEF Typed, TypeOK
<1>5. SpendingOK'
      BY <1>1, <1>4 DEF OnceInv, SpendingOK, SpentOK
<1> QED
    BY <1>2, <1>3, <1>5 DEF OnceInv

LEMMA BeginOnce ==
    ASSUME Typed, OnceInv, NEW w \in Workers, NEW x \in Withdrawals,
           Begin(w, x)
    PROVE  OnceInv'
<1> USE DEF Begin, At, Go, StillPending, StatusOf, dbVars, ghostVars
<1>1. \A v \in Workers, y \in Withdrawals : Holds(v, y)' <=> Holds(v, y)
      BY DEF Holds, Holding, Typed, TypeOK
<1>2. SeenOK'
      BY DEF Typed, TypeOK, OnceInv, SeenOK
<1>3. LoneHolder' /\ HeldNotPending'
      BY <1>1 DEF OnceInv, LoneHolder, HeldNotPending
<1>4. \A v \in Workers, y \in Withdrawals : Holds(v, y) => pc'[v] = pc[v]
      BY DEF Holds, Holding, Typed, TypeOK
<1>5. SpendingOK'
      BY <1>1, <1>4 DEF OnceInv, SpendingOK, SpentOK
<1> QED
    BY <1>2, <1>3, <1>5 DEF OnceInv

LEMMA ClaimOnce ==
    ASSUME Typed, OnceInv, NEW w \in Workers, Claim(w)
    PROVE  OnceInv'
<1>1. PICK x \in Withdrawals :
          /\ x = job[w] /\ pc[w] = "claim" /\ seen[w] = "pending"
      BY DEF Claim, At, Typed, JobOK, OnceInv, SeenOK
<1>2. PICK ok, applied \in BOOLEAN :
          /\ ok => applied
          /\ status' = IF applied THEN [status EXCEPT ![x] = "processing"]
                                  ELSE status
          /\ raced' = IF applied /\ status[x] # "pending" THEN raced \cup {x}
                                                          ELSE raced
          /\ IF ok THEN /\ pc' = [pc EXCEPT ![w] = "check"]
                        /\ UNCHANGED <<job, seen>>
                   ELSE /\ pc' = [pc EXCEPT ![w] = "idle"]
                        /\ job' = [job EXCEPT ![w] = NoWithdrawal]
                        /\ seen' = [seen EXCEPT ![w] = "pending"]
      BY <1>1 DEF Claim, Go, Return, Outcome, Put
<1>3. UNCHANGED <<debits, released, halfway>>
      BY DEF Claim
<1> USE DEF Typed, TypeOK
<1>4. \A v \in Workers \ {w}, y \in Withdrawals :
          (Holds(v, y)' <=> Holds(v, y)) /\ pc'[v] = pc[v]
      BY <1>2 DEF Holds
<1>5. \A y \in Withdrawals : ~Holds(w, y)
      BY <1>1 DEF Holds, Holding
<1>6. \A y \in Withdrawals : Holds(w, y)' => y = x /\ status'[y] = "processing"
      BY <1>1, <1>2 DEF Holds, Holding
<1>7. \A y \in Withdrawals : Holds(w, y)' /\ y \notin raced' =>
          status[y] = "pending"
      BY <1>1, <1>2 DEF Holds, Holding
<1>8. \A y \in Withdrawals : status'[y] # status[y] => status'[y] = "processing"
      BY <1>2
<1>9. raced \subseteq raced'
      BY <1>2
<1>10. SeenOK'
       BY <1>2 DEF OnceInv, SeenOK
<1>11. LoneHolder'
       BY <1>4, <1>5, <1>6, <1>7, <1>9 DEF OnceInv, LoneHolder, HeldNotPending
<1>12. HeldNotPending'
       BY <1>4, <1>6, <1>8, <1>9 DEF OnceInv, HeldNotPending
<1>13. ASSUME NEW y \in Withdrawals, y \notin raced' \cup halfway'
       PROVE  SpentOK(y)'
       <2>1. SpentOK(y)
             BY <1>3, <1>9, <1>13 DEF OnceInv, SpendingOK
       <2>2. CASE Holds(w, y)'
             <3>1. debits[y] = 0 /\ released[y] = 0
                   BY <1>7, <1>13, <2>1, <2>2 DEF SpentOK
             <3> QED
                 BY <1>3, <3>1 DEF SpentOK
       <2>3. CASE ~Holds(w, y)'
             BY <1>3, <1>4, <1>8, <2>1, <2>3 DEF SpentOK
       <2> QED
           BY <2>2, <2>3
<1> QED
    BY <1>10, <1>11, <1>12, <1>13 DEF OnceInv, SpendingOK

\* The step of the lone holder that debits or releases: what it wrote is
\* excused by halfway when the worker saw an error.
LEMMA SpendOnce ==
    ASSUME Typed, OnceInv, NEW w \in Workers, NEW x \in Withdrawals,
           x = job[w], pc[w] \in {"debit", "release"},
           NEW step \in {"release", "complete", "reset"},
           pc' = [pc EXCEPT ![w] = step],
           UNCHANGED <<status, job, seen, raced>>,
           halfway \subseteq halfway',
           \A y \in Withdrawals \ {x} :
               debits'[y] = debits[y] /\ released'[y] = released[y]
    PROVE  /\ SeenOK' /\ LoneHolder' /\ HeldNotPending'
           /\ \A y \in Withdrawals \ ({x} \cup raced \cup halfway') : SpentOK(y)'
           /\ Holds(w, x)
           /\ x \notin raced => /\ status'[x] # "pending"
                                /\ \A v \in Workers : Holds(v, x)' => v = w
           /\ pc'[w] = step
<1> USE DEF Typed, TypeOK
<1>1. \A v \in Workers, y \in Withdrawals : Holds(v, y)' <=> Holds(v, y)
      BY DEF Holds, Holding
<1>2. SeenOK' /\ LoneHolder' /\ HeldNotPending'
      BY <1>1 DEF OnceInv, SeenOK, LoneHolder, HeldNotPending
<1>3. \A v \in Workers, y \in Withdrawals \ {x} : Holds(v, y) => pc'[v] = pc[v]
      BY DEF Holds
<1>4. Holds(w, x)
      BY DEF Holds, Holding
<1>5. ASSUME NEW y \in Withdrawals \ ({x} \cup raced \cup halfway')
      PROVE  SpentOK(y)'
      <2>1. y \in Withdrawals \ (raced \cup halfway) /\ y # x
            BY <1>5
      <2> QED
          BY <1>1, <1>3, <2>1 DEF OnceInv, SpendingOK, SpentOK
<1>6. x \notin raced => /\ status'[x] # "pending"
                        /\ \A v \in Workers : Holds(v, x)' => v = w
      BY <1>1, <1>4 DEF OnceInv, LoneHolder, HeldNotPending
<1> QED
    BY <1>2, <1>4, <1>5, <1>6

LEMMA UpdateBalanceOnce ==
    ASSUME Typed, OnceInv, NEW w \in Workers, UpdateBalance(w)
    PROVE  OnceInv'
<1>1. PICK x \in Withdrawals : x = job[w] /\ pc[w] = "debit"
      BY DEF UpdateBalance, At, Typed, JobOK
<1>2. PICK ok, applied \in BOOLEAN :
          /\ ok => applied
          /\ pc' = [pc EXCEPT ![w] = IF ok THEN "release" ELSE "reset"]
          /\ debits' = IF applied THEN [debits EXCEPT ![x] = @ + 1] ELSE debits
          /\ halfway' = IF applied /\ ~ok THEN halfway \cup {x} ELSE halfway
          /\ UNCHANGED <<status, job, seen, released, raced>>
      BY <1>1 DEF UpdateBalance, Outcome, Go, AfterDebit
<1> DEFINE step == IF ok THEN "release" ELSE "reset"
<1>3. /\ step \in {"release", "complete", "reset"}
      /\ pc' = [pc EXCEPT ![w] = step]
      /\ \A y \in Withdrawals \ {x} :
             debits'[y] = debits[y] /\ released'[y] = released[y]
      /\ halfway \subseteq halfway'
      /\ UNCHANGED <<status, job, seen, raced>>
      BY <1>2 DEF Typed, TypeOK
<1>4. /\ SeenOK' /\ LoneHolder' /\ HeldNotPending'
      /\ \A y \in Withdrawals \ ({x} \cup raced \cup halfway') : SpentOK(y)'
      /\ Holds(w, x)
      /\ x \notin raced => /\ status'[x] # "pending"
                           /\ \A v \in Workers : Holds(v, x)' => v = w
      /\ pc'[w] = step
      <2> HIDE DEF step
      <2> QED
          BY <1>1, <1>3, SpendOnce
<1>5. ASSUME x \notin raced' \cup halfway' PROVE SpentOK(x)'
      <2>1. SpentOK(x) /\ x \notin raced
            BY <1>2, <1>3, <1>5 DEF OnceInv, SpendingOK
      <2>2. debits[x] = 0 /\ released[x] = 0
            <3>1. /\ debits[x] <= 1 /\ debits[x] # 1
                  /\ released[x] <= 1 /\ released[x] # 1
                  BY <1>1, <2>1 DEF SpentOK, Holds, Holding
            <3> QED
                BY <3>1 DEF Typed, TypeOK
      <2>3. CASE applied
            <3>1. pc'[w] = "release" /\ debits'[x] = 1 /\ released'[x] = 0
                  BY <1>2, <1>4, <1>5, <2>2, <2>3 DEF Typed, TypeOK
            <3> QED
                BY <1>4, <2>1, <3>1 DEF SpentOK
      <2>4. CASE ~applied
            BY <1>2, <2>2, <2>4 DEF SpentOK
      <2> QED
          BY <2>3, <2>4
<1>6. SpendingOK'
      BY <1>2, <1>4, <1>5 DEF SpendingOK
<1> QED
    BY <1>4, <1>6 DEF OnceInv

LEMMA ReleaseReservedOnce ==
    ASSUME Typed, OnceInv, NEW w \in Workers, ReleaseReserved(w)
    PROVE  OnceInv'
<1>1. PICK x \in Withdrawals : x = job[w] /\ pc[w] = "release"
      BY DEF ReleaseReserved, At, Typed, JobOK
<1>2. PICK ok \in BOOLEAN :
          /\ pc' = [pc EXCEPT ![w] = IF ok THEN "complete" ELSE "reset"]
          /\ \/ released' = [released EXCEPT ![x] = @ + 1]
             \/ released' = released
          /\ halfway' = IF ok THEN halfway ELSE halfway \cup {x}
          /\ UNCHANGED <<status, job, seen, debits, raced>>
      BY <1>1 DEF ReleaseReserved, Release, Go, AfterRelease
<1> DEFINE step == IF ok THEN "complete" ELSE "reset"
<1>3. /\ step \in {"release", "complete", "reset"}
      /\ pc' = [pc EXCEPT ![w] = step]
      /\ \A y \in Withdrawals \ {x} :
             debits'[y] = debits[y] /\ released'[y] = released[y]
      /\ halfway \subseteq halfway'
      /\ UNCHANGED <<status, job, seen, raced>>
      BY <1>2 DEF Typed, TypeOK
<1>4. /\ SeenOK' /\ LoneHolder' /\ HeldNotPending'
      /\ \A y \in Withdrawals \ ({x} \cup raced \cup halfway') : SpentOK(y)'
      /\ Holds(w, x)
      /\ x \notin raced => /\ status'[x] # "pending"
                           /\ \A v \in Workers : Holds(v, x)' => v = w
      /\ pc'[w] = step
      <2> HIDE DEF step
      <2> QED
          BY <1>1, <1>3, SpendOnce
<1>5. ASSUME x \notin raced' \cup halfway' PROVE SpentOK(x)'
      <2>1. SpentOK(x) /\ x \notin raced /\ pc'[w] = "complete"
            BY <1>2, <1>3, <1>4, <1>5 DEF OnceInv, SpendingOK
      <2>2. released[x] = 0
            <3>1. /\ released[x] <= 1
                  /\ released[x] = 1 => \A v \in Workers : Holds(v, x) => pc[v] = "complete"
                  BY <2>1 DEF SpentOK
            <3>2. released[x] # 1
                  BY <1>1, <1>4, <3>1
            <3>3. released[x] \in Nat
                  BY DEF Typed, TypeOK
            <3> QED
                BY <3>1, <3>2, <3>3
      <2>3. released'[x] \in {0, 1} /\ debits'[x] = debits[x]
            BY <1>2, <2>2 DEF Typed, TypeOK
      <2> QED
          BY <1>4, <2>1, <2>3 DEF SpentOK
<1>6. SpendingOK'
      BY <1>2, <1>4, <1>5 DEF SpendingOK
<1> QED
    BY <1>4, <1>6 DEF OnceInv

LEMMA CompleteOnce ==
    ASSUME Typed, OnceInv, NEW w \in Workers, Complete(w)
    PROVE  OnceInv'
<1>1. PICK x \in Withdrawals : x = job[w] /\ pc[w] = "complete"
      BY DEF Complete, At, Typed, JobOK
<1>2. PICK ok \in BOOLEAN :
          /\ pc' = [pc EXCEPT ![w] = IF ok THEN "announce" ELSE "reset"]
          /\ status' \in {status, [status EXCEPT ![x] = "completed"]}
          /\ halfway' = IF ok THEN halfway ELSE halfway \cup {x}
          /\ UNCHANGED <<job, seen, debits, released, raced>>
      BY <1>1 DEF Complete, Put, Go, FinalStatus
<1> USE DEF Typed, TypeOK
<1>3. \A v \in Workers, y \in Withdrawals : Holds(v, y)' => Holds(v, y)
      BY <1>1, <1>2 DEF Holds, Holding
<1>4. \A y \in Withdrawals : status'[y] = status[y] \/ status'[y] = "completed"
      BY <1>2
<1>5. SeenOK' /\ LoneHolder' /\ HeldNotPending'
      BY <1>2, <1>3, <1>4 DEF OnceInv, SeenOK, LoneHolder, HeldNotPending
<1>6. x \in halfway' \/ ~Holds(w, x)'
      BY <1>1, <1>2 DEF Holds, Holding
<1>7. \A v \in Workers, y \in Withdrawals :
          Holds(v, y)' /\ y \notin halfway' => pc'[v] = pc[v]
      BY <1>1, <1>2, <1>6 DEF Holds
<1>8. halfway \subseteq halfway'
      BY <1>2
<1>9. SpendingOK'
      BY <1>2, <1>3, <1>4, <1>7, <1>8 DEF OnceInv, SpendingOK, SpentOK
<1> QED
    BY <1>5, <1>9 DEF OnceInv

LEMMA ResetOnce ==
    ASSUME Typed, OnceInv, NEW w \in Workers, Reset(w)
    PROVE  OnceInv'
<1>1. PICK x \in Withdrawals : x = job[w] /\ Holds(w, x) /\ pc[w] = "reset"
      BY DEF Typed, JobOK, Holds, Holding, Reset, At
<1>2. /\ pc' = [pc EXCEPT ![w] = "idle"]
      /\ job' = [job EXCEPT ![w] = NoWithdrawal]
      /\ seen' = [seen EXCEPT ![w] = "pending"]
      /\ status' \in {status, [status EXCEPT ![x] = "pending"]}
      /\ UNCHANGED <<debits, released, raced, halfway>>
      BY <1>1 DEF Reset, Go, Return, Put, ResetStatus, ghostVars
<1> USE DEF Typed, TypeOK
<1>3. \A v \in Workers, y \in Withdrawals :
          Holds(v, y)' => Holds(v, y) /\ v # w /\ pc'[v] = pc[v]
      BY <1>2 DEF Holds, Holding
<1>4. x \notin raced => \A v \in Workers : ~Holds(v, x)'
      BY <1>1, <1>3 DEF OnceInv, LoneHolder
<1>5. x \notin raced \cup halfway => debits[x] # 1 /\ released[x] # 1
      BY <1>1 DEF OnceInv, SpendingOK, SpentOK
<1>6. \A y \in Withdrawals \ {x} : status'[y] = status[y]
      BY <1>2
<1>7. SeenOK' /\ LoneHolder'
      BY <1>2, <1>3 DEF OnceInv, SeenOK, LoneHolder
<1>8. HeldNotPending'
      BY <1>2, <1>3, <1>4, <1>6 DEF OnceInv, HeldNotPending
<1>9. SpendingOK'
      BY <1>2, <1>3, <1>5, <1>6 DEF OnceInv, SpendingOK, SpentOK
<1> QED
    BY <1>7, <1>8, <1>9 DEF OnceInv

LEMMA WorkerOnce ==
    ASSUME Typed, OnceInv, NEW w \in Workers, Worker(w)
    PROVE  OnceInv'
<1> USE DEF At, Go, Return, Holding, Steps, dbVars, ghostVars
<1>1. ASSUME NEW x \in Withdrawals, Begin(w, x) PROVE OnceInv'
      BY <1>1, BeginOnce
<1>2. CASE Claim(w)
      BY <1>2, ClaimOnce
<1>3. CASE Check(w)
      <2>1. PICK step \in {"verify", "idle"} : Go(w, step)
            BY <1>3 DEF Check
      <2> QED
          BY <1>3, <2>1, QuietOnce DEF Check
<1>4. CASE VerifyFound(w)
      <2>1. PICK step \in {"create", "idle"} : Go(w, step)
            BY <1>4 DEF VerifyFound
      <2> QED
          BY <1>4, <2>1, QuietOnce DEF VerifyFound
<1>5. CASE VerifyFailed(w)
      <2>1. PICK step \in {"verify", "reset"} : Go(w, step)
            BY <1>5 DEF VerifyFailed, AfterAttempts, Typed, TypeOK
      <2> QED
          BY <1>5, <2>1, QuietOnce DEF VerifyFailed
<1>6. CASE Create(w)
      <2>1. PICK step \in {"getbal", "reset"} : Go(w, step)
            BY <1>6 DEF Create, AfterCreate
      <2> QED
          BY <1>6, <2>1, QuietOnce DEF Create
<1>7. CASE GetBalance(w)
      <2>1. PICK step \in {"debit", "reset"} : Go(w, step)
            BY <1>7 DEF GetBalance
      <2> QED
          BY <1>7, <2>1, QuietOnce DEF GetBalance
<1>8. CASE UpdateBalance(w)
      BY <1>8, UpdateBalanceOnce
<1>9. CASE ReleaseReserved(w)
      BY <1>9, ReleaseReservedOnce
<1>10. CASE Complete(w)
       BY <1>10, CompleteOnce
<1>11. CASE Announce(w)
       BY <1>11, QuietOnce DEF Announce
<1>12. CASE Reset(w)
       BY <1>12, ResetOnce
<1> QED
    BY <1>1, <1>2, <1>3, <1>4, <1>5, <1>6, <1>7, <1>8, <1>9, <1>10, <1>11,
       <1>12 DEF Worker

LEMMA OnceStep == Typed /\ PageInv /\ OnceInv /\ [Next]_vars => OnceInv'
<1> SUFFICES ASSUME Typed, PageInv, OnceInv, [Next]_vars PROVE OnceInv'
    OBVIOUS
<1> USE DEF OnceInv, SeenOK, LoneHolder, HeldNotPending, SpendingOK, SpentOK,
        Holds, dbVars, workerVars, ghostVars
<1>1. ASSUME NEW x \in Withdrawals, Request(x) PROVE OnceInv'
      <2>1. /\ UNCHANGED <<pc, job, seen, debits, released, raced, halfway>>
            /\ \A y \in Withdrawals \ {x} : status'[y] = status[y]
            BY <1>1 DEF Request, Typed, TypeOK
      <2>2. ~Touched(x) /\ status[x] = "absent"
            BY <1>1 DEF Request, PageInv, HandledOK, Handled
      <2>3. /\ debits[x] = 0 /\ released[x] = 0
            /\ \A w \in Workers : job[w] # x
            BY <2>2 DEF Touched, Typed, TypeOK
      <2> QED
          BY <2>1, <2>3
<1>2. ASSUME NEW x \in Withdrawals, Send(x) \/ Confirm(x) \/ Age(x)
      PROVE  OnceInv'
      BY <1>2 DEF Send, Confirm, Age
<1>3. CASE Poller
      BY <1>3, PollerOnce
<1>4. ASSUME NEW w \in Workers, Worker(w) PROVE OnceInv'
      BY <1>4, WorkerOnce
<1>5. CASE Crash
      BY <1>5 DEF Crash, Holding
<1>6. CASE UNCHANGED vars
      BY <1>6 DEF vars
<1> QED
    BY <1>1, <1>2, <1>3, <1>4, <1>5, <1>6 DEF Next

LEMMA AlwaysOnce == Spec => []OnceInv
BY AlwaysTyped, AlwaysPage, InitOnce, OnceStep, PTL DEF Spec

\* A withdrawal is debited at most once unless it was claimed in a race or its
\* worker saw an error after the debit; no crash and no other failing call
\* debits it twice.
THEOREM DebitedOnceCorrect == Spec => []DebitedOnce
<1>1. Typed /\ OnceInv => DebitedOnce
      BY DEF Typed, TypeOK, OnceInv, SpendingOK, SpentOK, DebitedOnce
<1> QED
    BY <1>1, AlwaysTyped, AlwaysOnce, PTL

\* Its reservation is released at most once, by the poller or by a worker, with
\* the same two exceptions.
THEOREM ReleasedOnceCorrect == Spec => []ReleasedOnce
<1>1. Typed /\ OnceInv => ReleasedOnce
      BY DEF Typed, TypeOK, OnceInv, SpendingOK, SpentOK, ReleasedOnce
<1> QED
    BY <1>1, AlwaysTyped, AlwaysOnce, PTL

-----------------------------------------------------------------------------
(* Who strands a withdrawal.                                                *)

Excused(x) ==
    \/ x \notin Supported
    \/ crashes > 0
    \/ struck \cap {"commit", "reset"} # {}

\* A withdrawal in processing keeps a holder.
AttendedInv ==
    \A x \in Withdrawals :
        status[x] = "processing" => Excused(x) \/ \E w \in Workers : Holds(w, x)

LEMMA InitAttended == Init => AttendedInv
BY DEF Init, AttendedInv

\* Nothing that happened is forgotten.
LEMMA HistoryGrows ==
    ASSUME Typed, [Next]_vars
    PROVE  struck \subseteq struck' /\ (crashes > 0 => crashes' > 0)
<1> USE DEF Outcome, Answer, Strikes, faultVars
<1>1. ASSUME Poller PROVE struck \subseteq struck' /\ crashes' = crashes
      BY <1>1
      DEF Poller, LoadPage, SkipRow, FailRow, BatchRow, Unreserve, LogRelease,
          FailAgain, Dispatch
<1>2. ASSUME NEW w \in Workers, Worker(w)
      PROVE  struck \subseteq struck' /\ crashes' = crashes
      BY <1>2
      DEF Worker, Begin, Claim, Check, VerifyFound, VerifyFailed, Create,
          GetBalance, UpdateBalance, ReleaseReserved, Complete, Announce, Reset
<1>3. /\ struck \subseteq struck'
      /\ crashes' = crashes \/ crashes' = crashes + 1
      BY <1>1, <1>2 DEF Next, Request, Send, Confirm, Age, Crash, vars
<1>4. crashes > 0 => crashes' > 0
      BY <1>3 DEF Typed, TypeOK
<1> QED
    BY <1>3, <1>4

LEMMA ExcusedStays ==
    ASSUME Typed, [Next]_vars, NEW x \in Withdrawals, Excused(x)
    PROVE  Excused(x)'
BY HistoryGrows DEF Excused

LEMMA PollerAttended ==
    ASSUME Typed, Poller, NEW x \in Withdrawals
    PROVE  status'[x] = "processing" => status[x] = "processing"
BY DEF Typed, TypeOK, Poller, LoadPage, SkipRow, FailRow, BatchRow, Unreserve,
       LogRelease, FailAgain, Dispatch, Put, dbVars

\* A worker that stops holding a withdrawal has moved it out of "processing" or
\* leaves an excuse behind.
LEMMA WorkerAttended ==
    ASSUME Typed, AttendedInv, NEW w \in Workers, Worker(w),
           NEW x \in Withdrawals, status'[x] = "processing", ~Excused(x)'
    PROVE  \E v \in Workers : Holds(v, x)'
<1> USE DEF Typed, TypeOK, JobOK, At, Go, Return, Holds, Holding, Put
<1>1. ~Excused(x)
      BY ExcusedStays DEF Next
<1>2. \A v \in Workers \ {w} : Holds(v, x)' <=> Holds(v, x)
      BY DEF Worker, Begin, Claim, Check, VerifyFound, VerifyFailed, Create,
         GetBalance, UpdateBalance, ReleaseReserved, Complete, Announce, Reset
<1>3. CASE status[x] # "processing"
      <2>1. CASE Claim(w)
            <3>1. job[w] = x
                  BY <1>3, <2>1 DEF Claim
            <3>2. pc'[w] = "check" /\ job' = job
                  BY <2>1, <3>1 DEF Claim, Outcome, Strikes, Excused
            <3> QED
                BY <3>1, <3>2
      <2>2. status'[x] = status[x] \/ Claim(w) \/ status'[x] # "processing"
            BY DEF Worker, Begin, Check, VerifyFound, VerifyFailed, Create,
               GetBalance, UpdateBalance, ReleaseReserved, Complete, Announce,
               Reset, FinalStatus, ResetStatus, dbVars
      <2> QED
          BY <1>3, <2>1, <2>2
<1>4. CASE status[x] = "processing"
      <2>1. PICK v \in Workers : Holds(v, x)
            BY <1>1, <1>4 DEF AttendedInv
      <2>2. CASE v # w
            BY <1>2, <2>1, <2>2
      <2>3. CASE v = w
            <3>1. ASSUME Check(w) PROVE Holds(w, x)'
                  <4>1. x \in Supported
                        BY <1>1, SMTT(30) DEF Excused
                  <4> QED
                      BY <2>1, <2>3, <3>1, <4>1
                      DEF Check, KnownCurrency, AlreadyRecorded,
                          MappedWithdrawal
            <3>2. ASSUME VerifyFound(w) PROVE Holds(w, x)'
                  BY <2>1, <2>3, <3>2
                  DEF VerifyFound, AlreadyRecorded, MappedWithdrawal
            <3>3. ASSUME VerifyFailed(w) PROVE Holds(w, x)'
                  BY <2>1, <2>3, <3>3 DEF VerifyFailed, AfterAttempts
            <3>4. ASSUME Create(w) PROVE Holds(w, x)'
                  BY <2>1, <2>3, <3>4 DEF Create, AfterCreate
            <3>5. ASSUME GetBalance(w) PROVE Holds(w, x)'
                  BY <2>1, <2>3, <3>5 DEF GetBalance
            <3>6. ASSUME UpdateBalance(w) PROVE Holds(w, x)'
                  BY <2>1, <2>3, <3>6 DEF UpdateBalance, AfterDebit
            <3>7. ASSUME ReleaseReserved(w) PROVE Holds(w, x)'
                  BY <2>1, <2>3, <3>7 DEF ReleaseReserved, AfterRelease
            <3>8. ASSUME Complete(w) PROVE Holds(w, x)'
                  BY <2>1, <2>3, <3>8 DEF Complete, FinalStatus, Outcome
            <3>9. ASSUME Reset(w) PROVE FALSE
                  <4>1. PICK ok, applied \in BOOLEAN :
                            /\ ok => applied
                            /\ ok \/ struck' = struck \cup {"reset"}
                            /\ applied =>
                                  status' = [status EXCEPT ![x] = "pending"]
                        BY <2>1, <2>3, <3>9
                        DEF Reset, ResetStatus, Outcome, Strikes
                  <4>2. ok
                        BY <4>1 DEF Excused
                  <4> QED
                      BY <4>1, <4>2
            <3>10. pc[w] \in Holding
                   BY <2>1, <2>3
            <3> QED
                BY <2>1, <2>3, <3>1, <3>2, <3>3, <3>4, <3>5, <3>6, <3>7, <3>8,
                   <3>9, <3>10 DEF Worker, Begin, Claim, Announce
      <2> QED
          BY <2>2, <2>3
<1> QED
    BY <1>3, <1>4

LEMMA AttendedStep == Typed /\ AttendedInv /\ [Next]_vars => AttendedInv'
<1> SUFFICES ASSUME Typed, AttendedInv, [Next]_vars,
                    NEW x \in Withdrawals, status'[x] = "processing",
                    ~Excused(x)'
             PROVE  \E w \in Workers : Holds(w, x)'
    BY DEF AttendedInv
<1>1. status[x] = "processing" => \E w \in Workers : Holds(w, x)
      BY ExcusedStays DEF AttendedInv
<1>2. ASSUME NEW y \in Withdrawals, Request(y)
      PROVE  \E w \in Workers : Holds(w, x)'
      BY <1>1, <1>2 DEF Request, Holds, workerVars, Typed, TypeOK
<1>3. CASE \/ \E y \in Withdrawals : Send(y) \/ Confirm(y) \/ Age(y)
           \/ UNCHANGED vars
      BY <1>1, <1>3 DEF Send, Confirm, Age, vars, Holds, dbVars, workerVars
<1>4. CASE Poller
      <2>1. UNCHANGED <<pc, job>>
            BY <1>4 DEF Poller, LoadPage, SkipRow, FailRow, BatchRow,
                    Unreserve, LogRelease, FailAgain, Dispatch, workerVars
      <2> QED
          BY <1>1, <1>4, <2>1, PollerAttended DEF Holds
<1>5. ASSUME NEW w \in Workers, Worker(w)
      PROVE  \E v \in Workers : Holds(v, x)'
      BY <1>5, WorkerAttended
<1>6. ~Crash
      BY DEF Crash, Excused, Typed, TypeOK
<1> QED
    BY <1>2, <1>3, <1>4, <1>5, <1>6 DEF Next

LEMMA AlwaysAttended == Spec => []AttendedInv
BY AlwaysTyped, InitAttended, AttendedStep, PTL DEF Spec

\* Only a crash, an unsupported currency, or a failed commit or reset leaves a
\* withdrawal in "processing" with nobody working on it.
THEOREM StrandedForAReasonCorrect == Spec => []StrandedForAReason
<1>1. AttendedInv => StrandedForAReason
      BY DEF AttendedInv, Excused, StrandedForAReason, Stranded, Holders, Holds
<1> QED
    BY <1>1, AlwaysAttended, PTL
=============================================================================
