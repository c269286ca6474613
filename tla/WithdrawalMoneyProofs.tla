----------------------- MODULE WithdrawalMoneyProofs -----------------------
(***************************************************************************)
(* Proofs about WithdrawalVerification, continued: the cents of a user,    *)
(* the reservations that the sum of a user's reservations stands for, and  *)
(* what "completed" and "failed" say of both.                              *)
(***************************************************************************)
EXTENDS WithdrawalVerificationProofs, FiniteSetTheorems

USE WithdrawalsAssumption, BoundsAssumption

-----------------------------------------------------------------------------
(* No cent appears or is lost.  Unless somebody changed the balance under   *)
(* its read, a worker about to debit holds what the balance is.             *)

Debiting(w, u) == pc[w] = "debit" /\ Owner[job[w]] = u

MoneyInv ==
    /\ Conserved
    /\ \A u \in Users \ disturbed, w \in Workers : Debiting(w, u) =>
          read[w].cents = balance[u] /\ read[w].units = units[u]

LEMMA InitMoney == Init => MoneyInv
BY DEF Init, MoneyInv, Conserved, Debiting

\* A step that touches no balance and lets no further worker debit one.
LEMMA QuietMoney ==
    ASSUME Typed, MoneyInv, UNCHANGED <<balance, units, reserved, out, disturbed>>,
           \A w \in Workers : pc'[w] = "debit" =>
               /\ pc[w] = "debit"
               /\ job'[w] = job[w]
               /\ read'[w] = read[w]
    PROVE  MoneyInv'
<1>1. \A w \in Workers, u \in Users :
          Debiting(w, u)' => Debiting(w, u) /\ read'[w] = read[w]
      BY DEF Debiting
<1> QED
    BY <1>1 DEF MoneyInv, Conserved

\* A step that moves cents between the free and the reserved ones of a user
\* while the workers stay, and marks the user if one of them is at its debit.
LEMMA MovedMoney ==
    ASSUME Typed, MoneyInv, NEW u \in Users,
           balance' \in [Users -> Nat], reserved' \in [Users -> Nat],
           balance'[u] + reserved'[u] = balance[u] + reserved[u],
           \A v \in Users \ {u} :
               balance'[v] = balance[v] /\ reserved'[v] = reserved[v],
           UNCHANGED <<units, out>>,
           disturbed \subseteq disturbed',
           \A w \in Workers : Debiting(w, u)' => u \in disturbed',
           \A w \in Workers : pc'[w] = "debit" =>
               /\ pc[w] = "debit"
               /\ job'[w] = job[w]
               /\ read'[w] = read[w]
    PROVE  MoneyInv'
<1>1. \A w \in Workers, v \in Users :
          Debiting(w, v)' => Debiting(w, v) /\ read'[w] = read[w]
      BY DEF Debiting
<1>2. ASSUME NEW v \in Users \ disturbed'
      PROVE  /\ balance'[v] + reserved'[v] + out'[v] = Funds[v]
             /\ units'[v] + out'[v] = Funds[v]
      <2>1. /\ balance[v] + reserved[v] + out[v] = Funds[v]
            /\ units[v] + out[v] = Funds[v]
            BY DEF MoneyInv, Conserved
      <2>2. balance[v] + reserved[v] = balance'[v] + reserved'[v]
            BY v \in Users
      <2> QED
          BY <2>1, <2>2
<1>3. Conserved'
      BY <1>2 DEF Conserved
<1> QED
    BY <1>1, <1>3 DEF MoneyInv

LEMMA ReleasedMoney ==
    ASSUME Typed, MoneyInv, NEW x \in Withdrawals, NEW W \in SUBSET Workers,
           NEW applied \in BOOLEAN,
           Release(x, applied, W),
           \A w \in Workers \ W : pc[w] # "debit",
           UNCHANGED <<units, out, job, read>>,
           \A w \in Workers : pc'[w] = "debit" => pc[w] = "debit"
    PROVE  MoneyInv'
<1> DEFINE u == Owner[x]
<1>1. CASE UNCHANGED <<reserved, balance, released, disturbed>>
      BY <1>1, QuietMoney
<1>2. CASE /\ reserved[u] >= Reserved[x]
           /\ reserved' = [reserved EXCEPT ![u] = @ - Reserved[x]]
           /\ balance' = [balance EXCEPT ![u] = @ + Reserved[x]]
           /\ Disturbs(u, W)
      <2>1. /\ balance' \in [Users -> Nat] /\ reserved' \in [Users -> Nat]
            /\ balance'[u] + reserved'[u] = balance[u] + reserved[u]
            /\ \A v \in Users \ {u} :
                  balance'[v] = balance[v] /\ reserved'[v] = reserved[v]
            BY <1>2 DEF Typed, TypeOK
      <2>2. /\ disturbed \subseteq disturbed'
            /\ \A w \in Workers : Debiting(w, u)' => u \in disturbed'
            BY <1>2 DEF Disturbs, Debiting
      <2> QED
          BY <2>1, <2>2, MovedMoney
<1> QED
    BY <1>1, <1>2 DEF Release

LEMMA GetBalanceMoney ==
    ASSUME Typed, MoneyInv, NEW w \in Workers, GetBalance(w)
    PROVE  MoneyInv'
<1>1. PICK u \in Users : u = Owner[job[w]]
      BY DEF GetBalance, At, Typed, JobOK
<1>2. /\ UNCHANGED <<balance, units, reserved, out, disturbed, job>>
      /\ \/ /\ pc' = [pc EXCEPT ![w] = "debit"]
            /\ read' = [read EXCEPT ![w] = ReadBalance(u)]
         \/ pc' = [pc EXCEPT ![w] = "reset"] /\ UNCHANGED read
      BY <1>1 DEF GetBalance, Go, dbVars, moneyVars, ghostVars
<1>3. \A v \in Workers \ {w} : pc'[v] = pc[v] /\ read'[v] = read[v]
      BY <1>2 DEF Typed, TypeOK
<1>4. pc'[w] = "debit" => read'[w] = ReadBalance(u)
      BY <1>2 DEF Typed, TypeOK
<1>5. \A v \in Workers, x \in Users : Debiting(v, x)' =>
          \/ v # w /\ Debiting(v, x) /\ read'[v] = read[v]
          \/ v = w /\ x = u /\ read'[w] = ReadBalance(u)
      BY <1>1, <1>2, <1>3, <1>4 DEF Debiting
<1> QED
    BY <1>2, <1>5 DEF MoneyInv, Conserved, ReadBalance

LEMMA UpdateBalanceMoney ==
    ASSUME Typed, MoneyInv, NEW w \in Workers, UpdateBalance(w)
    PROVE  MoneyInv'
<1>1. PICK x \in Withdrawals, u \in Users :
          x = job[w] /\ u = Owner[x] /\ pc[w] = "debit"
      BY DEF UpdateBalance, At, Typed, JobOK
<1>2. /\ pc' \in [Workers -> Steps] /\ pc'[w] # "debit"
      /\ \A v \in Workers \ {w} : pc'[v] = pc[v] /\ read'[v] = read[v]
      /\ UNCHANGED <<job, reserved>>
      BY DEF UpdateBalance, Go, AfterDebit, Typed, TypeOK, Steps
<1>3. CASE UNCHANGED <<balance, units, out, disturbed>>
      BY <1>2, <1>3, QuietMoney
<1>4. CASE /\ balance' = [balance EXCEPT ![u] = NewAmount(read[w].cents, x)]
           /\ units' = [units EXCEPT ![u] = NewAmount(read[w].units, x)]
           /\ out' = [out EXCEPT ![u] = @ + Amount[x]]
           /\ Disturbs(u, Workers \ {w})
      <2>1. /\ balance \in [Users -> Nat] /\ units \in [Users -> Nat]
            /\ out \in [Users -> Nat] /\ reserved \in [Users -> Nat]
            /\ Amount[x] \in Nat
            BY DEF Typed, TypeOK
      <2>2. /\ balance'[u] = read[w].cents - Amount[x]
            /\ units'[u] = read[w].units - Amount[x]
            /\ out'[u] = out[u] + Amount[x]
            /\ \A v \in Users \ {u} : /\ balance'[v] = balance[v]
                                      /\ units'[v] = units[v]
                                      /\ out'[v] = out[v]
            BY <1>4, <2>1 DEF NewAmount
      <2>3. \A v \in Workers, y \in Users :
                Debiting(v, y)' => v # w /\ Debiting(v, y) /\ read'[v] = read[v]
            BY <1>2 DEF Debiting
      <2>4. disturbed \subseteq disturbed'
            BY <1>4 DEF Disturbs
      <2>5. u \notin disturbed' => \A v \in Workers : ~Debiting(v, u)'
            BY <1>4, <2>3 DEF Disturbs, Debiting
      <2>6. u \notin disturbed' =>
                /\ balance'[u] + reserved'[u] + out'[u] = Funds[u]
                /\ units'[u] + out'[u] = Funds[u]
            <3>1. SUFFICES ASSUME u \notin disturbed
                           PROVE  /\ balance'[u] + reserved[u] + out'[u] = Funds[u]
                                  /\ units'[u] + out'[u] = Funds[u]
                  BY <1>2, <2>4
            <3>2. /\ balance[u] + reserved[u] + out[u] = Funds[u]
                  /\ units[u] + out[u] = Funds[u]
                  BY <3>1 DEF MoneyInv, Conserved
            <3>3. read[w].cents = balance[u] /\ read[w].units = units[u]
                  BY <1>1, <3>1 DEF MoneyInv, Debiting
            <3> QED
                BY <2>1, <2>2, <3>2, <3>3
      <2>7. Conserved'
            BY <1>2, <2>2, <2>4, <2>6 DEF MoneyInv, Conserved
      <2> QED
          BY <2>2, <2>3, <2>4, <2>5, <2>7 DEF MoneyInv
<1> QED
    BY <1>1, <1>3, <1>4 DEF UpdateBalance, WriteBalance

LEMMA MoneyStep == Typed /\ MoneyInv /\ [Next]_vars => MoneyInv'
<1> SUFFICES ASSUME Typed, MoneyInv, [Next]_vars PROVE MoneyInv'
    OBVIOUS
<1> USE DEF dbVars, moneyVars, workerVars, ghostVars
<1>1. ASSUME NEW x \in Withdrawals, Request(x) PROVE MoneyInv'
      <2> DEFINE u == Owner[x]
      <2>1. /\ balance' \in [Users -> Nat] /\ reserved' \in [Users -> Nat]
            /\ balance'[u] + reserved'[u] = balance[u] + reserved[u]
            /\ \A v \in Users \ {u} :
                  balance'[v] = balance[v] /\ reserved'[v] = reserved[v]
            BY <1>1 DEF Request, Reserve, Typed, TypeOK
      <2>2. /\ UNCHANGED <<units, out, pc, job, read>>
            /\ disturbed \subseteq disturbed'
            /\ \A w \in Workers : Debiting(w, u)' => u \in disturbed'
            BY <1>1 DEF Request, Disturbs, Debiting
      <2> QED
          BY <2>1, <2>2, MovedMoney
<1>2. ASSUME NEW x \in Withdrawals, Send(x) \/ Confirm(x) \/ Age(x)
      PROVE  MoneyInv'
      BY <1>2, QuietMoney DEF Send, Confirm, Age
<1>3. CASE Unreserve
      <2>1. PICK applied \in BOOLEAN : Release(cur, applied, Workers)
            BY <1>3 DEF Unreserve
      <2>2. cur \in Withdrawals /\ UNCHANGED <<units, out, pc, job, read>>
            BY <1>3 DEF Unreserve, Typed, CurOK
      <2> QED
          BY <2>1, <2>2, ReleasedMoney
<1>4. CASE Poller /\ ~Unreserve
      BY <1>4, QuietMoney
      DEF Poller, LoadPage, SkipRow, BatchRow, FailRow, LogRelease, FailAgain,
          Dispatch
<1>5. ASSUME NEW w \in Workers, Worker(w) PROVE MoneyInv'
      <2> USE DEF Typed, TypeOK, At, Go, Return
      <2>1. ASSUME NEW x \in Withdrawals, Begin(w, x) PROVE MoneyInv'
            BY <2>1, QuietMoney DEF Begin
      <2>2. CASE Claim(w)
            BY <2>2, QuietMoney DEF Claim
      <2>3. CASE Check(w)
            BY <2>3, QuietMoney DEF Check
      <2>4. CASE VerifyFound(w)
            BY <2>4, QuietMoney DEF VerifyFound
      <2>5. CASE VerifyFailed(w)
            BY <2>5, QuietMoney DEF VerifyFailed, AfterAttempts
      <2>6. CASE Create(w)
            BY <2>6, QuietMoney DEF Create, AfterCreate
      <2>7. CASE GetBalance(w)
            BY <2>7, GetBalanceMoney
      <2>8. CASE UpdateBalance(w)
            BY <2>8, UpdateBalanceMoney
      <2>9. CASE ReleaseReserved(w)
            <3>1. PICK x \in Withdrawals, applied \in BOOLEAN :
                      x = job[w] /\ Release(x, applied, Workers \ {w})
                  BY <2>9 DEF ReleaseReserved, JobOK, Release, Disturbs
            <3>2. /\ pc[w] = "release" /\ UNCHANGED <<units, out, job, read>>
                  /\ \A v \in Workers : pc'[v] = "debit" => pc[v] = "debit"
                  BY <2>9 DEF ReleaseReserved, AfterRelease
            <3> QED
                BY <3>1, <3>2, ReleasedMoney
      <2>10. CASE Complete(w)
             BY <2>10, QuietMoney DEF Complete
      <2>11. CASE Announce(w)
             BY <2>11, QuietMoney DEF Announce
      <2>12. CASE Reset(w)
             BY <2>12, QuietMoney DEF Reset
      <2> QED
          BY <1>5, <2>1, <2>2, <2>3, <2>4, <2>5, <2>6, <2>7, <2>8, <2>9, <2>10,
             <2>11, <2>12 DEF Worker
<1>6. CASE Crash
      BY <1>6, QuietMoney DEF Crash
<1>7. CASE UNCHANGED vars
      BY <1>7, QuietMoney DEF vars
<1> QED
    BY <1>1, <1>2, <1>3, <1>4, <1>5, <1>6, <1>7 DEF Next

LEMMA AlwaysMoney == Spec => []MoneyInv
BY AlwaysTyped, InitMoney, MoneyStep, PTL DEF Spec

\* As long as no balance changed between a GetBalance and its UpdateBalance,
\* what is free, reserved and gone of a user's money adds up to the funds.
THEOREM ConservedCorrect == Spec => []Conserved
BY AlwaysMoney, PTL DEF MoneyInv

-----------------------------------------------------------------------------
(* balances.reserved_cents is one number for all reservations of a user.    *)
(* While none of them was released twice it counts, cent by cent, those of  *)
(* the withdrawals that were made and not released.                         *)

\* The cents of the reservation of x, and those reserved for u.
Slots(x) == {x} \X (1..Reserved[x])
Open(x) == status[x] # "absent" /\ released[x] = 0
Held(u) == {z \in Withdrawals \X Nat :
               Owner[z[1]] = u /\ Open(z[1]) /\ z \in Slots(z[1])}

ReleasedSingly(u) == \A x \in Withdrawals : Owner[x] = u => released[x] <= 1

HeldInv ==
    \A u \in Users : ReleasedSingly(u) =>
        IsFiniteSet(Held(u)) /\ reserved[u] = Cardinality(Held(u))

LEMMA SlotsCounted ==
    ASSUME NEW x \in Withdrawals
    PROVE  IsFiniteSet(Slots(x)) /\ Cardinality(Slots(x)) = Reserved[x]
<1>1. Reserved[x] \in Nat \ {0}
      OBVIOUS
<1>2. IsFiniteSet({x}) /\ Cardinality({x}) = 1
      BY FS_Singleton
<1>3. /\ IsFiniteSet(1..Reserved[x])
      /\ Cardinality(1..Reserved[x]) = Reserved[x]
      BY <1>1, FS_Interval
<1>4. /\ IsFiniteSet({x} \X (1..Reserved[x]))
      /\ Cardinality({x} \X (1..Reserved[x])) =
            Cardinality({x}) * Cardinality(1..Reserved[x])
      BY <1>2, <1>3, FS_Product
<1>5. Cardinality({x} \X (1..Reserved[x])) = 1 * Reserved[x]
      BY <1>2, <1>3, <1>4
<1> QED
    BY <1>1, <1>4, <1>5 DEF Slots

LEMMA InitHeld == Init => HeldInv
<1> SUFFICES ASSUME Init, NEW u \in Users
             PROVE  IsFiniteSet(Held(u)) /\ reserved[u] = Cardinality(Held(u))
    BY DEF HeldInv
<1>1. \A x \in Withdrawals : ~Open(x)
      BY DEF Init, Open
<1>2. Held(u) = {}
      BY <1>1 DEF Held
<1> QED
    BY <1>2, FS_EmptySet DEF Init

\* A step that reserves and releases nothing.
LEMMA QuietHeld ==
    ASSUME HeldInv, UNCHANGED <<reserved, released>>,
           \A x \in Withdrawals : status'[x] = "absent" <=> status[x] = "absent"
    PROVE  HeldInv'
<1>1. \A u \in Users : Held(u)' = Held(u)
      BY DEF Held, Open
<1> QED
    BY <1>1 DEF HeldInv, ReleasedSingly

LEMMA RequestHeld ==
    ASSUME Typed, PageInv, HeldInv, NEW x \in Withdrawals, Request(x)
    PROVE  HeldInv'
<1> DEFINE u == Owner[x]
<1>1. ~Open(x)
      BY DEF Request, Open
<1>2. released[x] = 0
      BY DEF Request, PageInv, HandledOK, Touched, Handled, Typed, TypeOK
<1>3. /\ reserved' = [reserved EXCEPT ![u] = @ + Reserved[x]]
      /\ status' = [status EXCEPT ![x] = "pending"]
      /\ UNCHANGED released
      BY DEF Request, Reserve
<1>4. Open(x)' /\ \A y \in Withdrawals \ {x} : Open(y)' <=> Open(y)
      BY <1>2, <1>3 DEF Open, Typed, TypeOK
<1>5. Slots(x) \subseteq Withdrawals \X Nat /\ \A z \in Slots(x) : z[1] = x
      BY DEF Slots
<1>6. Held(u)' = Held(u) \cup Slots(x)
      BY <1>4, <1>5 DEF Held
<1>7. Held(u) \cap Slots(x) = {}
      BY <1>1, <1>5 DEF Held
<1>8. \A v \in Users \ {u} : Held(v)' = Held(v) /\ reserved'[v] = reserved[v]
      BY <1>3, <1>4 DEF Held, Typed, TypeOK
<1>9. ASSUME ReleasedSingly(u)
      PROVE  IsFiniteSet(Held(u)') /\ reserved'[u] = Cardinality(Held(u)')
      <2>1. IsFiniteSet(Held(u)) /\ reserved[u] = Cardinality(Held(u))
            BY <1>9 DEF HeldInv
      <2>2. IsFiniteSet(Slots(x)) /\ Cardinality(Slots(x)) = Reserved[x]
            BY SlotsCounted
      <2>3. /\ IsFiniteSet(Held(u)')
            /\ Cardinality(Held(u)') = reserved[u] + Reserved[x] - 0
            BY <1>6, <1>7, <2>1, <2>2, FS_Union, FS_EmptySet
      <2> QED
          BY <1>3, <2>3 DEF Typed, TypeOK
<1>10. \A v \in Users : ReleasedSingly(v)' => ReleasedSingly(v)
       BY <1>3 DEF ReleasedSingly
<1> QED
    BY <1>8, <1>9, <1>10 DEF HeldInv

LEMMA ReleasedHeld ==
    ASSUME Typed, HeldInv, NEW x \in Withdrawals, status[x] # "absent",
           NEW applied \in BOOLEAN, NEW W, Release(x, applied, W),
           UNCHANGED status
    PROVE  HeldInv'
<1> DEFINE u == Owner[x]
<1>1. CASE UNCHANGED <<reserved, released>>
      BY <1>1, QuietHeld
<1>2. CASE /\ reserved[u] >= Reserved[x]
           /\ reserved' = [reserved EXCEPT ![u] = @ - Reserved[x]]
           /\ released' = [released EXCEPT ![x] = @ + 1]
      <2>1. /\ released'[x] = released[x] + 1 /\ released[x] \in Nat
            /\ \A y \in Withdrawals \ {x} : released'[y] = released[y]
            BY <1>2 DEF Typed, TypeOK
      <2>2. ~Open(x)' /\ \A y \in Withdrawals \ {x} : Open(y)' <=> Open(y)
            BY <2>1 DEF Open
      <2>3. Slots(x) \subseteq Withdrawals \X Nat /\ \A z \in Slots(x) : z[1] = x
            BY DEF Slots
      <2>4. Held(u)' = Held(u) \ Slots(x)
            BY <2>2, <2>3 DEF Held
      <2>5. \A v \in Users \ {u} :
                /\ Held(v)' = Held(v) /\ reserved'[v] = reserved[v]
                /\ ReleasedSingly(v)' <=> ReleasedSingly(v)
            BY <1>2, <2>1, <2>2 DEF Held, ReleasedSingly, Typed, TypeOK
      <2>6. ASSUME ReleasedSingly(u)'
            PROVE  IsFiniteSet(Held(u)') /\ reserved'[u] = Cardinality(Held(u)')
            <3>1. ReleasedSingly(u) /\ released[x] = 0
                  BY <2>1, <2>6 DEF ReleasedSingly
            <3>2. Slots(x) \subseteq Held(u)
                  BY <2>3, <3>1 DEF Held, Open
            <3>3. Held(u) \cap Slots(x) = Slots(x)
                  BY <3>2
            <3>4. IsFiniteSet(Held(u)) /\ reserved[u] = Cardinality(Held(u))
                  BY <3>1 DEF HeldInv
            <3>5. /\ IsFiniteSet(Held(u) \ Slots(x))
                  /\ Cardinality(Held(u) \ Slots(x)) =
                        Cardinality(Held(u)) - Cardinality(Held(u) \cap Slots(x))
                  BY <3>4, FS_Difference
            <3>6. Cardinality(Held(u) \ Slots(x)) = reserved[u] - Reserved[x]
                  BY <3>3, <3>4, <3>5, SlotsCounted
            <3> QED
                BY <1>2, <2>4, <3>5, <3>6 DEF Typed, TypeOK
      <2> QED
          BY <2>5, <2>6 DEF HeldInv
<1> QED
    BY <1>1, <1>2 DEF Release

LEMMA HeldStep == Typed /\ PageInv /\ HeldInv /\ [Next]_vars => HeldInv'
<1> SUFFICES ASSUME Typed, PageInv, HeldInv, [Next]_vars PROVE HeldInv'
    OBVIOUS
<1> USE DEF dbVars, moneyVars, ghostVars
<1>1. ASSUME NEW x \in Withdrawals, Request(x) PROVE HeldInv'
      BY <1>1, RequestHeld
<1>2. ASSUME NEW x \in Withdrawals, Send(x) \/ Confirm(x) \/ Age(x)
      PROVE  HeldInv'
      BY <1>2, QuietHeld DEF Send, Confirm, Age
<1>3. CASE Unreserve
      <2>1. PICK applied \in BOOLEAN : Release(cur, applied, Workers)
            BY <1>3 DEF Unreserve
      <2>2. cur \in Withdrawals /\ UNCHANGED status
            BY <1>3 DEF Unreserve, Typed, CurOK
      <2>3. status[cur] # "absent"
            BY <2>2 DEF PageInv, FailedOK
      <2> QED
          BY <2>1, <2>2, <2>3, ReleasedHeld
<1>4. CASE Poller /\ ~Unreserve
      <2>1. UNCHANGED <<reserved, released>>
            BY <1>4 DEF Poller, LoadPage, SkipRow, BatchRow, FailRow,
                    LogRelease, FailAgain, Dispatch
      <2>2. \A x \in Withdrawals : status'[x] = status[x] \/
                (x \in todo \cup {cur} /\ status'[x] = "failed")
            BY <1>4 DEF Poller, LoadPage, SkipRow, BatchRow, FailRow,
                    LogRelease, FailAgain, Dispatch, Put, Typed, TypeOK
      <2>3. \A x \in Withdrawals \cap (todo \cup {cur}) : status[x] # "absent"
            BY DEF PageInv, TodoOK, FailedOK
      <2> QED
          BY <2>1, <2>2, <2>3, QuietHeld
<1>5. ASSUME NEW w \in Workers, Worker(w) PROVE HeldInv'
      <2>1. \A x \in Withdrawals : status'[x] = "absent" <=> status[x] = "absent"
            BY <1>5, WorkerTouches DEF PageInv, HandledOK, Handled
      <2>2. CASE ReleaseReserved(w)
            <3>1. PICK x \in Withdrawals, applied \in BOOLEAN :
                      x = job[w] /\ Release(x, applied, Workers \ {w})
                  BY <2>2 DEF ReleaseReserved, At, Typed, JobOK, Release, Disturbs
            <3>2. status[x] # "absent" /\ UNCHANGED status
                  BY <2>2, <3>1
                  DEF ReleaseReserved, PageInv, HandledOK, Handled, Touched
            <3> QED
                BY <3>1, <3>2, ReleasedHeld
      <2>3. CASE ~ReleaseReserved(w)
            <3>1. UNCHANGED <<reserved, released>>
                  BY <1>5, <2>3
                  DEF Worker, Begin, Claim, Check, VerifyFound, VerifyFailed,
                      Create, GetBalance, UpdateBalance, Complete, Announce,
                      Reset
            <3> QED
                BY <2>1, <3>1, QuietHeld
      <2> QED
          BY <2>2, <2>3
<1>6. CASE Crash
      BY <1>6, QuietHeld DEF Crash
<1>7. CASE UNCHANGED vars
      BY <1>7, QuietHeld DEF vars
<1> QED
    BY <1>1, <1>2, <1>3, <1>4, <1>5, <1>6, <1>7 DEF Next

LEMMA AlwaysHeld == Spec => []HeldInv
BY AlwaysTyped, AlwaysPage, InitHeld, HeldStep, PTL DEF Spec

\* As long as no other withdrawal of the user was released twice, enough is
\* reserved for each withdrawal whose own release is still to come.
LEMMA HeldIsEnough ==
    ASSUME Typed, HeldInv, NEW x \in Withdrawals, Open(x), ~Robbed(x)
    PROVE  reserved[Owner[x]] >= Reserved[x]
<1> DEFINE u == Owner[x]
<1>1. ReleasedSingly(u)
      BY DEF Open, Robbed, ReleasedSingly, Typed, TypeOK
<1>2. IsFiniteSet(Held(u)) /\ reserved[u] = Cardinality(Held(u))
      BY <1>1 DEF HeldInv
<1>3. Slots(x) \subseteq Held(u)
      BY DEF Slots, Held
<1>4. Cardinality(Slots(x)) = Reserved[x]
      BY SlotsCounted
<1>5. Cardinality(Slots(x)) <= Cardinality(Held(u))
      BY <1>2, <1>3, FS_Subset
<1> QED
    BY <1>2, <1>4, <1>5 DEF Typed, TypeOK

\* A reservation is there until its own release, although the database keeps
\* only the sum of all reservations of the user.
THEOREM ReservationHeldCorrect == Spec => []ReservationHeld
<1>1. Typed /\ HeldInv => ReservationHeld
      BY HeldIsEnough DEF ReservationHeld, Open
<1> QED
    BY <1>1, AlwaysTyped, AlwaysHeld, PTL

-----------------------------------------------------------------------------
(* What a worker's position says of its withdrawal: past the insert it has  *)
(* a row, past UpdateBalance it is debited, past the release it is settled: *)
(* released, or robbed of its reservation, which the worker is not told.    *)

Settled(x) == released[x] > 0 \/ Robbed(x)

Reached(x, step) ==
    /\ step \in {"getbal", "debit", "release", "complete", "announce"} =>
          rows[x] > 0
    /\ step \in {"release", "complete", "announce"} => debits[x] > 0
    /\ step \in {"complete", "announce"} => Settled(x)

ReachedOK == \A w \in Workers : Reached(job[w], pc[w])

ProgressInv == ReachedOK /\ CompletedMeansSettled

LEMMA InitProgress == Init => ProgressInv
BY DEF Init, ProgressInv, ReachedOK, Reached, CompletedMeansSettled

\* No row, debit or release is ever undone.
LEMMA BooksGrow ==
    ASSUME Typed, [Next]_vars, NEW x \in Withdrawals
    PROVE  /\ rows[x] > 0 => rows'[x] > 0
           /\ debits[x] > 0 => debits'[x] > 0
           /\ released'[x] >= released[x]
<1> USE DEF Typed, TypeOK, dbVars, ghostVars
<1>1. CASE Poller
      <2>1. UNCHANGED <<rows, debits>>
            BY <1>1 DEF Poller, LoadPage, SkipRow, BatchRow, FailRow,
                    Unreserve, LogRelease, FailAgain, Dispatch
      <2>2. released' = released \/ released' = [released EXCEPT ![cur] = @ + 1]
            BY <1>1 DEF Poller, LoadPage, SkipRow, BatchRow, FailRow,
                    Unreserve, Release, LogRelease, FailAgain, Dispatch
      <2> QED
          BY <2>1, <2>2
<1>2. ASSUME NEW w \in Workers, Worker(w)
      PROVE  /\ rows' = rows \/ rows' = [rows EXCEPT ![job[w]] = @ + 1]
             /\ \/ debits' = debits
                \/ debits' = [debits EXCEPT ![job[w]] = @ + 1]
             /\ \/ released' = released
                \/ released' = [released EXCEPT ![job[w]] = @ + 1]
      BY <1>2
      DEF Worker, Begin, Claim, Check, VerifyFound, VerifyFailed, Create,
          GetBalance, UpdateBalance, ReleaseReserved, Release, Complete,
          Announce, Reset
<1>3. ASSUME NEW w \in Workers, Worker(w)
      PROVE  /\ rows[x] > 0 => rows'[x] > 0
             /\ debits[x] > 0 => debits'[x] > 0
             /\ released'[x] >= released[x]
      <2>1. rows[x] \in Nat /\ debits[x] \in Nat /\ released[x] \in Nat
            OBVIOUS
      <2>2. rows'[x] = rows[x] \/ rows'[x] = rows[x] + 1
            BY <1>2, <1>3
      <2>3. debits'[x] = debits[x] \/ debits'[x] = debits[x] + 1
            BY <1>2, <1>3
      <2>4. released'[x] = released[x] \/ released'[x] = released[x] + 1
            BY <1>2, <1>3
      <2> QED
          BY <2>1, <2>2, <2>3, <2>4
<1>4. CASE ~Poller /\ ~\E w \in Workers : Worker(w)
      <2>1. UNCHANGED <<rows, debits, released>>
            BY <1>4 DEF Next, Request, Send, Confirm, Age, Crash, vars
      <2> QED
          BY <2>1
<1> QED
    BY <1>1, <1>3, <1>4

LEMMA SettledStays ==
    ASSUME Typed, [Next]_vars, NEW x \in Withdrawals, Settled(x)
    PROVE  Settled(x)'
<1>1. CASE released[x] > 0
      BY <1>1, BooksGrow, TypedStep DEF Settled, Typed, TypeOK
<1>2. CASE Robbed(x)
      <2>1. PICK y \in Withdrawals \ {x} : Owner[y] = Owner[x] /\ released[y] > 1
            BY <1>2 DEF Robbed
      <2>2. released'[y] > 1
            BY <2>1, BooksGrow, TypedStep DEF Typed, TypeOK
      <2> QED
          BY <2>1, <2>2 DEF Settled, Robbed
<1> QED
    BY <1>1, <1>2 DEF Settled

LEMMA ReachedStays ==
    ASSUME Typed, [Next]_vars, NEW x \in Withdrawals, NEW step \in Steps,
           Reached(x, step)
    PROVE  Reached(x, step)'
BY BooksGrow, SettledStays DEF Reached

\* A release that reports no error leaves the withdrawal settled, although it
\* may have touched no row.
LEMMA ReleaseSettles ==
    ASSUME Typed, HeldInv, NEW x \in Withdrawals, status[x] # "absent",
           NEW W, Release(x, TRUE, W)
    PROVE  Settled(x)'
<1>1. CASE reserved[Owner[x]] >= Reserved[x]
      <2>1. released' = [released EXCEPT ![x] = @ + 1]
            BY <1>1 DEF Release
      <2> QED
          BY <2>1 DEF Settled, Typed, TypeOK
<1>2. CASE ~(reserved[Owner[x]] >= Reserved[x])
      <2>1. UNCHANGED released
            BY <1>2 DEF Release
      <2>2. ~Open(x) \/ Robbed(x)
            BY <1>2, HeldIsEnough
      <2>3. Settled(x)
            BY <2>2 DEF Open, Settled, Typed, TypeOK
      <2> QED
          BY <2>1, <2>3 DEF Settled, Robbed
<1> QED
    BY <1>1, <1>2

\* The step that a worker takes next is one its withdrawal has reached.
LEMMA WorkerReached ==
    ASSUME Typed, PageInv, HeldInv, ProgressInv, NEW w \in Workers, Worker(w)
    PROVE  Reached(job[w], pc[w])'
<1> USE DEF Typed, TypeOK, JobOK, At, Go, Return
<1>1. CASE pc'[w] \notin {"getbal", "debit", "release", "complete", "announce"}
      BY <1>1 DEF Reached
<1>2. CASE Create(w) /\ pc'[w] = "getbal"
      <2>1. PICK x \in Withdrawals : x = job[w] /\ job'[w] = x
            BY <1>2 DEF Create
      <2>2. rows'[x] > 0
            BY <1>2, <2>1 DEF Create, AfterCreate, Outcome
      <2> QED
          BY <1>2, <2>1, <2>2 DEF Reached
<1>3. CASE GetBalance(w) /\ pc'[w] = "debit"
      <2>1. PICK x \in Withdrawals : x = job[w] /\ job'[w] = x
            BY <1>3 DEF GetBalance
      <2>2. rows[x] > 0 /\ UNCHANGED rows
            BY <1>3, <2>1 DEF GetBalance, ProgressInv, ReachedOK, Reached, dbVars
      <2> QED
          BY <1>3, <2>1, <2>2 DEF Reached
<1>4. CASE UpdateBalance(w) /\ pc'[w] = "release"
      <2>1. PICK x \in Withdrawals : x = job[w] /\ job'[w] = x
            BY <1>4 DEF UpdateBalance
      <2>2. rows[x] > 0 /\ UNCHANGED rows
            BY <1>4, <2>1 DEF UpdateBalance, ProgressInv, ReachedOK, Reached
      <2>3. debits' = [debits EXCEPT ![x] = @ + 1]
            BY <1>4, <2>1 DEF UpdateBalance, AfterDebit, Outcome
      <2> QED
          BY <1>4, <2>1, <2>2, <2>3 DEF Reached
<1>5. CASE ReleaseReserved(w) /\ pc'[w] = "complete"
      <2>1. PICK x \in Withdrawals : x = job[w] /\ job'[w] = x
            BY <1>5 DEF ReleaseReserved
      <2>2. rows[x] > 0 /\ debits[x] > 0 /\ UNCHANGED <<rows, debits>>
            BY <1>5, <2>1 DEF ReleaseReserved, ProgressInv, ReachedOK, Reached
      <2>3. PICK ok, applied \in BOOLEAN :
                /\ Outcome("release", ok, applied)
                /\ Release(x, applied, Workers \ {w})
                /\ pc' = [pc EXCEPT ![w] = AfterRelease(ok)]
            BY <1>5, <2>1 DEF ReleaseReserved, Release, Disturbs
      <2>4. ok /\ applied
            BY <1>5, <2>3 DEF AfterRelease, Outcome
      <2>5. Release(x, TRUE, Workers \ {w})
            BY <2>3, <2>4 DEF Release
      <2>6. status[x] # "absent"
            BY <2>1 DEF PageInv, HandledOK, Handled, Touched
      <2>7. Settled(x)'
            BY <2>5, <2>6, ReleaseSettles
      <2> QED
          BY <1>5, <2>1, <2>2, <2>7 DEF Reached
<1>6. CASE Complete(w) /\ pc'[w] = "announce"
      <2>1. PICK x \in Withdrawals : x = job[w] /\ job'[w] = x
            BY <1>6 DEF Complete
      <2>2. Reached(x, "announce")
            BY <1>6, <2>1 DEF Complete, ProgressInv, ReachedOK, Reached
      <2>3. UNCHANGED <<rows, debits, released>>
            BY <1>6 DEF Complete
      <2> QED
          BY <1>6, <2>1, <2>2, <2>3 DEF Reached, Settled, Robbed
<1>7. ASSUME \/ \E x \in Withdrawals : Begin(w, x)
             \/ Claim(w) \/ Check(w) \/ VerifyFound(w) \/ VerifyFailed(w)
             \/ Announce(w) \/ Reset(w)
      PROVE  pc'[w] \in {"idle", "claim", "check", "verify", "create", "reset"}
      BY <1>7
      DEF Begin, Claim, Check, VerifyFound, VerifyFailed, Announce, Reset,
          AfterAttempts
<1>8. ASSUME Create(w) \/ GetBalance(w)
      PROVE  \/ pc'[w] = "reset"
             \/ Create(w) /\ pc'[w] = "getbal"
             \/ GetBalance(w) /\ pc'[w] = "debit"
      BY <1>8 DEF Create, GetBalance, AfterCreate
<1>9. ASSUME UpdateBalance(w) \/ ReleaseReserved(w) \/ Complete(w)
      PROVE  \/ pc'[w] = "reset"
             \/ UpdateBalance(w) /\ pc'[w] = "release"
             \/ ReleaseReserved(w) /\ pc'[w] = "complete"
             \/ Complete(w) /\ pc'[w] = "announce"
      BY <1>9 DEF UpdateBalance, ReleaseReserved, Complete, AfterDebit,
                  AfterRelease
<1> QED
    BY <1>1, <1>2, <1>3, <1>4, <1>5, <1>6, <1>7, <1>8, <1>9 DEF Worker

\* "completed" is said only of a withdrawal whose worker is past its release.
LEMMA CompletedIsReached ==
    ASSUME Typed, [Next]_vars, NEW x \in Withdrawals,
           "completed" \in notified'[x] \cup {status'[x]},
           "completed" \notin notified[x] \cup {status[x]}
    PROVE  \E w \in Workers : job[w] = x /\ pc[w] \in {"complete", "announce"}
<1> USE DEF Typed, TypeOK, dbVars
<1>1. CASE Poller
      BY <1>1 DEF Poller, LoadPage, SkipRow, BatchRow, FailRow, Unreserve,
                  LogRelease, FailAgain, Failed, Dispatch, Put
<1>2. ASSUME NEW w \in Workers, Worker(w)
      PROVE  job[w] = x /\ pc[w] \in {"complete", "announce"}
      BY <1>2
      DEF Worker, Begin, Claim, Check, VerifyFound, VerifyFailed, Create,
          GetBalance, UpdateBalance, ReleaseReserved, Complete, Announce,
          Reset, At, Put, FinalStatus, ResetStatus
<1> QED
    BY <1>1, <1>2 DEF Next, Request, Send, Confirm, Age, Crash, vars

LEMMA ProgressStep ==
    Typed /\ PageInv /\ HeldInv /\ ProgressInv /\ [Next]_vars => ProgressInv'
<1> SUFFICES ASSUME Typed, PageInv, HeldInv, ProgressInv, [Next]_vars
             PROVE  ProgressInv'
    OBVIOUS
<1> USE DEF Typed, TypeOK
<1>1. ASSUME NEW v \in Workers, job'[v] = job[v], pc'[v] = pc[v]
      PROVE  Reached(job[v], pc[v])'
      <2>1. CASE job[v] \in Withdrawals
            BY <1>1, <2>1, ReachedStays DEF ProgressInv, ReachedOK
      <2>2. CASE job[v] \notin Withdrawals
            BY <1>1, <2>2 DEF JobOK, Reached
      <2> QED
          BY <2>1, <2>2
<1>2. ASSUME Crash PROVE ReachedOK'
      <2>1. \A w \in Workers : pc'[w] = "idle"
            BY <1>2 DEF Crash
      <2> QED
          BY <2>1 DEF ReachedOK, Reached
<1>3. ASSUME NEW w \in Workers, Worker(w) PROVE ReachedOK'
      <2>1. \A v \in Workers \ {w} : job'[v] = job[v] /\ pc'[v] = pc[v]
            BY <1>3
            DEF Worker, Begin, Claim, Check, VerifyFound, VerifyFailed, Create,
                GetBalance, UpdateBalance, ReleaseReserved, Complete, Announce,
                Reset, Go, Return
      <2>2. Reached(job[w], pc[w])'
            BY <1>3, WorkerReached
      <2> QED
          BY <1>1, <2>1, <2>2 DEF ReachedOK
<1>4. ASSUME ~Crash, ~\E w \in Workers : Worker(w) PROVE ReachedOK'
      <2>1. UNCHANGED <<job, pc>>
            BY <1>4
            DEF Next, Request, Send, Confirm, Age, vars, workerVars, Poller,
                LoadPage, SkipRow, BatchRow, FailRow, Unreserve, LogRelease,
                FailAgain, Dispatch
      <2>2. \A w \in Workers : job'[w] = job[w] /\ pc'[w] = pc[w]
            BY <2>1
      <2> QED
          BY <1>1, <2>2 DEF ReachedOK
<1>5. CompletedMeansSettled'
      <2>1. SUFFICES ASSUME NEW x \in Withdrawals,
                            "completed" \in notified'[x] \cup {status'[x]}
                     PROVE  rows'[x] > 0 /\ debits'[x] > 0 /\ Settled(x)'
            BY DEF CompletedMeansSettled, Settled
      <2>2. rows[x] > 0 /\ debits[x] > 0 /\ Settled(x)
            <3>1. CASE "completed" \in notified[x] \cup {status[x]}
                  BY <3>1 DEF ProgressInv, CompletedMeansSettled, Settled
            <3>2. CASE "completed" \notin notified[x] \cup {status[x]}
                  BY <2>1, <3>2, CompletedIsReached
                  DEF ProgressInv, ReachedOK, Reached
            <3> QED
                BY <3>1, <3>2
      <2> QED
          BY <2>2, BooksGrow, SettledStays
<1> QED
    BY <1>2, <1>3, <1>4, <1>5 DEF ProgressInv

LEMMA AlwaysProgress == Spec => []ProgressInv
BY AlwaysTyped, AlwaysPage, AlwaysHeld, InitProgress, ProgressStep, PTL DEF Spec

\* No withdrawal is completed, and no client told so, without its row, its debit
\* and its release, unless another release took its reservation.
THEOREM CompletedMeansSettledCorrect == Spec => []CompletedMeansSettled
BY AlwaysProgress, PTL DEF ProgressInv

-----------------------------------------------------------------------------
(* Until the poller has tried, a failed withdrawal is the one it works on.  *)

Unlucky == crashes > 0 \/ struck \cap {"fail", "unreserve"} # {}

ReleaseInv ==
    \A x \in Withdrawals : status[x] = "failed" =>
        Settled(x) \/ Unlucky \/ (cur = x /\ scan = "unreserve")

LEMMA InitRelease == Init => ReleaseInv
BY DEF Init, ReleaseInv, Settled

LEMMA ReleaseStep ==
    Typed /\ PageInv /\ HeldInv /\ ReleaseInv /\ [Next]_vars => ReleaseInv'
<1> SUFFICES ASSUME Typed, PageInv, HeldInv, ReleaseInv, [Next]_vars,
                    NEW x \in Withdrawals, status'[x] = "failed",
                    ~Settled(x)', ~Unlucky'
             PROVE  cur' = x /\ scan' = "unreserve"
    BY DEF ReleaseInv
<1> USE DEF Typed, TypeOK, dbVars
<1>1. ~Settled(x) /\ ~Unlucky
      BY SettledStays, HistoryGrows DEF Unlucky
<1>2. status[x] = "failed" => cur = x /\ scan = "unreserve"
      BY <1>1 DEF ReleaseInv
<1>3. ASSUME NEW y \in Withdrawals, FailRow(y)
      PROVE  cur' = x /\ scan' = "unreserve"
      <2>1. scan = "walk"
            BY <1>3 DEF FailRow
      <2>2. x = y
            BY <1>2, <1>3, <2>1 DEF FailRow, Put
      <2>3. scan' # "walk"
            BY <1>3 DEF FailRow, Outcome, Strikes, AfterFail, Unlucky
      <2> QED
          BY <1>3, <2>2, <2>3 DEF FailRow, AfterFail
<1>4. ~Unreserve
      <2>1. SUFFICES ASSUME Unreserve PROVE FALSE
            OBVIOUS
      <2>2. cur = x
            BY <1>2, <2>1 DEF Unreserve
      <2>3. PICK ok, applied \in BOOLEAN :
                /\ Outcome("unreserve", ok, applied)
                /\ Release(x, applied, Workers)
            BY <2>1, <2>2 DEF Unreserve
      <2>4. ok /\ applied
            BY <2>3 DEF Outcome, Strikes, Unlucky
      <2>5. Release(x, TRUE, Workers)
            BY <2>3, <2>4 DEF Release
      <2>6. status[x] # "absent"
            BY <2>1 DEF Unreserve
      <2> QED
          BY <2>5, <2>6, ReleaseSettles
<1>5. ASSUME NEW w \in Workers, Worker(w)
      PROVE  cur' = x /\ scan' = "unreserve"
      BY <1>2, <1>5, WorkerTouches DEF pollerVars
<1>6. ~Crash
      BY DEF Crash, Unlucky
<1>7. CASE LogRelease \/ FailAgain
      BY <1>2, <1>7 DEF LogRelease, FailAgain, Put, PageInv, FailedOK, CurOK
<1>8. CASE LoadPage \/ Dispatch \/ \E y \in Withdrawals : SkipRow(y) \/ BatchRow(y)
      BY <1>2, <1>8 DEF LoadPage, Dispatch, SkipRow, BatchRow
<1>9. CASE \/ \E y \in Withdrawals :
                 Request(y) \/ Send(y) \/ Confirm(y) \/ Age(y)
           \/ UNCHANGED vars
      BY <1>2, <1>9 DEF Request, Send, Confirm, Age, vars, pollerVars
<1> QED
    BY <1>3, <1>4, <1>5, <1>6, <1>7, <1>8, <1>9 DEF Next, Poller

LEMMA AlwaysRelease == Spec => []ReleaseInv
BY AlwaysTyped, AlwaysPage, AlwaysHeld, InitRelease, ReleaseStep, PTL DEF Spec

\* A failed withdrawal has its reservation back when the poller is done with it,
\* unless the process crashed or one of the two statements returned an error.
THEOREM FailedIsReleasedCorrect == Spec => []FailedIsReleased
<1>1. ReleaseInv => FailedIsReleased
      BY DEF ReleaseInv, Settled, Unlucky, FailedIsReleased
<1> QED
    BY <1>1, AlwaysRelease, PTL
=============================================================================
