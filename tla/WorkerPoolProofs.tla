-------------------------- MODULE WorkerPoolProofs --------------------------
(***************************************************************************)
(* Proofs about WorkerPool for any number of rows and slots: its types,    *)
(* the accounting of its tokens, and that it implements AbstractPool.      *)
(***************************************************************************)
EXTENDS WorkerPool, FiniteSetTheorems, TLAPS

USE PoolAssumption DEF Rows, Places, HasRoom, Given, Full

\* Where the batch is in its rows: those from next on have no goroutine yet, the
\* drain comes after the last one and ends with all slots.
StartedInOrder ==
    /\ \A j \in Rows : job[j] = "waiting" <=> next <= j
    /\ pc = "start" => next \in Rows
    /\ pc \in {"drain", "returned"} => next = Jobs + 1
    /\ pc \in {"acquire", "start"} => drained = 0
    /\ pc = "returned" => drained = Slots

Inv == TypeOK /\ SlotsAccounted /\ StartedInOrder

-----------------------------------------------------------------------------
(* The goroutines that are not gone, as a set with a number of elements.    *)

LEMMA OwnersFinite ==
    IsFiniteSet(Owners) /\ Cardinality(Owners) \in Nat
<1>1. IsFiniteSet(Rows)
  BY FS_Interval
<1>2. Owners \subseteq Rows
  BY DEF Owners
<1> QED  BY <1>1, <1>2, FS_Subset, FS_CardinalityType

\* What the tokens leave for the goroutines.
LEMMA OwnersBounded ==
    ASSUME TypeOK, SlotsAccounted
    PROVE  /\ Cardinality(Owners) <= Slots
           /\ pc = "start" => Cardinality(Owners) < Slots
           /\ drained = Slots => Owners = {}
<1>1. Cardinality(Owners) \in Nat
  BY OwnersFinite
<1>2. /\ Cardinality(Owners) <= Slots
      /\ pc = "start" => Cardinality(Owners) < Slots
  BY <1>1 DEF TypeOK, SlotsAccounted
<1>3. ASSUME drained = Slots PROVE Owners = {}
  <2>1. Cardinality(Owners) = 0
    BY <1>1, <1>3 DEF TypeOK, SlotsAccounted
  <2> QED  BY <2>1, OwnersFinite, FS_EmptySet
<1> QED  BY <1>2, <1>3

-----------------------------------------------------------------------------
(* Types.                                                                   *)

LEMMA InitInv == Init => Inv
<1> SUFFICES ASSUME Init PROVE Inv
  OBVIOUS
<1>1. TypeOK /\ StartedInOrder
  BY DEF Init, TypeOK, StartedInOrder
<1>2. Owners = {}
  BY DEF Init, Owners
<1>3. SlotsAccounted
  BY <1>2, FS_EmptySet DEF Init, SlotsAccounted
<1> QED  BY <1>1, <1>3 DEF Inv

LEMMA TypeStep ==
    ASSUME Inv, [Next]_vars
    PROVE  TypeOK' /\ StartedInOrder'
<1> USE DEF Inv, TypeOK, StartedInOrder
<1>1. CASE Acquire        BY <1>1 DEF Acquire
<1>2. CASE Start          BY <1>2 DEF Start
<1>3. CASE EndLoop        BY <1>3 DEF EndLoop
<1>4. CASE Drain          BY <1>4 DEF Drain
<1>5. CASE Return         BY <1>5 DEF Return
<1>6. ASSUME NEW j \in Rows, Verified(j) PROVE TypeOK' /\ StartedInOrder'
  BY <1>6 DEF Verified
<1>7. ASSUME NEW j \in Rows, Release(j) PROVE TypeOK' /\ StartedInOrder'
  BY <1>7 DEF Release
<1>8. CASE UNCHANGED vars BY <1>8 DEF vars
<1> QED
  BY <1>1, <1>2, <1>3, <1>4, <1>5, <1>6, <1>7, <1>8 DEF Next, Batch, Goroutine

-----------------------------------------------------------------------------
(* The accounting.                                                          *)

LEMMA SlotsStep ==
    ASSUME Inv, [Next]_vars
    PROVE  SlotsAccounted'
<1> USE DEF Inv, TypeOK, SlotsAccounted
<1> Cardinality(Owners) \in Nat
  BY OwnersFinite
<1>1. CASE Acquire
  <2>1. Owners' = Owners
    BY <1>1 DEF Acquire, Owners
  <2> QED  BY <1>1, <2>1 DEF Acquire, StartedInOrder
<1>2. CASE Start
  <2>1. next \in Rows /\ next \notin Owners
    BY <1>2 DEF Start, StartedInOrder, Owners
  <2>2. Owners' = Owners \cup {next}
    BY <1>2, <2>1 DEF Start, Owners
  <2>3. Cardinality(Owners') = Cardinality(Owners) + 1
    BY <2>1, <2>2, OwnersFinite, FS_AddElement
  <2> QED  BY <1>2, <2>3 DEF Start
<1>3. CASE EndLoop
  <2>1. Owners' = Owners
    BY <1>3 DEF EndLoop, Owners
  <2> QED  BY <1>3, <2>1 DEF EndLoop
<1>4. CASE Drain
  <2>1. Owners' = Owners
    BY <1>4 DEF Drain, Owners
  <2> QED  BY <1>4, <2>1 DEF Drain
<1>5. CASE Return
  <2>1. Owners' = Owners
    BY <1>5 DEF Return, Owners
  <2> QED  BY <1>5, <2>1 DEF Return
<1>6. ASSUME NEW j \in Rows, Verified(j) PROVE SlotsAccounted'
  <2>1. Owners' = Owners
    BY <1>6 DEF Verified, Owners
  <2> QED  BY <1>6, <2>1 DEF Verified
<1>7. ASSUME NEW j \in Rows, Release(j) PROVE SlotsAccounted'
  <2>1. j \in Owners
    BY <1>7 DEF Release, Owners
  <2>2. Owners' = Owners \ {j}
    BY <1>7 DEF Release, Owners
  <2>3. Cardinality(Owners') = Cardinality(Owners) - 1
    BY <2>1, <2>2, OwnersFinite, FS_RemoveElement
  <2> QED  BY <1>7, <2>3 DEF Release
<1>8. CASE UNCHANGED vars
  <2>1. Owners' = Owners
    BY <1>8 DEF vars, Owners
  <2> QED  BY <1>8, <2>1 DEF vars
<1> QED
  BY <1>1, <1>2, <1>3, <1>4, <1>5, <1>6, <1>7, <1>8 DEF Next, Batch, Goroutine

LEMMA InvHolds == Spec => []Inv
<1>1. Inv /\ [Next]_vars => Inv'
  BY TypeStep, SlotsStep DEF Inv
<1> QED  BY InitInv, <1>1, PTL DEF Spec

\* Every variable of the pool keeps its type: in particular there are never more
\* tokens in the channel of processSolanaSessions than it has room for.
THEOREM PoolTypeCorrect == Spec => []TypeOK
<1>1. Inv => TypeOK
  BY DEF Inv
<1> QED  BY InvHolds, <1>1, PTL

\* The semaphore of processSolanaSessions holds one token for each goroutine
\* that is not gone and those of the batch, whatever the interleaving.
THEOREM SlotsAccountedCorrect == Spec => []SlotsAccounted
<1>1. Inv => SlotsAccounted
  BY DEF Inv
<1> QED  BY InvHolds, <1>1, PTL

-----------------------------------------------------------------------------
(* The refinement.                                                          *)

LEMMA InitRefines == Init => Pool!Init
  BY DEF Init, Pool!Init

LEMMA StartRefines ==
    ASSUME Inv, Start
    PROVE  Pool!Next
<1> USE DEF Inv, TypeOK, StartedInOrder
<1>1. next \in Rows /\ job[next] = "waiting"
  BY DEF Start
<1>2. Cardinality({j \in Rows : job[j] = "running"}) < Slots
  <2>1. {j \in Rows : job[j] = "running"} \subseteq Owners
    BY DEF Owners
  <2>2. Cardinality({j \in Rows : job[j] = "running"}) <= Cardinality(Owners)
    BY <2>1, OwnersFinite, FS_Subset
  <2>3. Cardinality({j \in Rows : job[j] = "running"}) \in Nat
    BY <2>1, OwnersFinite, FS_Subset, FS_CardinalityType
  <2>4. Cardinality(Owners) < Slots
    BY OwnersBounded DEF Start
  <2> QED  BY <2>2, <2>3, <2>4, OwnersFinite
<1>3. PICK k \in Rows : k = next
  BY <1>1
<1>4. k \in {j \in Rows : job[j] = "waiting"}
  BY <1>1, <1>3
<1>5. \A i \in {j \in Rows : job[j] = "waiting"} : k <= i
  BY <1>3
<1>6. job' = [job EXCEPT ![k] = "running"] /\ pc' # "returned" /\ pc # "returned"
  BY <1>3 DEF Start
<1>7. Pool!Start(k)
  <2>1. {j \in Rows : job'[j] = "waiting"}
          = {j \in Rows : job[j] = "waiting"} \ {k}
    BY <1>6
  <2>2. {j \in Rows : job'[j] = "running"}
          = {j \in Rows : job[j] = "running"} \cup {k}
    BY <1>6
  <2>3. {j \in Rows : job'[j] \in {"leaving", "gone"}}
          = {j \in Rows : job[j] \in {"leaving", "gone"}}
    BY <1>4, <1>6
  <2>4. (pc' = "returned") = (pc = "returned")
    BY <1>6
  <2> QED  BY <1>2, <1>4, <1>5, <2>1, <2>2, <2>3, <2>4, SMT
          DEF Pool!Start, Pool!Cardinality, Cardinality
<1> QED  BY <1>7 DEF Pool!Next

LEMMA FinishRefines ==
    ASSUME Inv, NEW j \in Rows, Verified(j)
    PROVE  Pool!Next
<1>1. Pool!Finish(j)
  BY DEF Inv, TypeOK, Verified, Pool!Finish
<1> QED  BY <1>1 DEF Pool!Next

LEMMA ReturnRefines ==
    ASSUME Inv, Return
    PROVE  Pool!Next
<1>1. Owners = {}
  BY OwnersBounded DEF Inv, Return
<1>2. {j \in Rows : job[j] = "waiting"} = {}
  BY DEF Inv, TypeOK, StartedInOrder, Return
<1>3. {j \in Rows : job[j] = "running"} = {}
  BY <1>1 DEF Owners
<1>4. Pool!Return
  BY <1>2, <1>3 DEF Return, Pool!Return
<1> QED  BY <1>4 DEF Pool!Next

LEMMA StepRefines ==
    ASSUME Inv, [Next]_vars
    PROVE  [Pool!Next]_Pool!vars
<1> USE DEF Pool!vars
<1>1. CASE Acquire        BY <1>1 DEF Acquire
<1>2. CASE Start          BY <1>2, StartRefines
<1>3. CASE EndLoop        BY <1>3 DEF EndLoop
<1>4. CASE Drain          BY <1>4 DEF Drain
<1>5. CASE Return         BY <1>5, ReturnRefines
<1>6. ASSUME NEW j \in Rows, Verified(j) PROVE [Pool!Next]_Pool!vars
  BY <1>6, FinishRefines
<1>7. ASSUME NEW j \in Rows, Release(j) PROVE [Pool!Next]_Pool!vars
  BY <1>7 DEF Release, Inv, TypeOK
<1>8. CASE UNCHANGED vars BY <1>8 DEF vars
<1> QED
  BY <1>1, <1>2, <1>3, <1>4, <1>5, <1>6, <1>7, <1>8 DEF Next, Batch, Goroutine

\* processSolanaSessions keeps the promise of AbstractPool for batches of any
\* size and any number of slots: every row is verified by one goroutine, in
\* order, by no more than Slots at a time, and the batch outlasts them all.
THEOREM PoolImplemented == Spec => ImplementsPool
<1>1. Inv /\ [Next]_vars => [Pool!Next]_Pool!vars
  BY StepRefines
<1> QED  BY InitRefines, InvHolds, <1>1, PTL DEF Spec, ImplementsPool, Pool!Spec
=============================================================================
