---------------------------- MODULE PollerProofs ----------------------------
(***************************************************************************)
(* Proofs about the walk of Poller, for tables of any length, pages of any *)
(* size and any number of rows that come, are claimed, end or are given    *)
(* back between two pages.                                                 *)
(***************************************************************************)
EXTENDS Poller, WorkerPoolProofs, FiniteSetTheorems, TLAPS

USE ScanAssumption, PollerAssumption

-----------------------------------------------------------------------------
(* Counting in a finite set of positions.                                   *)

Count(I, i) == Cardinality({j \in I : j <= i})

LEMMA CountIsNat ==
    ASSUME NEW I \in SUBSET Nat, IsFiniteSet(I), NEW i \in Nat
    PROVE  /\ IsFiniteSet({j \in I : j <= i})
           /\ Count(I, i) \in Nat /\ Count(I, i) <= Cardinality(I)
           /\ Cardinality(I) \in Nat
<1>1. {j \in I : j <= i} \in SUBSET I
      OBVIOUS
<1>2. /\ IsFiniteSet({j \in I : j <= i})
      /\ Cardinality({j \in I : j <= i}) <= Cardinality(I)
      BY <1>1, FS_Subset
<1>3. Cardinality({j \in I : j <= i}) \in Nat /\ Cardinality(I) \in Nat
      BY <1>2, FS_CardinalityType
<1> QED
    BY <1>2, <1>3 DEF Count

LEMMA CountGrows ==
    ASSUME NEW I \in SUBSET Nat, IsFiniteSet(I), NEW i \in Nat, NEW k \in I, i < k
    PROVE  Count(I, i) < Count(I, k)
<1> DEFINE A == {j \in I : j <= i}
           B == {j \in I : j <= k}
<1>1. IsFiniteSet(A) /\ IsFiniteSet(B)
      BY CountIsNat
<1>2. A \cup {k} \in SUBSET B /\ k \notin A
      <2>1. k \in Nat /\ \A j \in I : j \in Nat
            OBVIOUS
      <2>2. k \notin A /\ k \in B
            BY <2>1
      <2>3. ASSUME NEW j \in A
            PROVE  j \in B
            BY <2>1, <2>3
      <2> QED
          BY <2>2, <2>3
<1>3. Cardinality(A) \in Nat /\ Cardinality(B) \in Nat
      BY <1>1, FS_CardinalityType
<1> HIDE DEF A, B
<1>4. /\ IsFiniteSet(A \cup {k})
      /\ Cardinality(A \cup {k}) = IF k \in A THEN Cardinality(A)
                                   ELSE Cardinality(A) + 1
      BY <1>1, FS_AddElement
<1>5. Cardinality(A \cup {k}) <= Cardinality(B)
      BY <1>1, <1>2, FS_Subset
<1>6. Cardinality(A) < Cardinality(B)
      BY <1>2, <1>3, <1>4, <1>5
<1> QED
    BY <1>6 DEF Count, A, B

LEMMA CountIsInjective ==
    ASSUME NEW I \in SUBSET Nat, IsFiniteSet(I), NEW i \in I, NEW k \in I,
           Count(I, i) = Count(I, k)
    PROVE  i = k
<1>1. Count(I, i) \in Nat /\ Count(I, k) \in Nat
      BY CountIsNat
<1>2. i < k => Count(I, i) < Count(I, k)
      BY CountGrows
<1>3. k < i => Count(I, k) < Count(I, i)
      BY CountGrows
<1> QED
    BY <1>1, <1>2, <1>3

LEMMA CountIsPositive ==
    ASSUME NEW I \in SUBSET Nat, IsFiniteSet(I), NEW i \in I
    PROVE  Count(I, i) \in 1..Cardinality(I)
<1>1. /\ IsFiniteSet({j \in I : j <= i})
      /\ Count(I, i) \in Nat /\ Count(I, i) <= Cardinality(I)
      /\ Cardinality(I) \in Nat
      BY CountIsNat
<1>2. {j \in I : j <= i} # {}
      OBVIOUS
<1>3. Count(I, i) # 0
      BY <1>1, <1>2, FS_EmptySet DEF Count
<1> QED
    BY <1>1, <1>3

\* There is a position for every number up to the size of the set.
LEMMA CountIsOnto ==
    ASSUME NEW I \in SUBSET Nat, IsFiniteSet(I), NEW n \in 1..Cardinality(I)
    PROVE  \E i \in I : Count(I, i) = n
<1> DEFINE f == [i \in I |-> Count(I, i)]
           T == 1..Cardinality(I)
<1>1. Cardinality(I) \in Nat
      BY FS_CardinalityType
<1>2. IsFiniteSet(T) /\ Cardinality(T) = Cardinality(I)
      BY <1>1, FS_Interval
<1>3. \A i \in I : f[i] \in T
      BY CountIsPositive
<1>4. \A i, k \in I : f[i] = f[k] => i = k
      BY CountIsInjective
<1>5. f \in [I -> T]
      BY <1>3
<1> HIDE DEF f, T
<1>6. f \in Injection(I, T)
      BY <1>4, <1>5 DEF Injection, IsInjective
<1>7. f \in Surjection(I, T)
      BY <1>2, <1>6, FS_Injection
<1>8. PICK i \in I : f[i] = n
      BY <1>7 DEF Surjection, T
<1> QED
    BY <1>8 DEF f

\* Whoever leaves or enters moves a position by at most one.
LEMMA CountWithout ==
    ASSUME NEW I \in SUBSET Nat, IsFiniteSet(I), NEW k \in I, NEW i \in Nat
    PROVE  Count(I \ {k}, i) = IF k <= i THEN Count(I, i) - 1 ELSE Count(I, i)
<1> DEFINE A == {j \in I : j <= i}
<1>1. IsFiniteSet(A)
      BY CountIsNat
<1>2. {j \in I \ {k} : j <= i} = A \ {k}
      OBVIOUS
<1>3. k \in A <=> k <= i
      OBVIOUS
<1> HIDE DEF A
<1>4. Cardinality(A \ {k}) = IF k \in A THEN Cardinality(A) - 1 ELSE Cardinality(A)
      BY <1>1, FS_RemoveElement
<1> QED
    BY <1>2, <1>3, <1>4 DEF Count, A

LEMMA CountWith ==
    ASSUME NEW I \in SUBSET Nat, IsFiniteSet(I), NEW k \in Nat, k \notin I,
           NEW i \in Nat
    PROVE  Count(I \cup {k}, i) = IF k <= i THEN Count(I, i) + 1 ELSE Count(I, i)
<1> DEFINE A == {j \in I : j <= i}
<1>1. IsFiniteSet(A) /\ k \notin A
      BY CountIsNat
<1>2. {j \in I \cup {k} : j <= i} = IF k <= i THEN A \cup {k} ELSE A
      OBVIOUS
<1> HIDE DEF A
<1>3. Cardinality(A \cup {k}) = IF k \in A THEN Cardinality(A) ELSE Cardinality(A) + 1
      BY <1>1, FS_AddElement
<1> QED
    BY <1>1, <1>2, <1>3 DEF Count, A

LEMMA SmallerSet ==
    ASSUME NEW S, IsFiniteSet(S), NEW T, T \subseteq S
    PROVE  Cardinality(T) <= Cardinality(S) /\ IsFiniteSet(T)
           /\ Cardinality(T) \in Nat /\ Cardinality(S) \in Nat
<1>1. Cardinality(T) <= Cardinality(S) /\ IsFiniteSet(T)
      BY FS_Subset, T \in SUBSET S
<1> QED
    BY <1>1, FS_CardinalityType

LEMMA AtMostOneMore ==
    ASSUME NEW S, IsFiniteSet(S), NEW z, NEW T, T \subseteq S \cup {z}
    PROVE  Cardinality(T) <= Cardinality(S) + 1
<1>1. /\ IsFiniteSet(S \cup {z})
      /\ Cardinality(S \cup {z}) = IF z \in S THEN Cardinality(S) ELSE Cardinality(S) + 1
      BY FS_AddElement
<1>2. Cardinality(T) <= Cardinality(S \cup {z}) /\ Cardinality(T) \in Nat
      BY <1>1, SmallerSet
<1>3. Cardinality(S) \in Nat
      BY FS_CardinalityType
<1> QED
    BY <1>1, <1>2, <1>3

LEMMA ImageIsSmaller ==
    ASSUME NEW D, IsFiniteSet(D), NEW f, NEW T,
           \A i \in D : f[i] \in T, \A v \in T : \E i \in D : f[i] = v
    PROVE  Cardinality(T) <= Cardinality(D) /\ IsFiniteSet(T)
<1> DEFINE g == [i \in D |-> f[i]]
<1>1. g \in [D -> T] /\ \A v \in T : \E i \in D : g[i] = v
      OBVIOUS
<1> HIDE DEF g
<1>2. g \in Surjection(D, T)
      BY <1>1 DEF Surjection
<1> QED
    BY <1>2, FS_Surjection

-----------------------------------------------------------------------------
(* A page: the rows whose place in the result is behind the offset, but no   *)
(* further than a page is long.                                              *)

WalkTypeOK ==
    /\ status \in [TableRows -> RowStatuses]
    /\ scanPc \in {"idle", "load", "rows", "dispatch"}
    /\ table \in {"sessions", "withdrawals"}
    /\ offset \in Nat
    /\ view \in [steady : SUBSET TableRows, read : SUBSET TableRows,
                 again : Nat, left : Nat, entered : Nat]

Tables == {Sessions, Withdrawals}

LEMMA TablesAreFinite ==
    ASSUME NEW rows \in Tables
    PROVE  /\ IsInjective(rows) /\ rows \in Seq(TableRows)
           /\ DOMAIN rows = 1..Len(rows) /\ Len(rows) \in Nat
           /\ DOMAIN rows \in SUBSET Nat /\ IsFiniteSet(DOMAIN rows)
           /\ Pending(rows) \in SUBSET Nat /\ IsFiniteSet(Pending(rows))
           /\ Pending(rows) \subseteq DOMAIN rows
           /\ \A i \in DOMAIN rows : rows[i] \in TableRows
<1>1. IsInjective(rows) /\ rows \in Seq(TableRows)
      BY DEF Tables
<1>2. DOMAIN rows = 1..Len(rows) /\ Len(rows) \in Nat
      BY <1>1
<1>3. \A i \in DOMAIN rows : rows[i] \in TableRows
      BY <1>1
<1>4. DOMAIN rows \in SUBSET Nat
      BY <1>2
<1>5. IsFiniteSet(DOMAIN rows)
      BY <1>2, FS_Interval
<1>6. Pending(rows) \in SUBSET (DOMAIN rows)
      BY DEF Pending
<1>7. IsFiniteSet(Pending(rows))
      BY <1>5, <1>6, FS_Subset
<1> QED
    BY <1>1, <1>2, <1>3, <1>4, <1>5, <1>6, <1>7

LEMMA PlaceIsCount ==
    ASSUME NEW rows \in Tables, NEW i \in DOMAIN rows
    PROVE  Place(rows, i) = Count(Pending(rows), i) /\ Place(rows, i) \in Nat
<1>1. i \in Nat
      BY TablesAreFinite
<1>2. Place(rows, i) = Count(Pending(rows), i)
      BY DEF Place, Count
<1> QED
    BY <1>1, <1>2, CountIsNat, TablesAreFinite

Window(rows, from) ==
    {i \in Pending(rows) : Place(rows, i) > from /\ Place(rows, i) <= from + Limit}

LEMMA PageIsWindow ==
    ASSUME NEW rows \in Tables, NEW from \in Nat
    PROVE  /\ Range(Cut(rows, from)) = {rows[i] : i \in Window(rows, from)}
           /\ LastPage(Cut(rows, from)) =>
                  \A i \in Pending(rows) : Place(rows, i) <= from
<1> DEFINE P == Pending(rows)
           n == Cardinality(P)
           last == IF from + Limit < n THEN from + Limit ELSE n
           at(k) == CHOOSE i \in P : Place(rows, i) = from + k
           cut == [k \in 1..(last - from) |-> rows[at(k)]]
<1>1. Cut(rows, from) = cut
      BY DEF Cut
<1>2. P \in SUBSET Nat /\ IsFiniteSet(P) /\ P \subseteq DOMAIN rows
      BY TablesAreFinite
<1>3. n \in Nat /\ last \in Nat /\ Limit \in Nat
      BY <1>2, FS_CardinalityType
<1>4. last <= n /\ last <= from + Limit
      BY <1>3
<1>5. ASSUME NEW i \in P
      PROVE  Place(rows, i) \in 1..n
      BY <1>2, CountIsPositive, PlaceIsCount
<1>6. ASSUME NEW k \in 1..(last - from)
      PROVE  at(k) \in P /\ Place(rows, at(k)) = from + k
      <2>1. from + k \in 1..n
            BY <1>3, <1>4
      <2>2. \E i \in P : Place(rows, i) = from + k
            BY <1>2, <2>1, CountIsOnto, PlaceIsCount
      <2> HIDE DEF P
      <2> QED
          BY <2>2
<1>7. ASSUME NEW i \in P, NEW k \in P, Place(rows, i) = Place(rows, k)
      PROVE  i = k
      BY <1>2, <1>7, CountIsInjective, PlaceIsCount
<1> HIDE DEF P, n, last
<1>8. ASSUME NEW k \in DOMAIN cut
      PROVE  cut[k] \in {rows[i] : i \in Window(rows, from)}
      <2>1. k \in 1..(last - from) /\ cut[k] = rows[at(k)]
            BY <1>8
      <2>2. at(k) \in P /\ Place(rows, at(k)) = from + k
            BY <1>6, <2>1
      <2> HIDE DEF at
      <2>3. at(k) \in Window(rows, from)
            BY <1>3, <1>4, <2>1, <2>2 DEF Window, P
      <2> QED
          BY <2>1, <2>3
<1>9. ASSUME NEW i \in Window(rows, from)
      PROVE  \E k \in DOMAIN cut : cut[k] = rows[i]
      <2> DEFINE k == Place(rows, i) - from
      <2>1. /\ i \in P /\ Place(rows, i) \in 1..n
            /\ Place(rows, i) > from /\ Place(rows, i) <= from + Limit
            BY <1>5, <1>9 DEF Window, P
      <2>2. k \in 1..(last - from)
            BY <1>3, <2>1 DEF last
      <2>3. from + k = Place(rows, i)
            BY <2>1
      <2> HIDE DEF k
      <2>4. at(k) \in P /\ Place(rows, at(k)) = Place(rows, i)
            BY <1>6, <2>2, <2>3
      <2>5. at(k) = i
            <3> HIDE DEF at
            <3> QED
                BY <1>7, <2>1, <2>4
      <2> QED
          BY <2>2, <2>5
<1>10. Range(cut) = {rows[i] : i \in Window(rows, from)}
       <2> HIDE DEF cut
       <2> QED
           BY <1>8, <1>9 DEF Range
<1>11. cut = <<>> => last <= from
       <2>1. DOMAIN cut = 1..(last - from)
             OBVIOUS
       <2> HIDE DEF cut
       <2>2. last > from => 1 \in DOMAIN cut
             BY <1>3, <2>1
       <2>3. last > from \/ last <= from
             BY <1>3
       <2> QED
           BY <2>2, <2>3
<1>12. cut = <<>> => \A i \in P : Place(rows, i) <= from
       <2> SUFFICES ASSUME last <= from, NEW i \in P PROVE Place(rows, i) <= from
           BY <1>11
       <2>1. n <= from
             BY <1>3 DEF last
       <2> QED
           BY <1>3, <1>5, <2>1
<1> HIDE DEF cut
<1> QED
    BY <1>1, <1>10, <1>12 DEF LastPage, P

-----------------------------------------------------------------------------
(* A change of a status: the pending rows of the table that is walked over   *)
(* stay, or lose one, or get one more, and the view of the walk says so.     *)

LEMMA ListIsTable ==
    ASSUME WalkTypeOK
    PROVE  InOrder(table) \in Tables /\ RowsOf(table) = Range(InOrder(table))
BY DEF WalkTypeOK, InOrder, Tables, RowsOf

Stay(rows) ==
    /\ Pending(rows)' = Pending(rows)
    /\ view'.steady = view.steady
    /\ view'.left = view.left /\ view'.entered = view.entered

Leave(rows, k) ==
    /\ k \in Pending(rows) /\ Pending(rows)' = Pending(rows) \ {k}
    /\ view'.steady = view.steady \ {rows[k]}
    /\ view'.left = view.left + 1 /\ view'.entered = view.entered

Enter(rows, k) ==
    /\ k \in DOMAIN rows \ Pending(rows) /\ Pending(rows)' = Pending(rows) \cup {k}
    /\ view'.steady = view.steady
    /\ view'.left = view.left /\ view'.entered = view.entered + 1

LEMMA ChangeOfStatus ==
    ASSUME WalkTypeOK, scanPc # "idle", NEW x, NEW s \in RowStatuses,
           status' = [status EXCEPT ![x] = s], Watch,
           NEW rows, rows = InOrder(table)
    PROVE  /\ Stay(rows) \/ \E k \in DOMAIN rows : Leave(rows, k) \/ Enter(rows, k)
           /\ view'.read = view.read /\ view'.again = view.again
<1> DEFINE gone == {r \in RowsOf(table) :
                       status[r] = "pending" /\ status'[r] # "pending"}
           come == {r \in RowsOf(table) :
                       status[r] # "pending" /\ status'[r] = "pending"}
<1>1. view' = [view EXCEPT !.steady = @ \ gone,
                           !.left = @ + Cardinality(gone),
                           !.entered = @ + Cardinality(come)]
      BY DEF Watch
<1>2. /\ view'.steady = view.steady \ gone
      /\ view'.left = view.left + Cardinality(gone)
      /\ view'.entered = view.entered + Cardinality(come)
      /\ view'.read = view.read /\ view'.again = view.again
      <2> HIDE DEF gone, come
      <2> QED
          BY <1>1 DEF WalkTypeOK
<1>3. /\ rows \in Tables /\ RowsOf(table) = Range(rows)
      /\ IsInjective(rows)
      /\ \A i \in DOMAIN rows : rows[i] \in TableRows
      BY ListIsTable, TablesAreFinite
<1>4. view.left \in Nat /\ view.entered \in Nat
      BY DEF WalkTypeOK
<1>5. \A r \in TableRows : status'[r] = IF r = x THEN s ELSE status[r]
      BY DEF WalkTypeOK
<1>6. Cardinality({}) = 0 /\ \A r : Cardinality({r}) = 1
      BY FS_EmptySet, FS_Singleton
<1>7. CASE \A i \in DOMAIN rows : rows[i] # x
      <2>1. gone = {} /\ come = {}
            BY <1>3, <1>5, <1>7 DEF Range
      <2>2. Pending(rows)' = Pending(rows)
            BY <1>3, <1>5, <1>7 DEF Pending
      <2> HIDE DEF gone, come
      <2>3. Stay(rows)
            BY <1>2, <1>4, <1>6, <2>1, <2>2 DEF Stay
      <2> QED
          BY <1>2, <2>3
<1>8. ASSUME NEW k \in DOMAIN rows, rows[k] = x
      PROVE  Stay(rows) \/ Leave(rows, k) \/ Enter(rows, k)
      <2>1. x \in RowsOf(table) /\ x \in TableRows
            BY <1>3, <1>8 DEF Range
      <2>2. \A i \in DOMAIN rows : rows[i] = x => i = k
            BY <1>3, <1>8 DEF IsInjective
      <2>3. \A i \in DOMAIN rows : i # k => status'[rows[i]] = status[rows[i]]
            BY <1>3, <1>5, <2>2
      <2>4. \A r \in RowsOf(table) : r # x => status'[r] = status[r]
            BY <1>3, <1>5 DEF Range
      <2>5. status'[rows[k]] = s
            BY <1>5, <1>8, <2>1
      <2>6. CASE status[x] = "pending" /\ s # "pending"
            <3>1. gone = {x} /\ come = {}
                  BY <1>8, <2>1, <2>4, <2>5, <2>6
            <3>2. k \in Pending(rows) /\ Pending(rows)' = Pending(rows) \ {k}
                  BY <1>8, <2>3, <2>5, <2>6 DEF Pending
            <3>3. Cardinality(gone) = 1 /\ Cardinality(come) = 0
                  BY <1>6, <3>1
            <3> HIDE DEF gone, come
            <3>4. /\ view'.left = view.left + 1
                  /\ view'.entered = view.entered + 0
                  BY <1>2, <3>3
            <3>5. view'.steady = view.steady \ {rows[k]}
                  BY <1>2, <1>8, <3>1
            <3>6. Leave(rows, k)
                  BY <1>4, <3>2, <3>4, <3>5 DEF Leave
            <3> QED
                BY <3>6
      <2>7. CASE status[x] # "pending" /\ s = "pending"
            <3>1. gone = {} /\ come = {x}
                  BY <1>8, <2>1, <2>4, <2>5, <2>7
            <3>2. k \notin Pending(rows) /\ Pending(rows)' = Pending(rows) \cup {k}
                  BY <1>8, <2>3, <2>5, <2>7 DEF Pending
            <3>3. Cardinality(gone) = 0 /\ Cardinality(come) = 1
                  BY <1>6, <3>1
            <3> HIDE DEF gone, come
            <3>4. /\ view'.left = view.left + 0
                  /\ view'.entered = view.entered + 1
                  BY <1>2, <3>3
            <3>5. view'.steady = view.steady
                  BY <1>2, <1>8, <3>1
            <3>6. Enter(rows, k)
                  BY <1>4, <3>2, <3>4, <3>5 DEF Enter
            <3> QED
                BY <3>6
      <2>8. CASE (status[x] = "pending") = (s = "pending")
            <3>1. gone = {} /\ come = {}
                  BY <1>8, <2>1, <2>4, <2>5, <2>8
            <3>2. Pending(rows)' = Pending(rows)
                  BY <1>8, <2>3, <2>5, <2>8 DEF Pending
            <3> HIDE DEF gone, come
            <3> QED
                BY <1>2, <1>4, <1>6, <3>1, <3>2 DEF Stay
      <2> QED
          BY <2>6, <2>7, <2>8
<1> HIDE DEF gone, come
<1>9. CASE \E k \in DOMAIN rows : rows[k] = x
      <2>1. PICK k \in DOMAIN rows : rows[k] = x
            BY <1>9
      <2> QED
          BY <1>2, <1>8, <2>1
<1> QED
    BY <1>7, <1>9

-----------------------------------------------------------------------------
(* The invariant of a walk over rows.  Of the rows that were pending all the *)
(* time and are unread, those the offset has passed are not more than the    *)
(* departures, since each departure lets one place slip past the offset; and *)
(* the repetitions and what can still be read again are not more than the    *)
(* arrivals, since each arrival pushes one place back behind it.             *)

Unread(rows) == {i \in Pending(rows) : rows[i] \in view.steady \ view.read}
Missed(rows) == {i \in Unread(rows) : Place(rows, i) <= offset}
Repeatable(rows) ==
    {i \in Pending(rows) : rows[i] \in view.read /\ Place(rows, i) > offset}

SteadyPending(rows) == \A r \in view.steady : \E i \in Pending(rows) : rows[i] = r
MissedFew(rows) ==
    /\ scanPc \in {"load", "rows"} => Cardinality(Missed(rows)) <= view.left
    /\ scanPc = "dispatch" => Cardinality(Unread(rows)) <= view.left
RepeatedFew(rows) ==
    view.again + Cardinality(Repeatable(rows)) <= view.entered

WalkInv(rows) == SteadyPending(rows) /\ MissedFew(rows) /\ RepeatedFew(rows)

ScanInv ==
    /\ WalkTypeOK
    /\ scanPc = "idle" => offset = 0 /\ view.again = 0
    /\ \A rows \in Tables : scanPc # "idle" /\ rows = InOrder(table) => WalkInv(rows)

LEMMA SetsAreFinite ==
    ASSUME WalkTypeOK, NEW rows \in Tables
    PROVE  /\ IsFiniteSet(Unread(rows)) /\ IsFiniteSet(Missed(rows))
           /\ IsFiniteSet(Repeatable(rows))
           /\ Cardinality(Unread(rows)) \in Nat /\ Cardinality(Missed(rows)) \in Nat
           /\ Cardinality(Repeatable(rows)) \in Nat
           /\ view.left \in Nat /\ view.entered \in Nat /\ view.again \in Nat
<1>1. /\ Unread(rows) \subseteq Pending(rows)
      /\ Missed(rows) \subseteq Pending(rows)
      /\ Repeatable(rows) \subseteq Pending(rows)
      BY DEF Unread, Missed, Repeatable
<1>2. IsFiniteSet(Pending(rows))
      BY TablesAreFinite
<1>3. view.left \in Nat /\ view.entered \in Nat /\ view.again \in Nat
      BY DEF WalkTypeOK
<1> QED
    BY <1>1, <1>2, <1>3, SmallerSet

\* Steps that change a status, or nothing, between two pages.
Between ==
    /\ scanPc' = scanPc \/ (scanPc = "rows" /\ scanPc' \in {"load", "rows"})
    /\ offset' = offset /\ view'.read = view.read /\ view'.again = view.again

LEMMA StayWalk ==
    ASSUME WalkTypeOK, NEW rows \in Tables, WalkInv(rows), Between, Stay(rows)
    PROVE  WalkInv(rows)'
<1>1. \A i : Place(rows, i)' = Place(rows, i)
      BY DEF Stay, Place
<1>2. /\ Unread(rows)' = Unread(rows) /\ Missed(rows)' = Missed(rows)
      /\ Repeatable(rows)' = Repeatable(rows)
      BY <1>1 DEF Stay, Between, Unread, Missed, Repeatable
<1>3. SteadyPending(rows)'
      BY DEF Stay, WalkInv, SteadyPending
<1> QED
    BY <1>2, <1>3 DEF Stay, Between, WalkInv, MissedFew, RepeatedFew

LEMMA LeaveWalk ==
    ASSUME WalkTypeOK, NEW rows \in Tables, WalkInv(rows), Between,
           NEW k \in DOMAIN rows, Leave(rows, k)
    PROVE  WalkInv(rows)'
<1>1. /\ k \in Pending(rows) /\ Pending(rows)' = Pending(rows) \ {k}
      /\ view'.steady = view.steady \ {rows[k]} /\ view'.read = view.read
      /\ view'.left = view.left + 1 /\ view'.entered = view.entered
      /\ view'.again = view.again /\ offset' = offset /\ offset \in Nat
      BY DEF Leave, Between, WalkTypeOK
<1>2. /\ Pending(rows) \in SUBSET Nat /\ IsFiniteSet(Pending(rows))
      /\ Pending(rows) \subseteq DOMAIN rows
      BY TablesAreFinite
<1>3. ASSUME NEW i \in Pending(rows)
      PROVE  /\ Place(rows, i) \in Nat /\ Place(rows, i)' \in Nat
             /\ Place(rows, i)' <= Place(rows, i)
             /\ Place(rows, i) <= Place(rows, i)' + 1
      <2>1. i \in Nat /\ k \in Nat
            BY <1>1, <1>2
      <2>2. Place(rows, i) = Count(Pending(rows), i) /\ Place(rows, i) \in Nat
            BY <1>2, PlaceIsCount
      <2>3. Place(rows, i)' = Count(Pending(rows) \ {k}, i)
            BY <1>1 DEF Place, Count
      <2>4. Count(Pending(rows) \ {k}, i) = IF k <= i THEN Count(Pending(rows), i) - 1
                                            ELSE Count(Pending(rows), i)
            BY <1>1, <1>2, <2>1, CountWithout
      <2>5. Count(Pending(rows), i) # 0
            BY <1>2, CountIsPositive
      <2> QED
          BY <2>1, <2>2, <2>3, <2>4, <2>5
<1>4. Unread(rows)' \subseteq Unread(rows)
      BY <1>1 DEF Unread
<1>5. Repeatable(rows)' \subseteq Repeatable(rows)
      BY <1>1, <1>3 DEF Repeatable
<1>6. \E z : Missed(rows)' \subseteq Missed(rows) \cup {z}
      <2>1. \A i \in Missed(rows)' :
                i \in Missed(rows) \/ (i \in Pending(rows) /\ Place(rows, i) = offset + 1)
            BY <1>1, <1>3, <1>4 DEF Missed, Unread
      <2>2. \A i, j \in Pending(rows) : Place(rows, i) = Place(rows, j) => i = j
            BY <1>2, PlaceIsCount, CountIsInjective
      <2>3. CASE \E z \in Pending(rows) : Place(rows, z) = offset + 1
            <3>1. PICK z \in Pending(rows) : Place(rows, z) = offset + 1
                  BY <2>3
            <3>2. Missed(rows)' \subseteq Missed(rows) \cup {z}
                  BY <2>1, <2>2, <3>1
            <3> QED
                BY <3>2
      <2>4. CASE ~\E z \in Pending(rows) : Place(rows, z) = offset + 1
            BY <2>1, <2>4
      <2> QED
          BY <2>3, <2>4
<1>7. Cardinality(Missed(rows)') <= Cardinality(Missed(rows)) + 1
      BY <1>6, SetsAreFinite, AtMostOneMore
<1>8. Cardinality(Unread(rows)') <= Cardinality(Unread(rows))
      /\ Cardinality(Unread(rows)') \in Nat
      BY <1>4, SetsAreFinite, SmallerSet
<1>9. Cardinality(Repeatable(rows)') <= Cardinality(Repeatable(rows))
      /\ Cardinality(Repeatable(rows)') \in Nat
      BY <1>5, SetsAreFinite, SmallerSet
<1>10. SteadyPending(rows)'
       BY <1>1 DEF WalkInv, SteadyPending
<1>11. Cardinality(Missed(rows)') \in Nat
       BY <1>6, SetsAreFinite, FS_AddElement, SmallerSet
<1>12. MissedFew(rows)'
       <2>1. scanPc \in {"load", "rows"} => Cardinality(Missed(rows)') <= view'.left
             BY <1>1, <1>7, <1>11, SetsAreFinite DEF WalkInv, MissedFew
       <2>2. scanPc = "dispatch" => Cardinality(Unread(rows)') <= view'.left
             BY <1>1, <1>8, SetsAreFinite DEF WalkInv, MissedFew
       <2> QED
           BY <2>1, <2>2 DEF MissedFew, Between
<1>13. RepeatedFew(rows)'
       BY <1>1, <1>9, SetsAreFinite DEF WalkInv, RepeatedFew
<1> QED
    BY <1>10, <1>12, <1>13 DEF WalkInv

LEMMA EnterWalk ==
    ASSUME WalkTypeOK, NEW rows \in Tables, WalkInv(rows), Between,
           NEW k \in DOMAIN rows, Enter(rows, k)
    PROVE  WalkInv(rows)'
<1>1. /\ k \notin Pending(rows) /\ Pending(rows)' = Pending(rows) \cup {k}
      /\ view'.steady = view.steady /\ view'.read = view.read
      /\ view'.left = view.left /\ view'.entered = view.entered + 1
      /\ view'.again = view.again /\ offset' = offset /\ offset \in Nat
      BY DEF Enter, Between, WalkTypeOK
<1>2. /\ Pending(rows) \in SUBSET Nat /\ IsFiniteSet(Pending(rows))
      /\ Pending(rows) \subseteq DOMAIN rows /\ DOMAIN rows \in SUBSET Nat
      BY TablesAreFinite
<1> DEFINE P == Pending(rows)
           Q == P \cup {k}
<1>3. Q \in SUBSET Nat /\ IsFiniteSet(Q) /\ k \in Nat /\ k \in Q
      BY <1>2, FS_AddElement
<1>4. ASSUME NEW i \in Q
      PROVE  Place(rows, i)' = Count(Q, i) /\ Place(rows, i)' \in Nat
      <2>1. Place(rows, i)' = Count(Q, i)
            BY <1>1 DEF Place, Count
      <2> HIDE DEF Q
      <2> QED
          BY <1>3, <2>1, CountIsNat
<1>5. ASSUME NEW i \in P
      PROVE  /\ Place(rows, i) \in Nat
             /\ Place(rows, i)' = IF k <= i THEN Place(rows, i) + 1
                                  ELSE Place(rows, i)
      <2>1. Place(rows, i) = Count(P, i) /\ Place(rows, i) \in Nat
            BY <1>2, PlaceIsCount
      <2>2. Count(Q, i) = IF k <= i THEN Count(P, i) + 1 ELSE Count(P, i)
            BY <1>1, <1>2, <1>3, CountWith
      <2> QED
          BY <1>4, <2>1, <2>2
<1>6. Unread(rows)' \subseteq Unread(rows)
      <2>1. ASSUME NEW i \in Unread(rows)', i = k
            PROVE  FALSE
            <3>1. rows[k] \in view.steady
                  BY <1>1, <2>1 DEF Unread
            <3>2. PICK j \in Pending(rows) : rows[j] = rows[k]
                  BY <3>1 DEF WalkInv, SteadyPending
            <3>3. j = k
                  BY <1>2, <3>2, TablesAreFinite DEF IsInjective
            <3> QED
                BY <1>1, <3>3
      <2> QED
          BY <1>1, <2>1 DEF Unread
<1>7. Missed(rows)' \subseteq Missed(rows)
      <2>1. ASSUME NEW i \in Missed(rows)'
            PROVE  i \in Missed(rows)
            <3>1. i \in Unread(rows) /\ Place(rows, i)' <= offset
                  BY <1>1, <1>6, <2>1 DEF Missed
            <3>2. i \in P
                  BY <3>1 DEF Unread
            <3> HIDE DEF P
            <3>3. Place(rows, i) <= offset
                  BY <1>1, <1>5, <3>1, <3>2
            <3> QED
                BY <3>1, <3>3 DEF Missed
      <2> QED
          BY <2>1
<1>8. \E z : Repeatable(rows)' \subseteq Repeatable(rows) \cup {z}
      <2>1. ASSUME NEW i \in Repeatable(rows)'
            PROVE  /\ i \in Q /\ Place(rows, i)' > offset
                   /\ i \in P => \/ i \in Repeatable(rows)
                                 \/ k <= i /\ Place(rows, i) = offset
            <3>1. i \in Q /\ Place(rows, i)' > offset /\ rows[i] \in view.read
                  BY <1>1, <2>1 DEF Repeatable
            <3>2. i \in P => \/ Place(rows, i) > offset
                             \/ k <= i /\ Place(rows, i) = offset
                  BY <1>1, <1>5, <3>1
            <3> QED
                BY <3>1, <3>2 DEF Repeatable
      <2>2. CASE Place(rows, k)' > offset
            <3>1. ASSUME NEW i \in P, k <= i, Place(rows, i) = offset
                  PROVE  FALSE
                  <4>1. k < i /\ i \in Q /\ i \in Nat
                        BY <1>1, <1>2, <1>3, <3>1
                  <4> HIDE DEF P, Q
                  <4>2. Count(Q, k) < Count(Q, i)
                        BY <1>3, <4>1, CountGrows
                  <4>3. Place(rows, k)' < Place(rows, i)'
                        BY <1>3, <1>4, <4>1, <4>2
                  <4>4. Place(rows, i)' = offset + 1
                        BY <1>5, <3>1
                  <4> QED
                      BY <1>1, <1>3, <1>4, <2>2, <4>3, <4>4
            <3>2. Repeatable(rows)' \subseteq Repeatable(rows) \cup {k}
                  BY <2>1, <3>1
            <3> QED
                BY <3>2
      <2>3. CASE ~(Place(rows, k)' > offset)
            <3>1. \A i \in Repeatable(rows)' :
                      i \in Repeatable(rows) \/ (i \in P /\ Place(rows, i) = offset)
                  BY <2>1, <2>3
            <3>2. \A i, j \in P : Place(rows, i) = Place(rows, j) => i = j
                  BY <1>2, PlaceIsCount, CountIsInjective
            <3> HIDE DEF P
            <3>3. CASE \E z \in P : Place(rows, z) = offset
                  <4>1. PICK z \in P : Place(rows, z) = offset
                        BY <3>3
                  <4>2. Repeatable(rows)' \subseteq Repeatable(rows) \cup {z}
                        BY <3>1, <3>2, <4>1
                  <4> QED
                      BY <4>2
            <3>4. CASE ~\E z \in P : Place(rows, z) = offset
                  BY <3>1, <3>4
            <3> QED
                BY <3>3, <3>4
      <2> QED
          BY <2>2, <2>3
<1>9. Cardinality(Repeatable(rows)') <= Cardinality(Repeatable(rows)) + 1
      BY <1>8, SetsAreFinite, AtMostOneMore
<1>10. Cardinality(Repeatable(rows)') \in Nat
       BY <1>8, SetsAreFinite, FS_AddElement, SmallerSet
<1>11. /\ Cardinality(Unread(rows)') <= Cardinality(Unread(rows))
       /\ Cardinality(Unread(rows)') \in Nat
       BY <1>6, SetsAreFinite, SmallerSet
<1>12. /\ Cardinality(Missed(rows)') <= Cardinality(Missed(rows))
       /\ Cardinality(Missed(rows)') \in Nat
       BY <1>7, SetsAreFinite, SmallerSet
<1>13. SteadyPending(rows)'
       BY <1>1 DEF WalkInv, SteadyPending
<1>14. MissedFew(rows)'
       <2>1. scanPc \in {"load", "rows"} => Cardinality(Missed(rows)') <= view'.left
             BY <1>1, <1>12, SetsAreFinite DEF WalkInv, MissedFew
       <2>2. scanPc = "dispatch" => Cardinality(Unread(rows)') <= view'.left
             BY <1>1, <1>11, SetsAreFinite DEF WalkInv, MissedFew
       <2> QED
           BY <2>1, <2>2 DEF MissedFew, Between
<1>15. RepeatedFew(rows)'
       BY <1>1, <1>9, <1>10, SetsAreFinite DEF WalkInv, RepeatedFew
<1> QED
    BY <1>13, <1>14, <1>15 DEF WalkInv

-----------------------------------------------------------------------------
(* A walk begins, and reads a page.                                         *)

LEMMA BeginWalk ==
    ASSUME WalkTypeOK, ScanInv, BeginScan, NEW rows \in Tables, rows = InOrder(table')
    PROVE  WalkTypeOK' /\ WalkInv(rows)'
<1>1. /\ scanPc = "idle" /\ scanPc' = "load" /\ offset' = offset /\ offset = 0
      /\ table' \in {"sessions", "withdrawals"} /\ status' = status
      BY DEF BeginScan, ScanInv, rowVars
<1>2. view' = NewView(Range(rows))
      BY DEF BeginScan, RowsOf
<1>3. /\ view'.steady = {r \in Range(rows) : status[r] = "pending"}
      /\ view'.read = {} /\ view'.again = 0 /\ view'.left = 0 /\ view'.entered = 0
      BY <1>2 DEF NewView
<1>4. WalkTypeOK'
      <2>1. Range(rows) \subseteq TableRows
            BY TablesAreFinite DEF Range
      <2>2. view' \in [steady : SUBSET TableRows, read : SUBSET TableRows,
                       again : Nat, left : Nat, entered : Nat]
            BY <1>2, <2>1 DEF NewView
      <2> QED
          BY <1>1, <2>2 DEF WalkTypeOK
<1>5. Pending(rows)' = Pending(rows) /\ \A i : Place(rows, i)' = Place(rows, i)
      BY <1>1 DEF Pending, Place
<1>6. SteadyPending(rows)'
      BY <1>1, <1>3 DEF SteadyPending, Pending, Range
<1>7. ASSUME NEW i \in Pending(rows)
      PROVE  ~(Place(rows, i) <= 0)
      <2>1. /\ Pending(rows) \in SUBSET Nat /\ IsFiniteSet(Pending(rows))
            /\ i \in DOMAIN rows
            BY TablesAreFinite
      <2>2. Place(rows, i) \in 1..Cardinality(Pending(rows))
            BY <2>1, CountIsPositive, PlaceIsCount
      <2> QED
          BY <2>2
<1>8. Missed(rows)' = {}
      BY <1>1, <1>5, <1>7 DEF Missed, Unread
<1>9. Repeatable(rows)' = {}
      BY <1>3 DEF Repeatable
<1>10. WalkInv(rows)'
       BY <1>1, <1>3, <1>6, <1>8, <1>9, FS_EmptySet
          DEF WalkInv, MissedFew, RepeatedFew
<1> QED
    BY <1>4, <1>10

LEMMA ReadWalk ==
    ASSUME WalkTypeOK, NEW rows \in Tables, WalkInv(rows), ReadPage(Cut(rows, offset))
    PROVE  WalkTypeOK' /\ WalkInv(rows)' /\ scanPc' # "idle" /\ table' = table
<1> DEFINE cut == Cut(rows, offset)
           W == Window(rows, offset)
           D == {i \in W : rows[i] \in view.read}
           twice == Range(cut) \cap view.read
<1>1. /\ Range(cut) = {rows[i] : i \in W}
      /\ LastPage(cut) => \A i \in Pending(rows) : Place(rows, i) <= offset
      BY PageIsWindow DEF WalkTypeOK
<1>2. /\ Pending(rows) \in SUBSET Nat /\ IsFiniteSet(Pending(rows))
      /\ \A i \in Pending(rows) : rows[i] \in TableRows
      BY TablesAreFinite
<1>3. /\ IsFiniteSet(D) /\ Cardinality(D) \in Nat
      /\ Cardinality(twice) <= Cardinality(D) /\ Cardinality(twice) \in Nat
      <2>1. D \subseteq Pending(rows)
            BY DEF Window
      <2>2. IsFiniteSet(D) /\ Cardinality(D) \in Nat
            BY <1>2, <2>1, SmallerSet
      <2>3. /\ \A i \in D : rows[i] \in twice
            /\ \A v \in twice : \E i \in D : rows[i] = v
            BY <1>1
      <2> HIDE DEF D, twice
      <2>4. Cardinality(twice) <= Cardinality(D) /\ IsFiniteSet(twice)
            BY <2>2, <2>3, ImageIsSmaller
      <2> QED
          BY <2>2, <2>4, FS_CardinalityType
<1>4. /\ scanPc = "load" /\ status' = status /\ table' = table
      /\ scanPc' = IF LastPage(cut) THEN "dispatch" ELSE "rows"
      /\ offset' = offset + Limit
      /\ view' = [view EXCEPT !.read = @ \cup Range(cut),
                              !.again = @ + Cardinality(twice)]
      BY DEF ReadPage, NextOffset, rowVars
<1> HIDE DEF cut
<1>5. /\ view'.steady = view.steady /\ view'.left = view.left
      /\ view'.entered = view.entered
      /\ view'.read = view.read \cup Range(cut)
      /\ view'.again = view.again + Cardinality(twice)
      <2> HIDE DEF twice
      <2> QED
          BY <1>4 DEF WalkTypeOK
<1>6. WalkTypeOK'
      <2>1. Range(cut) \subseteq TableRows
            BY <1>1, <1>2 DEF Window
      <2>2. view' \in [steady : SUBSET TableRows, read : SUBSET TableRows,
                       again : Nat, left : Nat, entered : Nat]
            <3> HIDE DEF D, twice
            <3>1. Cardinality(twice) \in Nat
                  BY <1>3
            <3>2. view \in [steady : SUBSET TableRows, read : SUBSET TableRows,
                            again : Nat, left : Nat, entered : Nat]
                  BY DEF WalkTypeOK
            <3>3. /\ view.again + Cardinality(twice) \in Nat
                  /\ view.read \cup Range(cut) \in SUBSET TableRows
                  BY <2>1, <3>1, <3>2
            <3>4. view' = [view EXCEPT !.read = @ \cup Range(cut),
                                       !.again = @ + Cardinality(twice)]
                  BY <1>4
            <3> QED
                BY <3>2, <3>3, <3>4
      <2>3. scanPc' \in {"dispatch", "rows"}
            BY <1>4
      <2>4. offset' \in Nat
            BY <1>4 DEF WalkTypeOK
      <2> QED
          BY <1>4, <2>2, <2>3, <2>4 DEF WalkTypeOK
<1>7. Pending(rows)' = Pending(rows) /\ \A i : Place(rows, i)' = Place(rows, i)
      BY <1>4 DEF Pending, Place
<1>8. ASSUME NEW i \in Pending(rows)
      PROVE  /\ Place(rows, i) \in Nat
             /\ Place(rows, i)' = Place(rows, i)
             /\ rows[i] \in view'.read <=>
                    rows[i] \in view.read \/ i \in W
      <2>1. Place(rows, i) \in Nat
            BY PlaceIsCount, TablesAreFinite
      <2>2. ASSUME rows[i] \in Range(cut)
            PROVE  i \in W
            <3>1. PICK j \in W : rows[j] = rows[i]
                  BY <1>1, <2>2
            <3>2. j \in DOMAIN rows /\ i \in DOMAIN rows
                  BY TablesAreFinite DEF Window
            <3>3. i = j
                  BY <3>1, <3>2, TablesAreFinite DEF IsInjective
            <3> QED
                BY <3>3
      <2>3. i \in W => rows[i] \in Range(cut)
            BY <1>1
      <2> QED
          BY <1>5, <1>7, <2>1, <2>2, <2>3
<1>9. Unread(rows)' \subseteq Unread(rows)
      BY <1>5, <1>7, <1>8 DEF Unread
<1>10. ASSUME NEW i \in Unread(rows)', Place(rows, i) <= offset + Limit
       PROVE  i \in Missed(rows)
       <2>1. i \in Unread(rows) /\ i \in Pending(rows) /\ i \notin W
             BY <1>7, <1>8, <1>9, <1>10 DEF Unread
       <2>2. Place(rows, i) \in Nat /\ offset \in Nat
             BY <1>8, <2>1 DEF WalkTypeOK
       <2>3. Place(rows, i) <= offset
             BY <1>10, <2>1, <2>2 DEF Window
       <2> QED
           BY <2>1, <2>3 DEF Missed
<1>11. Missed(rows)' \subseteq Missed(rows)
       BY <1>4, <1>7, <1>10 DEF Missed
<1>12. LastPage(cut) => Unread(rows)' \subseteq Missed(rows)
       BY <1>1, <1>7, <1>9, <1>10 DEF Missed, Unread
<1>13. /\ Repeatable(rows)' \subseteq Repeatable(rows) \ D
       /\ D \subseteq Repeatable(rows)
       <2>1. ASSUME NEW i \in Repeatable(rows)'
             PROVE  i \in Repeatable(rows) /\ i \notin D
             <3>1. /\ i \in Pending(rows) /\ rows[i] \in view'.read
                   /\ Place(rows, i) > offset + Limit
                   BY <1>4, <1>7, <2>1 DEF Repeatable
             <3>2. Place(rows, i) \in Nat /\ offset \in Nat /\ Limit \in Nat
                   BY <1>8, <3>1 DEF WalkTypeOK
             <3>3. i \notin W /\ Place(rows, i) > offset
                   BY <3>1, <3>2 DEF Window
             <3> QED
                 BY <1>8, <3>1, <3>3 DEF Repeatable
       <2>2. D \subseteq Repeatable(rows)
             BY DEF Window, Repeatable
       <2> QED
           BY <2>1, <2>2
<1> HIDE DEF D, W, twice
<1>14. Cardinality(Repeatable(rows)') + Cardinality(D) <= Cardinality(Repeatable(rows))
       /\ Cardinality(Repeatable(rows)') \in Nat
       <2>1. IsFiniteSet(Repeatable(rows)) /\ Cardinality(Repeatable(rows)) \in Nat
             BY SetsAreFinite
       <2>2. /\ Repeatable(rows)' \subseteq Repeatable(rows)
             /\ Repeatable(rows)' \cap D = {}
             /\ Repeatable(rows)' \cup D \subseteq Repeatable(rows)
             BY <1>13
       <2>3. IsFiniteSet(Repeatable(rows)') /\ Cardinality(Repeatable(rows)') \in Nat
             BY <2>1, <2>2, SmallerSet
       <2>4. Cardinality(Repeatable(rows)' \cup D)
             = Cardinality(Repeatable(rows)') + Cardinality(D)
               - Cardinality(Repeatable(rows)' \cap D)
             BY <1>3, <2>3, FS_Union
       <2>5. Cardinality(Repeatable(rows)' \cup D) <= Cardinality(Repeatable(rows))
             BY <2>1, <2>2, SmallerSet
       <2>6. Cardinality(Repeatable(rows)' \cap D) = 0
             BY <2>2, FS_EmptySet
       <2> QED
           BY <1>3, <2>1, <2>3, <2>4, <2>5, <2>6
<1>15. RepeatedFew(rows)'
       BY <1>3, <1>5, <1>14, SetsAreFinite DEF WalkInv, RepeatedFew
<1>16. MissedFew(rows)'
       <2>1. IsFiniteSet(Missed(rows)) /\ Cardinality(Missed(rows)) <= view.left
             BY <1>4, SetsAreFinite DEF WalkInv, MissedFew
       <2>2. /\ Cardinality(Missed(rows)') <= Cardinality(Missed(rows))
             /\ Cardinality(Missed(rows)') \in Nat /\ Cardinality(Missed(rows)) \in Nat
             BY <1>11, <2>1, SmallerSet
       <2>3. LastPage(cut) => /\ Cardinality(Unread(rows)') <= Cardinality(Missed(rows))
                              /\ Cardinality(Unread(rows)') \in Nat
             BY <1>12, <2>1, SmallerSet
       <2>4. view.left \in Nat
             BY SetsAreFinite
       <2> QED
           BY <1>4, <1>5, <2>1, <2>2, <2>3, <2>4 DEF MissedFew
<1>17. SteadyPending(rows)'
       BY <1>5, <1>7 DEF WalkInv, SteadyPending
<1> QED
    BY <1>4, <1>6, <1>15, <1>16, <1>17 DEF WalkInv

-----------------------------------------------------------------------------
(* The other steps.                                                         *)

LEMMA InitScan ==
    ASSUME PollerInit
    PROVE  ScanInv
<1>1. /\ scanPc = "idle" /\ table = "withdrawals" /\ offset = 0
      /\ view = NewView({})
      /\ status = [r \in TableRows |-> IF r \in Arriving THEN "absent" ELSE "pending"]
      BY DEF PollerInit, ScanInit
<1>2. status \in [TableRows -> RowStatuses]
      BY <1>1 DEF RowStatuses
<1>3. /\ view.again = 0
      /\ view \in [steady : SUBSET TableRows, read : SUBSET TableRows,
                   again : Nat, left : Nat, entered : Nat]
      BY <1>1 DEF NewView
<1> QED
    BY <1>1, <1>2, <1>3 DEF ScanInv, WalkTypeOK

\* A step that sets a status and watches.
LEMMA StepOfStatus ==
    ASSUME ScanInv, NEW x, NEW s \in RowStatuses,
           status' = [status EXCEPT ![x] = s], Watch,
           scanPc' = scanPc \/ (scanPc = "rows" /\ scanPc' \in {"load", "rows"}),
           table' = table, offset' = offset
    PROVE  ScanInv'
<1> USE DEF ScanInv
<1>1. status' \in [TableRows -> RowStatuses]
      BY DEF WalkTypeOK
<1>2. CASE scanPc = "idle"
      <2>1. view' = view
            BY <1>2 DEF Watch
      <2> QED
          BY <1>1, <1>2, <2>1 DEF WalkTypeOK
<1>3. CASE scanPc # "idle"
      <2>0. PICK rows \in Tables : rows = InOrder(table)
            BY ListIsTable
      <2>1. rows \in Tables /\ WalkInv(rows) /\ InOrder(table') = rows
            BY <1>3, <2>0
      <2>2. /\ Stay(rows) \/ \E k \in DOMAIN rows : Leave(rows, k) \/ Enter(rows, k)
            /\ view'.read = view.read /\ view'.again = view.again
            BY <1>3, <2>0, ChangeOfStatus
      <2>3. Between
            BY <2>2 DEF Between
      <2>4. WalkInv(rows)'
            <3>1. CASE Stay(rows)
                  BY <2>1, <2>3, <3>1, StayWalk
            <3>2. ASSUME NEW k \in DOMAIN rows, Leave(rows, k) \/ Enter(rows, k)
                  PROVE  WalkInv(rows)'
                  BY <2>1, <2>3, <3>2, LeaveWalk, EnterWalk
            <3> QED
                BY <2>2, <3>1, <3>2
      <2>5. WalkTypeOK'
            <3> DEFINE gone == {r \in RowsOf(table) :
                                   status[r] = "pending" /\ status'[r] # "pending"}
                       come == {r \in RowsOf(table) :
                                   status[r] # "pending" /\ status'[r] = "pending"}
            <3>1. view' = [view EXCEPT !.steady = @ \ gone,
                                       !.left = @ + Cardinality(gone),
                                       !.entered = @ + Cardinality(come)]
                  BY <1>3 DEF Watch
            <3>2. view \in [steady : SUBSET TableRows, read : SUBSET TableRows,
                            again : Nat, left : Nat, entered : Nat]
                  BY DEF WalkTypeOK
            <3> HIDE DEF gone, come
            <3>3. /\ view.left + Cardinality(gone) = view'.left
                  /\ view.entered + Cardinality(come) = view'.entered
                  BY <3>1, <3>2
            <3>4. view'.left \in Nat /\ view'.entered \in Nat
                  BY <2>2, <3>2 DEF Stay, Leave, Enter
            <3>5. view.steady \ gone \in SUBSET TableRows
                  BY <3>2
            <3>6. view' \in [steady : SUBSET TableRows, read : SUBSET TableRows,
                             again : Nat, left : Nat, entered : Nat]
                  BY <3>1, <3>2, <3>3, <3>4, <3>5
            <3>7. scanPc' \in {"load", "rows", "dispatch"}
                  BY <1>3 DEF WalkTypeOK
            <3> QED
                BY <1>1, <3>6, <3>7 DEF WalkTypeOK
      <2>6. scanPc' # "idle"
            BY <1>3
      <2> QED
          BY <2>0, <2>1, <2>4, <2>5, <2>6 DEF InOrder
<1> QED
    BY <1>2, <1>3

\* A step that changes nothing a walk can see.
LEMMA StepOfNothing ==
    ASSUME ScanInv, UNCHANGED <<status, view, table, offset>>,
           scanPc' = scanPc \/ (scanPc = "rows" /\ scanPc' \in {"load", "rows"})
    PROVE  ScanInv'
<1> USE DEF ScanInv
<1>1. WalkTypeOK'
      BY DEF WalkTypeOK
<1>2. CASE scanPc = "idle"
      BY <1>1, <1>2
<1>3. ASSUME scanPc # "idle", NEW rows \in Tables, rows = InOrder(table)
      PROVE  WalkInv(rows)'
      <2>1. WalkInv(rows)
            BY <1>3
      <2>2. Between
            BY DEF Between
      <2>3. Stay(rows)
            BY DEF Stay, Pending
      <2> QED
          BY <2>1, <2>2, <2>3, StayWalk
<1>4. CASE scanPc # "idle"
      <2>1. scanPc' # "idle" /\ InOrder(table') = InOrder(table)
            BY <1>4
      <2>2. ASSUME NEW rows \in Tables, rows = InOrder(table)'
            PROVE  WalkInv(rows)'
            BY <1>3, <1>4, <2>2 DEF InOrder
      <2> QED
          BY <1>1, <2>1, <2>2
<1> QED
    BY <1>2, <1>4

\* The walk is over.
LEMMA StepToIdle ==
    ASSUME ScanInv, UNCHANGED <<status, table>>, scanPc' = "idle", offset' = 0,
           view' = NewView({})
    PROVE  ScanInv'
<1>1. /\ view'.again = 0
      /\ view' \in [steady : SUBSET TableRows, read : SUBSET TableRows,
                    again : Nat, left : Nat, entered : Nat]
      BY DEF NewView
<1> QED
    BY <1>1 DEF ScanInv, WalkTypeOK

LEMMA StepOfBeginScan ==
    ASSUME ScanInv, BeginScan
    PROVE  ScanInv'
<1>1. PICK rows \in Tables : rows = InOrder(table')
      BY DEF InOrder, Tables
<1>2. WalkTypeOK' /\ WalkInv(rows)'
      BY <1>1, BeginWalk DEF ScanInv
<1> QED
    BY <1>1, <1>2 DEF ScanInv, BeginScan, InOrder

LEMMA StepOfPage ==
    ASSUME ScanInv, LoadSessions \/ LoadWithdrawals
    PROVE  ScanInv'
<1>0. PICK rows \in Tables : rows = InOrder(table)
      BY ListIsTable DEF ScanInv
<1>1. scanPc = "load" /\ ReadPage(Cut(rows, offset))
      BY <1>0 DEF LoadSessions, LoadWithdrawals, ListPendingDepositSessions,
             ListPendingWithdrawals, InOrder, ReadPage
<1>2. rows \in Tables /\ WalkInv(rows) /\ WalkTypeOK
      BY <1>0, <1>1 DEF ScanInv
<1>3. WalkTypeOK' /\ WalkInv(rows)' /\ scanPc' # "idle" /\ table' = table
      BY <1>1, <1>2, ReadWalk
<1> QED
    BY <1>0, <1>2, <1>3 DEF ScanInv, InOrder

LEMMA StepScan ==
    ASSUME ScanInv, [PollerNext]_pollerVars
    PROVE  ScanInv'
<1>1. CASE BeginScan
      BY <1>1, StepOfBeginScan
<1>2. CASE LoadSessions \/ LoadWithdrawals
      BY <1>2, StepOfPage
<1>3. CASE LoadFailed
      BY <1>3, StepToIdle DEF LoadFailed, rowVars
<1>4. CASE PassOver \/ Gather \/ EndRowFailed
      BY <1>4, StepOfNothing DEF PassOver, Gather, EndRowFailed, TakeRow
<1>5. CASE EndRow
      BY <1>5, StepOfStatus DEF EndRow, TakeRow, RowStatuses
<1>6. CASE DispatchGathered
      BY <1>6, StepToIdle DEF DispatchGathered
<1>7. CASE Outside
      <2>1. PICK r \in TableRows : Arrive(r)
            BY <1>7 DEF Outside
      <2> QED
          BY <2>1, StepOfStatus DEF Arrive, walkVars, RowStatuses
<1>8. ASSUME NEW r, NEW to \in RowStatuses, SetStatus(r, to)
      PROVE  ScanInv'
      BY <1>8, StepOfStatus DEF SetStatus, walkVars
<1>9. CASE UNCHANGED scanVars
      BY <1>9, StepOfNothing DEF scanVars, rowVars, walkVars
<1>10. ASSUME NEW g \in Rows, GoroutineStep(g)
       PROVE  ScanInv'
       BY <1>8, <1>9, <1>10
          DEF GoroutineStep, NoLongerPending, ReadRow, ClaimRow, PutDown, RowStatuses
<1>11. ASSUME NEW r \in TableRows, LaterStep(r)
       PROVE  ScanInv'
       <2>1. CASE FindTaken(r)
             BY <2>1, StepOfNothing DEF FindTaken, walkVars
       <2> QED
           BY <1>8, <1>11, <2>1 DEF LaterStep, TakeUp, Finish, RowStatuses
<1> QED
    BY <1>1, <1>2, <1>3, <1>4, <1>5, <1>6, <1>7, <1>9, <1>10, <1>11
       DEF PollerNext, WalkStep, Walk, BatchStep, pollerVars

LEMMA AlwaysScan == PollerSpec => []ScanInv
BY InitScan, StepScan, PTL DEF PollerSpec

-----------------------------------------------------------------------------

\* A walk passes over no more rows than have left its table's pending rows
\* while it went on (PendingScan's SkipsAreDepartures), whatever the lengths of
\* the tables and of a page, and whoever claims, ends, makes and gives back rows
\* between two pages.
THEOREM SkipsAreDeparturesCorrect == PollerSpec => []SkipsAreDepartures
<1>1. ASSUME ScanInv, scanPc = "dispatch"
      PROVE  Cardinality(view.steady \ view.read) <= view.left
      <2> DEFINE rows == InOrder(table)
                 T == view.steady \ view.read
      <2>1. rows \in Tables /\ WalkInv(rows) /\ WalkTypeOK
            BY <1>1, ListIsTable DEF ScanInv
      <2> HIDE DEF rows
      <2>2. /\ IsFiniteSet(Unread(rows)) /\ Cardinality(Unread(rows)) \in Nat
            /\ view.left \in Nat
            BY <2>1, SetsAreFinite
      <2>3. /\ \A i \in Unread(rows) : rows[i] \in T
            /\ \A v \in T : \E i \in Unread(rows) : rows[i] = v
            BY <2>1 DEF Unread, WalkInv, SteadyPending
      <2> HIDE DEF T
      <2>4. Cardinality(T) <= Cardinality(Unread(rows)) /\ Cardinality(T) \in Nat
            BY <2>2, <2>3, ImageIsSmaller, FS_CardinalityType
      <2>5. Cardinality(Unread(rows)) <= view.left
            BY <1>1, <2>1 DEF WalkInv, MissedFew
      <2> QED
          BY <2>2, <2>4, <2>5 DEF T
<1>2. ScanInv => SkipsAreDepartures
      BY <1>1 DEF SkipsAreDepartures
<1> QED
    BY <1>2, AlwaysScan, PTL

\* A walk reads rows again no more often than rows have entered its table's
\* pending rows while it went on (PendingScan's RepeatsAreArrivals): a tick
\* starts no more goroutines for rows that already have one.
THEOREM RepeatsAreArrivalsCorrect == PollerSpec => []RepeatsAreArrivals
<1>1. ASSUME ScanInv
      PROVE  view.again <= view.entered
      <2>1. WalkTypeOK /\ view.entered \in Nat /\ view.again \in Nat
            BY <1>1 DEF ScanInv, WalkTypeOK
      <2>2. CASE scanPc = "idle"
            BY <1>1, <2>1, <2>2 DEF ScanInv
      <2>3. CASE scanPc # "idle"
            <3>1. InOrder(table) \in Tables /\ WalkInv(InOrder(table))
                  BY <1>1, <2>1, <2>3, ListIsTable DEF ScanInv
            <3>2. Cardinality(Repeatable(InOrder(table))) \in Nat
                  BY <2>1, <3>1, SetsAreFinite
            <3> QED
                BY <2>1, <3>1, <3>2 DEF WalkInv, RepeatedFew
      <2> QED
          BY <2>2, <2>3
<1>2. ScanInv => RepeatsAreArrivals
      BY <1>1 DEF RepeatsAreArrivals
<1> QED
    BY <1>2, AlwaysScan, PTL

-----------------------------------------------------------------------------
(* The pool that runs beside the walk is the pool of WorkerPool: no step of  *)
(* Poller does anything to it that WorkerPool does not allow.                *)

LEMMA PollerStepIsPoolStep ==
    ASSUME [PollerNext]_pollerVars
    PROVE  [Next]_vars
<1>1. CASE UNCHANGED vars
      BY <1>1
<1>2. CASE BatchStep
      BY <1>2 DEF BatchStep, Next
<1>3. ASSUME NEW g \in Rows, GoroutineStep(g)
      PROVE  [Next]_vars
      <2>1. CASE Verified(g) \/ Release(g)
            BY <2>1 DEF Next, Goroutine
      <2>2. CASE ReadRow(g) \/ ClaimRow(g)
            BY <2>2 DEF ReadRow, ClaimRow
      <2> QED
          BY <1>3, <2>1, <2>2
             DEF GoroutineStep, NoLongerPending, PutDown, Over
<1> QED
    BY <1>1, <1>2, <1>3 DEF PollerNext, WalkStep, Outside, LaterStep, pollerVars

LEMMA PollerIsPool == PollerSpec => Spec
<1>1. PollerInit => Init
      BY DEF PollerInit
<1> QED
    BY <1>1, PollerStepIsPoolStep, PTL DEF PollerSpec, Spec

\* The tokens of a batch stay accounted for while later ticks walk over the same
\* rows and goroutines claim, end and give them back (SlotsAccounted).
THEOREM PollerKeepsSlots == PollerSpec => []SlotsAccounted
BY PollerIsPool, SlotsAccountedCorrect, PTL

\* And the batch keeps the promise of AbstractPool, whatever becomes of its rows
\* (ImplementsPool).
THEOREM PollerImplementsPool == PollerSpec => ImplementsPool
BY PollerIsPool, PoolImplemented, PTL
=============================================================================
