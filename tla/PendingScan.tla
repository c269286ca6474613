--------------------------- MODULE PendingScan ---------------------------
(***************************************************************************)
(* How a tick finds the pending rows: processPendingSessions and then      *)
(* processPendingWithdrawals walk over their table in pages, newest row    *)
(* first, each page cut by LIMIT and OFFSET out of the rows that are       *)
(* pending when it is read.  Between two pages rows leave the result -     *)
(* goroutines claim them, and the walk itself expires or fails some - and  *)
(* rows enter it, new or given back.                                       *)
(*                                                                         *)
(* This module is the walk and the rows' statuses; who else changes them   *)
(* is left to the module that composes it.                                 *)
(*                                                                         *)
(* ASSUMED: no two rows of a table were made in the same microsecond.      *)
(* ORDER BY created_at alone leaves the order of equal rows open, and each *)
(* page may then be cut from another one: a walk could pass over a row     *)
(* though none has left.  What is said here of pages is said of tables     *)
(* without such a tie.                                                     *)
(***************************************************************************)
EXTENDS Naturals, FiniteSets, Sequences, SequencesExt

CONSTANTS
    Sessions,     \* rows of deposit_sessions, ORDER BY created_at DESC,
                  \* which is taken for a strict order (see above)
    Withdrawals,  \* rows of withdrawals, in the same order
    Chain,        \* row -> "solana", "idle" (only a log line) or "pdm"
    Unsent,       \* withdrawals without a hash
    Old,          \* rows past the age at which a session expires or an
                  \* unsent withdrawal is failed
    Limit,        \* rows of a page
    MaxScanFaults \* BOUND: statements of the walk that fail

TableRows == Range(Sessions) \cup Range(Withdrawals)

ASSUME ScanAssumption ==
    /\ Sessions \in Seq(TableRows) /\ Withdrawals \in Seq(TableRows)
    /\ IsInjective(Sessions) /\ IsInjective(Withdrawals)
    /\ Range(Sessions) \cap Range(Withdrawals) = {}
    /\ Chain \in [TableRows -> {"solana", "idle", "pdm"}]
    /\ Unsent \subseteq Range(Withdrawals)
    /\ Old \subseteq TableRows
    /\ Limit \in Nat \ {0}
    /\ MaxScanFaults \in Nat

VARIABLES
    status,   \* row -> its status
    scanPc,   \* where the walk is
    table,    \* the table it walks over
    offset,   \* rows it has asked to be skipped
    page,     \* rows of the page that are still to be looked at
    gathered, \* the rows to be verified, in the order read
    queued,   \* rows handed to goroutines that have not begun yet
    faults,   \* faults the walk has met
    view      \* history of this walk: see Watch

rowVars == <<status, queued>>
walkVars == <<scanPc, table, offset, page, gathered, faults>>
scanVars == <<rowVars, walkVars, view>>

RowStatuses == {"absent", "pending", "processing", "ended"}

-----------------------------------------------------------------------------
(* Seeded defects: how the decisions below could plausibly go wrong.  They  *)
(* are not part of the model; each shows that a property notices it.        *)

StepTooFar(o) == o + Limit + 1
StepTooShort(o) == o + Limit - 1

-----------------------------------------------------------------------------
(* The decisions of the walk, by name.                                      *)

InOrder(t) == IF t = "sessions" THEN Sessions ELSE Withdrawals
RowsOf(t) == Range(InOrder(t))

Pending(rows) == {i \in DOMAIN rows : status[rows[i]] = "pending"}

\* Where a pending row is in the result, which has the order of the table.
Place(rows, i) == Cardinality({j \in Pending(rows) : j <= i})

\* LIMIT and OFFSET, of a result whose order is the same for every page.
Cut(rows, from) ==
    LET n == Cardinality(Pending(rows))
        last == IF from + Limit < n THEN from + Limit ELSE n
    IN  [k \in 1..(last - from) |->
            rows[CHOOSE i \in Pending(rows) : Place(rows, i) = from + k]]

ListPendingDepositSessions(from) == Cut(Sessions, from)
ListPendingWithdrawals(from) == Cut(Withdrawals, from)

NextOffset(o) == o + Limit
LastPage(rows) == rows = <<>>

Skipped(r) == Chain[r] = "pdm" \/ (r \in Unsent /\ r \notin Old)
Ends(r) == ~Skipped(r) /\ r \in Old /\ r \in Range(Sessions) \cup Unsent

-----------------------------------------------------------------------------
(* What the walk could have seen: the rows that have been pending all the   *)
(* time, those it has read, each as often as it was read, and how many rows *)
(* have left and entered the result since it began.                         *)

NewView(rows) ==
    [steady |-> {r \in rows : status[r] = "pending"},
     read |-> {}, again |-> 0, left |-> 0, entered |-> 0]

\* Every step that changes statuses keeps the view of a walk up to date.
Watch ==
    LET gone == {r \in RowsOf(table) :
                     status[r] = "pending" /\ status'[r] # "pending"}
        come == {r \in RowsOf(table) :
                     status[r] # "pending" /\ status'[r] = "pending"}
    IN  view' = IF scanPc = "idle" THEN view ELSE
                [view EXCEPT !.steady = @ \ gone,
                             !.left = @ + Cardinality(gone),
                             !.entered = @ + Cardinality(come)]

-----------------------------------------------------------------------------
(* The walk.                                                                *)

ScanInit ==
    /\ scanPc = "idle"
    /\ table = "withdrawals"
    /\ offset = 0
    /\ page = <<>>
    /\ gathered = <<>>
    /\ queued = {}
    /\ faults = 0
    /\ view = NewView({})

\* A tick begins with the sessions, and with the withdrawals when the sessions
\* are done, also when loading them failed.
BeginScan ==
    /\ scanPc = "idle"
    /\ table' = IF table = "sessions" THEN "withdrawals" ELSE "sessions"
    /\ scanPc' = "load"
    /\ view' = NewView(RowsOf(table'))
    /\ UNCHANGED <<rowVars, offset, page, gathered, faults>>

ReadPage(rows) ==
    /\ scanPc = "load"
    /\ scanPc' = IF LastPage(rows) THEN "dispatch" ELSE "rows"
    /\ page' = rows
    /\ offset' = NextOffset(offset)
    /\ view' = [view EXCEPT !.read = @ \cup Range(rows),
                            !.again = @ + Cardinality(Range(rows) \cap view.read)]
    /\ UNCHANGED <<rowVars, table, gathered, faults>>

LoadSessions == table = "sessions" /\ ReadPage(ListPendingDepositSessions(offset))
LoadWithdrawals == table = "withdrawals" /\ ReadPage(ListPendingWithdrawals(offset))

\* An error of a page ends the walk, and what it has gathered is dropped.
LoadFailed ==
    /\ scanPc = "load" /\ faults < MaxScanFaults
    /\ faults' = faults + 1
    /\ scanPc' = "idle"
    /\ gathered' = <<>>
    /\ offset' = 0
    /\ view' = NewView({})
    /\ UNCHANGED <<rowVars, table, page>>

TakeRow ==
    /\ scanPc = "rows"
    /\ page' = Tail(page)
    /\ scanPc' = IF Len(page) = 1 THEN "load" ELSE "rows"
    /\ UNCHANGED <<table, offset, queued>>

PassOver ==
    /\ TakeRow
    /\ Skipped(Head(page))
    /\ UNCHANGED <<status, gathered, faults, view>>

Gather ==
    /\ TakeRow
    /\ ~Skipped(Head(page)) /\ ~Ends(Head(page))
    /\ gathered' = Append(gathered, Head(page))
    /\ UNCHANGED <<status, faults, view>>

\* The row is expired or failed by its id, whatever its status is by now.
EndRow ==
    /\ TakeRow
    /\ Ends(Head(page))
    /\ status' = [status EXCEPT ![Head(page)] = "ended"]
    /\ Watch
    /\ UNCHANGED <<gathered, faults>>

\* The statement fails; that is logged, and the walk goes on.
EndRowFailed ==
    /\ TakeRow
    /\ Ends(Head(page)) /\ faults < MaxScanFaults
    /\ faults' = faults + 1
    /\ UNCHANGED <<status, gathered, view>>

\* A chain's rows go to goroutines; for chains without a processor, and those
\* with one that is not written yet, there is only a line in the log.
DispatchGathered ==
    /\ scanPc = "dispatch"
    /\ queued' = queued \cup {r \in Range(gathered) : Chain[r] = "solana"}
    /\ gathered' = <<>>
    /\ scanPc' = "idle"
    /\ offset' = 0
    /\ page' = <<>>
    /\ view' = NewView({})
    /\ UNCHANGED <<status, table, faults>>

Walk ==
    \/ BeginScan
    \/ LoadSessions \/ LoadWithdrawals \/ LoadFailed
    \/ PassOver \/ Gather \/ EndRow \/ EndRowFailed
    \/ DispatchGathered

-----------------------------------------------------------------------------
(* Other services.                                                          *)

\* The rows made before r, of the same table.
Before(r) ==
    UNION {{rows[j] : j \in {j \in DOMAIN rows : \E i \in 1..(j - 1) : rows[i] = r}} :
               rows \in {Sessions, Withdrawals}}

\* A session or withdrawal is made; it is the newest of its table.
Arrive(r) ==
    /\ status[r] = "absent"
    /\ \A x \in Before(r) : status[x] # "absent"
    /\ status' = [status EXCEPT ![r] = "pending"]
    /\ Watch
    /\ UNCHANGED <<queued, walkVars>>

-----------------------------------------------------------------------------
(* Properties.                                                              *)

\* The rows that were pending from the first page to the last and were on no
\* page are not more than the rows that left the result meanwhile: the walk
\* loses nothing but what the holes before its offset explain.
SkipsAreDepartures ==
    scanPc = "dispatch" => Cardinality(view.steady \ view.read) <= view.left

\* A row is read twice only because a row entered the result before it: the
\* goroutines a walk starts beyond one for each row are at most the arrivals
\* and returns it met.
RepeatsAreArrivals ==
    view.again <= view.entered
=============================================================================
