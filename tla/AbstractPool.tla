--------------------------- MODULE AbstractPool ---------------------------
(***************************************************************************)
(* What the pool promises about one batch of pending rows: every row is    *)
(* verified by one goroutine, in the order of the batch, by at most Slots  *)
(* goroutines at a time, and the batch returns when all have finished.     *)
(***************************************************************************)
EXTENDS Naturals, FiniteSets

CONSTANTS
    Jobs,   \* number of rows of the batch
    Slots   \* goroutines that may verify at the same time

VARIABLES
    waiting,   \* rows that no goroutine has been started for
    running,   \* rows that are being verified
    finished,  \* rows whose verification is over
    returned   \* whether the batch has returned

vars == <<waiting, running, finished, returned>>

Init ==
    /\ waiting = 1..Jobs
    /\ running = {} /\ finished = {}
    /\ returned = FALSE

Start(j) ==
    /\ j \in waiting /\ \A k \in waiting : j <= k
    /\ Cardinality(running) < Slots
    /\ waiting' = waiting \ {j}
    /\ running' = running \cup {j}
    /\ UNCHANGED <<finished, returned>>

Finish(j) ==
    /\ j \in running
    /\ running' = running \ {j}
    /\ finished' = finished \cup {j}
    /\ UNCHANGED <<waiting, returned>>

Return ==
    /\ waiting = {} /\ running = {} /\ ~returned
    /\ returned' = TRUE
    /\ UNCHANGED <<waiting, running, finished>>

Next == Return \/ \E j \in 1..Jobs : Start(j) \/ Finish(j)

Spec == Init /\ [][Next]_vars
=============================================================================
