----------------------- MODULE TransactionRepository -----------------------
(***************************************************************************)
(* The table transactions and what the verification service uses of the    *)
(* repository in front of it: it inserts rows and looks them up.  Nothing  *)
(* in the source calls Update, UpdateStatus or the lists, which are left   *)
(* out.                                                                    *)
(*                                                                         *)
(* A row read back is not the row that was written: mapToDomainTransaction *)
(* leaves out whose it is, its network, its type, its processor and its    *)
(* value in cents.                                                         *)
(***************************************************************************)
EXTENDS Integers, Sequences, SequencesExt

CONSTANTS MaxRows  \* BOUND: rows after which nobody asks for another

VARIABLES transactions  \* the rows, in the order they were inserted

NoCents == -1

Ids == DOMAIN transactions

\* The enumerations of the table.
Statuses == {"pending", "verified", "failed", "processing"}
Types == {"deposit", "withdrawal"}
Processors == {"internal", "pdm"}

\* What may be left empty, and is then the empty text.
Text == STRING \cup {""}

Transactions(metadata) ==
    [session : Text, withdrawal : Text, chain : STRING, network : STRING,
     hash : STRING, from : Text, to : STRING, amount : Nat, cents : Int,
     rate : Nat, time : Nat, status : Statuses, type : Types,
     processor : Processors, metadata : metadata]

-----------------------------------------------------------------------------
(* Statements.                                                              *)

\* The constraints of the table.
Accepted(row) ==
    /\ "" \notin {row.network, row.hash, row.from, row.to}
    /\ row.status \in Statuses
    /\ row.type \in Types
    /\ row.processor \in Processors

CreateTransaction(row) ==
    transactions' = IF Accepted(row) THEN Append(transactions, row) ELSE transactions

-----------------------------------------------------------------------------
(* The repository.                                                          *)

MapToDomainTransaction(row) ==
    [row EXCEPT !.session = "", !.withdrawal = "", !.network = "",
                !.type = "", !.processor = "", !.cents = NoCents]

\* Of several rows the statement returns one, whichever comes first; of none
\* an error, since the driver's ErrNoRows is not the one the code expects.
GetByDepositSessionID(session) ==
    {MapToDomainTransaction(transactions[id]) :
        id \in {i \in Ids : transactions[i].session = session}}

GetByWithdrawalID(withdrawal) ==
    {MapToDomainTransaction(transactions[id]) :
        id \in {i \in Ids : transactions[i].withdrawal = withdrawal}}

GetByHash(chain, hash) ==
    {MapToDomainTransaction(transactions[id]) :
        id \in {i \in Ids : transactions[i].chain = chain /\ transactions[i].hash = hash}}

Create(tx) == CreateTransaction(tx)
=============================================================================
