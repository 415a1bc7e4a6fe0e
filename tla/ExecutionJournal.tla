-------------------------- MODULE ExecutionJournal --------------------------
(***************************************************************************)
(* The durable execution journal of bridge/sqlstore: one PostgreSQL table  *)
(* keyed by operation identity.  A row binds an identity to the digest of  *)
(* the request that reserved it and, once completed, to a result.          *)
(*                                                                         *)
(* Store.Reserve is two statements (an INSERT and, when the row exists, a  *)
(* SELECT) that do not share a transaction; Store.Complete is one UPDATE.  *)
(* A statement whose call returned an error may have committed, may never  *)
(* commit, or may still commit later (the connection broke or the context  *)
(* ended while the server was working): it is kept in `late'.              *)
(***************************************************************************)
EXTENDS BridgeProtocol

VARIABLES
    rows,     \* the executions table
    late      \* statements whose caller saw an error

journalVars == <<rows, late>>

Row == [digest : Digests, result : Results \cup {None}]

ASSUME RowAssumption == None \notin Row

InsertStatement == [type : {"insert"}, id : Ops, digest : Digests]
UpdateStatement == [type : {"update"}, id : Ops, digest : Digests, result : Results]
Statement == InsertStatement \cup UpdateStatement

JournalTypeOK ==
    /\ rows \in [Ops -> Row \cup {None}]
    /\ late \in SUBSET Statement

JournalInit ==
    /\ rows = [id \in Ops |-> None]
    /\ late = {}

-----------------------------------------------------------------------------
Insert(id, digest) == [type |-> "insert", id |-> id, digest |-> digest]

Update(id, digest, result) ==
    [type |-> "update", id |-> id, digest |-> digest, result |-> result]

(***************************************************************************)
(* The statements, as functions of the table.  An INSERT affects one row   *)
(* when the key is free (on conflict do nothing); an UPDATE affects the    *)
(* row of the same digest whose result is null or already the same bytes.  *)
(***************************************************************************)
InsertCount(table, s) == IF table[s.id] = None THEN 1 ELSE 0

UpdateCount(table, s) ==
    IF /\ table[s.id] # None
       /\ table[s.id].digest = s.digest
       /\ table[s.id].result \in {None, s.result}
    THEN 1 ELSE 0

Applied(table, s) ==
    IF s.type = "insert"
    THEN IF InsertCount(table, s) = 1
         THEN [table EXCEPT ![s.id] = [digest |-> s.digest, result |-> None]]
         ELSE table
    ELSE IF UpdateCount(table, s) = 1
         THEN [table EXCEPT ![s.id] =
                 [digest |-> table[s.id].digest, result |-> s.result]]
         ELSE table

\* The statement commits and its caller learns the row count.
Execute(s) == rows' = Applied(rows, s) /\ UNCHANGED late

\* The call returns an error; whether the statement commits is open.
Lose(s) == late' = late \cup {s} /\ UNCHANGED rows

\* The database commits a statement whose caller has given up on it.
LateCommit ==
    \E s \in late : rows' = Applied(rows, s) /\ late' = late \ {s}

=============================================================================
