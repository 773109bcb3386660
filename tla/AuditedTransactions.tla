-------------------------- MODULE AuditedTransactions --------------------------
(***************************************************************************)
(* The handlers that write an entry of the payment audit log, and the pool   *)
(* of database connections they share (trips/payment-templates.service.ts,  *)
(* the end of applyTemplate in trips/payment-schedules.service.ts and        *)
(* trips/payment-audit.service.ts).                                         *)
(*                                                                         *)
(* A transaction keeps its connection until it ends.  The audit entry is     *)
(* inserted through the database client and not through the transaction: it  *)
(* takes a second connection from the same pool and is committed on its own. *)
(***************************************************************************)
EXTENDS Integers, FiniteSets

CONSTANTS
    Edits,         \* requests that create or update a template
    Applications,  \* requests that apply one to a schedule
    Removals,      \* requests that soft-delete a template: two statements
    Connections,   \* the connections of the pool
    NoRequest      \* the holder of an idle connection

\* The requests that hold a database transaction while they write the entry.
Transactions == Edits \cup Applications
Requests == Transactions \cup Removals

ASSUME AuditedTransactionsAssumption ==
    /\ Transactions \cap Removals = {} /\ Edits \cap Applications = {}
    /\ NoRequest \notin Requests

VARIABLES
    pc,      \* where each request is
    holder,  \* the request each connection works for
    work,    \* what became of the rows each request wrote
    failed,  \* the part of its handler in which each request failed
    audit    \* the requests with an entry in payment_schedule_audit_log

vars == <<pc, holder, work, failed, audit>>

Init ==
    /\ pc = [r \in Requests |-> "idle"]
    /\ holder = [c \in Connections |-> NoRequest]
    /\ work = [r \in Requests |-> "none"]
    /\ failed = [r \in Requests |-> "nowhere"]
    /\ audit = {}

Goto(r, to) == pc' = [pc EXCEPT ![r] = to]
Fail(r, at) == failed' = [failed EXCEPT ![r] = at]

\* Fault: the last idle connection of the pool is kept in reserve.
AcquireReserve(r) ==
    \E c, other \in Connections :
        /\ c # other /\ holder[c] = NoRequest /\ holder[other] = NoRequest
        /\ holder' = [holder EXCEPT ![c] = r]

\* A query takes an idle connection, or waits for one without a time limit.
Acquire(r) ==
    \E c \in Connections :
        /\ holder[c] = NoRequest
        /\ holder' = [holder EXCEPT ![c] = r]

ReleaseAll(r) ==
    holder' = [c \in Connections |-> IF holder[c] = r THEN NoRequest ELSE holder[c]]

\* The audit statement's connection goes back; a transaction keeps its own.
ReleaseOne(r) ==
    \E c \in Connections :
        /\ holder[c] = r
        /\ holder' = [holder EXCEPT ![c] = NoRequest]

Arrive(r) ==
    /\ pc[r] = "idle"
    /\ Goto(r, "begin")
    /\ UNCHANGED <<holder, work, failed, audit>>

Begin(r) ==
    /\ pc[r] = "begin"
    /\ Acquire(r)
    /\ Goto(r, "write")
    /\ UNCHANGED <<work, failed, audit>>

\* The statements of the transaction: all succeed, or one throws.
WriteRows(r) ==
    /\ pc[r] = "write" /\ r \in Transactions
    /\ work' = [work EXCEPT ![r] = "uncommitted"]
    /\ \/ Goto(r, "audit") /\ UNCHANGED failed
       \/ Goto(r, "rollback") /\ Fail(r, "write")
    /\ UNCHANGED <<holder, audit>>

\* The update of a soft delete is committed and gives its connection back.
RemoveTemplate(r) ==
    /\ pc[r] = "write" /\ r \in Removals
    /\ \/ work' = [work EXCEPT ![r] = "committed"] /\ Goto(r, "audit") /\ UNCHANGED failed
       \/ work' = [work EXCEPT ![r] = "rolledback"] /\ Goto(r, "done") /\ Fail(r, "write")
    /\ ReleaseAll(r)
    /\ UNCHANGED audit

AuditBegin(r) ==
    /\ pc[r] = "audit"
    /\ Acquire(r)
    /\ Goto(r, "insert")
    /\ UNCHANGED <<work, failed, audit>>

\* What is left after the entry: applyTemplate reads the configuration once more.
AfterEntry(r) ==
    IF r \in Applications THEN "read" ELSE IF r \in Edits THEN "commit" ELSE "done"

\* Fault: an audit entry that cannot be written keeps its connection.
AuditLeaks(r) ==
    /\ pc[r] = "insert"
    /\ \/ audit' = audit \cup {r} /\ ReleaseOne(r)
       \/ UNCHANGED <<audit, holder>>
    /\ Goto(r, AfterEntry(r))
    /\ UNCHANGED <<work, failed>>

\* log() swallows the error of an entry that cannot be written.
AuditInsert(r) ==
    /\ pc[r] = "insert"
    /\ audit' = audit \cup {r} \/ UNCHANGED audit
    /\ ReleaseOne(r)
    /\ Goto(r, AfterEntry(r))
    /\ UNCHANGED <<work, failed>>

\* The entry is committed by now; the transaction it reports may still fail, here ...
ReadApplied(r) ==
    /\ pc[r] = "read"
    /\ \/ Goto(r, "commit") /\ UNCHANGED failed
       \/ Goto(r, "rollback") /\ Fail(r, "read")
    /\ UNCHANGED <<holder, work, audit>>

\* ... and at its commit.
Commit(r) ==
    /\ pc[r] = "commit"
    /\ \/ work' = [work EXCEPT ![r] = "committed"] /\ UNCHANGED failed
       \/ work' = [work EXCEPT ![r] = "rolledback"] /\ Fail(r, "commit")
    /\ ReleaseAll(r)
    /\ Goto(r, "done")
    /\ UNCHANGED audit

Rollback(r) ==
    /\ pc[r] = "rollback"
    /\ work' = [work EXCEPT ![r] = "rolledback"]
    /\ ReleaseAll(r)
    /\ Goto(r, "done")
    /\ UNCHANGED <<failed, audit>>

Step(r) ==
    \/ Begin(r) \/ WriteRows(r) \/ RemoveTemplate(r)
    \/ AuditBegin(r) \/ AuditInsert(r) \/ ReadApplied(r) \/ Commit(r) \/ Rollback(r)

Next == \E r \in Requests : Arrive(r) \/ Step(r)

Spec == Init /\ [][Next]_vars

\* Every request that can go on does: the driver serves waiting queries in turn.
FairSpec == Spec /\ \A r \in Requests : WF_vars(Step(r))

-----------------------------------------------------------------------------
(* Properties                                                                *)

HeldBy(r) == {c \in Connections : holder[c] = r}

\* The connections a request at each point of its handler has in use.
InUse(r) ==
    CASE pc[r] \in {"idle", "begin", "done"} -> 0
      [] pc[r] \in {"write", "read", "commit", "rollback"} -> 1
      [] pc[r] = "audit" -> IF r \in Transactions THEN 1 ELSE 0
      [] pc[r] = "insert" -> IF r \in Transactions THEN 2 ELSE 1

\* Every error path gives back what it took: no connection is lost to the pool.
NoLeak == \A r \in Requests : Cardinality(HeldBy(r)) = InUse(r)

\* An entry is written last: only of a soft delete that is committed, and of a transaction none of
\* whose changes failed, so that nothing but its last read or its commit can still undo them.
AuditWrittenLast ==
    \A r \in audit :
        IF r \in Removals THEN work[r] = "committed"
        ELSE /\ failed[r] \in {"nowhere", "read", "commit"} /\ work[r] # "none"
             /\ work[r] = "rolledback" => failed[r] # "nowhere"

\* No failure of a statement, an entry or a commit loses a connection, and none before the entry
\* leaves one.
AuditSafe == NoLeak /\ AuditWrittenLast

\* When all is done, what the audit log tells of has happened ("maintaining an immutable record
\* of all payment schedule changes", payment-audit.service.ts).
AuditReportsCommitted ==
    (\A r \in Requests : pc[r] \in {"idle", "done"}) => \A r \in audit : work[r] = "committed"

\* Writing the audit entry does not keep a request from finishing ("Audit logging should not
\* block business operations", payment-audit.service.ts).
AuditDoesNotBlock == \A r \in Requests : pc[r] = "audit" ~> pc[r] = "done"
=============================================================================
