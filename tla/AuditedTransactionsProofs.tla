----------------------- MODULE AuditedTransactionsProofs -----------------------
(* Theorems about AuditedTransactions, for any sets of requests and of           *)
(* connections, a pool that is too small included: what a request holds is       *)
(* counted exactly at every point of its handler, so that no error path loses a  *)
(* connection, and an audit entry comes after everything it reports.             *)
EXTENDS AuditedTransactions, FiniteSetTheorems, TLAPS

Points == {"idle", "begin", "write", "audit", "insert", "read", "commit", "rollback",
           "done"}

Fates == {"none", "uncommitted", "committed", "rolledback"}
Parts == {"nowhere", "write", "read", "commit"}

Typed ==
    /\ pc \in [Requests -> Points]
    /\ holder \in [Connections -> Requests \cup {NoRequest}]
    /\ work \in [Requests -> Fates]
    /\ failed \in [Requests -> Parts]
    /\ audit \subseteq Requests

\* What r holds can be counted, and is what its handler uses.
Counted(r) == IsFiniteSet(HeldBy(r)) /\ Cardinality(HeldBy(r)) = InUse(r)

\* A request on its way to its entry has written everything, and the steps after the entry are
\* those of a transaction that ends: only what fails there is rolled back with an entry.
EntryLast(r) ==
    /\ r \in Removals => pc[r] \notin {"read", "commit", "rollback"}
    /\ r \in Removals /\ pc[r] \in {"audit", "insert"} => work[r] = "committed"
    /\ r \in Transactions /\ pc[r] \in {"audit", "insert", "read", "commit"} =>
            work[r] = "uncommitted" /\ failed[r] = "nowhere"
    /\ pc[r] = "rollback" => failed[r] # "nowhere"
    /\ pc[r] \in {"idle", "begin", "write"} => r \notin audit /\ failed[r] = "nowhere"
    /\ r \in audit /\ r \in Removals => work[r] = "committed"
    /\ r \in audit /\ r \in Transactions =>
            /\ failed[r] # "write" /\ work[r] # "none"
            /\ work[r] = "rolledback" => failed[r] # "nowhere"

IInv == Typed /\ \A r \in Requests : Counted(r) /\ EntryLast(r)

\* The holder of an idle connection is no request.
LEMMA NoRequestIsNone == NoRequest \notin Requests
BY AuditedTransactionsAssumption DEF Requests

\* A query that gets a connection holds one more, and nobody else holds more or less.
LEMMA AcquireCounts ==
    ASSUME Typed, NEW r \in Requests, IsFiniteSet(HeldBy(r)), Acquire(r)
    PROVE  /\ holder' \in [Connections -> Requests \cup {NoRequest}]
           /\ IsFiniteSet(HeldBy(r)') /\ Cardinality(HeldBy(r)') = Cardinality(HeldBy(r)) + 1
           /\ \A q \in Requests \ {r} : HeldBy(q)' = HeldBy(q)
<1>1. PICK c \in Connections : holder[c] = NoRequest /\ holder' = [holder EXCEPT ![c] = r]
  BY DEF Acquire
<1>2. HeldBy(r)' = HeldBy(r) \cup {c} /\ c \notin HeldBy(r)
  BY <1>1, NoRequestIsNone DEF HeldBy, Typed
<1>3. \A q \in Requests \ {r} : HeldBy(q)' = HeldBy(q)
  BY <1>1, NoRequestIsNone DEF HeldBy, Typed
<1>4. holder' \in [Connections -> Requests \cup {NoRequest}]
  BY <1>1 DEF Typed
<1> QED
  BY <1>2, <1>3, <1>4, FS_AddElement

\* The audit statement gives one connection back.
LEMMA ReleaseOneCounts ==
    ASSUME Typed, NEW r \in Requests, IsFiniteSet(HeldBy(r)), ReleaseOne(r)
    PROVE  /\ holder' \in [Connections -> Requests \cup {NoRequest}]
           /\ IsFiniteSet(HeldBy(r)') /\ Cardinality(HeldBy(r)') = Cardinality(HeldBy(r)) - 1
           /\ \A q \in Requests \ {r} : HeldBy(q)' = HeldBy(q)
<1>1. PICK c \in Connections : holder[c] = r /\ holder' = [holder EXCEPT ![c] = NoRequest]
  BY DEF ReleaseOne
<1>2. HeldBy(r)' = HeldBy(r) \ {c} /\ c \in HeldBy(r)
  BY <1>1, NoRequestIsNone DEF HeldBy, Typed
<1>3. \A q \in Requests \ {r} : HeldBy(q)' = HeldBy(q)
  BY <1>1, NoRequestIsNone DEF HeldBy, Typed
<1>4. holder' \in [Connections -> Requests \cup {NoRequest}]
  BY <1>1 DEF Typed
<1> QED
  BY <1>2, <1>3, <1>4, FS_RemoveElement

\* A request that ends holds nothing, and takes nothing from the others.
LEMMA ReleaseAllCounts ==
    ASSUME Typed, NEW r \in Requests, ReleaseAll(r)
    PROVE  /\ holder' \in [Connections -> Requests \cup {NoRequest}]
           /\ IsFiniteSet(HeldBy(r)') /\ Cardinality(HeldBy(r)') = 0
           /\ \A q \in Requests \ {r} : HeldBy(q)' = HeldBy(q)
<1>1. HeldBy(r)' = {}
  BY NoRequestIsNone DEF ReleaseAll, HeldBy, Typed
<1>2. \A q \in Requests \ {r} : HeldBy(q)' = HeldBy(q)
  BY NoRequestIsNone DEF ReleaseAll, HeldBy, Typed
<1>3. holder' \in [Connections -> Requests \cup {NoRequest}]
  BY DEF ReleaseAll, Typed
<1> QED
  BY <1>1, <1>2, <1>3, FS_EmptySet

\* A step that writes no holder leaves every count as it was.
LEMMA HolderKept ==
    ASSUME UNCHANGED holder
    PROVE  \A q \in Requests : HeldBy(q)' = HeldBy(q)
BY DEF HeldBy

\* What a step of r does to the rest: the others keep their points, rows and connections.
LEMMA OthersKept ==
    ASSUME IInv, NEW r \in Requests, NEW to \in Points, Goto(r, to),
           NEW w \in Fates, work' = [work EXCEPT ![r] = w],
           NEW at \in Parts, failed' = [failed EXCEPT ![r] = at],
           audit' \in {audit, audit \cup {r}},
           holder' \in [Connections -> Requests \cup {NoRequest}],
           \A q \in Requests \ {r} : HeldBy(q)' = HeldBy(q),
           Counted(r)', EntryLast(r)'
    PROVE  IInv'
<1>1. Typed'
  BY DEF IInv, Typed, Goto
<1>2. ASSUME NEW q \in Requests \ {r} PROVE Counted(q)' /\ EntryLast(q)'
  <2>1. /\ pc'[q] = pc[q] /\ work'[q] = work[q] /\ failed'[q] = failed[q]
        /\ (q \in audit' <=> q \in audit)
    BY DEF IInv, Typed, Goto
  <2>2. HeldBy(q)' = HeldBy(q) /\ InUse(q)' = InUse(q)
    BY <2>1 DEF InUse
  <2>3. Counted(q)'
    BY <2>2 DEF IInv, Counted
  <2>4. EntryLast(q)'
    BY <2>1 DEF IInv, EntryLast
  <2> QED
    BY <2>3, <2>4
<1> QED
  BY <1>1, <1>2 DEF IInv

LEMMA InitIInv == Init => IInv
<1> SUFFICES ASSUME Init PROVE IInv
  OBVIOUS
<1>1. Typed
  BY DEF Init, Typed, Points, Fates, Parts
<1>2. ASSUME NEW r \in Requests PROVE Counted(r) /\ EntryLast(r)
  <2>1. /\ HeldBy(r) = {} /\ pc[r] = "idle" /\ r \notin audit /\ work[r] = "none"
        /\ failed[r] = "nowhere"
    BY NoRequestIsNone DEF Init, HeldBy
  <2> QED
    BY <2>1, FS_EmptySet DEF Counted, EntryLast, InUse
<1> QED
  BY <1>1, <1>2 DEF IInv

LEMMA StepIInv ==
    ASSUME IInv, NEW r \in Requests, Arrive(r) \/ Step(r)
    PROVE  IInv'
<1> USE DEF Points, Fates, Parts
<1>r. /\ Typed /\ IsFiniteSet(HeldBy(r)) /\ Cardinality(HeldBy(r)) = InUse(r)
      /\ EntryLast(r) /\ pc[r] \in Points /\ work[r] \in Fates /\ failed[r] \in Parts
      /\ holder \in [Connections -> Requests \cup {NoRequest}]
  BY DEF IInv, Counted, Typed
<1>w. /\ UNCHANGED work => work' = [work EXCEPT ![r] = work[r]]
      /\ UNCHANGED failed => failed' = [failed EXCEPT ![r] = failed[r]]
  BY <1>r DEF Typed
<1>k. (r \in Removals <=> r \notin Transactions) /\ (r \in Applications => r \notin Edits)
  BY AuditedTransactionsAssumption DEF Requests, Transactions
\* The count of r after its step, given what the step did to its connections.
<1>c. ASSUME NEW to \in Points, Goto(r, to), IsFiniteSet(HeldBy(r)'),
             Cardinality(HeldBy(r)') =
                CASE to \in {"idle", "begin", "done"} -> 0
                  [] to \in {"write", "read", "commit", "rollback"} -> 1
                  [] to = "audit" -> IF r \in Transactions THEN 1 ELSE 0
                  [] to = "insert" -> IF r \in Transactions THEN 2 ELSE 1
      PROVE  Counted(r)'
  BY <1>c, <1>r DEF Counted, InUse, Goto, Typed
<1>1. CASE Arrive(r)
  <2>1. HeldBy(r)' = HeldBy(r) /\ Cardinality(HeldBy(r)) = 0
    BY <1>1, <1>r, HolderKept DEF Arrive, InUse
  <2>2. Counted(r)'
    BY <1>1, <1>r, <1>c, <2>1 DEF Arrive
  <2>3. EntryLast(r)'
    BY <1>1, <1>r DEF Arrive, EntryLast, Goto, Typed
  <2> QED
    BY <1>1, <1>r, <1>w, <2>2, <2>3, HolderKept, OthersKept DEF Arrive
<1>2. CASE Begin(r)
  <2>1. Cardinality(HeldBy(r)) = 0 /\ Goto(r, "write") /\ Acquire(r)
    BY <1>2, <1>r DEF Begin, InUse
  <2>2. Counted(r)'
    BY <1>r, <1>c, <2>1, AcquireCounts
  <2>3. EntryLast(r)'
    BY <1>2, <1>r DEF Begin, EntryLast, Goto, Typed
  <2> QED
    BY <1>2, <1>r, <1>w, <2>1, <2>2, <2>3, AcquireCounts, OthersKept DEF Begin
<1>3. CASE WriteRows(r)
  <2>1. PICK to \in {"audit", "rollback"}, at \in {failed[r], "write"} :
            /\ Goto(r, to) /\ failed' = [failed EXCEPT ![r] = at]
            /\ to = "audit" => at = failed[r]
            /\ to = "rollback" => at = "write"
    BY <1>3, <1>w DEF WriteRows, Fail
  <2>2. HeldBy(r)' = HeldBy(r) /\ Cardinality(HeldBy(r)) = 1 /\ r \in Transactions
    BY <1>3, <1>r, HolderKept DEF WriteRows, InUse
  <2>3. Counted(r)'
    BY <1>r, <1>c, <2>1, <2>2
  <2>4. EntryLast(r)'
    BY <1>3, <1>r, <1>k, <2>1 DEF WriteRows, EntryLast, Goto, Typed
  <2> QED
    BY <1>3, <1>r, <2>1, <2>3, <2>4, HolderKept, OthersKept DEF WriteRows
<1>4. CASE RemoveTemplate(r)
  <2>1. PICK to \in {"audit", "done"}, w \in {"committed", "rolledback"},
             at \in {failed[r], "write"} :
            /\ Goto(r, to) /\ work' = [work EXCEPT ![r] = w]
            /\ failed' = [failed EXCEPT ![r] = at] /\ (to = "audit" => w = "committed")
    BY <1>4, <1>w DEF RemoveTemplate, Fail
  <2>2. r \notin Transactions
    BY <1>4, <1>k DEF RemoveTemplate
  <2>3. Counted(r)'
    BY <1>4, <1>r, <1>c, <2>1, <2>2, ReleaseAllCounts DEF RemoveTemplate
  <2>4. EntryLast(r)'
    BY <1>4, <1>r, <2>1, <2>2 DEF RemoveTemplate, EntryLast, Goto, Typed
  <2> QED
    BY <1>4, <1>r, <2>1, <2>3, <2>4, ReleaseAllCounts, OthersKept DEF RemoveTemplate
<1>5. CASE AuditBegin(r)
  <2>1. Goto(r, "insert") /\ Acquire(r)
        /\ Cardinality(HeldBy(r)) = IF r \in Transactions THEN 1 ELSE 0
    BY <1>5, <1>r DEF AuditBegin, InUse
  <2>2. Counted(r)'
    BY <1>r, <1>c, <2>1, AcquireCounts
  <2>3. EntryLast(r)'
    BY <1>5, <1>r DEF AuditBegin, EntryLast, Goto, Typed
  <2> QED
    BY <1>5, <1>r, <1>w, <2>1, <2>2, <2>3, AcquireCounts, OthersKept DEF AuditBegin
<1>6. CASE AuditInsert(r)
  <2> DEFINE to == AfterEntry(r)
  <2>0. /\ to \in {"read", "commit", "done"}
        /\ (r \in Transactions => to # "done") /\ (r \in Removals => to = "done")
    BY <1>k DEF AfterEntry, Transactions, Requests
  <2>1. Goto(r, to) /\ ReleaseOne(r) /\ audit' \in {audit, audit \cup {r}}
        /\ Cardinality(HeldBy(r)) = IF r \in Transactions THEN 2 ELSE 1
    BY <1>6, <1>r DEF AuditInsert, InUse
  <2> HIDE DEF to
  <2>2. Counted(r)'
    BY <1>r, <1>c, <1>k, <2>0, <2>1, ReleaseOneCounts
  <2>3. EntryLast(r)'
    BY <1>6, <1>r, <1>k, <2>0, <2>1 DEF AuditInsert, EntryLast, Goto, Typed
  <2> QED
    BY <1>6, <1>r, <1>w, <2>0, <2>1, <2>2, <2>3, ReleaseOneCounts, OthersKept DEF AuditInsert
<1>7. CASE ReadApplied(r)
  <2>1. PICK to \in {"commit", "rollback"}, at \in {failed[r], "read"} :
            /\ Goto(r, to) /\ failed' = [failed EXCEPT ![r] = at]
            /\ to = "commit" => at = failed[r]
            /\ to = "rollback" => at = "read"
    BY <1>7, <1>w DEF ReadApplied, Fail
  <2>2. HeldBy(r)' = HeldBy(r) /\ Cardinality(HeldBy(r)) = 1
    BY <1>7, <1>r, HolderKept DEF ReadApplied, InUse
  <2>3. Counted(r)'
    BY <1>r, <1>c, <2>1, <2>2
  <2>4. EntryLast(r)'
    BY <1>7, <1>r, <1>k, <2>1 DEF ReadApplied, EntryLast, Goto, Typed
  <2> QED
    BY <1>7, <1>r, <1>w, <2>1, <2>3, <2>4, HolderKept, OthersKept DEF ReadApplied
<1>8. CASE Commit(r)
  <2>1. PICK w \in {"committed", "rolledback"}, at \in {failed[r], "commit"} :
            /\ work' = [work EXCEPT ![r] = w] /\ failed' = [failed EXCEPT ![r] = at]
            /\ w = "rolledback" => at = "commit"
    BY <1>8, <1>w DEF Commit, Fail
  <2>2. Counted(r)'
    BY <1>8, <1>r, <1>c, ReleaseAllCounts DEF Commit
  <2>3. EntryLast(r)'
    BY <1>8, <1>r, <1>k, <2>1 DEF Commit, EntryLast, Goto, Typed
  <2> QED
    BY <1>8, <1>r, <2>1, <2>2, <2>3, ReleaseAllCounts, OthersKept DEF Commit
<1>9. CASE Rollback(r)
  <2>1. Counted(r)'
    BY <1>9, <1>r, <1>c, ReleaseAllCounts DEF Rollback
  <2>2. EntryLast(r)'
    BY <1>9, <1>r, <1>k DEF Rollback, EntryLast, Goto, Typed
  <2> QED
    BY <1>9, <1>r, <1>w, <2>1, <2>2, ReleaseAllCounts, OthersKept DEF Rollback
<1> QED
  BY <1>1, <1>2, <1>3, <1>4, <1>5, <1>6, <1>7, <1>8, <1>9 DEF Step

\* Whatever fails, no connection is lost, and an entry is only made of a change that is written:
\* what is rolled back with an entry is a transaction whose last read or commit failed.
THEOREM AlwaysSafe == Spec => []AuditSafe
<1>1. IInv /\ [Next]_vars => IInv'
  <2> SUFFICES ASSUME IInv, [Next]_vars PROVE IInv'
    OBVIOUS
  <2>1. CASE Next
    BY <2>1, StepIInv DEF Next
  <2>2. CASE UNCHANGED vars
    BY <2>2 DEF vars, IInv, Typed, Counted, EntryLast, HeldBy, InUse
  <2> QED
    BY <2>1, <2>2
<1>2. IInv => AuditSafe
  <2> SUFFICES ASSUME IInv PROVE NoLeak /\ AuditWrittenLast
    BY DEF AuditSafe
  <2>1. NoLeak
    BY DEF IInv, Counted, NoLeak
  <2>2. ASSUME NEW r \in audit
        PROVE  IF r \in Removals THEN work[r] = "committed"
               ELSE /\ failed[r] \in {"nowhere", "read", "commit"} /\ work[r] # "none"
                    /\ work[r] = "rolledback" => failed[r] # "nowhere"
    BY DEF IInv, Typed, Parts, EntryLast, Requests
  <2> QED
    BY <2>1, <2>2 DEF AuditWrittenLast
<1> QED
  BY InitIInv, <1>1, <1>2, PTL DEF Spec
=============================================================================
