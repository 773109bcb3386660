------------------------------ MODULE CruiseSync ------------------------------
(***************************************************************************)
(* Who runs the cruise import, when: the cron job with its advisory lock and  *)
(* retries, the endpoints that start and cancel a sync, and the history row   *)
(* of each run, over the replicas of the API (runSync and scheduledSync of    *)
(* cruise-import/services/import-orchestrator.service.ts).  What a run does   *)
(* with the files is DeltaSync and FtpPool.                                   *)
(***************************************************************************)
EXTENDS Integers, Sequences, FiniteSets

CONSTANTS
    Jobs,         \* calls of scheduledSync and runSync, each happens once
    Kinds,        \* what they may be: "scheduled", "manual", "dry"
    Replicas,     \* API instances
    Conns,        \* connections of each instance's database pool
    MaxAttempts,  \* SCHEDULED_SYNC_MAX_RETRIES
    Environments  \* what may go wrong, see env

ASSUME CruiseSyncAssumption ==
    /\ IsFiniteSet(Jobs)
    /\ Kinds \subseteq {"scheduled", "manual", "dry"}
    /\ MaxAttempts \in Nat \ {0}
    /\ \A e \in Environments :
        e.lossy \in BOOLEAN /\ e.crashes \in Nat /\ e.sessions \in {"kept", "ended", "shared"}

VARIABLES
    env,      \* rigid: whether statements on the history and the lock may fail (lossy),
              \* how many instances die (crashes), and whether each pooled connection keeps
              \* a session of its own (kept), sessions end under a living instance (ended),
              \* or a pooler hands any session to any statement (shared)
    inst,     \* the fields of each instance's orchestrator
    lock,     \* how often each database session holds 'cruise_sync_lock'
    job,      \* the calls
    history,  \* rows of cruise_sync_history
    crashes

vars == <<env, inst, lock, job, history, crashes>>

Fresh == [syncing |-> FALSE, cancel |-> FALSE, row |-> 0]
NewJob == [pc |-> "idle", kind |-> "none", at |-> "none", att |-> 1, result |-> "none",
           again |-> FALSE, asked |-> FALSE]

Init ==
    /\ env \in Environments
    /\ inst = [r \in Replicas |-> Fresh]
    /\ lock = [s \in Replicas \X Conns |-> 0]
    /\ job = [j \in Jobs |-> NewJob]
    /\ history = <<>> /\ crashes = 0

At(j, pc) == job[j].pc = pc
Goto(j, pc) == job' = [job EXCEPT ![j].pc = pc]
\* From the moment a run sets syncInProgress until its finally.
Syncing(j) == job[j].pc \in {"history", "connect", "work", "finalize", "close"}
\* Where scheduledSync, or the endpoint, goes when there is no run or no further one.
After(j) == IF job[j].kind = "scheduled" THEN "unlock" ELSE "over"

\* The database sessions on which a statement of an instance may run.
Reach(r) == {s \in DOMAIN lock : env.sessions = "shared" \/ s[1] = r}

-----------------------------------------------------------------------------
(* scheduledSync                                                             *)

Call(j) ==
    /\ At(j, "idle")
    /\ \E k \in Kinds, r \in Replicas :
        job' = [job EXCEPT ![j].kind = k, ![j].at = r,
                           ![j].pc = IF k = "scheduled" THEN "lock" ELSE "begin"]
    /\ UNCHANGED <<inst, lock, history, crashes>>

\* Fault: the answer of pg_try_advisory_lock is not looked at.
LockUnread(j) ==
    /\ At(j, "lock")
    /\ \E s \in Reach(job[j].at) :
        lock' = [lock EXCEPT ![s] = IF \A t \in DOMAIN lock \ {s} : lock[t] = 0 THEN @ + 1 ELSE @]
    /\ Goto(j, "begin")
    /\ UNCHANGED <<inst, history, crashes>>

\* The pool takes any connection.  A session that has the lock gets it once more.
Lock(j) ==
    /\ At(j, "lock")
    /\ \/ \E s \in Reach(job[j].at) :
            /\ \A t \in DOMAIN lock \ {s} : lock[t] = 0
            /\ lock' = [lock EXCEPT ![s] = @ + 1]
            /\ Goto(j, "begin")
       \/ /\ \E s \in Reach(job[j].at) : \E t \in DOMAIN lock \ {s} : lock[t] > 0
          /\ Goto(j, "over") /\ UNCHANGED lock
       \/ env.lossy /\ Goto(j, "over") /\ UNCHANGED lock
    /\ UNCHANGED <<inst, history, crashes>>

\* Fault: the attempts are not counted.
WakeUncounted(j) ==
    /\ At(j, "sleep") /\ Goto(j, "begin")
    /\ UNCHANGED <<inst, lock, history, crashes>>

Wake(j) ==
    /\ At(j, "sleep")
    /\ job' = [job EXCEPT ![j].pc = "begin", ![j].att = @ + 1]
    /\ UNCHANGED <<inst, lock, history, crashes>>

\* Any connection again; an unlock on a session without the lock does nothing.
Unlock(j) ==
    /\ At(j, "unlock")
    /\ \/ \E s \in Reach(job[j].at) : lock' = [lock EXCEPT ![s] = IF @ > 0 THEN @ - 1 ELSE 0]
       \/ env.lossy /\ UNCHANGED lock
    /\ Goto(j, "over")
    /\ UNCHANGED <<inst, history, crashes>>

-----------------------------------------------------------------------------
(* runSync                                                                   *)

\* Fault: the flag is looked at, and not set.
BeginUnset(j) ==
    LET r == job[j].at
    IN  /\ At(j, "begin")
        /\ \/ inst[r].syncing /\ Goto(j, After(j)) /\ UNCHANGED inst
           \/ /\ ~inst[r].syncing
              /\ inst' = [inst EXCEPT ![r].cancel = FALSE]
              /\ job' = [job EXCEPT ![j].pc = "history", ![j].result = "none",
                                    ![j].asked = FALSE]
        /\ UNCHANGED <<lock, history, crashes>>

\* "Sync already in progress" is no error that is retried.
Begin(j) ==
    LET r == job[j].at
    IN  /\ At(j, "begin")
        /\ \/ inst[r].syncing /\ Goto(j, After(j)) /\ UNCHANGED inst
           \/ /\ ~inst[r].syncing
              /\ inst' = [inst EXCEPT ![r].syncing = TRUE, ![r].cancel = FALSE]
              /\ job' = [job EXCEPT ![j].pc = "history", ![j].result = "none",
                                    ![j].asked = FALSE]
        /\ UNCHANGED <<lock, history, crashes>>

\* createSyncHistoryRecord swallows its errors.
CreateHistory(j) ==
    /\ At(j, "history")
    /\ \/ /\ history' = Append(history, [status |-> "running", job |-> j])
          /\ inst' = [inst EXCEPT ![job[j].at].row = Len(history')]
       \/ env.lossy /\ UNCHANGED history /\ inst' = [inst EXCEPT ![job[j].at].row = 0]
    /\ Goto(j, "connect")
    /\ UNCHANGED <<lock, crashes>>

\* An error goes to the catch; again says whether its message tells of the network,
\* which only the cron job asks.
Throw(j) ==
    \E again \in BOOLEAN :
        /\ again => job[j].kind = "scheduled"
        /\ job' = [job EXCEPT ![j].pc = "finalize", ![j].result = "failed", ![j].again = again]

\* forceReconnect, then loadFileSyncMap
Connect(j) ==
    /\ At(j, "connect")
    /\ Goto(j, "work") \/ Throw(j)
    /\ UNCHANGED <<inst, lock, history, crashes>>

\* The files are processed, or listed only: a dry run returns from within the try.
Work(j) ==
    /\ At(j, "work")
    /\ \/ Throw(j)
       \/ job[j].kind = "dry" /\ Goto(j, "close")
       \/ /\ job[j].kind # "dry"
          /\ job' = [job EXCEPT ![j].pc = "finalize",
                        ![j].result = IF inst[job[j].at].cancel THEN "cancelled" ELSE "completed"]
    /\ UNCHANGED <<inst, lock, history, crashes>>

\* Fault: the row of a run that failed is left as it is.
FinalizeSuccess(j) ==
    LET row == inst[job[j].at].row
    IN  /\ At(j, "finalize")
        /\ \/ /\ row # 0 /\ job[j].result # "failed"
              /\ history' = [history EXCEPT ![row].status = job[j].result]
           \/ (row = 0 \/ env.lossy \/ job[j].result = "failed") /\ UNCHANGED history
        /\ Goto(j, "close")
        /\ UNCHANGED <<inst, lock, crashes>>

\* finalizeSyncHistory swallows its errors too.
Finalize(j) ==
    LET row == inst[job[j].at].row
    IN  /\ At(j, "finalize")
        /\ \/ row # 0 /\ history' = [history EXCEPT ![row].status = job[j].result]
           \/ (row = 0 \/ env.lossy) /\ UNCHANGED history
        /\ Goto(j, "close")
        /\ UNCHANGED <<inst, lock, crashes>>

\* The finally; scheduledSync then sleeps before the next attempt, if there is one.
Close(j) ==
    /\ At(j, "close")
    /\ inst' = [inst EXCEPT ![job[j].at].syncing = FALSE, ![job[j].at].row = 0]
    /\ job' = [job EXCEPT ![j].again = FALSE,
            ![j].pc = IF job[j].again /\ job[j].att < MaxAttempts THEN "sleep" ELSE After(j)]
    /\ UNCHANGED <<lock, history, crashes>>

-----------------------------------------------------------------------------

CancelSync(r) ==
    /\ inst[r].syncing /\ ~inst[r].cancel
    /\ inst' = [inst EXCEPT ![r].cancel = TRUE]
    /\ job' = [j \in Jobs |-> IF Syncing(j) /\ job[j].at = r
                              THEN [job[j] EXCEPT !.asked = TRUE] ELSE job[j]]
    /\ UNCHANGED <<lock, history, crashes>>

\* A session ends, and its lock with it, while its instance lives: the connection has reached
\* its age limit, or broke.  The pool opens another, and the run goes on.
SessionEnds(s) ==
    /\ env.sessions # "kept" /\ lock[s] > 0
    /\ lock' = [lock EXCEPT ![s] = 0]
    /\ UNCHANGED <<inst, job, history, crashes>>

\* An instance dies: its calls are gone, and its sessions, unless they are the pooler's, end
\* and with them their locks.
Crash(r) ==
    /\ crashes < env.crashes
    /\ \E j \in Jobs : job[j].at = r /\ job[j].pc \notin {"over", "dead"}
    /\ crashes' = crashes + 1
    /\ inst' = [inst EXCEPT ![r] = Fresh]
    /\ lock' = [s \in DOMAIN lock |-> IF s[1] = r /\ env.sessions # "shared" THEN 0 ELSE lock[s]]
    /\ job' = [j \in Jobs |-> IF job[j].at = r /\ job[j].pc # "over" THEN [job[j] EXCEPT !.pc = "dead"] ELSE job[j]]
    /\ UNCHANGED history

Step(j) ==
    \/ Lock(j) \/ Wake(j) \/ Unlock(j)
    \/ Begin(j) \/ CreateHistory(j) \/ Connect(j) \/ Work(j) \/ Finalize(j) \/ Close(j)

Next ==
    /\ \/ \E j \in Jobs : Call(j) \/ Step(j)
       \/ \E r \in Replicas : CancelSync(r) \/ Crash(r)
       \/ \E s \in DOMAIN lock : SessionEnds(s)
    /\ UNCHANGED env

Spec == Init /\ [][Next]_vars

\* Statements are answered, downloads have time limits, and timers fire.
FairSpec == Spec /\ \A j \in Jobs : WF_vars(Step(j) /\ UNCHANGED env)

-----------------------------------------------------------------------------
(* Properties                                                                *)

TypeOK ==
    /\ inst \in [Replicas -> [syncing : BOOLEAN, cancel : BOOLEAN, row : 0 .. Len(history)]]
    /\ lock \in [Replicas \X Conns -> 0 .. Cardinality(Jobs)]
    /\ \A i \in DOMAIN history :
        history[i] \in [status : {"running", "completed", "cancelled", "failed"}, job : Jobs]
    /\ \A j \in Jobs :
        /\ job[j].at \in Replicas \cup {"none"} /\ job[j].att \in 1 .. MaxAttempts
        /\ job[j].pc \in {"idle", "lock", "begin", "history", "connect", "work", "finalize",
                          "close", "sleep", "unlock", "over", "dead"}

\* Two runs never share an instance's fields, its FTP client and its pool, whether the
\* cron job, a retry of it, or an endpoint started them.
OneSyncPerReplica ==
    \A i, j \in Jobs : Syncing(i) /\ Syncing(j) /\ job[i].at = job[j].at => i = j

\* The cron jobs of the replicas never import at the same time ("Uses PostgreSQL advisory
\* lock to prevent concurrent execution across replicas", scheduledSync).
OneImport ==
    \A i, j \in Jobs :
        Syncing(i) /\ Syncing(j) /\ job[i].kind = "scheduled" /\ job[j].kind = "scheduled"
            => i = j

\* That holds as long as every pooled connection keeps a session of its own while its
\* instance lives, wherever the unlocks go, whatever fails and whichever instance dies.
ScheduledOnce == env.sessions = "kept" => OneImport

\* A run is recorded as cancelled only if someone cancelled that run.
CancelWasAsked == \A j \in Jobs : job[j].result = "cancelled" => job[j].asked

\* The fields of an instance belong to one run at a time, and what a run reads there is its own.
InstanceSafe == TypeOK /\ OneSyncPerReplica /\ CancelWasAsked

\* While statements do not fail, a row says "running" only while its run is under way,
\* unless the instance died in it or it was a dry run ("Finalize sync history record on
\* completion/cancellation/failure").
HistoryCloses ==
    ~env.lossy => \A i \in DOMAIN history :
        LET j == history[i].job
        IN  history[i].status = "running" /\ ~At(j, "dead") /\ job[j].kind # "dry"
                => Syncing(j) /\ inst[job[j].at].row = i

\* When no cron job is under way nobody holds the lock ("Release PostgreSQL advisory
\* lock after sync completes").
LockFreed ==
    (\A j \in Jobs : job[j].pc \in {"idle", "over", "dead"}) => \A s \in DOMAIN lock : lock[s] = 0

\* A cron job comes to its end: it does not retry for ever.
JobEnds == \A j \in Jobs : At(j, "lock") ~> At(j, "over") \/ At(j, "dead")
===============================================================================
