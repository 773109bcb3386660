-------------------------------- MODULE FtpPool --------------------------------
(***************************************************************************)
(* The FTP connection pool of the cruise import and the pooled download that *)
(* uses it (cruise-import/services/traveltek-ftp.service.ts).  The service is *)
(* single threaded: an action is the code between two awaits.                *)
(***************************************************************************)
EXTENDS Integers, Sequences, FiniteSets, SequencesExt

CONSTANTS
    Downloads,    \* calls of downloadFilePooled
    Workers,      \* how many of them run at once: the concurrency of the sync
    Sizes,        \* the sizes a pool is made with
    MaxAttempts,  \* retryAttempts of a download
    Timeouts,     \* whether a transfer may outlast its time limit
    NoClient, NoDownload

Clients == 1 .. Cardinality(Downloads) * MaxAttempts

ASSUME FtpPoolAssumption ==
    /\ IsFiniteSet(Downloads)
    /\ Workers \in Nat \ {0} /\ Sizes \subseteq Nat \ {0} /\ MaxAttempts \in Nat \ {0}
    /\ Timeouts \in BOOLEAN
    /\ NoClient \notin Clients /\ NoDownload \notin Downloads

VARIABLES
    maxSize,  \* the size of this pool
    pool,     \* connections: entries of a client and its inUse flag
    made,     \* how many clients have been connected
    closed,   \* the clients whose closed flag is set
    running,  \* the download whose transfer runs on each client
    pc, att, client, slot,  \* of each download; slot is its closedIndex
    drained   \* the sync ended and disconnect() drained the pool

vars == <<maxSize, pool, made, closed, running, pc, att, client, slot, drained>>

Init ==
    /\ maxSize \in Sizes
    /\ pool = <<>> /\ made = 0 /\ closed = {} /\ drained = FALSE
    /\ running = [c \in Clients |-> NoDownload]
    /\ pc = [d \in Downloads |-> "idle"]
    /\ att = [d \in Downloads |-> 0]
    /\ client = [d \in Downloads |-> NoClient]
    /\ slot = [d \in Downloads |-> 0]

Free(p) == SelectInSeq(p, LAMBDA e : ~e.inUse /\ e.client \notin closed)
ClosedIndex(p) == SelectInSeq(p, LAMBDA e : e.client \in closed)
Entry(c) == [client |-> c, inUse |-> TRUE]
Active == {d \in Downloads : pc[d] \notin {"idle", "done"}}

-----------------------------------------------------------------------------
(* acquire() and release()                                                   *)

\* release() finds the entry of the client; one that was replaced is gone.
Released(p, c) ==
    LET i == SelectInSeq(p, LAMBDA e : e.client = c)
    IN  IF i = 0 THEN p ELSE [p EXCEPT ![i].inUse = FALSE]

Take(d, p, i) ==
    /\ pool' = [p EXCEPT ![i].inUse = TRUE]
    /\ client' = [client EXCEPT ![d] = p[i].client]
    /\ pc' = [pc EXCEPT ![d] = "ready"]
    /\ UNCHANGED slot

\* One turn of the loop of waitForConnection.
Poll(d, p) ==
    \/ Free(p) # 0 /\ Take(d, p, Free(p))
    \/ /\ Free(p) = 0
       /\ pool' = p
       /\ client' = [client EXCEPT ![d] = NoClient]
       /\ slot' = [slot EXCEPT ![d] = ClosedIndex(p)]
       /\ pc' = [pc EXCEPT ![d] = IF ClosedIndex(p) # 0 THEN "replace" ELSE "wait"]

\* Fault: a connection of the pool is taken whether or not it is in use.
AcquireShared(d, p) ==
    LET i == SelectInSeq(p, LAMBDA e : e.client \notin closed)
    IN  IF i # 0 THEN Take(d, p, i)
        ELSE IF Len(p) < maxSize
        THEN /\ pool' = p /\ pc' = [pc EXCEPT ![d] = "create"]
             /\ client' = [client EXCEPT ![d] = NoClient] /\ UNCHANGED slot
        ELSE Poll(d, p)

\* The pool is p; a new connection is made when it looks short of one.
Acquire(d, p) ==
    \/ Free(p) # 0 /\ Take(d, p, Free(p))
    \/ /\ Free(p) = 0 /\ Len(p) < maxSize
       /\ pool' = p
       /\ client' = [client EXCEPT ![d] = NoClient]
       /\ pc' = [pc EXCEPT ![d] = "create"]
       /\ UNCHANGED slot
    \/ Free(p) = 0 /\ Len(p) >= maxSize /\ Poll(d, p)

-----------------------------------------------------------------------------
(* downloadFilePooled                                                        *)

Start(d) ==
    /\ pc[d] = "idle" /\ ~drained
    /\ Cardinality(Active) < Workers
    /\ att' = [att EXCEPT ![d] = 1]
    /\ Acquire(d, pool)
    /\ UNCHANGED <<made, closed, running, drained>>

\* The finally block gives the connection back; the call is over.
Finish(d) ==
    /\ pool' = Released(pool, client[d])
    /\ client' = [client EXCEPT ![d] = NoClient]
    /\ slot' = [slot EXCEPT ![d] = 0]
    /\ pc' = [pc EXCEPT ![d] = "done"]
    /\ UNCHANGED att

\* A failed attempt but the last backs off, still holding its connection.
FailAttempt(d) ==
    \/ /\ att[d] < MaxAttempts
       /\ pc' = [pc EXCEPT ![d] = "backoff"]
       /\ slot' = [slot EXCEPT ![d] = 0]
       /\ UNCHANGED <<pool, client, att>>
    \/ att[d] = MaxAttempts /\ Finish(d)

\* Fault: the finally block forgets the connection of a failed attempt.
RetryHolding(d) ==
    /\ pc[d] = "backoff"
    /\ att' = [att EXCEPT ![d] = @ + 1]
    /\ Acquire(d, pool)
    /\ UNCHANGED <<made, closed, running, drained>>

\* Fault: the attempts of a download are not counted.
RetryForever(d) ==
    /\ pc[d] = "backoff"
    /\ Acquire(d, Released(pool, client[d]))
    /\ UNCHANGED <<att, made, closed, running, drained>>

\* The next attempt runs on as soon as the last one's connection is back.
Retry(d) ==
    /\ pc[d] = "backoff"
    /\ att' = [att EXCEPT ![d] = @ + 1]
    /\ Acquire(d, Released(pool, client[d]))
    /\ UNCHANGED <<made, closed, running, drained>>

\* client.access resolves for a connection that goes at the end of the pool.
Created(d) ==
    /\ pc[d] = "create"
    /\ made' = made + 1
    /\ pool' = Append(pool, Entry(made'))
    /\ client' = [client EXCEPT ![d] = made']
    /\ pc' = [pc EXCEPT ![d] = "ready"]
    /\ UNCHANGED <<closed, running, att, slot, drained>>

\* It goes where the closed one was when the waiter looked.
Replaced(d) ==
    /\ pc[d] = "replace"
    /\ made' = made + 1
    /\ pool' = [pool EXCEPT ![slot[d]] = Entry(made')]
    /\ client' = [client EXCEPT ![d] = made']
    /\ pc' = [pc EXCEPT ![d] = "ready"]
    /\ slot' = [slot EXCEPT ![d] = 0]
    /\ UNCHANGED <<closed, running, att, drained>>

ConnectFails(d) ==
    /\ pc[d] \in {"create", "replace"}
    /\ FailAttempt(d)
    /\ UNCHANGED <<made, closed, running, drained>>

\* The 100 ms are over: look again, or give up after 30 seconds.
Wake(d) ==
    /\ pc[d] = "wait"
    /\ \/ Poll(d, pool) /\ UNCHANGED att
       \/ FailAttempt(d)
    /\ UNCHANGED <<made, closed, running, drained>>

\* The size check and, unless the file is too big, the start of the transfer.
Launch(d) ==
    LET c == client[d]
    IN  /\ pc[d] = "ready"
        /\ \/ /\ running[c] = NoDownload /\ c \notin closed
              /\ running' = [running EXCEPT ![c] = d]
              /\ pc' = [pc EXCEPT ![d] = "transfer"]
              /\ UNCHANGED <<pool, client, att, slot, closed>>
           \* The file is too big: null is returned without a retry.
           \/ running[c] = NoDownload /\ c \notin closed /\ Finish(d) /\ UNCHANGED <<closed, running>>
           \/ c \in closed /\ FailAttempt(d) /\ UNCHANGED <<closed, running>>
           \* A client that is given two tasks at once closes.
           \/ /\ running[c] # NoDownload
              /\ closed' = closed \cup {c}
              /\ running' = [running EXCEPT ![c] = NoDownload]
              /\ FailAttempt(d)
        /\ UNCHANGED <<made, drained>>

Complete(d) ==
    /\ pc[d] = "transfer"
    /\ running' = [running EXCEPT ![client[d]] = NoDownload]
    /\ Finish(d)
    /\ UNCHANGED <<made, closed, drained>>

\* The server refuses the file, or the connection drops.
TransferFails(d) ==
    /\ pc[d] = "transfer"
    /\ running' = [running EXCEPT ![client[d]] = NoDownload]
    /\ closed' \in {closed, closed \cup {client[d]}}
    /\ FailAttempt(d)
    /\ UNCHANGED <<made, drained>>

\* The timer rejects the promise; downloadTo goes on.
TransferTimesOut(d) ==
    /\ Timeouts /\ pc[d] = "transfer"
    /\ FailAttempt(d)
    /\ UNCHANGED <<made, closed, running, drained>>

-----------------------------------------------------------------------------
(* The client library and the FTP server                                     *)

Abandoned(c) == running[c] # NoDownload /\ ~(pc[running[c]] = "transfer" /\ client[running[c]] = c)

\* A transfer nobody waits for comes to its end, or the server cuts it.
AbandonedEnds(c) ==
    /\ Abandoned(c)
    /\ running' = [running EXCEPT ![c] = NoDownload]
    /\ closed' \in {closed, closed \cup {c}}
    /\ UNCHANGED <<pool, made, pc, att, client, slot, drained>>

\* The server closes a connection that is idle.
IdleCloses(c) ==
    /\ c <= made /\ c \notin closed /\ running[c] = NoDownload
    /\ closed' = closed \cup {c}
    /\ UNCHANGED <<pool, made, running, pc, att, client, slot, drained>>

\* drain() closes what is in the pool when the sync has ended.
Drain ==
    /\ Active = {} /\ ~drained
    /\ drained' = TRUE
    /\ closed' = closed \cup {pool[i].client : i \in DOMAIN pool}
    /\ running' = [c \in Clients |-> IF c \in closed' THEN NoDownload ELSE running[c]]
    /\ pool' = <<>>
    /\ UNCHANGED <<made, pc, att, client, slot>>

Step(d) ==
    \/ Retry(d) \/ Created(d) \/ Replaced(d) \/ ConnectFails(d)
    \/ Wake(d) \/ Launch(d) \/ Complete(d) \/ TransferFails(d) \/ TransferTimesOut(d)

Next ==
    /\ \/ \E d \in Downloads : Start(d) \/ Step(d)
       \/ \E c \in Clients : AbandonedEnds(c) \/ IdleCloses(c)
       \/ Drain
    /\ UNCHANGED maxSize

Spec == Init /\ [][Next]_vars

\* Timers fire, and every call on a connection is answered or cut.
FairSpec == Spec /\ \A d \in Downloads : WF_vars(Step(d) /\ UNCHANGED maxSize)

-----------------------------------------------------------------------------
(* Properties                                                                *)

TypeOK ==
    /\ maxSize \in Sizes
    /\ made \in 0 .. Cardinality(Downloads) * MaxAttempts
    /\ pool \in Seq([client : 1 .. made, inUse : BOOLEAN])
    /\ closed \subseteq 1 .. made /\ drained \in BOOLEAN
    /\ running \in [Clients -> Downloads \cup {NoDownload}]
    /\ pc \in [Downloads -> {"idle", "create", "replace", "wait", "ready",
                             "transfer", "backoff", "done"}]
    /\ att \in [Downloads -> 0 .. MaxAttempts]
    /\ client \in [Downloads -> 1 .. made \cup {NoClient}]
    /\ slot \in [Downloads -> 0 .. Len(pool)]

\* A client works for one download at a time: no two hold the same one, and the
\* pool never offers one that somebody holds (downloadFilePooled, "each call gets
\* its own connection").
OneHolder ==
    \A d, e \in Downloads :
        client[d] # NoClient =>
            /\ d # e => client[e] # client[d]
            /\ \A i \in DOMAIN pool : pool[i].client = client[d] => pool[i].inUse

\* The indexes a download keeps across an await stay within the pool, and the connections it
\* reaches through them are its own.
PoolSafe == TypeOK /\ OneHolder

\* With a pool of more connections than workers, as runSync sizes it, nobody waits:
\* a full pool always has an entry that is free or that can be replaced.
NobodyWaits == maxSize > Workers => \A d \in Downloads : pc[d] # "wait"

\* Whatever the server does, every download that starts comes to an answer.
DownloadsEnd == \A d \in Downloads : pc[d] \notin {"idle", "done"} ~> pc[d] = "done"

\* maxSize bounds the connections of the pool ("Creates a new connection if pool
\* isn't full, otherwise waits for one").
PoolBounded == Len(pool) <= maxSize

\* The drain closes every connection that was ever opened ("Close all connections
\* and drain the pool").
DrainClosesAll == drained => closed = 1 .. made

\* The connection a download was given is not still busy with another's transfer
\* ("each call gets its own connection").
CleanConnection ==
    \A d \in Downloads : pc[d] = "ready" => running[client[d]] = NoDownload
=============================================================================
