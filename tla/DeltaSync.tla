------------------------------- MODULE DeltaSync -------------------------------
(***************************************************************************)
(* One run of the cruise import: workers that pull files from a shared        *)
(* stream, skip those that have not changed since they were imported, and     *)
(* import the others (processFilesStreaming, processSingleFile and the delta  *)
(* sync helpers of cruise-import/services/import-orchestrator.service.ts).    *)
(* Runs share the database; each has its own workers and its own stream.      *)
(***************************************************************************)
EXTENDS Integers, Sequences, FiniteSets

CONSTANTS
    Files,       \* the files of one ship's directory
    TooBig,      \* those that are listed with a size over the limit
    Runs,        \* runs of the import, each happens once
    Workers,     \* the workers of a run
    Changing,    \* those the server may publish a new version of
    MaxVersion,  \* how many versions of a file there may be
    Isolated,    \* runs do not overlap
    NoFile

ASSUME DeltaSyncAssumption ==
    /\ IsFiniteSet(Workers) /\ TooBig \subseteq Files /\ Changing \subseteq Files
    /\ MaxVersion \in Nat \ {0} /\ Isolated \in BOOLEAN /\ NoFile \notin Files

VARIABLES
    ftp,      \* the version of each file on the server
    content,  \* the version of each file imported in the database, 0 for none
    tracked,  \* rows of cruise_ftp_file_sync
    run,      \* the runs
    worker    \* the workers of each run

vars == <<ftp, content, tracked, run, worker>>

Versions == 1 .. MaxVersion

\* The size and date the server lists for a version: each version has its own.
Stat(v) == v
Row(stat, status) == [stat |-> stat, status |-> status]

NewRun == [pc |-> "idle", delta |-> TRUE, known |-> [f \in Files |-> Row(0, "none")],
           listed |-> [f \in Files |-> 0], todo |-> Files, done |-> FALSE, broken |-> FALSE,
           queue |-> <<>>, cancel |-> FALSE, found |-> 0, processed |-> 0, skipped |-> 0,
           failed |-> 0]
NewWorker == [pc |-> "loop", f |-> NoFile, v |-> 0]

Init ==
    /\ ftp = [f \in Files |-> 1]
    /\ content = [f \in Files |-> 0]
    /\ tracked = [f \in Files |-> Row(0, "none")]
    /\ run = [s \in Runs |-> NewRun]
    /\ worker = [s \in Runs |-> [w \in Workers |-> NewWorker]]

At(s, w, pc) == run[s].pc = "running" /\ worker[s][w].pc = pc
Goto(s, w, pc) == worker' = [worker EXCEPT ![s][w].pc = pc]
Loop(s, w) == worker' = [worker EXCEPT ![s][w] = NewWorker]
CountFailed(s) == run' = [run EXCEPT ![s].failed = @ + 1]

-----------------------------------------------------------------------------
(* The run                                                                   *)

\* The tracking rows are loaded, and the stream will list the directory.
StartRun(s) ==
    /\ run[s].pc = "idle"
    /\ Isolated => \A t \in Runs : run[t].pc \in {"idle", "over"}
    /\ \E delta \in BOOLEAN :
        run' = [run EXCEPT ![s].pc = "listing", ![s].delta = delta, ![s].known = tracked]
    /\ UNCHANGED <<ftp, content, tracked, worker>>

\* A directory that cannot be listed is passed over: the stream goes on without its files.
List(s) ==
    /\ run[s].pc = "listing"
    /\ run' \in {[run EXCEPT ![s].pc = "running", ![s].listed = ftp],
                 [run EXCEPT ![s].pc = "running", ![s].listed = ftp, ![s].todo = {},
                             ![s].broken = TRUE]}
    /\ UNCHANGED <<ftp, content, tracked, worker>>

Cancel(s) ==
    /\ run[s].pc = "running" /\ ~run[s].cancel
    /\ run' = [run EXCEPT ![s].cancel = TRUE]
    /\ UNCHANGED <<ftp, content, tracked, worker>>

\* What the run loaded is gone with it.
EndRun(s) ==
    /\ run[s].pc = "running"
    /\ \A w \in Workers : worker[s][w].pc = "ended"
    /\ run' = [run EXCEPT ![s].pc = "over", ![s].known = NewRun.known, ![s].todo = {},
                          ![s].delta = TRUE]
    /\ UNCHANGED <<ftp, content, tracked, worker>>

-----------------------------------------------------------------------------
(* getNextFile: a queue of promises in front of the stream                    *)

Ask(s, w) ==
    /\ At(s, w, "loop")
    /\ \/ run[s].cancel /\ Goto(s, w, "ended") /\ UNCHANGED run
       \/ /\ ~run[s].cancel
          /\ run' = [run EXCEPT ![s].queue = Append(@, w)]
          /\ Goto(s, w, "queued")
    /\ UNCHANGED <<ftp, content, tracked>>

First(s, w) == run[s].queue # <<>> /\ Head(run[s].queue) = w

\* Fault: nobody waits for the call before.
PullAtOnce(s, w) ==
    /\ At(s, w, "queued")
    /\ \/ (run[s].done \/ run[s].cancel) /\ Goto(s, w, "ended")
          /\ run' = [run EXCEPT ![s].queue = SelectSeq(@, LAMBDA x : x # w)]
       \/ ~run[s].done /\ ~run[s].cancel /\ Goto(s, w, "reading") /\ UNCHANGED run
    /\ UNCHANGED <<ftp, content, tracked>>

\* Fault: the lock is not resolved when there is nothing left.
PullStuck(s, w) ==
    /\ At(s, w, "queued") /\ First(s, w)
    /\ \/ (run[s].done \/ run[s].cancel) /\ Goto(s, w, "ended") /\ UNCHANGED run
       \/ ~run[s].done /\ ~run[s].cancel /\ Goto(s, w, "reading") /\ UNCHANGED run
    /\ UNCHANGED <<ftp, content, tracked>>

\* The call before has resolved.
Pull(s, w) ==
    /\ At(s, w, "queued") /\ First(s, w)
    /\ \/ /\ run[s].done \/ run[s].cancel
          /\ run' = [run EXCEPT ![s].queue = Tail(@)]
          /\ Goto(s, w, "ended")
       \/ ~run[s].done /\ ~run[s].cancel /\ Goto(s, w, "reading") /\ UNCHANGED run
    /\ UNCHANGED <<ftp, content, tracked>>

\* The stream yields the next file, is at its end (it looks at the cancellation as well), or
\* breaks, which looks like its end: it may before the first file, when it connects and looks
\* for the years.  Its promise is the first of the queue.
Read(s, w) ==
    /\ At(s, w, "reading")
    /\ \/ \E f \in run[s].todo :
            /\ run' = [run EXCEPT ![s].queue = Tail(@), ![s].todo = @ \ {f}, ![s].found = @ + 1]
            /\ worker' = [worker EXCEPT ![s][w].pc = "check", ![s][w].f = f]
       \/ \E broken \in BOOLEAN :
            /\ IF broken THEN run[s].found = 0 ELSE run[s].todo = {} \/ run[s].cancel
            /\ run' = [run EXCEPT ![s].queue = Tail(@), ![s].done = TRUE,
                                  ![s].broken = @ \/ broken]
            /\ Goto(s, w, "ended")
    /\ UNCHANGED <<ftp, content, tracked>>

-----------------------------------------------------------------------------
(* processSingleFile                                                         *)

\* Fault: a file that failed before is not taken up again.
UnchangedThoughFailed(s, f) ==
    /\ run[s].delta
    /\ run[s].known[f].status # "none"
    /\ run[s].known[f].stat = Stat(run[s].listed[f])

\* isFileUnchanged: a success is recorded with the size and date now listed.
Unchanged(s, f) ==
    /\ run[s].delta
    /\ run[s].known[f].status = "success"
    /\ run[s].known[f].stat = Stat(run[s].listed[f])

Check(s, w) ==
    LET f == worker[s][w].f
    IN  /\ At(s, w, "check")
        /\ \/ /\ Unchanged(s, f) \/ f \in TooBig
              /\ run' = [run EXCEPT ![s].skipped = @ + 1] /\ Loop(s, w)
           \/ ~Unchanged(s, f) /\ f \notin TooBig /\ Goto(s, w, "download") /\ UNCHANGED run
        /\ UNCHANGED <<ftp, content, tracked>>

\* What is downloaded is the file as it is by now.
Download(s, w) ==
    /\ At(s, w, "download")
    /\ \/ /\ worker' = [worker EXCEPT ![s][w].pc = "import",
                                      ![s][w].v = ftp[worker[s][w].f]]
          /\ UNCHANGED run
       \/ CountFailed(s) /\ Goto(s, w, "fail")
    /\ UNCHANGED <<ftp, content, tracked>>

\* The upsert is one transaction; a file that cannot be parsed or stored fails.
Import(s, w) ==
    /\ At(s, w, "import")
    /\ \/ /\ content' = [content EXCEPT ![worker[s][w].f] = worker[s][w].v]
          /\ run' = [run EXCEPT ![s].processed = @ + 1] /\ Goto(s, w, "success")
       \/ CountFailed(s) /\ Goto(s, w, "fail") /\ UNCHANGED content
    /\ UNCHANGED <<ftp, tracked>>

\* Fault: the row tells of the file as it is by now.
TrackCurrent(s, w) ==
    /\ worker[s][w].pc \in {"success", "fail"}
    /\ LET f == worker[s][w].f
           row == Row(Stat(ftp[f]), IF worker[s][w].pc = "success" THEN "success" ELSE "failed")
       IN  tracked' \in {tracked, [tracked EXCEPT ![f] = row]}
    /\ Loop(s, w)
    /\ UNCHANGED <<ftp, content, run>>

\* The row tells of the file as it was listed.  An error is swallowed.
Track(s, w) ==
    /\ worker[s][w].pc \in {"success", "fail"}
    /\ LET f == worker[s][w].f
           row == Row(Stat(run[s].listed[f]),
                      IF worker[s][w].pc = "success" THEN "success" ELSE "failed")
       IN  tracked' \in {tracked, [tracked EXCEPT ![f] = row]}
    /\ Loop(s, w)
    /\ UNCHANGED <<ftp, content, run>>

\* Traveltek publishes a new version of a file.
Publish(f) ==
    /\ f \in Changing /\ ftp[f] < MaxVersion
    /\ ftp' = [ftp EXCEPT ![f] = @ + 1]
    /\ UNCHANGED <<content, tracked, run, worker>>

Step(s) ==
    \/ List(s) \/ EndRun(s)
    \/ \E w \in Workers :
        \/ Ask(s, w) \/ Pull(s, w) \/ Read(s, w) \/ Check(s, w)
        \/ Download(s, w) \/ Import(s, w) \/ Track(s, w)

Next ==
    \/ \E s \in Runs : StartRun(s) \/ Cancel(s) \/ Step(s)
    \/ \E f \in Files : Publish(f)

Spec == Init /\ [][Next]_vars

\* Every call a run waits for is answered: downloads and listings have time limits.
FairSpec == Spec /\ \A s \in Runs : WF_vars(Step(s))

-----------------------------------------------------------------------------
(* Properties                                                                *)

TypeOK ==
    /\ ftp \in [Files -> Versions] /\ content \in [Files -> 0 .. MaxVersion]
    /\ tracked \in [Files -> [stat : 0 .. MaxVersion, status : {"none", "success", "failed"}]]
    /\ \A s \in Runs :
        /\ run[s].pc \in {"idle", "listing", "running", "over"}
        /\ run[s].todo \subseteq Files /\ Len(run[s].queue) <= Cardinality(Workers)
        /\ \A w \in Workers :
            /\ worker[s][w].f \in Files \cup {NoFile} /\ worker[s][w].v \in 0 .. MaxVersion
            /\ worker[s][w].pc \in {"loop", "queued", "reading", "check", "download",
                                    "import", "success", "fail", "ended"}

\* A worker waits for the call before it: never do two read the stream at once
\* ("Mutex for thread-safe iterator access", processFilesStreaming).
OneReader ==
    \A s \in Runs : Cardinality({w \in Workers : worker[s][w].pc = "reading"}) <= 1

\* Whatever fails, every file found is counted once, as processed, skipped or failed,
\* or is in the hands of a worker.
AccountsBalance ==
    \A s \in Runs :
        run[s].found = run[s].processed + run[s].skipped + run[s].failed
            + Cardinality({w \in Workers : worker[s][w].pc \in {"check", "download", "import"}})

\* The workers share the stream without losing a file or counting one twice.
StreamShared == TypeOK /\ OneReader /\ AccountsBalance

\* A file the next delta sync would skip is imported as the server has it now.
SkipIsSafe ==
    \A f \in Files :
        tracked[f].status = "success" /\ tracked[f].stat = Stat(ftp[f]) => content[f] = ftp[f]

\* A run that went through without a failure, a cancellation, a broken stream or a directory
\* passed over has brought every file it may import at least to the version it listed.
RunCatchesUp ==
    \A s \in Runs :
        run[s].pc = "over" /\ run[s].failed = 0 /\ ~run[s].cancel /\ ~run[s].broken
            => \A f \in Files \ TooBig : content[f] >= run[s].listed[f]

\* A run that starts comes to its end: no worker waits for ever for its turn.
RunEnds == \A s \in Runs : run[s].pc = "listing" ~> run[s].pc = "over"
=============================================================================
