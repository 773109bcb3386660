---------------------------- MODULE CruiseSyncProofs ----------------------------
(***************************************************************************)
(* Theorems about CruiseSync, for any number of calls, replicas, pooled      *)
(* connections and attempts, with statements that fail and instances that    *)
(* die: what an instance keeps belongs to one run, the history closes its    *)
(* rows, and, as long as the pooled connections keep their sessions, only    *)
(* one cron job imports at a time although unlocks may miss.                 *)
(***************************************************************************)
EXTENDS CruiseSync, FiniteSetTheorems, SequenceTheorems, TLAPS

Sessions == Replicas \X Conns

Job == [pc : {"idle", "lock", "begin", "history", "connect", "work", "finalize",
              "close", "sleep", "unlock", "over", "dead"},
        kind : {"none", "scheduled", "manual", "dry"},
        at : Replicas \cup {"none"}, att : 1 .. MaxAttempts,
        result : {"none", "failed", "cancelled", "completed"},
        again : BOOLEAN, asked : BOOLEAN]

Entry == [status : {"running", "completed", "cancelled", "failed"}, job : Jobs]

\* What a call knows at each of its points.
CallFine(q) ==
    /\ q.pc = "idle" => q.kind = "none"
    /\ q.pc # "idle" => q.at \in Replicas
    /\ q.pc \in {"lock", "sleep", "unlock"} \/ q.again => q.kind = "scheduled"
    /\ q.pc = "sleep" => q.att < MaxAttempts
    /\ q.pc = "finalize" => q.result # "none"

Typed ==
    /\ env \in Environments
    /\ inst \in [Replicas -> [syncing : BOOLEAN, cancel : BOOLEAN, row : 0 .. Len(history)]]
    /\ lock \in [Sessions -> Nat]
    /\ history \in Seq(Entry)
    /\ job \in [Jobs -> Job]
    /\ \A j \in Jobs : CallFine(job[j])

\* A run has set the flag of its instance, alone, and knows whether it was cancelled.
Owned ==
    /\ \A j \in Jobs : Syncing(j) => inst[job[j].at].syncing
    /\ OneSyncPerReplica
    /\ \A j \in Jobs : Syncing(j) /\ inst[job[j].at].cancel => job[j].asked
    /\ CancelWasAsked

\* The cron jobs that got the lock and have not tried to give it back.
Owing == {j \in Jobs : job[j].kind = "scheduled"
                         /\ (Syncing(j) \/ job[j].pc \in {"begin", "sleep", "unlock"})}

\* The calls that are past the lock: none of them takes it again.
Past == {j \in Jobs : job[j].pc \notin {"idle", "lock"}}

\* One session at most has the lock.  While connections keep their sessions it is on the
\* instance of every cron job that owes an unlock, and has the lock as often as there are
\* such jobs at least: an unlock too many is never made.
Locked ==
    /\ \A s, t \in Sessions : lock[s] > 0 /\ lock[t] > 0 => s = t
    /\ env.sessions = "kept" =>
          \A j \in Owing : \E c \in Conns : lock[<<job[j].at, c>>] >= Cardinality(Owing)
    /\ \A s \in Sessions : lock[s] <= Cardinality(Past)

\* A row that says "running" is the one its run is about to finalize.
Told(i) ==
    LET j == history[i].job
    IN  history[i].status = "running" =>
            \/ At(j, "dead") \/ job[j].kind = "dry"
            \/ job[j].pc \in {"connect", "work", "finalize"} /\ inst[job[j].at].row = i
HistoryTold == ~env.lossy => \A i \in DOMAIN history : Told(i)

IInv == Typed /\ Owned /\ Locked /\ HistoryTold

LEMMA OwingFinite ==
    /\ Owing \subseteq Jobs /\ Past \subseteq Jobs
    /\ IsFiniteSet(Owing) /\ IsFiniteSet(Past)
    /\ Cardinality(Owing) \in Nat /\ Cardinality(Past) \in Nat
BY CruiseSyncAssumption, FS_Subset, FS_CardinalityType DEF Owing, Past

\* A step that does not touch the lock, and after which no other cron job owes an unlock.
LEMMA LockKept ==
    ASSUME Typed, Locked, UNCHANGED <<env, lock>>, Owing' \subseteq Owing, Past \subseteq Past',
           \A j \in Owing' : job'[j].at = job[j].at
    PROVE  Locked'
<1>1. IsFiniteSet(Owing) /\ IsFiniteSet(Past) /\ IsFiniteSet(Past')
  BY CruiseSyncAssumption, OwingFinite, FS_Subset DEF Past
<1>2. /\ Cardinality(Owing') <= Cardinality(Owing) /\ Cardinality(Past) <= Cardinality(Past')
      /\ Cardinality(Owing) \in Nat /\ Cardinality(Owing') \in Nat
      /\ Cardinality(Past) \in Nat /\ Cardinality(Past') \in Nat
  BY <1>1, FS_Subset, FS_CardinalityType
<1>3. ASSUME env.sessions = "kept", NEW j \in Owing'
      PROVE  \E c \in Conns : lock'[<<job'[j].at, c>>] >= Cardinality(Owing')
  <2>1. PICK c \in Conns : lock[<<job[j].at, c>>] >= Cardinality(Owing)
    BY <1>3 DEF Locked
  <2>2. j \in Jobs /\ job[j].at \in Replicas
    BY DEF Owing, Typed, CallFine, Syncing
  <2>3. lock[<<job[j].at, c>>] \in Nat
    BY <2>2 DEF Typed, Sessions
  <2> QED
    BY <1>2, <2>1, <2>3
<1>4. \A s \in Sessions : lock'[s] <= Cardinality(Past')
  BY <1>2 DEF Locked, Typed
<1> QED
  BY <1>3, <1>4 DEF Locked

LEMMA InitIInv == Init => IInv
<1> SUFFICES ASSUME Init PROVE IInv
  OBVIOUS
<1>1. Typed
  BY CruiseSyncAssumption DEF Init, Typed, Fresh, NewJob, Job, CallFine, Sessions
<1>2. Owned
  BY DEF Init, Owned, OneSyncPerReplica, CancelWasAsked, Syncing, NewJob
<1>3. Owing = {} /\ Past = {}
  BY DEF Init, Owing, Past, NewJob
<1>4. Locked
  BY <1>3, FS_EmptySet DEF Init, Locked, Sessions
<1>5. HistoryTold
  BY DEF Init, HistoryTold
<1> QED
  BY <1>1, <1>2, <1>4, <1>5 DEF IInv

-----------------------------------------------------------------------------
(* scheduledSync and the endpoints                                           *)


\* One call changes to something well formed, and the fields of no instance.
LEMMA CallTyped ==
    ASSUME Typed, NEW j \in Jobs, NEW w \in Job, CallFine(w), job' = [job EXCEPT ![j] = w],
           UNCHANGED <<env, inst, history>>, lock' \in [Sessions -> Nat]
    PROVE  Typed'
BY DEF Typed

\* A row tells of a call.
LEMMA EntryFine ==
    ASSUME Typed, NEW i \in DOMAIN history
    PROVE  history[i] \in Entry /\ history[i].job \in Jobs /\ i \in 1 .. Len(history)
<1>1. history \in Seq(Entry) /\ Len(history) \in Nat /\ DOMAIN history = 1 .. Len(history)
  BY LenProperties DEF Typed
<1>2. history[i] \in Entry
  BY <1>1, ElementOfSeq
<1> QED
  BY <1>1, <1>2 DEF Entry

LEMMA CallStep == ASSUME IInv, NEW j \in Jobs, Call(j), UNCHANGED env PROVE IInv'
<1> USE DEF IInv
<1>1. PICK k \in Kinds, r \in Replicas :
        job' = [job EXCEPT ![j].kind = k, ![j].at = r,
                           ![j].pc = IF k = "scheduled" THEN "lock" ELSE "begin"]
  BY DEF Call
<1> DEFINE w == [job[j] EXCEPT !.kind = k, !.at = r,
                               !.pc = IF k = "scheduled" THEN "lock" ELSE "begin"]
<1>w. /\ job[j] \in Job /\ w \in Job /\ CallFine(w) /\ job' = [job EXCEPT ![j] = w]
      /\ job[j].pc = "idle" /\ job[j].kind = "none"
      /\ w.pc = (IF k = "scheduled" THEN "lock" ELSE "begin") /\ w.kind = k
      /\ w.result = job[j].result /\ w.asked = job[j].asked
  BY <1>1, CruiseSyncAssumption DEF Call, At, Typed, Job, CallFine
<1> HIDE DEF w
<1>2. Typed'
  BY <1>w, CallTyped DEF Call, Typed
<1>3. Owned'
  BY <1>w DEF Call, Typed, Owned, OneSyncPerReplica, CancelWasAsked, Syncing
<1>4. Locked'
  <2>1. Owing' \subseteq Owing /\ Past \subseteq Past' /\ \A i \in Owing' : job'[i].at = job[i].at
    BY <1>w DEF Typed, Owing, Past, Syncing
  <2> QED
    BY <2>1, LockKept DEF Call
<1>5. HistoryTold'
  BY <1>w, EntryFine DEF Call, At, Typed, HistoryTold, Told
<1> QED
  BY <1>2, <1>3, <1>4, <1>5

\* A step of one call that writes only what that call knows, and begins no run.
LEMMA PlainStep ==
    ASSUME IInv, NEW j \in Jobs, NEW w \in Job, CallFine(w), job' = [job EXCEPT ![j] = w],
           UNCHANGED <<env, inst, lock, history>>,
           w.at = job[j].at, w.kind = job[j].kind, w.asked = job[j].asked,
           w.pc \notin {"idle", "lock"},
           w.pc \in {"history", "connect", "work", "finalize", "close"} => Syncing(j),
           w.pc \in {"begin", "sleep", "unlock"} /\ w.kind = "scheduled" => j \in Owing,
           w.result = "cancelled" => w.asked,
           job[j].pc \in {"connect", "work", "finalize"} /\ job[j].kind # "dry"
               => w.pc \in {"connect", "work", "finalize"},
           job[j].pc # "dead"
    PROVE  IInv'
<1> USE DEF IInv
<1>1. Typed'
  BY CallTyped DEF Typed
<1>2. Owned'
  BY DEF Typed, Owned, OneSyncPerReplica, CancelWasAsked, Syncing
<1>3. Locked'
  <2>1. Owing' \subseteq Owing /\ Past \subseteq Past' /\ \A i \in Owing' : job'[i].at = job[i].at
    BY DEF Typed, Owing, Past, Syncing
  <2> QED
    BY <2>1, LockKept
<1>4. HistoryTold'
  BY EntryFine DEF At, Typed, HistoryTold, Told
<1> QED
  BY <1>1, <1>2, <1>3, <1>4

LEMMA GotoRecord ==
    ASSUME Typed, NEW j \in Jobs, NEW pc \in {"begin", "connect", "close", "work", "unlock", "over"},
           Goto(j, pc), job[j].pc # "idle",
           pc = "unlock" => job[j].kind = "scheduled"
    PROVE  LET w == [job[j] EXCEPT !.pc = pc]
           IN  /\ w \in Job /\ CallFine(w) /\ job' = [job EXCEPT ![j] = w]
               /\ w.pc = pc /\ w.at = job[j].at /\ w.kind = job[j].kind
               /\ w.asked = job[j].asked /\ w.result = job[j].result
BY DEF Typed, Goto, Job, CallFine

LEMMA LockStep == ASSUME IInv, NEW j \in Jobs, Lock(j), UNCHANGED env PROVE IInv'
<1> USE DEF IInv
<1>r. job[j].pc = "lock" /\ job[j].at \in Replicas
  BY DEF Lock, At, Typed, CallFine
<1> DEFINE r == job[j].at
<1>1. ASSUME NEW x \in Reach(r), \A s \in Sessions \ {x} : lock[s] = 0,
             lock' = [lock EXCEPT ![x] = @ + 1], Goto(j, "begin"),
             UNCHANGED <<inst, history>>
      PROVE  IInv'
  <2> DEFINE w == [job[j] EXCEPT !.pc = "begin"]
  <2>w. /\ w \in Job /\ CallFine(w) /\ job' = [job EXCEPT ![j] = w] /\ w.pc = "begin"
        /\ w.at = r /\ w.kind = job[j].kind /\ w.asked = job[j].asked /\ w.result = job[j].result
    BY <1>1, <1>r, GotoRecord
  <2> HIDE DEF w
  <2>s. /\ x \in Sessions /\ lock' \in [Sessions -> Nat]
        /\ lock'[x] = lock[x] + 1 /\ lock[x] \in Nat
        /\ \A s \in Sessions \ {x} : lock'[s] = 0
    BY <1>1, <1>r DEF Typed, Reach
  <2>1. Typed'
    BY <1>1, <2>w, <2>s, CallTyped
  <2>2. Owned'
    BY <1>1, <1>r, <2>w DEF Typed, Owned, OneSyncPerReplica, CancelWasAsked, Syncing
  <2>3. Locked'
    <3>1. Past' = Past \cup {j} /\ j \notin Past /\ Owing' \subseteq Owing \cup {j} /\ j \notin Owing
      BY <1>r, <2>w DEF Typed, Past, Owing, Syncing
    <3>2. /\ Cardinality(Past') = Cardinality(Past) + 1
          /\ Cardinality(Owing') <= Cardinality(Owing) + 1
          /\ {Cardinality(Owing), Cardinality(Owing'), Cardinality(Past)} \subseteq Nat
      <4>1. /\ IsFiniteSet(Owing \cup {j})
            /\ Cardinality(Owing \cup {j}) = Cardinality(Owing) + 1
            /\ Cardinality(Past \cup {j}) = Cardinality(Past) + 1
        BY <3>1, OwingFinite, FS_AddElement
      <4>2. IsFiniteSet(Owing') /\ Cardinality(Owing') <= Cardinality(Owing \cup {j})
        BY <3>1, <4>1, FS_Subset
      <4> QED
        BY <3>1, <4>1, <4>2, OwingFinite, FS_CardinalityType
    <3>3. \A s, t \in Sessions : lock'[s] > 0 /\ lock'[t] > 0 => s = t
      BY <2>s
    <3>4. ASSUME NEW i \in Owing
          PROVE  env.sessions = "kept" => job[i].at = r /\ lock[x] >= Cardinality(Owing)
      <4> SUFFICES ASSUME env.sessions = "kept" PROVE job[i].at = r /\ lock[x] >= Cardinality(Owing)
        OBVIOUS
      <4>1. i \in Jobs /\ job[i].at \in Replicas /\ x[1] = r
        BY DEF Typed, CallFine, Owing, Syncing, Reach
      <4>2. PICK d \in Conns : lock[<<job[i].at, d>>] >= Cardinality(Owing)
        BY DEF Locked
      <4>3. Cardinality(Owing) > 0
        BY OwingFinite, FS_EmptySet
      <4>4. <<job[i].at, d>> = x
        BY <1>1, <4>1, <4>2, <4>3, <3>2 DEF Sessions
      <4> QED
        BY <4>1, <4>2, <4>4
    <3>5. env.sessions = "kept" => lock'[x] >= Cardinality(Owing')
      <4>1. CASE Owing = {}
        <5>1. Cardinality(Owing) = 0
          BY <4>1, FS_EmptySet
        <5> QED
          BY <5>1, <2>s, <3>2
      <4>2. CASE Owing # {}
        BY <4>2, <3>4, <3>2, <2>s
      <4> QED
        BY <4>1, <4>2
    <3>6. env.sessions = "kept" => x[1] = r /\ \A i \in Owing' : job'[i].at = r
      BY <3>1, <3>4, <2>w DEF Typed, Owing, Reach
    <3>7. \A s \in Sessions : lock'[s] <= Cardinality(Past')
      BY <2>s, <3>2 DEF Locked
    <3>8. ASSUME env.sessions = "kept", NEW i \in Owing'
          PROVE  \E c \in Conns : lock'[<<job'[i].at, c>>] >= Cardinality(Owing')
      <4>1. x = <<r, x[2]>> /\ x[2] \in Conns /\ job'[i].at = r
        BY <2>s, <3>6, <3>8 DEF Sessions
      <4> QED
        BY <4>1, <3>5, <3>8
    <3> QED
      BY <3>3, <3>7, <3>8 DEF Locked
  <2>4. HistoryTold'
    BY <1>1, <1>r, <2>w, EntryFine DEF At, Typed, HistoryTold, Told
  <2> QED
    BY <2>1, <2>2, <2>3, <2>4
<1>2. ASSUME Goto(j, "over"), UNCHANGED <<inst, lock, history>> PROVE IInv'
  <2> DEFINE w == [job[j] EXCEPT !.pc = "over"]
  <2>w. /\ w \in Job /\ CallFine(w) /\ job' = [job EXCEPT ![j] = w] /\ w.pc = "over"
        /\ w.at = r /\ w.kind = job[j].kind /\ w.asked = job[j].asked /\ w.result = job[j].result
    BY <1>2, <1>r, GotoRecord
  <2> HIDE DEF w
  <2> QED
    BY <1>2, <1>r, <2>w, PlainStep DEF Owned, CancelWasAsked
<1> QED
  BY <1>1, <1>2 DEF Lock, Typed

LEMMA WakeStep == ASSUME IInv, NEW j \in Jobs, Wake(j), UNCHANGED env PROVE IInv'
<1> DEFINE w == [job[j] EXCEPT !.pc = "begin", !.att = @ + 1]
<1>1. /\ w \in Job /\ CallFine(w) /\ job' = [job EXCEPT ![j] = w] /\ w.pc = "begin"
      /\ w.at = job[j].at /\ w.kind = job[j].kind /\ w.asked = job[j].asked
      /\ w.result = job[j].result /\ job[j].pc = "sleep"
  BY CruiseSyncAssumption DEF IInv, Wake, At, Typed, Job, CallFine
<1> HIDE DEF w
<1>2. w.kind = "scheduled" => j \in Owing
  BY <1>1 DEF Owing
<1> QED
  BY <1>1, <1>2, PlainStep DEF IInv, Wake, Owned, CancelWasAsked

LEMMA UnlockStep == ASSUME IInv, NEW j \in Jobs, Unlock(j), UNCHANGED env PROVE IInv'
<1> USE DEF IInv
<1>r. job[j].pc = "unlock" /\ job[j].at \in Replicas
  BY DEF Unlock, At, Typed, CallFine
<1> DEFINE r == job[j].at
           w == [job[j] EXCEPT !.pc = "over"]
<1>w. /\ w \in Job /\ CallFine(w) /\ job' = [job EXCEPT ![j] = w] /\ w.pc = "over"
      /\ w.at = r /\ w.kind = job[j].kind /\ w.asked = job[j].asked /\ w.result = job[j].result
  BY <1>r, GotoRecord DEF Unlock
<1> HIDE DEF w
<1>1. ASSUME NEW x \in Reach(r), lock' = [lock EXCEPT ![x] = IF @ > 0 THEN @ - 1 ELSE 0]
      PROVE  IInv'
  <2>s. /\ x \in Sessions /\ lock' \in [Sessions -> Nat]
        /\ \A s \in Sessions : lock'[s] <= lock[s] /\ lock'[s] \in Nat /\ lock[s] \in Nat
        /\ \A s \in Sessions : lock'[s] >= lock[s] - 1
    <3>1. x \in Sessions /\ lock \in [Sessions -> Nat]
      BY DEF Typed, Reach
    <3>2. \A s \in Sessions : lock'[s] = IF s = x /\ lock[s] > 0 THEN lock[s] - 1 ELSE lock[s]
      BY <1>1, <3>1
    <3>3. lock' = [s \in Sessions |-> lock'[s]]
      BY <1>1, <3>1
    <3> QED
      BY <3>1, <3>2, <3>3
  <2>1. Typed'
    BY <1>w, <2>s, CallTyped DEF Unlock
  <2>2. Owned'
    BY <1>r, <1>w DEF Unlock, Typed, Owned, OneSyncPerReplica, CancelWasAsked, Syncing
  <2>3. Locked'
    <3>1. Past' = Past /\ Owing' = Owing \ {j} /\ (job[j].kind = "scheduled" => j \in Owing)
      BY <1>r, <1>w DEF Typed, Past, Owing, Syncing
    <3>2. \A s, t \in Sessions : lock'[s] > 0 /\ lock'[t] > 0 => s = t
      BY <2>s DEF Locked
    <3>3. \A s \in Sessions : lock'[s] <= Cardinality(Past')
      BY <2>s, <3>1, OwingFinite DEF Locked
    <3>4. ASSUME env.sessions = "kept", NEW i \in Owing'
          PROVE  \E d \in Conns : lock'[<<job'[i].at, d>>] >= Cardinality(Owing')
      <4>1. i \in Owing /\ i # j /\ job'[i] = job[i] /\ job[i].at \in Replicas
        BY <3>1, <3>4, <1>w DEF Typed, Owing, CallFine, Syncing
      <4>2. PICK d \in Conns : lock[<<job[i].at, d>>] >= Cardinality(Owing)
        BY <3>4, <4>1 DEF Locked
      <4>3. <<job[i].at, d>> \in Sessions
        BY <4>1 DEF Sessions
      <4>4. j \in Owing /\ Cardinality(Owing') = Cardinality(Owing) - 1
        BY <1>r, <3>1, OwingFinite, FS_RemoveElement DEF Typed, CallFine
      <4> QED
        BY <2>s, <4>1, <4>2, <4>3, <4>4, OwingFinite
    <3> QED
      BY <3>2, <3>3, <3>4 DEF Locked
  <2>4. HistoryTold'
    BY <1>r, <1>w, EntryFine DEF Unlock, At, Typed, HistoryTold, Told
  <2> QED
    BY <2>1, <2>2, <2>3, <2>4
<1>2. ASSUME UNCHANGED lock PROVE IInv'
  BY <1>2, <1>r, <1>w, PlainStep DEF Unlock, Owned, CancelWasAsked
<1> QED
  BY <1>1, <1>2 DEF Unlock

-----------------------------------------------------------------------------
(* runSync                                                                   *)

\* What a run knows of itself: where it is and that its instance is taken.
LEMMA RunFine ==
    ASSUME IInv, NEW j \in Jobs, Syncing(j)
    PROVE  /\ job[j] \in Job /\ job[j].at \in Replicas /\ job[j].pc \notin {"idle", "lock", "dead"}
           /\ inst[job[j].at].syncing
           /\ \A i \in Jobs : Syncing(i) /\ job[i].at = job[j].at => i = j
BY DEF IInv, Typed, CallFine, Owned, OneSyncPerReplica, Syncing

LEMMA BeginStep == ASSUME IInv, NEW j \in Jobs, Begin(j), UNCHANGED env PROVE IInv'
<1> USE DEF IInv
<1>r. job[j] \in Job /\ job[j].pc = "begin" /\ job[j].at \in Replicas
  BY DEF Begin, At, Typed, CallFine
<1> DEFINE r == job[j].at
<1>1. ASSUME Goto(j, After(j)), UNCHANGED inst PROVE IInv'
  <2>1. PICK pc \in {"unlock", "over"} : Goto(j, pc) /\ (pc = "unlock" <=> job[j].kind = "scheduled")
    BY <1>1 DEF After
  <2> DEFINE w == [job[j] EXCEPT !.pc = pc]
  <2>w. /\ w \in Job /\ CallFine(w) /\ job' = [job EXCEPT ![j] = w] /\ w.pc = pc
        /\ w.at = r /\ w.kind = job[j].kind /\ w.asked = job[j].asked /\ w.result = job[j].result
    BY <1>r, <2>1 DEF Typed, Goto, Job, CallFine
  <2>o. w.kind = "scheduled" => j \in Owing
    BY <1>r, <2>w DEF Owing
  <2> HIDE DEF w
  <2> QED
    BY <1>1, <1>r, <2>w, <2>o, PlainStep DEF Begin, Owned, CancelWasAsked
<1>2. ASSUME ~inst[r].syncing,
             inst' = [inst EXCEPT ![r].syncing = TRUE, ![r].cancel = FALSE],
             job' = [job EXCEPT ![j].pc = "history", ![j].result = "none", ![j].asked = FALSE]
      PROVE  IInv'
  <2> DEFINE w == [job[j] EXCEPT !.pc = "history", !.result = "none", !.asked = FALSE]
             f == [inst[r] EXCEPT !.syncing = TRUE, !.cancel = FALSE]
  <2>w. /\ w \in Job /\ CallFine(w) /\ job' = [job EXCEPT ![j] = w]
        /\ w.pc = "history" /\ w.at = r /\ w.kind = job[j].kind /\ w.result = "none"
    BY <1>2, <1>r DEF Job, Typed, CallFine
  <2>f. /\ inst' = [inst EXCEPT ![r] = f] /\ f.syncing = TRUE /\ f.cancel = FALSE
        /\ f.row = inst[r].row
        /\ f \in [syncing : BOOLEAN, cancel : BOOLEAN, row : 0 .. Len(history)]
    BY <1>2, <1>r DEF Typed
  <2> HIDE DEF w, f
  <2>1. Typed'
    BY <2>w, <2>f, <1>r DEF Begin, Typed
  <2>2. Owned'
    <3>1. \A i \in Jobs : Syncing(i) => job[i].at # r
      BY <1>2 DEF Owned
    <3> QED
      BY <2>w, <2>f, <1>r, <3>1 DEF Typed, Owned, OneSyncPerReplica, CancelWasAsked, Syncing
  <2>3. Locked'
    <3>1. Owing' \subseteq Owing /\ Past \subseteq Past' /\ \A i \in Owing' : job'[i].at = job[i].at
      BY <1>r, <2>w DEF Typed, Owing, Past, Syncing
    <3> QED
      BY <3>1, LockKept DEF Begin
  <2>4. HistoryTold'
    <3>1. \A i \in Jobs : inst'[job[i].at].row = inst[job[i].at].row
      BY <2>f, <1>r DEF Typed
    <3> QED
      BY <1>r, <2>w, <3>1, EntryFine DEF Begin, At, Typed, HistoryTold, Told
  <2> QED
    BY <2>1, <2>2, <2>3, <2>4
<1> QED
  BY <1>1, <1>2 DEF Begin

LEMMA CreateHistoryStep == ASSUME IInv, NEW j \in Jobs, CreateHistory(j), UNCHANGED env PROVE IInv'
<1> USE DEF IInv
<1>j. Syncing(j) /\ job[j].pc = "history"
  BY DEF CreateHistory, At, Syncing
<1>r. job[j] \in Job /\ job[j].at \in Replicas
  BY <1>j, RunFine
<1> DEFINE r == job[j].at
           w == [job[j] EXCEPT !.pc = "connect"]
<1>w. /\ w \in Job /\ CallFine(w) /\ job' = [job EXCEPT ![j] = w] /\ w.pc = "connect"
      /\ w.at = r /\ w.kind = job[j].kind /\ w.asked = job[j].asked /\ w.result = job[j].result
  BY <1>j, GotoRecord DEF CreateHistory
<1> HIDE DEF w
<1> DEFINE e == [status |-> "running", job |-> j]
           n == IF history' = history THEN 0 ELSE Len(history')
           f == [inst[r] EXCEPT !.row = n]
<1>e. e \in Entry /\ history \in Seq(Entry) /\ Len(history) \in Nat /\ DOMAIN history = 1 .. Len(history)
  BY LenProperties DEF Entry, Typed
<1>a. /\ Append(history, e) \in Seq(Entry) /\ Len(Append(history, e)) = Len(history) + 1
      /\ \A i \in 1 .. Len(history) : Append(history, e)[i] = history[i]
      /\ Append(history, e)[Len(history) + 1] = e
      /\ DOMAIN Append(history, e) = 1 .. Len(history) + 1
  BY <1>e, AppendProperties, LenProperties
<1>h. /\ inst' = [inst EXCEPT ![r].row = n]
      /\ (history' = history /\ env.lossy) \/ history' = Append(history, e)
  <2>1. CASE env.lossy /\ UNCHANGED history /\ inst' = [inst EXCEPT ![r].row = 0]
    BY <2>1
  <2>2. CASE history' = Append(history, e) /\ inst' = [inst EXCEPT ![r].row = Len(history')]
    <3>1. Len(history') = Len(history) + 1
      BY <2>2, <1>a
    <3>2. history' # history
      BY <3>1, <1>e
    <3> QED
      BY <3>2, <2>2
  <2> QED
    BY <2>1, <2>2 DEF CreateHistory
<1> HIDE DEF e
<1>l. /\ history' \in Seq(Entry) /\ Len(history') \in Nat /\ n \in 0 .. Len(history')
      /\ Len(history) <= Len(history') /\ DOMAIN history = 1 .. Len(history)
      /\ \A i \in 1 .. Len(history) : history'[i] = history[i]
      /\ history' # history =>
            /\ DOMAIN history' = 1 .. Len(history) + 1 /\ n = Len(history) + 1
            /\ history'[n] = e
  <2>1. CASE history' = history
    BY <2>1, <1>e
  <2>2. CASE history' # history
    BY <2>2, <1>a, <1>e, <1>h
  <2> QED
    BY <2>1, <2>2
<1>f. /\ inst' = [inst EXCEPT ![r] = f] /\ f.syncing = inst[r].syncing /\ f.cancel = inst[r].cancel
      /\ f.row = n
      /\ f \in [syncing : BOOLEAN, cancel : BOOLEAN, row : 0 .. Len(history')]
  <2>1. inst[r] \in [syncing : BOOLEAN, cancel : BOOLEAN, row : 0 .. Len(history)] /\ n \in 0 .. Len(history')
    BY <1>l, <1>r DEF Typed
  <2> HIDE DEF n
  <2> QED
    BY <2>1, <1>h, <1>r DEF Typed
<1> HIDE DEF n, f
<1>1. Typed'
  <2>1. inst \in [Replicas -> [syncing : BOOLEAN, cancel : BOOLEAN, row : 0 .. Len(history')]]
    BY <1>l DEF Typed
  <2> QED
    BY <2>1, <1>f, <1>r, <1>w, <1>l DEF CreateHistory, Typed
<1>2. Owned'
  <2>1. \A x \in Replicas : inst'[x].syncing = inst[x].syncing /\ inst'[x].cancel = inst[x].cancel
    BY <1>f, <1>r DEF Typed
  <2>2. \A i \in Jobs : job'[i].at = job[i].at /\ (Syncing(i)' <=> Syncing(i))
          /\ job'[i].asked = job[i].asked /\ job'[i].result = job[i].result
    BY <1>w, <1>j DEF Typed, Syncing
  <2>3. \A i \in Jobs : Syncing(i) => job[i].at \in Replicas
    BY RunFine
  <2> QED
    BY <2>1, <2>2, <2>3 DEF Owned, OneSyncPerReplica, CancelWasAsked
<1>3. Locked'
  <2>1. Owing' \subseteq Owing /\ Past \subseteq Past' /\ \A i \in Owing' : job'[i].at = job[i].at
    BY <1>j, <1>w DEF Typed, Owing, Past, Syncing
  <2> QED
    BY <2>1, LockKept DEF CreateHistory
<1>4. HistoryTold'
  <2> SUFFICES ASSUME ~env.lossy, NEW i \in DOMAIN history' PROVE Told(i)'
    BY DEF HistoryTold
  <2>1. CASE i \in DOMAIN history
    <3>1. history'[i] = history[i] /\ history[i].job \in Jobs /\ Told(i)
      BY <2>1, <1>l, EntryFine DEF HistoryTold
    <3>2. CASE history[i].job = j
      BY <3>1, <3>2, <1>j, <1>w DEF Told, At, Typed
    <3>3. CASE history[i].job # j
      <4> DEFINE k == history[i].job
      <4>1. job'[k] = job[k]
        BY <3>1, <3>3, <1>w DEF Typed
      <4>2. Syncing(k) => job[k].at # r /\ job[k].at \in Replicas /\ inst'[job[k].at] = inst[job[k].at]
        BY <3>1, <3>3, <1>j, <1>f, RunFine DEF Typed
      <4> QED
        BY <3>1, <4>1, <4>2 DEF Told, At, Syncing
    <3> QED
      BY <3>2, <3>3
  <2>2. CASE i \notin DOMAIN history
    <3>1. i = n /\ history'[i] = e
      BY <2>2, <1>l
    <3>2. e.job = j
      BY DEF e
    <3>3. inst'[job'[j].at].row = n /\ job'[j].pc = "connect"
      BY <1>f, <1>w, <1>r DEF Typed
    <3> QED
      BY <3>1, <3>2, <3>3 DEF Told
  <2> QED
    BY <2>1, <2>2
<1> QED
  BY <1>1, <1>2, <1>3, <1>4

\* An error takes a run to its end.
LEMMA ThrowStep ==
    ASSUME IInv, NEW j \in Jobs, job[j].pc \in {"connect", "work"}, Throw(j),
           UNCHANGED <<env, inst, lock, history>>
    PROVE  IInv'
<1> USE DEF IInv
<1>1. PICK again \in BOOLEAN :
        /\ again => job[j].kind = "scheduled"
        /\ job' = [job EXCEPT ![j].pc = "finalize", ![j].result = "failed", ![j].again = again]
  BY DEF Throw
<1> DEFINE w == [job[j] EXCEPT !.pc = "finalize", !.result = "failed", !.again = again]
<1>2. /\ w \in Job /\ CallFine(w) /\ job' = [job EXCEPT ![j] = w] /\ w.pc = "finalize"
      /\ w.at = job[j].at /\ w.kind = job[j].kind /\ w.asked = job[j].asked
      /\ w.result = "failed" /\ Syncing(j)
  BY <1>1 DEF Typed, Job, CallFine, Syncing
<1> HIDE DEF w
<1> QED
  BY <1>2, PlainStep

LEMMA ConnectStep == ASSUME IInv, NEW j \in Jobs, Connect(j), UNCHANGED env PROVE IInv'
<1>j. job[j].pc = "connect" /\ Syncing(j)
  BY DEF Connect, At, Syncing
<1>1. ASSUME Goto(j, "work") PROVE IInv'
  <2> DEFINE w == [job[j] EXCEPT !.pc = "work"]
  <2>w. /\ w \in Job /\ CallFine(w) /\ job' = [job EXCEPT ![j] = w] /\ w.pc = "work"
        /\ w.at = job[j].at /\ w.kind = job[j].kind /\ w.asked = job[j].asked
        /\ w.result = job[j].result
    BY <1>1, <1>j, GotoRecord DEF IInv
  <2> HIDE DEF w
  <2> QED
    BY <1>j, <2>w, PlainStep DEF IInv, Connect, Owned, CancelWasAsked
<1>2. ASSUME Throw(j) PROVE IInv'
  BY <1>j, <1>2, ThrowStep DEF Connect
<1> QED
  BY <1>1, <1>2 DEF Connect

LEMMA WorkStep == ASSUME IInv, NEW j \in Jobs, Work(j), UNCHANGED env PROVE IInv'
<1>j. job[j].pc = "work" /\ Syncing(j)
  BY DEF Work, At, Syncing
<1>1. ASSUME Throw(j) PROVE IInv'
  BY <1>j, <1>1, ThrowStep DEF Work
<1>2. ASSUME job[j].kind = "dry", Goto(j, "close") PROVE IInv'
  <2> DEFINE w == [job[j] EXCEPT !.pc = "close"]
  <2>w. /\ w \in Job /\ CallFine(w) /\ job' = [job EXCEPT ![j] = w] /\ w.pc = "close"
        /\ w.at = job[j].at /\ w.kind = job[j].kind /\ w.asked = job[j].asked
        /\ w.result = job[j].result
    BY <1>2, <1>j, GotoRecord DEF IInv
  <2> HIDE DEF w
  <2> QED
    BY <1>2, <1>j, <2>w, PlainStep DEF IInv, Work, Owned, CancelWasAsked
<1>3. ASSUME job' = [job EXCEPT ![j].pc = "finalize",
                ![j].result = IF inst[job[j].at].cancel THEN "cancelled" ELSE "completed"]
      PROVE  IInv'
  <2> DEFINE told == IF inst[job[j].at].cancel THEN "cancelled" ELSE "completed"
             w == [job[j] EXCEPT !.pc = "finalize", !.result = told]
  <2>1. told \in {"cancelled", "completed"} /\ (told = "cancelled" => job[j].asked)
    BY <1>j DEF IInv, Owned
  <2> HIDE DEF told
  <2>w. /\ w \in Job /\ CallFine(w) /\ w.pc = "finalize"
        /\ w.at = job[j].at /\ w.kind = job[j].kind /\ w.asked = job[j].asked
        /\ w.result = told
    BY <2>1, <1>j DEF IInv, Typed, Job, CallFine
  <2>2. job' = [job EXCEPT ![j] = w]
    BY <1>3, <1>j DEF told, IInv, Typed, Job
  <2> HIDE DEF w
  <2> QED
    BY <1>j, <2>1, <2>2, <2>w, PlainStep DEF Work
<1> QED
  BY <1>1, <1>2, <1>3 DEF Work

LEMMA FinalizeStep == ASSUME IInv, NEW j \in Jobs, Finalize(j), UNCHANGED env PROVE IInv'
<1> USE DEF IInv
<1>j. Syncing(j) /\ job[j].pc = "finalize"
  BY DEF Finalize, At, Syncing
<1>r. job[j] \in Job /\ job[j].at \in Replicas
  BY <1>j, RunFine
<1> DEFINE r == job[j].at
           row == inst[r].row
           w == [job[j] EXCEPT !.pc = "close"]
<1>w. /\ w \in Job /\ CallFine(w) /\ job' = [job EXCEPT ![j] = w] /\ w.pc = "close"
      /\ w.at = r /\ w.kind = job[j].kind /\ w.asked = job[j].asked /\ w.result = job[j].result
  BY <1>j, GotoRecord DEF Finalize
<1> HIDE DEF w
<1>h. /\ history \in Seq(Entry) /\ DOMAIN history = 1 .. Len(history) /\ row \in 0 .. Len(history)
      /\ Len(history) \in Nat
      /\ job[j].result \in {"failed", "cancelled", "completed"}
  BY <1>r, <1>j, LenProperties DEF Typed, CallFine, Job
<1>l. /\ history' \in Seq(Entry) /\ Len(history') = Len(history)
      /\ DOMAIN history' = DOMAIN history
      /\ \A i \in DOMAIN history : i # row => history'[i] = history[i]
      /\ row = 0 \/ env.lossy \/ history'[row].status # "running"
  <2>1. CASE row # 0 /\ history' = [history EXCEPT ![row].status = job[j].result]
    <3> DEFINE e == [history[row] EXCEPT !.status = job[j].result]
    <3>1. row \in 1 .. Len(history) /\ history[row] \in Entry
      BY <2>1, <1>h, EntryFine
    <3>2. e \in Entry /\ e.status # "running" /\ history' = [history EXCEPT ![row] = e]
      BY <2>1, <3>1, <1>h DEF Entry
    <3> HIDE DEF e
    <3>3. /\ history' \in Seq(Entry) /\ Len(history') = Len(history)
          /\ \A i \in 1 .. Len(history) : history'[i] = IF i = row THEN e ELSE history[i]
      BY <3>1, <3>2, <1>h, ExceptSeq
    <3>4. DOMAIN history' = DOMAIN history
      BY <3>2
    <3> QED
      BY <3>1, <3>2, <3>3, <3>4, <1>h
  <2>2. CASE (row = 0 \/ env.lossy) /\ UNCHANGED history
    BY <2>2, <1>h
  <2> QED
    BY <2>1, <2>2 DEF Finalize
<1>1. Typed'
  BY <1>l, <1>w, <1>r DEF Finalize, Typed
<1>2. Owned'
  BY <1>j, <1>w DEF Finalize, Typed, Owned, OneSyncPerReplica, CancelWasAsked, Syncing
<1>3. Locked'
  <2>1. Owing' \subseteq Owing /\ Past \subseteq Past' /\ \A i \in Owing' : job'[i].at = job[i].at
    BY <1>j, <1>w DEF Typed, Owing, Past, Syncing
  <2> QED
    BY <2>1, LockKept DEF Finalize
<1>4. HistoryTold'
  <2> SUFFICES ASSUME ~env.lossy, NEW i \in DOMAIN history', history'[i].status = "running"
               PROVE  Told(i)'
    BY DEF HistoryTold, Finalize, Told
  <2>1. i # row /\ history'[i] = history[i] /\ i \in DOMAIN history
    BY <1>l, <1>h
  <2>2. Told(i) /\ history[i].job \in Jobs
    BY <2>1, EntryFine DEF HistoryTold
  <2>3. history[i].job = j => job[j].kind = "dry"
    BY <2>1, <2>2, <1>j DEF Told, At
  <2> QED
    BY <2>1, <2>2, <2>3, <1>w DEF Finalize, Told, At, Typed
<1> QED
  BY <1>1, <1>2, <1>3, <1>4

\* The fields of an instance whose run has ended.
LEMMA ClosedFields ==
    ASSUME NEW n \in Nat, NEW x \in [syncing : BOOLEAN, cancel : BOOLEAN, row : 0 .. n]
    PROVE  [x EXCEPT !.syncing = FALSE, !.row = 0]
               \in [syncing : BOOLEAN, cancel : BOOLEAN, row : 0 .. n]
<1>1. 0 \in 0 .. n
  OBVIOUS
<1> QED
  BY <1>1

LEMMA CloseStep == ASSUME IInv, NEW j \in Jobs, Close(j), UNCHANGED env PROVE IInv'
<1> USE DEF IInv
<1>j. Syncing(j) /\ job[j].pc = "close"
  BY DEF Close, At, Syncing
<1>r. job[j] \in Job /\ job[j].at \in Replicas
  BY <1>j, RunFine
<1> DEFINE r == job[j].at
           f == [inst[r] EXCEPT !.syncing = FALSE, !.row = 0]
<1>1. PICK pc \in {"sleep", "unlock", "over"} :
        /\ job' = [job EXCEPT ![j].again = FALSE, ![j].pc = pc]
        /\ pc = "sleep" => job[j].again /\ job[j].att < MaxAttempts
        /\ pc = "unlock" => job[j].kind = "scheduled"
  BY DEF Close, After
<1> DEFINE w == [job[j] EXCEPT !.again = FALSE, !.pc = pc]
<1>k. job[j].again => job[j].kind = "scheduled"
  BY DEF Typed, CallFine
<1>w. /\ w \in Job /\ CallFine(w) /\ job' = [job EXCEPT ![j] = w] /\ w.pc = pc
      /\ w.at = r /\ w.kind = job[j].kind /\ w.asked = job[j].asked /\ w.result = job[j].result
  <2>1. /\ w \in Job /\ w.pc = pc /\ w.at = r /\ w.att = job[j].att /\ w.kind = job[j].kind
        /\ w.asked = job[j].asked /\ w.result = job[j].result /\ w.again = FALSE
    BY <1>r DEF Job
  <2>2. CallFine(w)
    BY <2>1, <1>1, <1>k, <1>r DEF CallFine
  <2>3. job' = [job EXCEPT ![j] = w]
    BY <1>1, <1>r DEF Typed, Job
  <2> QED
    BY <2>1, <2>2, <2>3
<1>f. /\ inst' = [inst EXCEPT ![r] = f]
      /\ f \in [syncing : BOOLEAN, cancel : BOOLEAN, row : 0 .. Len(history)]
  <2>1. /\ inst[r] \in [syncing : BOOLEAN, cancel : BOOLEAN, row : 0 .. Len(history)]
        /\ Len(history) \in Nat
    BY <1>r, LenProperties DEF Typed
  <2>2. inst' = [inst EXCEPT ![r] = f]
    BY <2>1, <1>r DEF Close, Typed
  <2>3. f \in [syncing : BOOLEAN, cancel : BOOLEAN, row : 0 .. Len(history)]
    BY <2>1, ClosedFields
  <2> QED
    BY <2>2, <2>3
<1>u. UNCHANGED <<env, lock, history>>
  BY DEF Close
<1> HIDE DEF w, f
<1>2. Typed'
  BY <1>w, <1>f, <1>r, <1>u DEF Typed
<1>o. /\ ~Syncing(j)'
      /\ \A i \in Jobs \ {j} : Syncing(i) => job[i].at # r /\ job[i].at \in Replicas
      /\ \A i \in Jobs \ {j} : job'[i] = job[i] /\ (Syncing(i)' <=> Syncing(i))
      /\ \A x \in Replicas \ {r} : inst'[x] = inst[x]
  BY <1>w, <1>f, <1>j, RunFine DEF Typed, Syncing
<1>3. Owned'
  BY <1>w, <1>o DEF Typed, Owned, OneSyncPerReplica, CancelWasAsked
<1>4. Locked'
  <2>1. Owing' \subseteq Owing /\ Past \subseteq Past' /\ \A i \in Owing' : job'[i].at = job[i].at
    BY <1>j, <1>w DEF Typed, Owing, Past, Syncing
  <2> QED
    BY <2>1, LockKept DEF Close
<1>5. HistoryTold'
  <2> SUFFICES ASSUME ~env.lossy, NEW i \in DOMAIN history, history[i].status = "running"
               PROVE  Told(i)'
    BY DEF HistoryTold, Close, Told
  <2>1. Told(i) /\ history[i].job \in Jobs
    BY EntryFine DEF HistoryTold
  <2>2. CASE history[i].job = j
    BY <2>1, <2>2, <1>j, <1>w, <1>u DEF Told, At, Typed
  <2>3. CASE history[i].job # j
    BY <2>1, <2>3, <1>o, <1>u DEF Told, At, Syncing
  <2> QED
    BY <2>2, <2>3
<1> QED
  BY <1>2, <1>3, <1>4, <1>5

-----------------------------------------------------------------------------
(* The endpoint that cancels, and instances that die                         *)

LEMMA CancelStep == ASSUME IInv, NEW r \in Replicas, CancelSync(r), UNCHANGED env PROVE IInv'
<1> USE DEF IInv
<1> DEFINE f == [inst[r] EXCEPT !.cancel = TRUE]
<1>u. UNCHANGED <<env, lock, history>>
  BY DEF CancelSync
<1>f. /\ inst' = [inst EXCEPT ![r] = f] /\ f.syncing = inst[r].syncing /\ f.row = inst[r].row
      /\ f \in [syncing : BOOLEAN, cancel : BOOLEAN, row : 0 .. Len(history)]
  BY DEF CancelSync, Typed
<1>j. /\ job' \in [Jobs -> Job]
      /\ \A i \in Jobs :
            /\ job'[i].pc = job[i].pc /\ job'[i].at = job[i].at /\ job'[i].kind = job[i].kind
            /\ job'[i].result = job[i].result /\ CallFine(job'[i])
            /\ job[i].asked => job'[i].asked
            /\ Syncing(i) /\ job[i].at = r => job'[i].asked
  <2>1. ASSUME NEW q \in Job
        PROVE  LET x == [q EXCEPT !.asked = TRUE]
               IN  /\ x \in Job /\ x.pc = q.pc /\ x.at = q.at /\ x.kind = q.kind
                   /\ x.result = q.result /\ x.asked /\ (CallFine(q) => CallFine(x))
    BY DEF Job, CallFine
  <2>2. job \in [Jobs -> Job] /\ \A i \in Jobs : CallFine(job[i])
    BY DEF Typed
  <2>3. ASSUME NEW i \in Jobs
        PROVE  job'[i] = IF Syncing(i) /\ job[i].at = r THEN [job[i] EXCEPT !.asked = TRUE] ELSE job[i]
    BY DEF CancelSync
  <2>4. job' = [i \in Jobs |-> job'[i]]
    BY DEF CancelSync
  <2>5. ASSUME NEW i \in Jobs
        PROVE  /\ job'[i] \in Job
               /\ job'[i].pc = job[i].pc /\ job'[i].at = job[i].at /\ job'[i].kind = job[i].kind
               /\ job'[i].result = job[i].result /\ CallFine(job'[i])
               /\ job[i].asked => job'[i].asked
               /\ Syncing(i) /\ job[i].at = r => job'[i].asked
    <3>1. CASE Syncing(i) /\ job[i].at = r
      <4>1. job[i] \in Job /\ CallFine(job[i]) /\ job'[i] = [job[i] EXCEPT !.asked = TRUE]
        BY <3>1, <2>2, <2>3
      <4> QED
        BY <4>1, <2>1
    <3>2. CASE ~(Syncing(i) /\ job[i].at = r)
      BY <3>2, <2>2, <2>3
    <3> QED
      BY <3>1, <3>2
  <2> QED
    BY <2>4, <2>5
<1> HIDE DEF f
<1>1. Typed'
  BY <1>f, <1>j, <1>u DEF Typed
<1>s. \A i \in Jobs : Syncing(i)' <=> Syncing(i)
  BY <1>j DEF Syncing
<1>x. \A i \in Jobs : Syncing(i) =>
        /\ inst'[job[i].at].syncing = inst[job[i].at].syncing
        /\ inst'[job[i].at].row = inst[job[i].at].row
        /\ inst'[job[i].at].cancel => job[i].at = r \/ inst[job[i].at].cancel
  BY <1>f, RunFine DEF Typed
<1>2. Owned'
  BY <1>j, <1>s, <1>x DEF Owned, OneSyncPerReplica, CancelWasAsked
<1>3. Locked'
  <2>1. Owing' \subseteq Owing /\ Past \subseteq Past' /\ \A i \in Owing' : job'[i].at = job[i].at
    BY <1>j, <1>s DEF Owing, Past
  <2> QED
    BY <2>1, <1>u, LockKept
<1>4. HistoryTold'
  BY <1>j, <1>s, <1>x, <1>u, EntryFine DEF HistoryTold, Told, At, Syncing
<1> QED
  BY <1>1, <1>2, <1>3, <1>4

LEMMA CrashStep == ASSUME IInv, NEW r \in Replicas, Crash(r), UNCHANGED env PROVE IInv'
<1> USE DEF IInv
<1>u. UNCHANGED <<env, history>>
  BY DEF Crash
<1>f. /\ inst' = [inst EXCEPT ![r] = Fresh]
      /\ Fresh \in [syncing : BOOLEAN, cancel : BOOLEAN, row : 0 .. Len(history)]
  <2>1. Len(history) \in Nat
    BY LenProperties DEF Typed
  <2> QED
    BY <2>1 DEF Crash, Fresh
<1>l. /\ lock' \in [Sessions -> Nat]
      /\ \A s \in Sessions :
            lock'[s] = IF s[1] = r /\ env.sessions # "shared" THEN 0 ELSE lock[s]
  BY DEF Crash, Typed
<1>j. /\ job' \in [Jobs -> Job]
      /\ \A i \in Jobs :
            /\ job'[i].at = job[i].at /\ job'[i].kind = job[i].kind /\ CallFine(job'[i])
            /\ job'[i].result = job[i].result /\ job'[i].asked = job[i].asked
            /\ job[i].at = r /\ job[i].pc # "over" => job'[i].pc = "dead"
            /\ ~(job[i].at = r /\ job[i].pc # "over") => job'[i] = job[i]
  <2>1. ASSUME NEW i \in Jobs
        PROVE  job'[i] = IF job[i].at = r /\ job[i].pc # "over"
                         THEN [job[i] EXCEPT !.pc = "dead"] ELSE job[i]
    BY DEF Crash
  <2>2. job' = [i \in Jobs |-> job'[i]]
    BY DEF Crash
  <2>3. ASSUME NEW i \in Jobs
        PROVE  /\ job'[i] \in Job
               /\ job'[i].at = job[i].at /\ job'[i].kind = job[i].kind /\ CallFine(job'[i])
               /\ job'[i].result = job[i].result /\ job'[i].asked = job[i].asked
               /\ job[i].at = r /\ job[i].pc # "over" => job'[i].pc = "dead"
               /\ ~(job[i].at = r /\ job[i].pc # "over") => job'[i] = job[i]
    <3>1. job[i] \in Job /\ CallFine(job[i])
      BY DEF Typed
    <3>2. CASE job[i].at = r /\ job[i].pc # "over"
      BY <2>1, <3>1, <3>2 DEF Job, CallFine
    <3>3. CASE ~(job[i].at = r /\ job[i].pc # "over")
      BY <2>1, <3>1, <3>3
    <3> QED
      BY <3>2, <3>3
  <2> QED
    BY <2>2, <2>3
<1>1. Typed'
  BY <1>f, <1>l, <1>j, <1>u DEF Typed
\* The runs that go on are those of the other instances, whose fields are as they were.
<1>s. \A i \in Jobs : Syncing(i)' =>
        /\ Syncing(i) /\ job'[i] = job[i]
        /\ job[i].at # r /\ inst'[job[i].at] = inst[job[i].at]
  <2> SUFFICES ASSUME NEW i \in Jobs, Syncing(i)'
               PROVE  /\ Syncing(i) /\ job'[i] = job[i]
                      /\ job[i].at # r /\ inst'[job[i].at] = inst[job[i].at]
    OBVIOUS
  <2>1. job[i].at # r /\ job'[i] = job[i] /\ Syncing(i)
    BY <1>j DEF Syncing
  <2> QED
    BY <2>1, <1>f, RunFine DEF Typed
<1>2. Owned'
  BY <1>j, <1>s DEF Owned, OneSyncPerReplica, CancelWasAsked
<1>3. Locked'
  <2>1. /\ Owing' \subseteq Owing /\ Past \subseteq Past' /\ IsFiniteSet(Past')
        /\ \A i \in Owing' : job'[i].at = job[i].at /\ job[i].at # r /\ job[i].at \in Replicas
    <3>1. Owing' \subseteq Owing /\ \A i \in Owing' : job[i].at # r /\ job[i].at \in Replicas
      BY <1>j, <1>s DEF Owing, Typed, CallFine, Syncing
    <3>2. Past \subseteq Past'
      BY <1>j DEF Past
    <3> QED
      BY <3>1, <3>2, <1>j, CruiseSyncAssumption, FS_Subset DEF Past, Owing
  <2>2. /\ Cardinality(Owing') <= Cardinality(Owing) /\ Cardinality(Past) <= Cardinality(Past')
        /\ Cardinality(Owing) \in Nat /\ Cardinality(Owing') \in Nat
        /\ Cardinality(Past) \in Nat /\ Cardinality(Past') \in Nat
    BY <2>1, OwingFinite, FS_Subset, FS_CardinalityType
  <2>3. \A s, t \in Sessions : lock'[s] > 0 /\ lock'[t] > 0 => s = t
    BY <1>l DEF Locked
  <2>4. \A s \in Sessions : lock'[s] <= Cardinality(Past')
    BY <1>l, <2>2 DEF Locked, Typed
  <2>5. ASSUME env.sessions = "kept", NEW i \in Owing'
        PROVE  \E c \in Conns : lock'[<<job'[i].at, c>>] >= Cardinality(Owing')
    <3>1. PICK c \in Conns : lock[<<job[i].at, c>>] >= Cardinality(Owing)
      BY <2>1, <2>5 DEF Locked
    <3>2. <<job[i].at, c>> \in Sessions /\ lock[<<job[i].at, c>>] \in Nat
      BY <2>1 DEF Typed, Sessions
    <3>3. lock'[<<job[i].at, c>>] = lock[<<job[i].at, c>>]
      BY <1>l, <2>1, <3>2
    <3> QED
      BY <2>1, <2>2, <3>1, <3>2, <3>3
  <2> QED
    BY <1>u, <2>3, <2>4, <2>5 DEF Locked
<1>4. HistoryTold'
  <2> SUFFICES ASSUME ~env.lossy, NEW i \in DOMAIN history PROVE Told(i)'
    BY <1>u DEF HistoryTold
  <2>1. Told(i) /\ history[i].job \in Jobs
    BY EntryFine DEF HistoryTold
  <2>k. PICK k \in Jobs : k = history[i].job
    BY <2>1
  <2>2. CASE job[k].at = r /\ job[k].pc # "over"
    BY <2>k, <2>2, <1>j, <1>u DEF Told, At
  <2>3. CASE ~(job[k].at = r /\ job[k].pc # "over")
    <3>1. job'[k] = job[k] /\ (Syncing(k) => Syncing(k)')
      BY <2>3, <1>j DEF Syncing
    <3>2. Syncing(k) => inst'[job[k].at] = inst[job[k].at]
      BY <3>1, <1>s
    <3> QED
      BY <2>1, <2>k, <3>1, <3>2, <1>u DEF Told, At, Syncing
  <2> QED
    BY <2>2, <2>3
<1> QED
  BY <1>1, <1>2, <1>3, <1>4

LEMMA SessionEndsStep ==
    ASSUME IInv, NEW s \in Sessions, SessionEnds(s), UNCHANGED env
    PROVE  IInv'
<1> USE DEF IInv
<1>1. /\ env.sessions # "kept" /\ UNCHANGED <<inst, job, history>>
      /\ lock' \in [Sessions -> Nat] /\ Owing' = Owing /\ Past' = Past
      /\ \A t \in Sessions : lock'[t] \in {0, lock[t]}
  BY DEF SessionEnds, Typed, Owing, Past, Syncing
<1>2. Typed' /\ Owned' /\ HistoryTold'
  BY <1>1 DEF Typed, Owned, HistoryTold, Told, At, Syncing, OneSyncPerReplica, CancelWasAsked
<1>3. Locked'
  BY <1>1, OwingFinite DEF Locked
<1> QED
  BY <1>2, <1>3

-----------------------------------------------------------------------------
(* The theorems                                                              *)

LEMMA NextIInv == IInv /\ [Next]_vars => IInv'
<1> SUFFICES ASSUME IInv, [Next]_vars PROVE IInv'
  OBVIOUS
<1>1. ASSUME NEW j \in Jobs, Call(j) \/ Step(j), UNCHANGED env PROVE IInv'
  BY <1>1, CallStep, LockStep, WakeStep, UnlockStep, BeginStep, CreateHistoryStep, ConnectStep,
     WorkStep, FinalizeStep, CloseStep DEF Step
<1>2. ASSUME NEW r \in Replicas, CancelSync(r) \/ Crash(r), UNCHANGED env PROVE IInv'
  BY <1>2, CancelStep, CrashStep
<1>4. ASSUME NEW s \in DOMAIN lock, SessionEnds(s), UNCHANGED env PROVE IInv'
  BY <1>4, SessionEndsStep DEF IInv, Typed
<1>3. CASE UNCHANGED vars
  <2>1. Owing' = Owing /\ Past' = Past
    BY <1>3 DEF vars, Owing, Past, Syncing
  <2>2. Typed' /\ Owned' /\ HistoryTold'
    BY <1>3 DEF IInv, vars, Typed, Owned, HistoryTold, Told, At, Syncing, OneSyncPerReplica,
                CancelWasAsked
  <2>3. Locked'
    BY <1>3, <2>1 DEF IInv, vars, Locked
  <2> QED
    BY <2>2, <2>3 DEF IInv
<1> QED
  BY <1>1, <1>2, <1>3, <1>4 DEF Next

\* The fields of an instance belong to one run at a time, a run that is recorded as
\* cancelled was cancelled by someone while it ran, and the lock is never nested deeper
\* than there are calls (syncInProgress and cancelRequested of ImportOrchestratorService).
THEOREM InstancesSafe == Spec => []InstanceSafe
<1>1. IInv => InstanceSafe
  <2> SUFFICES ASSUME IInv PROVE TypeOK
    BY DEF InstanceSafe, IInv, Owned
  <2>1. Cardinality(Past) <= Cardinality(Jobs) /\ Cardinality(Jobs) \in Nat /\ Cardinality(Past) \in Nat
    BY CruiseSyncAssumption, OwingFinite, FS_Subset, FS_CardinalityType
  <2>2. lock \in [Replicas \X Conns -> 0 .. Cardinality(Jobs)]
    BY <2>1 DEF IInv, Typed, Locked, Sessions
  <2>3. \A i \in DOMAIN history : history[i] \in Entry
    BY EntryFine DEF IInv
  <2>4. \A j \in Jobs : job[j] \in Job
    BY DEF IInv, Typed
  <2> QED
    BY <2>2, <2>3, <2>4 DEF TypeOK, IInv, Typed, Entry, Job
<1> QED
  BY InitIInv, NextIInv, <1>1, PTL DEF Spec

\* As long as every pooled connection keeps its session, the cron jobs of the replicas never
\* import at the same time: every one that imports owes an unlock, and the one session with
\* the lock is on its instance, where another run cannot be (pg_try_advisory_lock and
\* syncInProgress together).  Nothing is said of a session that ends or is shared.
THEOREM CronJobsAlone == Spec => []ScheduledOnce
<1>1. IInv => ScheduledOnce
  <2> SUFFICES ASSUME IInv, NEW i \in Jobs, NEW j \in Jobs, Syncing(i), Syncing(j),
                      job[i].kind = "scheduled", job[j].kind = "scheduled",
                      env.sessions = "kept"
               PROVE  i = j
    BY DEF ScheduledOnce, OneImport
  <2>1. i \in Owing /\ j \in Owing
    BY DEF Owing
  <2>2. Cardinality(Owing) \in Nat /\ Cardinality(Owing) # 0
    BY <2>1, OwingFinite, FS_EmptySet
  <2>3. PICK c \in Conns, d \in Conns :
          /\ lock[<<job[i].at, c>>] >= Cardinality(Owing)
          /\ lock[<<job[j].at, d>>] >= Cardinality(Owing)
    BY <2>1 DEF IInv, Locked
  <2>4. /\ <<job[i].at, c>> \in Sessions /\ lock[<<job[i].at, c>>] \in Nat
        /\ <<job[j].at, d>> \in Sessions /\ lock[<<job[j].at, d>>] \in Nat
    BY RunFine DEF IInv, Typed, Sessions
  <2>5. <<job[i].at, c>> = <<job[j].at, d>>
    <3>1. lock[<<job[i].at, c>>] > 0 /\ lock[<<job[j].at, d>>] > 0
      BY <2>2, <2>3, <2>4
    <3> QED
      BY <2>4, <3>1 DEF IInv, Locked
  <2> QED
    BY <2>5 DEF IInv, Owned, OneSyncPerReplica
<1> QED
  BY InitIInv, NextIInv, <1>1, PTL DEF Spec

\* While statements do not fail, the history says "running" only of a run that is under way
\* and about to write its row, of one whose instance died, or of a dry run
\* (createSyncHistoryRecord and finalizeSyncHistory around the try of runSync).
THEOREM HistoryIsClosed == Spec => []HistoryCloses
<1>1. IInv => HistoryCloses
  BY DEF IInv, HistoryTold, Told, HistoryCloses, Syncing, At
<1> QED
  BY InitIInv, NextIInv, <1>1, PTL DEF Spec
=============================================================================
