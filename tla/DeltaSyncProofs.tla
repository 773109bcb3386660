---------------------------- MODULE DeltaSyncProofs ----------------------------
(***************************************************************************)
(* Theorems about DeltaSync, for any files, any number of workers and runs,   *)
(* any versions: the workers share the stream, a skipped file is imported as  *)
(* the server has it, and a run without a failure has caught up.              *)
(***************************************************************************)
EXTENDS DeltaSync, FiniteSetTheorems, SequenceTheorems, TLAPS

Rows == [stat : 0 .. MaxVersion, status : {"none", "success", "failed"}]

RunRecord ==
    [pc : {"idle", "listing", "running", "over"}, delta : BOOLEAN, known : [Files -> Rows],
     listed : [Files -> 0 .. MaxVersion], todo : SUBSET Files, done : BOOLEAN,
     broken : BOOLEAN, queue : Seq(Workers), cancel : BOOLEAN, found : Nat,
     processed : Nat, skipped : Nat, failed : Nat]

Points == {"loop", "queued", "reading", "check", "download", "import", "success", "fail", "ended"}

WorkerRecord == [pc : Points, f : Files \cup {NoFile}, v : 0 .. MaxVersion]

\* The points at which a file counts as found and as nothing else, and those at which a
\* worker has one.
Holding == {"check", "download", "import"}
Busy == Holding \cup {"success", "fail"}

Holders(ws) == {w \in Workers : ws[w].pc \in Holding}

Typed ==
    /\ ftp \in [Files -> Versions] /\ content \in [Files -> 0 .. MaxVersion]
    /\ tracked \in [Files -> Rows]
    /\ run \in [Runs -> RunRecord]
    /\ worker \in [Runs -> [Workers -> WorkerRecord]]

\* The queue of run r is made of the workers that wait for their turn or read, each once, and
\* one that reads is the first.
Queued(q, ws) ==
    /\ \A i, j \in 1 .. Len(q) : q[i] = q[j] => i = j
    /\ \A i \in 1 .. Len(q) : ws[q[i]].pc \in {"queued", "reading"}
    /\ \A w \in Workers : ws[w].pc \in {"queued", "reading"} => \E i \in 1 .. Len(q) : q[i] = w
    /\ \A w \in Workers : ws[w].pc = "reading" => q[1] = w

Balanced(r, ws) == r.found = r.processed + r.skipped + r.failed + Cardinality(Holders(ws))

\* A file is in the hands of one worker, and no more in the stream.
Handed(r, ws) ==
    /\ \A w \in Workers : ws[w].pc \in Busy => ws[w].f \in Files /\ ws[w].f \notin r.todo
    /\ \A w, x \in Workers :
        ws[w].pc \in Busy /\ ws[x].pc \in Busy /\ ws[w].f = ws[x].f => w = x

\* What the state of the run tells of its workers.
Phased(r, ws) ==
    /\ r.pc \in {"idle", "listing"} => r.todo = Files /\ \A w \in Workers : ws[w].pc = "loop"
    /\ r.pc = "over" => r.todo = {} /\ \A w \in Workers : ws[w].pc = "ended"
    /\ \A w \in Workers : ws[w].pc = "ended" => r.done \/ r.cancel
    /\ r.done /\ ~r.broken /\ ~r.cancel => r.todo = {}
    /\ \A w \in Workers : ws[w].pc = "fail" => r.failed > 0

RunFine(r, ws) == Queued(r.queue, ws) /\ Balanced(r, ws) /\ Handed(r, ws) /\ Phased(r, ws)

\* Nothing a run knows of a file is newer than the file.
Past(r, ws) ==
    /\ \A f \in Files : r.listed[f] <= ftp[f]
    /\ \A w \in Workers : ws[w].pc = "import" =>
        r.listed[ws[w].f] <= ws[w].v /\ ws[w].v <= ftp[ws[w].f]

Old == \A f \in Files : content[f] <= ftp[f]

\* A file that a row tells was imported is imported at least as the row has it.
Imported(rows, c) == \A f \in Files : rows[f].status = "success" => rows[f].stat <= c[f]

\* What a run has still to import, when the imported versions are c.
CaughtUp(r, ws, c) ==
    /\ Imported(r.known, c)
    /\ \A w \in Workers :
        /\ ws[w].pc = "import" => c[ws[w].f] <= ws[w].v
        /\ ws[w].pc = "success" => r.listed[ws[w].f] <= c[ws[w].f]
    /\ Workers # {} /\ r.pc # "idle" /\ r.failed = 0 /\ ~r.cancel /\ ~r.broken =>
        \A f \in Files \ TooBig :
            \/ f \in r.todo
            \/ \E w \in Workers : ws[w].pc \in Holding /\ ws[w].f = f
            \/ r.pc # "listing" /\ r.listed[f] <= c[f]

Active(r) == r.pc \in {"listing", "running"}

\* Runs that do not overlap only ever add to what is imported.
Apart ==
    /\ \A s, t \in Runs : Active(run[s]) /\ Active(run[t]) => s = t
    /\ Imported(tracked, content)
    /\ \A s \in Runs : CaughtUp(run[s], worker[s], content)

IInv ==
    /\ Typed
    /\ \A s \in Runs : RunFine(run[s], worker[s]) /\ Past(run[s], worker[s])
    /\ Old
    /\ Isolated => Apart

-----------------------------------------------------------------------------
(* The queue and the counters                                                *)

LEMMA QueueFacts ==
    ASSUME NEW q \in Seq(Workers)
    PROVE  Len(q) \in Nat /\ \A i \in 1 .. Len(q) : q[i] \in Workers
  BY LenProperties, ElementOfSeq

\* A worker that neither begins nor ceases to wait or to read.
LEMMA QueuedSame ==
    ASSUME NEW q \in Seq(Workers), NEW ws, NEW us, Queued(q, ws), NEW w \in Workers,
           \A y \in Workers \ {w} : us[y] = ws[y],
           ws[w].pc \notin {"queued", "reading"}, us[w].pc \notin {"queued", "reading"}
    PROVE  Queued(q, us)
<1>1. \A i \in 1 .. Len(q) : q[i] \in Workers /\ q[i] # w
  BY QueueFacts DEF Queued
<1> QED
  BY <1>1 DEF Queued

\* The worker at the end of the queue, ...
LEMMA QueuedAppend ==
    ASSUME NEW q \in Seq(Workers), NEW ws, NEW us, Queued(q, ws), NEW w \in Workers,
           \A y \in Workers \ {w} : us[y] = ws[y],
           ws[w].pc \notin {"queued", "reading"}, us[w].pc = "queued"
    PROVE  Append(q, w) \in Seq(Workers) /\ Queued(Append(q, w), us)
<1> DEFINE p == Append(q, w)
<1>1. /\ p \in Seq(Workers) /\ Len(p) = Len(q) + 1 /\ Len(q) \in Nat
      /\ \A i \in 1 .. Len(q) : p[i] = q[i]
      /\ p[Len(q) + 1] = w
  BY AppendProperties, QueueFacts
<1>2. \A i \in 1 .. Len(q) : q[i] \in Workers /\ q[i] # w
  BY QueueFacts DEF Queued
<1> HIDE DEF p
<1>3. \A i \in 1 .. Len(p) : i = Len(q) + 1 \/ i \in 1 .. Len(q)
  BY <1>1
<1>4. \A i, j \in 1 .. Len(p) : p[i] = p[j] => i = j
  BY <1>1, <1>2, <1>3 DEF Queued
<1>5. \A i \in 1 .. Len(p) : us[p[i]].pc \in {"queued", "reading"}
  BY <1>1, <1>2, <1>3 DEF Queued
<1>6. ASSUME NEW y \in Workers, us[y].pc \in {"queued", "reading"}
      PROVE  \E i \in 1 .. Len(p) : p[i] = y
  <2>1. CASE y = w
    <3>1. Len(q) + 1 \in 1 .. Len(p)
      BY <1>1
    <3> QED
      BY <2>1, <3>1, <1>1
  <2>2. CASE y # w
    <3>1. PICK i \in 1 .. Len(q) : q[i] = y
      BY <2>2, <1>6 DEF Queued
    <3> QED
      BY <3>1, <1>1
  <2> QED
    BY <2>1, <2>2
<1>7. ASSUME NEW y \in Workers, us[y].pc = "reading" PROVE p[1] = y
  <2>1. y # w /\ ws[y].pc = "reading"
    BY <1>7
  <2>2. q[1] = y /\ \E i \in 1 .. Len(q) : q[i] = y
    BY <2>1 DEF Queued
  <2>3. 1 \in 1 .. Len(q)
    BY <2>2, <1>1
  <2> QED
    BY <2>2, <2>3, <1>1
<1> QED
  BY <1>1, <1>4, <1>5, <1>6, <1>7 DEF Queued, p

\* ... the first of it, which begins to read, ...
LEMMA QueuedReads ==
    ASSUME NEW q \in Seq(Workers), NEW ws, NEW us, Queued(q, ws), NEW w \in Workers,
           \A y \in Workers \ {w} : us[y] = ws[y],
           ws[w].pc = "queued", us[w].pc = "reading", q[1] = w
    PROVE  Queued(q, us)
<1>1. \A i \in 1 .. Len(q) : q[i] \in Workers
  BY QueueFacts
<1> QED
  BY <1>1 DEF Queued

\* ... or leaves.
LEMMA QueuedTail ==
    ASSUME NEW q \in Seq(Workers), NEW ws, NEW us, Queued(q, ws), NEW w \in Workers,
           \A y \in Workers \ {w} : us[y] = ws[y],
           us[w].pc \notin {"queued", "reading"}, q # <<>>, q[1] = w
    PROVE  Tail(q) \in Seq(Workers) /\ Queued(Tail(q), us)
<1> DEFINE p == Tail(q)
<1>1. /\ p \in Seq(Workers) /\ Len(p) = Len(q) - 1 /\ Len(q) \in Nat /\ Len(p) \in Nat
      /\ \A i \in 1 .. Len(p) : p[i] = q[i + 1]
  BY HeadTailProperties, QueueFacts
<1>2. \A i \in 1 .. Len(p) : i + 1 \in 1 .. Len(q) /\ i + 1 # 1
  BY <1>1
<1>3. 1 \in 1 .. Len(q)
  BY <1>1
<1>4. \A i \in 1 .. Len(p) : p[i] \in Workers /\ p[i] # w
  BY <1>1, <1>2, <1>3, QueueFacts DEF Queued
<1> HIDE DEF p
<1>5. \A i, j \in 1 .. Len(p) : p[i] = p[j] => i = j
  <2> SUFFICES ASSUME NEW i \in 1 .. Len(p), NEW j \in 1 .. Len(p), p[i] = p[j] PROVE i = j
    OBVIOUS
  <2>1. q[i + 1] = q[j + 1] /\ i + 1 \in 1 .. Len(q) /\ j + 1 \in 1 .. Len(q)
    BY <1>1, <1>2
  <2>2. i + 1 = j + 1
    BY <2>1 DEF Queued
  <2> QED
    BY <2>2, <1>1
<1>6. \A i \in 1 .. Len(p) : us[p[i]].pc \in {"queued", "reading"}
  BY <1>1, <1>2, <1>4 DEF Queued
<1>7. ASSUME NEW y \in Workers, us[y].pc \in {"queued", "reading"}
      PROVE  (\E i \in 1 .. Len(p) : p[i] = y) /\ us[y].pc # "reading"
  <2>1. y # w /\ ws[y].pc \in {"queued", "reading"}
    BY <1>7
  <2>2. PICK k \in 1 .. Len(q) : q[k] = y
    BY <2>1 DEF Queued
  <2>3. k - 1 \in 1 .. Len(p) /\ (k - 1) + 1 = k
    BY <2>1, <2>2, <1>1
  <2>4. p[k - 1] = y
    BY <2>2, <2>3, <1>1
  <2>5. ws[y].pc # "reading"
    BY <2>1 DEF Queued
  <2> QED
    BY <2>1, <2>3, <2>4, <2>5
<1> QED
  BY <1>1, <1>5, <1>6, <1>7 DEF Queued, p

LEMMA HoldersFinite ==
    ASSUME NEW ws
    PROVE  IsFiniteSet(Holders(ws)) /\ Cardinality(Holders(ws)) \in Nat
<1>1. Holders(ws) \subseteq Workers
  BY DEF Holders
<1>2. IsFiniteSet(Holders(ws))
  BY <1>1, DeltaSyncAssumption, FS_Subset
<1> QED
  BY <1>2, FS_CardinalityType

\* How the worker that moves changes the number of files in the workers' hands.
LEMMA HoldersStep ==
    ASSUME NEW ws, NEW us, NEW w \in Workers, \A y \in Workers \ {w} : us[y] = ws[y]
    PROVE  /\ (us[w].pc \in Holding <=> ws[w].pc \in Holding)
                => Cardinality(Holders(us)) = Cardinality(Holders(ws))
           /\ us[w].pc \in Holding /\ ws[w].pc \notin Holding
                => Cardinality(Holders(us)) = Cardinality(Holders(ws)) + 1
           /\ us[w].pc \notin Holding /\ ws[w].pc \in Holding
                => Cardinality(Holders(us)) = Cardinality(Holders(ws)) - 1
<1>1. CASE us[w].pc \in Holding <=> ws[w].pc \in Holding
  <2>1. Holders(us) = Holders(ws)
    BY <1>1 DEF Holders
  <2> QED
    BY <1>1, <2>1
<1>2. CASE us[w].pc \in Holding /\ ws[w].pc \notin Holding
  <2>1. Holders(us) = Holders(ws) \cup {w} /\ w \notin Holders(ws)
    BY <1>2 DEF Holders
  <2>2. Cardinality(Holders(ws) \cup {w}) = Cardinality(Holders(ws)) + 1
    BY <2>1, HoldersFinite, FS_AddElement
  <2> QED
    BY <1>2, <2>1, <2>2
<1>3. CASE us[w].pc \notin Holding /\ ws[w].pc \in Holding
  <2>1. Holders(us) = Holders(ws) \ {w} /\ w \in Holders(ws)
    BY <1>3 DEF Holders
  <2>2. Cardinality(Holders(ws) \ {w}) = Cardinality(Holders(ws)) - 1
    BY <2>1, HoldersFinite, FS_RemoveElement
  <2> QED
    BY <1>3, <2>1, <2>2
<1> QED
  BY <1>1, <1>2, <1>3

-----------------------------------------------------------------------------
(* A step of one run, and a step of one of its workers                       *)

LEMMA RunStep ==
    ASSUME IInv, NEW s \in Runs, NEW r \in RunRecord, NEW us \in [Workers -> WorkerRecord],
           run' = [run EXCEPT ![s] = r], worker' = [worker EXCEPT ![s] = us], UNCHANGED ftp,
           content' \in [Files -> 0 .. MaxVersion], tracked' \in [Files -> Rows],
           \A f \in Files : content'[f] <= ftp[f],
           RunFine(r, us), Past(r, us), content' = content \/ Active(run[s]),
           Isolated =>
               /\ Active(r) => \A t \in Runs \ {s} : ~Active(run[t])
               /\ \A f \in Files : content[f] <= content'[f]
               /\ Imported(tracked', content')
               /\ CaughtUp(r, us, content')
    PROVE  IInv'
<1> USE DEF IInv
<1>0. /\ \A t \in Runs : run'[t] = IF t = s THEN r ELSE run[t]
      /\ \A t \in Runs : worker'[t] = IF t = s THEN us ELSE worker[t]
  BY DEF Typed
<1>1. Typed'
  BY DEF Typed
<1>2. \A t \in Runs : (RunFine(run[t], worker[t]) /\ Past(run[t], worker[t]))'
  <2> SUFFICES ASSUME NEW t \in Runs PROVE (RunFine(run[t], worker[t]) /\ Past(run[t], worker[t]))'
    OBVIOUS
  <2>1. CASE t = s
    BY <1>0, <2>1 DEF Past
  <2>2. CASE t # s
    BY <1>0, <2>2 DEF Past
  <2> QED
    BY <2>1, <2>2
<1>3. Old'
  BY DEF Old
<1>4. ASSUME Isolated PROVE Apart'
  <2> USE <1>4
  <2>1. \A t, u \in Runs : Active(run'[t]) /\ Active(run'[u]) => t = u
    BY <1>0 DEF Apart
  <2>2. \A t \in Runs : CaughtUp(run'[t], worker'[t], content')
    <3> SUFFICES ASSUME NEW t \in Runs PROVE CaughtUp(run'[t], worker'[t], content')
      OBVIOUS
    <3>1. CASE t = s
      BY <1>0, <3>1
    <3>2. CASE t # s
      <4> DEFINE q == run[t]
                 ws == worker[t]
      <4>1. CaughtUp(q, ws, content) /\ q \in RunRecord /\ ws \in [Workers -> WorkerRecord]
            /\ Phased(q, ws) /\ Handed(q, ws) /\ run'[t] = q /\ worker'[t] = ws
        BY <1>0, <3>2 DEF Apart, Typed, RunFine
      <4>2. content' = content \/ ~Active(q)
        BY <3>2 DEF Apart
      <4> HIDE DEF q, ws
      <4>3. CASE content' = content
        BY <4>1, <4>3
      <4>4. CASE ~Active(q)
        <5>1. \A w \in Workers : ws[w].pc \notin {"import", "success", "check", "download"}
          BY <4>1, <4>4 DEF Active, RunRecord, Phased
        <5>2. Imported(q.known, content')
          <6>1. \A f \in Files : /\ content[f] \in Int /\ content'[f] \in Int
                                 /\ q.known[f].stat \in Int
            BY <4>1 DEF Typed, RunRecord, Rows
          <6> QED
            BY <4>1, <6>1 DEF CaughtUp, Imported
        <5>3. \A f \in Files : q.listed[f] \in Int /\ content[f] \in Int /\ content'[f] \in Int
          BY <4>1 DEF RunRecord, Typed
        <5> QED
          BY <4>1, <5>1, <5>2, <5>3 DEF CaughtUp
      <4> QED
        BY <4>1, <4>2, <4>3, <4>4
    <3> QED
      BY <3>1, <3>2
  <2> QED
    BY <2>1, <2>2 DEF Apart
<1> QED
  BY <1>1, <1>2, <1>3, <1>4

\* What the run's counters leave over.
Left(r) == r.found - (r.processed + r.skipped + r.failed)

LEMMA Counters ==
    ASSUME NEW r \in RunRecord
    PROVE  r.found \in Nat /\ r.processed \in Nat /\ r.skipped \in Nat /\ r.failed \in Nat
  BY DEF RunRecord

LEMMA WorkerStep ==
    ASSUME IInv, NEW s \in Runs, NEW w \in Workers, NEW r \in RunRecord, NEW x \in WorkerRecord,
           run' = [run EXCEPT ![s] = r], worker' = [worker EXCEPT ![s][w] = x], UNCHANGED ftp,
           run[s].pc = "running", r.pc = "running",
           r.listed = run[s].listed, r.known = run[s].known, r.todo \subseteq run[s].todo,
           run[s].done => r.done, run[s].cancel => r.cancel, run[s].broken => r.broken,
           run[s].failed <= r.failed,
           Queued(r.queue, [worker[s] EXCEPT ![w] = x]),
           Left(r) = Left(run[s]) + (IF x.pc \in Holding THEN 1 ELSE 0)
                                  - (IF worker[s][w].pc \in Holding THEN 1 ELSE 0),
           x.pc \in Busy =>
               /\ x.f \in Files /\ x.f \notin r.todo
               /\ (worker[s][w].pc \in Busy /\ x.f = worker[s][w].f) \/ x.f \in run[s].todo,
           x.pc = "ended" => r.done \/ r.cancel,
           r.done /\ ~r.broken /\ ~r.cancel => r.todo = {},
           x.pc = "fail" => r.failed > 0,
           x.pc = "import" => r.listed[x.f] <= x.v /\ x.v <= ftp[x.f],
           content' \in [Files -> 0 .. MaxVersion], tracked' \in [Files -> Rows],
           \A f \in Files : content'[f] <= ftp[f],
           \A f \in Files : content'[f] = content[f]
                            \/ (worker[s][w].pc \in Busy /\ worker[s][w].f = f),
           Isolated =>
               /\ \A f \in Files : content[f] <= content'[f]
               /\ Imported(tracked', content')
               /\ x.pc = "import" => content'[x.f] <= x.v
               /\ x.pc = "success" => r.listed[x.f] <= content'[x.f]
               /\ \A f \in Files \ TooBig :
                    \/ r.failed > 0 \/ r.cancel \/ r.broken
                    \/ f \in r.todo
                    \/ x.pc \in Holding /\ x.f = f
                    \/ r.listed[f] <= content'[f]
                    \/ f \notin run[s].todo /\ ~(worker[s][w].pc \in Holding /\ worker[s][w].f = f)
    PROVE  IInv'
<1> DEFINE r0 == run[s]
           ws == worker[s]
           us == [ws EXCEPT ![w] = x]
<1>0. /\ r0 \in RunRecord /\ ws \in [Workers -> WorkerRecord] /\ RunFine(r0, ws) /\ Past(r0, ws)
      /\ worker' = [worker EXCEPT ![s] = us] /\ Active(r0) /\ Active(r)
  BY DEF IInv, Typed, Active
<1>1. /\ us \in [Workers -> WorkerRecord] /\ us[w] = x
      /\ \A y \in Workers \ {w} : us[y] = ws[y]
  BY <1>0
<1>2. Isolated => /\ Imported(r0.known, content) /\ CaughtUp(r0, ws, content)
                  /\ \A t \in Runs \ {s} : ~Active(run[t])
  BY <1>0 DEF IInv, Apart, CaughtUp
<1>i. \A f \in Files : /\ r0.listed[f] \in Int /\ r0.known[f].stat \in Int
                       /\ content[f] \in Int /\ content'[f] \in Int /\ ftp[f] \in Int
  BY <1>0 DEF IInv, Typed, RunRecord, Rows, Versions
<1>f. r0.failed \in Nat /\ r.failed \in Nat
  BY <1>0 DEF RunRecord
<1> HIDE DEF us
<1>3. Balanced(r, us)
  <2>1. /\ r.found \in Nat /\ r.processed \in Nat /\ r.skipped \in Nat /\ r.failed \in Nat
        /\ r0.found \in Nat /\ r0.processed \in Nat /\ r0.skipped \in Nat /\ r0.failed \in Nat
    BY <1>0 DEF RunRecord
  <2> DEFINE a == Cardinality(Holders(ws))
             b == Cardinality(Holders(us))
  <2>2. a \in Nat /\ b \in Nat
    BY HoldersFinite
  <2>3. b = a + (IF x.pc \in Holding THEN 1 ELSE 0) - (IF ws[w].pc \in Holding THEN 1 ELSE 0)
    <3>1. /\ (us[w].pc \in Holding <=> ws[w].pc \in Holding) => b = a
          /\ us[w].pc \in Holding /\ ws[w].pc \notin Holding => b = a + 1
          /\ us[w].pc \notin Holding /\ ws[w].pc \in Holding => b = a - 1
      <4> HIDE DEF ws
      <4> QED
        BY <1>1, HoldersStep
    <3> HIDE DEF a, b
    <3> QED
      BY <1>1, <2>2, <3>1
  <2>4. Left(r0) = a
    BY <1>0, <2>1, <2>2 DEF RunFine, Balanced, Left
  <2> HIDE DEF a, b
  <2>5. Left(r) = b
    BY <2>2, <2>3, <2>4
  <2> QED
    BY <2>1, <2>2, <2>5 DEF Balanced, Left, b
<1>4. Handed(r, us)
  <2>1. \A y \in Workers : us[y].pc \in Busy =>
            \/ ws[y].pc \in Busy /\ us[y].f = ws[y].f
            \/ y = w /\ us[y].f \in r0.todo
    BY <1>1
  <2>2. \A y, z \in Workers :
            us[y].pc \in Busy /\ us[z].pc \in Busy /\ us[y].f = us[z].f => y = z
    BY <1>0, <2>1 DEF RunFine, Handed
  <2>3. \A y \in Workers : us[y].pc \in Busy => us[y].f \in Files /\ us[y].f \notin r.todo
    BY <1>0, <1>1 DEF RunFine, Handed
  <2> QED
    BY <2>2, <2>3 DEF Handed
<1>5. Phased(r, us)
  <2>1. \A y \in Workers : us[y].pc = "ended" => r.done \/ r.cancel
    BY <1>0, <1>1 DEF RunFine, Phased
  <2>2. \A y \in Workers : us[y].pc = "fail" => r.failed > 0
    BY <1>0, <1>1, <1>f DEF RunFine, Phased
  <2> QED
    BY <2>1, <2>2 DEF Phased
<1>6. Past(r, us)
  BY <1>0, <1>1 DEF Past
<1>7. ASSUME Isolated PROVE CaughtUp(r, us, content')
  <2> USE <1>7
  <2>1. Imported(r.known, content')
    BY <1>2, <1>i DEF Imported
  <2>2. \A y \in Workers : us[y].pc = "import" => content'[us[y].f] <= us[y].v
    <3> SUFFICES ASSUME NEW y \in Workers, us[y].pc = "import"
                 PROVE  content'[us[y].f] <= us[y].v
      OBVIOUS
    <3>1. CASE y = w
      BY <3>1, <1>1
    <3>2. CASE y # w
      <4>1. us[y] = ws[y] /\ ws[y].pc \in Busy
        BY <3>2, <1>1 DEF Busy, Holding
      <4>2. ws[y].f \in Files /\ (ws[w].pc \in Busy => ws[w].f # ws[y].f)
        BY <4>1, <3>2, <1>0 DEF RunFine, Handed
      <4>3. content'[ws[y].f] = content[ws[y].f]
        BY <4>2
      <4> QED
        BY <4>1, <4>3, <1>2 DEF CaughtUp
    <3> QED
      BY <3>1, <3>2
  <2>3. \A y \in Workers : us[y].pc = "success" => r.listed[us[y].f] <= content'[us[y].f]
    <3> SUFFICES ASSUME NEW y \in Workers, us[y].pc = "success", y # w
                 PROVE  r.listed[us[y].f] <= content'[us[y].f]
      BY <1>1
    <3>1. us[y] = ws[y] /\ ws[y].pc \in Busy
      BY <1>1 DEF Busy, Holding
    <3>2. ws[y].f \in Files
      BY <3>1, <1>0 DEF RunFine, Handed
    <3> QED
      BY <3>1, <3>2, <1>i, <1>2 DEF CaughtUp
  <2>4. ASSUME Workers # {}, r.failed = 0, ~r.cancel, ~r.broken, NEW f \in Files \ TooBig
        PROVE  \/ f \in r.todo
               \/ \E y \in Workers : us[y].pc \in Holding /\ us[y].f = f
               \/ r.listed[f] <= content'[f]
    <3>1. r0.failed = 0 /\ ~r0.cancel /\ ~r0.broken /\ r0.pc # "idle"
      BY <2>4, <1>f
    <3>2. \/ f \in r0.todo
          \/ \E y \in Workers : ws[y].pc \in Holding /\ ws[y].f = f
          \/ r0.listed[f] <= content[f]
      BY <3>1, <1>2 DEF CaughtUp
    <3>3. CASE f \in r0.todo \/ (ws[w].pc \in Holding /\ ws[w].f = f)
      BY <2>4, <3>3, <1>1, <1>f
    <3>4. CASE \E y \in Workers : y # w /\ ws[y].pc \in Holding /\ ws[y].f = f
      BY <3>4, <1>1
    <3>5. CASE r0.listed[f] <= content[f]
      BY <3>5, <1>i
    <3> QED
      BY <3>2, <3>3, <3>4, <3>5
  <2> QED
    BY <2>1, <2>2, <2>3, <2>4 DEF CaughtUp
<1>8. RunFine(r, us)
  BY <1>3, <1>4, <1>5 DEF RunFine, us
<1> QED
  BY <1>0, <1>1, <1>2, <1>6, <1>7, <1>8, RunStep

-----------------------------------------------------------------------------
(* The initial states, and the actions of a run                              *)

LEMMA InitIInv == Init => IInv
<1> SUFFICES ASSUME Init PROVE IInv
  OBVIOUS
<1> USE DEF Init
<1>m. MaxVersion \in Nat \ {0}
  BY DeltaSyncAssumption
<1>e. <<>> \in Seq(Workers) /\ Len(<<>>) = 0
  OBVIOUS
<1>1. NewRun \in RunRecord /\ NewWorker \in WorkerRecord /\ NewRun.queue = <<>>
      /\ NewRun.todo = Files /\ NewRun.pc = "idle" /\ NewRun.found = 0 /\ NewRun.processed = 0
      /\ NewRun.skipped = 0 /\ NewRun.failed = 0 /\ NewRun.done = FALSE /\ NewWorker.pc = "loop"
      /\ \A f \in Files : NewRun.listed[f] = 0 /\ NewRun.known[f].status = "none"
  BY <1>m, <1>e DEF NewRun, NewWorker, RunRecord, WorkerRecord, Rows, Row, Points
<1> DEFINE ws == [w \in Workers |-> NewWorker]
<1>2. \A w \in Workers : ws[w].pc = "loop"
  BY <1>1
<1>3. Typed
  BY <1>m, <1>1 DEF Typed, Versions, Rows, Row
<1>4. \A s \in Runs : run[s] = NewRun /\ worker[s] = ws
  OBVIOUS
<1> HIDE DEF ws
<1>5. RunFine(NewRun, ws)
  <2>1. Queued(NewRun.queue, ws)
    BY <1>e, <1>1, <1>2 DEF Queued
  <2>2. Holders(ws) = {}
    BY <1>2 DEF Holders, Holding
  <2>3. Balanced(NewRun, ws)
    BY <1>1, <2>2, FS_EmptySet DEF Balanced
  <2>4. Handed(NewRun, ws) /\ Phased(NewRun, ws)
    BY <1>1, <1>2 DEF Handed, Phased, Busy, Holding
  <2> QED
    BY <2>1, <2>3, <2>4 DEF RunFine
<1>6. Past(NewRun, ws) /\ Old
  BY <1>1, <1>2 DEF Past, Old
<1>7. Apart
  BY <1>1, <1>2, <1>4 DEF Apart, Active, Imported, CaughtUp, Row
<1> QED
  BY <1>3, <1>4, <1>5, <1>6, <1>7 DEF IInv

\* What the invariant tells of a run.
LEMMA RunFacts ==
    ASSUME IInv, NEW s \in Runs
    PROVE  /\ run[s] \in RunRecord /\ worker[s] \in [Workers -> WorkerRecord]
           /\ RunFine(run[s], worker[s]) /\ Past(run[s], worker[s])
           /\ worker = [worker EXCEPT ![s] = worker[s]] /\ run = [run EXCEPT ![s] = run[s]]
           /\ content \in [Files -> 0 .. MaxVersion] /\ tracked \in [Files -> Rows]
           /\ \A f \in Files : content[f] <= ftp[f]
           /\ \A f \in Files : content[f] \in Int /\ ftp[f] \in Int
           /\ Isolated => Imported(tracked, content) /\ CaughtUp(run[s], worker[s], content)
           /\ Isolated /\ Active(run[s]) => \A t \in Runs \ {s} : ~Active(run[t])
<1>1. \A f \in Files : content[f] \in Int /\ ftp[f] \in Int
  BY DEF IInv, Typed, Versions
<1> QED
  BY <1>1 DEF IInv, Typed, Old, Apart

\* A step of a run alone: the workers, the files and the rows stay.
LEMMA AloneStep ==
    ASSUME IInv, NEW s \in Runs, NEW r \in RunRecord, run' = [run EXCEPT ![s] = r],
           UNCHANGED <<ftp, content, tracked, worker>>,
           RunFine(r, worker[s]), Past(r, worker[s]),
           Isolated => /\ Active(r) => \A t \in Runs \ {s} : ~Active(run[t])
                       /\ CaughtUp(r, worker[s], content)
    PROVE  IInv'
<1>1. \A f \in Files : content[f] <= content'[f]
  BY RunFacts
<1>2. worker' = [worker EXCEPT ![s] = worker[s]] /\ worker[s] \in [Workers -> WorkerRecord]
  BY RunFacts
<1>3. /\ content' \in [Files -> 0 .. MaxVersion] /\ tracked' \in [Files -> Rows]
      /\ \A f \in Files : content'[f] <= ftp[f]
      /\ Isolated => Imported(tracked', content')
  BY RunFacts
<1> QED
  BY <1>1, <1>2, <1>3, RunStep

LEMMA StartRunStep == ASSUME IInv, NEW s \in Runs, StartRun(s) PROVE IInv'
<1> DEFINE r0 == run[s]
           ws == worker[s]
           Started(delta) == [r0 EXCEPT !.pc = "listing", !.delta = delta, !.known = tracked]
<1>2. /\ r0 \in RunRecord /\ RunFine(r0, ws) /\ Past(r0, ws) /\ r0.pc = "idle"
      /\ tracked \in [Files -> Rows]
      /\ Isolated => Imported(tracked, content)
      /\ Isolated => CaughtUp(r0, ws, content)
      /\ Isolated => \A t \in Runs \ {s} : ~Active(run[t])
      /\ UNCHANGED <<ftp, content, tracked, worker>>
  BY RunFacts DEF StartRun, Active
<1>1. run' = [run EXCEPT ![s] = Started(TRUE)] \/ run' = [run EXCEPT ![s] = Started(FALSE)]
  BY DEF StartRun
<1>3. PICK r \in RunRecord :
      /\ run' = [run EXCEPT ![s] = r] /\ r.pc = "listing" /\ r.known = tracked
      /\ r.queue = r0.queue /\ r.todo = r0.todo /\ r.listed = r0.listed /\ r.done = r0.done
      /\ r.broken = r0.broken /\ r.cancel = r0.cancel /\ r.found = r0.found
      /\ r.processed = r0.processed /\ r.skipped = r0.skipped /\ r.failed = r0.failed
  <2>1. CASE run' = [run EXCEPT ![s] = Started(TRUE)]
    <3>1. Started(TRUE) \in RunRecord
      BY <1>2 DEF RunRecord
    <3> QED
      BY <1>2, <2>1, <3>1 DEF RunRecord
  <2>2. CASE run' = [run EXCEPT ![s] = Started(FALSE)]
    <3>1. Started(FALSE) \in RunRecord
      BY <1>2 DEF RunRecord
    <3> QED
      BY <1>2, <2>2, <3>1 DEF RunRecord
  <2> QED
    BY <1>1, <2>1, <2>2
<1>4. RunFine(r, ws)
  BY <1>2, <1>3 DEF RunFine, Balanced, Handed, Phased
<1>5. Past(r, ws)
  BY <1>2, <1>3 DEF Past
<1>6. Isolated => CaughtUp(r, ws, content)
  <2>1. r.todo = Files /\ \A w \in Workers : ws[w].pc = "loop"
    BY <1>2, <1>3 DEF RunFine, Phased
  <2>2. Isolated => Imported(r.known, content)
    BY <1>2, <1>3
  <2> QED
    BY <2>1, <2>2 DEF CaughtUp
<1> QED
  BY <1>2, <1>3, <1>4, <1>5, <1>6, AloneStep

LEMMA ListStep == ASSUME IInv, NEW s \in Runs, List(s) PROVE IInv'
<1> DEFINE r0 == run[s]
           ws == worker[s]
           r1 == [r0 EXCEPT !.pc = "running", !.listed = ftp]
           r2 == [r0 EXCEPT !.pc = "running", !.listed = ftp, !.todo = {}, !.broken = TRUE]
<1>2. /\ r0 \in RunRecord /\ RunFine(r0, ws) /\ r0.pc = "listing"
      /\ Isolated => CaughtUp(r0, ws, content)
      /\ Isolated => \A t \in Runs \ {s} : ~Active(run[t])
      /\ UNCHANGED <<ftp, content, tracked, worker>>
      /\ \A w \in Workers : ws[w].pc = "loop"
  BY RunFacts DEF List, Active, RunFine, Phased
<1>l. ftp \in [Files -> 0 .. MaxVersion] /\ \A f \in Files : ftp[f] <= ftp[f]
  BY DEF IInv, Typed, Versions
<1>r. PICK r \in {r1, r2} : run' = [run EXCEPT ![s] = r]
  BY DEF List, IInv, Typed
<1>3. /\ r \in RunRecord /\ run' = [run EXCEPT ![s] = r] /\ r.pc = "running" /\ r.known = r0.known
      /\ r.queue = r0.queue /\ r.listed = ftp /\ r.done = r0.done
      /\ (r.todo = r0.todo /\ r.broken = r0.broken) \/ (r.todo = {} /\ r.broken)
      /\ r.cancel = r0.cancel /\ r.found = r0.found
      /\ r.processed = r0.processed /\ r.skipped = r0.skipped /\ r.failed = r0.failed
  <2>1. CASE r = r1
    BY <1>2, <1>l, <1>r, <2>1 DEF RunRecord
  <2>2. CASE r = r2
    BY <1>2, <1>l, <1>r, <2>2 DEF RunRecord
  <2> QED
    BY <1>r, <2>1, <2>2
<1>4. RunFine(r, ws)
  BY <1>2, <1>3 DEF RunFine, Balanced, Handed, Phased
<1>5. Past(r, ws)
  BY <1>2, <1>3, <1>l DEF Past
<1>6. Isolated => CaughtUp(r, ws, content)
  BY <1>2, <1>3 DEF CaughtUp, RunFine, Phased
<1> QED
  BY <1>2, <1>3, <1>4, <1>5, <1>6, AloneStep

LEMMA CancelStep == ASSUME IInv, NEW s \in Runs, Cancel(s) PROVE IInv'
<1> DEFINE r0 == run[s]
           ws == worker[s]
           r == [r0 EXCEPT !.cancel = TRUE]
<1>2. /\ r0 \in RunRecord /\ RunFine(r0, ws) /\ Past(r0, ws) /\ r0.pc = "running"
      /\ Isolated => CaughtUp(r0, ws, content)
      /\ Isolated => \A t \in Runs \ {s} : ~Active(run[t])
      /\ UNCHANGED <<ftp, content, tracked, worker>>
  BY RunFacts DEF Cancel, Active
<1>3. /\ r \in RunRecord /\ run' = [run EXCEPT ![s] = r] /\ r.pc = "running" /\ r.known = r0.known
      /\ r.queue = r0.queue /\ r.todo = r0.todo /\ r.listed = r0.listed /\ r.done = r0.done
      /\ r.broken = r0.broken /\ r.cancel /\ r.found = r0.found
      /\ r.processed = r0.processed /\ r.skipped = r0.skipped /\ r.failed = r0.failed
  BY <1>2 DEF RunRecord, Cancel
<1> HIDE DEF r
<1>4. RunFine(r, ws)
  BY <1>2, <1>3 DEF RunFine, Balanced, Handed, Phased
<1>5. Past(r, ws)
  BY <1>2, <1>3 DEF Past
<1>6. Isolated => CaughtUp(r, ws, content)
  BY <1>2, <1>3 DEF CaughtUp
<1> QED
  BY <1>2, <1>3, <1>4, <1>5, <1>6, AloneStep

LEMMA EndRunStep == ASSUME IInv, NEW s \in Runs, EndRun(s) PROVE IInv'
<1> DEFINE r0 == run[s]
           ws == worker[s]
           r == [r0 EXCEPT !.pc = "over", !.known = NewRun.known, !.todo = {}, !.delta = TRUE]
<1>2. /\ r0 \in RunRecord /\ RunFine(r0, ws) /\ Past(r0, ws) /\ r0.pc = "running"
      /\ Isolated => CaughtUp(r0, ws, content)
      /\ UNCHANGED <<ftp, content, tracked, worker>>
      /\ \A w \in Workers : ws[w].pc = "ended"
  BY RunFacts DEF EndRun
<1>k. NewRun.known \in [Files -> Rows] /\ \A f \in Files : NewRun.known[f].status = "none"
  BY DeltaSyncAssumption DEF NewRun, Rows, Row
<1>3. /\ r \in RunRecord /\ run' = [run EXCEPT ![s] = r] /\ r.pc = "over" /\ r.known = NewRun.known
      /\ r.queue = r0.queue /\ r.todo = {} /\ r.listed = r0.listed /\ r.done = r0.done
      /\ r.broken = r0.broken /\ r.cancel = r0.cancel /\ r.found = r0.found
      /\ r.processed = r0.processed /\ r.skipped = r0.skipped /\ r.failed = r0.failed
  <2>1. NewRun.known \in [Files -> Rows]
    BY <1>k
  <2> QED
    BY <1>2, <2>1 DEF RunRecord, EndRun
<1> HIDE DEF r
<1>4. RunFine(r, ws)
  BY <1>2, <1>3 DEF RunFine, Balanced, Handed, Phased
<1>5. Past(r, ws)
  BY <1>2, <1>3 DEF Past
<1>6. Isolated => CaughtUp(r, ws, content)
  <2>1. Workers # {} => r0.done \/ r0.cancel
    BY <1>2 DEF RunFine, Phased
  <2>2. r0.done /\ ~r0.broken /\ ~r0.cancel => r0.todo = {}
    BY <1>2 DEF RunFine, Phased
  <2> QED
    BY <1>2, <1>3, <1>k, <2>1, <2>2 DEF CaughtUp, Imported, Holding
<1>7. ~Active(r)
  BY <1>3 DEF Active
<1> QED
  BY <1>2, <1>3, <1>4, <1>5, <1>6, <1>7, AloneStep

-----------------------------------------------------------------------------
(* The actions of a worker                                                   *)

\* A step that imports nothing and writes no row.
LEMMA LocalStep ==
    ASSUME IInv, NEW s \in Runs, NEW w \in Workers, NEW r \in RunRecord, NEW x \in WorkerRecord,
           run' = [run EXCEPT ![s] = r], worker' = [worker EXCEPT ![s][w] = x],
           UNCHANGED <<ftp, content, tracked>>,
           run[s].pc = "running", r.pc = "running",
           r.listed = run[s].listed, r.known = run[s].known, r.todo \subseteq run[s].todo,
           run[s].done => r.done, run[s].cancel => r.cancel, run[s].broken => r.broken,
           run[s].failed <= r.failed,
           Queued(r.queue, [worker[s] EXCEPT ![w] = x]),
           Left(r) = Left(run[s]) + (IF x.pc \in Holding THEN 1 ELSE 0)
                                  - (IF worker[s][w].pc \in Holding THEN 1 ELSE 0),
           x.pc \in Busy =>
               /\ x.f \in Files /\ x.f \notin r.todo
               /\ (worker[s][w].pc \in Busy /\ x.f = worker[s][w].f) \/ x.f \in run[s].todo,
           x.pc = "ended" => r.done \/ r.cancel,
           r.done /\ ~r.broken /\ ~r.cancel => r.todo = {},
           x.pc = "fail" => r.failed > 0, x.pc # "success",
           x.pc = "import" => r.listed[x.f] <= x.v /\ x.v = ftp[x.f],
           Isolated =>
               \A f \in Files \ TooBig :
                    \/ r.failed > 0 \/ r.cancel \/ r.broken
                    \/ f \in r.todo
                    \/ x.pc \in Holding /\ x.f = f
                    \/ r.listed[f] <= content[f]
                    \/ f \notin run[s].todo /\ ~(worker[s][w].pc \in Holding /\ worker[s][w].f = f)
    PROVE  IInv'
<1>1. \A f \in Files : /\ content[f] \in Int /\ ftp[f] \in Int /\ content[f] <= ftp[f]
                       /\ content'[f] = content[f] /\ content[f] <= content'[f]
  BY RunFacts
<1>2. content' \in [Files -> 0 .. MaxVersion] /\ tracked' \in [Files -> Rows]
  BY RunFacts
<1>3. Isolated => Imported(tracked', content')
  BY RunFacts
<1>4. x.pc = "import" =>
        /\ x.f \in Files /\ x.v <= ftp[x.f] /\ r.listed[x.f] <= x.v /\ content'[x.f] <= x.v
  BY <1>1 DEF Busy, Holding
<1>5. Isolated =>
        /\ \A f \in Files : content[f] <= content'[f]
        /\ Imported(tracked', content')
        /\ x.pc = "import" => content'[x.f] <= x.v
        /\ x.pc = "success" => r.listed[x.f] <= content'[x.f]
        /\ \A f \in Files \ TooBig :
             \/ r.failed > 0 \/ r.cancel \/ r.broken
             \/ f \in r.todo
             \/ x.pc \in Holding /\ x.f = f
             \/ r.listed[f] <= content'[f]
             \/ f \notin run[s].todo /\ ~(worker[s][w].pc \in Holding /\ worker[s][w].f = f)
  BY <1>1, <1>3, <1>4
<1>6. x.pc = "import" => r.listed[x.f] <= x.v /\ x.v <= ftp[x.f]
  BY <1>4
<1>7. /\ \A f \in Files : content'[f] <= ftp[f]
      /\ \A f \in Files : content'[f] = content[f]
                            \/ (worker[s][w].pc \in Busy /\ worker[s][w].f = f)
  BY <1>1
<1> QED
  BY <1>2, <1>5, <1>6, <1>7, WorkerStep

\* A worker that has no file, before and after, and the run's files, counters and flags stay.
LEMMA TurnStep ==
    ASSUME IInv, NEW s \in Runs, NEW w \in Workers, NEW r \in RunRecord, NEW x \in WorkerRecord,
           run' = [run EXCEPT ![s] = r], worker' = [worker EXCEPT ![s][w] = x],
           UNCHANGED <<ftp, content, tracked>>,
           run[s].pc = "running", r.pc = "running",
           r.listed = run[s].listed, r.known = run[s].known, r.todo = run[s].todo,
           run[s].done => r.done, r.cancel = run[s].cancel, run[s].broken => r.broken,
           r.failed = run[s].failed, r.found = run[s].found, r.processed = run[s].processed,
           r.skipped = run[s].skipped,
           Queued(r.queue, [worker[s] EXCEPT ![w] = x]),
           x.pc \notin Busy, worker[s][w].pc \notin Busy,
           x.pc = "ended" => r.done \/ r.cancel,
           r.done /\ ~r.broken /\ ~r.cancel => r.todo = {}
    PROVE  IInv'
<1>1. x.pc \notin Holding /\ worker[s][w].pc \notin Holding
  BY DEF Busy
<1>2. Left(r) = Left(run[s]) /\ Left(r) \in Int
  BY DEF Left, RunRecord
<1>3. Left(r) = Left(run[s]) + (IF x.pc \in Holding THEN 1 ELSE 0)
                             - (IF worker[s][w].pc \in Holding THEN 1 ELSE 0)
  BY <1>1, <1>2
<1>4. x.pc # "fail" /\ x.pc # "success" /\ x.pc # "import"
  BY DEF Busy, Holding
<1>5. run[s].failed <= r.failed
  BY DEF RunRecord
<1> QED
  BY <1>1, <1>3, <1>4, <1>5, LocalStep

\* The workers when one of them has moved, and its record when it goes to another point.
LEMMA Moved ==
    ASSUME IInv, NEW s \in Runs, NEW w \in Workers, NEW x \in WorkerRecord
    PROVE  \E us : /\ us = [worker[s] EXCEPT ![w] = x] /\ us[w] = x
                   /\ \A y \in Workers \ {w} : us[y] = worker[s][y]
<1> DEFINE us == [worker[s] EXCEPT ![w] = x]
<1>1. worker[s] \in [Workers -> WorkerRecord]
  BY RunFacts
<1>2. us[w] = x /\ \A y \in Workers \ {w} : us[y] = worker[s][y]
  BY <1>1
<1> QED
  BY <1>2

LEMMA GotoFacts ==
    ASSUME IInv, NEW s \in Runs, NEW w \in Workers, NEW p \in Points, Goto(s, w, p)
    PROVE  \E x \in WorkerRecord :
                /\ worker' = [worker EXCEPT ![s][w] = x]
                /\ x.pc = p /\ x.f = worker[s][w].f /\ x.v = worker[s][w].v
<1> DEFINE x == [worker[s][w] EXCEPT !.pc = p]
<1>1. worker[s] \in [Workers -> WorkerRecord] /\ worker[s][w] \in WorkerRecord
  BY RunFacts
<1>2. worker \in [Runs -> [Workers -> WorkerRecord]]
  BY DEF IInv, Typed
<1>3. x \in WorkerRecord /\ x.pc = p /\ x.f = worker[s][w].f /\ x.v = worker[s][w].v
  BY <1>1 DEF WorkerRecord
<1>4. worker' = [worker EXCEPT ![s][w] = x]
  BY <1>1, <1>2 DEF Goto
<1> HIDE DEF x
<1> QED
  BY <1>3, <1>4

LEMMA AskStep == ASSUME IInv, NEW s \in Runs, NEW w \in Workers, Ask(s, w) PROVE IInv'
<1> DEFINE r0 == run[s]
           ws == worker[s]
<1>1. /\ r0.pc = "running" /\ ws[w].pc = "loop" /\ r0 \in RunRecord
      /\ UNCHANGED <<ftp, content, tracked>>
      /\ Queued(r0.queue, ws) /\ r0.queue \in Seq(Workers) /\ run = [run EXCEPT ![s] = r0]
      /\ r0.done /\ ~r0.broken /\ ~r0.cancel => r0.todo = {}
  BY RunFacts DEF Ask, At, RunFine, Phased, RunRecord
<1>2. CASE r0.cancel /\ Goto(s, w, "ended") /\ UNCHANGED run
  <2>x. PICK x \in WorkerRecord : worker' = [worker EXCEPT ![s][w] = x] /\ x.pc = "ended"
    BY <1>2, GotoFacts DEF Points
  <2>1. PICK us : /\ us = [ws EXCEPT ![w] = x] /\ us[w] = x
                  /\ \A y \in Workers \ {w} : us[y] = ws[y]
    BY Moved
  <2>m. us[w].pc = "ended" /\ \A y \in Workers \ {w} : us[y] = ws[y]
    BY <2>x, <2>1
  <2>2. x.pc \notin Busy /\ ws[w].pc \notin Busy
    BY <1>1, <2>x, <2>1 DEF Busy, Holding
  <2>3. Queued(r0.queue, us)
    BY <1>1, <2>m, QueuedSame
  <2> QED
    BY <1>1, <1>2, <2>x, <2>1, <2>2, <2>3, TurnStep
<1>3. CASE /\ ~r0.cancel
           /\ run' = [run EXCEPT ![s].queue = Append(@, w)]
           /\ Goto(s, w, "queued")
  <2> DEFINE r == [r0 EXCEPT !.queue = Append(@, w)]
  <2>x. PICK x \in WorkerRecord : worker' = [worker EXCEPT ![s][w] = x] /\ x.pc = "queued"
    BY <1>3, GotoFacts DEF Points
  <2>1. PICK us : /\ us = [ws EXCEPT ![w] = x] /\ us[w] = x
                  /\ \A y \in Workers \ {w} : us[y] = ws[y]
    BY Moved
  <2>m. us[w].pc = "queued" /\ \A y \in Workers \ {w} : us[y] = ws[y]
    BY <2>x, <2>1
  <2>2. x.pc \notin Busy /\ ws[w].pc \notin Busy
    BY <1>1, <2>x, <2>1 DEF Busy, Holding
  <2>3. Append(r0.queue, w) \in Seq(Workers) /\ Queued(Append(r0.queue, w), us)
    BY <1>1, <2>m, QueuedAppend
  <2>4. /\ r \in RunRecord /\ run' = [run EXCEPT ![s] = r] /\ r.pc = "running"
        /\ r.queue = Append(r0.queue, w) /\ r.known = r0.known
        /\ r.todo = r0.todo /\ r.listed = r0.listed /\ r.done = r0.done
        /\ r.broken = r0.broken /\ r.cancel = r0.cancel /\ r.found = r0.found
        /\ r.processed = r0.processed /\ r.skipped = r0.skipped /\ r.failed = r0.failed
    BY <1>1, <1>3, <2>3 DEF RunRecord
  <2> HIDE DEF r
  <2> QED
    BY <1>1, <2>x, <2>1, <2>2, <2>3, <2>4, TurnStep
<1> QED
  BY <1>2, <1>3 DEF Ask

LEMMA PullStep == ASSUME IInv, NEW s \in Runs, NEW w \in Workers, Pull(s, w) PROVE IInv'
<1> DEFINE r0 == run[s]
           ws == worker[s]
<1>1. /\ r0.pc = "running" /\ ws[w].pc = "queued" /\ r0 \in RunRecord
      /\ UNCHANGED <<ftp, content, tracked>>
      /\ Queued(r0.queue, ws) /\ r0.queue \in Seq(Workers) /\ run = [run EXCEPT ![s] = r0]
      /\ r0.queue # <<>> /\ r0.queue[1] = w
      /\ r0.done /\ ~r0.broken /\ ~r0.cancel => r0.todo = {}
  BY RunFacts DEF Pull, At, First, RunFine, Phased, RunRecord
<1>2. CASE /\ r0.done \/ r0.cancel
           /\ run' = [run EXCEPT ![s].queue = Tail(@)]
           /\ Goto(s, w, "ended")
  <2> DEFINE r == [r0 EXCEPT !.queue = Tail(@)]
  <2>x. PICK x \in WorkerRecord : worker' = [worker EXCEPT ![s][w] = x] /\ x.pc = "ended"
    BY <1>2, GotoFacts DEF Points
  <2>1. PICK us : /\ us = [ws EXCEPT ![w] = x] /\ us[w] = x
                  /\ \A y \in Workers \ {w} : us[y] = ws[y]
    BY Moved
  <2>m. us[w].pc = "ended" /\ \A y \in Workers \ {w} : us[y] = ws[y]
    BY <2>x, <2>1
  <2>2. x.pc \notin Busy /\ ws[w].pc \notin Busy
    BY <1>1, <2>x, <2>1 DEF Busy, Holding
  <2>3. Tail(r0.queue) \in Seq(Workers) /\ Queued(Tail(r0.queue), us)
    BY <1>1, <2>m, QueuedTail
  <2>4. /\ r \in RunRecord /\ run' = [run EXCEPT ![s] = r] /\ r.pc = "running"
        /\ r.queue = Tail(r0.queue) /\ r.known = r0.known
        /\ r.todo = r0.todo /\ r.listed = r0.listed /\ r.done = r0.done
        /\ r.broken = r0.broken /\ r.cancel = r0.cancel /\ r.found = r0.found
        /\ r.processed = r0.processed /\ r.skipped = r0.skipped /\ r.failed = r0.failed
    BY <1>1, <1>2, <2>3 DEF RunRecord
  <2> HIDE DEF r
  <2>5. r.done \/ r.cancel
    BY <1>2, <2>4
  <2>6. Queued(r.queue, [ws EXCEPT ![w] = x])
    BY <2>1, <2>3, <2>4
  <2> QED
    BY <1>1, <2>x, <2>2, <2>4, <2>5, <2>6, TurnStep
<1>3. CASE Goto(s, w, "reading") /\ UNCHANGED run
  <2>x. PICK x \in WorkerRecord : worker' = [worker EXCEPT ![s][w] = x] /\ x.pc = "reading"
    BY <1>3, GotoFacts DEF Points
  <2>1. PICK us : /\ us = [ws EXCEPT ![w] = x] /\ us[w] = x
                  /\ \A y \in Workers \ {w} : us[y] = ws[y]
    BY Moved
  <2>m. us[w].pc = "reading" /\ \A y \in Workers \ {w} : us[y] = ws[y]
    BY <2>x, <2>1
  <2>2. x.pc \notin Busy /\ ws[w].pc \notin Busy
    BY <1>1, <2>x, <2>1 DEF Busy, Holding
  <2>3. Queued(r0.queue, us)
    BY <1>1, <2>m, QueuedReads
  <2> QED
    BY <1>1, <1>3, <2>x, <2>1, <2>2, <2>3, TurnStep
<1> QED
  BY <1>2, <1>3 DEF Pull

LEMMA ReadStep == ASSUME IInv, NEW s \in Runs, NEW w \in Workers, Read(s, w) PROVE IInv'
<1> DEFINE r0 == run[s]
           ws == worker[s]
<1>1. /\ r0.pc = "running" /\ ws[w].pc = "reading" /\ r0 \in RunRecord
      /\ UNCHANGED <<ftp, content, tracked>>
      /\ Queued(r0.queue, ws) /\ r0.queue \in Seq(Workers) /\ r0.todo \subseteq Files
      /\ r0.done /\ ~r0.broken /\ ~r0.cancel => r0.todo = {}
  BY RunFacts DEF Read, At, RunFine, Phased, RunRecord
<1>2. r0.queue # <<>> /\ r0.queue[1] = w
  <2>1. \E i \in 1 .. Len(r0.queue) : r0.queue[i] = w
    BY <1>1 DEF Queued
  <2>2. r0.queue[1] = w
    BY <1>1 DEF Queued
  <2> QED
    BY <2>1, <2>2
<1>t. ASSUME NEW us, us[w].pc \notin {"queued", "reading"},
             \A y \in Workers \ {w} : us[y] = ws[y]
      PROVE  Tail(r0.queue) \in Seq(Workers) /\ Queued(Tail(r0.queue), us)
  BY <1>1, <1>2, <1>t, QueuedTail
<1>3. ASSUME NEW f \in r0.todo,
             run' = [run EXCEPT ![s].queue = Tail(@), ![s].todo = @ \ {f}, ![s].found = @ + 1],
             worker' = [worker EXCEPT ![s][w].pc = "check", ![s][w].f = f]
      PROVE  IInv'
  <2> DEFINE r == [r0 EXCEPT !.queue = Tail(@), !.todo = @ \ {f}, !.found = @ + 1]
  <2>x. PICK x \in WorkerRecord : /\ worker' = [worker EXCEPT ![s][w] = x]
                                  /\ x.pc = "check" /\ x.f = f
    <3> DEFINE x == [ws[w] EXCEPT !.pc = "check", !.f = f]
    <3>1. ws[w] \in WorkerRecord
      BY RunFacts
    <3>2. x \in WorkerRecord /\ x.pc = "check" /\ x.f = f
      BY <1>1, <3>1 DEF WorkerRecord, Points
    <3>3. worker' = [worker EXCEPT ![s][w] = x]
      BY <1>3, <3>1 DEF IInv, Typed
    <3> HIDE DEF x
    <3> QED
      BY <3>2, <3>3
  <2>1. PICK us : /\ us = [ws EXCEPT ![w] = x] /\ us[w] = x
                  /\ \A y \in Workers \ {w} : us[y] = ws[y]
    BY Moved
  <2>m. us[w].pc \notin {"queued", "reading"} /\ \A y \in Workers \ {w} : us[y] = ws[y]
    BY <2>x, <2>1
  <2>3. Tail(r0.queue) \in Seq(Workers) /\ Queued(Tail(r0.queue), us)
    BY <1>t, <2>m
  <2>4. /\ r \in RunRecord /\ run' = [run EXCEPT ![s] = r] /\ r.pc = "running"
        /\ r.queue = Tail(r0.queue) /\ r.known = r0.known
        /\ r.todo = r0.todo \ {f} /\ r.listed = r0.listed /\ r.done = r0.done
        /\ r.broken = r0.broken /\ r.cancel = r0.cancel /\ r.found = r0.found + 1
        /\ r.processed = r0.processed /\ r.skipped = r0.skipped /\ r.failed = r0.failed
    <3>1. r0.found \in Nat /\ r0.found + 1 \in Nat /\ r0.todo \ {f} \in SUBSET Files
      BY <1>1, Counters
    <3>2. r = [r0 EXCEPT !.queue = Tail(r0.queue), !.todo = r0.todo \ {f}, !.found = r0.found + 1]
      BY <1>1 DEF RunRecord
    <3>3. r \in RunRecord
      BY <1>1, <2>3, <3>1, <3>2 DEF RunRecord
    <3>4. run' = [run EXCEPT ![s] = r]
      BY <1>3
    <3> QED
      BY <1>1, <3>2, <3>3, <3>4 DEF RunRecord
  <2> HIDE DEF r
  <2>5. /\ x.pc \in Holding /\ x.pc \in Busy /\ ws[w].pc \notin Holding
        /\ x.pc \notin {"ended", "fail", "success", "import"}
    BY <1>1, <2>x DEF Holding, Busy
  <2>6. Left(r) = Left(r0) + (IF x.pc \in Holding THEN 1 ELSE 0)
                           - (IF ws[w].pc \in Holding THEN 1 ELSE 0)
    <3>1. Left(r) = Left(r0) + 1 /\ Left(r0) \in Int
      <4>1. r0.found \in Nat /\ r0.processed \in Nat /\ r0.skipped \in Nat /\ r0.failed \in Nat
        BY <1>1, Counters
      <4>2. /\ r.found = r0.found + 1 /\ r.processed = r0.processed
            /\ r.skipped = r0.skipped /\ r.failed = r0.failed
        BY <2>4
      <4> HIDE DEF r0
      <4> QED
        BY <4>1, <4>2 DEF Left
    <3> QED
      BY <2>5, <3>1
  <2>7. Queued(r.queue, [ws EXCEPT ![w] = x]) /\ r0.failed <= r.failed
    BY <1>1, <2>1, <2>3, <2>4 DEF RunRecord
  <2>8. r.todo \subseteq r0.todo /\ x.f \in Files /\ x.f \notin r.todo /\ x.f \in r0.todo
        /\ (r.done /\ ~r.broken /\ ~r.cancel => r.todo = {})
    BY <1>1, <2>4, <2>x
  <2>9. \A g \in Files \ TooBig :
            \/ g \in r.todo
            \/ x.pc \in Holding /\ x.f = g
            \/ g \notin r0.todo /\ ~(ws[w].pc \in Holding /\ ws[w].f = g)
    BY <2>4, <2>5, <2>x
  <2> QED
    BY <1>1, <2>x, <2>4, <2>5, <2>6, <2>7, <2>8, <2>9, LocalStep
<1>4. ASSUME NEW broken \in BOOLEAN, IF broken THEN r0.found = 0 ELSE r0.todo = {} \/ r0.cancel,
             run' = [run EXCEPT ![s].queue = Tail(@), ![s].done = TRUE,
                                ![s].broken = @ \/ broken],
             Goto(s, w, "ended")
      PROVE  IInv'
  <2>x. PICK x \in WorkerRecord : worker' = [worker EXCEPT ![s][w] = x] /\ x.pc = "ended"
    BY <1>4, GotoFacts DEF Points
  <2>1. PICK us : /\ us = [ws EXCEPT ![w] = x] /\ us[w] = x
                  /\ \A y \in Workers \ {w} : us[y] = ws[y]
    BY Moved
  <2>m. us[w].pc \notin {"queued", "reading"} /\ \A y \in Workers \ {w} : us[y] = ws[y]
    BY <2>x, <2>1
  <2>2. x.pc \notin Busy /\ ws[w].pc \notin Busy
    BY <1>1, <2>x DEF Busy, Holding
  <2>3. Tail(r0.queue) \in Seq(Workers) /\ Queued(Tail(r0.queue), us)
    BY <1>t, <2>m
  <2>4. PICK r \in RunRecord :
        /\ run' = [run EXCEPT ![s] = r] /\ r.pc = "running"
        /\ r.queue = Tail(r0.queue) /\ r.known = r0.known
        /\ r.todo = r0.todo /\ r.listed = r0.listed /\ r.done = TRUE
        /\ (r0.broken => r.broken) /\ (~r.broken => r0.todo = {} \/ r0.cancel)
        /\ r.cancel = r0.cancel /\ r.found = r0.found
        /\ r.processed = r0.processed /\ r.skipped = r0.skipped /\ r.failed = r0.failed
    <3> DEFINE Ended(b) == [r0 EXCEPT !.queue = Tail(@), !.done = TRUE, !.broken = b]
    <3>1. r0.broken \in BOOLEAN
      BY <1>1 DEF RunRecord
    <3>2. \/ run' = [run EXCEPT ![s] = Ended(TRUE)]
          \/ run' = [run EXCEPT ![s] = Ended(FALSE)] /\ ~r0.broken /\ ~broken
      <4>1. run' = [run EXCEPT ![s] = Ended(r0.broken \/ broken)]
        BY <1>4
      <4>2. CASE r0.broken \/ broken
        <5>1. (r0.broken \/ broken) = TRUE
          BY <4>2
        <5> QED
          BY <4>1, <5>1
      <4>3. CASE ~(r0.broken \/ broken)
        <5>1. (r0.broken \/ broken) = FALSE
          BY <4>3
        <5> QED
          BY <4>1, <4>3, <5>1
      <4> QED
        BY <4>2, <4>3
    <3>3. CASE run' = [run EXCEPT ![s] = Ended(TRUE)]
      <4>1. Ended(TRUE) \in RunRecord
        BY <1>1, <2>3 DEF RunRecord
      <4> QED
        BY <1>1, <3>3, <4>1 DEF RunRecord
    <3>4. CASE run' = [run EXCEPT ![s] = Ended(FALSE)] /\ ~r0.broken /\ ~broken
      <4>1. Ended(FALSE) \in RunRecord
        BY <1>1, <2>3 DEF RunRecord
      <4> QED
        BY <1>1, <1>4, <3>4, <4>1 DEF RunRecord
    <3> QED
      BY <3>2, <3>3, <3>4
  <2>5. Queued(r.queue, [ws EXCEPT ![w] = x])
    BY <2>1, <2>3, <2>4
  <2>6. r.done /\ ~r.broken /\ ~r.cancel => r.todo = {}
    BY <2>4
  <2> QED
    BY <1>1, <2>x, <2>2, <2>4, <2>5, <2>6, TurnStep
<1> QED
  BY <1>1, <1>3, <1>4 DEF Read

\* The counter of what came of a file, and of the file that leaves a worker's hands.
LEMMA LeftStep ==
    ASSUME NEW r0 \in RunRecord, NEW r, r.found = r0.found,
           \/ /\ r.processed = r0.processed + 1
              /\ r.skipped = r0.skipped /\ r.failed = r0.failed
           \/ /\ r.skipped = r0.skipped + 1
              /\ r.processed = r0.processed /\ r.failed = r0.failed
           \/ /\ r.failed = r0.failed + 1
              /\ r.processed = r0.processed /\ r.skipped = r0.skipped
    PROVE  Left(r) = Left(r0) - 1 /\ Left(r0) \in Int
<1>1. r0.found \in Nat /\ r0.processed \in Nat /\ r0.skipped \in Nat /\ r0.failed \in Nat
  BY Counters
<1> QED
  BY <1>1 DEF Left

\* What a worker with a file knows.
LEMMA BusyFacts ==
    ASSUME IInv, NEW s \in Runs, NEW w \in Workers, worker[s][w].pc \in Busy
    PROVE  /\ run[s].pc = "running" /\ run[s] \in RunRecord /\ worker[s][w] \in WorkerRecord
           /\ worker[s][w].f \in Files /\ worker[s][w].f \notin run[s].todo
           /\ run[s].queue \in Seq(Workers) /\ Queued(run[s].queue, worker[s])
           /\ run = [run EXCEPT ![s] = run[s]]
           /\ run[s].done /\ ~run[s].broken /\ ~run[s].cancel => run[s].todo = {}
           /\ run[s].listed[worker[s][w].f] <= ftp[worker[s][w].f]
           /\ \A f \in Files : run[s].listed[f] \in Int /\ run[s].known[f].stat \in Int
<1>1. worker[s][w].pc \notin {"loop", "ended"}
  BY DEF Busy, Holding
<1>2. run[s] \in RunRecord /\ worker[s][w] \in WorkerRecord /\ RunFine(run[s], worker[s])
      /\ Past(run[s], worker[s]) /\ run = [run EXCEPT ![s] = run[s]]
  BY RunFacts
<1>3. run[s].pc = "running"
  BY <1>1, <1>2 DEF RunFine, Phased, RunRecord
<1>4. worker[s][w].f \in Files /\ worker[s][w].f \notin run[s].todo
  BY <1>2 DEF RunFine, Handed
<1>5. \A f \in Files : run[s].listed[f] \in Int /\ run[s].known[f].stat \in Int
  BY <1>2 DEF RunRecord, Rows
<1>6. run[s].queue \in Seq(Workers)
  BY <1>2 DEF RunRecord
<1> QED
  BY <1>2, <1>3, <1>4, <1>5, <1>6 DEF RunFine, Phased, Past

\* The queue when a worker that is not in it stays out of it.
LEMMA QueueStays ==
    ASSUME IInv, NEW s \in Runs, NEW w \in Workers, NEW x \in WorkerRecord,
           worker[s][w].pc \in Busy, x.pc \notin {"queued", "reading"}
    PROVE  Queued(run[s].queue, [worker[s] EXCEPT ![w] = x])
<1>1. PICK us : /\ us = [worker[s] EXCEPT ![w] = x] /\ us[w] = x
                /\ \A y \in Workers \ {w} : us[y] = worker[s][y]
  BY Moved
<1>2. us[w].pc \notin {"queued", "reading"} /\ \A y \in Workers \ {w} : us[y] = worker[s][y]
  BY <1>1
<1>3. worker[s][w].pc \notin {"queued", "reading"}
  BY DEF Busy, Holding
<1>4. run[s].queue \in Seq(Workers) /\ Queued(run[s].queue, worker[s])
  BY BusyFacts
<1>5. Queued(run[s].queue, us)
  BY <1>2, <1>3, <1>4, QueuedSame
<1> QED
  BY <1>1, <1>5

\* Nothing but one counter of the run moves.
Counts(r, r0) ==
    /\ r \in RunRecord /\ r.pc = r0.pc /\ r.queue = r0.queue /\ r.known = r0.known
    /\ r.todo = r0.todo /\ r.listed = r0.listed /\ r.done = r0.done
    /\ r.broken = r0.broken /\ r.cancel = r0.cancel /\ r0.failed <= r.failed
    /\ Left(r) = Left(r0) - 1 /\ Left(r0) \in Int

LEMMA CountFacts ==
    ASSUME NEW r0 \in RunRecord, NEW r,
           \/ r = [r0 EXCEPT !.processed = r0.processed + 1]
           \/ r = [r0 EXCEPT !.skipped = r0.skipped + 1]
           \/ r = [r0 EXCEPT !.failed = r0.failed + 1]
    PROVE  Counts(r, r0)
<1>n. r0.found \in Nat /\ r0.processed \in Nat /\ r0.skipped \in Nat /\ r0.failed \in Nat
  BY Counters
<1>m. r0.processed + 1 \in Nat /\ r0.skipped + 1 \in Nat /\ r0.failed + 1 \in Nat
  BY <1>n
<1>1. CASE r = [r0 EXCEPT !.processed = r0.processed + 1]
  <2>1. r \in RunRecord
    BY <1>n, <1>m, <1>1 DEF RunRecord
  <2>2. /\ r.pc = r0.pc /\ r.queue = r0.queue /\ r.known = r0.known
        /\ r.todo = r0.todo /\ r.listed = r0.listed /\ r.done = r0.done
        /\ r.broken = r0.broken /\ r.cancel = r0.cancel /\ r.found = r0.found
        /\ r.processed = r0.processed + 1 /\ r.skipped = r0.skipped /\ r.failed = r0.failed
    BY <1>1 DEF RunRecord
  <2>3. Left(r) = Left(r0) - 1 /\ Left(r0) \in Int
    BY <2>2, LeftStep
  <2>4. r0.failed <= r.failed
    BY <1>n, <2>2
  <2> QED
    BY <2>1, <2>2, <2>3, <2>4 DEF Counts
<1>2. CASE r = [r0 EXCEPT !.skipped = r0.skipped + 1]
  <2>1. r \in RunRecord
    BY <1>n, <1>m, <1>2 DEF RunRecord
  <2>2. /\ r.pc = r0.pc /\ r.queue = r0.queue /\ r.known = r0.known
        /\ r.todo = r0.todo /\ r.listed = r0.listed /\ r.done = r0.done
        /\ r.broken = r0.broken /\ r.cancel = r0.cancel /\ r.found = r0.found
        /\ r.skipped = r0.skipped + 1 /\ r.processed = r0.processed /\ r.failed = r0.failed
    BY <1>2 DEF RunRecord
  <2>3. Left(r) = Left(r0) - 1 /\ Left(r0) \in Int
    BY <2>2, LeftStep
  <2>4. r0.failed <= r.failed
    BY <1>n, <2>2
  <2> QED
    BY <2>1, <2>2, <2>3, <2>4 DEF Counts
<1>3. CASE r = [r0 EXCEPT !.failed = r0.failed + 1]
  <2>1. r \in RunRecord
    BY <1>n, <1>m, <1>3 DEF RunRecord
  <2>2. /\ r.pc = r0.pc /\ r.queue = r0.queue /\ r.known = r0.known
        /\ r.todo = r0.todo /\ r.listed = r0.listed /\ r.done = r0.done
        /\ r.broken = r0.broken /\ r.cancel = r0.cancel /\ r.found = r0.found
        /\ r.failed = r0.failed + 1 /\ r.processed = r0.processed /\ r.skipped = r0.skipped
    BY <1>3 DEF RunRecord
  <2>3. Left(r) = Left(r0) - 1 /\ Left(r0) \in Int
    BY <2>2, LeftStep
  <2>4. r0.failed <= r.failed
    BY <1>n, <2>2
  <2> QED
    BY <2>1, <2>2, <2>3, <2>4 DEF Counts
<1> QED
  BY <1>1, <1>2, <1>3

LEMMA LoopFacts ==
    ASSUME IInv, NEW s \in Runs, NEW w \in Workers
    PROVE  /\ NewWorker \in WorkerRecord /\ NewWorker.pc = "loop" /\ NewWorker.pc \notin Busy
           /\ NewWorker.pc \notin Holding
  BY DeltaSyncAssumption DEF NewWorker, WorkerRecord, Points, Busy, Holding

\* A worker goes on with its file.
LEMMA CarryOnStep ==
    ASSUME IInv, NEW s \in Runs, NEW w \in Workers, NEW x \in WorkerRecord,
           worker[s][w].pc \in Holding, worker' = [worker EXCEPT ![s][w] = x],
           UNCHANGED <<ftp, content, tracked, run>>,
           x.pc \in {"download", "import"}, x.f = worker[s][w].f,
           x.pc = "import" => x.v = ftp[x.f]
    PROVE  IInv'
<1> DEFINE ws == worker[s]
<1>0. PICK r0 : r0 = run[s]
  OBVIOUS
<1>1. ws[w].pc \in Busy /\ x.pc \in Holding /\ x.pc \in Busy
      /\ x.pc \notin {"queued", "reading", "ended", "fail", "success"}
  BY DEF Busy, Holding
<1>2. /\ r0 \in RunRecord /\ x.f \in Files /\ x.f \notin r0.todo /\ r0.pc = "running"
      /\ run' = [run EXCEPT ![s] = r0]
      /\ r0.listed[x.f] <= ftp[x.f]
      /\ r0.done /\ ~r0.broken /\ ~r0.cancel => r0.todo = {}
  BY <1>0, <1>1, BusyFacts
<1>3. Queued(r0.queue, [ws EXCEPT ![w] = x])
  BY <1>0, <1>1, QueueStays
<1>4. r0.found \in Nat /\ r0.processed \in Nat /\ r0.skipped \in Nat /\ r0.failed \in Nat
  BY <1>2, Counters
<1>5. Left(r0) \in Int /\ r0.failed <= r0.failed
  BY <1>4 DEF Left
<1>6. Left(r0) = Left(r0) + (IF x.pc \in Holding THEN 1 ELSE 0)
                          - (IF ws[w].pc \in Holding THEN 1 ELSE 0)
  BY <1>1, <1>5
<1>7. x.pc = "import" => r0.listed[x.f] <= x.v /\ x.v = ftp[x.f]
  BY <1>2
<1>8. x.pc \in Busy => /\ x.f \in Files /\ x.f \notin r0.todo
                       /\ (ws[w].pc \in Busy /\ x.f = ws[w].f) \/ x.f \in run[s].todo
  BY <1>1, <1>2
<1>9. Isolated =>
        \A f \in Files \ TooBig :
            \/ r0.failed > 0 \/ r0.cancel \/ r0.broken
            \/ f \in r0.todo
            \/ x.pc \in Holding /\ x.f = f
            \/ r0.listed[f] <= content[f]
            \/ f \notin run[s].todo /\ ~(ws[w].pc \in Holding /\ ws[w].f = f)
  BY <1>0, <1>1
<1>10. x.pc # "ended" /\ x.pc # "fail" /\ x.pc # "success"
  BY <1>1
<1>11. /\ run[s].pc = "running" /\ r0.listed = run[s].listed /\ r0.known = run[s].known
       /\ r0.todo \subseteq run[s].todo /\ run[s].failed <= r0.failed
       /\ (run[s].done => r0.done) /\ (run[s].cancel => r0.cancel)
       /\ (run[s].broken => r0.broken) /\ Left(r0) = Left(run[s])
  BY <1>0, <1>2, <1>5
<1>12. Left(r0) = Left(run[s]) + (IF x.pc \in Holding THEN 1 ELSE 0)
                               - (IF ws[w].pc \in Holding THEN 1 ELSE 0)
  BY <1>6, <1>11
<1> QED
  BY <1>2, <1>3, <1>7, <1>8, <1>9, <1>10, <1>11, <1>12, LocalStep

LEMMA CheckStep == ASSUME IInv, NEW s \in Runs, NEW w \in Workers, Check(s, w) PROVE IInv'
<1> DEFINE r0 == run[s]
           ws == worker[s]
           f == ws[w].f
<1>1. ws[w].pc = "check" /\ ws[w].pc \in Busy /\ ws[w].pc \in Holding
      /\ UNCHANGED <<ftp, content, tracked>>
  BY DEF Check, At, Busy, Holding
<1>2. /\ r0.pc = "running" /\ r0 \in RunRecord /\ f \in Files /\ f \notin r0.todo
      /\ r0.queue \in Seq(Workers)
      /\ run = [run EXCEPT ![s] = r0]
      /\ r0.done /\ ~r0.broken /\ ~r0.cancel => r0.todo = {}
  BY <1>1, BusyFacts
<1>3. CASE /\ Unchanged(s, f) \/ f \in TooBig
           /\ run' = [run EXCEPT ![s].skipped = @ + 1] /\ Loop(s, w)
  <2> DEFINE x == NewWorker
             r == [r0 EXCEPT !.skipped = r0.skipped + 1]
  <2>1. /\ x \in WorkerRecord /\ x.pc = "loop" /\ x.pc \notin Busy /\ x.pc \notin Holding
        /\ worker' = [worker EXCEPT ![s][w] = x]
    BY <1>3, LoopFacts DEF Loop
  <2>2. Counts(r, r0) /\ run' = [run EXCEPT ![s] = r]
    BY <1>2, <1>3, CountFacts
  <2>3. Queued(r0.queue, [ws EXCEPT ![w] = x])
    BY <1>1, <2>1, QueueStays
  <2>4. Isolated /\ f \notin TooBig => r0.listed[f] <= content[f]
    <3>1. Isolated => Imported(r0.known, content)
      BY RunFacts DEF CaughtUp
    <3> QED
      BY <1>2, <1>3, <3>1 DEF Unchanged, Stat, Imported
  <2> HIDE DEF x, r
  <2>5. Left(r) = Left(r0) + (IF x.pc \in Holding THEN 1 ELSE 0)
                           - (IF ws[w].pc \in Holding THEN 1 ELSE 0)
    BY <1>1, <2>1, <2>2 DEF Counts
  <2>6. Isolated => \A g \in Files \ TooBig :
            \/ g \in r.todo
            \/ r.listed[g] <= content[g]
            \/ g \notin r0.todo /\ ~(ws[w].pc \in Holding /\ ws[w].f = g)
    BY <2>2, <2>4 DEF Counts
  <2>7. /\ r \in RunRecord /\ r.pc = "running" /\ r.listed = r0.listed /\ r.known = r0.known
        /\ r.todo \subseteq r0.todo /\ (r0.done => r.done) /\ (r0.cancel => r.cancel)
        /\ (r0.broken => r.broken) /\ r0.failed <= r.failed /\ r.queue = r0.queue
        /\ (r.done /\ ~r.broken /\ ~r.cancel => r.todo = {})
    BY <1>2, <2>2 DEF Counts
  <2>8. x.pc # "ended" /\ x.pc # "fail" /\ x.pc # "success" /\ x.pc # "import"
    BY <2>1
  <2>9. Queued(r.queue, [ws EXCEPT ![w] = x])
    BY <2>3, <2>7
  <2>10. Isolated =>
            \A g \in Files \ TooBig :
                \/ r.failed > 0 \/ r.cancel \/ r.broken
                \/ g \in r.todo
                \/ x.pc \in Holding /\ x.f = g
                \/ r.listed[g] <= content[g]
                \/ g \notin r0.todo /\ ~(ws[w].pc \in Holding /\ ws[w].f = g)
    BY <2>6
  <2> QED
    BY <1>1, <1>2, <2>1, <2>2, <2>5, <2>7, <2>8, <2>9, <2>10, LocalStep
<1>4. CASE Goto(s, w, "download") /\ UNCHANGED run
  <2>x. PICK x \in WorkerRecord :
            worker' = [worker EXCEPT ![s][w] = x] /\ x.pc = "download" /\ x.f = f
    BY <1>4, GotoFacts DEF Points
  <2> QED
    BY <1>1, <1>4, <2>x, CarryOnStep
<1> QED
  BY <1>3, <1>4 DEF Check

\* A file that could not be downloaded, or not imported.
LEMMA FailStep ==
    ASSUME IInv, NEW s \in Runs, NEW w \in Workers, worker[s][w].pc \in Holding,
           CountFailed(s), Goto(s, w, "fail"), UNCHANGED <<ftp, content, tracked>>
    PROVE  IInv'
<1> DEFINE r0 == run[s]
           ws == worker[s]
           f == ws[w].f
           r == [r0 EXCEPT !.failed = r0.failed + 1]
<1>1. ws[w].pc \in Busy
  BY DEF Busy
<1>2. /\ r0.pc = "running" /\ r0 \in RunRecord /\ f \in Files /\ f \notin r0.todo
      /\ r0.done /\ ~r0.broken /\ ~r0.cancel => r0.todo = {}
  BY <1>1, BusyFacts
<1>x. PICK x \in WorkerRecord : worker' = [worker EXCEPT ![s][w] = x] /\ x.pc = "fail" /\ x.f = f
  BY GotoFacts DEF Points
<1>3. Counts(r, r0) /\ run' = [run EXCEPT ![s] = r]
  BY <1>2, CountFacts DEF CountFailed
<1>4. r.failed > 0
  <2>1. r0.failed \in Nat
    BY <1>2, Counters
  <2> QED
    BY <1>2, <2>1 DEF RunRecord
<1>5. Queued(r0.queue, [ws EXCEPT ![w] = x])
  BY <1>1, <1>x, QueueStays
<1> HIDE DEF r
<1>6. x.pc \notin Holding
  BY <1>x DEF Holding
<1>7. Left(r) = Left(r0) + (IF x.pc \in Holding THEN 1 ELSE 0)
                         - (IF ws[w].pc \in Holding THEN 1 ELSE 0)
  BY <1>3, <1>6 DEF Counts
<1> QED
  BY <1>1, <1>2, <1>x, <1>3, <1>4, <1>5, <1>6, <1>7, LocalStep DEF Counts

LEMMA DownloadStep == ASSUME IInv, NEW s \in Runs, NEW w \in Workers, Download(s, w) PROVE IInv'
<1> DEFINE r0 == run[s]
           ws == worker[s]
           f == ws[w].f
<1>1. ws[w].pc = "download" /\ ws[w].pc \in Busy /\ ws[w].pc \in Holding
      /\ UNCHANGED <<ftp, content, tracked>>
  BY DEF Download, At, Busy, Holding
<1>2. /\ r0.pc = "running" /\ r0 \in RunRecord /\ f \in Files /\ f \notin r0.todo
      /\ run = [run EXCEPT ![s] = r0] /\ ws[w] \in WorkerRecord
      /\ r0.listed[f] <= ftp[f]
      /\ r0.done /\ ~r0.broken /\ ~r0.cancel => r0.todo = {}
  BY <1>1, BusyFacts
<1>3. CASE worker' = [worker EXCEPT ![s][w].pc = "import", ![s][w].v = ftp[worker[s][w].f]]
           /\ UNCHANGED run
  <2>x. PICK x \in WorkerRecord : /\ worker' = [worker EXCEPT ![s][w] = x]
                                  /\ x.pc = "import" /\ x.f = f /\ x.v = ftp[f]
    <3> DEFINE x == [ws[w] EXCEPT !.pc = "import", !.v = ftp[f]]
    <3>1. ftp[f] \in 0 .. MaxVersion
      BY <1>2 DEF IInv, Typed, Versions
    <3>2. x \in WorkerRecord /\ x.pc = "import" /\ x.f = f /\ x.v = ftp[f]
      BY <1>2, <3>1 DEF WorkerRecord, Points
    <3>3. worker' = [worker EXCEPT ![s][w] = x]
      BY <1>3 DEF IInv, Typed
    <3> HIDE DEF x
    <3> QED
      BY <3>2, <3>3
  <2> QED
    BY <1>1, <1>3, <2>x, CarryOnStep
<1>4. CASE CountFailed(s) /\ Goto(s, w, "fail")
  BY <1>1, <1>4, FailStep
<1> QED
  BY <1>1, <1>3, <1>4 DEF Download

LEMMA ImportStep == ASSUME IInv, NEW s \in Runs, NEW w \in Workers, Import(s, w) PROVE IInv'
<1> DEFINE r0 == run[s]
           ws == worker[s]
           f == ws[w].f
           v == ws[w].v
<1>1. ws[w].pc = "import" /\ ws[w].pc \in Busy /\ ws[w].pc \in Holding
      /\ UNCHANGED <<ftp, tracked>>
  BY DEF Import, At, Busy, Holding
<1>2. /\ r0.pc = "running" /\ r0 \in RunRecord /\ f \in Files /\ f \notin r0.todo
      /\ ws[w] \in WorkerRecord
      /\ r0.done /\ ~r0.broken /\ ~r0.cancel => r0.todo = {}
  BY <1>1, BusyFacts
<1>3. CASE /\ content' = [content EXCEPT ![f] = v]
           /\ run' = [run EXCEPT ![s].processed = @ + 1] /\ Goto(s, w, "success")
  <2> DEFINE r == [r0 EXCEPT !.processed = r0.processed + 1]
  <2>x. PICK x \in WorkerRecord :
            worker' = [worker EXCEPT ![s][w] = x] /\ x.pc = "success" /\ x.f = f
    BY <1>3, GotoFacts DEF Points
  <2>1. x.pc \notin Holding /\ x.pc \in Busy
    BY <2>x DEF Busy, Holding
  <2>2. Counts(r, r0) /\ run' = [run EXCEPT ![s] = r]
    BY <1>2, <1>3, CountFacts
  <2>3. Queued(r0.queue, [ws EXCEPT ![w] = x])
    BY <1>1, <2>x, QueueStays
  <2> HIDE DEF r
  <2>5. Left(r) = Left(r0) + (IF x.pc \in Holding THEN 1 ELSE 0)
                           - (IF ws[w].pc \in Holding THEN 1 ELSE 0)
    BY <1>1, <2>1, <2>2 DEF Counts
  <2>6. /\ r0.listed[f] <= v /\ v <= ftp[f]
        /\ Isolated => content[f] <= v /\ Imported(tracked, content)
    BY <1>1, RunFacts DEF Past, CaughtUp
  <2>7. /\ content' \in [Files -> 0 .. MaxVersion] /\ v \in 0 .. MaxVersion
        /\ \A g \in Files : content'[g] = IF g = f THEN v ELSE content[g]
        /\ tracked' \in [Files -> Rows]
        /\ \A g \in Files : content[g] <= ftp[g] /\ content[g] \in Int /\ tracked[g].stat \in Int
    <3>1. \A g \in Files : tracked[g].stat \in Int
      BY RunFacts DEF Rows
    <3>2. v \in 0 .. MaxVersion
      BY <1>2 DEF WorkerRecord
    <3> HIDE DEF v, f
    <3> QED
      BY <1>1, <1>2, <1>3, <3>1, <3>2, RunFacts
  <2> HIDE DEF v, f
  <2>8. /\ \A g \in Files : content'[g] <= ftp[g]
        /\ \A g \in Files : content'[g] = content[g] \/ g = f
        /\ Isolated => \A g \in Files : content[g] <= content'[g]
        /\ r0.listed[f] <= content'[f]
    BY <1>2, <2>6, <2>7
  <2>9. Isolated => Imported(tracked', content')
    BY <1>1, <2>6, <2>7, <2>8 DEF Imported
  <2>10. Isolated => \A g \in Files \ TooBig :
            \/ g \in r.todo
            \/ r.listed[g] <= content'[g]
            \/ g \notin r0.todo /\ ~(ws[w].pc \in Holding /\ ws[w].f = g)
    BY <2>2, <2>8 DEF Counts, f
  <2>11. /\ x.f = ws[w].f /\ x.f \in Files /\ x.f \notin r.todo /\ r.todo \subseteq r0.todo
         /\ x.pc \notin {"ended", "fail", "import"}
         /\ r.listed[x.f] <= content'[x.f]
         /\ \A g \in Files : content'[g] = content[g] \/ (ws[w].pc \in Busy /\ ws[w].f = g)
    BY <1>1, <1>2, <2>x, <2>2, <2>8 DEF Counts, f
  <2>12. /\ r \in RunRecord /\ r.pc = "running" /\ r.listed = r0.listed /\ r.known = r0.known
         /\ (r0.done => r.done) /\ (r0.cancel => r.cancel)
         /\ (r0.broken => r.broken) /\ r0.failed <= r.failed /\ r.queue = r0.queue
         /\ (r.done /\ ~r.broken /\ ~r.cancel => r.todo = {})
    BY <1>2, <2>2 DEF Counts
  <2>13. x.pc # "ended" /\ x.pc # "fail" /\ x.pc # "import"
    BY <2>11
  <2>14. Queued(r.queue, [ws EXCEPT ![w] = x])
    BY <2>3, <2>12
  <2>15. /\ \A g \in Files : content'[g] <= ftp[g]
         /\ content' \in [Files -> 0 .. MaxVersion] /\ tracked' \in [Files -> Rows]
    BY <2>7, <2>8
  <2>16. x.pc \in Busy => /\ x.f \in Files /\ x.f \notin r.todo
                          /\ (ws[w].pc \in Busy /\ x.f = ws[w].f) \/ x.f \in r0.todo
    BY <1>1, <2>11
  <2>17. Isolated =>
            /\ \A g \in Files : content[g] <= content'[g]
            /\ Imported(tracked', content')
            /\ x.pc = "import" => content'[x.f] <= x.v
            /\ x.pc = "success" => r.listed[x.f] <= content'[x.f]
            /\ \A g \in Files \ TooBig :
                 \/ r.failed > 0 \/ r.cancel \/ r.broken
                 \/ g \in r.todo
                 \/ x.pc \in Holding /\ x.f = g
                 \/ r.listed[g] <= content'[g]
                 \/ g \notin r0.todo /\ ~(ws[w].pc \in Holding /\ ws[w].f = g)
    BY <2>8, <2>9, <2>10, <2>11
  <2> QED
    BY <1>1, <1>2, <2>x, <2>2, <2>5, <2>11, <2>12, <2>13, <2>14, <2>15, <2>16, <2>17, WorkerStep
<1>4. CASE CountFailed(s) /\ Goto(s, w, "fail") /\ UNCHANGED content
  BY <1>1, <1>4, FailStep
<1> QED
  BY <1>3, <1>4 DEF Import

LEMMA TrackStep == ASSUME IInv, NEW s \in Runs, NEW w \in Workers, Track(s, w) PROVE IInv'
<1> DEFINE r0 == run[s]
           ws == worker[s]
           f == ws[w].f
           x == NewWorker
           row == Row(Stat(r0.listed[f]), IF ws[w].pc = "success" THEN "success" ELSE "failed")
<1>1. ws[w].pc \in {"success", "fail"} /\ ws[w].pc \in Busy /\ ws[w].pc \notin Holding
      /\ UNCHANGED <<ftp, content, run>>
      /\ tracked' \in {tracked, [tracked EXCEPT ![f] = row]}
  BY DEF Track, Busy, Holding
<1>2. /\ r0.pc = "running" /\ r0 \in RunRecord /\ f \in Files /\ f \notin r0.todo
      /\ run = [run EXCEPT ![s] = r0]
      /\ r0.done /\ ~r0.broken /\ ~r0.cancel => r0.todo = {}
  BY <1>1, BusyFacts
<1>3. /\ x \in WorkerRecord /\ x.pc = "loop" /\ x.pc \notin Busy /\ x.pc \notin Holding
      /\ worker' = [worker EXCEPT ![s][w] = x]
  BY LoopFacts DEF Loop, Track
<1>4. Queued(r0.queue, [ws EXCEPT ![w] = x])
  BY <1>1, <1>3, QueueStays
<1>5. /\ row \in Rows /\ row.stat = r0.listed[f]
      /\ row.status = IF ws[w].pc = "success" THEN "success" ELSE "failed"
  <2>1. r0.listed[f] \in 0 .. MaxVersion
    BY <1>2 DEF RunRecord
  <2> QED
    BY <2>1 DEF Rows, Row, Stat
<1> HIDE DEF row, x
<1>6. /\ tracked' \in [Files -> Rows] /\ content' = content
      /\ \A g \in Files : tracked'[g] = tracked[g] \/ (g = f /\ tracked'[g] = row)
      /\ content \in [Files -> 0 .. MaxVersion]
      /\ \A g \in Files : content[g] \in Int /\ content[g] <= ftp[g]
  BY <1>1, <1>2, <1>5, RunFacts
<1>7. Isolated => Imported(tracked', content')
  <2>1. Isolated => Imported(tracked, content)
    BY RunFacts
  <2>2. Isolated /\ ws[w].pc = "success" => r0.listed[f] <= content[f]
    BY RunFacts DEF CaughtUp
  <2> QED
    BY <1>5, <1>6, <2>1, <2>2 DEF Imported
<1>8. Left(r0) = Left(r0) + (IF x.pc \in Holding THEN 1 ELSE 0)
                          - (IF ws[w].pc \in Holding THEN 1 ELSE 0)
      /\ r0.failed <= r0.failed
  <2>1. r0.found \in Nat /\ r0.processed \in Nat /\ r0.skipped \in Nat /\ r0.failed \in Nat
    BY <1>2, Counters
  <2>2. Left(r0) \in Int
    BY <2>1 DEF Left
  <2> QED
    BY <1>1, <1>3, <2>1, <2>2
<1>9. /\ \A g \in Files : content'[g] <= ftp[g] /\ content[g] <= content'[g]
      /\ \A g \in Files : content'[g] = content[g]
      /\ content' \in [Files -> 0 .. MaxVersion]
  BY <1>6
<1> QED
  BY <1>1, <1>2, <1>3, <1>4, <1>6, <1>7, <1>8, <1>9, WorkerStep

-----------------------------------------------------------------------------
(* The server, and the next-state relation                                   *)

LEMMA PublishStep == ASSUME IInv, NEW f \in Files, Publish(f) PROVE IInv'
<1> USE DEF IInv
<1>1. /\ ftp \in [Files -> Versions] /\ MaxVersion \in Nat /\ ftp[f] < MaxVersion
      /\ ftp' = [ftp EXCEPT ![f] = ftp[f] + 1] /\ UNCHANGED <<content, tracked, run, worker>>
  BY DeltaSyncAssumption DEF Publish, Typed
<1>2. /\ ftp' \in [Files -> Versions]
      /\ \A g \in Files : ftp[g] \in Int /\ ftp'[g] \in Int /\ ftp[g] <= ftp'[g]
  BY <1>1 DEF Versions
<1>3. Typed'
  BY <1>1, <1>2 DEF Typed
<1>4. \A g \in Files : content[g] \in Int
  BY DEF Typed
<1>5. Old'
  BY <1>1, <1>2, <1>4 DEF Old
<1>6. \A s \in Runs : Past(run[s], worker[s])'
  <2> SUFFICES ASSUME NEW s \in Runs PROVE Past(run[s], worker[s])'
    OBVIOUS
  <2>1. /\ \A g \in Files : run[s].listed[g] \in Int
        /\ \A w \in Workers : worker[s][w].v \in Int
        /\ \A w \in Workers : worker[s][w].pc = "import" => worker[s][w].f \in Files
        /\ Past(run[s], worker[s])
    <3>1. run[s] \in RunRecord /\ worker[s] \in [Workers -> WorkerRecord]
          /\ Handed(run[s], worker[s]) /\ Past(run[s], worker[s])
      BY DEF Typed, RunFine
    <3>2. \A w \in Workers : worker[s][w] \in WorkerRecord
      BY <3>1
    <3>3. \A w \in Workers : worker[s][w].v \in Int
      BY <3>2 DEF WorkerRecord
    <3>4. \A g \in Files : run[s].listed[g] \in Int
      BY <3>1 DEF RunRecord
    <3> QED
      BY <3>1, <3>3, <3>4 DEF Handed, Busy, Holding
  <2> QED
    BY <1>1, <1>2, <2>1 DEF Past
<1>7. Isolated => Apart'
  BY <1>1 DEF Apart
<1>8. \A s \in Runs : RunFine(run[s], worker[s])'
  BY <1>1
<1> QED
  BY <1>3, <1>5, <1>6, <1>7, <1>8

LEMMA NextIInv == IInv /\ [Next]_vars => IInv'
<1> SUFFICES ASSUME IInv, [Next]_vars PROVE IInv'
  OBVIOUS
<1>1. ASSUME NEW s \in Runs, StartRun(s) \/ Cancel(s) \/ Step(s) PROVE IInv'
  BY <1>1, StartRunStep, CancelStep, ListStep, EndRunStep, AskStep, PullStep, ReadStep,
     CheckStep, DownloadStep, ImportStep, TrackStep DEF Step
<1>2. ASSUME NEW f \in Files, Publish(f) PROVE IInv'
  BY <1>2, PublishStep
<1>3. CASE UNCHANGED vars
  BY <1>3 DEF vars, IInv, Typed, Past, Old, Apart
<1> QED
  BY <1>1, <1>2, <1>3 DEF Next

-----------------------------------------------------------------------------
(* What the invariant says                                                   *)

LEMMA QueueBound ==
    ASSUME NEW q \in Seq(Workers), NEW ws, Queued(q, ws)
    PROVE  Len(q) <= Cardinality(Workers)
<1>1. Len(q) \in Nat /\ \A i \in 1 .. Len(q) : q[i] \in Workers
  BY QueueFacts
<1> DEFINE S == 1 .. Len(q)
           g == [i \in S |-> q[i]]
<1>2. g \in Injection(S, Workers)
  <2>1. g \in [S -> Workers]
    BY <1>1
  <2>2. \A i, j \in S : g[i] = g[j] => i = j
    BY DEF Queued
  <2> QED
    BY <2>1, <2>2 DEF Injection, IsInjective
<1>3. IsFiniteSet(S) /\ Cardinality(S) = Len(q)
  BY <1>1, FS_Interval
<1>4. IsFiniteSet(Workers)
  BY DeltaSyncAssumption
<1> HIDE DEF S, g
<1> QED
  BY <1>2, <1>3, <1>4, FS_Injection

LEMMA OneReads == ASSUME NEW q, NEW ws, Queued(q, ws)
                  PROVE  Cardinality({w \in Workers : ws[w].pc = "reading"}) <= 1
<1> DEFINE R == {w \in Workers : ws[w].pc = "reading"}
<1>1. R \subseteq {q[1]}
  BY DEF Queued
<1>2. IsFiniteSet({q[1]}) /\ Cardinality({q[1]}) = 1
  BY FS_Singleton
<1> HIDE DEF R
<1>3. IsFiniteSet(R) /\ Cardinality(R) <= 1
  BY <1>1, <1>2, FS_Subset
<1> QED
  BY <1>3 DEF R

LEMMA Sharing == IInv => StreamShared
<1> SUFFICES ASSUME IInv PROVE StreamShared
  OBVIOUS
<1>1. \A s \in Runs : /\ run[s] \in RunRecord /\ worker[s] \in [Workers -> WorkerRecord]
                      /\ Queued(run[s].queue, worker[s]) /\ Balanced(run[s], worker[s])
  BY DEF IInv, Typed, RunFine
<1>2. \A s \in Runs : Len(run[s].queue) <= Cardinality(Workers)
  <2> SUFFICES ASSUME NEW s \in Runs PROVE Len(run[s].queue) <= Cardinality(Workers)
    OBVIOUS
  <2>1. run[s].queue \in Seq(Workers)
    BY <1>1 DEF RunRecord
  <2> QED
    BY <1>1, <2>1, QueueBound
<1>3. TypeOK
  <2>1. \A s \in Runs : run[s].pc \in {"idle", "listing", "running", "over"}
                        /\ run[s].todo \subseteq Files
    BY <1>1 DEF RunRecord
  <2>2. \A s \in Runs : \A w \in Workers :
            /\ worker[s][w].f \in Files \cup {NoFile} /\ worker[s][w].v \in 0 .. MaxVersion
            /\ worker[s][w].pc \in Points
    <3> SUFFICES ASSUME NEW s \in Runs, NEW w \in Workers, worker[s][w] \in WorkerRecord
                 PROVE  /\ worker[s][w].f \in Files \cup {NoFile}
                        /\ worker[s][w].v \in 0 .. MaxVersion
                        /\ worker[s][w].pc \in Points
      BY <1>1
    <3> QED
      BY DEF WorkerRecord
  <2> QED
    BY <1>2, <2>1, <2>2 DEF TypeOK, IInv, Typed, Rows, Points
<1>4. OneReader
  BY <1>1, OneReads DEF OneReader
<1>5. AccountsBalance
  BY <1>1 DEF AccountsBalance, Balanced, Holders, Holding
<1> QED
  BY <1>3, <1>4, <1>5 DEF StreamShared

\* However the workers take turns, and whatever fails, the workers of a run share its stream:
\* one reads at a time, no more wait than there are, and every file found is counted once.
THEOREM RunsShareTheStream == Spec => []StreamShared
<1>1. IInv => StreamShared
  BY Sharing
<1> QED
  BY InitIInv, NextIInv, <1>1, PTL DEF Spec

\* If runs do not overlap, the delta sync never skips a file that is not imported as the
\* server has it, though versions change between the listing and the download.
THEOREM SkippingIsSafe == Spec => [](Isolated => SkipIsSafe)
<1>1. IInv => (Isolated => SkipIsSafe)
  <2> SUFFICES ASSUME IInv, Isolated, NEW f \in Files, tracked[f].status = "success",
                      tracked[f].stat = Stat(ftp[f])
               PROVE  content[f] = ftp[f]
    BY DEF SkipIsSafe
  <2>1. tracked[f].stat <= content[f] /\ content[f] <= ftp[f]
    BY DEF IInv, Apart, Imported, Old
  <2>2. content[f] \in Int /\ ftp[f] \in Int
    BY DEF IInv, Typed, Versions
  <2> QED
    BY <2>1, <2>2 DEF Stat
<1> QED
  BY InitIInv, NextIInv, <1>1, PTL DEF Spec

\* If runs do not overlap, and have a worker at all, one that is over without a failure, a
\* cancellation or a broken stream has brought every file of a legal size up to what it listed.
THEOREM RunsCatchUp == Spec => [](Isolated /\ Workers # {} => RunCatchesUp)
<1>1. IInv => (Isolated /\ Workers # {} => RunCatchesUp)
  <2> SUFFICES ASSUME IInv, Isolated, Workers # {}, NEW s \in Runs, run[s].pc = "over",
                      run[s].failed = 0, ~run[s].cancel, ~run[s].broken, NEW f \in Files \ TooBig
               PROVE  content[f] >= run[s].listed[f]
    BY DEF RunCatchesUp
  <2>1. CaughtUp(run[s], worker[s], content) /\ Phased(run[s], worker[s])
    BY DEF IInv, Apart, RunFine
  <2>2. run[s].todo = {} /\ \A w \in Workers : worker[s][w].pc \notin Holding
    BY <2>1 DEF Phased, Holding
  <2>3. run[s].listed[f] <= content[f]
    BY <2>1, <2>2 DEF CaughtUp
  <2>4. run[s].listed[f] \in Int /\ content[f] \in Int
    BY DEF IInv, Typed, RunRecord
  <2> QED
    BY <2>3, <2>4
<1> QED
  BY InitIInv, NextIInv, <1>1, PTL DEF Spec
=============================================================================
